---------------------------- MODULE EventOrder ----------------------------
(***************************************************************************)
(* What an event queue of sim/eventq.{hh,cc} promises to its callers, with *)
(* the linked lists abstracted away: the queued events in the order in     *)
(* which serviceOne() will take them.  EventQueue.tla models the pointers  *)
(* and implements this specification.                                      *)
(*                                                                         *)
(* Events are ordered by tick, then by priority, and events of one bin     *)
(* (equal tick and priority) are taken last-in first-out.                  *)
(***************************************************************************)
EXTENDS Events

VARIABLES order,      \* the queued events, the next one to service first
          when,       \* Event::_when
          squashed,   \* the Squashed flag of each event
          curTick     \* EventQueue::_curTick

vars == <<order, when, squashed, curTick>>

Queued(s) == {s[i] : i \in 1..Len(s)}

(* The place where an event goes: in front of the first one that is not    *)
(* strictly before it, so in front of the earlier entries of its own bin.  *)
IsPlace(s, w, e, k) ==
    /\ k \in 1..Len(s) + 1
    /\ \A i \in 1..k - 1 : Less(w, s[i], e)
    /\ k <= Len(s) => ~Less(w, s[k], e)

InsertAt(s, k, e) ==
    [i \in 1..Len(s) + 1 |->
        IF i < k THEN s[i] ELSE IF i = k THEN e ELSE s[i - 1]]

DropAt(s, k) == [i \in 1..Len(s) - 1 |-> IF i < k THEN s[i] ELSE s[i + 1]]

---------------------------------------------------------------------------

Init ==
    /\ order = <<>>
    /\ when = [e \in Event |-> 0]
    /\ squashed = [e \in Event |-> FALSE]
    /\ curTick = 0

(* schedule(): leaves the Squashed flag as it finds it *)
Schedule(e, t) ==
    /\ e \notin Queued(order)
    /\ t >= curTick
    /\ when' = [when EXCEPT ![e] = t]
    /\ \E k \in 1..Len(order) + 1 :
          /\ IsPlace(order, when', e, k)
          /\ order' = InsertAt(order, k, e)
    /\ UNCHANGED <<squashed, curTick>>

Deschedule(e) ==
    /\ \E k \in 1..Len(order) : order[k] = e /\ order' = DropAt(order, k)
    /\ squashed' = [squashed EXCEPT ![e] = FALSE]
    /\ UNCHANGED <<when, curTick>>

(* reschedule(): takes the event out if it is queued, then inserts it anew *)
Reschedule(e, t) ==
    /\ t >= curTick
    /\ when' = [when EXCEPT ![e] = t]
    /\ \E s \in {order} \cup {DropAt(order, k) : k \in 1..Len(order)} :
          /\ Queued(s) = Queued(order) \ {e}
          /\ \E k \in 1..Len(s) + 1 :
                /\ IsPlace(s, when', e, k)
                /\ order' = InsertAt(s, k, e)
    /\ squashed' = [squashed EXCEPT ![e] = FALSE]
    /\ UNCHANGED curTick

Squash(e) ==
    /\ squashed' = [squashed EXCEPT ![e] = TRUE]
    /\ UNCHANGED <<order, when, curTick>>

(* serviceOne() takes the first event; time moves only if it is processed  *)
Service ==
    /\ order # <<>>
    /\ order' = Tail(order)
    /\ IF squashed[order[1]]
       THEN /\ squashed' = [squashed EXCEPT ![order[1]] = FALSE]
            /\ UNCHANGED curTick
       ELSE /\ curTick' = when[order[1]]
            /\ UNCHANGED squashed
    /\ UNCHANGED when

(* serviceEvents(t) has taken every event up to t and sets the time to it  *)
Advance(t) ==
    /\ t >= curTick
    /\ order # <<>> => when[order[1]] > t
    /\ curTick' = t
    /\ UNCHANGED <<order, when, squashed>>

(* An unscheduled event is deleted and its storage holds a new event       *)
Renew(e) ==
    /\ e \notin Queued(order)
    /\ when' = [when EXCEPT ![e] = 0]
    /\ squashed' = [squashed EXCEPT ![e] = FALSE]
    /\ UNCHANGED <<order, curTick>>

Next ==
    \/ \E e \in Event, t \in Tick : Schedule(e, t)
    \/ \E e \in Event : Deschedule(e)
    \/ \E e \in Event, t \in Tick : Reschedule(e, t)
    \/ \E e \in Event : Squash(e)
    \/ Service
    \/ \E t \in Tick : Advance(t)
    \/ \E e \in Event : Renew(e)

Spec == Init /\ [][Next]_vars

---------------------------------------------------------------------------

(* The queue holds events only, and no event is scheduled, nor time moved, *)
(* beyond the bound on ticks.                                              *)
TypeOK ==
    /\ order \in Seq(Event)
    /\ when \in [Event -> Tick]
    /\ squashed \in [Event -> BOOLEAN]
    /\ curTick \in Tick

(* The queue is sorted: along the order of service neither the tick goes   *)
(* back nor, within a tick, the priority (what debugVerify() prints as     *)
(* "time goes backwards!" and "priority inverted!" never happens).         *)
Sorted ==
    \A i, j \in 1..Len(order) : i < j => ~Less(when, order[j], order[i])

(* No event is on the queue twice, however often it was rescheduled.       *)
QueuedOnce ==
    \A i, j \in 1..Len(order) : order[i] = order[j] => i = j

(* No queued event lies in the past: doSimLoop() asserts this of the head  *)
(* before it services it ("event scheduled in the past").                  *)
NoneInPast == \A i \in 1..Len(order) : when[order[i]] >= curTick

(* Simulated time never goes back.                                         *)
TimeMonotone == [][curTick' >= curTick]_vars
===========================================================================
