---------------------------- MODULE EventQueue ----------------------------
(***************************************************************************)
(* One event queue: sim/eventq.{hh,cc} and sim/eventq_impl.hh, run by one  *)
(* thread (ParallelSim.tla adds threads and the asynchronous queue).       *)
(*                                                                         *)
(* The queue is a list of bins linked by nextBin from head; a bin holds    *)
(* the events of one tick and priority as a stack linked by nextInBin.     *)
(* Only the nextBin of a bin's top event is kept up to date: every other   *)
(* nextBin, and both pointers of an unscheduled event, may be stale.       *)
(*                                                                         *)
(* An event handler, Event::process(), is a sequence of calls on the       *)
(* queue between ServiceBegin and ServiceEnd.  The same calls are made     *)
(* outside handlers, by start-up code and between calls of simulate().     *)
(***************************************************************************)
EXTENDS Events

CONSTANTS NULL,
          AutoDelete,  \* the events constructed with the AutoDelete flag
          ExitEvent    \* the events constructed with IsExitEvent

ASSUME NULLAssumption == NULL \notin Event
ASSUME FlagsAssumption == AutoDelete \subseteq Event /\ ExitEvent \subseteq Event

VARIABLES list,       \* head and the two link fields of every event
          when,       \* Event::_when
          scheduled,  \* the Scheduled flag
          squashed,   \* the Squashed flag
          live,       \* the events that are constructed and not deleted
          curTick,    \* EventQueue::_curTick
          running,    \* the event whose process() is running, or NULL
          until,      \* the argument of the serviceEvents() call, or NULL
          panicked    \* remove() has reached panic("event not found!")

vars == <<list, when, scheduled, squashed, live, curTick, running, until,
          panicked>>

Pointer == Event \cup {NULL}

(* operator== on events, for the time stamps w *)
SameBin(w, e, f) == w[e] = w[f] /\ Priority[e] = Priority[f]

---------------------------------------------------------------------------
(* The linked lists *)

(* Event::insertBefore(): e becomes the top of bin c, or a bin before c    *)
insertBefore(l, w, e, c) ==
    IF c = NULL \/ Less(w, e, c)
    THEN [l EXCEPT !.nextBin[e] = c, !.nextInBin[e] = NULL]
    ELSE [l EXCEPT !.nextBin[e] = l.nextBin[c], !.nextInBin[e] = c]

(* mutant: insert() and remove() look only at the second bin *)
prevBinFirst(l, w, e) == l.head

(* The loop of insert() and remove(): the last bin that is before e *)
prevBin(l, w, e) ==
    LET walk[p \in Event] ==
          LET curr == l.nextBin[p]
          IN  IF curr # NULL /\ Less(w, curr, e) THEN walk[curr] ELSE p
    IN  walk[l.head]

(* mutant: insert() tests < instead of <= against the head *)
insertNoTie(l, w, e) ==
    IF l.head = NULL \/ Less(w, e, l.head)
    THEN [insertBefore(l, w, e, l.head) EXCEPT !.head = e]
    ELSE LET prev == prevBin(l, w, e)
         IN  [insertBefore(l, w, e, l.nextBin[prev]) EXCEPT !.nextBin[prev] = e]

(* EventQueue::insert() *)
insert(l, w, e) ==
    IF l.head = NULL \/ ~Less(w, l.head, e)
    THEN [insertBefore(l, w, e, l.head) EXCEPT !.head = e]
    ELSE LET prev == prevBin(l, w, e)
         IN  [insertBefore(l, w, e, l.nextBin[prev]) EXCEPT !.nextBin[prev] = e]

(* The loop of removeItem(): the event under which e lies in the bin of    *)
(* top, or the last one of the bin                                         *)
aboveInBin(l, e, top) ==
    LET walk[c \in Event] ==
          IF l.nextInBin[c] \in {e, NULL} THEN c ELSE walk[l.nextInBin[c]]
    IN  walk[top]

(* Event::removeItem() returns the new top of the bin *)
newTop(l, e, top) ==
    IF e # top THEN top
    ELSE IF l.nextInBin[top] = NULL THEN l.nextBin[top] ELSE l.nextInBin[top]

(* Event::removeItem() unlinks e, fixing up the next bin of a new top      *)
removeItem(l, e, top) ==
    IF e = top
    THEN IF l.nextInBin[top] = NULL THEN l
         ELSE [l EXCEPT !.nextBin[l.nextInBin[top]] = l.nextBin[top]]
    ELSE [l EXCEPT !.nextInBin[aboveInBin(l, e, top)] = l.nextInBin[e]]

(* The top of the bin in which remove() looks for e, or NULL *)
binOf(l, w, e) ==
    IF l.head = NULL THEN NULL
    ELSE IF SameBin(w, l.head, e) THEN l.head
    ELSE LET curr == l.nextBin[prevBin(l, w, e)]
         IN  IF curr # NULL /\ SameBin(w, curr, e) THEN curr ELSE NULL

(* remove() finds e and does not panic *)
Found(l, w, e) ==
    LET top == binOf(l, w, e)
    IN  top # NULL /\ (e = top \/ l.nextInBin[aboveInBin(l, e, top)] = e)

remove(l, w, e) ==
    IF SameBin(w, l.head, e)
    THEN [removeItem(l, e, l.head) EXCEPT !.head = newTop(l, e, l.head)]
    ELSE LET prev == prevBin(l, w, e)
             curr == l.nextBin[prev]
         IN  [removeItem(l, e, curr) EXCEPT !.nextBin[prev] = newTop(l, e, curr)]

(* The events in the order of the walk that dump() and debugVerify() make: *)
(* the bins along nextBin, each bin along nextInBin.                       *)
Contents(l) ==
    LET bin[e \in Event] ==
          <<e>> \o (IF l.nextInBin[e] = NULL THEN <<>> ELSE bin[l.nextInBin[e]])
        bins[e \in Event] ==
          bin[e] \o (IF l.nextBin[e] = NULL THEN <<>> ELSE bins[l.nextBin[e]])
    IN  IF l.head = NULL THEN <<>> ELSE bins[l.head]

---------------------------------------------------------------------------

Init ==
    /\ list = [head |-> NULL,
               nextBin |-> [e \in Event |-> NULL],
               nextInBin |-> [e \in Event |-> NULL]]
    /\ when = [e \in Event |-> 0]
    /\ scheduled = [e \in Event |-> FALSE]
    /\ squashed = [e \in Event |-> FALSE]
    /\ live = Event
    /\ curTick = 0
    /\ running = NULL
    /\ until = NULL
    /\ panicked = FALSE

(* EventQueue::schedule() outside parallel mode *)
schedule(e, t) ==
    /\ e \in live /\ ~scheduled[e]
    /\ t >= curTick
    /\ when' = [when EXCEPT ![e] = t]
    /\ list' = insert(list, when', e)
    /\ scheduled' = [scheduled EXCEPT ![e] = TRUE]
    /\ UNCHANGED <<squashed, live, curTick, running, until, panicked>>

(* EventQueue::deschedule(), which deletes an AutoDelete event at once.    *)
(* Precondition of the callers: a handler does not deschedule its own      *)
(* AutoDelete event, which serviceOne() still refers to.                   *)
deschedule(e) ==
    /\ e \in live /\ scheduled[e]
    /\ e = running => e \notin AutoDelete
    /\ IF Found(list, when, e)
       THEN /\ list' = remove(list, when, e)
            /\ squashed' = [squashed EXCEPT ![e] = FALSE]
            /\ scheduled' = [scheduled EXCEPT ![e] = FALSE]
            /\ live' = IF e \in AutoDelete THEN live \ {e} ELSE live
            /\ UNCHANGED panicked
       ELSE /\ panicked' = TRUE
            /\ UNCHANGED <<list, scheduled, squashed, live>>
    /\ UNCHANGED <<when, curTick, running, until>>

(* EventQueue::reschedule(); always is its third argument *)
reschedule(e, t, always) ==
    /\ e \in live
    /\ always \/ scheduled[e]
    /\ t >= curTick
    /\ IF scheduled[e] /\ ~Found(list, when, e)
       THEN /\ panicked' = TRUE
            /\ UNCHANGED <<list, when, scheduled, squashed>>
       ELSE /\ when' = [when EXCEPT ![e] = t]
            /\ list' = insert(IF scheduled[e] THEN remove(list, when, e)
                                              ELSE list, when', e)
            /\ squashed' = [squashed EXCEPT ![e] = FALSE]
            /\ scheduled' = [scheduled EXCEPT ![e] = TRUE]
            /\ UNCHANGED panicked
    /\ UNCHANGED <<live, curTick, running, until>>

(* Event::squash() *)
squash(e) ==
    /\ e \in live
    /\ squashed' = [squashed EXCEPT ![e] = TRUE]
    /\ UNCHANGED <<list, when, scheduled, live, curTick, running, until, panicked>>

(* serviceOne() takes the head off its bin *)
popHead(l) ==
    LET next == l.nextInBin[l.head]
    IN  IF next # NULL
        THEN [l EXCEPT !.nextBin[next] = l.nextBin[l.head], !.head = next]
        ELSE [l EXCEPT !.head = l.nextBin[l.head]]

(* serviceOne() up to the call of process(), for a head that is not        *)
(* squashed.  doSimLoop() calls it for any head, serviceEvents() for one   *)
(* that is not after its argument.                                         *)
ServiceBegin ==
    /\ running = NULL
    /\ list.head # NULL /\ ~squashed[list.head]
    /\ until # NULL => when[list.head] <= until
    /\ list' = popHead(list)
    /\ scheduled' = [scheduled EXCEPT ![list.head] = FALSE]
    /\ curTick' = when[list.head]
    /\ running' = list.head
    /\ UNCHANGED <<when, squashed, live, until, panicked>>

(* mutant: serviceOne() deletes an event that its handler scheduled again *)
ServiceEndAlways ==
    /\ running # NULL
    /\ live' = live \ ({running} \cap (AutoDelete \ ExitEvent))
    /\ running' = NULL
    /\ UNCHANGED <<list, when, scheduled, squashed, curTick, until, panicked>>

(* serviceOne() after process(): an exit event is returned as it is, any   *)
(* other AutoDelete event is deleted unless its handler scheduled it again *)
ServiceEnd ==
    /\ running # NULL
    /\ live' = IF running \in AutoDelete \ ExitEvent /\ ~scheduled[running]
               THEN live \ {running} ELSE live
    /\ running' = NULL
    /\ UNCHANGED <<list, when, scheduled, squashed, curTick, until, panicked>>

(* serviceOne() of a squashed head: no handler runs and no time passes *)
ServiceSquashed ==
    /\ running = NULL
    /\ list.head # NULL /\ squashed[list.head]
    /\ until # NULL => when[list.head] <= until
    /\ list' = popHead(list)
    /\ scheduled' = [scheduled EXCEPT ![list.head] = FALSE]
    /\ squashed' = [squashed EXCEPT ![list.head] = FALSE]
    /\ live' = IF list.head \in AutoDelete THEN live \ {list.head} ELSE live
    /\ UNCHANGED <<when, curTick, running, until, panicked>>

(* serviceEvents(t) is called with a count that only grows (the number of  *)
(* instructions or loads), and not from a handler of the same queue        *)
serviceEventsBegin(t) ==
    /\ running = NULL /\ until = NULL
    /\ t >= curTick
    /\ until' = t
    /\ UNCHANGED <<list, when, scheduled, squashed, live, curTick, running, panicked>>

serviceEventsEnd ==
    /\ running = NULL /\ until # NULL
    /\ list.head # NULL => when[list.head] > until
    /\ curTick' = until
    /\ until' = NULL
    /\ UNCHANGED <<list, when, scheduled, squashed, live, running, panicked>>

(* The owner deletes an event; ~Event() asserts that it is not scheduled.  *)
Delete(e) ==
    /\ e \in live /\ ~scheduled[e] /\ e # running
    /\ live' = live \ {e}
    /\ UNCHANGED <<list, when, scheduled, squashed, curTick, running, until, panicked>>

(* Event::Event() in the storage of a deleted event *)
Construct(e) ==
    /\ e \notin live
    /\ live' = live \cup {e}
    /\ list' = [list EXCEPT !.nextBin[e] = NULL, !.nextInBin[e] = NULL]
    /\ when' = [when EXCEPT ![e] = 0]
    /\ scheduled' = [scheduled EXCEPT ![e] = FALSE]
    /\ squashed' = [squashed EXCEPT ![e] = FALSE]
    /\ UNCHANGED <<curTick, running, until, panicked>>

Next ==
    \/ \E e \in Event, t \in Tick : schedule(e, t)
    \/ \E e \in Event : deschedule(e)
    \/ \E e \in Event, t \in Tick, always \in BOOLEAN : reschedule(e, t, always)
    \/ \E e \in Event : squash(e)
    \/ ServiceBegin
    \/ ServiceEnd
    \/ ServiceSquashed
    \/ \E t \in Tick : serviceEventsBegin(t)
    \/ serviceEventsEnd
    \/ \E e \in Event : Delete(e) \/ Construct(e)

Spec == Init /\ [][Next]_vars

---------------------------------------------------------------------------

(* The walk over the two link fields meets exactly the events whose        *)
(* Scheduled flag is set, each once, and they are all live: no stale link  *)
(* loses an event, brings one back, or reaches a deleted one, and          *)
(* deschedule() and reschedule() never panic with "event not found!".      *)
ListIsScheduledSet ==
    LET s == Contents(list)
    IN  /\ {s[i] : i \in 1..Len(s)} = {e \in Event : scheduled[e]}
        /\ \A i, j \in 1..Len(s) : s[i] = s[j] => i = j
        /\ \A e \in Event : scheduled[e] => e \in live
        /\ ~panicked

Abstract == INSTANCE EventOrder WITH order <- Contents(list)

(* The pointer structure implements the abstract queue: its walk is the    *)
(* order in which events are serviced, and every call changes that order   *)
(* as EventOrder says, last-in first-out within a bin.                     *)
ImplementsEventOrder == Abstract!Spec

(* So the bins are sorted by tick and priority, whatever was inserted,     *)
(* moved and removed in between: debugVerify() never prints "time goes     *)
(* backwards!" or "priority inverted!".                                    *)
Sorted == Abstract!Sorted
===========================================================================
