---------------------------- MODULE ParallelSim ----------------------------
(***************************************************************************)
(* Quantum-based parallel simulation: sim/simulate.cc, sim/global_event.*, *)
(* the asynchronous part of sim/eventq.*, sim/sim_events.cc (exit events), *)
(* sim/stat_control.cc (statistics events), base/barrier.hh.               *)
(*                                                                         *)
(* One thread services one event queue.  A global event is a set of local  *)
(* barrier events, one per queue.  The GlobalSyncEvent "sync" ends every   *)
(* quantum: behind its second barrier each thread merges the events that   *)
(* other threads have put on its asynchronous queue.  A queue is the       *)
(* sequence of its events in order of service (EventOrder).                *)
(*                                                                         *)
(* The first thread runs Python: it calls simulate(), which returns when   *)
(* an exit event is serviced.                                              *)
(***************************************************************************)
EXTENDS Integers, Sequences, FiniteSets

CONSTANTS NumQueues,    \* numMainEventQueues; queue and thread 0 is the main one
          simQuantum,
          LocalEvent,   \* events of single queues
          Home,         \* the queue of each local event
          ExitEvent,    \* storage for GlobalSimLoopExitEvents of exitSimLoop()
          StatEvent,    \* storage for the StatEvents of schedStatEvent()
          Cycles,       \* the arguments simulate() is called with
          MinDelay,     \* a handler schedules on its own queue this far ahead
          MaxTick,      \* bound: no local event is scheduled after this tick
          MaxCalls,     \* bound on the number of simulate() calls
          MaxRequests,  \* bound on the number of signals
          NULL

ASSUME QueueAssumption == NumQueues \in Nat \ {0, 1}
ASSUME QuantumAssumption == simQuantum \in Nat \ {0}
ASSUME HomeAssumption == Home \in [LocalEvent -> 0..NumQueues - 1]
ASSUME PoolAssumption == /\ MaxRequests <= Cardinality(ExitEvent)
                         /\ StatEvent # {} => MaxRequests <= Cardinality(StatEvent)

Thread == 0..NumQueues - 1
GlobalEvent == {"sync", "limit"} \cup ExitEvent \cup StatEvent
Event == LocalEvent \cup GlobalEvent

VARIABLES pc,          \* where each thread is
          cur,         \* the event each thread is servicing, or NULL
          queue,       \* the main queue of each thread, in order of service
          asyncq,      \* EventQueue::async_queue
          when,        \* Event::_when
          flagged,     \* the <<event, queue>> whose Scheduled flag is set
          curTick,     \* EventQueue::_curTick
          barrier,     \* numLeft and generation of each Barrier object
          gen,         \* the local variable gen of Barrier::wait()
          mutex,       \* the thread that holds globalQMutex, or NULL
          todo,        \* the event and queue a schedule() has to handle next
          async,       \* the async_* variables that are true
          calls,       \* number of simulate() calls made
          requests     \* number of signals received

vars == <<pc, cur, queue, asyncq, when, flagged, curTick, barrier, gen, mutex,
          todo, async, calls, requests>>

---------------------------------------------------------------------------
(* Queues *)

Priority(e) ==
    CASE e \in LocalEvent            -> 0
      [] e \in StatEvent             -> 90
      [] e = "sync"                  -> 95
      [] e \in ExitEvent \/ e = "limit" -> 100

Less(w, e, f) ==
    \/ w[e] < w[f]
    \/ w[e] = w[f] /\ Priority(e) < Priority(f)

(* EventQueue::insert(): before the first event that is not before it *)
Insert(s, w, e) ==
    LET k == CHOOSE k \in 1..Len(s) + 1 :
               /\ \A i \in 1..k - 1 : Less(w, s[i], e)
               /\ k <= Len(s) => ~Less(w, s[k], e)
    IN  SubSeq(s, 1, k - 1) \o <<e>> \o SubSeq(s, k, Len(s))

Remove(s, e) == SelectSeq(s, LAMBDA f : f # e)

Members(s) == {s[i] : i \in 1..Len(s)}

(* The loop of handleAsyncInsertions() *)
Merge(s, w, a) ==
    LET merged[i \in 0..Len(a)] ==
          IF i = 0 THEN s ELSE Insert(merged[i - 1], w, a[i])
    IN  merged[Len(a)]

---------------------------------------------------------------------------
(* Barriers *)

Gens == 0..3  \* enough values of the counter to see a thread lag behind

NewBarrier == [numLeft |-> NumQueues, generation |-> 0]

(* Barrier::wait() of b: thread t goes on at leader if it is the last to   *)
(* arrive, and otherwise blocks at blocked                                 *)
Wait(t, b, leader, blocked) ==
    /\ gen' = [gen EXCEPT ![t] = barrier[b].generation]
    /\ IF barrier[b].numLeft = 1
       THEN /\ barrier' = [barrier EXCEPT ![b] =
                  [numLeft |-> NumQueues,
                   generation |-> (@.generation + 1) % Cardinality(Gens)]]
            /\ pc' = [pc EXCEPT ![t] = leader]
       ELSE /\ barrier' = [barrier EXCEPT ![b].numLeft = @ - 1]
            /\ pc' = [pc EXCEPT ![t] = blocked]

(* mutant: wait() does not block *)
ReleasedAlways(t, b) == TRUE

Released(t, b) == gen[t] # barrier[b].generation

---------------------------------------------------------------------------
(* simulate() and the threads around the simulation loop *)

Init ==
    /\ pc = [t \in Thread |-> IF t = 0 THEN "python" ELSE "enter"]
    /\ cur = [t \in Thread |-> NULL]
    /\ \E e \in SUBSET LocalEvent :     \* what start-up code has scheduled
          /\ when = [f \in Event |-> 0]
          /\ queue = [q \in Thread |->
                Merge(<<>>, when, CHOOSE s \in [1..Cardinality({f \in e : Home[f] = q})
                                                -> {f \in e : Home[f] = q}] :
                                     Members(s) = {f \in e : Home[f] = q})]
          /\ flagged = {<<f, Home[f]>> : f \in e}
    /\ asyncq = [q \in Thread |-> <<>>]
    /\ curTick = [q \in Thread |-> 0]
    /\ barrier = [b \in GlobalEvent \cup {"threads"} |-> NewBarrier]
    /\ gen = [t \in Thread |-> 0]
    /\ mutex = NULL
    /\ todo = [t \in Thread |-> NULL]
    /\ async = {}
    /\ calls = 0
    /\ requests = 0

(* simulate(n) up to threadBarrier->wait(): the limit event is moved, and  *)
(* a new quantum event is created, directly on all the queues              *)
simulate(n) ==
    LET w == [when EXCEPT !["limit"] = curTick[0] + n,
                          !["sync"] = curTick[0] + simQuantum]
    IN  /\ pc[0] = "python" /\ calls < MaxCalls
        /\ when' = w
        /\ queue' = [q \in Thread |->
                       Insert(Insert(Remove(queue[q], "limit"), w, "limit"), w, "sync")]
        /\ flagged' = flagged \cup ({"limit", "sync"} \X Thread)
        /\ barrier' = [barrier EXCEPT !["sync"] = NewBarrier]
        /\ calls' = calls + 1
        /\ pc' = [pc EXCEPT ![0] = "enter"]
        /\ UNCHANGED <<cur, asyncq, curTick, gen, mutex, todo, async,
                       requests>>

(* threadBarrier->wait(), by the main and by the subordinate threads *)
Enter(t) ==
    /\ pc[t] = "enter"
    /\ Wait(t, "threads", "start", "entering")
    /\ UNCHANGED <<cur, queue, asyncq, when, flagged, curTick, mutex, todo,
                   async, calls, requests>>

Entered(t) ==
    /\ pc[t] = "entering" /\ Released(t, "threads")
    /\ pc' = [pc EXCEPT ![t] = "start"]
    /\ UNCHANGED <<cur, queue, asyncq, when, flagged, curTick, barrier, gen,
                   mutex, todo, async, calls, requests>>

(* doSimLoop() begins with handleAsyncInsertions() *)
Start(t) ==
    /\ pc[t] = "start"
    /\ queue' = [queue EXCEPT ![t] = Merge(@, when, asyncq[t])]
    /\ asyncq' = [asyncq EXCEPT ![t] = <<>>]
    /\ pc' = [pc EXCEPT ![t] = "loop"]
    /\ UNCHANGED <<cur, when, flagged, curTick, barrier, gen, mutex, todo,
                   async, calls, requests>>

(* BaseGlobalEvent::deschedule() of the quantum event, by the main thread: *)
(* remove() panics where the event is flagged and not on the main queue    *)
Deschedule ==
    IF \A q \in Thread : <<"sync", q>> \in flagged => "sync" \in Members(queue[q])
    THEN /\ queue' = [q \in Thread |-> Remove(queue[q], "sync")]
         /\ flagged' = flagged \ ({"sync"} \X Thread)
         /\ pc' = [pc EXCEPT ![0] = "python"]
    ELSE /\ pc' = [pc EXCEPT ![0] = "panic"]
         /\ UNCHANGED <<queue, flagged>>

(* doSimLoop() has returned the exit event.  A subordinate thread goes     *)
(* back to threadBarrier; the main thread leaves parallel mode, takes the  *)
(* quantum event off all the queues and returns from simulate().           *)
Leave(t) ==
    /\ pc[t] = "exit"
    /\ cur' = [cur EXCEPT ![t] = NULL]
    /\ IF t = 0
       THEN Deschedule
       ELSE /\ pc' = [pc EXCEPT ![t] = "enter"]
            /\ UNCHANGED <<queue, flagged>>
    /\ UNCHANGED <<asyncq, when, curTick, barrier, gen, mutex, todo, async, calls,
                   requests>>

---------------------------------------------------------------------------
(* The simulation loop *)

(* A signal handler asks for an exit or a dump of the statistics.  It sets *)
(* two variables; AsyncSignals models what can happen between the two.     *)
Request(r) ==
    /\ requests < MaxRequests
    /\ async' = async \cup {"event", r}
    /\ requests' = requests + 1
    /\ UNCHANGED <<pc, cur, queue, asyncq, when, flagged, curTick, barrier, gen,
                   mutex, todo, calls>>

(* A fresh global event of a pool: neither queued nor being serviced.  The *)
(* barrier of a freshly constructed event is new.                          *)
Fresh(pool) == {g \in pool : /\ \A q \in Thread : <<g, q>> \notin flagged
                             /\ \A t \in Thread : cur[t] # g
                             /\ \A t \in Thread : todo[t] # NULL => todo[t].event # g}

(* The thread constructs g, or schedules it again, for tick w on all the   *)
(* queues; then it goes on at next                                         *)
BeginGlobal(t, g, w, next) ==
    /\ when' = [when EXCEPT ![g] = w]
    /\ todo' = [todo EXCEPT ![t] = [event |-> g, queue |-> 0, next |-> next]]
    /\ pc' = [pc EXCEPT ![t] = "lock"]

(* testAndClearAsyncEvent() returns true to this thread *)
TakeAsync(t) ==
    /\ pc[t] = "loop" /\ "event" \in async
    /\ async' = async \ {"event"}
    /\ pc' = [pc EXCEPT ![t] = "dump"]
    /\ UNCHANGED <<cur, queue, asyncq, when, flagged, curTick, barrier, gen,
                   mutex, todo, calls, requests>>

(* async_statdump: Stats::schedStatEvent() *)
AsyncDump(t) ==
    /\ pc[t] = "dump" /\ "statdump" \in async
    /\ \E g \in Fresh(StatEvent) :
          /\ BeginGlobal(t, g, curTick[t] + simQuantum, "dumped")
          /\ barrier' = [barrier EXCEPT ![g] = NewBarrier]
    /\ UNCHANGED <<cur, queue, asyncq, flagged, curTick, gen, mutex, async,
                   calls, requests>>

(* async_statdump is reset after that; then async_exit: exitSimLoop() *)
AsyncExit(t) ==
    /\ \/ pc[t] = "dumped"
       \/ pc[t] = "dump" /\ "statdump" \notin async
    /\ async' = async \ {"statdump", "exit"}
    /\ IF "exit" \in async
       THEN \E g \in Fresh(ExitEvent) :
              /\ BeginGlobal(t, g, curTick[t] + simQuantum, "service")
              /\ barrier' = [barrier EXCEPT ![g] = NewBarrier]
       ELSE /\ pc' = [pc EXCEPT ![t] = "service"]
            /\ UNCHANGED <<when, todo, barrier>>
    /\ UNCHANGED <<cur, queue, asyncq, flagged, curTick, gen, mutex, calls,
                   requests>>

(* serviceOne(): the head of the queue is taken and its handler starts *)
Service(t) ==
    /\ pc[t] = "service" \/ (pc[t] = "loop" /\ "event" \notin async)
    /\ queue[t] # <<>>
    /\ LET e == Head(queue[t])
       IN  /\ cur' = [cur EXCEPT ![t] = e]
           /\ curTick' = [curTick EXCEPT ![t] = when[e]]
           /\ flagged' = flagged \ {<<e, t>>}
           /\ pc' = [pc EXCEPT ![t] =
                       IF e \in LocalEvent THEN "handler" ELSE "arrive1"]
    /\ queue' = [queue EXCEPT ![t] = Tail(@)]
    /\ UNCHANGED <<asyncq, when, barrier, gen, mutex, todo, async, calls, requests>>

(* The handler of a local event returns *)
HandlerReturn(t) ==
    /\ pc[t] = "handler"
    /\ cur' = [cur EXCEPT ![t] = NULL]
    /\ pc' = [pc EXCEPT ![t] = "loop"]
    /\ UNCHANGED <<queue, asyncq, when, flagged, curTick, barrier, gen, mutex,
                   todo, async, calls, requests>>

(* A local event is not queued, nor about to be: components schedule an    *)
(* event only once                                                         *)
Unscheduled(f) ==
    /\ <<f, Home[f]>> \notin flagged
    /\ f \notin Members(queue[Home[f]]) \cup Members(asyncq[Home[f]])
    /\ \A u \in Thread : pc[u] = "push" => todo[u].event # f

(* The handler schedules an event of its own queue, and returns *)
HandlerScheduleLocal(t, f, w) ==
    /\ pc[t] = "handler" /\ Home[f] = t /\ Unscheduled(f)
    /\ w >= curTick[t] + MinDelay
    /\ when' = [when EXCEPT ![f] = w]
    /\ queue' = [queue EXCEPT ![t] = Insert(@, when', f)]
    /\ flagged' = flagged \cup {<<f, t>>}
    /\ cur' = [cur EXCEPT ![t] = NULL]
    /\ pc' = [pc EXCEPT ![t] = "loop"]
    /\ UNCHANGED <<asyncq, curTick, barrier, gen, mutex, todo, async, calls,
                   requests>>

(* mutant: an event for another queue is not kept a quantum away *)
HandlerScheduleOtherSoon(t, f, w) ==
    /\ pc[t] = "handler" /\ Home[f] # t /\ Unscheduled(f) /\ cur[Home[f]] # f
    /\ w >= curTick[t] + 1
    /\ when' = [when EXCEPT ![f] = w]
    /\ todo' = [todo EXCEPT ![t] = [event |-> f, queue |-> Home[f], next |-> "loop"]]
    /\ pc' = [pc EXCEPT ![t] = "push"]
    /\ cur' = [cur EXCEPT ![t] = NULL]
    /\ UNCHANGED <<queue, asyncq, flagged, curTick, barrier, gen, mutex, async,
                   calls, requests>>

(* The handler schedules an event of another queue, and returns.  The      *)
(* event must be at least a quantum away (eventq.hh).                      *)
HandlerScheduleOther(t, f, w) ==
    /\ pc[t] = "handler" /\ Home[f] # t /\ Unscheduled(f) /\ cur[Home[f]] # f
    /\ w >= curTick[t] + simQuantum
    /\ when' = [when EXCEPT ![f] = w]
    /\ todo' = [todo EXCEPT ![t] = [event |-> f, queue |-> Home[f], next |-> "loop"]]
    /\ pc' = [pc EXCEPT ![t] = "push"]
    /\ cur' = [cur EXCEPT ![t] = NULL]
    /\ UNCHANGED <<queue, asyncq, flagged, curTick, barrier, gen, mutex, async,
                   calls, requests>>

(* The handler calls exitSimLoop(), and returns *)
HandlerExit(t) ==
    /\ pc[t] = "handler" /\ Cardinality(Fresh(ExitEvent)) > MaxRequests
    /\ \E g \in Fresh(ExitEvent) :
          /\ BeginGlobal(t, g, curTick[t] + simQuantum, "loop")
          /\ barrier' = [barrier EXCEPT ![g] = NewBarrier]
    /\ cur' = [cur EXCEPT ![t] = NULL]
    /\ UNCHANGED <<queue, asyncq, flagged, curTick, gen, mutex, async, calls, requests>>

---------------------------------------------------------------------------
(* EventQueue::schedule() in parallel mode, and BaseGlobalEvent::schedule() *)

(* mutant: global events are scheduled without taking globalQMutex *)
LockNot(t) ==
    /\ pc[t] = "lock"
    /\ pc' = [pc EXCEPT ![t] = "push"]
    /\ UNCHANGED <<cur, queue, asyncq, when, flagged, curTick, barrier, gen,
                   mutex, todo, async, calls, requests>>

(* globalQMutex.lock() *)
Lock(t) ==
    /\ pc[t] = "lock" /\ mutex = NULL
    /\ mutex' = t
    /\ pc' = [pc EXCEPT ![t] = "push"]
    /\ UNCHANGED <<cur, queue, asyncq, when, flagged, curTick, barrier, gen,
                   todo, async, calls, requests>>

(* asyncInsert() *)
Push(t) ==
    /\ pc[t] = "push"
    /\ asyncq' = [asyncq EXCEPT ![todo[t].queue] = Append(@, todo[t].event)]
    /\ pc' = [pc EXCEPT ![t] = "flag"]
    /\ UNCHANGED <<cur, queue, when, flagged, curTick, barrier, gen, mutex, todo,
                   async, calls, requests>>

(* mutant: globalQMutex is not released *)
SetFlagKeepLock(t) ==
    /\ pc[t] = "flag"
    /\ flagged' = flagged \cup {<<todo[t].event, todo[t].queue>>}
    /\ IF todo[t].event \in GlobalEvent /\ todo[t].queue + 1 < NumQueues
       THEN /\ todo' = [todo EXCEPT ![t].queue = @ + 1]
            /\ pc' = [pc EXCEPT ![t] = "push"]
       ELSE /\ todo' = [todo EXCEPT ![t] = NULL]
            /\ pc' = [pc EXCEPT ![t] = todo[t].next]
    /\ UNCHANGED <<cur, queue, asyncq, when, curTick, barrier, gen, mutex, async,
                   calls, requests>>

(* schedule() sets the Scheduled flag after asyncInsert(); a global event  *)
(* goes on to the next queue, and releases the mutex after the last        *)
SetFlag(t) ==
    /\ pc[t] = "flag"
    /\ flagged' = flagged \cup {<<todo[t].event, todo[t].queue>>}
    /\ IF todo[t].event \in GlobalEvent /\ todo[t].queue + 1 < NumQueues
       THEN /\ todo' = [todo EXCEPT ![t].queue = @ + 1]
            /\ pc' = [pc EXCEPT ![t] = "push"]
            /\ UNCHANGED mutex
       ELSE /\ todo' = [todo EXCEPT ![t] = NULL]
            /\ pc' = [pc EXCEPT ![t] = todo[t].next]
            /\ mutex' = IF mutex = t THEN NULL ELSE mutex
    /\ UNCHANGED <<cur, queue, asyncq, when, curTick, barrier, gen, async, calls, requests>>

---------------------------------------------------------------------------
(* process() of the local barrier event of a global event *)

(* The first globalBarrier(): the last thread to arrive processes the event *)
Arrive1(t) ==
    /\ pc[t] = "arrive1"
    /\ Wait(t, cur[t], "process", "wait1")
    /\ UNCHANGED <<cur, queue, asyncq, when, flagged, curTick, mutex, todo,
                   async, calls, requests>>

Woken1(t) ==
    /\ pc[t] = "wait1" /\ Released(t, cur[t])
    /\ pc' = [pc EXCEPT ![t] = "arrive2"]
    /\ UNCHANGED <<cur, queue, asyncq, when, flagged, curTick, barrier, gen,
                   mutex, todo, async, calls, requests>>

(* process() of the global event: the quantum event schedules itself for   *)
(* the end of the next quantum, the others schedule nothing                *)
Process(t) ==
    /\ pc[t] = "process"
    /\ IF cur[t] = "sync"
       THEN BeginGlobal(t, "sync", curTick[t] + simQuantum, "arrive2")
       ELSE /\ pc' = [pc EXCEPT ![t] = "arrive2"]
            /\ UNCHANGED <<when, todo>>
    /\ UNCHANGED <<cur, queue, asyncq, flagged, curTick, barrier, gen, mutex,
                   async, calls, requests>>

(* mutant: no second barrier *)
Arrive2None(t) ==
    /\ pc[t] = "arrive2"
    /\ pc' = [pc EXCEPT ![t] = "done"]
    /\ UNCHANGED <<cur, queue, asyncq, when, flagged, curTick, barrier, gen,
                   mutex, todo, async, calls, requests>>

(* The second globalBarrier() *)
Arrive2(t) ==
    /\ pc[t] = "arrive2"
    /\ Wait(t, cur[t], "done", "wait2")
    /\ UNCHANGED <<cur, queue, asyncq, when, flagged, curTick, mutex, todo,
                   async, calls, requests>>

Woken2(t) ==
    /\ pc[t] = "wait2" /\ Released(t, cur[t])
    /\ pc' = [pc EXCEPT ![t] = "done"]
    /\ UNCHANGED <<cur, queue, asyncq, when, flagged, curTick, barrier, gen,
                   mutex, todo, async, calls, requests>>

(* Behind the second barrier: the quantum event merges the async queue, an *)
(* exit event ends the loop                                                *)
Done(t) ==
    /\ pc[t] = "done"
    /\ IF cur[t] = "sync"
       THEN /\ queue' = [queue EXCEPT ![t] = Merge(@, when, asyncq[t])]
            /\ asyncq' = [asyncq EXCEPT ![t] = <<>>]
       ELSE UNCHANGED <<queue, asyncq>>
    /\ IF cur[t] \in ExitEvent \cup {"limit"}
       THEN /\ pc' = [pc EXCEPT ![t] = "exit"]
            /\ UNCHANGED cur
       ELSE /\ pc' = [pc EXCEPT ![t] = "loop"]
            /\ cur' = [cur EXCEPT ![t] = NULL]
    /\ UNCHANGED <<when, flagged, curTick, barrier, gen, mutex, todo, async, calls, requests>>

---------------------------------------------------------------------------

Step(t) ==
    \/ Enter(t) \/ Entered(t) \/ Start(t) \/ Leave(t)
    \/ TakeAsync(t) \/ AsyncDump(t) \/ AsyncExit(t)
    \/ Service(t) \/ HandlerReturn(t) \/ HandlerExit(t)
    \/ \E f \in LocalEvent, w \in 0..MaxTick :
          HandlerScheduleLocal(t, f, w) \/ HandlerScheduleOther(t, f, w)
    \/ Lock(t) \/ Push(t) \/ SetFlag(t)
    \/ Arrive1(t) \/ Woken1(t) \/ Process(t) \/ Arrive2(t) \/ Woken2(t) \/ Done(t)

Next ==
    \/ \E n \in Cycles : simulate(n)
    \/ Request("exit")
    \/ StatEvent # {} /\ Request("statdump")
    \/ \E t \in Thread : Step(t)

(* Host threads are scheduled fairly; Python need not call simulate().     *)
Fairness == \A t \in Thread : WF_vars(Step(t))

Spec == Init /\ [][Next]_vars /\ Fairness

---------------------------------------------------------------------------
(* Properties *)

Waiting == {"wait1", "arrive2", "wait2"}

(* No event is ever put behind the current tick of the queue it goes to,   *)
(* although the queues run a quantum apart: schedule()'s assertion that    *)
(* the time is not past, setCurTick()'s, and doSimLoop()'s ("event         *)
(* scheduled in the past", and a queue that is never empty) cannot fail.   *)
(* Nor does remove() panic when simulate() takes the quantum event off all *)
(* queues: it has not been left on an asynchronous one.                    *)
NoEventInPast ==
    \A q \in Thread :
       /\ \A e \in Members(queue[q]) \cup Members(asyncq[q]) : when[e] >= curTick[q]
       /\ pc[q] = "push" => when[todo[q].event] >= curTick[todo[q].queue]
       /\ pc[q] = "loop" => queue[q] # <<>>
       /\ pc[q] # "panic"

(* simQuantum is the largest distance between the ticks of two threads:    *)
(* no thread gets past the GlobalSyncEvent without the others.             *)
WithinQuantum ==
    \A q, r \in Thread : curTick[q] - curTick[r] <= simQuantum

(* global_event.hh: "exactly one of the threads will execute the process() *)
(* method, then the threads will synchronize again so that none of them    *)
(* continue until process() is complete": while one thread processes a     *)
(* global event every other one waits in process() of the same event.      *)
ProcessAlone ==
    \A t, u \in Thread :
       t # u /\ (pc[t] = "process" \/ (todo[t] # NULL /\ todo[t].next = "arrive2"))
         => cur[u] = cur[t] /\ pc[u] \in Waiting

(* global_event.cc: the global events are in a total order.  Within one    *)
(* simulate(), no two threads wait for each other at the first barriers of *)
(* different events.                                                       *)
TotalOrder ==
    \A t, u \in Thread :
       pc[t] = "wait1" /\ pc[u] = "wait1"
         /\ ~Released(t, cur[t]) /\ ~Released(u, cur[u]) => cur[t] = cur[u]

(* simulate() returns: whatever the threads schedule, they all get to an   *)
(* exit event and leave the loop.                                          *)
SimulateReturns == (pc[0] = "enter") ~> (pc[0] = "python")
============================================================================
