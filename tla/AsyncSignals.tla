---------------------------- MODULE AsyncSignals ----------------------------
(***************************************************************************)
(* The asynchronous requests of sim/async.hh.  Signal handlers (and a      *)
(* Python event that fails) store into volatile variables, async_event     *)
(* first; the simulation loops of the threads read them and clear them     *)
(* again (sim/simulate.cc).  A handler interrupts one thread, between any  *)
(* two of its steps, while the others go on.                               *)
(***************************************************************************)
EXTENDS Integers, Sequences

CONSTANTS Thread,
          MaxRaised,   \* bound on the number of requests
          NULL

VARIABLES async,    \* the async_* variables that are true
          pc,       \* where each thread is in doSimLoop()
          handler,  \* the running handler: its thread and the stores left, or NULL
          raised,   \* number of requests so far
          owed      \* history: requests stored and not acted on since

vars == <<async, pc, handler, raised, owed>>

Stores ==
    [dump      |-> <<"event", "statdump">>,
     dumprst   |-> <<"event", "statdump", "statreset">>,
     exit      |-> <<"event", "exit">>,
     io        |-> <<"event", "io">>,
     exception |-> <<"event", "exception">>]

Kind == DOMAIN Stores

Init ==
    /\ async = {}
    /\ pc = [t \in Thread |-> "loop"]
    /\ handler = NULL
    /\ raised = 0
    /\ owed = {}

(* A request of kind k begins on thread t: a signal at any time, an        *)
(* exception of a PythonEvent while t services events                      *)
Raise(t, k) ==
    /\ handler = NULL /\ raised < MaxRaised
    /\ k = "exception" => pc[t] = "service"
    /\ handler' = [thread |-> t, left |-> Stores[k]]
    /\ raised' = raised + 1
    /\ UNCHANGED <<async, pc, owed>>

(* The next store of the handler *)
Store ==
    /\ handler # NULL
    /\ async' = async \cup {Head(handler.left)}
    /\ owed' = owed \cup ({Head(handler.left)} \ {"event"})
    /\ handler' = IF Len(handler.left) = 1 THEN NULL
                  ELSE [handler EXCEPT !.left = Tail(@)]
    /\ UNCHANGED <<pc, raised>>

(* Thread t is at l, and no handler has interrupted it *)
At(t, l) ==
    /\ pc[t] = l
    /\ handler # NULL => handler.thread # t

Goto(t, l) ==
    /\ pc' = [pc EXCEPT ![t] = l]
    /\ UNCHANGED <<handler, raised>>

ClearFlag(r) == async' = async \ {r} /\ UNCHANGED owed

ActOn(requests) == owed' = owed \ requests /\ UNCHANGED async

(* if (async_event && testAndClearAsyncEvent()) *)
Test(t) ==
    /\ At(t, "loop")
    /\ Goto(t, IF "event" \in async THEN "stat" ELSE "service")
    /\ ClearFlag("event")

(* if (async_statdump || async_statreset) schedStatEvent(...): the event   *)
(* does what the two flags say when they are read                          *)
Stat(t) ==
    /\ At(t, "stat")
    /\ LET wanted == {"statdump", "statreset"} \cap async
       IN  /\ Goto(t, IF wanted # {} THEN "dumpclear" ELSE "io")
           /\ ActOn(wanted)

StatClear(t) ==
    \/ At(t, "dumpclear") /\ Goto(t, "resetclear") /\ ClearFlag("statdump")
    \/ At(t, "resetclear") /\ Goto(t, "io") /\ ClearFlag("statreset")

Clearing == [io |-> "ioclear", exit |-> "exitclear", exception |-> "exceptionclear"]

Acting == [io |-> "ioact", exit |-> "exitact", exception |-> "exceptionact"]

Following == [io |-> "exit", exit |-> "exception", exception |-> "service"]

(* if (async_io), if (async_exit), if (async_exception) *)
Check(t, k) ==
    /\ At(t, k)
    /\ Goto(t, IF k \in async THEN Clearing[k] ELSE Following[k])
    /\ UNCHANGED <<async, owed>>

Clear(t, k) ==
    /\ At(t, Clearing[k])
    /\ Goto(t, Acting[k])
    /\ ClearFlag(k)

(* pollQueue.service(), exitSimLoop(), or doSimLoop() returns NULL, on     *)
(* which simulate() fails                                                  *)
Act(t, k) ==
    /\ At(t, Acting[k])
    /\ Goto(t, IF k = "exception" THEN "failed" ELSE Following[k])
    /\ ActOn({k})

(* mutant: async_event is cleared once its requests are handled *)
ServiceClears(t) ==
    /\ At(t, "service")
    /\ \/ Goto(t, "loop") \/ Goto(t, "returned")
    /\ ClearFlag("event")

(* serviceOne() and the end of the iteration; an exit event ends the loop *)
Service(t) ==
    /\ At(t, "service")
    /\ \/ Goto(t, "loop") \/ Goto(t, "returned")
    /\ UNCHANGED <<async, owed>>

(* simulate() is called again *)
Reenter(t) ==
    /\ At(t, "returned")
    /\ Goto(t, "loop")
    /\ UNCHANGED <<async, owed>>

doSimLoop(t) ==
    \/ Test(t) \/ Stat(t) \/ StatClear(t) \/ Service(t)
    \/ \E k \in DOMAIN Clearing : Check(t, k) \/ Clear(t, k) \/ Act(t, k)

Next ==
    \/ \E t \in Thread, k \in Kind : Raise(t, k)
    \/ Store
    \/ \E t \in Thread : doSimLoop(t) \/ Reenter(t)

(* A handler runs to its end, and a thread in the loop goes on.  Nothing   *)
(* makes a request come, or the script call simulate() again.              *)
Spec ==
    /\ Init /\ [][Next]_vars
    /\ WF_vars(Store)
    /\ \A t \in Thread : WF_vars(doSimLoop(t))

---------------------------------------------------------------------------
(* Properties *)

(* async.hh: "To avoid races, signal handlers simply set these flags,      *)
(* which are then checked in the main event loop."  An exit, an I/O or an  *)
(* exception request, whenever its stores fall between the steps of the    *)
(* loop, is acted on after it was stored, unless the loop is left first.   *)
(* A request to dump or reset the statistics has no such promise: one that *)
(* is stored between schedStatEvent() and the clearing of the flags is     *)
(* cleared unserved.                                                       *)
RequestsActedOn ==
    \A r \in DOMAIN Clearing :
        r \in owed ~> \/ r \notin owed
                     \/ \A t \in Thread : pc[t] \in {"returned", "failed"}
============================================================================
