------------------------------- MODULE Drain -------------------------------
(***************************************************************************)
(* Draining the simulator for a checkpoint, a CPU switch or a fork:        *)
(* DrainManager and Drainable (sim/drain.hh, sim/drain.cc) and the loop of *)
(* python/m5/simulate.py that drives them.                                 *)
(*                                                                         *)
(* An object is busy while it needs simulation to empty its buffers; its   *)
(* drain() returns Drained if and only if it is not.  An object that is    *)
(* not running starts no work of its own, but a busy one can hand work to  *)
(* any other (a response, a writeback), whatever the state of that one.    *)
(* drain() of one object never makes another one finish its work.          *)
(***************************************************************************)
EXTENDS Integers, FiniteSets

CONSTANTS Drainable,
          MaxWork    \* bound on the pieces of work of a run

ASSUME DrainableAssumption == IsFiniteSet(Drainable)
ASSUME WorkAssumption == MaxWork \in Nat

VARIABLES state,       \* DrainManager::_state
          count,       \* DrainManager::_count
          drainState,  \* Drainable::_drainState
          busy,        \* the objects that have work
          pc,          \* where the Python script is
          todo,        \* objects the loop of tryDrain() or resume() has yet to visit
          finished,    \* number of "Finished drain" exit events on the queues
          saved,       \* whether there is a checkpoint
          work         \* pieces of work handed out so far

vars == <<state, count, drainState, busy, pc, todo, finished, saved, work>>

DrainState == {"Running", "Draining", "Drained"}

Init ==
    /\ state = "Running"
    /\ count = 0
    /\ drainState = [o \in Drainable |-> "Running"]
    /\ busy = {}
    /\ pc = "script"
    /\ todo = {}
    /\ finished = 0
    /\ saved = FALSE
    /\ work = 0

---------------------------------------------------------------------------
(* The script *)

(* simulate() of simulate.py, on a system that is not drained *)
simulate ==
    /\ pc = "script" /\ state # "Drained"
    /\ pc' = "run"
    /\ UNCHANGED <<state, count, drainState, busy, todo, finished, saved, work>>

(* simulate() of simulate.py on a drained system: DrainManager::resume() *)
resume ==
    /\ pc = "script" /\ state = "Drained"
    /\ IF count # 0
       THEN /\ pc' = "panic"
            /\ UNCHANGED <<state, todo>>
       ELSE /\ state' = "Running"
            /\ todo' = Drainable
            /\ pc' = "resume"
    /\ UNCHANGED <<count, drainState, busy, finished, saved, work>>

(* The loop of resume() calls dmDrainResume(); simulation starts after it *)
dmDrainResume(o) ==
    /\ pc = "resume" /\ o \in todo
    /\ IF drainState[o] # "Drained"
       THEN /\ pc' = "panic"
            /\ UNCHANGED <<drainState, todo>>
       ELSE /\ drainState' = [drainState EXCEPT ![o] = "Running"]
            /\ todo' = todo \ {o}
            /\ UNCHANGED pc
    /\ UNCHANGED <<state, count, busy, finished, saved, work>>

Resumed ==
    /\ pc = "resume" /\ todo = {}
    /\ pc' = "run"
    /\ UNCHANGED <<state, count, drainState, busy, todo, finished, saved, work>>

(* drain() of simulate.py, which does nothing in a drained system; every   *)
(* further cycle of its loop begins here too                               *)
tryDrain ==
    /\ pc \in {"script", "cycle"}
    /\ pc = "script" => state # "Drained"
    /\ IF state = "Drained" \/ count # 0
       THEN /\ pc' = "panic"
            /\ UNCHANGED <<state, todo>>
       ELSE /\ state' = "Draining"
            /\ todo' = Drainable
            /\ pc' = "tryDrain"
    /\ UNCHANGED <<count, drainState, busy, finished, saved, work>>

(* mutant: an object that is not done is not counted *)
dmDrainUncounted(o) ==
    /\ pc = "tryDrain" /\ o \in todo
    /\ drainState' = [drainState EXCEPT ![o] =
                        IF o \in busy THEN "Draining" ELSE "Drained"]
    /\ todo' = todo \ {o}
    /\ UNCHANGED <<state, count, busy, pc, finished, saved, work>>

(* The loop of tryDrain() calls dmDrain() and counts the objects that are  *)
(* not done                                                                *)
dmDrain(o) ==
    /\ pc = "tryDrain" /\ o \in todo
    /\ drainState' = [drainState EXCEPT ![o] =
                        IF o \in busy THEN "Draining" ELSE "Drained"]
    /\ count' = IF o \in busy THEN count + 1 ELSE count
    /\ todo' = todo \ {o}
    /\ UNCHANGED <<state, busy, pc, finished, saved, work>>

(* mutant: the drain goes on until a cycle has had something to drain *)
DrainCycleEndRetry ==
    /\ pc = "tryDrain" /\ todo = {}
    /\ pc' = IF count = 0 THEN "cycle" ELSE "drainRun"
    /\ UNCHANGED <<state, count, drainState, busy, todo, finished, saved, work>>

(* tryDrain() returns: drained, or the script simulates until the          *)
(* "Finished drain" exit event                                             *)
DrainCycleEnd ==
    /\ pc = "tryDrain" /\ todo = {}
    /\ \/ count = 0 /\ state' = "Drained" /\ pc' = "script"
       \/ count # 0 /\ pc' = "drainRun" /\ UNCHANGED state
    /\ UNCHANGED <<count, drainState, busy, todo, finished, saved, work>>

(* checkpoint(): the drained system is written out *)
serializeAll ==
    /\ pc = "script" /\ state = "Drained"
    /\ saved' = TRUE
    /\ UNCHANGED <<state, count, drainState, busy, pc, todo, finished, work>>

(* instantiate() in a new simulator: preCheckpointRestore() makes up for   *)
(* the drain state, which is not saved; the work is that of the checkpoint *)
preCheckpointRestore ==
    /\ saved
    /\ state' = "Drained"
    /\ drainState' = [o \in Drainable |-> "Drained"]
    /\ count' = 0 /\ busy' = {} /\ todo' = {} /\ finished' = 0
    /\ pc' = "script"
    /\ UNCHANGED <<saved, work>>

---------------------------------------------------------------------------
(* Simulation *)

Simulating == pc = "run" \/ pc = "drainRun"

(* A running object finds something to do *)
StartWork(o) ==
    /\ Simulating /\ drainState[o] = "Running" /\ o \notin busy
    /\ work < MaxWork
    /\ work' = work + 1
    /\ busy' = busy \cup {o}
    /\ UNCHANGED <<state, count, drainState, pc, todo, finished, saved>>

(* A busy object hands work to another, drained or not *)
Disturb(p, o) ==
    /\ Simulating /\ p \in busy /\ o \notin busy
    /\ work < MaxWork
    /\ work' = work + 1
    /\ busy' = busy \cup {o}
    /\ UNCHANGED <<state, count, drainState, pc, todo, finished, saved>>

(* mutant: every object that finishes its work is counted off *)
FinishWorkAlways(o) ==
    /\ Simulating /\ o \in busy
    /\ busy' = busy \ {o}
    /\ IF drainState[o] # "Running"
       THEN /\ drainState' = [drainState EXCEPT ![o] = "Drained"]
            /\ count' = count - 1
            /\ finished' = IF count' = 0 THEN finished + 1 ELSE finished
       ELSE UNCHANGED <<drainState, count, finished>>
    /\ UNCHANGED <<state, pc, todo, saved, work>>

(* mutant: every signal asks for the exit, not only the last one *)
FinishWorkExitEach(o) ==
    /\ Simulating /\ o \in busy
    /\ busy' = busy \ {o}
    /\ IF drainState[o] = "Draining"
       THEN /\ drainState' = [drainState EXCEPT ![o] = "Drained"]
            /\ count' = count - 1
            /\ finished' = finished + 1
       ELSE UNCHANGED <<drainState, count, finished>>
    /\ UNCHANGED <<state, pc, todo, saved, work>>

(* An object has emptied its buffers and calls signalDrainDone(), which    *)
(* counts it off if it was Draining; the last one asks for the exit        *)
FinishWork(o) ==
    /\ Simulating /\ o \in busy
    /\ busy' = busy \ {o}
    /\ IF drainState[o] = "Draining"
       THEN /\ drainState' = [drainState EXCEPT ![o] = "Drained"]
            /\ count' = count - 1
            /\ finished' = IF count' = 0 THEN finished + 1 ELSE finished
       ELSE UNCHANGED <<drainState, count, finished>>
    /\ UNCHANGED <<state, pc, todo, saved, work>>

(* The simulation loop services a "Finished drain" event: a drain goes on  *)
(* with its next cycle, a script that ran normally gets a spurious exit    *)
ExitFinishedDrain ==
    /\ Simulating /\ finished > 0
    /\ finished' = finished - 1
    /\ pc' = IF pc = "drainRun" THEN "cycle" ELSE "script"
    /\ UNCHANGED <<state, count, drainState, busy, todo, saved, work>>

(* Any other exit event: it ends a normal run; the loop of a drain calls   *)
(* simulate() again, which changes nothing here                            *)
ExitOther ==
    /\ pc = "run"
    /\ pc' = "script"
    /\ UNCHANGED <<state, count, drainState, busy, todo, finished, saved, work>>

---------------------------------------------------------------------------

Next ==
    \/ simulate \/ resume \/ Resumed \/ tryDrain \/ DrainCycleEnd
    \/ serializeAll \/ preCheckpointRestore
    \/ ExitFinishedDrain \/ ExitOther
    \/ \E o \in Drainable :
          \/ dmDrainResume(o) \/ dmDrain(o) \/ StartWork(o) \/ FinishWork(o)
          \/ \E p \in Drainable : Disturb(p, o)

(* A drain in progress goes on, objects finish their work, and the script  *)
(* is not killed for ever.                                                 *)
Fairness ==
    /\ WF_vars(pc = "cycle" /\ tryDrain)
    /\ WF_vars(DrainCycleEnd)
    /\ WF_vars(\E o \in Drainable : dmDrain(o))
    /\ WF_vars(ExitFinishedDrain)
    /\ \A o \in Drainable : WF_vars(FinishWork(o))

Spec == Init /\ [][Next]_vars /\ Fairness

---------------------------------------------------------------------------
(* Properties *)

(* The counter the drain manager keeps, its state, each object's drain     *)
(* state and the script's position stay within their types.                *)
TypeOK ==
    /\ state \in DrainState
    /\ count \in Nat
    /\ drainState \in [Drainable -> DrainState]
    /\ busy \subseteq Drainable
    /\ pc \in {"script", "run", "resume", "cycle", "tryDrain", "drainRun", "panic"}
    /\ todo \subseteq Drainable
    /\ finished \in Nat
    /\ saved \in BOOLEAN
    /\ work \in 0..MaxWork

(* The counter is exact whenever objects can signal: signalDrainDone()     *)
(* neither misses an object nor counts one twice, however often it is      *)
(* called and however drained objects are disturbed.                       *)
CountExact ==
    Simulating => count = Cardinality({o \in Drainable : drainState[o] = "Draining"})

(* drain.hh: in the Drained state "the whole simulator is in a consistent  *)
(* state and ready for checkpointing": no object has work left.            *)
DrainedIsIdle == state = "Drained" => busy = {}

(* No panic_if() of tryDrain(), resume() and dmDrainResume() fires.        *)
NoPanic == pc # "panic"

(* Only a drain ends with "Finished drain", and once per cycle: no such    *)
(* exit event is left over to end a later run of the script.               *)
NoStaleExit == finished > 0 => finished = 1 /\ pc = "drainRun" /\ count = 0

(* A drain that was begun completes, unless the simulator is restarted:    *)
(* no cycle waits for an object that has already signalled.                *)
DrainCompletes == (pc = "tryDrain") ~> (state = "Drained")
============================================================================
