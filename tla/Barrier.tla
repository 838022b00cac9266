------------------------------ MODULE Barrier ------------------------------
(***************************************************************************)
(* base/barrier.hh: the reusable barrier on which simulation threads meet, *)
(* both around the simulation loop (threadBarrier) and inside every global *)
(* event.  Each thread calls wait() again and again.  The mutex makes the  *)
(* body of wait() up to bCond.wait() one step; a blocked thread wakes in   *)
(* a step of its own and tests the generation again, so a fast thread may  *)
(* enter the next round before a slow one has left the last.               *)
(***************************************************************************)
EXTENDS Integers, FiniteSets

CONSTANTS Thread,         \* the threads that use the barrier
          MaxGeneration,  \* UINT_MAX: the generation counter wraps to 0
          MaxRound        \* bound on the number of rounds

ASSUME ThreadAssumption == IsFiniteSet(Thread) /\ Thread # {}
ASSUME GenerationAssumption == MaxGeneration \in Nat \ {0}
ASSUME RoundAssumption == MaxRound \in Nat

VARIABLES numLeft,     \* threads still to arrive in this generation
          generation,
          waiting,     \* the threads blocked in wait()
          gen,         \* the local variable gen of each thread
          arrived,     \* history: calls of wait() that were made
          passed,      \* history: calls of wait() that have returned
          leaders      \* history: calls of wait() that have returned true

vars == <<numLeft, generation, waiting, gen, arrived, passed, leaders>>

numWaiting == Cardinality(Thread)

(* mutant: the generation does not move on *)
NextGenerationStuck(g) == g

(* generation++ on an unsigned counter *)
NextGeneration(g) == IF g = MaxGeneration THEN 0 ELSE g + 1

Init ==
    /\ numLeft = numWaiting
    /\ generation = 0
    /\ waiting = {}
    /\ gen = [t \in Thread |-> 0]
    /\ arrived = [t \in Thread |-> 0]
    /\ passed = [t \in Thread |-> 0]
    /\ leaders = 0

(* wait() by the last thread of a round: it releases the others and        *)
(* returns true                                                            *)
ArriveLast(t) ==
    /\ t \notin waiting /\ arrived[t] < MaxRound
    /\ numLeft = 1
    /\ gen' = [gen EXCEPT ![t] = generation]
    /\ numLeft' = numWaiting
    /\ generation' = NextGeneration(generation)
    /\ arrived' = [arrived EXCEPT ![t] = @ + 1]
    /\ passed' = [passed EXCEPT ![t] = @ + 1]
    /\ leaders' = leaders + 1
    /\ UNCHANGED waiting

(* wait() by any other thread: it blocks *)
Arrive(t) ==
    /\ t \notin waiting /\ arrived[t] < MaxRound
    /\ numLeft # 1
    /\ gen' = [gen EXCEPT ![t] = generation]
    /\ numLeft' = numLeft - 1
    /\ waiting' = waiting \cup {t}
    /\ arrived' = [arrived EXCEPT ![t] = @ + 1]
    /\ UNCHANGED <<generation, passed, leaders>>

(* mutant: a woken thread returns without looking at the generation, so a  *)
(* spurious wake-up lets it through                                        *)
WakeAnyway(t) ==
    /\ t \in waiting
    /\ waiting' = waiting \ {t}
    /\ passed' = [passed EXCEPT ![t] = @ + 1]
    /\ UNCHANGED <<numLeft, generation, gen, arrived, leaders>>

(* A blocked thread finds that the generation has moved and returns false; *)
(* as long as it has not, waking up changes nothing                        *)
Wake(t) ==
    /\ t \in waiting
    /\ gen[t] # generation
    /\ waiting' = waiting \ {t}
    /\ passed' = [passed EXCEPT ![t] = @ + 1]
    /\ UNCHANGED <<numLeft, generation, gen, arrived, leaders>>

Next == \E t \in Thread : ArriveLast(t) \/ Arrive(t) \/ Wake(t)

(* Host threads are scheduled fairly.                                      *)
Fairness == \A t \in Thread : /\ WF_vars(ArriveLast(t))
                              /\ WF_vars(Arrive(t))
                              /\ WF_vars(Wake(t))

Spec == Init /\ [][Next]_vars /\ Fairness

---------------------------------------------------------------------------

(* numLeft never reaches 0 outside the mutex and never exceeds the number  *)
(* of threads; the generation stays within its width.                      *)
TypeOK ==
    /\ numLeft \in 1..numWaiting
    /\ generation \in 0..MaxGeneration
    /\ waiting \subseteq Thread
    /\ gen \in [Thread -> 0..MaxGeneration]
    /\ arrived \in [Thread -> Nat]
    /\ passed \in [Thread -> Nat]
    /\ leaders \in Nat

(* No thread leaves its k-th wait() before every thread has made its k-th  *)
(* call: a global event is processed only when all queues have reached it. *)
NoneEarly == \A t, u \in Thread : passed[t] <= arrived[u]

(* Exactly one call of each round returns true, so exactly one thread runs *)
(* the process() of a global event.                                        *)
OneLeader == \A t \in Thread : leaders \in passed[t]..passed[t] + 1

(* Every thread that calls wait() returns: the counter wraps safely and no *)
(* thread sleeps through its round.                                        *)
EveryoneReturns == \A t \in Thread : (t \in waiting) ~> (t \notin waiting)
============================================================================
