--------------------------- MODULE BarrierProofs ---------------------------
(***************************************************************************)
(* The barrier is correct for any number of threads and any width of the   *)
(* generation counter.                                                     *)
(*                                                                         *)
(* leaders counts the completed rounds.  The inductive invariant says that *)
(* every thread is in the current round or blocked at the end of the last  *)
(* one, that a blocked thread holds the present generation exactly when it *)
(* is in the current round, and that numLeft counts the threads that have  *)
(* not arrived in it.  The counter may wrap because a thread is never more *)
(* than one generation behind.                                             *)
(***************************************************************************)
EXTENDS Barrier, FiniteSetTheorems, TLAPS

(* The threads that have arrived in the current round *)
Here == {t \in Thread : arrived[t] = leaders + 1}

Rounds ==
    \A t \in Thread :
        /\ arrived[t] \in {leaders, leaders + 1}
        /\ t \in waiting => arrived[t] = passed[t] + 1
        /\ t \notin waiting => arrived[t] = passed[t] /\ arrived[t] = leaders

Generations ==
    \A t \in waiting : gen[t] = generation <=> arrived[t] = leaders + 1

Counting == numLeft = numWaiting - Cardinality(Here)

IInv == TypeOK /\ Rounds /\ Generations /\ Counting

(* The number of threads is a positive number, and a set of threads is     *)
(* finite.                                                                 *)
LEMMA ThreadCount ==
    /\ numWaiting \in Nat \ {0}
    /\ \A S \in SUBSET Thread : IsFiniteSet(S) /\ Cardinality(S) \in Nat
  <1>1. numWaiting \in Nat /\ numWaiting # 0
    BY ThreadAssumption, FS_CardinalityType, FS_EmptySet DEF numWaiting
  <1>2. \A S \in SUBSET Thread : IsFiniteSet(S) /\ Cardinality(S) \in Nat
    BY ThreadAssumption, FS_Subset, FS_CardinalityType
  <1> QED
    BY <1>1, <1>2

(* The invariant holds at the start.                                       *)
LEMMA InitInv == Init => IInv
  <1> SUFFICES ASSUME Init PROVE IInv
    OBVIOUS
  <1>1. TypeOK
    BY ThreadCount, GenerationAssumption DEF Init, TypeOK
  <1>2. Rounds /\ Generations
    BY DEF Init, Rounds, Generations
  <1>3. Here = {}
    BY DEF Init, Here
  <1>4. Counting
    BY <1>3, ThreadCount, FS_EmptySet DEF Init, Counting
  <1> QED
    BY <1>1, <1>2, <1>4 DEF IInv

(* A generation differs from the next one, wrapping included. *)
LEMMA GenerationMoves ==
    ASSUME NEW g \in 0..MaxGeneration
    PROVE  NextGeneration(g) \in 0..MaxGeneration /\ NextGeneration(g) # g
  BY GenerationAssumption DEF NextGeneration

(* Every step of a thread preserves the invariant. *)
LEMMA NextInv == IInv /\ [Next]_vars => IInv'
  <1> SUFFICES ASSUME IInv, [Next]_vars PROVE IInv'
    OBVIOUS
  <1> USE DEF IInv
  <1>1. ASSUME NEW t \in Thread, ArriveLast(t) PROVE IInv'
    <2>1. t \notin Here /\ Cardinality(Here) = numWaiting - 1
      BY <1>1, ThreadCount DEF ArriveLast, Rounds, Counting, Here, TypeOK
    <2>2. Here = Thread \ {t}
      <3>1. IsFiniteSet(Thread \ {t}) /\ Cardinality(Thread \ {t}) = numWaiting - 1
        BY ThreadAssumption, FS_RemoveElement DEF numWaiting
      <3>2. Here \subseteq Thread \ {t}
        BY <2>1 DEF Here
      <3> QED
        BY <2>1, <3>1, <3>2, FS_Subset
    <2>3. \A u \in Thread : arrived'[u] = leaders + 1
      BY <1>1, <2>2 DEF ArriveLast, Rounds, Here, TypeOK
    <2>4. TypeOK'
      BY <1>1, ThreadCount, GenerationMoves DEF ArriveLast, TypeOK
    <2>5. Rounds'
      <3>1. ASSUME NEW u \in Thread
            PROVE  /\ arrived'[u] = leaders'
                   /\ u \in waiting' => arrived'[u] = passed'[u] + 1
                   /\ u \notin waiting' => arrived'[u] = passed'[u]
        <4>1. CASE u = t
          BY <1>1, <2>3, <4>1 DEF ArriveLast, Rounds, TypeOK
        <4>2. CASE u # t
          <5>1. u \in Here /\ u \in waiting
            BY <2>2, <4>2 DEF Here, Rounds, TypeOK
          <5> QED
            BY <1>1, <2>3, <4>2, <5>1 DEF ArriveLast, Rounds, TypeOK
        <4> QED
          BY <4>1, <4>2
      <3> QED
        BY <3>1 DEF Rounds
    <2>6. Generations'
      <3>1. ASSUME NEW u \in waiting' PROVE gen'[u] # generation'
        <4>1. u \in waiting /\ u # t /\ u \in Thread
          BY <1>1 DEF ArriveLast, TypeOK
        <4>2. u \in Here
          BY <2>2, <4>1
        <4>3. gen'[u] = generation
          BY <1>1, <4>1, <4>2 DEF ArriveLast, Generations, Here, TypeOK
        <4> QED
          BY <1>1, <4>3, GenerationMoves DEF ArriveLast, TypeOK
      <3>2. ASSUME NEW u \in waiting' PROVE arrived'[u] # leaders' + 1
        BY <1>1, <2>3 DEF ArriveLast, TypeOK
      <3> QED
        BY <3>1, <3>2 DEF Generations
    <2>7. Here' = {}
      BY <1>1, <2>3 DEF ArriveLast, Here, TypeOK
    <2>8. Counting'
      BY <1>1, <2>7, ThreadCount, FS_EmptySet DEF ArriveLast, Counting, numWaiting
    <2> QED
      BY <2>4, <2>5, <2>6, <2>8
  <1>2. ASSUME NEW t \in Thread, Arrive(t) PROVE IInv'
    <2>1. /\ t \notin Here /\ arrived[t] = leaders /\ passed[t] = leaders
          /\ arrived'[t] = leaders + 1 /\ leaders' = leaders
      BY <1>2 DEF Arrive, Rounds, Here, TypeOK
    <2>2. Here' = Here \cup {t}
      BY <1>2, <2>1 DEF Arrive, Here, TypeOK
    <2>3. Cardinality(Here') = Cardinality(Here) + 1
      <3> HIDE DEF Here
      <3>1. IsFiniteSet(Here)
        BY ThreadCount DEF Here
      <3>2. Cardinality(Here \cup {t}) = Cardinality(Here) + 1
        BY <2>1, <3>1, FS_AddElement, Zenon
      <3> QED
        BY <2>2, <3>2
    <2>4. TypeOK'
      BY <1>2, ThreadCount DEF Arrive, TypeOK
    <2>5. Rounds'
      BY <1>2, <2>1 DEF Arrive, Rounds, TypeOK
    <2>6. Generations'
      BY <1>2, <2>1 DEF Arrive, Generations, TypeOK
    <2>7. Counting'
      BY <1>2, <2>3, ThreadCount DEF Arrive, Counting, Here, TypeOK, numWaiting
    <2> QED
      BY <2>4, <2>5, <2>6, <2>7
  <1>3. ASSUME NEW t \in Thread, Wake(t) PROVE IInv'
    <2>1. arrived[t] = leaders /\ passed[t] + 1 = leaders
      BY <1>3 DEF Wake, Rounds, Generations, TypeOK
    <2>2. TypeOK'
      BY <1>3, ThreadCount DEF Wake, TypeOK, numWaiting
    <2>3. Rounds'
      BY <1>3, <2>1 DEF Wake, Rounds, TypeOK
    <2>4. Generations'
      BY <1>3 DEF Wake, Generations
    <2>5. Here' = Here
      BY <1>3 DEF Wake, Here
    <2>6. Counting'
      BY <1>3, <2>5 DEF Wake, Counting, numWaiting
    <2> QED
      BY <2>2, <2>3, <2>4, <2>6
  <1>4. CASE UNCHANGED vars
    BY <1>4 DEF vars, TypeOK, Rounds, Generations, Counting, Here, numWaiting
  <1> QED
    BY <1>1, <1>2, <1>3, <1>4 DEF Next

(* For any number of threads and any width of the counter: no thread       *)
(* passes Barrier::wait() before all have arrived.                         *)
THEOREM BarrierHolds == Spec => []NoneEarly
  <1>1. IInv => NoneEarly
    BY DEF IInv, TypeOK, Rounds, NoneEarly
  <1> QED
    BY InitInv, NextInv, <1>1, PTL DEF Spec

(* For any number of threads and any width of the counter: one call of     *)
(* Barrier::wait() per round returns true.                                 *)
THEOREM BarrierElects == Spec => []OneLeader
  <1>1. IInv => OneLeader
    BY DEF IInv, TypeOK, Rounds, OneLeader
  <1> QED
    BY InitInv, NextInv, <1>1, PTL DEF Spec
============================================================================
