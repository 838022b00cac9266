---------------------------- MODULE DrainProofs ----------------------------
(***************************************************************************)
(* The drain manager is correct for any finite set of objects and any      *)
(* amount of work.  The inductive invariant says, for every place of the   *)
(* script, what the manager and the objects are like; in the loop of       *)
(* tryDrain() the counter is the number of busy objects visited so far,    *)
(* while the system drains it is the number of objects yet to signal.      *)
(***************************************************************************)
EXTENDS Drain, FiniteSetTheorems, TLAPS

AllIn(s) == \A o \in Drainable : drainState[o] = s

(* The objects tryDrain() has visited and counted *)
Counted == {o \in Drainable : o \notin todo /\ o \in busy}

(* The objects that have yet to signal *)
Pending == {o \in Drainable : drainState[o] = "Draining"}

AtScript ==
    pc = "script" => /\ count = 0 /\ finished = 0
                     /\ \/ state = "Running" /\ AllIn("Running")
                        \/ state = "Drained" /\ AllIn("Drained") /\ busy = {}

AtRun == pc = "run" => state = "Running" /\ AllIn("Running") /\ count = 0 /\ finished = 0

AtResume ==
    pc = "resume" => /\ state = "Running" /\ count = 0 /\ finished = 0
                     /\ \A o \in Drainable :
                          /\ o \in todo => drainState[o] = "Drained"
                          /\ o \notin todo => drainState[o] = "Running"

AtCycle == pc = "cycle" => state = "Draining" /\ count = 0 /\ finished = 0

AtTryDrain ==
    pc = "tryDrain" => /\ state = "Draining" /\ finished = 0
                       /\ count = Cardinality(Counted)
                       /\ \A o \in Drainable \ todo :
                            /\ o \in busy => drainState[o] = "Draining"
                            /\ o \notin busy => drainState[o] = "Drained"

AtDrainRun ==
    pc = "drainRun" => /\ state = "Draining"
                       /\ count = Cardinality(Pending)
                       /\ \A o \in Drainable : drainState[o] # "Running"
                       /\ count = 0 => finished = 1
                       /\ count # 0 => finished = 0

IInv == /\ TypeOK /\ NoPanic
        /\ AtScript /\ AtRun /\ AtResume /\ AtCycle /\ AtTryDrain /\ AtDrainRun

Places == /\ NoPanic
          /\ AtScript /\ AtRun /\ AtResume /\ AtCycle /\ AtTryDrain /\ AtDrainRun

(* A subset of the drainable objects is finite, and empty if its           *)
(* cardinality is zero.                                                    *)
LEMMA SubsetFinite ==
  ASSUME NEW S \in SUBSET Drainable
  PROVE  IsFiniteSet(S) /\ Cardinality(S) \in Nat /\ (Cardinality(S) = 0 <=> S = {})
  <1>1. IsFiniteSet(S)
    BY DrainableAssumption, FS_Subset
  <1>2. Cardinality(S) \in Nat
    BY <1>1, FS_CardinalityType
  <1>3. Cardinality(S) = 0 <=> S = {}
    BY <1>1, FS_EmptySet
  <1> QED
    BY <1>1, <1>2, <1>3

(* The initial state: nothing is busy and nothing is drained.              *)
LEMMA InitIInv == Init => IInv
  <1> SUFFICES ASSUME Init PROVE IInv
    OBVIOUS
  <1>1. TypeOK
    <2>1. saved \in BOOLEAN
      BY Zenon DEF Init
    <2>2. drainState \in [Drainable -> DrainState]
      BY DEF Init, DrainState
    <2>3. work \in 0..MaxWork
      BY WorkAssumption DEF Init
    <2>4. count \in Nat /\ finished \in Nat
      BY DEF Init
    <2>5. busy \subseteq Drainable /\ todo \subseteq Drainable
      BY DEF Init
    <2> QED
      BY <2>1, <2>2, <2>3, <2>4, <2>5, Zenon DEF Init, TypeOK, DrainState
  <1>2. AllIn("Running")
    BY DEF Init, AllIn
  <1>3. Places
    BY <1>2 DEF Init, Places, NoPanic, AtScript, AtRun, AtResume, AtCycle, AtTryDrain,
       AtDrainRun
  <1> QED
    BY <1>1, <1>3 DEF IInv, Places

(* Every step keeps the variables in their types; the counter stays above  *)
(* zero because only a counted object is counted off.                      *)
LEMMA TypeStep == IInv /\ [Next]_vars => TypeOK'
  <1> SUFFICES ASSUME IInv, [Next]_vars PROVE TypeOK'
    OBVIOUS
  <1> USE WorkAssumption DEF IInv, TypeOK, DrainState
  <1>1. CASE simulate
    BY <1>1 DEF simulate
  <1>2. CASE resume
    BY <1>2 DEF resume
  <1>3. CASE Resumed
    BY <1>3 DEF Resumed
  <1>4. CASE tryDrain
    BY <1>4 DEF tryDrain
  <1>5. CASE DrainCycleEnd
    BY <1>5 DEF DrainCycleEnd
  <1>6. CASE serializeAll
    BY <1>6 DEF serializeAll
  <1>7. CASE preCheckpointRestore
    BY <1>7 DEF preCheckpointRestore
  <1>8. CASE ExitFinishedDrain
    BY <1>8 DEF ExitFinishedDrain
  <1>9. CASE ExitOther
    BY <1>9 DEF ExitOther
  <1>10. ASSUME NEW o \in Drainable, dmDrainResume(o) PROVE TypeOK'
    BY <1>10 DEF dmDrainResume
  <1>11. ASSUME NEW o \in Drainable, dmDrain(o) PROVE TypeOK'
    BY <1>11 DEF dmDrain
  <1>12. ASSUME NEW o \in Drainable, StartWork(o) PROVE TypeOK'
    BY <1>12 DEF StartWork
  <1>13. ASSUME NEW o \in Drainable, NEW p \in Drainable, Disturb(p, o) PROVE TypeOK'
    BY <1>13 DEF Disturb
  <1>14. ASSUME NEW o \in Drainable, FinishWork(o) PROVE TypeOK'
    <2>1. CASE drainState[o] # "Draining"
      BY <1>14, <2>1 DEF FinishWork
    <2>2. CASE drainState[o] = "Draining"
      <3>1. pc = "drainRun"
        BY <1>14, <2>2 DEF FinishWork, Simulating, AtRun, AllIn
      <3>2. o \in Pending /\ Pending \in SUBSET Drainable
        BY <2>2 DEF Pending
      <3>3. count # 0 /\ count \in Nat
        BY <3>1, <3>2, SubsetFinite DEF AtDrainRun
      <3> QED
        BY <1>14, <2>2, <3>3 DEF FinishWork
    <2> QED
      BY <2>1, <2>2
  <1>15. CASE UNCHANGED vars
    BY <1>15 DEF vars
  <1> QED
    BY <1>1, <1>2, <1>3, <1>4, <1>5, <1>6, <1>7, <1>8, <1>9, <1>10, <1>11, <1>12,
       <1>13, <1>14, <1>15 DEF Next

(* tryDrain() begins a cycle with a counter of zero: no object is counted. *)
LEMMA TryDrainStep == IInv /\ tryDrain => Places'
  <1> SUFFICES ASSUME IInv, tryDrain PROVE Places'
    OBVIOUS
  <1>1. state # "Drained" /\ count = 0 /\ finished = 0
    BY DEF IInv, tryDrain, AtScript, AtCycle
  <1>2. pc' = "tryDrain" /\ state' = "Draining" /\ todo' = Drainable
    BY <1>1 DEF tryDrain
  <1>3. Counted' = {}
    BY <1>2 DEF Counted
  <1>4. Cardinality(Counted') = 0
    BY <1>3, FS_EmptySet
  <1> QED
    BY <1>1, <1>2, <1>4 DEF tryDrain, Places, NoPanic, AtScript, AtRun, AtResume,
       AtCycle, AtTryDrain, AtDrainRun

(* The loop of tryDrain() counts an object exactly if it is busy.          *)
LEMMA DmDrainStep ==
  ASSUME NEW o \in Drainable, IInv, dmDrain(o)
  PROVE  Places'
  <1>1. pc = "tryDrain" /\ pc' = pc /\ o \in todo /\ todo' = todo \ {o} /\ busy' = busy
    BY DEF dmDrain
  <1>2. Counted \in SUBSET Drainable /\ o \notin Counted
    BY <1>1 DEF Counted
  <1>3. IsFiniteSet(Counted) /\ Cardinality(Counted) \in Nat
    BY <1>2, SubsetFinite
  <1>4. count' = Cardinality(Counted')
    <2>1. CASE o \in busy
      <3>1. Counted' = Counted \cup {o}
        BY <1>1, <2>1 DEF Counted
      <3>2. Cardinality(Counted \cup {o}) = Cardinality(Counted) + 1
        BY <1>2, <1>3, FS_AddElement
      <3> QED
        BY <1>1, <2>1, <3>1, <3>2 DEF dmDrain, IInv, AtTryDrain
    <2>2. CASE o \notin busy
      <3>1. Counted' = Counted
        BY <1>1, <2>2 DEF Counted
      <3> QED
        BY <1>1, <2>2, <3>1 DEF dmDrain, IInv, AtTryDrain
    <2> QED
      BY <2>1, <2>2
  <1>5. \A q \in Drainable \ todo' : /\ q \in busy' => drainState'[q] = "Draining"
                                     /\ q \notin busy' => drainState'[q] = "Drained"
    BY <1>1 DEF dmDrain, IInv, TypeOK, AtTryDrain
  <1>6. state' = "Draining" /\ finished' = 0
    BY <1>1 DEF dmDrain, IInv, AtTryDrain
  <1> QED
    BY <1>1, <1>4, <1>5, <1>6 DEF Places, NoPanic, AtScript, AtRun, AtResume, AtCycle,
       AtTryDrain, AtDrainRun

(* At the end of the loop the counter is the number of busy objects, which *)
(* are those that have yet to signal.                                      *)
LEMMA CycleEndStep == IInv /\ DrainCycleEnd => Places'
  <1> SUFFICES ASSUME IInv, DrainCycleEnd PROVE Places'
    OBVIOUS
  <1>1. pc = "tryDrain" /\ todo = {} /\ UNCHANGED <<count, drainState, busy, finished>>
    BY DEF DrainCycleEnd
  <1>2. Counted = busy /\ Pending = busy /\ busy \in SUBSET Drainable
    BY <1>1 DEF Counted, Pending, IInv, TypeOK, AtTryDrain
  <1>3. count = Cardinality(busy) /\ finished = 0 /\ state = "Draining"
    BY <1>1, <1>2 DEF IInv, AtTryDrain
  <1>4. count \in Nat /\ (count = 0 <=> busy = {})
    BY <1>2, <1>3, SubsetFinite
  <1>5. CASE count = 0
    <2>1. AllIn("Drained")'
      BY <1>1, <1>4, <1>5 DEF AllIn, IInv, AtTryDrain
    <2> QED
      BY <1>1, <1>3, <1>4, <1>5, <2>1 DEF DrainCycleEnd, Places, NoPanic, AtScript,
         AtRun, AtResume, AtCycle, AtTryDrain, AtDrainRun
  <1>6. CASE count # 0
    <2>1. Pending' = Pending
      BY <1>1 DEF Pending
    <2>2. \A o \in Drainable : drainState'[o] # "Running"
      BY <1>1 DEF IInv, AtTryDrain
    <2> QED
      BY <1>1, <1>2, <1>3, <1>6, <2>1, <2>2 DEF DrainCycleEnd, Places, NoPanic,
         AtScript, AtRun, AtResume, AtCycle, AtTryDrain, AtDrainRun
  <1> QED
    BY <1>5, <1>6

(* signalDrainDone() counts off a Draining object, once.                   *)
LEMMA FinishWorkStep ==
  ASSUME NEW o \in Drainable, IInv, FinishWork(o)
  PROVE  Places'
  <1>1. Simulating /\ pc' = pc /\ state' = state /\ todo' = todo
    BY DEF FinishWork
  <1>2. CASE drainState[o] = "Draining"
    <2>1. pc = "drainRun"
      BY <1>1, <1>2 DEF IInv, Simulating, AtRun, AllIn
    <2>2. o \in Pending /\ Pending \in SUBSET Drainable
      BY <1>2 DEF Pending
    <2>3. Pending' = Pending \ {o}
      BY <1>2 DEF Pending, FinishWork, IInv, TypeOK
    <2>4. IsFiniteSet(Pending) /\ Cardinality(Pending) \in Nat /\ Cardinality(Pending) # 0
      BY <2>2, SubsetFinite
    <2>5. Cardinality(Pending') = Cardinality(Pending) - 1
      BY <2>2, <2>3, <2>4, FS_RemoveElement
    <2>6. count = Cardinality(Pending) /\ finished = 0 /\ state = "Draining"
      BY <2>1, <2>4 DEF IInv, AtDrainRun
    <2>7. count' = Cardinality(Pending')
      BY <1>2, <2>5, <2>6 DEF FinishWork
    <2>8. (count' = 0 => finished' = 1) /\ (count' # 0 => finished' = 0)
      BY <1>2, <2>6 DEF FinishWork
    <2>9. \A q \in Drainable : drainState'[q] # "Running"
      BY <1>2, <2>1 DEF FinishWork, IInv, TypeOK, AtDrainRun
    <2> QED
      BY <1>1, <2>1, <2>6, <2>7, <2>8, <2>9 DEF Places, NoPanic, AtScript, AtRun,
         AtResume, AtCycle, AtTryDrain, AtDrainRun
  <1>3. CASE drainState[o] # "Draining"
    <2>1. UNCHANGED <<drainState, count, finished>>
      BY <1>3 DEF FinishWork
    <2>2. Pending' = Pending
      BY <2>1 DEF Pending
    <2> QED
      BY <1>1, <2>1, <2>2 DEF Simulating, IInv, Places, NoPanic, AtScript, AtRun,
         AtResume, AtCycle, AtTryDrain, AtDrainRun, AllIn
  <1> QED
    BY <1>2, <1>3

(* The steps that leave the counter alone.                                 *)
LEMMA OtherStep ==
  ASSUME IInv,
         \/ simulate \/ resume \/ Resumed \/ serializeAll \/ preCheckpointRestore
         \/ ExitFinishedDrain \/ ExitOther
         \/ \E o \in Drainable : \/ dmDrainResume(o) \/ StartWork(o)
                                 \/ \E p \in Drainable : Disturb(p, o)
  PROVE  Places'
  <1> USE DEF IInv, Places, NoPanic, AtScript, AtRun, AtResume, AtCycle, AtTryDrain,
          AtDrainRun, AllIn
  <1>1. CASE simulate
    BY <1>1 DEF simulate
  <1>2. CASE resume
    BY <1>2 DEF resume
  <1>3. CASE Resumed
    BY <1>3 DEF Resumed
  <1>4. CASE serializeAll
    BY <1>4 DEF serializeAll
  <1>5. CASE preCheckpointRestore
    BY <1>5 DEF preCheckpointRestore
  <1>6. CASE ExitFinishedDrain
    BY <1>6 DEF ExitFinishedDrain, Simulating, TypeOK
  <1>7. CASE ExitOther
    BY <1>7 DEF ExitOther
  <1>8. ASSUME NEW o \in Drainable, dmDrainResume(o) PROVE Places'
    BY <1>8 DEF dmDrainResume, TypeOK
  <1>9. ASSUME NEW o \in Drainable,
               StartWork(o) \/ \E p \in Drainable : Disturb(p, o)
        PROVE  Places'
    <2>1. Simulating /\ UNCHANGED <<state, count, drainState, pc, todo, finished>>
      BY <1>9 DEF StartWork, Disturb
    <2>2. Pending' = Pending
      BY <2>1 DEF Pending
    <2> QED
      BY <2>1, <2>2 DEF Simulating
  <1> HIDE DEF IInv, Places
  <1> QED
    BY <1>1, <1>2, <1>3, <1>4, <1>5, <1>6, <1>7, <1>8, <1>9

(* Every step keeps the invariant.                                         *)
LEMMA NextIInv == IInv /\ [Next]_vars => IInv'
  <1> SUFFICES ASSUME IInv, [Next]_vars PROVE IInv'
    OBVIOUS
  <1>1. TypeOK'
    BY TypeStep
  <1>2. CASE UNCHANGED vars
    <2>1. Counted' = Counted /\ Pending' = Pending
      BY <1>2 DEF vars, Counted, Pending
    <2> QED
      BY <1>1, <1>2, <2>1 DEF vars, IInv, NoPanic, AtScript, AtRun, AtResume, AtCycle,
         AtTryDrain, AtDrainRun, AllIn
  <1>3. CASE Next
    <2>1. Places'
      BY <1>3, TryDrainStep, DmDrainStep, CycleEndStep, FinishWorkStep, OtherStep
         DEF Next
    <2> QED
      BY <1>1, <2>1 DEF IInv, Places
  <1> QED
    BY <1>2, <1>3

(* The invariant holds in every reachable state.                           *)
THEOREM Invariance == Spec => []IInv
  <1>1. Init => IInv
    BY InitIInv
  <1>2. IInv /\ [Next]_vars => IInv'
    BY NextIInv
  <1> QED
    BY <1>1, <1>2, PTL DEF Spec

(* The counter of the drain manager is the number of objects that have yet *)
(* to signal, whenever objects run.                                        *)
THEOREM CounterCorrect == Spec => []CountExact
  <1>1. IInv => CountExact
    <2> SUFFICES ASSUME IInv, Simulating PROVE count = Cardinality(Pending)
      BY DEF CountExact, Pending
    <2>1. CASE pc = "drainRun"
      BY <2>1 DEF IInv, AtDrainRun
    <2>2. CASE pc = "run"
      <3>1. Pending = {}
        BY <2>2 DEF Pending, IInv, AtRun, AllIn
      <3> QED
        BY <2>2, <3>1, FS_EmptySet DEF IInv, AtRun
    <2> QED
      BY <2>1, <2>2 DEF Simulating
  <1> QED
    BY <1>1, Invariance, PTL

(* A system that tryDrain() declares drained has no work left in any       *)
(* object: it can be written to a checkpoint.                              *)
THEOREM DrainedSystemIdle == Spec => []DrainedIsIdle
  <1>1. IInv => DrainedIsIdle
    BY DEF IInv, TypeOK, NoPanic, DrainedIsIdle, AtScript, AtRun, AtResume, AtCycle,
       AtTryDrain, AtDrainRun, DrainState
  <1> QED
    BY <1>1, Invariance, PTL

(* None of the panics of the drain manager is reachable, and no "Finished  *)
(* drain" event outlives its drain cycle.                                  *)
THEOREM DrainSafe == Spec => [](NoPanic /\ NoStaleExit)
  <1>1. IInv => NoPanic /\ NoStaleExit
    BY DEF IInv, TypeOK, NoPanic, NoStaleExit, AtScript, AtRun, AtResume, AtCycle,
       AtTryDrain, AtDrainRun
  <1> QED
    BY <1>1, Invariance, PTL
============================================================================
