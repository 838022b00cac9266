---------------------------- MODULE RenameProofs ----------------------------
(***************************************************************************)
(* The pipeline of RenameCommit only takes steps of RenameRegs, so that    *)
(* what RenameRegsProofs shows of the registers holds in it, for any       *)
(* number of threads, registers and instructions.                          *)
(***************************************************************************)
EXTENDS RenameCommit, RenameRegsProofs

-----------------------------------------------------------------------------
(* The types of the pipeline's state.  Sequence numbers start at 1, so     *)
(* that the one before an instruction's is a number too.                   *)
Inst ==
  [seqNum : Nat \ {0}, tid : Threads, srcs : SUBSET PhysRegs,
   dests : Seq([arch : ArchRegs, phys : PhysRegs]), todo : Seq(ArchRegs),
   squashed : BOOLEAN, fresh : BOOLEAN]

Info == [doneSeqNum : Nat, squash : BOOLEAN, robSquashing : BOOLEAN]

PipeTypeOK ==
  /\ nextSeqNum \in Nat \ {0}
  /\ renaming \in SUBSET Inst
  /\ toIEW \in [Threads -> Seq(Inst)]
  /\ fromRename \in [Threads -> Seq(Inst)]
  /\ instList \in [Threads -> Seq(Inst)]
  /\ lastCommitedSeqNum \in [Threads -> Nat]
  /\ commitInfo \in [Threads -> Info]
  /\ fromCommit \in [Threads -> Info]

PipeInv == RegInv /\ PipeTypeOK

(* An instruction that renameInsts has just taken.                         *)
LEMMA NewInst ==
  ASSUME NEW n \in Nat \ {0}, NEW t \in Threads,
         NEW S \in SUBSET PhysRegs, NEW d \in Seq(ArchRegs)
  PROVE  [seqNum |-> n, tid |-> t, srcs |-> S, dests |-> <<>>, todo |-> d,
          squashed |-> FALSE, fresh |-> TRUE] \in Inst
<1>1. <<>> \in Seq([arch : ArchRegs, phys : PhysRegs])
  OBVIOUS
<1>. QED  BY <1>1 DEF Inst

(* Marking the instructions of the reorder buffer leaves them instructions. *)
LEMMA MarkSquashed ==
  ASSUME NEW s \in Seq(Inst), NEW seq
  PROVE  Squashed(s, seq) \in Seq(Inst)
<1>1. DOMAIN s = 1..Len(s) /\ Len(s) \in Nat
  OBVIOUS
<1>2. ASSUME NEW k \in DOMAIN s
      PROVE  [s[k] EXCEPT !.squashed = @ \/ s[k].seqNum > seq] \in Inst
  <2>1. s[k] \in Inst
    BY <1>1
  <2>2. (s[k].squashed \/ s[k].seqNum > seq) \in BOOLEAN
    OBVIOUS
  <2>. QED  BY <2>1, <2>2, Zenon DEF Inst
<1>. QED  BY <1>1, <1>2 DEF Squashed

(* Sequence numbers start at 1, so the number before one is a number too.  *)
LEMMA SeqNums ==
  ASSUME NEW i \in Inst
  PROVE  i.seqNum \in Nat /\ i.seqNum - 1 \in Nat
<1>1. i.seqNum \in Nat \ {0}
  BY DEF Inst
<1>. QED  BY <1>1

(* Commit tells rename the number of the last instruction it committed.    *)
LEMMA InfoDone ==
  ASSUME NEW c \in Info, NEW n \in Nat
  PROVE  [c EXCEPT !.doneSeqNum = n] \in Info
BY Zenon DEF Info

(* The end of a cycle leaves the instructions of a sequence instructions.  *)
LEMMA MarkOld ==
  ASSUME NEW s \in Seq(Inst)
  PROVE  [k \in DOMAIN s |-> [s[k] EXCEPT !.fresh = FALSE]] \in Seq(Inst)
<1>1. DOMAIN s = 1..Len(s) /\ Len(s) \in Nat
  OBVIOUS
<1>2. ASSUME NEW k \in DOMAIN s
      PROVE  [s[k] EXCEPT !.fresh = FALSE] \in Inst
  <2>1. s[k] \in Inst
    BY <1>1
  <2>. QED  BY <2>1, Zenon DEF Inst
<1>. QED  BY <1>1, <1>2

(* The register bookkeeping sees the pipeline's steps as its own or not at *)
(* all: this is the refinement of RenameRegs by RenameCommit, step by step. *)
LEMMA PipeStepIsRegStep ==
  ASSUME PipeTypeOK, [Next]_vars
  PROVE  [RegNext]_regVars
<1>. USE DEF PipeTypeOK
<1>1. ASSUME NEW t \in Threads, checkSignalsAndUpdate(t) PROVE [RegNext]_regVars
  <2>1. fromCommit[t].doneSeqNum \in Nat
    BY DEF Info
  <2>2. CASE squash(t)
    BY <2>1, <2>2 DEF squash, RegNext
  <2>3. CASE run(t)
    BY <2>3 DEF run
  <2>. QED  BY <1>1, <2>2, <2>3 DEF checkSignalsAndUpdate
<1>2. ASSUME NEW i \in renaming, renameDestReg(i) PROVE [RegNext]_regVars
  <2>1. i \in Inst
    OBVIOUS
  <2>2. /\ i.seqNum \in Nat /\ i.tid \in Threads /\ i.todo \in Seq(ArchRegs)
        /\ Len(i.dests) \in Nat
    BY <2>1 DEF Inst
  <2>3. i.todo # <<>> /\ renameDest(i.tid, i.seqNum, Len(i.dests), Head(i.todo))
    BY <1>2 DEF renameDestReg
  <2>4. Head(i.todo) \in ArchRegs
    BY <2>2, <2>3
  <2>. QED  BY <2>2, <2>3, <2>4 DEF RegNext
<1>3. ASSUME NEW t \in Threads, dropHistory(t) PROVE [RegNext]_regVars
  <2>1. fromCommit[t].doneSeqNum \in Nat
    BY DEF Info
  <2>. QED  BY <1>3, <2>1 DEF dropHistory, RegNext
<1>4. ASSUME NEW t \in Threads, squashAll(t) \/ squashFromIEW(t) PROVE UNCHANGED regVars
  BY <1>4 DEF squashAll, squashFromIEW, robSquash
<1>5. ASSUME NEW t \in Threads, commitHead(t) \/ trapHead(t) \/ retireSquashed(t)
      PROVE  UNCHANGED regVars
  BY <1>5 DEF commitHead, trapHead, retireSquashed
<1>6. ASSUME startHistory \/ startCommit \/ getInsts \/ advance PROVE UNCHANGED regVars
  BY <1>6 DEF startHistory, startCommit, getInsts, advance
<1>7. ASSUME NEW t \in Threads, NEW op \in Operands, renameSrcRegs(t, op)
      PROVE  UNCHANGED regVars
  BY <1>7 DEF renameSrcRegs
<1>8. ASSUME NEW i \in renaming, sendToIEW(i) PROVE UNCHANGED regVars
  BY <1>8 DEF sendToIEW
<1>9. CASE UNCHANGED vars
  BY <1>9 DEF vars
<1>. QED  BY <1>1, <1>2, <1>3, <1>4, <1>5, <1>6, <1>7, <1>8, <1>9 DEF Next

(* Every step keeps the types of the pipeline's state.                     *)
LEMMA PipeTypes ==
  ASSUME PipeInv, RegInv', [Next]_vars
  PROVE  PipeTypeOK'
<1>. USE DEF PipeInv, PipeTypeOK
<1>0. [t \in Threads |-> <<>>] \in [Threads -> Seq(Inst)] /\ NoInfo \in Info
  BY DEF NoInfo, Info
<1>1. ASSUME NEW t \in Threads, checkSignalsAndUpdate(t) PROVE PipeTypeOK'
  <2>0. <<>> \in Seq(Inst)
    OBVIOUS
  <2>1. fromRename' = [fromRename EXCEPT ![t] = <<>>] \/ fromRename' = fromRename
    BY <1>1 DEF checkSignalsAndUpdate, squash, run, removeInstsNotInROB
  <2>2. fromRename' \in [Threads -> Seq(Inst)]
    BY <2>0, <2>1, Zenon
  <2>. QED  BY <1>1, <2>2 DEF checkSignalsAndUpdate
<1>2. ASSUME NEW t \in Threads, NEW op \in Operands, renameSrcRegs(t, op)
      PROVE  PipeTypeOK'
  <2>1. op.srcs \in SUBSET ArchRegs /\ op.dests \in Seq(ArchRegs)
    BY OperandRegs
  <2>2. {renameMap[t][a] : a \in op.srcs} \in SUBSET PhysRegs
    <3>1. renameMap \in [Threads -> [ArchRegs -> PhysRegs]]
      BY DEF RegInv, RegTypeOK
    <3>. HIDE DEF PipeTypeOK
    <3>. QED  BY <2>1, <3>1
  <2>3. PICK i : i = [seqNum |-> nextSeqNum, tid |-> t,
                      srcs |-> {renameMap[t][a] : a \in op.srcs},
                      dests |-> <<>>, todo |-> op.dests,
                      squashed |-> FALSE, fresh |-> TRUE]
    BY Zenon
  <2>4. nextSeqNum \in Nat \ {0}
    OBVIOUS
  <2>5. i \in Inst
    <3>. HIDE DEF PipeInv, PipeTypeOK
    <3>. QED  BY <2>1, <2>2, <2>3, <2>4, NewInst, Zenon
  <2>6. renaming' = {i}
    BY <1>2, <2>3 DEF renameSrcRegs
  <2>7. nextSeqNum' \in Nat \ {0}
    <3>1. nextSeqNum' = nextSeqNum + 1
      BY <1>2 DEF renameSrcRegs
    <3>2. nextSeqNum \in Nat \ {0}
      OBVIOUS
    <3>. HIDE DEF PipeTypeOK
    <3>. QED  BY <3>1, <3>2
  <2>8. renaming' \in SUBSET Inst
    BY <2>5, <2>6
  <2>. QED  BY <1>2, <2>7, <2>8 DEF renameSrcRegs
<1>3. ASSUME NEW i \in renaming, renameDestReg(i) PROVE PipeTypeOK'
  <2>1. i \in Inst
    OBVIOUS
  <2>2. i.tid \in Threads /\ i.todo \in Seq(ArchRegs) /\ i.todo # <<>>
    BY <1>3, <2>1 DEF Inst, renameDestReg
  <2>3. PICK a : a = Head(i.todo)
    OBVIOUS
  <2>4. a \in ArchRegs /\ Tail(i.todo) \in Seq(ArchRegs)
    BY <2>2, <2>3
  <2>5. renameMap'[i.tid][a] \in PhysRegs
    BY <2>2, <2>4 DEF RegInv, RegTypeOK
  <2>6. PICK d : d = [arch |-> a, phys |-> renameMap'[i.tid][a]]
    BY Zenon
  <2>7. Append(i.dests, d) \in Seq([arch : ArchRegs, phys : PhysRegs])
    <3>1. d \in [arch : ArchRegs, phys : PhysRegs]
      BY <2>4, <2>5, <2>6
    <3>2. i.dests \in Seq([arch : ArchRegs, phys : PhysRegs])
      BY <2>1 DEF Inst
    <3>. QED  BY <3>1, <3>2
  <2>8. renaming' = {[i EXCEPT !.todo = Tail(@), !.dests = Append(@, d)]}
    BY <1>3, <2>3, <2>6 DEF renameDestReg
  <2>9. [i EXCEPT !.todo = Tail(@), !.dests = Append(@, d)] \in Inst
    BY <2>1, <2>4, <2>3, <2>7, Zenon DEF Inst
  <2>. QED  BY <1>3, <2>8, <2>9, Zenon DEF renameDestReg
<1>4. ASSUME NEW i \in renaming, sendToIEW(i) PROVE PipeTypeOK'
  <2>1. i \in Inst /\ i.tid \in Threads
    BY Zenon DEF Inst
  <2>2. Append(toIEW[i.tid], i) \in Seq(Inst)
    BY <2>1
  <2>3. toIEW' \in [Threads -> Seq(Inst)]
    BY <1>4, <2>1, <2>2 DEF sendToIEW
  <2>. QED  BY <1>4, <2>3 DEF sendToIEW
<1>5. CASE startHistory
  BY <1>5 DEF startHistory
<1>6. ASSUME NEW t \in Threads, dropHistory(t) PROVE PipeTypeOK'
  BY <1>6 DEF dropHistory
<1>7. CASE startCommit
  <2>1. commitInfo' \in [Threads -> Info]
    <3>1. PICK S : commitInfo' = [t \in Threads |-> [NoInfo EXCEPT !.robSquashing = t \in S]]
      BY <1>7, Zenon DEF startCommit
    <3>2. ASSUME NEW t \in Threads PROVE [NoInfo EXCEPT !.robSquashing = t \in S] \in Info
      <4>1. (t \in S) \in BOOLEAN
        OBVIOUS
      <4>. QED  BY <4>1, <1>0, Zenon DEF Info
    <3>. QED  BY <3>1, <3>2
  <2>2. fromCommit' \in [Threads -> Info]
    BY <1>7, <1>0 DEF startCommit
  <2>. QED  BY <1>7, <2>1, <2>2 DEF startCommit
<1>8. ASSUME NEW t \in Threads, NEW seq \in Nat, robSquash(t, seq) PROVE PipeTypeOK'
  <2>1. instList' \in [Threads -> Seq(Inst)]
    <3>1. instList' = [instList EXCEPT ![t] = Squashed(instList[t], seq)]
      BY <1>8 DEF robSquash
    <3>. QED  BY <3>1, MarkSquashed
  <2>2. commitInfo' \in [Threads -> Info]
    BY <1>8 DEF robSquash, Info
  <2>. QED  BY <1>8, <2>1, <2>2 DEF robSquash
<1>9. ASSUME NEW t \in Threads, instList[t] # <<>>
      PROVE  /\ Head(instList[t]) \in Inst
             /\ Head(instList[t]).seqNum \in Nat
             /\ Head(instList[t]).seqNum - 1 \in Nat
             /\ Tail(instList[t]) \in Seq(Inst)
  <2>1. Head(instList[t]) \in Inst /\ Tail(instList[t]) \in Seq(Inst)
    BY <1>9
  <2>. QED  BY <2>1, SeqNums
<1>10. ASSUME NEW t \in Threads, squashAll(t) PROVE PipeTypeOK'
  <2>1. CASE instList[t] = <<>>
    BY <1>8, <1>10, <2>1 DEF squashAll
  <2>2. CASE instList[t] # <<>>
    <3>1. robSquash(t, Head(instList[t]).seqNum - 1)
      BY <1>10, <2>2 DEF squashAll
    <3>2. Head(instList[t]).seqNum - 1 \in Nat
      BY <1>9, <2>2
    <3>. HIDE DEF PipeTypeOK
    <3>. QED  BY <3>1, <3>2, <1>8
  <2>. HIDE DEF PipeInv, PipeTypeOK
  <2>. QED  BY <2>1, <2>2
<1>11. ASSUME NEW t \in Threads, squashFromIEW(t) PROVE PipeTypeOK'
  <2>1. PICK k \in DOMAIN instList[t] :
          robSquash(t, instList[t][k].seqNum) \/ robSquash(t, instList[t][k].seqNum - 1)
    BY <1>11 DEF squashFromIEW
  <2>2. instList[t][k] \in Inst
    OBVIOUS
  <2>3. instList[t][k].seqNum \in Nat /\ instList[t][k].seqNum - 1 \in Nat
    BY <2>2, SeqNums
  <2>. HIDE DEF PipeTypeOK
  <2>4. CASE robSquash(t, instList[t][k].seqNum)
    BY <2>3, <2>4, <1>8
  <2>5. CASE robSquash(t, instList[t][k].seqNum - 1)
    BY <2>3, <2>5, <1>8
  <2>. QED  BY <2>1, <2>4, <2>5
<1>12. CASE getInsts
  <2>1. instList' \in [Threads -> Seq(Inst)] /\ fromRename' \in [Threads -> Seq(Inst)]
    BY <1>0, <1>12 DEF getInsts
  <2>. QED  BY <1>12, <2>1 DEF getInsts
<1>13. ASSUME NEW t \in Threads, commitHead(t) PROVE PipeTypeOK'
  <2>1. instList[t] # <<>>
    BY <1>13 DEF commitHead, HeadReady
  <2>2. instList' \in [Threads -> Seq(Inst)]
    BY <1>9, <1>13, <2>1 DEF commitHead
  <2>3. lastCommitedSeqNum' \in [Threads -> Nat]
    BY <1>9, <1>13, <2>1 DEF commitHead
  <2>4. commitInfo' \in [Threads -> Info]
    <3>1. [commitInfo[t] EXCEPT !.doneSeqNum = Head(instList[t]).seqNum] \in Info
      <4>1. commitInfo[t] \in Info /\ Head(instList[t]).seqNum \in Nat
        BY <1>9, <2>1
      <4>. HIDE DEF PipeInv, PipeTypeOK
      <4>. QED  BY <4>1, InfoDone
    <3>2. commitInfo' = [commitInfo EXCEPT ![t] =
            [commitInfo[t] EXCEPT !.doneSeqNum = Head(instList[t]).seqNum]]
      BY <1>13 DEF commitHead
    <3>. QED  BY <3>1, <3>2
  <2>. QED  BY <1>13, <2>2, <2>3, <2>4 DEF commitHead
<1>14. ASSUME NEW t \in Threads, trapHead(t) PROVE PipeTypeOK'
  BY <1>14 DEF trapHead
<1>15. ASSUME NEW t \in Threads, retireSquashed(t) PROVE PipeTypeOK'
  <2>1. instList[t] # <<>>
    BY <1>15 DEF retireSquashed, HeadReady
  <2>2. instList' \in [Threads -> Seq(Inst)]
    BY <1>9, <1>15, <2>1 DEF retireSquashed
  <2>. QED  BY <1>15, <2>2 DEF retireSquashed
<1>16. CASE advance
  <2>1. instList' \in [Threads -> Seq(Inst)]
    BY <1>16, MarkOld DEF advance
  <2>2. /\ toIEW' \in [Threads -> Seq(Inst)]
        /\ fromRename' \in [Threads -> Seq(Inst)]
        /\ commitInfo' \in [Threads -> Info]
        /\ fromCommit' \in [Threads -> Info]
    BY <1>0, <1>16 DEF advance
  <2>. QED  BY <1>16, <2>1, <2>2 DEF advance
<1>17. CASE UNCHANGED vars
  BY <1>17 DEF vars, pipeVars
<1>. HIDE DEF PipeInv, PipeTypeOK
<1>. QED  BY <1>1, <1>2, <1>3, <1>4, <1>5, <1>6, <1>7, <1>10, <1>11, <1>12, <1>13,
             <1>14, <1>15, <1>16, <1>17 DEF Next

(* The invariant of the pipeline holds at the start.                       *)
LEMMA PipeInitial ==
  ASSUME Init
  PROVE  PipeInv
<1>1. RegInv
  BY RegInitial DEF Init
<1>2. PipeTypeOK
  BY DEF Init, PipeTypeOK, Info, NoInfo
<1>. QED  BY <1>1, <1>2 DEF PipeInv

(* Every step of the pipeline preserves it.                                *)
LEMMA PipeStep ==
  ASSUME PipeInv, [Next]_vars
  PROVE  PipeInv'
<1>1. [RegNext]_regVars
  BY PipeStepIsRegStep DEF PipeInv
<1>2. RegInv'
  BY <1>1, RegStep DEF PipeInv
<1>3. PipeTypeOK'
  BY <1>2, PipeTypes
<1>. QED  BY <1>2, <1>3 DEF PipeInv

(* The pipeline of rename and commit implements the register bookkeeping   *)
(* alone: each of its steps renames one register, undoes a squash, drops   *)
(* committed history, or leaves the registers as they are                  *)
(* (rename_impl.hh:1068, rename_impl.hh:909, rename_impl.hh:958).          *)
THEOREM PipelineImplementsRegs == Spec => RegSpec
<1>1. Init => PipeInv /\ RegInit
  BY PipeInitial DEF Init
<1>2. PipeInv /\ [Next]_vars => PipeInv' /\ [RegNext]_regVars
  BY PipeStep, PipeStepIsRegStep DEF PipeInv
<1>. QED  BY <1>1, <1>2, PTL DEF Spec, RegSpec

(* So the pipeline, for any number of threads and registers, any widths    *)
(* and any instructions, neither loses a register nor has one held twice,  *)
(* and whatever commit tells rename a cycle late, nothing is freed twice   *)
(* (rename_map.cc:59, free_list.hh:197).                                   *)
THEOREM PipelineConserves == Spec => [](EveryRegisterOnce /\ NeverFreedTwice)
  BY PipelineImplementsRegs, RegistersConserved, PTL

=============================================================================
