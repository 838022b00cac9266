-------------------------- MODULE RenameRegsProofs --------------------------
(***************************************************************************)
(* The register bookkeeping is right for any number of threads and         *)
(* registers, whatever the order in which squashes and commits come.       *)
(***************************************************************************)
EXTENDS RenameSquashProofs

(* The CPU's constructor establishes the invariant.                        *)
LEMMA RegInitial ==
  ASSUME RegInit
  PROVE  RegInv
<1>. USE RegisterFile DEF RegInit
<1>1. RegTypeOK
  BY DEF RegTypeOK
<1>2. \A t \in Threads : historyBuffer[t] = {} /\ History(t) = {}
  BY DEF History, Renamed
<1>3. DistinctKeys
  BY <1>2 DEF DistinctKeys
<1>4. \A p : p \in freeList <=>
        p \in PhysRegs /\ ~ \E t \in Threads, a \in ArchRegs : renameMap[t][a] = p
  OBVIOUS
<1>5. HeldOnce
  BY <1>2, <1>4 DEF HeldOnce, NoneLost, MapDistinct, PrevDistinct, MapNotFree,
                    PrevNotFree, MapNotPrev
<1>6. Chains
  BY <1>2 DEF Chains, NewIsHeld, PrevWasNew, MapIsNewest
<1>. QED  BY <1>1, <1>3, <1>5, <1>6 DEF RegInv

(* The invariant is about the registers only.                              *)
LEMMA RegUnchanged ==
  ASSUME RegInv, UNCHANGED regVars
  PROVE  RegInv'
<1>1. \A t : History(t)' = History(t)
  BY DEF regVars, History, Renamed
<1>2. /\ \A t, h : Youngest(t, h)' <=> Youngest(t, h)
      /\ \A t, h, g : Adjacent(t, h, g)' <=> Adjacent(t, h, g)
  BY <1>1 DEF Youngest, Adjacent
<1>3. RegTypeOK' /\ DistinctKeys'
  BY DEF RegInv, regVars, RegTypeOK, DistinctKeys
<1>4. HeldOnce'
  BY <1>1, SMTT(30) DEF RegInv, regVars, HeldOnce, NoneLost, MapDistinct, PrevDistinct,
              MapNotFree, PrevNotFree, MapNotPrev
<1>5. Chains'
  BY <1>1, <1>2 DEF RegInv, regVars, Chains, NewIsHeld, PrevWasNew, MapIsNewest
<1>. QED  BY <1>3, <1>4, <1>5 DEF RegInv

(* Every step of the register bookkeeping preserves the invariant.         *)
LEMMA RegStep ==
  ASSUME RegInv, [RegNext]_regVars
  PROVE  RegInv'
<1>1. ASSUME NEW t \in Threads, NEW seq \in Nat, NEW idx \in Nat,
             NEW a \in ArchRegs, renameDest(t, seq, idx, a)
      PROVE  RegInv'
  BY <1>1, RenamePreserves
<1>2. ASSUME NEW t \in Threads, NEW seq \in Nat, doSquash(t, seq)
      PROVE  RegInv'
  BY <1>2, SquashPreserves
<1>3. ASSUME NEW t \in Threads, NEW seq \in Nat, removeFromHistory(t, seq)
      PROVE  RegInv'
  BY <1>3, RemovePreserves
<1>. QED  BY <1>1, <1>2, <1>3, RegUnchanged DEF RegNext

(* The new registers of two entries differ: each is the mapped register or *)
(* waits in the next entry of its chain, and those are all different.      *)
LEMMA InvNotTwice ==
  ASSUME RegInv
  PROVE  NeverFreedTwice
<1>. USE DEF RegInv, HeldOnce
<1>. SUFFICES ASSUME NEW t \in Threads, NEW u \in Threads,
                     NEW h \in History(t), NEW g \in History(u)
              PROVE  /\ h.newPhysReg \notin freeList
                     /\ h.prevPhysReg \notin freeList
                     /\ (h.newPhysReg = g.newPhysReg \/ h.prevPhysReg = g.prevPhysReg)
                          => t = u /\ h = g
  BY DEF NeverFreedTwice
<1>1. h.prevPhysReg \notin freeList
  BY DEF PrevNotFree
<1>2. h.prevPhysReg = g.prevPhysReg => t = u /\ h = g
  BY DEF PrevDistinct
<1>3. h.newPhysReg \notin freeList
  BY HistoryMember DEF Chains, NewIsHeld, MapNotFree, PrevNotFree
<1>4. ASSUME h.newPhysReg = g.newPhysReg PROVE t = u /\ h = g
  <2>1. CASE /\ Youngest(t, h) /\ h.newPhysReg = renameMap[t][h.archReg]
             /\ Youngest(u, g) /\ g.newPhysReg = renameMap[u][g.archReg]
    <3>0. /\ h.archReg \in ArchRegs
          /\ g.archReg \in ArchRegs
          /\ renameMap[t][h.archReg] = renameMap[u][g.archReg]
      BY <1>4, <2>1, HistoryMember, Zenon
    <3>1. t = u /\ h.archReg = g.archReg
      BY <3>0 DEF MapDistinct
    <3>. QED  BY <2>1, <3>1, OlderIsTotal DEF Youngest
  <2>2. ASSUME NEW x \in History(t), Adjacent(t, h, x), h.newPhysReg = x.prevPhysReg,
               NEW y \in History(u), Adjacent(u, g, y), g.newPhysReg = y.prevPhysReg
        PROVE  t = u /\ h = g
    <3>1. t = u /\ x = y
      BY <1>4, <2>2, Zenon DEF PrevDistinct
    <3>. QED  BY <2>2, <3>1, OlderIsTotal DEF Adjacent
  <2>3. ASSUME NEW x \in History(t), h.newPhysReg = x.prevPhysReg,
               g.newPhysReg = renameMap[u][g.archReg]
        PROVE  FALSE
    BY <1>4, <2>3, HistoryMember, Zenon DEF MapNotPrev
  <2>4. ASSUME NEW y \in History(u), g.newPhysReg = y.prevPhysReg,
               h.newPhysReg = renameMap[t][h.archReg]
        PROVE  FALSE
    BY <1>4, <2>4, HistoryMember DEF MapNotPrev
  <2>. QED  BY <2>1, <2>2, <2>3, <2>4 DEF Chains, NewIsHeld
<1>. QED  BY <1>1, <1>2, <1>3, <1>4

(* Whatever is renamed, squashed and committed, in any order and for any   *)
(* number of threads and registers: every physical register is free,       *)
(* mapped once, or waits in one history entry, and neither a squash nor a  *)
(* commit frees one that is free (rename_impl.hh:909, rename_impl.hh:958). *)
THEOREM RegistersConserved == RegSpec => [](EveryRegisterOnce /\ NeverFreedTwice)
<1>1. RegInit => RegInv
  BY RegInitial
<1>2. RegInv /\ [RegNext]_regVars => RegInv'
  BY RegStep
<1>3. RegInv => EveryRegisterOnce /\ NeverFreedTwice
  BY OnceByMember, InvNotTwice DEF RegInv
<1>. QED  BY <1>1, <1>2, <1>3, PTL DEF RegSpec
=============================================================================
