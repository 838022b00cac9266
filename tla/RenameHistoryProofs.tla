------------------------ MODULE RenameHistoryProofs -------------------------
(***************************************************************************)
(* The inductive invariant of the register bookkeeping, and that renaming  *)
(* a register and dropping committed history preserve it, for any number   *)
(* of threads and registers.                                               *)
(***************************************************************************)
EXTENDS RenameRegs, WellFoundedInduction, TLAPS

(* Every non-empty set of numbers has a least member.                      *)
LEMMA LeastNumber ==
  ASSUME NEW S \in SUBSET Nat, S # {}
  PROVE  \E n \in S : \A m \in S : n <= m
<1>1. IsWellFoundedOn(OpToRel(<, Nat), Nat)
  BY NatLessThanWellFounded
<1>2. PICK n \in S : \A m \in S : ~ (<<m, n>> \in OpToRel(<, Nat))
  BY <1>1, WFMin
<1>3. ASSUME NEW m \in S PROVE n <= m
  <2>1. n \in Nat /\ m \in Nat
    OBVIOUS
  <2>2. <<m, n>> \in OpToRel(<, Nat) \/ ~ (m < n)
    BY <2>1 DEF OpToRel
  <2>3. ~ (m < n)
    BY <1>2, <2>2, Zenon
  <2>. QED  BY <2>1, <2>3
<1>. QED  BY <1>3

(* Every non-empty set of history entries has an oldest one, so the entry  *)
(* that doSquash undoes last is well defined.                              *)
LEMMA OldestExists ==
  ASSUME NEW S \in SUBSET RenameHistory, S # {}
  PROVE  /\ Oldest(S) \in S
         /\ \A g \in S : ~ Older(g, Oldest(S))
<1>1. PICK n \in {h.instSeqNum : h \in S} :
        \A m \in {h.instSeqNum : h \in S} : n <= m
  <2>1. {h.instSeqNum : h \in S} \in SUBSET Nat
    BY DEF RenameHistory
  <2>2. {h.instSeqNum : h \in S} # {}
    OBVIOUS
  <2>. QED  BY <2>1, <2>2, LeastNumber, Zenon
<1>. DEFINE T == {h \in S : h.instSeqNum = n}
<1>2. PICK i \in {h.destIdx : h \in T} : \A j \in {h.destIdx : h \in T} : i <= j
  <2>1. {h.destIdx : h \in T} \in SUBSET Nat
    BY DEF RenameHistory
  <2>2. {h.destIdx : h \in T} # {}
    BY <1>1
  <2>. QED  BY <2>1, <2>2, LeastNumber, Zenon
<1>3. PICK h \in T : h.destIdx = i
  BY <1>2
<1>4. ASSUME NEW g \in S PROVE ~ Older(g, h)
  <2>1. n <= g.instSeqNum /\ n \in Nat /\ g.instSeqNum \in Nat
    BY <1>1 DEF RenameHistory
  <2>2. g.instSeqNum = n => i <= g.destIdx
    BY <1>2
  <2>3. i \in Nat /\ g.destIdx \in Nat
    BY <1>2 DEF RenameHistory
  <2>. QED  BY <2>1, <2>2, <2>3, <1>3 DEF Older
<1>. QED  BY <1>3, <1>4 DEF Oldest

-----------------------------------------------------------------------------
(* The inductive invariant.  That every register is held once is not       *)
(* inductive by itself: what a squash does to it depends on how the        *)
(* entries of one architectural register hang together.  They form a       *)
(* chain: the new register of each is the previous one of the next         *)
(* younger, and the new register of the youngest is the mapped one.        *)
RegTypeOK ==
  /\ renameMap \in [Threads -> [ArchRegs -> PhysRegs]]
  /\ freeList \in SUBSET PhysRegs
  /\ historyBuffer \in [Threads -> SUBSET RenameHistory]

DistinctKeys ==
  \A t \in Threads : \A h, g \in historyBuffer[t] :
    h.instSeqNum = g.instSeqNum /\ h.destIdx = g.destIdx => h = g

Youngest(t, h) ==
  \A k \in History(t) : k.archReg = h.archReg => ~ Older(h, k)

Adjacent(t, h, g) ==
  /\ h.archReg = g.archReg
  /\ Older(h, g)
  /\ \A k \in History(t) :
       k.archReg = h.archReg => ~ (Older(h, k) /\ Older(k, g))

NewIsHeld ==
  \A t \in Threads : \A h \in History(t) :
    \/ Youngest(t, h) /\ h.newPhysReg = renameMap[t][h.archReg]
    \/ \E g \in History(t) : Adjacent(t, h, g) /\ h.newPhysReg = g.prevPhysReg

PrevWasNew ==
  \A t \in Threads : \A k, g \in History(t) :
    k.archReg = g.archReg /\ Older(k, g) =>
      \E h \in History(t) : Adjacent(t, h, g) /\ h.newPhysReg = g.prevPhysReg

MapIsNewest ==
  \A t \in Threads : \A k \in History(t) :
    \E h \in History(t) : /\ h.archReg = k.archReg
                          /\ Youngest(t, h)
                          /\ h.newPhysReg = renameMap[t][h.archReg]

(* EveryRegisterOnce, member by member.                                    *)
NoneLost ==
  \A p \in PhysRegs :
    \/ p \in freeList
    \/ \E t \in Threads, a \in ArchRegs : renameMap[t][a] = p
    \/ \E t \in Threads : \E h \in History(t) : h.prevPhysReg = p

MapDistinct ==
  \A t, u \in Threads : \A a, b \in ArchRegs :
    renameMap[t][a] = renameMap[u][b] => t = u /\ a = b

PrevDistinct ==
  \A t, u \in Threads : \A h \in History(t), g \in History(u) :
    h.prevPhysReg = g.prevPhysReg => t = u /\ h = g

MapNotFree ==
  \A t \in Threads : \A a \in ArchRegs : renameMap[t][a] \notin freeList

PrevNotFree ==
  \A t \in Threads : \A h \in History(t) : h.prevPhysReg \notin freeList

MapNotPrev ==
  \A t, u \in Threads : \A a \in ArchRegs : \A h \in History(u) :
    renameMap[t][a] # h.prevPhysReg

HeldOnce ==
  /\ NoneLost
  /\ MapDistinct
  /\ PrevDistinct
  /\ MapNotFree
  /\ PrevNotFree
  /\ MapNotPrev

Chains == NewIsHeld /\ PrevWasNew /\ MapIsNewest

RegInv == RegTypeOK /\ DistinctKeys /\ HeldOnce /\ Chains

-----------------------------------------------------------------------------
(* Older is a strict order that respects sequence numbers, and total on a  *)
(* thread's history.                                                       *)
LEMMA OlderIsOrder ==
  /\ \A h \in RenameHistory : ~ Older(h, h)
  /\ \A h, g \in RenameHistory : Older(h, g) => ~ Older(g, h)
  /\ \A h, g \in RenameHistory : Older(h, g) => h.instSeqNum <= g.instSeqNum
  /\ \A h, g, k \in RenameHistory : Older(h, g) /\ Older(g, k) => Older(h, k)
<1>1. \A h \in RenameHistory : h.instSeqNum \in Nat /\ h.destIdx \in Nat
  BY DEF RenameHistory
<1>. QED  BY <1>1 DEF Older

(* Of two different entries of a history one was pushed before the other.  *)
LEMMA OlderIsTotal ==
  ASSUME RegTypeOK, DistinctKeys, NEW t \in Threads,
         NEW h \in History(t), NEW g \in History(t)
  PROVE  h = g \/ Older(h, g) \/ Older(g, h)
<1>1. h \in historyBuffer[t] /\ g \in historyBuffer[t]
  BY DEF History, Renamed
<1>2. h \in RenameHistory /\ g \in RenameHistory
  BY <1>1 DEF RegTypeOK
<1>3. /\ h.instSeqNum \in Nat /\ h.destIdx \in Nat
      /\ g.instSeqNum \in Nat /\ g.destIdx \in Nat
  BY <1>2 DEF RenameHistory
<1>4. h.instSeqNum = g.instSeqNum /\ h.destIdx = g.destIdx => h = g
  BY <1>1 DEF DistinctKeys
<1>. QED  BY <1>3, <1>4 DEF Older

(* The members of a history.                                               *)
LEMMA HistoryMember ==
  ASSUME RegTypeOK, NEW t \in Threads, NEW h \in History(t)
  PROVE  /\ h \in RenameHistory
         /\ h \in historyBuffer[t]
         /\ h.archReg \in ArchRegs
         /\ h.instSeqNum \in Nat
         /\ h.newPhysReg \in PhysRegs
         /\ h.prevPhysReg \in PhysRegs
  BY DEF History, Renamed, RegTypeOK, RenameHistory

(* What HeldOnce says is what EveryRegisterOnce says.                      *)
LEMMA OnceByMember ==
  ASSUME RegTypeOK, HeldOnce
  PROVE  EveryRegisterOnce
<1>1. \A p : p \in Mapped <=> \E t \in Threads, a \in ArchRegs : renameMap[t][a] = p
  BY DEF Mapped
<1>2. \A p : p \in Waiting <=> \E t \in Threads : \E h \in History(t) : h.prevPhysReg = p
  BY DEF Waiting
<1>3. Mapped \subseteq PhysRegs
  BY <1>1 DEF RegTypeOK
<1>4. Waiting \subseteq PhysRegs
  BY <1>2, HistoryMember
<1>5. PhysRegs = freeList \cup Mapped \cup Waiting
  BY <1>1, <1>2, <1>3, <1>4 DEF HeldOnce, NoneLost, RegTypeOK
<1>6. freeList \cap (Mapped \cup Waiting) = {}
  BY <1>1, <1>2 DEF HeldOnce, MapNotFree, PrevNotFree
<1>7. Mapped \cap Waiting = {}
  BY <1>1, <1>2 DEF HeldOnce, MapNotPrev
<1>. QED  BY <1>5, <1>6, <1>7 DEF HeldOnce, MapDistinct, PrevDistinct, EveryRegisterOnce

-----------------------------------------------------------------------------
(* removeFromHistory preserves the invariant: it cuts the old ends off the *)
(* chains and frees exactly the registers that waited there.               *)
LEMMA RemovePreserves ==
  ASSUME RegInv, NEW t \in Threads, NEW seq \in Nat, removeFromHistory(t, seq)
  PROVE  RegInv'
<1>. USE DEF RegInv
<1>1. /\ renameMap' = renameMap
      /\ freeList' = freeList \cup {h.prevPhysReg : h \in Committed(t, seq)}
      /\ historyBuffer' = [historyBuffer EXCEPT ![t] =
                             {h \in @ : h.instSeqNum > seq}]
  BY DEF removeFromHistory
<1>2. \A h : h \in Committed(t, seq) <=> h \in History(t) /\ h.instSeqNum <= seq
  BY DEF Committed, History, Renamed
<1>3. /\ \A h : h \in History(t)' <=> h \in History(t) /\ h.instSeqNum > seq
      /\ \A u \in Threads : u # t => History(u)' = History(u)
  BY <1>1 DEF History, Renamed, RegTypeOK
<1>4. \A u \in Threads : History(u)' \subseteq History(u)
  BY <1>3
<1>5. RegTypeOK'
  <2>1. {h.prevPhysReg : h \in Committed(t, seq)} \subseteq PhysRegs
    BY <1>2, HistoryMember
  <2>. QED  BY <1>1, <2>1 DEF RegTypeOK
<1>6. DistinctKeys'
  BY <1>1 DEF DistinctKeys, RegTypeOK
<1>7. HeldOnce'
  <2>1. NoneLost'
    BY <1>1, <1>2, <1>3, HistoryMember DEF HeldOnce, NoneLost
  <2>2. MapDistinct' /\ PrevDistinct' /\ MapNotPrev'
    BY <1>1, <1>4 DEF HeldOnce, MapDistinct, PrevDistinct, MapNotPrev
  <2>3. MapNotFree'
    BY <1>1, <1>2 DEF HeldOnce, MapNotFree, MapNotPrev
  <2>4. PrevNotFree'
    BY <1>1, <1>2, <1>3, HistoryMember DEF HeldOnce, PrevNotFree, PrevDistinct
  <2>. QED  BY <2>1, <2>2, <2>3, <2>4 DEF HeldOnce
<1>8. \A u \in Threads : \A h, g \in History(u) :
        h \in History(u)' /\ Older(h, g) => g \in History(u)'
  BY <1>3, HistoryMember, OlderIsOrder
<1>9. \A u \in Threads : \A h, g : Adjacent(u, h, g) => Adjacent(u, h, g)'
  BY <1>4 DEF Adjacent
<1>10. \A u \in Threads : \A h : Youngest(u, h) => Youngest(u, h)'
  BY <1>4 DEF Youngest
<1>11. NewIsHeld'
  <2>. SUFFICES ASSUME NEW u \in Threads, NEW h \in History(u)'
                PROVE  \/ Youngest(u, h)' /\ h.newPhysReg = renameMap'[u][h.archReg]
                       \/ \E g \in History(u)' :
                            Adjacent(u, h, g)' /\ h.newPhysReg = g.prevPhysReg
    BY DEF NewIsHeld
  <2>1. h \in History(u)
    BY <1>4
  <2>2. CASE Youngest(u, h) /\ h.newPhysReg = renameMap[u][h.archReg]
    BY <2>2, <1>1, <1>10
  <2>3. CASE \E g \in History(u) : Adjacent(u, h, g) /\ h.newPhysReg = g.prevPhysReg
    BY <2>1, <2>3, <1>8, <1>9 DEF Adjacent
  <2>. QED  BY <2>1, <2>2, <2>3 DEF Chains, NewIsHeld
<1>12. PrevWasNew'
  <2>. SUFFICES ASSUME NEW u \in Threads, NEW k \in History(u)', NEW g \in History(u)',
                       k.archReg = g.archReg, Older(k, g)
                PROVE  \E h \in History(u)' :
                         Adjacent(u, h, g)' /\ h.newPhysReg = g.prevPhysReg
    BY DEF PrevWasNew
  <2>1. k \in History(u) /\ g \in History(u)
    BY <1>4
  <2>2. PICK h \in History(u) : Adjacent(u, h, g) /\ h.newPhysReg = g.prevPhysReg
    BY <2>1 DEF Chains, PrevWasNew
  <2>3. h = k \/ Older(k, h)
    BY <2>1, <2>2, OlderIsTotal DEF Adjacent
  <2>. QED  BY <2>1, <2>2, <2>3, <1>8, <1>9
<1>13. MapIsNewest'
  <2>. SUFFICES ASSUME NEW u \in Threads, NEW k \in History(u)'
                PROVE  \E h \in History(u)' :
                         /\ h.archReg = k.archReg
                         /\ Youngest(u, h)'
                         /\ h.newPhysReg = renameMap'[u][h.archReg]
    BY DEF MapIsNewest
  <2>1. k \in History(u)
    BY <1>4
  <2>2. PICK h \in History(u) : /\ h.archReg = k.archReg
                                /\ Youngest(u, h)
                                /\ h.newPhysReg = renameMap[u][h.archReg]
    BY <2>1 DEF Chains, MapIsNewest
  <2>3. h = k \/ Older(k, h)
    BY <2>1, <2>2, OlderIsTotal DEF Youngest
  <2>. QED  BY <2>1, <2>2, <2>3, <1>1, <1>8, <1>10
<1>. QED  BY <1>5, <1>6, <1>7, <1>11, <1>12, <1>13 DEF Chains

-----------------------------------------------------------------------------
(* Renaming a register preserves the invariant: the entry pushed is the    *)
(* youngest of its chain, and holds the register that was mapped.          *)
LEMMA RenamePreserves ==
  ASSUME RegInv, NEW t \in Threads, NEW seq \in Nat, NEW idx \in Nat,
         NEW a \in ArchRegs, renameDest(t, seq, idx, a)
  PROVE  RegInv'
<1>. USE DEF RegInv
<1>a. \A h \in historyBuffer[t] :
        \/ h.instSeqNum < seq
        \/ h.instSeqNum = seq /\ h.destIdx < idx
  BY DEF renameDest
<1>z. CASE a = zeroReg
  <2>. DEFINE e == [instSeqNum |-> seq, destIdx |-> idx, archReg |-> zeroReg,
                    newPhysReg |-> zeroPhys, prevPhysReg |-> renameMap[t][zeroReg]]
  <2>1. /\ renameMap' = renameMap
        /\ freeList' = freeList
        /\ renameMap[t][zeroReg] = zeroPhys
        /\ historyBuffer' = [historyBuffer EXCEPT ![t] = @ \cup {e}]
    BY <1>z DEF renameDest, renameZero, Push
  <2>2. e \in RenameHistory /\ e.newPhysReg = e.prevPhysReg
    BY <2>1, RegisterFile DEF RenameHistory
  <2>3. \A u \in Threads : History(u)' = History(u)
    BY <2>1, <2>2 DEF History, Renamed, RegTypeOK
  <2>4. RegTypeOK'
    BY <2>1, <2>2 DEF RegTypeOK
  <2>5. DistinctKeys'
    <3>1. \A u \in Threads : u # t => historyBuffer'[u] = historyBuffer[u]
      BY <2>1 DEF RegTypeOK
    <3>2. historyBuffer'[t] = historyBuffer[t] \cup {e}
      BY <2>1 DEF RegTypeOK
    <3>3. \A h \in historyBuffer[t] :
            ~ (h.instSeqNum = e.instSeqNum /\ h.destIdx = e.destIdx)
      BY <1>a DEF RegTypeOK, RenameHistory
    <3>. HIDE DEF e
    <3>. QED  BY <3>1, <3>2, <3>3 DEF DistinctKeys
  <2>6. HeldOnce'
    BY <2>1, <2>3 DEF HeldOnce, NoneLost, MapDistinct, PrevDistinct,
                      MapNotFree, PrevNotFree, MapNotPrev
  <2>7. Chains'
    BY <2>1, <2>3 DEF Chains, NewIsHeld, PrevWasNew, MapIsNewest,
                      Youngest, Adjacent
  <2>. QED  BY <2>4, <2>5, <2>6, <2>7
<1>r. CASE a # zeroReg
  <2>1. PICK p \in freeList :
          /\ freeList' = freeList \ {p}
          /\ renameMap' = [renameMap EXCEPT ![t][a] = p]
          /\ Push(t, seq, idx, a, p)
    BY <1>r DEF renameDest, renameReg
  <2>e. PICK e : e = [instSeqNum |-> seq, destIdx |-> idx, archReg |-> a,
                      newPhysReg |-> p, prevPhysReg |-> renameMap[t][a]]
    BY Zenon
  <2>2. historyBuffer' = [historyBuffer EXCEPT ![t] = @ \cup {e}]
    BY <2>1, <2>e DEF Push
  <2>3. p \in PhysRegs /\ p # renameMap[t][a] /\ renameMap[t][a] \in PhysRegs
    BY <2>1 DEF RegTypeOK, HeldOnce, MapNotFree
  <2>4. /\ e \in RenameHistory
        /\ e.archReg = a
        /\ e.newPhysReg = p
        /\ e.prevPhysReg = renameMap[t][a]
        /\ e.newPhysReg # e.prevPhysReg
    BY <2>3, <2>e DEF RenameHistory
  <2>5. \A h \in historyBuffer[t] :
          /\ ~ (h.instSeqNum = e.instSeqNum /\ h.destIdx = e.destIdx)
          /\ Older(h, e)
    BY <1>a, <2>e DEF RegTypeOK, RenameHistory, Older
  <2>6. /\ historyBuffer'[t] = historyBuffer[t] \cup {e}
        /\ \A u \in Threads : u # t => historyBuffer'[u] = historyBuffer[u]
    BY <2>2 DEF RegTypeOK
  <2>7. /\ \A h : h \in History(t)' <=> h \in History(t) \/ h = e
        /\ \A u \in Threads : u # t => History(u)' = History(u)
    BY <2>4, <2>6 DEF History, Renamed
  <2>8. /\ renameMap'[t][a] = p
        /\ \A b \in ArchRegs : b # a => renameMap'[t][b] = renameMap[t][b]
        /\ \A u \in Threads : u # t => renameMap'[u] = renameMap[u]
    BY <2>1 DEF RegTypeOK
  <2>9. RegTypeOK'
    BY <2>1, <2>2, <2>3, <2>4 DEF RegTypeOK
  <2>10. DistinctKeys'
    BY <2>5, <2>6 DEF DistinctKeys
  <2>11. \A h \in History(t) : Older(h, e) /\ ~ Older(e, h) /\ h # e
    BY <2>4, <2>5, HistoryMember, OlderIsOrder
  <2>12. HeldOnce'
    <3>1. NoneLost'
      BY <2>1, <2>4, <2>7, <2>8 DEF HeldOnce, NoneLost
    <3>2. MapDistinct'
      BY <2>1, <2>8 DEF HeldOnce, MapDistinct, MapNotFree
    <3>3. PrevDistinct'
      BY <2>4, <2>7 DEF HeldOnce, PrevDistinct, MapNotPrev
    <3>4. MapNotFree'
      BY <2>1, <2>8 DEF HeldOnce, MapNotFree
    <3>5. PrevNotFree'
      BY <2>1, <2>4, <2>7 DEF HeldOnce, PrevNotFree, MapNotFree
    <3>6. MapNotPrev'
      BY <2>1, <2>3, <2>4, <2>7, <2>8
      DEF HeldOnce, MapNotPrev, MapDistinct, PrevNotFree
    <3>. QED  BY <3>1, <3>2, <3>3, <3>4, <3>5, <3>6 DEF HeldOnce
  <2>13. \A h, g \in History(t) : Adjacent(t, h, g) => Adjacent(t, h, g)'
    BY <2>7, <2>11 DEF Adjacent
  <2>14. \A h \in History(t) : Youngest(t, h) /\ h.archReg = a => Adjacent(t, h, e)'
    BY <2>4, <2>7, <2>11, HistoryMember, OlderIsOrder DEF Youngest, Adjacent
  <2>15. \A h \in History(t) : Youngest(t, h) /\ h.archReg # a => Youngest(t, h)'
    BY <2>4, <2>7 DEF Youngest
  <2>16. Youngest(t, e)'
    BY <2>4, <2>7, <2>11, OlderIsOrder DEF Youngest
  <2>17. ASSUME NEW u \in Threads, u # t
         PROVE  /\ \A h : Youngest(u, h)' <=> Youngest(u, h)
                /\ \A h, g : Adjacent(u, h, g)' <=> Adjacent(u, h, g)
    BY <2>7, <2>17 DEF Youngest, Adjacent
  <2>18. NewIsHeld'
    <3>. SUFFICES ASSUME NEW u \in Threads, NEW h \in History(u)'
                  PROVE  \/ Youngest(u, h)' /\ h.newPhysReg = renameMap'[u][h.archReg]
                         \/ \E g \in History(u)' :
                              Adjacent(u, h, g)' /\ h.newPhysReg = g.prevPhysReg
      BY DEF NewIsHeld
    <3>1. CASE u # t
      BY <3>1, <2>7, <2>8, <2>17 DEF Chains, NewIsHeld
    <3>2. CASE u = t /\ h = e
      BY <3>2, <2>4, <2>8, <2>16
    <3>3. CASE u = t /\ h \in History(t)
      <4>1. CASE Youngest(t, h) /\ h.newPhysReg = renameMap[t][h.archReg]
        BY <3>3, <4>1, <2>4, <2>7, <2>8, <2>14, <2>15, HistoryMember
      <4>2. CASE \E g \in History(t) : Adjacent(t, h, g) /\ h.newPhysReg = g.prevPhysReg
        BY <3>3, <4>2, <2>7, <2>13
      <4>. QED  BY <3>3, <4>1, <4>2 DEF Chains, NewIsHeld
    <3>. QED  BY <3>1, <3>2, <3>3, <2>7
  <2>19. PrevWasNew'
    <3>. SUFFICES ASSUME NEW u \in Threads, NEW k \in History(u)', NEW g \in History(u)',
                         k.archReg = g.archReg, Older(k, g)
                  PROVE  \E h \in History(u)' :
                           Adjacent(u, h, g)' /\ h.newPhysReg = g.prevPhysReg
      BY DEF PrevWasNew
    <3>1. CASE u # t
      BY <3>1, <2>7, <2>17 DEF Chains, PrevWasNew
    <3>2. CASE u = t /\ g \in History(t)
      <4>1. k \in History(t)
        BY <3>2, <2>7, <2>11
      <4>2. PICK h \in History(t) : Adjacent(t, h, g) /\ h.newPhysReg = g.prevPhysReg
        BY <3>2, <4>1 DEF Chains, PrevWasNew
      <4>. QED  BY <3>2, <4>2, <2>7, <2>13
    <3>3. CASE u = t /\ g = e
      <4>1. k \in History(t)
        BY <3>3, <2>4, <2>7, OlderIsOrder
      <4>2. PICK h \in History(t) : /\ h.archReg = k.archReg
                                    /\ Youngest(t, h)
                                    /\ h.newPhysReg = renameMap[t][h.archReg]
        BY <4>1 DEF Chains, MapIsNewest
      <4>. QED  BY <3>3, <4>2, <2>4, <2>7, <2>14
    <3>. QED  BY <3>1, <3>2, <3>3, <2>7
  <2>20. MapIsNewest'
    <3>. SUFFICES ASSUME NEW u \in Threads, NEW k \in History(u)'
                  PROVE  \E h \in History(u)' :
                           /\ h.archReg = k.archReg
                           /\ Youngest(u, h)'
                           /\ h.newPhysReg = renameMap'[u][h.archReg]
      BY DEF MapIsNewest
    <3>1. CASE u # t
      BY <3>1, <2>7, <2>8, <2>17 DEF Chains, MapIsNewest
    <3>2. CASE u = t /\ k.archReg = a
      BY <3>2, <2>4, <2>7, <2>8, <2>16
    <3>3. CASE u = t /\ k.archReg # a
      <4>1. k \in History(t)
        BY <3>3, <2>4, <2>7
      <4>2. PICK h \in History(t) : /\ h.archReg = k.archReg
                                    /\ Youngest(t, h)
                                    /\ h.newPhysReg = renameMap[t][h.archReg]
        BY <4>1 DEF Chains, MapIsNewest
      <4>. QED  BY <3>3, <4>2, <2>7, <2>8, <2>15, HistoryMember
    <3>. QED  BY <3>1, <3>2, <3>3
  <2>. QED  BY <2>9, <2>10, <2>12, <2>18, <2>19, <2>20 DEF Chains
<1>. QED  BY <1>z, <1>r
=============================================================================
