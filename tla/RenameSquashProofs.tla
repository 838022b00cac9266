------------------------- MODULE RenameSquashProofs -------------------------
(***************************************************************************)
(* A squash preserves the invariant of RenameHistoryProofs.                *)
(***************************************************************************)
EXTENDS RenameHistoryProofs

(* A squash preserves the invariant: it cuts the young ends off the        *)
(* chains.  Of each chain it cuts, the registers from the mapped one down  *)
(* to the second undone are freed, and the register that waited in the     *)
(* oldest entry undone is mapped again.                                    *)
LEMMA SquashPreserves ==
  ASSUME RegInv, NEW t \in Threads, NEW seq \in Nat, doSquash(t, seq)
  PROVE  RegInv'
<1>. USE DEF RegInv
<1>1. /\ freeList' = freeList \cup {h.newPhysReg : h \in Undone(t, seq)}
      /\ historyBuffer' = [historyBuffer EXCEPT ![t] =
                             {h \in @ : h.instSeqNum <= seq}]
      /\ renameMap' = [renameMap EXCEPT ![t] =
           [a \in ArchRegs |-> IF UndoneOf(t, seq, a) = {} THEN renameMap[t][a]
                               ELSE Oldest(UndoneOf(t, seq, a)).prevPhysReg]]
  BY DEF doSquash
<1>2. \A h : h \in Undone(t, seq) <=> h \in History(t) /\ h.instSeqNum > seq
  BY DEF Undone, History, Renamed
<1>3. /\ \A h : h \in History(t)' <=> h \in History(t) /\ h.instSeqNum <= seq
      /\ \A u \in Threads : u # t => History(u)' = History(u)
  BY <1>1 DEF History, Renamed, RegTypeOK
<1>4. \A u \in Threads : History(u)' \subseteq History(u)
  BY <1>3
<1>5. /\ \A u \in Threads : u # t => renameMap'[u] = renameMap[u]
      /\ \A a \in ArchRegs : renameMap'[t][a] =
           IF UndoneOf(t, seq, a) = {} THEN renameMap[t][a]
           ELSE Oldest(UndoneOf(t, seq, a)).prevPhysReg
  BY <1>1 DEF RegTypeOK
<1>6. ASSUME NEW a \in ArchRegs
      PROVE  \/ /\ \A h \in Undone(t, seq) : h.archReg # a
                /\ renameMap'[t][a] = renameMap[t][a]
             \/ \E o \in Undone(t, seq) :
                  /\ o.archReg = a
                  /\ renameMap'[t][a] = o.prevPhysReg
                  /\ \A g \in Undone(t, seq) : g.archReg = a => g = o \/ Older(o, g)
  <2>1. CASE UndoneOf(t, seq, a) = {}
    BY <2>1, <1>5, Zenon DEF UndoneOf
  <2>2. CASE UndoneOf(t, seq, a) # {}
    <3>1. UndoneOf(t, seq, a) \in SUBSET RenameHistory
      BY <1>2, HistoryMember DEF UndoneOf
    <3>2. PICK o : o = Oldest(UndoneOf(t, seq, a))
      OBVIOUS
    <3>3. o \in UndoneOf(t, seq, a) /\ \A g \in UndoneOf(t, seq, a) : ~ Older(g, o)
      BY <2>2, <3>1, <3>2, OldestExists
    <3>4. \A g \in UndoneOf(t, seq, a) : g = o \/ Older(o, g)
      BY <3>3, <1>2, OlderIsTotal DEF UndoneOf
    <3>5. renameMap'[t][a] = o.prevPhysReg
      BY <2>2, <3>2, <1>5
    <3>. QED  BY <3>3, <3>4, <3>5 DEF UndoneOf
  <2>. QED  BY <2>1, <2>2
<1>7. RegTypeOK'
  <2>1. {h.newPhysReg : h \in Undone(t, seq)} \subseteq PhysRegs
    BY <1>2, HistoryMember
  <2>2. \A a \in ArchRegs : renameMap'[t][a] \in PhysRegs
    BY <1>2, <1>6, HistoryMember DEF RegTypeOK
  <2>3. renameMap' \in [Threads -> [ArchRegs -> PhysRegs]]
    BY <1>1, <1>5, <2>2 DEF RegTypeOK
  <2>. QED  BY <1>1, <2>1, <2>3 DEF RegTypeOK
<1>8. DistinctKeys'
  BY <1>1 DEF DistinctKeys, RegTypeOK
<1>9. \A h, g \in History(t) : h \in Undone(t, seq) /\ Older(h, g) => g \in Undone(t, seq)
  BY <1>2, HistoryMember, OlderIsOrder
<1>10. \A h \in Undone(t, seq) :
         \/ h.newPhysReg = renameMap[t][h.archReg]
         \/ \E g \in Undone(t, seq) : /\ g.archReg = h.archReg
                                      /\ Older(h, g)
                                      /\ h.newPhysReg = g.prevPhysReg
  BY <1>2, <1>9 DEF Chains, NewIsHeld, Adjacent
<1>11. \A h \in History(t) : h \in History(t)' \/ h \in Undone(t, seq)
  BY <1>2, <1>3, HistoryMember
<1>12. \A h \in Undone(t, seq) : h \notin History(t)' /\ h \in History(t)
  BY <1>2, <1>3, HistoryMember
<1>13. HeldOnce'
  <2>. USE DEF HeldOnce
  <2>1. NoneLost'
    <3>. SUFFICES ASSUME NEW p \in PhysRegs, p \notin freeList'
                  PROVE  \/ \E u \in Threads, a \in ArchRegs : renameMap'[u][a] = p
                         \/ \E u \in Threads : \E h \in History(u)' : h.prevPhysReg = p
      BY DEF NoneLost
    <3>1. p \notin freeList /\ \A h \in Undone(t, seq) : h.newPhysReg # p
      BY <1>1
    <3>2. CASE \E u \in Threads, a \in ArchRegs : renameMap[u][a] = p
      <4>1. PICK u \in Threads, a \in ArchRegs : renameMap[u][a] = p
        BY <3>2
      <4>2. CASE u # t
        BY <4>1, <4>2, <1>5
      <4>3. CASE u = t /\ \A h \in Undone(t, seq) : h.archReg # a
        BY <4>1, <4>3, <1>6
      <4>4. ASSUME u = t, NEW k \in Undone(t, seq), k.archReg = a PROVE FALSE
        <5>1. PICK h \in History(t) : /\ h.archReg = a
                                      /\ Youngest(t, h)
                                      /\ h.newPhysReg = renameMap[t][a]
          BY <4>4, <1>12 DEF Chains, MapIsNewest
        <5>2. h = k \/ Older(k, h)
          BY <5>1, <4>4, <1>12, OlderIsTotal DEF Youngest
        <5>3. h \in Undone(t, seq)
          BY <5>2, <1>9, <4>4, <1>12
        <5>. QED  BY <5>1, <5>3, <3>1, <4>1, <4>4
      <4>. QED  BY <4>2, <4>3, <4>4
    <3>3. CASE \E u \in Threads : \E g \in History(u) : g.prevPhysReg = p
      <4>1. PICK u \in Threads : \E g \in History(u) : g.prevPhysReg = p
        BY <3>3
      <4>2. PICK g \in History(u) : g.prevPhysReg = p
        BY <4>1
      <4>3. CASE u # t
        BY <4>2, <4>3, <1>3
      <4>4. CASE u = t /\ g \in History(t)'
        BY <4>2, <4>4
      <4>5. CASE u = t /\ g \in Undone(t, seq)
        <5>1. g.archReg \in ArchRegs
          BY <4>5, <1>12, HistoryMember
        <5>2. PICK o \in Undone(t, seq) :
                /\ o.archReg = g.archReg
                /\ renameMap'[t][g.archReg] = o.prevPhysReg
                /\ g = o \/ Older(o, g)
          BY <5>1, <4>5, <1>6
        <5>3. CASE g = o
          BY <5>1, <5>2, <5>3, <4>2
        <5>4. ASSUME Older(o, g) PROVE FALSE
          <6>1. PICK h \in History(t) : Adjacent(t, h, g) /\ h.newPhysReg = g.prevPhysReg
            BY <5>2, <5>4, <4>5, <1>12 DEF Chains, PrevWasNew
          <6>2. h = o \/ Older(o, h)
            BY <6>1, <5>2, <5>4, <1>12, OlderIsTotal DEF Adjacent
          <6>3. h \in Undone(t, seq)
            BY <6>2, <1>9, <5>2, <1>12
          <6>. QED  BY <6>1, <6>3, <3>1, <4>2
        <5>. QED  BY <5>2, <5>3, <5>4
      <4>. QED  BY <4>2, <4>3, <4>4, <4>5, <1>11
    <3>. QED  BY <3>1, <3>2, <3>3 DEF NoneLost
  <2>2. ASSUME NEW a \in ArchRegs
        PROVE  \/ renameMap'[t][a] = renameMap[t][a]
               \/ \E o \in Undone(t, seq) : o.archReg = a /\ renameMap'[t][a] = o.prevPhysReg
    BY <1>6
  <2>3. MapDistinct'
    <3>. SUFFICES ASSUME NEW u \in Threads, NEW v \in Threads,
                         NEW a \in ArchRegs, NEW b \in ArchRegs,
                         renameMap'[u][a] = renameMap'[v][b]
                  PROVE  u = v /\ a = b
      BY DEF MapDistinct
    <3>1. CASE u # t /\ v # t
      BY <3>1, <1>5 DEF MapDistinct
    <3>2. CASE u = t /\ v # t
      BY <3>2, <1>5, <1>12, <2>2 DEF MapDistinct, MapNotPrev
    <3>3. CASE u # t /\ v = t
      BY <3>3, <1>5, <1>12, <2>2 DEF MapDistinct, MapNotPrev
    <3>4. CASE u = t /\ v = t
      BY <3>4, <1>12, <2>2 DEF MapDistinct, MapNotPrev, PrevDistinct
    <3>. QED  BY <3>1, <3>2, <3>3, <3>4
  <2>4. PrevDistinct'
    BY <1>4 DEF PrevDistinct
  <2>5. MapNotFree'
    <3>. SUFFICES ASSUME NEW u \in Threads, NEW a \in ArchRegs
                  PROVE  renameMap'[u][a] \notin freeList'
      BY DEF MapNotFree
    <3>1. renameMap'[u][a] \notin freeList
      BY <1>5, <1>12, <2>2 DEF MapNotFree, PrevNotFree
    <3>2. ASSUME NEW h \in Undone(t, seq), h.newPhysReg = renameMap'[u][a] PROVE FALSE
      <4>1. CASE u # t
        BY <3>2, <4>1, <1>5, <1>10, <1>12, HistoryMember DEF MapDistinct, MapNotPrev
      <4>2. CASE u = t /\ renameMap'[t][a] = renameMap[t][a]
                       /\ \A g \in Undone(t, seq) : g.archReg # a
        BY <3>2, <4>2, <1>10, <1>12, HistoryMember DEF MapDistinct, MapNotPrev
      <4>3. ASSUME u = t, NEW o \in Undone(t, seq), o.archReg = a,
                   renameMap'[t][a] = o.prevPhysReg,
                   \A g \in Undone(t, seq) : g.archReg = a => g = o \/ Older(o, g)
            PROVE  FALSE
        <5>1. h.newPhysReg # renameMap[t][h.archReg]
          BY <3>2, <4>3, <1>12, HistoryMember DEF MapNotPrev
        <5>2. PICK g \in Undone(t, seq) : /\ g.archReg = h.archReg
                                          /\ Older(h, g)
                                          /\ h.newPhysReg = g.prevPhysReg
          BY <5>1, <1>10
        <5>3. g = o
          BY <5>2, <3>2, <4>3, <1>12, Zenon DEF PrevDistinct
        <5>4. h = g \/ Older(g, h)
          BY <5>2, <5>3, <4>3
        <5>. QED  BY <5>2, <5>4, <1>12, HistoryMember, OlderIsOrder, SMTT(30)
      <4>. QED  BY <4>1, <4>2, <4>3, <1>6
    <3>. QED  BY <1>1, <3>1, <3>2
  <2>6. PrevNotFree'
    <3>. SUFFICES ASSUME NEW u \in Threads, NEW k \in History(u)'
                  PROVE  k.prevPhysReg \notin freeList'
      BY DEF PrevNotFree
    <3>1. k \in History(u) /\ k.prevPhysReg \notin freeList
      BY <1>4 DEF PrevNotFree
    <3>2. ASSUME NEW h \in Undone(t, seq) PROVE h.newPhysReg # k.prevPhysReg
      <4>1. h.newPhysReg = renameMap[t][h.archReg] => h.newPhysReg # k.prevPhysReg
        BY <3>1, <1>12, HistoryMember DEF MapNotPrev
      <4>2. ASSUME NEW g \in Undone(t, seq), h.newPhysReg = g.prevPhysReg
            PROVE  h.newPhysReg # k.prevPhysReg
        BY <3>1, <4>2, <1>12 DEF PrevDistinct
      <4>. QED  BY <4>1, <4>2, <1>10
    <3>. QED  BY <1>1, <3>1, <3>2
  <2>7. MapNotPrev'
    <3>. SUFFICES ASSUME NEW u \in Threads, NEW v \in Threads, NEW a \in ArchRegs,
                         NEW k \in History(v)'
                  PROVE  renameMap'[u][a] # k.prevPhysReg
      BY DEF MapNotPrev
    <3>1. k \in History(v)
      BY <1>4
    <3>2. CASE u # t
      BY <3>1, <3>2, <1>5 DEF MapNotPrev
    <3>3. CASE u = t
      BY <3>1, <3>3, <1>12, <2>2 DEF MapNotPrev, PrevDistinct
    <3>. QED  BY <3>2, <3>3
  <2>. QED  BY <2>1, <2>3, <2>4, <2>5, <2>6, <2>7
<1>14. \A u \in Threads : \A h, g : Adjacent(u, h, g) => Adjacent(u, h, g)'
  BY <1>4 DEF Adjacent
<1>15. \A u \in Threads : \A h : Youngest(u, h) => Youngest(u, h)'
  BY <1>4 DEF Youngest
<1>16. ASSUME NEW h \in History(t)', NEW g \in Undone(t, seq)
       PROVE  h \in History(t) /\ Older(h, g)
  BY <1>2, <1>3, HistoryMember DEF Older, RenameHistory
<1>17. NewIsHeld'
  <2>. SUFFICES ASSUME NEW u \in Threads, NEW h \in History(u)'
                PROVE  \/ Youngest(u, h)' /\ h.newPhysReg = renameMap'[u][h.archReg]
                       \/ \E g \in History(u)' : Adjacent(u, h, g)' /\ h.newPhysReg = g.prevPhysReg
    BY DEF NewIsHeld
  <2>1. h \in History(u) /\ h.archReg \in ArchRegs
    BY <1>4, HistoryMember
  <2>2. CASE u # t
    BY <2>1, <2>2, <1>3, <1>5, <1>14, <1>15 DEF Chains, NewIsHeld
  <2>3. CASE u = t /\ Youngest(t, h) /\ h.newPhysReg = renameMap[t][h.archReg]
    <3>1. \A g \in Undone(t, seq) : g.archReg # h.archReg
      BY <2>3, <1>12, <1>16 DEF Youngest
    <3>. QED  BY <2>1, <2>3, <3>1, <1>6, <1>15
  <2>4. ASSUME u = t, NEW g \in History(t), Adjacent(t, h, g), h.newPhysReg = g.prevPhysReg
        PROVE  \/ Youngest(t, h)' /\ h.newPhysReg = renameMap'[t][h.archReg]
               \/ \E k \in History(t)' : Adjacent(t, h, k)' /\ h.newPhysReg = k.prevPhysReg
    <3>1. CASE g \in History(t)'
      BY <2>4, <3>1, <1>14
    <3>2. CASE g \in Undone(t, seq)
      <4>1. PICK o \in Undone(t, seq) :
              /\ o.archReg = h.archReg
              /\ renameMap'[t][h.archReg] = o.prevPhysReg
              /\ g = o \/ Older(o, g)
        BY <2>1, <2>4, <3>2, <1>6 DEF Adjacent
      <4>2. g = o
        BY <4>1, <2>4, <1>12, <1>16 DEF Adjacent
      <4>3. ASSUME NEW k \in History(t)', k.archReg = h.archReg, Older(h, k) PROVE FALSE
        BY <4>3, <2>4, <3>2, <1>16 DEF Adjacent
      <4>. QED  BY <4>1, <4>2, <4>3, <2>4 DEF Youngest
    <3>. QED  BY <3>1, <3>2, <1>11
  <2>. QED  BY <2>1, <2>2, <2>3, <2>4 DEF Chains, NewIsHeld
<1>18. PrevWasNew'
  <2>. SUFFICES ASSUME NEW u \in Threads, NEW k \in History(u)', NEW g \in History(u)',
                       k.archReg = g.archReg, Older(k, g)
                PROVE  \E h \in History(u)' : Adjacent(u, h, g)' /\ h.newPhysReg = g.prevPhysReg
    BY DEF PrevWasNew
  <2>1. PICK h \in History(u) : Adjacent(u, h, g) /\ h.newPhysReg = g.prevPhysReg
    BY <1>4 DEF Chains, PrevWasNew
  <2>2. CASE u # t
    BY <2>1, <2>2, <1>3, <1>14
  <2>3. CASE u = t
    <3>1. h \notin Undone(t, seq)
      BY <2>1, <2>3, <1>9, <1>12, <1>4 DEF Adjacent
    <3>. QED  BY <2>1, <2>3, <3>1, <1>11, <1>14
  <2>. QED  BY <2>2, <2>3
<1>19. MapIsNewest'
  <2>. SUFFICES ASSUME NEW u \in Threads, NEW k \in History(u)'
                PROVE  \E h \in History(u)' : /\ h.archReg = k.archReg
                                              /\ Youngest(u, h)'
                                              /\ h.newPhysReg = renameMap'[u][h.archReg]
    BY DEF MapIsNewest
  <2>1. k \in History(u) /\ k.archReg \in ArchRegs
    BY <1>4, HistoryMember
  <2>2. PICK h \in History(u) : /\ h.archReg = k.archReg
                                /\ Youngest(u, h)
                                /\ h.newPhysReg = renameMap[u][h.archReg]
    BY <2>1 DEF Chains, MapIsNewest
  <2>3. CASE u # t
    BY <2>2, <2>3, <1>3, <1>5, <1>15
  <2>4. CASE u = t /\ \A g \in Undone(t, seq) : g.archReg # k.archReg
    BY <2>1, <2>2, <2>4, <1>6, <1>11, <1>15
  <2>5. CASE u = t /\ \E g \in Undone(t, seq) : g.archReg = k.archReg
    <3>1. PICK o \in Undone(t, seq) :
            /\ o.archReg = k.archReg
            /\ renameMap'[t][k.archReg] = o.prevPhysReg
            /\ \A g \in Undone(t, seq) : g.archReg = k.archReg => g = o \/ Older(o, g)
      BY <2>1, <2>5, <1>6
    <3>2. PICK r \in History(t) : Adjacent(t, r, o) /\ r.newPhysReg = o.prevPhysReg
      BY <2>1, <2>5, <3>1, <1>12, <1>16 DEF Chains, PrevWasNew
    <3>3. r \notin Undone(t, seq)
      BY <3>1, <3>2, <1>12, HistoryMember, OlderIsOrder DEF Adjacent
    <3>4. r \in History(t)' /\ r.archReg = k.archReg
      BY <3>1, <3>2, <3>3, <1>11 DEF Adjacent
    <3>5. ASSUME NEW j \in History(t)', j.archReg = r.archReg, Older(r, j) PROVE FALSE
      BY <3>1, <3>2, <3>5, <1>16 DEF Adjacent
    <3>. QED  BY <2>5, <3>1, <3>2, <3>4, <3>5 DEF Youngest
  <2>. QED  BY <2>3, <2>4, <2>5
<1>. QED  BY <1>7, <1>8, <1>13, <1>17, <1>18, <1>19 DEF Chains
=============================================================================
