----------------------------- MODULE RenameRegs -----------------------------
(***************************************************************************)
(* The register bookkeeping of the out-of-order CPU's rename stage         *)
(* (cpu/o3/rename_map.cc, free_list.hh and the three routines of           *)
(* rename_impl.hh that touch it: renameDestRegs, doSquash and              *)
(* removeFromHistory).  Every hardware thread has a rename map from its    *)
(* architectural to physical registers and a history buffer of the         *)
(* mappings it replaced; all threads draw from one free list.              *)
(*                                                                         *)
(* The module says nothing about when the routines are called: a squash    *)
(* and a commit may come at any moment and name any instruction.           *)
(*                                                                         *)
(* Data abstractions.  One register class stands for the three.  The free  *)
(* list, a FIFO queue in the code, is a set from which any member may be   *)
(* taken: no routine depends on the order.  The history buffer, a list     *)
(* with the newest entry in front, is a set of entries ordered by the      *)
(* instruction's sequence number and the index of the destination.         *)
(***************************************************************************)
EXTENDS Naturals, FiniteSets

CONSTANTS
  Threads,    \* hardware threads
  ArchRegs,   \* architectural registers
  PhysRegs,   \* physical registers
  zeroReg,    \* the architectural register that always reads zero
  zeroPhys,   \* the physical register whose index is that of zeroReg
  InitialMap  \* the mapping the CPU's constructor sets up

(* The constructor gives every architectural register of every thread a    *)
(* physical register of its own (FullO3CPU::FullO3CPU).                    *)
ASSUME RegisterFile ==
  /\ zeroReg \in ArchRegs
  /\ zeroPhys \in PhysRegs
  /\ InitialMap \in [Threads -> [ArchRegs -> PhysRegs]]
  /\ \A t, u \in Threads : \A a, b \in ArchRegs :
       InitialMap[t][a] = InitialMap[u][b] => t = u /\ a = b

VARIABLES
  renameMap,      \* renameMap[t][a]: where thread t's register a lives
  freeList,       \* physical registers that may be handed out
  historyBuffer   \* historyBuffer[t]: the replaced mappings of thread t

regVars == <<renameMap, freeList, historyBuffer>>

-----------------------------------------------------------------------------
(* DefaultRename::RenameHistory; destIdx is the entry's place among the    *)
(* entries of its instruction.                                             *)
RenameHistory ==
  [instSeqNum : Nat, destIdx : Nat, archReg : ArchRegs,
   newPhysReg : PhysRegs, prevPhysReg : PhysRegs]

(* h was pushed before g.                                                  *)
Older(h, g) ==
  \/ h.instSeqNum < g.instSeqNum
  \/ h.instSeqNum = g.instSeqNum /\ h.destIdx < g.destIdx

(* Entries of registers that are really renamed (rename_impl.hh:935, 993). *)
Renamed(S) == {h \in S : h.newPhysReg # h.prevPhysReg}

RegInit ==
  /\ renameMap = InitialMap
  /\ freeList = PhysRegs \ {InitialMap[t][a] : t \in Threads, a \in ArchRegs}
  /\ historyBuffer = [t \in Threads |-> {}]

-----------------------------------------------------------------------------
(* One destination register of an instruction: SimpleRenameMap::rename,    *)
(* with the register getReg takes from the free list, and the history      *)
(* entry renameDestRegs pushes.                                            *)
Push(t, seq, idx, a, new) ==
  LET entry == [instSeqNum |-> seq, destIdx |-> idx, archReg |-> a,
                newPhysReg |-> new, prevPhysReg |-> renameMap[t][a]]
  IN  historyBuffer' = [historyBuffer EXCEPT ![t] = @ \cup {entry}]

(* The zero register is not renamed; rename() asserts that it is mapped to *)
(* the physical register of the same index, and aborts otherwise.          *)
renameZero(t, seq, idx) ==
  /\ renameMap[t][zeroReg] = zeroPhys
  /\ Push(t, seq, idx, zeroReg, zeroPhys)
  /\ UNCHANGED <<renameMap, freeList>>

renameReg(t, seq, idx, a) ==
  /\ a # zeroReg
  /\ \E p \in freeList :
       /\ freeList' = freeList \ {p}
       /\ renameMap' = [renameMap EXCEPT ![t][a] = p]
       /\ Push(t, seq, idx, a, p)

(* Instructions reach rename in program order, so an entry is pushed only  *)
(* behind older ones.                                                      *)
renameDest(t, seq, idx, a) ==
  /\ \A h \in historyBuffer[t] :
       \/ h.instSeqNum < seq
       \/ h.instSeqNum = seq /\ h.destIdx < idx
  /\ IF a = zeroReg THEN renameZero(t, seq, idx)
                    ELSE renameReg(t, seq, idx, a)

(* doSquash walks from the newest entry down to the first that survives,   *)
(* putting every previous mapping back: the one that stays is that of the  *)
(* oldest entry undone.                                                    *)
OldestIsNewest(S) == CHOOSE h \in S : \A g \in S : ~ Older(h, g)

Oldest(S) == CHOOSE h \in S : \A g \in S : ~ Older(g, h)

Undone(t, seq) ==
  Renamed({h \in historyBuffer[t] : h.instSeqNum > seq})

UndoneOf(t, seq, a) == {h \in Undone(t, seq) : h.archReg = a}

doSquashFreesPrev(t, seq) ==
  /\ renameMap' = [renameMap EXCEPT ![t] =
       [a \in ArchRegs |-> IF UndoneOf(t, seq, a) = {} THEN renameMap[t][a]
                           ELSE Oldest(UndoneOf(t, seq, a)).prevPhysReg]]
  /\ freeList' = freeList \cup {h.prevPhysReg : h \in Undone(t, seq)}
  /\ historyBuffer' = [historyBuffer EXCEPT ![t] =
                         {h \in @ : h.instSeqNum <= seq}]

doSquash(t, seq) ==
  /\ renameMap' = [renameMap EXCEPT ![t] =
       [a \in ArchRegs |-> IF UndoneOf(t, seq, a) = {} THEN renameMap[t][a]
                           ELSE Oldest(UndoneOf(t, seq, a)).prevPhysReg]]
  /\ freeList' = freeList \cup {h.newPhysReg : h \in Undone(t, seq)}
  /\ historyBuffer' = [historyBuffer EXCEPT ![t] =
                         {h \in @ : h.instSeqNum <= seq}]

(* removeFromHistory drops the entries of committed instructions, from the *)
(* oldest on, and frees the registers they replaced.                       *)
Committed(t, seq) ==
  Renamed({h \in historyBuffer[t] : h.instSeqNum <= seq})

removeFromHistoryButLast(t, seq) ==
  /\ freeList' = freeList \cup {h.prevPhysReg : h \in Committed(t, seq)}
  /\ historyBuffer' = [historyBuffer EXCEPT ![t] =
                         {h \in @ : h.instSeqNum >= seq}]
  /\ UNCHANGED renameMap

removeFromHistoryOneMore(t, seq) ==
  /\ freeList' = freeList \cup {h.prevPhysReg : h \in Committed(t, seq + 1)}
  /\ historyBuffer' = [historyBuffer EXCEPT ![t] =
                         {h \in @ : h.instSeqNum > seq + 1}]
  /\ UNCHANGED renameMap

removeFromHistory(t, seq) ==
  /\ freeList' = freeList \cup {h.prevPhysReg : h \in Committed(t, seq)}
  /\ historyBuffer' = [historyBuffer EXCEPT ![t] =
                         {h \in @ : h.instSeqNum > seq}]
  /\ UNCHANGED renameMap

RegNext ==
  \E t \in Threads, seq \in Nat :
    \/ \E idx \in Nat, a \in ArchRegs : renameDest(t, seq, idx, a)
    \/ doSquash(t, seq)
    \/ removeFromHistory(t, seq)

RegSpec == RegInit /\ [][RegNext]_regVars

-----------------------------------------------------------------------------
(* The real entries of thread t's history, the registers the maps name,    *)
(* and the ones that wait in a history for an instruction's fate.          *)
History(t) == Renamed(historyBuffer[t])

Mapped == {renameMap[t][a] : t \in Threads, a \in ArchRegs}

Waiting == UNION {{h.prevPhysReg : h \in History(t)} : t \in Threads}

(* No register is lost and none is held twice: every physical register is  *)
(* on the free list, or is what exactly one architectural register of one  *)
(* thread is mapped to, or waits in exactly one history entry for the      *)
(* instruction that replaced it to commit or be squashed                   *)
(* (rename_map.cc:59, rename_impl.hh:909, rename_impl.hh:958).             *)
EveryRegisterOnce ==
  /\ PhysRegs = freeList \cup Mapped \cup Waiting
  /\ freeList \cap (Mapped \cup Waiting) = {}
  /\ Mapped \cap Waiting = {}
  /\ \A t, u \in Threads : \A a, b \in ArchRegs :
       renameMap[t][a] = renameMap[u][b] => t = u /\ a = b
  /\ \A t, u \in Threads : \A h \in History(t), g \in History(u) :
       h.prevPhysReg = g.prevPhysReg => t = u /\ h = g

(* Whatever happens next, no register is freed twice: neither the register *)
(* a squash would give back nor the one a commit would is on the free list *)
(* already, and no two entries give back the same one.  This is what the   *)
(* assertions commented out in UnifiedFreeList::addReg (free_list.hh:197)  *)
(* were meant to guard.                                                    *)
NeverFreedTwice ==
  \A t, u \in Threads : \A h \in History(t), g \in History(u) :
    /\ h.newPhysReg \notin freeList
    /\ h.prevPhysReg \notin freeList
    /\ (h.newPhysReg = g.newPhysReg \/ h.prevPhysReg = g.prevPhysReg)
         => t = u /\ h = g
=============================================================================
