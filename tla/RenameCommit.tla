---------------------------- MODULE RenameCommit ----------------------------
(***************************************************************************)
(* The rename and the commit stage of the out-of-order CPU around the      *)
(* register bookkeeping of RenameRegs (cpu/o3/rename_impl.hh,              *)
(* commit_impl.hh, rob_impl.hh).  Rename hands instructions to the reorder *)
(* buffer through one time buffer and hears of commits and squashes        *)
(* through another; both are one cycle deep, so each stage acts on what    *)
(* the other did a cycle ago.                                              *)
(*                                                                         *)
(* FullO3CPU::tick runs the stages one after the other; the variable stage *)
(* says how far the cycle has come.  A cycle is                            *)
(*   rename    per thread: squash if commit said so, else rename           *)
(*   history   drop the history of what commit retired                     *)
(*   squash    commit starts squashes, then takes in the renamed           *)
(*             instructions                                                *)
(*   commit    commit retires instructions from the head of the buffer     *)
(*                                                                         *)
(* Data abstractions.  An instruction is its operands.  How many           *)
(* instructions rename gets through in a cycle (decode, full queues,       *)
(* serializing instructions), when an instruction is ready to commit, and  *)
(* how many cycles the reorder buffer needs for a squash are choices.      *)
(***************************************************************************)
EXTENDS RenameRegs, Sequences

CONSTANTS
  Operands,      \* [srcs : SUBSET ArchRegs, dests : Seq(ArchRegs)]
  renameWidth,   \* instructions rename sends in a cycle
  commitWidth,   \* instructions commit retires in a cycle
  MaxInsts       \* bound: instructions renamed in a behaviour

ASSUME OperandRegs ==
  Operands \subseteq [srcs : SUBSET ArchRegs, dests : Seq(ArchRegs)]

VARIABLES
  stage,         \* how far the cycle has come
  toCheck,       \* threads this stage has yet to look at
  current,       \* {t}: rename is processing thread t's instructions
  renaming,      \* {i}: the instruction renameInsts is working on
  nextSeqNum,    \* sequence number of the next instruction
  toIEW,         \* toIEW[t]: what rename sent in this cycle
  toIEWIndex,    \* how many that is, of all threads
  fromRename,    \* fromRename[t]: what rename sent a cycle ago
  instList,      \* instList[t]: the reorder buffer, oldest first
  commitMap,     \* commitRenameMap: the architectural state
  commitStatus,
  lastCommitedSeqNum,
  numCommitted,  \* instructions commit retired in this cycle
  commitInfo,    \* what commit says in this cycle
  fromCommit     \* what commit said a cycle ago

pipeVars == <<stage, toCheck, current, renaming, nextSeqNum, toIEW, toIEWIndex,
              fromRename, instList, commitMap, commitStatus,
              lastCommitedSeqNum, numCommitted, commitInfo, fromCommit>>
vars == <<regVars, pipeVars>>

NoInfo == [doneSeqNum |-> 0, squash |-> FALSE, robSquashing |-> FALSE]

Init ==
  /\ RegInit
  /\ stage = "rename"
  /\ toCheck = Threads
  /\ current = {}
  /\ renaming = {}
  /\ nextSeqNum = 1
  /\ toIEW = [t \in Threads |-> <<>>]
  /\ toIEWIndex = 0
  /\ fromRename = [t \in Threads |-> <<>>]
  /\ instList = [t \in Threads |-> <<>>]
  /\ commitMap = InitialMap
  /\ commitStatus = [t \in Threads |-> "Running"]
  /\ lastCommitedSeqNum = [t \in Threads |-> 0]
  /\ numCommitted = 0
  /\ commitInfo = [t \in Threads |-> NoInfo]
  /\ fromCommit = [t \in Threads |-> NoInfo]

-----------------------------------------------------------------------------
(* Fetch, which is told of the squash in the same cycle, squashes          *)
(* everything of the thread that has not reached the reorder buffer        *)
(* (removeInstsNotInROB); what of it is in the time buffer will not be     *)
(* taken out any more.                                                     *)
removeInstsNotInROB(t) == fromRename' = [fromRename EXCEPT ![t] = <<>>]

squashIncluding(t) ==
  /\ fromCommit[t].squash
  /\ doSquash(t, fromCommit[t].doneSeqNum - 1)
  /\ removeInstsNotInROB(t)
  /\ current' = {}

squash(t) ==
  /\ fromCommit[t].squash
  /\ doSquash(t, fromCommit[t].doneSeqNum)
  /\ removeInstsNotInROB(t)
  /\ current' = {}

(* A squash takes rename's whole cycle.  While the reorder buffer goes on  *)
(* squashing the front end is empty, and IEW keeps rename stalled until it *)
(* is done (DefaultIEW::checkStall).                                       *)
run(t) ==
  /\ ~ fromCommit[t].squash
  /\ current' = IF fromCommit[t].robSquashing THEN {} ELSE {t}
  /\ UNCHANGED <<regVars, fromRename>>

checkSignalsAndUpdate(t) ==
  /\ stage = "rename"
  /\ renaming = {}
  /\ t \in toCheck
  /\ toCheck' = toCheck \ {t}
  /\ squash(t) \/ run(t)
  /\ UNCHANGED <<stage, renaming, nextSeqNum, toIEW, toIEWIndex, instList,
                 commitMap, commitStatus, lastCommitedSeqNum, numCommitted,
                 commitInfo, fromCommit>>

(* renameInsts takes the next instruction, if there are registers for all  *)
(* its destinations (canRename), and looks its sources up.                 *)
canRename(op) == Len(op.dests) <= Cardinality(freeList)

renameSrcRegs(t, op) ==
  /\ stage = "rename"
  /\ t \in current
  /\ renaming = {}
  /\ toIEWIndex < renameWidth
  /\ nextSeqNum <= MaxInsts
  /\ canRename(op)
  /\ renaming' = {[seqNum |-> nextSeqNum, tid |-> t,
                   srcs |-> {renameMap[t][a] : a \in op.srcs},
                   dests |-> <<>>, todo |-> op.dests,
                   squashed |-> FALSE, fresh |-> TRUE]}
  /\ nextSeqNum' = nextSeqNum + 1
  /\ UNCHANGED <<regVars, stage, toCheck, current, toIEW, toIEWIndex,
                 fromRename, instList, commitMap, commitStatus,
                 lastCommitedSeqNum, numCommitted, commitInfo, fromCommit>>

(* One iteration of renameDestRegs.                                        *)
renameDestReg(i) ==
  /\ i.todo # <<>>
  /\ LET a == Head(i.todo) IN
       /\ renameDest(i.tid, i.seqNum, Len(i.dests), a)
       /\ renaming' = {[i EXCEPT
            !.todo = Tail(@),
            !.dests = Append(@, [arch |-> a, phys |-> renameMap'[i.tid][a]])]}
  /\ UNCHANGED <<stage, toCheck, current, nextSeqNum, toIEW, toIEWIndex,
                 fromRename, instList, commitMap, commitStatus,
                 lastCommitedSeqNum, numCommitted, commitInfo, fromCommit>>

sendToIEW(i) ==
  /\ i.todo = <<>>
  /\ toIEW' = [toIEW EXCEPT ![i.tid] = Append(@, i)]
  /\ toIEWIndex' = toIEWIndex + 1
  /\ renaming' = {}
  /\ UNCHANGED <<regVars, stage, toCheck, current, nextSeqNum, fromRename,
                 instList, commitMap, commitStatus, lastCommitedSeqNum,
                 numCommitted, commitInfo, fromCommit>>

(* The second loop of DefaultRename::tick, over the threads that committed *)
(* in the cycle rename now hears of.                                       *)
startHistory ==
  /\ stage = "rename"
  /\ renaming = {}
  /\ toCheck = {}
  /\ stage' = "history"
  /\ toCheck' = {t \in Threads : /\ fromCommit[t].doneSeqNum # 0
                                 /\ ~ fromCommit[t].squash}
  /\ current' = {}
  /\ UNCHANGED <<regVars, renaming, nextSeqNum, toIEW, toIEWIndex, fromRename,
                 instList, commitMap, commitStatus, lastCommitedSeqNum,
                 numCommitted, commitInfo, fromCommit>>

dropHistory(t) ==
  /\ stage = "history"
  /\ t \in toCheck
  /\ toCheck' = toCheck \ {t}
  /\ removeFromHistory(t, fromCommit[t].doneSeqNum)
  /\ UNCHANGED <<stage, current, renaming, nextSeqNum, toIEW, toIEWIndex,
                 fromRename, instList, commitMap, commitStatus,
                 lastCommitedSeqNum, numCommitted, commitInfo, fromCommit>>

-----------------------------------------------------------------------------
(* DefaultCommit::tick first sees which threads are done squashing; rename *)
(* is through with what commit told it.                                    *)
startCommit ==
  /\ stage = "history"
  /\ toCheck = {}
  /\ stage' = "squash"
  /\ \E S \in SUBSET {t \in Threads : commitStatus[t] = "ROBSquashing"} :
       /\ commitStatus' = [t \in Threads |->
            IF commitStatus[t] = "ROBSquashing" /\ t \notin S
            THEN "Running" ELSE commitStatus[t]]
       /\ commitInfo' = [t \in Threads |-> [NoInfo EXCEPT
            !.robSquashing = t \in S]]
  /\ fromCommit' = [t \in Threads |-> NoInfo]
  /\ UNCHANGED <<regVars, toCheck, current, renaming, nextSeqNum, toIEW,
                 toIEWIndex, fromRename, instList, commitMap,
                 lastCommitedSeqNum, numCommitted>>

(* ROB::doSquash marks the younger instructions, over as many cycles as it *)
(* takes.                                                                  *)
Squashed(insts, seq) ==
  [k \in DOMAIN insts |->
    [insts[k] EXCEPT !.squashed = @ \/ insts[k].seqNum > seq]]

(* ROB::squash and the message that goes out with it.                      *)
robSquash(t, seq) ==
  /\ stage = "squash"
  /\ ~ commitInfo[t].squash
  /\ instList' = [instList EXCEPT ![t] = Squashed(@, seq)]
  /\ commitStatus' = [commitStatus EXCEPT ![t] = "ROBSquashing"]
  /\ commitInfo' = [commitInfo EXCEPT ![t] =
       [doneSeqNum |-> seq, squash |-> TRUE, robSquashing |-> TRUE]]
  /\ UNCHANGED <<regVars, stage, toCheck, current, renaming, nextSeqNum, toIEW,
                 toIEWIndex, fromRename, commitMap, lastCommitedSeqNum,
                 numCommitted, fromCommit>>

(* A trap, a write through the thread context or an instruction that asks  *)
(* for it squashes the whole thread.                                       *)
squashAll(t) ==
  robSquash(t, IF instList[t] = <<>> THEN lastCommitedSeqNum[t]
                                     ELSE Head(instList[t]).seqNum - 1)

(* A mispredicted branch or an order violation squashes from an            *)
(* instruction on, which may itself be included; squashes of instructions  *)
(* that are squashed already are ignored.                                  *)
squashFromIEW(t) ==
  /\ commitStatus[t] \notin {"TrapPending", "SquashAfterPending"}
  /\ \E k \in DOMAIN instList[t] :
       /\ ~ instList[t][k].squashed
       /\ \/ robSquash(t, instList[t][k].seqNum)
          \/ robSquash(t, instList[t][k].seqNum - 1)

(* getInsts puts the instructions rename sent a cycle ago in the reorder   *)
(* buffer, except those of threads that are squashing or trapping.         *)
Accepted(t) == commitStatus[t] \notin {"ROBSquashing", "TrapPending"}

getInsts ==
  /\ stage = "squash"
  /\ \A t \in Threads : commitStatus[t] # "SquashAfterPending"
  /\ stage' = "commit"
  /\ instList' = [t \in Threads |->
       IF Accepted(t) THEN instList[t] \o fromRename[t] ELSE instList[t]]
  /\ fromRename' = [t \in Threads |-> <<>>]
  /\ UNCHANGED <<regVars, toCheck, current, renaming, nextSeqNum, toIEW,
                 toIEWIndex, commitMap, commitStatus, lastCommitedSeqNum,
                 numCommitted, commitInfo, fromCommit>>

(* commitHead: the head's destinations become architectural state.         *)
Latest(dests, a) == CHOOSE k \in DOMAIN dests :
  /\ dests[k].arch = a
  /\ \A j \in DOMAIN dests : dests[j].arch = a => j <= k

setEntries(map, dests) ==
  [a \in ArchRegs |-> IF \E k \in DOMAIN dests : dests[k].arch = a
                      THEN dests[Latest(dests, a)].phys ELSE map[a]]

HeadReady(t) ==
  /\ stage = "commit"
  /\ commitStatus[t] = "Running"
  /\ instList[t] # <<>>
  /\ ~ Head(instList[t]).fresh
  /\ numCommitted < commitWidth

commitHead(t) ==
  /\ HeadReady(t)
  /\ ~ Head(instList[t]).squashed
  /\ commitMap' = [commitMap EXCEPT ![t] =
                     setEntries(@, Head(instList[t]).dests)]
  /\ instList' = [instList EXCEPT ![t] = Tail(@)]
  /\ numCommitted' = numCommitted + 1
  /\ lastCommitedSeqNum' = [lastCommitedSeqNum EXCEPT
                              ![t] = Head(instList[t]).seqNum]
  /\ commitInfo' = [commitInfo EXCEPT
                      ![t].doneSeqNum = Head(instList[t]).seqNum]
  /\ \E s \in {"Running", "SquashAfterPending"} :
       commitStatus' = [commitStatus EXCEPT ![t] = s]
  /\ UNCHANGED <<regVars, stage, toCheck, current, renaming, nextSeqNum, toIEW,
                 toIEWIndex, fromRename, fromCommit>>

(* A faulting head waits for its trap; it stays where it is.               *)
trapHead(t) ==
  /\ HeadReady(t)
  /\ ~ Head(instList[t]).squashed
  /\ numCommitted = 0
  /\ commitStatus' = [commitStatus EXCEPT ![t] = "TrapPending"]
  /\ UNCHANGED <<regVars, stage, toCheck, current, renaming, nextSeqNum, toIEW,
                 toIEWIndex, fromRename, instList, commitMap,
                 lastCommitedSeqNum, numCommitted, commitInfo, fromCommit>>

(* A squashed head is retired without a word to the other stages.          *)
retireSquashed(t) ==
  /\ HeadReady(t)
  /\ Head(instList[t]).squashed
  /\ instList' = [instList EXCEPT ![t] = Tail(@)]
  /\ UNCHANGED <<regVars, stage, toCheck, current, renaming, nextSeqNum, toIEW,
                 toIEWIndex, fromRename, commitMap, commitStatus,
                 lastCommitedSeqNum, numCommitted, commitInfo, fromCommit>>

(* The time buffers advance (FullO3CPU::tick).                             *)
advance ==
  /\ stage = "commit"
  /\ stage' = "rename"
  /\ toCheck' = Threads
  /\ instList' = [t \in Threads |-> [k \in DOMAIN instList[t] |->
                    [instList[t][k] EXCEPT !.fresh = FALSE]]]
  /\ fromRename' = toIEW
  /\ toIEW' = [t \in Threads |-> <<>>]
  /\ toIEWIndex' = 0
  /\ numCommitted' = 0
  /\ fromCommit' = commitInfo
  /\ commitInfo' = [t \in Threads |-> NoInfo]
  /\ UNCHANGED <<regVars, current, renaming, nextSeqNum, commitMap,
                 commitStatus, lastCommitedSeqNum>>

Next ==
  \/ \E t \in Threads : checkSignalsAndUpdate(t)
  \/ \E t \in Threads, op \in Operands : renameSrcRegs(t, op)
  \/ \E i \in renaming : renameDestReg(i)
  \/ \E i \in renaming : sendToIEW(i)
  \/ startHistory
  \/ \E t \in Threads : dropHistory(t)
  \/ startCommit
  \/ \E t \in Threads : squashAll(t)
  \/ \E t \in Threads : squashFromIEW(t)
  \/ getInsts
  \/ \E t \in Threads : commitHead(t)
  \/ \E t \in Threads : trapHead(t)
  \/ \E t \in Threads : retireSquashed(t)
  \/ advance

Spec == Init /\ [][Next]_vars

-----------------------------------------------------------------------------
SeqRange(s) == {s[k] : k \in DOMAIN s}

(* The renamed instructions that are still on their way.                   *)
InFlight ==
  {i \in renaming \cup UNION {SeqRange(toIEW[t]) \cup SeqRange(fromRename[t])
                               \cup SeqRange(instList[t]) : t \in Threads} :
     ~ i.squashed}

DestRegs(i) == {i.dests[k].phys : k \in DOMAIN i.dests} \ {zeroPhys}

(* The value an instruction is to read is never overwritten under it: as   *)
(* long as the instruction is in flight, its source registers are not on   *)
(* the free list, and nobody writes them but an older instruction of its   *)
(* own thread.  Registers are freed when the instruction that replaced     *)
(* them commits (rename_impl.hh:958) or the one that took them is squashed *)
(* (rename_impl.hh:909), each a cycle after commit decided so.             *)
OperandsStayLive ==
  \A i \in InFlight : \A p \in i.srcs :
    /\ p \notin freeList
    /\ \A j \in InFlight :
         p \in DestRegs(j) => j.tid = i.tid /\ j.seqNum < i.seqNum

(* The architectural state, which commit's own map points to               *)
(* (commit_impl.hh:1280), never sits in a free register, nor in one that   *)
(* an instruction in flight is going to write.                             *)
ArchStateIsSafe ==
  \A t \in Threads : \A a \in ArchRegs :
    /\ commitMap[t][a] \notin freeList
    /\ \A i \in InFlight : commitMap[t][a] \notin DestRegs(i)

(* However commits and squashes crossed on their way: once a thread has    *)
(* nothing in flight and rename has heard everything, its rename map is    *)
(* the committed one and its history is empty, as isDrained requires       *)
(* (rename_impl.hh:305).                                                   *)
RollsBackExactly ==
  \A t \in Threads :
    (/\ \A i \in InFlight : i.tid # t
     /\ commitInfo[t] = NoInfo
     /\ fromCommit[t] = NoInfo)
    => renameMap[t] = commitMap[t] /\ historyBuffer[t] = {}
=============================================================================
