----------------------------- MODULE MI_example -----------------------------
(***************************************************************************)
(* The MI_example coherence protocol of Ruby (mem/protocol/MI_example-*.sm) *)
(* as this tree runs it: L1 caches, directories, DMA controllers and the    *)
(* memory behind the directories.  The home directory of a block need not   *)
(* fetch it itself: it sends GETX to the directory next to the memory       *)
(* controller that serves the requestor (map_Address_to_Memory_Controller), *)
(* which answers the requestor with DATA and the home with GUX.             *)
(*                                                                          *)
(* One TLA+ step is one SLICC transition.  A stall (z_stall) and a recycle  *)
(* (z_recycleRequestQueue, y_recycleDMARequestQueue) change no state but    *)
(* the place of the message, so the action is not enabled.  A stalled       *)
(* message stays at the head of its buffer, a recycled one goes to the end: *)
(* the buffer a cache is sent forwards in (forwardToCache, one for all      *)
(* directories and blocks) is a sequence, the others are sets.  An event    *)
(* without a transition ends the simulation: the generated code panics      *)
(* ("Invalid transition"), here fatal is set and nothing moves any more.    *)
(*                                                                          *)
(* A DataBlock is a version number: 0 is the cleared block of a new entry,  *)
(* 1 the initial contents of memory, and a store makes the version it finds *)
(* one larger.  DMA writes cover the whole block.                           *)
(***************************************************************************)
EXTENDS Integers, Sequences, FiniteSets

CONSTANTS Caches,       \* the L1 cache controllers
          Dirs,         \* the directory controllers
          Dmas,         \* the DMA controllers
          Addrs,        \* line addresses
          DmaAddrs,     \* those that devices access
          Home,         \* the directory whose range holds an address
          LocalIdx,     \* the index of an address in a directory's table
          MemNode,      \* the directory that fetches for a cache
          MemoryNodes,  \* the directories checkifMachineIsMemoryNode names
          MaxOps,       \* bound on requests of CPUs and devices and on replacements
          NULL

ASSUME Parameters ==
    /\ DmaAddrs \subseteq Addrs
    /\ Home \in [Addrs -> Dirs]
    /\ DOMAIN LocalIdx = Addrs
    /\ MemNode \in [Caches -> Dirs]
    /\ MemoryNodes \subseteq Dirs
    /\ MaxOps \in Nat

VARIABLES
    entry,               \* [Caches -> [Addrs -> cache entry or NULL]]
    tbe,                 \* [Caches -> [Addrs -> TBE or NULL]]
    mandatoryQueue,      \* [Caches -> the request at its head or NULL]
    forwardToCache,      \* [Caches -> Seq(RequestMsg)]
    responseToCache,     \* set of ResponseMsg
    requestToDir,        \* set of RequestMsg
    dirEntry,            \* [Dirs -> [table index -> directory entry]]
    dirTBE,              \* [Dirs -> [Addrs -> TBE or NULL]]
    memoryPort,          \* packets on their way to memory
    responseFromMemory,  \* set of MemoryMsg
    dmaRequestToDir,     \* set of DMARequestMsg
    dmaState,            \* [Dmas -> [Addrs -> DMA state]]
    responseFromDir,     \* set of DMAResponseMsg
    mem,                 \* [Addrs -> version in memory]
    latest,              \* [Addrs -> version after the last write]
    ops,                 \* requests and replacements so far
    fatal                \* NULL, or the transition that does not exist

cacheVars == <<entry, tbe, mandatoryQueue>>
dirVars == <<dirEntry, dirTBE>>
memVars == <<memoryPort, responseFromMemory, mem, latest>>
dmaVars == <<dmaRequestToDir, dmaState, responseFromDir>>
netVars == <<forwardToCache, responseToCache, requestToDir>>
vars == <<cacheVars, dirVars, memVars, dmaVars, netVars, ops, fatal>>

Indices == {LocalIdx[a] : a \in Addrs}

Init ==
    /\ entry = [c \in Caches |-> [a \in Addrs |-> NULL]]
    /\ tbe = [c \in Caches |-> [a \in Addrs |-> NULL]]
    /\ mandatoryQueue = [c \in Caches |-> NULL]
    /\ forwardToCache = [c \in Caches |-> <<>>]
    /\ responseToCache = {}
    /\ requestToDir = {}
    /\ dirEntry = [d \in Dirs |->
                     [i \in Indices |-> [DirectoryState |-> "I", Owner |-> {}]]]
    /\ dirTBE = [d \in Dirs |-> [a \in Addrs |-> NULL]]
    /\ memoryPort = {}
    /\ responseFromMemory = {}
    /\ dmaRequestToDir = {}
    /\ dmaState = [p \in Dmas |-> [a \in Addrs |-> "READY"]]
    /\ responseFromDir = {}
    /\ mem = [a \in Addrs |-> 1]
    /\ latest = [a \in Addrs |-> 1]
    /\ ops = 0
    /\ fatal = NULL

-----------------------------------------------------------------------------
(* The L1 cache. *)

(* getState: a TBE hides the cache entry. *)
CacheState(c, a) ==
    IF tbe[c][a] # NULL THEN tbe[c][a].TBEState
    ELSE IF entry[c][a] # NULL THEN entry[c][a].CacheState
    ELSE "I"

SetEntry(c, a, e) == entry' = [entry EXCEPT ![c][a] = e]
SetTBE(c, a, t) == tbe' = [tbe EXCEPT ![c][a] = t]

(* A CPU sends its next request.  The sequencer refuses one for a line that *)
(* already has a request outstanding.                                       *)
CpuRequest(c, a, type) ==
    /\ fatal = NULL
    /\ ops < MaxOps
    /\ mandatoryQueue[c] = NULL
    /\ CacheState(c, a) \notin {"IS", "IM"}
    /\ mandatoryQueue' = [mandatoryQueue EXCEPT
                            ![c] = [Type |-> type, LineAddress |-> a]]
    /\ ops' = ops + 1
    /\ UNCHANGED <<entry, tbe, dirVars, memVars, dmaVars, netVars, fatal>>

(* A store hit modifies the block the cache holds. *)
StoreHit(c, a, block) ==
    /\ SetEntry(c, a, [CacheState |-> "M", DataBlk |-> block + 1])
    /\ latest' = [latest EXCEPT ![a] = @ + 1]

LoadHit(c, a, block) ==
    /\ SetEntry(c, a, [CacheState |-> "M", DataBlk |-> block])
    /\ UNCHANGED latest

(* transition(M, Store) and transition(M, {Load, Ifetch}) *)
Hit(c) ==
    /\ fatal = NULL
    /\ mandatoryQueue[c] # NULL
    /\ LET a == mandatoryQueue[c].LineAddress IN
       /\ CacheState(c, a) = "M"
       /\ IF mandatoryQueue[c].Type = "Store"
            THEN StoreHit(c, a, entry[c][a].DataBlk)
            ELSE LoadHit(c, a, entry[c][a].DataBlk)
    /\ mandatoryQueue' = [mandatoryQueue EXCEPT ![c] = NULL]
    /\ UNCHANGED <<tbe, dirVars, memoryPort, responseFromMemory, mem, dmaVars,
                   netVars, ops, fatal>>

(* transition(I, Store, IM) and transition(I, {Load, Ifetch}, IS): an entry *)
(* left over in I is used again with the data it has.                       *)
Miss(c) ==
    /\ fatal = NULL
    /\ mandatoryQueue[c] # NULL
    /\ LET a == mandatoryQueue[c].LineAddress
           s == IF mandatoryQueue[c].Type = "Store" THEN "IM" ELSE "IS" IN
       /\ CacheState(c, a) = "I"
       /\ SetTBE(c, a, [TBEState |-> s, DataBlk |-> 0])
       /\ SetEntry(c, a, [CacheState |-> s,
                          DataBlk |-> IF entry[c][a] = NULL THEN 0
                                      ELSE entry[c][a].DataBlk])
       /\ requestToDir' = requestToDir \cup
            {[To |-> Home[a], Type |-> "GETS", addr |-> a, Requestor |-> c,
              Sender |-> c, DataBlk |-> 0]}
    /\ mandatoryQueue' = [mandatoryQueue EXCEPT ![c] = NULL]
    /\ UNCHANGED <<dirVars, memVars, dmaVars, forwardToCache, responseToCache,
                   ops, fatal>>

(* The actions of transition(M, {Replacement, Inv}, MI). *)
Evict(c, a) ==
    /\ SetTBE(c, a, [TBEState |-> "MI", DataBlk |-> entry[c][a].DataBlk])
    /\ SetEntry(c, a, NULL)
    /\ requestToDir' = requestToDir \cup
         {[To |-> Home[a], Type |-> "PUTX", addr |-> a, Requestor |-> c,
           Sender |-> c, DataBlk |-> entry[c][a].DataBlk]}

(* A request for some block of the set that is not in Addrs picks a as its  *)
(* victim.                                                                  *)
Replacement(c, a) ==
    /\ fatal = NULL
    /\ ops < MaxOps
    /\ ops' = ops + 1
    /\ entry[c][a] # NULL
    /\ \/ /\ CacheState(c, a) = "M"
          /\ Evict(c, a)
       \/ /\ CacheState(c, a) = "I"
          /\ SetEntry(c, a, NULL)
          /\ UNCHANGED <<tbe, requestToDir>>
    /\ UNCHANGED <<mandatoryQueue, dirVars, memVars, dmaVars, forwardToCache,
                   responseToCache, fatal>>

(* transition(IS, Data, M) and transition(IM, Data, M); no other state has  *)
(* a transition on Data.                                                    *)
Data(c, m) ==
    /\ fatal = NULL
    /\ m \in responseToCache
    /\ m.To = c
    /\ responseToCache' = responseToCache \ {m}
    /\ LET a == m.addr  s == CacheState(c, a) IN
       IF s \in {"IS", "IM"}
         THEN /\ IF s = "IM" THEN StoreHit(c, a, m.DataBlk)
                             ELSE LoadHit(c, a, m.DataBlk)
              /\ SetTBE(c, a, NULL)
              /\ UNCHANGED fatal
         ELSE /\ fatal' = [machine |-> "L1Cache", state |-> s, event |-> "Data"]
              /\ UNCHANGED <<entry, tbe, latest>>
    /\ UNCHANGED <<mandatoryQueue, dirVars, memoryPort, responseFromMemory, mem,
                   dmaVars, forwardToCache, requestToDir, ops>>

SendData(to, a, block) ==
    responseToCache' = responseToCache \cup
                         {[To |-> to, addr |-> a, DataBlk |-> block]}

PopForward(c) ==
    forwardToCache' = [forwardToCache EXCEPT ![c] = Tail(@)]

(* Mutant: the owner hands the block over and keeps it. *)
Fwd_GETXKeeps(c, m) ==
    LET a == m.addr  s == CacheState(c, a) IN
    /\ s \in {"M", "MI", "MII"}
    /\ SendData(m.Requestor, a, IF s = "M" THEN entry[c][a].DataBlk
                                ELSE tbe[c][a].DataBlk)
    /\ IF s = "M" THEN UNCHANGED tbe
       ELSE SetTBE(c, a, IF s = "MII" THEN NULL
                         ELSE [tbe[c][a] EXCEPT !.TBEState = "II"])
    /\ UNCHANGED <<entry, requestToDir>>

(* transition(M, Fwd_GETX, I), (MI, Fwd_GETX, II) and (MII, Fwd_GETX, I):   *)
(* the owner hands the block over, from the TBE while it is being written   *)
(* back.                                                                    *)
Fwd_GETX(c, m) ==
    LET a == m.addr  s == CacheState(c, a) IN
    /\ s \in {"M", "MI", "MII"}
    /\ IF s = "M"
         THEN /\ SendData(m.Requestor, a, entry[c][a].DataBlk)
              /\ SetEntry(c, a, [entry[c][a] EXCEPT !.CacheState = "I"])
              /\ UNCHANGED tbe
         ELSE /\ SendData(m.Requestor, a, tbe[c][a].DataBlk)
              /\ SetTBE(c, a, IF s = "MII" THEN NULL
                              ELSE [tbe[c][a] EXCEPT !.TBEState = "II"])
              /\ UNCHANGED entry
    /\ UNCHANGED requestToDir

(* transition(MI, Writeback_Ack, I) *)
Writeback_Ack(c, m) ==
    /\ CacheState(c, m.addr) = "MI"
    /\ SetTBE(c, m.addr, NULL)
    /\ UNCHANGED <<entry, responseToCache, requestToDir>>

(* transition(MI, Writeback_Nack, MII) and (II, Writeback_Nack, I) *)
Writeback_Nack(c, m) ==
    LET a == m.addr  s == CacheState(c, a) IN
    /\ s \in {"MI", "II"}
    /\ SetTBE(c, a, IF s = "II" THEN NULL
                    ELSE [tbe[c][a] EXCEPT !.TBEState = "MII"])
    /\ UNCHANGED <<entry, responseToCache, requestToDir>>

(* transition(MI, Inv), (I, Inv) and (M, Inv, MI).  The last does not pop   *)
(* the message: the cache meets it again in MI.                             *)
Inv(c, m) ==
    LET s == CacheState(c, m.addr) IN
    /\ s \in {"M", "MI", "I"}
    /\ IF s = "M" THEN Evict(c, m.addr)
                  ELSE UNCHANGED <<entry, tbe, requestToDir>>
    /\ UNCHANGED responseToCache

(* Mutant: only an invalidation waits for the data of a miss. *)
StallStatesInvOnly(type) ==
    IF type = "INV" THEN {"IS", "IM"} ELSE {}

(* The states in which a message from the directory stalls the port, and    *)
(* those in which it has no transition at all.                              *)
StallStates(type) ==
    IF type \in {"GETX", "INV"} THEN {"IS", "IM"} ELSE {}

HandledStates(type) ==
    CASE type = "GETX"    -> {"M", "MI", "MII"}
      [] type = "WB_ACK"  -> {"MI"}
      [] type = "WB_NACK" -> {"MI", "II"}
      [] type = "INV"     -> {"M", "MI", "I"}

(* in_port(forwardRequestNetwork_in).  A message that stalls stays at the   *)
(* head of the buffer, and what any directory has sent for any other block  *)
(* waits behind it.                                                         *)
Forward(c) ==
    /\ fatal = NULL
    /\ forwardToCache[c] # <<>>
    /\ LET m == Head(forwardToCache[c])
           s == CacheState(c, m.addr) IN
       IF s \in HandledStates(m.Type)
         THEN /\ CASE m.Type = "GETX"    -> Fwd_GETX(c, m)
                   [] m.Type = "WB_ACK"  -> Writeback_Ack(c, m)
                   [] m.Type = "WB_NACK" -> Writeback_Nack(c, m)
                   [] m.Type = "INV"     -> Inv(c, m)
              /\ IF m.Type = "INV" /\ s = "M" THEN UNCHANGED forwardToCache
                                              ELSE PopForward(c)
              /\ UNCHANGED fatal
         ELSE /\ s \notin StallStates(m.Type)
              /\ fatal' = [machine |-> "L1Cache", state |-> s, event |-> m.Type]
              /\ UNCHANGED <<entry, tbe, netVars>>
    /\ UNCHANGED <<mandatoryQueue, dirVars, memVars, dmaVars, ops>>

-----------------------------------------------------------------------------
(* The directory. *)

(* setState and getState use the table only for the blocks of this          *)
(* directory, and at the nodes checkifMachineIsMemoryNode names for all.    *)
KeepsState(d, a) == Home[a] = d \/ d \in MemoryNodes

DirState(d, a) ==
    IF dirTBE[d][a] # NULL THEN dirTBE[d][a].TBEState
    ELSE IF KeepsState(d, a) THEN dirEntry[d][LocalIdx[a]].DirectoryState
    ELSE "I"

Owner(d, a) == dirEntry[d][LocalIdx[a]].Owner

(* The entry after a transition to s whose actions leave owner in it.  The  *)
(* Owner is written wherever the transition runs, the state only where      *)
(* setState keeps one.                                                      *)
SetDir(d, a, s, owner) ==
    dirEntry' = [dirEntry EXCEPT ![d][LocalIdx[a]] =
                   [DirectoryState |-> IF KeepsState(d, a) THEN s
                                       ELSE @.DirectoryState,
                    Owner |-> owner]]

SetDirTBE(d, a, t) == dirTBE' = [dirTBE EXCEPT ![d][a] = t]

PopRequest(m) == requestToDir' = requestToDir \ {m}

RequestMsg(to, type, a, requestor, sender) ==
    [To |-> to, Type |-> type, addr |-> a, Requestor |-> requestor,
     Sender |-> sender, DataBlk |-> 0]

ForwardMsg(d, type, a, requestor) ==
    [Type |-> type, addr |-> a, Requestor |-> requestor, Sender |-> d]

(* m comes i-th of the messages that c has not taken. *)
InsertForward(c, i, m) ==
    forwardToCache' = [forwardToCache EXCEPT ![c] =
        SubSeq(@, 1, i - 1) \o <<m>> \o SubSeq(@, i, Len(@))]

(* A message to the owner, if the entry has one.  Virtual network 2 is      *)
(* ordered from one directory to one cache; messages of different           *)
(* directories come in any order.                                           *)
SendForward(to, m) ==
    IF to = {} THEN UNCHANGED forwardToCache
    ELSE \E c \in to : \E i \in 1 .. Len(forwardToCache[c]) + 1 :
           /\ \A j \in i .. Len(forwardToCache[c]) :
                forwardToCache[c][j].Sender # m.Sender
           /\ InsertForward(c, i, m)

QueueMemory(d, type, a, id, block) ==
    memoryPort' = memoryPort \cup
        {[dir |-> d, Type |-> type, addr |-> a, id |-> id, DataBlk |-> block]}

(* Mutant: a PUTX is taken from whoever sends it. *)
RequestEventAnyOwner(d, m) ==
    CASE m.Type = "GETS" -> IF d # MemNode[m.Sender] THEN "GETS" ELSE "GETX"
      [] m.Type = "GETX" -> "GETX"
      [] m.Type = "PUTX" -> "PUTX"
      [] m.Type = "GUX"  -> "Memory_Ack_To_Dir"
      [] m.Type = "PUTS" -> "PUTS"

(* in_port(requestQueue_in): a GETS is a GETX at the directory that fetches *)
(* for its sender.                                                          *)
RequestEvent(d, m) ==
    CASE m.Type = "GETS" -> IF d # MemNode[m.Sender] THEN "GETS" ELSE "GETX"
      [] m.Type = "GETX" -> "GETX"
      [] m.Type = "PUTX" -> IF m.Requestor \in Owner(d, m.addr) THEN "PUTX"
                            ELSE "PUTX_NotOwner"
      [] m.Type = "GUX"  -> "Memory_Ack_To_Dir"
      [] m.Type = "PUTS" -> "PUTS"

DmaBlocked == {"M_DRD", "M_DWR", "M_DRDI", "M_DWRI"}
Recycling == {"IM", "MI", "ID", "ID_W"}

RecycleStates(event) ==
    CASE event = "GETX" -> Recycling \cup DmaBlocked
      [] event \in {"GETS", "PUTX", "PUTX_NotOwner"} -> Recycling
      [] OTHER -> {}

(* transition(I, GETX, IM): fetch from the memory behind this directory. *)
FetchHere(d, m) ==
    /\ DirState(d, m.addr) = "I"
    /\ QueueMemory(d, "READ", m.addr, m.Requestor, 0)
    /\ SetDir(d, m.addr, "IM", {m.Requestor})
    /\ PopRequest(m)
    /\ UNCHANGED <<dirTBE, forwardToCache, responseFromDir>>

(* transition(I, GETS, IM): let the requestor's memory node fetch. *)
FetchRemote(d, m) ==
    /\ DirState(d, m.addr) = "I"
    /\ SetDir(d, m.addr, "IM", {m.Requestor})
    /\ requestToDir' = (requestToDir \ {m}) \cup
         {RequestMsg(MemNode[m.Requestor], "GETX", m.addr, m.Requestor, d)}
    /\ UNCHANGED <<dirTBE, memoryPort, forwardToCache, responseFromDir>>

(* Mutant: the owner stays the old one. *)
ForwardToOwnerKept(d, m) ==
    /\ DirState(d, m.addr) = "M"
    /\ SendForward(Owner(d, m.addr), ForwardMsg(d, "GETX", m.addr, m.Requestor))
    /\ PopRequest(m)
    /\ UNCHANGED <<dirEntry, dirTBE, memoryPort, responseFromDir>>

(* transition(M, GETS, M) and transition(M, GETX, M) *)
ForwardToOwner(d, m) ==
    /\ DirState(d, m.addr) = "M"
    /\ SendForward(Owner(d, m.addr), ForwardMsg(d, "GETX", m.addr, m.Requestor))
    /\ SetDir(d, m.addr, "M", {m.Requestor})
    /\ PopRequest(m)
    /\ UNCHANGED <<dirTBE, memoryPort, responseFromDir>>

(* Mutant: memory is not given the data of the PUTX. *)
WriteBackNoData(d, m) ==
    /\ DirState(d, m.addr) = "M"
    /\ SetDir(d, m.addr, "MI", {})
    /\ SetDirTBE(d, m.addr, [TBEState |-> "MI", DmaRequestor |-> NULL])
    /\ requestToDir' = (requestToDir \ {m}) \cup
         {RequestMsg(MemNode[m.Requestor], "PUTS", m.addr, m.Requestor, d)}
    /\ QueueMemory(d, "WB", m.addr, m.Requestor, mem[m.addr])
    /\ UNCHANGED <<forwardToCache, responseFromDir>>

(* transition(M, PUTX, MI): the data goes to the memory behind the home,    *)
(* and a PUTS to the memory node of the requestor, which drops it.          *)
WriteBack(d, m) ==
    /\ DirState(d, m.addr) = "M"
    /\ SetDir(d, m.addr, "MI", {})
    /\ SetDirTBE(d, m.addr, [TBEState |-> "MI", DmaRequestor |-> NULL])
    /\ requestToDir' = (requestToDir \ {m}) \cup
         {RequestMsg(MemNode[m.Requestor], "PUTS", m.addr, m.Requestor, d)}
    /\ QueueMemory(d, "WB", m.addr, m.Requestor, m.DataBlk)
    /\ UNCHANGED <<forwardToCache, responseFromDir>>

SendDma(d, m) ==
    responseFromDir' = responseFromDir \cup {m}

(* Mutant: the device gets what memory has. *)
WriteBackForReadStale(d, m) ==
    /\ DirState(d, m.addr) = "M_DRD"
    /\ SendDma(d, [To |-> dirTBE[d][m.addr].DmaRequestor, Type |-> "DATA",
                   addr |-> m.addr, DataBlk |-> mem[m.addr]])
    /\ SetDir(d, m.addr, "M_DRDI", {})
    /\ SetDirTBE(d, m.addr, [dirTBE[d][m.addr] EXCEPT !.TBEState = "M_DRDI"])
    /\ QueueMemory(d, "WB", m.addr, m.Requestor, m.DataBlk)
    /\ PopRequest(m)
    /\ UNCHANGED forwardToCache

(* transition(M_DRD, PUTX, M_DRDI): the device gets the data of the PUTX. *)
WriteBackForRead(d, m) ==
    /\ DirState(d, m.addr) = "M_DRD"
    /\ SendDma(d, [To |-> dirTBE[d][m.addr].DmaRequestor, Type |-> "DATA",
                   addr |-> m.addr, DataBlk |-> m.DataBlk])
    /\ SetDir(d, m.addr, "M_DRDI", {})
    /\ SetDirTBE(d, m.addr, [dirTBE[d][m.addr] EXCEPT !.TBEState = "M_DRDI"])
    /\ QueueMemory(d, "WB", m.addr, m.Requestor, m.DataBlk)
    /\ PopRequest(m)
    /\ UNCHANGED forwardToCache

(* transition(M_DWR, PUTX, M_DWRI): memory gets the data of the device, and *)
(* the data of the PUTX is dropped.                                         *)
WriteBackForWrite(d, m) ==
    /\ DirState(d, m.addr) = "M_DWR"
    /\ SetDir(d, m.addr, "M_DWRI", {})
    /\ SetDirTBE(d, m.addr, [dirTBE[d][m.addr] EXCEPT !.TBEState = "M_DWRI"])
    /\ QueueMemory(d, "WB", m.addr, m.Requestor, NULL)
    /\ PopRequest(m)
    /\ UNCHANGED <<forwardToCache, responseFromDir>>

(* transition(M, PUTX_NotOwner, M) and transition(I, PUTX_NotOwner, I) *)
Nack(d, m) ==
    /\ DirState(d, m.addr) \in {"I", "M"}
    /\ SendForward({m.Requestor}, ForwardMsg(d, "WB_NACK", m.addr, m.Requestor))
    /\ PopRequest(m)
    /\ UNCHANGED <<dirVars, memoryPort, responseFromDir>>

(* transition(IM, Memory_Ack_To_Dir, M) *)
Memory_Ack_To_Dir(d, m) ==
    /\ DirState(d, m.addr) = "IM"
    /\ SetDir(d, m.addr, "M", Owner(d, m.addr))
    /\ PopRequest(m)
    /\ UNCHANGED <<dirTBE, memoryPort, forwardToCache, responseFromDir>>

(* transition({I, IM, M, MI, ID, ID_W}, PUTS) *)
DropPUTS(d, m) ==
    /\ DirState(d, m.addr) \notin DmaBlocked
    /\ PopRequest(m)
    /\ UNCHANGED <<dirVars, memoryPort, forwardToCache, responseFromDir>>

HandledAt(event) ==
    CASE event \in {"GETX", "GETS"} -> {"I", "M"}
      [] event = "PUTX" -> {"M", "M_DRD", "M_DWR"}
      [] event = "PUTX_NotOwner" -> {"I", "M"}
      [] event = "Memory_Ack_To_Dir" -> {"IM"}
      [] event = "PUTS" -> {"I", "M"} \cup Recycling

Request(d, m) ==
    /\ fatal = NULL
    /\ m \in requestToDir
    /\ m.To = d
    /\ LET event == RequestEvent(d, m)  s == DirState(d, m.addr) IN
       IF s \in HandledAt(event)
         THEN /\ \/ event = "GETX" /\ FetchHere(d, m)
                 \/ event = "GETS" /\ FetchRemote(d, m)
                 \/ event \in {"GETX", "GETS"} /\ ForwardToOwner(d, m)
                 \/ event = "PUTX" /\ WriteBack(d, m)
                 \/ event = "PUTX" /\ WriteBackForRead(d, m)
                 \/ event = "PUTX" /\ WriteBackForWrite(d, m)
                 \/ event = "PUTX_NotOwner" /\ Nack(d, m)
                 \/ event = "Memory_Ack_To_Dir" /\ Memory_Ack_To_Dir(d, m)
                 \/ event = "PUTS" /\ DropPUTS(d, m)
              /\ UNCHANGED fatal
         ELSE /\ s \notin RecycleStates(event)
              /\ fatal' = [machine |-> "Directory", state |-> s, event |-> event]
              /\ UNCHANGED <<dirVars, memoryPort, netVars, responseFromDir>>
    /\ UNCHANGED <<cacheVars, responseFromMemory, mem, latest, dmaRequestToDir,
                   dmaState, responseToCache, ops>>

(* in_port(dmaRequestQueue_in).  In I the directory goes to memory, in M it *)
(* takes the block from the owner first (inv_sendCacheInvalidate).          *)
DmaRequest(d, m) ==
    /\ fatal = NULL
    /\ m \in dmaRequestToDir
    /\ Home[m.addr] = d
    /\ LET a == m.addr
           s == DirState(d, a)
           read == m.Type = "READ" IN
       IF s = "I"
         THEN LET next == IF read THEN "ID" ELSE "ID_W" IN
              /\ SetDir(d, a, next, Owner(d, a))
              /\ SetDirTBE(d, a, [TBEState |-> next, DmaRequestor |-> m.Requestor])
              /\ QueueMemory(d, IF read THEN "READ" ELSE "WB", a, m.Requestor,
                             IF read THEN 0 ELSE NULL)
              /\ dmaRequestToDir' = dmaRequestToDir \ {m}
              /\ UNCHANGED <<forwardToCache, fatal>>
       ELSE IF s = "M"
         THEN LET next == IF read THEN "M_DRD" ELSE "M_DWR" IN
              /\ SetDir(d, a, next, Owner(d, a))
              /\ SetDirTBE(d, a, [TBEState |-> next, DmaRequestor |-> m.Requestor])
              /\ SendForward(Owner(d, a), ForwardMsg(d, "INV", a, d))
              /\ dmaRequestToDir' = dmaRequestToDir \ {m}
              /\ UNCHANGED <<memoryPort, fatal>>
       ELSE /\ s \notin Recycling
            /\ fatal' = [machine |-> "Directory", state |-> s,
                         event |-> IF read THEN "DMA_READ" ELSE "DMA_WRITE"]
            /\ UNCHANGED <<dirVars, memoryPort, forwardToCache, dmaRequestToDir>>
    /\ UNCHANGED <<cacheVars, responseFromMemory, mem, latest, dmaState,
                   responseFromDir, responseToCache, requestToDir, ops>>

(* The memory controllers of all directories work on the same storage, and  *)
(* check a packet only against the limits of the interleaved range.         *)
Memory(p) ==
    /\ fatal = NULL
    /\ p \in memoryPort
    /\ memoryPort' = memoryPort \ {p}
    /\ IF p.Type = "READ"
         THEN UNCHANGED <<mem, latest>>
         ELSE IF p.DataBlk = NULL
         THEN /\ mem' = [mem EXCEPT ![p.addr] = latest[p.addr] + 1]
              /\ latest' = [latest EXCEPT ![p.addr] = @ + 1]
         ELSE /\ mem' = [mem EXCEPT ![p.addr] = p.DataBlk]
              /\ UNCHANGED latest
    /\ responseFromMemory' = responseFromMemory \cup
         {[p EXCEPT !.DataBlk = IF p.Type = "READ" THEN mem[p.addr] ELSE 0]}
    /\ UNCHANGED <<cacheVars, dirVars, dmaVars, netVars, ops, fatal>>

(* l_sendWriteBackAck leaves after one cycle, forwards, invalidations and   *)
(* nacks after directory_latency: the ack may overtake what the directory   *)
(* has already sent to this cache.                                          *)
SendAck(d, c, a) ==
    \E i \in 1 .. Len(forwardToCache[c]) + 1 :
        InsertForward(c, i, ForwardMsg(d, "WB_ACK", a, c))

DmaAck(d, a) == [To |-> dirTBE[d][a].DmaRequestor, Type |-> "ACK", addr |-> a,
                 DataBlk |-> 0]

(* transition(IM, Memory_Data, M) *)
DataToRequestor(d, r) ==
    /\ DirState(d, r.addr) = "IM"
    /\ SendData(r.id, r.addr, r.DataBlk)
    /\ SetDir(d, r.addr, "M", Owner(d, r.addr))
    /\ UNCHANGED <<dirTBE, requestToDir, forwardToCache, responseFromDir>>

(* transition(ID, Memory_Data, I) *)
DataToDma(d, r) ==
    /\ DirState(d, r.addr) = "ID"
    /\ SendDma(d, [To |-> dirTBE[d][r.addr].DmaRequestor, Type |-> "DATA",
                   addr |-> r.addr, DataBlk |-> r.DataBlk])
    /\ SetDir(d, r.addr, "I", Owner(d, r.addr))
    /\ SetDirTBE(d, r.addr, NULL)
    /\ UNCHANGED <<requestToDir, forwardToCache, responseToCache>>

(* transition({I, IM, M, MI, ID, ID_W}, MEMCtrl_Data) at a memory node that *)
(* is not the home: no state is changed.                                    *)
MEMCtrl_Data(d, r) ==
    /\ SendData(r.id, r.addr, r.DataBlk)
    /\ requestToDir' = requestToDir \cup
                         {RequestMsg(Home[r.addr], "GUX", r.addr, d, d)}
    /\ UNCHANGED <<dirVars, forwardToCache, responseFromDir>>

(* Mutant: only a plain writeback is acknowledged to the cache. *)
Memory_AckToDmaOnly(d, r) ==
    LET a == r.addr  s == DirState(d, a) IN
    /\ s \in {"MI", "ID_W", "M_DRDI", "M_DWRI"}
    /\ IF s = "MI" THEN SendAck(d, r.id, a) ELSE UNCHANGED forwardToCache
    /\ IF s \in {"ID_W", "M_DWRI"} THEN SendDma(d, DmaAck(d, a))
                                   ELSE UNCHANGED responseFromDir
    /\ SetDir(d, a, "I", Owner(d, a))
    /\ SetDirTBE(d, a, NULL)
    /\ UNCHANGED <<requestToDir, responseToCache>>

(* transition(MI, Memory_Ack, I), (ID_W, Memory_Ack, I), (M_DRDI,           *)
(* Memory_Ack, I) and (M_DWRI, Memory_Ack, I)                               *)
Memory_Ack(d, r) ==
    LET a == r.addr  s == DirState(d, a) IN
    /\ s \in {"MI", "ID_W", "M_DRDI", "M_DWRI"}
    /\ IF s = "ID_W" THEN UNCHANGED forwardToCache ELSE SendAck(d, r.id, a)
    /\ IF s \in {"ID_W", "M_DWRI"} THEN SendDma(d, DmaAck(d, a))
                                   ELSE UNCHANGED responseFromDir
    /\ SetDir(d, a, "I", Owner(d, a))
    /\ SetDirTBE(d, a, NULL)
    /\ UNCHANGED <<requestToDir, responseToCache>>

MemoryEvent(d, r) ==
    IF r.Type = "WB" THEN "Memory_Ack"
    ELSE IF d = Home[r.addr] THEN "Memory_Data" ELSE "MEMCtrl_Data"

MemoryHandledAt(event) ==
    CASE event = "Memory_Data" -> {"IM", "ID"}
      [] event = "MEMCtrl_Data" -> {"I", "M"} \cup Recycling
      [] event = "Memory_Ack" -> {"MI", "ID_W", "M_DRDI", "M_DWRI"}

(* in_port(memQueue_in) *)
MemoryResponse(d, r) ==
    /\ fatal = NULL
    /\ r \in responseFromMemory
    /\ r.dir = d
    /\ responseFromMemory' = responseFromMemory \ {r}
    /\ LET event == MemoryEvent(d, r)  s == DirState(d, r.addr) IN
       IF s \in MemoryHandledAt(event)
         THEN /\ \/ event = "Memory_Data" /\ DataToRequestor(d, r)
                 \/ event = "Memory_Data" /\ DataToDma(d, r)
                 \/ event = "MEMCtrl_Data" /\ MEMCtrl_Data(d, r)
                 \/ event = "Memory_Ack" /\ Memory_Ack(d, r)
              /\ UNCHANGED fatal
         ELSE /\ fatal' = [machine |-> "Directory", state |-> s, event |-> event]
              /\ UNCHANGED <<dirVars, netVars, responseFromDir>>
    /\ UNCHANGED <<cacheVars, memoryPort, mem, latest, dmaRequestToDir, dmaState,
                   ops>>

-----------------------------------------------------------------------------
(* The DMA controller. *)

(* transition(READY, ReadRequest, BUSY_RD), (READY, WriteRequest, BUSY_WR): *)
(* a request for a busy line waits (zz_stallAndWaitRequestQueue) until the  *)
(* line is READY again.                                                     *)
DmaIssue(p, a, type) ==
    /\ fatal = NULL
    /\ ops < MaxOps
    /\ dmaState[p][a] = "READY"
    /\ dmaState' = [dmaState EXCEPT
                      ![p][a] = IF type = "READ" THEN "BUSY_RD" ELSE "BUSY_WR"]
    /\ dmaRequestToDir' = dmaRequestToDir \cup
                            {[Type |-> type, addr |-> a, Requestor |-> p]}
    /\ ops' = ops + 1
    /\ UNCHANGED <<cacheVars, dirVars, memVars, responseFromDir, netVars, fatal>>

(* transition(BUSY_RD, Data, READY) and transition(BUSY_WR, Ack, READY) *)
DmaResponse(p, m) ==
    /\ fatal = NULL
    /\ m \in responseFromDir
    /\ m.To = p
    /\ responseFromDir' = responseFromDir \ {m}
    /\ IF dmaState[p][m.addr] = IF m.Type = "DATA" THEN "BUSY_RD" ELSE "BUSY_WR"
         THEN /\ dmaState' = [dmaState EXCEPT ![p][m.addr] = "READY"]
              /\ UNCHANGED fatal
         ELSE /\ fatal' = [machine |-> "DMA", state |-> dmaState[p][m.addr],
                           event |-> m.Type]
              /\ UNCHANGED dmaState
    /\ UNCHANGED <<cacheVars, dirVars, memVars, dmaRequestToDir, netVars, ops>>

-----------------------------------------------------------------------------
CacheStep(c) ==
    \/ Hit(c)
    \/ Miss(c)
    \/ \E m \in responseToCache : Data(c, m)
    \/ Forward(c)

DirStep(d) ==
    \/ \E m \in requestToDir : Request(d, m)
    \/ \E m \in dmaRequestToDir : DmaRequest(d, m)
    \/ \E r \in responseFromMemory : MemoryResponse(d, r)

Environment ==
    \/ \E c \in Caches, a \in Addrs, t \in {"Load", "Store"} : CpuRequest(c, a, t)
    \/ \E c \in Caches, a \in Addrs : Replacement(c, a)
    \/ \E p \in Dmas, a \in DmaAddrs, t \in {"READ", "WRITE"} : DmaIssue(p, a, t)

System ==
    \/ \E c \in Caches : CacheStep(c)
    \/ \E d \in Dirs : DirStep(d)
    \/ \E p \in memoryPort : Memory(p)
    \/ \E p \in Dmas, m \in responseFromDir : DmaResponse(p, m)

Next == Environment \/ System

(* Some controller runs while any has something to do: a message in an      *)
(* input buffer schedules a wakeup, and a stalled or recycled one is looked *)
(* at again.                                                                *)
Fairness == WF_vars(System)

Spec == Init /\ [][Next]_vars /\ Fairness

-----------------------------------------------------------------------------
(* At most one cache may write a block: the caches in M (Read_Write) and    *)
(* the DATA messages that will put one there are one in number at most.     *)
OneWriter ==
    \A a \in Addrs :
        Cardinality({c \in Caches : CacheState(c, a) = "M"})
        + Cardinality({m \in responseToCache : m.addr = a}) <= 1

(* No write is lost and none is missed: a cache that may read and write the *)
(* block has the result of the last write, whichever CPU or device made it, *)
(* and so has a DATA message on its way.                                    *)
CurrentData ==
    \A a \in Addrs :
        /\ \A c \in Caches :
             CacheState(c, a) = "M" => entry[c][a].DataBlk = latest[a]
        /\ \A m \in responseToCache : m.addr = a => m.DataBlk = latest[a]

(* When the home directory says nobody has the block, memory has the result *)
(* of the last write and no cache can still write.                          *)
IdleIsInMemory ==
    \A a \in Addrs : DirState(Home[a], a) = "I" =>
        /\ mem[a] = latest[a]
        /\ \A c \in Caches : CacheState(c, a) # "M"

(* The home knows who to ask: in M its Owner is one cache, and that cache   *)
(* has the block, waits for it, or is writing it back.  A request forwarded *)
(* to it will be answered.                                                  *)
OwnerHasBlock ==
    \A a \in Addrs : DirState(Home[a], a) = "M" =>
        \E o \in Caches :
            /\ Owner(Home[a], a) = {o}
            /\ CacheState(o, a) \in {"M", "MI", "IS", "IM"}

(* The protocol has a transition for every event that happens, but for the  *)
(* states in which the home waits on behalf of a DMA request.               *)
InvalidOnlyForDma ==
    fatal # NULL => fatal.machine = "Directory" /\ fatal.state \in DmaBlocked

(* A device reads the result of the last write at the moment the directory  *)
(* answers it, from memory or from the PUTX that follows an invalidation.   *)
DmaReadsLatest ==
    [][\A m \in responseFromDir' \ responseFromDir :
         m.Type = "DATA" => m.DataBlk = latest[m.addr]]_vars

Quiescent ==
    /\ \A c \in Caches, a \in Addrs : CacheState(c, a) \in {"I", "M"}
    /\ \A c \in Caches : mandatoryQueue[c] = NULL
    /\ \A p \in Dmas, a \in Addrs : dmaState[p][a] = "READY"

(* Finitely many requests are all served: the caches leave every transient  *)
(* state, the CPUs and the devices all get their answers, unless the        *)
(* simulation ended in an invalid transition.  A forward that stalls until  *)
(* its cache has the data keeps all forwards behind it waiting, those for   *)
(* the data of another cache included; when all blocks have one home, which *)
(* sends them in one order, the waits have no cycle.  With two homes they   *)
(* can have one.                                                            *)
EverythingServed == []<>(Quiescent \/ fatal # NULL)

=============================================================================
