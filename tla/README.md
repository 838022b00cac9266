# Verification of gem5 in TLA+

gem5 is a discrete-event simulator of computer systems. This directory holds TLA+ models of the part of it that every
simulation runs on (event queues, the parallel simulation loop, signals, draining), of the coherence protocol that this
tree changes (`MI_example` with remote memory nodes), of the Garnet network, of the classic memory system in timing mode
and of register renaming in the out-of-order CPU, with the TLC runs that check them and the TLAPS proofs about them.
`PROJECT.json` lists every component, run, hazard, finding and theorem, and maps each definition to the source lines it
models. Paths below are relative to `src/gem5/src/`.

## 1. The system and its parts

Everything that happens in a simulated machine is an `Event` on an `EventQueue`. The layers, from the bottom up:

| part | source | what it does | here |
|---|---|---|---|
| event queue | `sim/eventq.{hh,cc}`, `sim/eventq_impl.hh` | two-level linked list of events, service in order of tick and priority | EventOrder, EventQueue |
| barrier | `base/barrier.hh` | reusable barrier of the simulation threads | Barrier |
| parallel loop, global events | `sim/simulate.cc`, `sim/global_event.*`, `sim/sim_events.cc`, `sim/stat_control.cc` | one thread per queue, synchronised every quantum | ParallelSim |
| asynchronous requests | `sim/async.*`, `sim/init_signals.cc`, `python/swig/pyevent.cc` | flags from signal handlers to the loop | AsyncSignals |
| drain manager | `sim/drain.*`, `python/m5/simulate.py` | empties the system before a checkpoint | Drain |
| Ruby MI_example | `mem/protocol/MI_example-*.sm` and the parts of `mem/ruby/` it calls | caches, directories, memory nodes, DMA | MI_example |
| Garnet 2.0 | `mem/ruby/network/garnet2.0/`, `mem/ruby/network/MessageBuffer.cc` | the detailed network of Ruby | Garnet, VcChannel |
| classic memory, timing mode | `mem/{port,xbar,noncoherent_xbar,packet_queue,bridge,simple_mem}.cc`, `cpu/testers/memtest/` | ports with retries, crossbars, bridges, memories, a tester | TimingMem |
| out-of-order CPU | `cpu/o3/{rename,commit,rob}_impl.hh`, `rename_map.*`, `free_list.hh` | renaming of registers, squash and commit | RenameRegs, RenameCommit |
| event checkpointing | `sim/eventq.cc`, `sim/serialize.*` | saving and restoring events | section 8 |
| rest of Ruby | `mem/ruby/`, other `mem/protocol/*` | sequencers, larger protocols | section 8 |
| rest of classic memory | `mem/cache/`, `mem/coherent_xbar.cc`, `mem/dram_ctrl.cc` | caches, snooping, DRAM | section 8 |
| other CPUs, ISAs, devices, GPU, KVM | `cpu/`, `arch/`, `dev/`, `gpu-compute/` | the simulated hardware | section 8 |
| dist-gem5 | `dev/net/dist_*` | several processes in lock step | section 8 |
| configuration, bindings, base | `python/`, `base/`, `configs/` | set-up and utilities | section 8 |

They interact as follows. Components put events on their queue with `schedule()`. `simulate()` lets every thread service
its own queue. An event for another queue goes to that queue's *asynchronous* queue and is merged at the end of the
quantum, which is a global event: one barrier event on every queue, whose `process()` meets the other threads at two
barriers. Signal handlers only set flags; the loop turns them into global exit and statistics events. `drain()` in
`simulate.py` alternates `tryDrain()` with simulation until a pass finds nothing left to do, and only then is a
checkpoint written. A Ruby controller is a component whose wake-up event reads its message buffers and runs one
transition of its protocol per message; the messages between controllers travel through Garnet. Components of the classic
memory system call each other through ports instead; a port that answers FALSE owes its caller a retry. A stage of the
out-of-order CPU talks to the others through time buffers, which deliver a cycle later.

## 2. Modules and how they correspond to the code

**EventOrder** is the promise of an event queue: `order` is the sequence in which `serviceOne()` will take events,
`when` and `squashed` are fields of `Event` (declared with their order in **Events**), `curTick` is the queue's time. One action per call: `Schedule`,
`Deschedule`, `Reschedule`, `Squash`, `Service`; `Advance` is the time that `serviceEvents()` sets, `Renew` a destroyed
and newly constructed event. Events of equal tick and priority are taken last-in first-out.

**EventQueue** is the data structure: `list` has `head` and the link fields `nextBin` and `nextInBin` of every event,
stale values included. `insertBefore`, `insert`, `removeItem`, `remove` are the functions of the same names; a
`remove` that does not find its event is the code's panic. `ServiceBegin` and `ServiceEnd` are the two halves of
`serviceOne()` around `process()`; between them the handler makes any calls, on its own event too. `Delete` and
`Construct` reuse storage, and an AutoDelete event goes when it has been serviced and is not scheduled again.
`Abstract == INSTANCE EventOrder WITH order <- Contents(list)` is the refinement mapping, and `Contents` is the walk
of `debugVerify()`.

**Barrier** is `Barrier::wait()`: `ArriveLast` is the thread that finds `numLeft` at 1, `Arrive` one that blocks, `Wake` a
return from `bCond.wait()` whose predicate holds. The mutex makes the rest one step. `arrived`, `passed` and `leaders` are
history variables.

**ParallelSim** composes queues (as EventOrder sequences), asynchronous queues, barriers and the threads. `pc` is a thread's
place in `simulate()`, `thread_loop()`, `doSimLoop()`, `serviceOne()`, `schedule()` or `globalBarrier()`. Steps are cut where
another thread can see a difference: `schedule()` of an event for another queue is `Push` (asyncInsert) then `SetFlag` (the
Scheduled flag, set afterwards), and a global event takes `globalQMutex` (`Lock`), then pushes and flags queue by queue.
`Arrive1`, `Process`, `Arrive2`, `Done` are the process() of a barrier event; `Done` of the quantum event merges the
asynchronous queue. Thread 0 is the Python thread, `simulate(n)` and `Leave` are what it does around the loop.
Queue contents, not pointers, are modelled, which EventQueue justifies.

**AsyncSignals** has the five kinds of requests, the handlers' stores one by one in their order (`Stores`), and the
loop's test, use and clearing of the flags, each a step of its own. A handler interrupts one thread; the other threads go on between its stores.
`owed` is history: a request is owed from its store until the loop acts on it. Clearing a flag does not pay for it.

**Drain** has the manager (`state`, `count`), the drain state of each object, the objects' unfinished work (`busy`), and the script
of `simulate.py` (`pc`). `tryDrain`, `dmDrain`, `resume`, `dmDrainResume`, `preCheckpointRestore` carry the code's names.
`FinishWork` is an object's `signalDrainDone()`. What objects do is external: they start work, hand work to each other,
also to one that is already Drained (the documented reason for repeated passes), and finish. `preCheckpointRestore` may
come at any time after a checkpoint: the process was killed and restored.

**MI_example** has the L1 caches (`entry`, `tbe`, `mandatoryQueue`), the directories (`dirEntry`, indexed by
`mapAddressToLocalIdx`, and `dirTBE`), the DMA controllers, memory and the message buffers. One action per transition or
group of transitions of one event; the trigger conditions are in `RequestEvent` and `MemoryEvent`. In this tree a home
directory that gets a request for an idle block forwards it to the *memory node* of the requestor (`MemNode`), which fetches the
block, answers the cache and acknowledges to the home (GUX). A message with no transition for the current state sets `fatal`,
as the generated code panics with "Invalid transition". Data are version numbers: 1 is the initial memory, a store adds 1,
0 is a cleared block, so a lost or stale write is visible as a wrong number. Requests to a directory travel in a set (a cache
has at most one per block on its way and different senders are unordered; a recycled request goes to the end). What directories send to a cache is
in one sequence, its `forwardToCache` buffer: only the head can be handled, and a head that stalls (`z_stall` in IS and IM) keeps the messages of all directories
and blocks behind it waiting. A message is put in at any place that keeps the order of one directory's messages, which is what the network
promises; a WB_ACK, sent with latency 1, may also overtake what its directory sent with `directory_latency`.

**Garnet** is the network as a set of consumers: every `wakeup()` of a network interface (`NIWakeup`), router (`RouterWakeup`), link
(`LinkWakeup`) and credit link (`CreditLinkWakeup`) is one action, enabled only if the wakeup is in `wake`, which is what
`Consumer::scheduleEvent` keeps. The wakeups of one cycle come in any order and `Tick` moves to the next cycle that has one.
Interfaces cut messages into flits and allocate virtual channels (`Placed`, `NextAlloc`), routers route by table, arbitrate at input and output
ports and exchange credits. `toNet` and `delivered` are the MessageBuffers at the two ends.

**VcChannel** is what one virtual channel of one link promises: one packet at a time, a credit for every flit, IDLE_ again when the
tail's credit is back. `Channel(l, vc)` in Garnet is its instance, whose state counts the flits and credits found at each place.

**TimingMem** is a memory system in timing mode. An action is one event with everything it calls: calls through ports nest (a release event sends a retry
up through crossbars to a tester, which sends its packet down the same path), so the handlers are operators on the system
state `st`, of the code's names (`tryTiming`, `retryWaiting`, `recvRetry`, `schedSendTiming`, `trySendReq`, `dequeue`, ...), and those
that answer return `[s, ok]`. `Links`, `Upper` and `Lower` say which ports are bound. Assertions of the code are collected in `failed`. Time is
exact, counted from now: if time is abstracted, a crossbar layer may be taken for ever by others just as it is released, which the occupation
times in the code rule out.

**RenameRegs** is the register bookkeeping alone: `renameMap`, `freeList`, `historyBuffer`, and the three routines that change them, called
in any order for any instruction. **RenameCommit** is the pipeline around it: `FullO3CPU::tick` runs rename, then commit; `toIEW`/`fromRename` and `commitInfo`/`fromCommit` are
the two time buffers with their default delay of one cycle. Rename squashes or renames thread by thread (`checkSignalsAndUpdate`, `renameSrcRegs`,
`renameDestReg`, `sendToIEW`), then drops the history of what was committed (`dropHistory`); commit starts squashes
(`squashAll`, `squashFromIEW`), takes in instructions (`getInsts`) and retires them (`commitHead`, `trapHead`,
`retireSquashed`).

MC modules give the constants that are functions; the other runs need only a `.cfg`. Operators whose comment begins with "mutant", or that
stand before an operator whose name they extend, are plausible bugs used to see that a property can fail; no specification uses them.

## 3. What the runs check

| run | instance | result |
|---|---|---|
| event_queue | 3 events, 1 AutoDelete, ticks 0..1 | 132,792 states; the list holds exactly the scheduled live events in order, implements EventOrder |
| barrier | 4 threads, 5 rounds, counter of 2 values | 346 states; none early, one leader per round, every wait returns |
| parallel_sim | 2 queues, quantum 2, 2 simulate() calls, local, exit and statistics events | 209,386 states; no event in the past, threads within one quantum, process() runs alone |
| total_order | 2 queues, 2 exit events, 1 call | 75,452 states; all threads reach global events in one order, simulate() returns |
| async_signals | 1 thread, 3 requests | 3,603 states; every exit, I/O and exception request is acted on |
| drain | 3 objects, 6 pieces of work | 1,836 states; count exact, drained is idle, no stale exit event, every drain completes |
| mi_example | 2 blocks of one home, 2 caches, 2 directories, 1 DMA on one of the blocks, 4 requests or replacements | 371,938 states; one writer, current data, idle block in memory, owner known, missing transitions only with DMA, DMA reads the latest data, everything is served |
| garnet | 3 interfaces, 2 routers, 2 virtual networks of 2 channels, 2 traffic patterns | 96,630 states; delivered once, in order on the ordered network, packets do not mix, asleep only when empty, always falls asleep, every channel is a VcChannel |
| timing_mem | 2 testers, 2 crossbars, 1 bridge with 1+2 places, 2 memories, 2 workloads of 2+2 and 2+1 requests | 460,020 states; reads as expected, no assertion fails, retries owed exactly where something was refused, no response passes a refused one, room for every response, no time-out |
| rename | 2 threads, 3 registers each, 8 physical, 3 instructions | 720,255 states; every register in one place, none freed twice, operands live, committed state safe, exact roll-back |

Two runs are expected to be violated; each is a disagreement between the code and its own comments (section 7):
stat_total_order, mi_owner.

### Bounds and why they are enough

* Events and ticks: a removal or insertion in the list concerns a bin, its neighbours and its inner links. Three events on two ticks,
  two of them of one priority, give a bin of two with a bin before or after it, in the same tick or another. With all three of one
  priority (bins of three, an event in the middle of one) event_queue was checked once: 286,568 states, the same result.
  EventOrder is proved for any number (section 5).
* Barrier: a generation counter of two values is the hardest case, a thread that sleeps through two rounds would
  be lost. That it cannot is the point; the theorem covers any width.
* ParallelSim: two threads make every pairwise race; a quantum of 2 leaves a tick inside it; `Cycles` is chosen so that the limit falls
  inside a quantum (3) or on its end (4), the two sides of the tie between the limit and the quantum event. `MaxCalls` 2 leaves
  events of one simulate() for the next. `MinDelay` 0 lets a handler schedule for the current tick; the liveness run
  uses 1, because a component that reschedules itself for ever at one tick stops time in gem5 too.
* AsyncSignals: three requests overlap in all ways at the places where flags are read, cleared and acted on. One thread is gem5's default; with two
  the property fails, and so it does with one for requests about statistics (section 7).
* Drain: three objects are a signalling one, a disturbed one and a bystander; six pieces of work allow two disturbed cycles.
* MI_example: one cache is served by its home and the other by another node, so both ways of fetching
  meet. Four requests allow a fetch, an eviction, a fetch by the other and a DMA access to be under way together, or a forward for one block
  to stall ahead of one for the other. Blocks interact in two ways: in the forward buffers, which is why there are two, and by sharing a table index, which is
  the subject of mi_owner. They have one home; what two homes do is in section 7. The device on both blocks (818,009 states), one block with six requests (1,176,835 states), three caches with four
  (174,767 states), and two blocks of one home with four more requests once both are owned (2,996,473 states, EverythingServed) were also checked once.
* Garnet: the ordered virtual network has one buffer and the other two per channel, so a packet of two flits both fits and does not. Two
  parallel links between the routers make output ports equivalent for a packet, two sources compete for them, and one
  message goes to two destinations when channels are short. Routers of one stage and links of latency 1 are the defaults of the code. `MaxCycle` 40 is
  far above what the traffic needs; FallsAsleep would fail if it were not.
* TimingMem: with a small bridge and memories that are busy for longer than a tester's interval, layers are found busy or
  waiting for their peer, memories are busy and responses are refused. With one place for requests and two for responses the request queue of the bridge fills while there is
  response space, and the response space while the request queue is empty. `Workloads` says from which addresses each request of a tester is chosen. In `MCFarLoad` three requests
  may be for the far memory, which the response space needs to be full on its own; in `MCNearLoad` two testers ask the near memory after other traffic, so that it holds a second response
  while the first is refused. Two requests of both testers to any address (3,589,669 states) and three and one (1,665,095 states) were checked once, with the same result. A random latency
  of one cycle lets responses pass each other. `ProgressCheck` is 40; ResponsesKeepComing still holds with 14 and fails with 13, so a wait that is not bounded by the
  traffic would be seen. A tester's time-out runs only while a response is due, since one that has no more requests to send
  (`Workloads`) is an artefact of the bound.
* RenameCommit: two spare registers run out after one instruction with two results. Three instructions are a committing one, a squashing one and one that is
  squashed on its way, of the same or another thread. The proofs of section 5 have no bound.

`CHECK_DEADLOCK FALSE` is set where the bounds let the system stop: no more rounds, calls, signals or requests.

## 4. Fairness and liveness

* Barrier, ParallelSim: weak fairness of every thread, i.e. the host schedules its threads. Nothing is assumed about
  Python: it need not call simulate(). `SimulateReturns` says a simulate() that has begun returns.
* AsyncSignals: a handler that has begun runs to its end (`WF_vars(Store)`) and a thread inside the loop goes on. No request need come, and nobody need call
  simulate() again; `RequestsActedOn` therefore excuses a loop that was left.
* Drain: objects finish the work they have, the script goes on with a drain it has begun, and a "Finished drain" event is
  serviced. Nothing is assumed about new work but that it is finite (`MaxWork`); with endless disturbance a drain
  need not end, in the code either.
* MI_example: `WF_vars(System)`: some controller runs while one has something to do, since a message in a buffer schedules a
  wake-up. A recycled message, or one that stalls at the head of its buffer, is a disabled step, so the property does not depend on the order in
  which the controllers look at their buffers. `EverythingServed` is that the system comes to rest with no request pending, or has panicked. It is claimed for blocks
  of one home: a forward waits at its cache only for data that an earlier transaction of the home provides, so the waits follow the order of sending.
* Garnet, TimingMem: no fairness is needed, as time is in the state and stops for nobody. FallsAsleep and ResponsesKeepComing are bounded
  liveness, checked as invariants: the first says the network is quiet before a deadline, the second that the code's own time-out does not fire.

## 5. What is proved

TLAPS proves the following for all values of the constants, with no bound on events, threads, objects or ticks.

**EventOrderProofs** (assumes: priorities are integers, MaxTick is a natural number). `QueueCorrect`: always TypeOK, Sorted,
QueuedOnce and NoneInPast. `TimeNeverGoesBack`: every step satisfies TimeMonotone. The inductive invariant is the conjunction of the four;
none is inductive alone: a reschedule keeps the queue sorted only because the old entry was the only one (QueuedOnce), and
the head's tick is a safe new time only because the queue is sorted. Lemmas `InsertGood`, `DropGood` and `RestampGood` say
what putting in, taking out and re-stamping an entry does to a good queue; each action is one or two of these.

**BarrierProofs** (assumes: a finite non-empty set of threads, a counter of at least two values). `BarrierHolds`: NoneEarly.
`BarrierElects`: OneLeader. The invariant adds `Rounds` (no thread is more than one round ahead), `Generations`
(a waiting thread's `gen` equals `generation` exactly if its round is not over, which is why two values suffice) and `Counting`
(`numLeft` is the number of threads that have not arrived).

**DrainProofs** (assumes: a finite set of objects). `CounterCorrect`: CountExact. `DrainedSystemIdle`: DrainedIsIdle. `DrainSafe`: NoPanic and
NoStaleExit. The invariant has one predicate per place of the script (AtScript, AtRun, AtResume, AtCycle, AtTryDrain, AtDrainRun), since what
`count`, `finished` and the objects' states mean depends on it. While simulating in a drain, `count` is the number of objects that are Draining, and
exactly one exit event is on its way if and only if it is 0.

**VcChannelProofs** (assumes: the number of buffers is a natural number). `ChannelInvariant`: credits, flits and returning credits add up to the
buffers (CreditsConserved), an IDLE_ channel is empty end to end (IdleIsEmpty), an ACTIVE_ one is in use (ActiveIsInUse). `ChannelNeverOverruns` follows.
IdleIsEmpty needs the conservation of credits, and conservation alone does not say whose credit is the last. TLC connects the theorem to the network:
ChannelContract shows each channel of Garnet to be a VcChannel.

**RenameHistoryProofs** (the invariant, renames and commits), **RenameSquashProofs** (squashes), **RenameRegsProofs** (the theorem about the
registers) and **RenameProofs** (the pipeline; assume: the constructor gives every architectural register of every thread a physical register of its own; operands are
registers). `RegistersConserved`: EveryRegisterOnce and NeverFreedTwice of RenameRegs. `PipelineImplementsRegs`: RenameCommit implements RenameRegs, which is a step simulation with the identity
as refinement mapping. `PipelineConserves`: the two properties for the pipeline, with no bound on instructions, widths or threads. EveryRegisterOnce is
not inductive: what a squash puts back depends on how the entries of one architectural register hang together. The invariant adds `Chains`: the
entries of a register in order of age form a chain in which the previous register of each is the new register of the next older one, and the
youngest one's new register is what the map says. A commit cuts chains at the old end, a rename adds at the young end, a squash cuts there.

## 6. What is only model-checked

Liveness (EveryoneReturns, SimulateReturns, RequestsActedOn, DrainCompletes, EverythingServed) is outside the prover. The refinement
EventQueue ⇒ EventOrder, ParallelSim, AsyncSignals, MI_example, Garnet and TimingMem are checked on the instances above only, and
so are OperandsStayLive, ArchStateIsSafe and RollsBackExactly. `Contents` and
`Merge` are recursive functions and the port calls of TimingMem recursive operators, about which a proof would need induction
over data.

## 7. Disagreements

Where the code and its comments or assertions disagree. The first two are runs:

* **stat_total_order** (`sim/stat_control.cc:253`). A statistics event is put one quantum ahead "so as to ensure that this event happens only after
  the next sync". A thread that is late merging its asynchronous queue gets it before the quantum event of the same tick
  (priority 90 before 95), while the sender has the quantum event first: the threads wait at two different barriers.
* **mi_owner** (`mem/protocol/MI_example-dir.sm:404`). A directory that only fetches for another home runs `e_ownerIsRequestor` on the entry at the
  address's table index, which belongs to a block of its own, and so loses that block's owner.

The others were met while modelling, and are not runs:

* `sim/eventq_impl.hh:61`: the Scheduled flag is set after `asyncInsert()`. The receiver may already have merged and serviced the event, and the flag
  then stays set on an event that is on no queue, although `sim/eventq.hh` calls it "has been scheduled".
* `sim/init_signals.cc:129`: handlers set `async_event` before the request. With several threads, one of them can clear it between the two
  stores, and the request waits for some later signal; `sim/async.hh` says the flags are there "to avoid races". RequestsActedOn fails with `Thread` = {t1, t2}.
* `mem/protocol/MI_example-cache.sm:452`: a cache that waits for a block stalls Fwd_GETX and Inv for it at the head of `forwardToCache`, with all other forwards behind. Take two
  blocks a1 and a2 with different homes, owned by c2 and c1. Each cache asks for the other's block, and a device for both. Each home sends the old owner a forward and then the new owner an
  invalidation. If at each cache the invalidation, of one home, arrives before the forward, of the other, then c1 stalls on a1 ahead of the forward for a2, and c2 on
  a2 ahead of the forward for a1, for ever. The network orders only messages of one source. EverythingServed fails in this instance
  (`Home` = [a1 to d1, a2 to d2], `LocalIdx` different, four requests from the state in which the blocks are owned as said); in gem5 `Sequencer::wakeup()` panics with "Possible Deadlock detected"
  (`mem/ruby/system/Sequencer.cc:99`).
* `cpu/testers/memtest/memtest.cc:330`: `recvRetry()` does not move the time-out for requests, which `tick()` does "as we have successfully sent a packet". A tester
  all of whose packets are refused at first and sent by a retry runs into `noRequest()`. TimingMem leaves that time-out out.
* `cpu/o3/rename_map.cc:76`: `assert(prev_reg == zeroReg)` compares a physical register with an architectural index. Only the first thread's zero register is mapped to
  the physical register of that number (`cpu/o3/cpu.cc:297`), so another thread that writes its zero register stops there; `renameZero` has the assertion as its guard.

* An exit event left over from one simulate() on an asynchronous queue and the limit event of the next, which is put
  directly on the queues, can be met in different orders (TotalOrder with `MaxCalls` 2, `Cycles` {2}).
* A memory node whose number is 8 or 11 (`checkifMachineIsMemoryNode`) keeps a state for foreign blocks and never leaves IM; with
  `MemoryNodes` = {d2} EverythingServed fails. The default nodes are 12, 13 and 5.
* In M_DRD, M_DWR, M_DRDI and M_DWRI the directory has no transition on GETS, PUTX_NotOwner, PUTS and DMA requests.
  `InvalidOnlyForDma` states what remains true: a missing transition is only met at a directory serving a DMA request.
* A DMA write of part of a block is written at the line address and drops the dirty data of the PUTX it waited for.
* A request to dump or reset the statistics that is stored between `schedStatEvent()` and the clearing of its flag is cleared unserved (`sim/simulate.cc:197`), even
  with one thread: the other requests are cleared first and then acted on. RequestsActedOn fails when it is extended to statdump and statreset.

## 8. What is not modelled, and why

Within the modelled parts: in ParallelSim, repeating exit and statistics events, `deschedule()` of an event that is still on an
asynchronous queue and ScopedMigration (used by KVM); in MI_example, functional and locked accesses, partial DMA writes,
the latencies (other than the overtaking they allow) and the finite size of buffers; in Drain, objects constructed during a drain;
in Garnet, routing other than by table, functional writes, statistics, and clocks of different periods; in TimingMem, drains, atomic mode, requests without a response, express
snoops, infinite bandwidth and the search of queues by functional accesses (a tester never has two accesses to one byte under way); in RenameCommit, interrupts, the
blocking and serializing of rename (any number of instructions may be renamed in a cycle instead), the other stages, the scoreboard and threads
that come and go.
Hazards that no property covers say so in `PROJECT.json`. Further ones lie outside the models: a deschedule of an event that is still on an asynchronous queue panics
(`sim/eventq.cc:195`); two threads may both act on one exit request (`sim/simulate.cc:208`); `drain()` of one object may make an earlier one signal inside the same
`tryDrain()` (`sim/drain.cc:70`); a recycled request may find its directory busy each time it is looked at (`mem/protocol/MI_example-dir.sm:540`); a virtual network that is blocked
for ever blocks the later ones of its interface (`NetworkInterface.cc:165`).

Not modelled at all: instruction sets and most of the CPU pipelines (sequential semantics relative to an architecture, largely
generated); device register models; the SLICC compiler (its output is modelled); larger protocols; statistics arithmetic; configuration scripts; the base library; vendored code. gem5 has 470,000 lines, of
which these are by far the most: the models cover what has a concurrent or re-entrant protocol of its own and is used by every simulation of its kind.
`PROJECT.json` gives the reason for each part.

## 9. What would come next

1. The Ruby `Sequencer` and `DMASequencer` composed with MI_example, with partial DMA writes; `MessageBuffer` with its stall map.
2. Coherent crossbar and snoop filter on the layers of TimingMem; MSHR targets of the classic caches.
3. Event checkpointing as a composition of EventQueue and Drain; RubySystem's cache warm-up, which swaps the event queue's head.
4. dist-gem5 synchronisation, DRAM queues, DVFS transitions, the O3 load/store queue.
5. In ParallelSim: deschedule of asynchronous events, repeating events, ScopedMigration; inductive invariants for ParallelSim and MI_example.

## 10. How to run

In this directory: `tlc -workers 2 -config MCDrain.cfg Drain` (module and configuration of each run are in `PROJECT.json`), and
`tlapm DrainProofs.tla` for the proofs.
