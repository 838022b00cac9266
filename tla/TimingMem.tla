----------------------------- MODULE TimingMem -----------------------------
(***************************************************************************)
(* The classic memory system in timing mode: memory testers above non-     *)
(* coherent crossbars, bridges and simple memories, joined by ports        *)
(* (src/mem/port.cc, xbar.cc, noncoherent_xbar.cc, packet_queue.cc,        *)
(* bridge.cc, simple_mem.cc, src/cpu/testers/memtest/memtest.cc).          *)
(*                                                                         *)
(* A port offers a packet by a call that answers TRUE or FALSE.  Whoever   *)
(* answers FALSE owes the caller exactly one retry, and the caller may not *)
(* offer anything on that port before.  The calls nest: the event that     *)
(* frees a memory sends a retry up through the crossbars to a tester, which*)
(* offers its packet down the same path, all before the event returns.  An *)
(* action here is one event of the event queue with everything it calls,   *)
(* so the handlers are operators on the system state s; a handler that     *)
(* answers its caller returns the record [s, ok].                          *)
(*                                                                         *)
(* A link is a master port (its upper end) bound to a slave port (its      *)
(* lower end).  All components run on one clock, whose cycles are the      *)
(* ticks.  A tick in the state is counted from now; an event not scheduled *)
(* has the tick None.  Events of one tick happen in any order.             *)
(***************************************************************************)
EXTENDS Naturals, Sequences, FiniteSets, SequencesExt

CONSTANTS Testers, Xbars, Bridges, Memories,
          Links, Upper, Lower,  \* the component at each end of a link
          Addrs,                \* the block addresses a tester chooses from
          PortMap,              \* PortMap[x][a]: the link crossbar x takes to a
          ReqLimit, RespLimit,  \* a bridge's req_size and resp_size
          ForwardLatency,       \* a crossbar's frontend and forward latency
          ResponseLatency,      \* a crossbar's response latency
          Delay,                \* a bridge's delay
          Latency, LatencyVar,  \* a memory's latency and its random part
          Duration,             \* the time a memory's bandwidth takes for a byte
          Interval,             \* between two requests of a tester
          ProgressCheck,        \* a tester's time-out
          Data, Initial,        \* the bytes written, and the one in memory
          Workloads,            \* bound: the addresses each request may choose from
          None

\* A tester always finds an address that is not outstanding; no latency is
\* negative, and a memory of finite bandwidth is busy for some time.
ASSUME TimingParameters ==
    /\ \A w \in Workloads, t \in Testers :
          /\ w[t] # <<>>
          /\ \A i \in DOMAIN w[t] : \/ Cardinality(w[t][i]) >= i
                                    \/ \E a \in w[t][i] : \A j \in 1..(i - 1) : a \notin w[t][j]
    /\ {ForwardLatency, ResponseLatency, Delay, Latency, LatencyVar} \subseteq Nat
    /\ {Duration, Interval, ProgressCheck, ReqLimit, RespLimit} \subseteq Nat \ {0}

VARIABLE st

(***************************************************************************)
(* A crossbar has one request layer for each link below it, whose sources  *)
(* are the links above, and one response layer for each link above it.     *)
(***************************************************************************)
ReqLayers == {<<"req", l>> : l \in {k \in Links : Upper[k] \in Xbars}}

RespLayers == {<<"resp", l>> : l \in {k \in Links : Lower[k] \in Xbars}}

LayerKeys == ReqLayers \cup RespLayers

QueuedLinks == {l \in Links : Lower[l] \in Xbars}

UpLink(c) == CHOOSE l \in Links : Lower[l] = c

DownLink(c) == CHOOSE l \in Links : Upper[l] = c

(***************************************************************************)
(* A packet is named by the tester and the address: a tester has at most   *)
(* one request for an address outstanding, and no two testers share a byte.*)
(***************************************************************************)
Id(pkt) == <<pkt.src, pkt.addr>>

Ids == Testers \X Addrs

Init == \E w \in Workloads : st =
    [layer  |-> [k \in LayerKeys |-> [state |-> "IDLE", waitingForLayer |-> <<>>,
                                      waitingForPeer |-> None, releaseEvent |-> None]],
     routeTo |-> [x \in Xbars |-> [i \in Ids |-> None]],
     queue  |-> [l \in QueuedLinks |-> [list |-> <<>>, waitingOnRetry |-> FALSE,
                                        sendEvent |-> None]],
     bridge |-> [b \in Bridges |-> [reqs |-> <<>>, reqEvent |-> None, resps |-> <<>>,
                                    respEvent |-> None, outstandingResponses |-> 0,
                                    retryReq |-> FALSE]],
     mem    |-> [m \in Memories |-> [store |-> [i \in Ids |-> Initial], releaseEvent |-> None,
                                     retryReq |-> FALSE, retryResp |-> FALSE, list |-> <<>>,
                                     dequeueEvent |-> None]],
     tester |-> [t \in Testers |-> [outstanding |-> {}, retryPkt |-> None, tickEvent |-> 0,
                                    reference |-> [a \in Addrs |-> Initial], load |-> w[t],
                                    noResponse |-> ProgressCheck]],
     extra  |-> 0,        \* the random part of the next latency
     wrong  |-> {},       \* bytes for which a tester read something else
     failed |-> {}]       \* the assertions that did not hold

Require(s, name, holds) == IF holds THEN s ELSE [s EXCEPT !.failed = @ \cup {name}]

Answer(s, ok) == [s |-> s, ok |-> ok]

RECURSIVE RecvTimingReq(_, _, _), RecvTimingResp(_, _, _),
          RecvReqRetry(_, _), RecvRespRetry(_, _)

-----------------------------------------------------------------------------
(***************************************************************************)
(* BaseXBar::Layer.                                                        *)
(***************************************************************************)
occupyLayer(s, k, until) ==
    [Require(s, "occupyLayer", s.layer[k].state = "BUSY" /\ s.layer[k].releaseEvent = None)
        EXCEPT !.layer[k].releaseEvent = until]

tryTiming(s, k, src) ==
    LET y == s.layer[k]
    IN  IF y.state = "BUSY" \/ y.waitingForPeer # None
        THEN Answer([Require(s, "tryTiming", ~Contains(y.waitingForLayer, src))
                        EXCEPT !.layer[k].waitingForLayer = Append(@, src)], FALSE)
        ELSE Answer([s EXCEPT !.layer[k].state = "BUSY"], TRUE)

failedTiming(s, k, src) ==
    occupyLayer([Require(s, "failedTiming", s.layer[k].waitingForPeer = None)
                    EXCEPT !.layer[k].waitingForPeer = src], k, 1)

sendRetry(s, k, src) ==
    IF k[1] = "req" THEN RecvReqRetry(s, src) ELSE RecvRespRetry(s, src)

retryWaiting(s, k) ==
    LET y     == s.layer[k]
        asked == sendRetry([Require(s, "retryWaiting", y.state = "IDLE")
                               EXCEPT !.layer[k].state = "RETRY",
                                      !.layer[k].waitingForLayer = Tail(@)],
                           k, Head(y.waitingForLayer))
    IN  IF asked.layer[k].state = "RETRY"
        THEN occupyLayer([asked EXCEPT !.layer[k].state = "BUSY"], k, 0)
        ELSE asked

releaseLayer(s, k) ==
    LET y    == s.layer[k]
        idle == [Require(s, "releaseLayer", y.state = "BUSY")
                    EXCEPT !.layer[k].state = "IDLE", !.layer[k].releaseEvent = None]
    IN  IF y.waitingForLayer # <<>> /\ y.waitingForPeer = None
        THEN retryWaiting(idle, k)
        ELSE idle

\* Mutant: the retry is passed on although the layer is still busy.
recvRetryAtOnce(s, k) ==
    LET y == s.layer[k]
    IN  retryWaiting([s EXCEPT !.layer[k].waitingForLayer = <<y.waitingForPeer>> \o @,
                               !.layer[k].waitingForPeer = None], k)

recvRetry(s, k) ==
    LET y == s.layer[k]
        z == [Require(s, "recvRetry", y.waitingForPeer # None)
                 EXCEPT !.layer[k].waitingForLayer = <<y.waitingForPeer>> \o @,
                        !.layer[k].waitingForPeer = None]
    IN  IF y.state = "IDLE" THEN retryWaiting(z, k)
        ELSE Require(z, "recvRetry", y.state = "BUSY")

-----------------------------------------------------------------------------
(***************************************************************************)
(* A queue of deferred packets: a new one is put before those due later,   *)
(* but never before the front; where the order of one address is kept,     *)
(* never before a packet for the same address.                             *)
(***************************************************************************)
Deferred(tick, pkt) == [tick |-> tick, pkt |-> pkt]

Emplace(list, tick, pkt, ordered) ==
    LET later == {i \in DOMAIN list : /\ tick < list[i].tick
                                      /\ ~(ordered /\ Id(list[i].pkt) = Id(pkt))}
    IN  IF list = <<>> THEN <<Deferred(tick, pkt)>>
        ELSE InsertAt(list, Max({1} \cup (DOMAIN list \ later)) + 1, Deferred(tick, pkt))

(***************************************************************************)
(* PacketQueue, behind every slave port of a crossbar.                     *)
(***************************************************************************)
schedSendEvent(s, l, when) ==
    LET y == s.queue[l]
    IN  IF y.waitingOnRetry THEN Require(s, "schedSendEvent", y.sendEvent = None)
        ELSE [s EXCEPT !.queue[l].sendEvent =
                  IF @ = None THEN Max({when, 1}) ELSE Min({@, Max({when, 1})})]

schedSendTiming(s, l, pkt, when) ==
    LET put == [s EXCEPT !.queue[l].list = Emplace(@, when, pkt, FALSE)]
    IN  IF s.queue[l].list = <<>> THEN schedSendEvent(put, l, when) ELSE put

sendDeferredPacket(s, l) ==
    LET dp   == Head(s.queue[l].list)
        sent == RecvTimingResp([Require(s, "deferredPacketReady", dp.tick = 0)
                                   EXCEPT !.queue[l].list = Tail(@)], l, dp.pkt)
        list == sent.s.queue[l].list
    IN  IF ~sent.ok
        THEN [sent.s EXCEPT !.queue[l].waitingOnRetry = TRUE,
                            !.queue[l].list = <<dp>> \o @]
        ELSE IF list = <<>> THEN sent.s
        ELSE schedSendEvent(sent.s, l, Head(list).tick)

processSendEvent(s, l) ==
    sendDeferredPacket([Require(s, "processSendEvent", ~s.queue[l].waitingOnRetry)
                           EXCEPT !.queue[l].sendEvent = None], l)

retry(s, l) ==
    sendDeferredPacket([Require(s, "retry", s.queue[l].waitingOnRetry)
                           EXCEPT !.queue[l].waitingOnRetry = FALSE], l)

-----------------------------------------------------------------------------
(***************************************************************************)
(* NoncoherentXBar.  A byte of payload takes one cycle.                    *)
(***************************************************************************)
hasData(pkt) == pkt.cmd \in {"WriteReq", "ReadResp"}

calcPacketTiming(pkt, header_delay) ==
    [pkt EXCEPT !.header = @ + header_delay,
                !.payload = IF hasData(pkt) THEN Max({@, 1}) ELSE @]

XBarRecvTimingReq(s, l, pkt) ==
    LET x     == Lower[l]
        down  == PortMap[x][pkt.addr]
        k     == <<"req", down>>
        timed == calcPacketTiming(pkt, ForwardLatency)
        tried == tryTiming(s, k, l)
        sent  == RecvTimingReq(tried.s, down, timed)
        noted == [Require(sent.s, "routeTo", sent.s.routeTo[x][Id(pkt)] = None)
                     EXCEPT !.routeTo[x][Id(pkt)] = l]
    IN  IF ~tried.ok THEN tried
        ELSE IF sent.ok THEN Answer(occupyLayer(noted, k, 1 + timed.payload), TRUE)
        ELSE Answer(failedTiming(sent.s, k, l), FALSE)

XBarRecvTimingResp(s, l, pkt) ==
    LET x     == Upper[l]
        up    == s.routeTo[x][Id(pkt)]
        k     == <<"resp", up>>
        timed == calcPacketTiming(pkt, ResponseLatency)
        tried == tryTiming(s, k, l)
        sent  == [schedSendTiming(tried.s, up, [timed EXCEPT !.header = 0], timed.header)
                     EXCEPT !.routeTo[x][Id(pkt)] = None]
    IN  IF tried.ok THEN Answer(occupyLayer(sent, k, 1 + timed.payload), TRUE) ELSE tried

-----------------------------------------------------------------------------
(***************************************************************************)
(* Bridge: requests and responses wait in two queues of their own.  Space  *)
(* for the response is reserved when the request is taken.                 *)
(***************************************************************************)
Received(pkt) == [pkt EXCEPT !.header = 0, !.payload = 0]

reqQueueFull(s, b) == Len(s.bridge[b].reqs) = ReqLimit

respQueueFull(s, b) == s.bridge[b].outstandingResponses = RespLimit

schedTimingReq(s, b, pkt, when) ==
    LET y == s.bridge[b]
    IN  [Require(s, "schedTimingReq", y.reqs = <<>> => y.reqEvent = None)
            EXCEPT !.bridge[b].reqEvent = IF y.reqs = <<>> THEN when ELSE @,
                   !.bridge[b].reqs = Append(@, Deferred(when, pkt))]

BridgeRecvTimingReq(s, l, pkt) ==
    LET b == Lower[l]
    IN  IF s.bridge[b].retryReq THEN Answer(s, FALSE)
        ELSE IF reqQueueFull(s, b) \/ respQueueFull(s, b)
        THEN Answer([s EXCEPT !.bridge[b].retryReq = TRUE], FALSE)
        ELSE Answer(schedTimingReq([s EXCEPT !.bridge[b].outstandingResponses = @ + 1],
                                   b, Received(pkt), Delay + pkt.header + pkt.payload), TRUE)

schedTimingResp(s, b, pkt, when) ==
    LET y == s.bridge[b]
    IN  [Require(s, "schedTimingResp", y.resps = <<>> => y.respEvent = None)
            EXCEPT !.bridge[b].respEvent = IF y.resps = <<>> THEN when ELSE @,
                   !.bridge[b].resps = Append(@, Deferred(when, pkt))]

BridgeRecvTimingResp(s, l, pkt) ==
    Answer(schedTimingResp(s, Upper[l], Received(pkt), Delay + pkt.header + pkt.payload), TRUE)

retryStalledReq(s, b) ==
    IF s.bridge[b].retryReq
    THEN RecvReqRetry([s EXCEPT !.bridge[b].retryReq = FALSE], UpLink(b))
    ELSE s

reqSent(s, b) ==
    LET rest == Tail(s.bridge[b].reqs)
    IN  [Require(s, "scheduleReq", rest # <<>> => s.bridge[b].reqEvent = None)
            EXCEPT !.bridge[b].reqs = rest,
                   !.bridge[b].reqEvent = IF rest = <<>> THEN @ ELSE Head(rest).tick]

trySendReq(s, b) ==
    LET req  == Head(s.bridge[b].reqs)
        sent == RecvTimingReq(Require(s, "trySendReq", req.tick = 0), DownLink(b), req.pkt)
    IN  IF sent.ok THEN retryStalledReq(reqSent(sent.s, b), b) ELSE sent.s

respSent(s, b) ==
    LET rest == Tail(s.bridge[b].resps)
    IN  [Require(Require(s, "outstandingResponses", s.bridge[b].outstandingResponses # 0),
                 "scheduleResp", rest # <<>> => s.bridge[b].respEvent = None)
            EXCEPT !.bridge[b].resps = rest,
                   !.bridge[b].outstandingResponses = @ - 1,
                   !.bridge[b].respEvent = IF rest = <<>> THEN @ ELSE Head(rest).tick]

retryIfRoom(s, b) == IF reqQueueFull(s, b) THEN s ELSE retryStalledReq(s, b)

\* Mutant: the space is given up although the response was refused.
trySendRespFreed(s, b) ==
    LET sent == RecvTimingResp(s, UpLink(b), Head(s.bridge[b].resps).pkt)
    IN  IF sent.ok THEN respSent(sent.s, b)
        ELSE [sent.s EXCEPT !.bridge[b].outstandingResponses = @ - 1]

\* Mutant: only the request side of the bridge sends retries.
trySendRespNoRetry(s, b) ==
    LET sent == RecvTimingResp(s, UpLink(b), Head(s.bridge[b].resps).pkt)
    IN  IF sent.ok THEN respSent(sent.s, b) ELSE sent.s

trySendResp(s, b) ==
    LET resp == Head(s.bridge[b].resps)
        sent == RecvTimingResp(Require(s, "trySendResp", resp.tick = 0), UpLink(b), resp.pkt)
    IN  IF sent.ok THEN retryIfRoom(respSent(sent.s, b), b) ELSE sent.s

-----------------------------------------------------------------------------
(***************************************************************************)
(* SimpleMemory, of finite bandwidth: it is busy for some time after every *)
(* request, until its release event.                                       *)
(***************************************************************************)
\* Mutant: a write is dropped while responses are queued.
accessWhenEmpty(s, m, pkt) ==
    IF pkt.cmd = "ReadReq" \/ s.mem[m].list # <<>> THEN s
    ELSE [s EXCEPT !.mem[m].store[Id(pkt)] = pkt.data]

access(s, m, pkt) ==
    IF pkt.cmd = "ReadReq" THEN s
    ELSE [s EXCEPT !.mem[m].store[Id(pkt)] = pkt.data]

makeResponse(s, m, pkt) ==
    IF pkt.cmd = "WriteReq" THEN [pkt EXCEPT !.cmd = "WriteResp"]
    ELSE [pkt EXCEPT !.cmd = "ReadResp", !.data = s.mem[m].store[Id(pkt)]]

MemRecvTimingReq(s, l, pkt) ==
    LET m    == Lower[l]
        y    == s.mem[m]
        list == Emplace(y.list, pkt.header + pkt.payload + Latency + s.extra,
                        Received(makeResponse(s, m, pkt)), TRUE)
    IN  IF y.retryReq THEN Answer(s, FALSE)
        ELSE IF y.releaseEvent # None THEN Answer([s EXCEPT !.mem[m].retryReq = TRUE], FALSE)
        ELSE Answer([access(s, m, pkt)
                        EXCEPT !.mem[m].releaseEvent = Duration,
                               !.mem[m].list = list,
                               !.mem[m].dequeueEvent =
                                   IF @ = None /\ ~y.retryResp THEN Last(list).tick ELSE @],
                    TRUE)

\* Mutant: the memory forgets the retry it owes.
releaseForgets(s, m) ==
    [s EXCEPT !.mem[m].releaseEvent = None, !.mem[m].retryReq = FALSE]

release(s, m) ==
    LET free == [s EXCEPT !.mem[m].releaseEvent = None, !.mem[m].retryReq = FALSE]
    IN  IF s.mem[m].retryReq THEN RecvReqRetry(free, UpLink(m)) ELSE free

\* Mutant: a refused response lets the others pass.
dequeueRotates(s, m) ==
    LET sent == RecvTimingResp(s, UpLink(m), Head(s.mem[m].list).pkt)
        rest == Tail(sent.s.mem[m].list)
    IN  IF sent.ok
        THEN [sent.s EXCEPT !.mem[m].retryResp = FALSE, !.mem[m].list = rest,
                            !.mem[m].dequeueEvent = IF rest = <<>> THEN @ ELSE Head(rest).tick]
        ELSE [sent.s EXCEPT !.mem[m].retryResp = TRUE,
                            !.mem[m].list = Append(rest, Head(@))]

dequeue(s, m) ==
    LET sent == RecvTimingResp(s, UpLink(m), Head(s.mem[m].list).pkt)
        rest == Tail(sent.s.mem[m].list)
    IN  IF sent.ok
        THEN [sent.s EXCEPT !.mem[m].retryResp = FALSE, !.mem[m].list = rest,
                            !.mem[m].dequeueEvent = IF rest = <<>> THEN @ ELSE Head(rest).tick]
        ELSE [sent.s EXCEPT !.mem[m].retryResp = TRUE]

-----------------------------------------------------------------------------
(***************************************************************************)
(* MemTest.  A tester stops ticking after its last request, and its        *)
(* time-out for requests (noRequestEvent) is left out.                     *)
(***************************************************************************)
completeRequest(s, t, pkt) ==
    LET done == [Require(s, "completeRequest", pkt.addr \in s.tester[t].outstanding)
                    EXCEPT !.tester[t].outstanding = @ \ {pkt.addr},
                           !.tester[t].noResponse = ProgressCheck]
    IN  IF pkt.cmd = "WriteResp"
        THEN [done EXCEPT !.tester[t].reference[pkt.addr] = pkt.data]
        ELSE IF pkt.data # s.tester[t].reference[pkt.addr]
        THEN [done EXCEPT !.wrong = @ \cup {Id(pkt)}]
        ELSE done

NextTick(s, t) ==
    [s EXCEPT !.tester[t].tickEvent = IF s.tester[t].load = <<>> THEN None ELSE Interval]

sendPkt(s, t, pkt) ==
    LET sent == RecvTimingReq(s, DownLink(t), pkt)
    IN  IF sent.ok THEN NextTick(sent.s, t)
        ELSE [sent.s EXCEPT !.tester[t].retryPkt = pkt]

TesterRecvRetry(s, t) ==
    LET sent == RecvTimingReq(s, DownLink(t), s.tester[t].retryPkt)
    IN  IF s.tester[t].retryPkt = None THEN Require(s, "recvRetry", FALSE)
        ELSE IF sent.ok THEN NextTick([sent.s EXCEPT !.tester[t].retryPkt = None], t)
        ELSE sent.s

-----------------------------------------------------------------------------
(***************************************************************************)
(* The two ends of a port: a call goes to whatever is bound to the link.   *)
(***************************************************************************)
RecvTimingReq(s, l, pkt) ==
    CASE Lower[l] \in Xbars    -> XBarRecvTimingReq(s, l, pkt)
      [] Lower[l] \in Bridges  -> BridgeRecvTimingReq(s, l, pkt)
      [] Lower[l] \in Memories -> MemRecvTimingReq(s, l, pkt)

RecvTimingResp(s, l, pkt) ==
    CASE Upper[l] \in Xbars   -> XBarRecvTimingResp(s, l, pkt)
      [] Upper[l] \in Bridges -> BridgeRecvTimingResp(s, l, pkt)
      [] Upper[l] \in Testers -> Answer(completeRequest(s, Upper[l], pkt), TRUE)

RecvReqRetry(s, l) ==
    CASE Upper[l] \in Xbars   -> recvRetry(s, <<"req", l>>)
      [] Upper[l] \in Bridges -> trySendReq(s, Upper[l])
      [] Upper[l] \in Testers -> TesterRecvRetry(s, Upper[l])

RecvRespRetry(s, l) ==
    CASE Lower[l] \in Xbars    -> retry(s, l)
      [] Lower[l] \in Bridges  -> trySendResp(s, Lower[l])
      [] Lower[l] \in Memories -> dequeue(Require(s, "recvRespRetry",
                                                  s.mem[Lower[l]].retryResp), Lower[l])

-----------------------------------------------------------------------------
(***************************************************************************)
(* The events.  tick() issues a request for an address that is not yet     *)
(* outstanding.  A functional access finds no packet for its byte on the   *)
(* way and goes straight to the memory.                                    *)
(***************************************************************************)
RECURSIVE Target(_, _)
Target(l, a) ==
    CASE Lower[l] \in Memories -> Lower[l]
      [] Lower[l] \in Bridges  -> Target(DownLink(Lower[l]), a)
      [] Lower[l] \in Xbars    -> Target(PortMap[Lower[l]][a], a)

sendFunctional(s, t, pkt) ==
    LET m == Target(DownLink(t), pkt.addr)
    IN  NextTick(completeRequest(access(s, m, pkt), t, makeResponse(s, m, pkt)), t)

Commands == [cmd : {"ReadReq"}, data : {Initial}] \cup [cmd : {"WriteReq"}, data : Data]

Due(s) ==
    {<<"layer", k>> : k \in {k \in LayerKeys : s.layer[k].releaseEvent = 0}}
    \cup {<<"queue", l>> : l \in {l \in QueuedLinks : s.queue[l].sendEvent = 0}}
    \cup {<<"reqs", b>> : b \in {b \in Bridges : s.bridge[b].reqEvent = 0}}
    \cup {<<"resps", b>> : b \in {b \in Bridges : s.bridge[b].respEvent = 0}}
    \cup {<<"release", m>> : m \in {m \in Memories : s.mem[m].releaseEvent = 0}}
    \cup {<<"dequeue", m>> : m \in {m \in Memories : s.mem[m].dequeueEvent = 0}}
    \cup {<<"tick", t>> : t \in {t \in Testers : s.tester[t].tickEvent = 0}}

Call(s, e) ==
    CASE e[1] = "layer"   -> releaseLayer(s, e[2])
      [] e[1] = "queue"   -> processSendEvent(s, e[2])
      [] e[1] = "reqs"    -> trySendReq([s EXCEPT !.bridge[e[2]].reqEvent = None], e[2])
      [] e[1] = "resps"   -> trySendResp([s EXCEPT !.bridge[e[2]].respEvent = None], e[2])
      [] e[1] = "release" -> release(s, e[2])
      [] e[1] = "dequeue" -> dequeue([s EXCEPT !.mem[e[2]].dequeueEvent = None], e[2])

Event ==
    \E e \in Due(st), x \in 0..LatencyVar :
        /\ e[1] # "tick"
        /\ st' = [Call([st EXCEPT !.extra = x], e) EXCEPT !.extra = 0]

tick(t, functional) ==
    /\ st.tester[t].tickEvent = 0
    /\ \E a \in Head(st.tester[t].load) \ st.tester[t].outstanding,
          c \in Commands, x \in 0..LatencyVar :
        \E s \in {[Require(st, "tick", st.tester[t].retryPkt = None)
                      EXCEPT !.tester[t].outstanding = @ \cup {a},
                             !.tester[t].tickEvent = None,
                             !.tester[t].load = Tail(@),
                             !.extra = x]},
           p \in {[src |-> t, addr |-> a, cmd |-> c.cmd, data |-> c.data,
                   header |-> 0, payload |-> 0]} :
            st' = [IF functional THEN sendFunctional(s, t, p) ELSE sendPkt(s, t, p)
                      EXCEPT !.extra = 0]

TimingTick(t) == tick(t, FALSE)

FunctionalTick(t) == tick(t, TRUE)

(***************************************************************************)
(* The clock advances when no event is due now.  A tester's time-out for   *)
(* responses runs while a response is due.                                 *)
(***************************************************************************)
Sooner(n) == IF n = None \/ n = 0 THEN n ELSE n - 1

Nearer(list) == [i \in DOMAIN list |-> [list[i] EXCEPT !.tick = Sooner(@)]]

Sending(y) == y.tickEvent # None \/ y.retryPkt # None

Advance ==
    /\ Due(st) = {}
    /\ \E t \in Testers : Sending(st.tester[t]) \/ st.tester[t].outstanding # {}
    /\ st' = [st EXCEPT
        !.layer  = [k \in LayerKeys |-> [@[k] EXCEPT !.releaseEvent = Sooner(@)]],
        !.queue  = [l \in QueuedLinks |-> [@[l] EXCEPT !.sendEvent = Sooner(@),
                                                       !.list = Nearer(@)]],
        !.bridge = [b \in Bridges |-> [@[b] EXCEPT !.reqEvent = Sooner(@), !.reqs = Nearer(@),
                                                   !.respEvent = Sooner(@),
                                                   !.resps = Nearer(@)]],
        !.mem    = [m \in Memories |-> [@[m] EXCEPT !.releaseEvent = Sooner(@),
                                                    !.dequeueEvent = Sooner(@),
                                                    !.list = Nearer(@)]],
        !.tester = [t \in Testers |->
                       LET y == @[t]
                       IN  [y EXCEPT !.tickEvent = Sooner(@),
                                     !.noResponse = IF y.outstanding = {} THEN @ ELSE Sooner(@)]]]

Next == Event \/ (\E t \in Testers : TimingTick(t) \/ FunctionalTick(t)) \/ Advance

-----------------------------------------------------------------------------
\* Every read returns the byte its tester last wrote, whatever path the
\* packets took: the panic of MemTest::completeRequest is never reached.
ReadsAreExpected == st.wrong = {}

\* None of the assertions of the layers, the queues, the bridges, the memories
\* and the testers fails; in particular no port offers a packet while it waits
\* for a retry, no packet leaves a queue early, and neither a layer nor a
\* bridge schedules an event that is still scheduled.
NoAssertFails == st.failed = {}

Waits(l, k) == Contains(st.layer[k].waitingForLayer, l) \/ st.layer[k].waitingForPeer = l

OwesRetry(l) == IF Lower[l] \in Bridges THEN st.bridge[Lower[l]].retryReq
                ELSE IF Lower[l] \in Memories THEN st.mem[Lower[l]].retryReq
                ELSE \E k \in ReqLayers : Waits(l, k)

Refused(l) == IF Upper[l] \in Testers THEN st.tester[Upper[l]].retryPkt # None
              ELSE IF Upper[l] \in Bridges
              THEN st.bridge[Upper[l]].reqs # <<>> /\ st.bridge[Upper[l]].reqEvent = None
              ELSE st.layer[<<"req", l>>].waitingForPeer # None

\* The two ends of every link agree whether a retry is due: a request port
\* holds a refused packet exactly if the component below it has noted that it
\* must send a retry.  A retry is neither lost nor sent to someone who has
\* nothing to send.
RetryIsOwed == \A l \in Links : Refused(l) <=> OwesRetry(l)

RespRefused(l) == IF Lower[l] \in Xbars THEN st.queue[l].waitingOnRetry
                  ELSE IF Lower[l] \in Memories THEN st.mem[Lower[l]].retryResp
                  ELSE st.bridge[Lower[l]].resps # <<>> /\ st.bridge[Lower[l]].respEvent = None

FirstResponse(l) == IF Lower[l] \in Xbars THEN Head(st.queue[l].list).pkt
                    ELSE IF Lower[l] \in Memories THEN Head(st.mem[Lower[l]].list).pkt
                    ELSE Head(st.bridge[Lower[l]].resps).pkt

\* A response that a crossbar refused is still at the front of its queue, and
\* its port waits in one layer only, the one the response is routed to: the
\* responses that came later have not been put before it.
RefusedStaysFirst ==
    \A l \in {l \in Links : Upper[l] \in Xbars} :
        {k[2] : k \in {k \in RespLayers : Waits(l, k)}}
            = IF RespRefused(l) THEN {st.routeTo[Upper[l]][Id(FirstResponse(l))]} ELSE {}

\* A bridge has reserved room for exactly the requests it has taken and not
\* yet answered, so every response finds room when it comes back.
SpaceIsReserved ==
    \A b \in Bridges :
        /\ st.bridge[b].outstandingResponses <= RespLimit
        /\ st.bridge[b].outstandingResponses
             = Cardinality({i \in Ids : \E x \in Xbars : st.routeTo[x][i] # None
                                            /\ PortMap[x][i[2]] = UpLink(b)})
        /\ Len(st.bridge[b].reqs) <= ReqLimit

\* MemTest::noResponse never fires: every tester that has requests outstanding
\* sees a response within the time-out, so no retry is lost and no port waits
\* for ever behind the others.
ResponsesKeepComing == \A t \in Testers : st.tester[t].noResponse # 0
=============================================================================
