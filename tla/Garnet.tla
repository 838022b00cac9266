------------------------------- MODULE Garnet -------------------------------
(***************************************************************************)
(* The Garnet 2.0 network (mem/ruby/network/garnet2.0): network interfaces, *)
(* routers and the links between them, from the MessageBuffer a controller  *)
(* sends to up to the MessageBuffer the destination reads from.             *)
(*                                                                          *)
(* The network is a set of consumers that are woken at clock edges: every   *)
(* wakeup() is one action, the wakeups of one cycle happen in any order,    *)
(* and a consumer nobody has scheduled does not run.  The wakeups that are  *)
(* scheduled are part of the state, so a wakeup the code forgets leaves     *)
(* flits where they are.                                                    *)
(*                                                                          *)
(* A link carries flits from src to dst and has a credit link in the other  *)
(* direction; both are named by the number of the link, which also orders   *)
(* the ports of a router.  A message is a record; its flits differ in their *)
(* position only.  All clocks have the same period.                         *)
(***************************************************************************)
EXTENDS Integers, Sequences, FiniteSets, FiniteSetsExt, SequencesExt

CONSTANTS NIs,          \* network interfaces, numbered
          Routers,      \* routers
          Links,        \* the links, numbered
          Src, Dst,     \* [Links -> NIs \cup Routers]
          RoutingTable, \* [Links -> SUBSET NIs] NIs a link of a router leads to
          Weight,       \* [Links -> Nat] m_weight_table
          Vnets,        \* 0 .. number of virtual networks - 1
          Ordered,      \* the virtual networks with pt-to-pt ordering
          VcPerVnet,    \* m_vc_per_vnet
          MaxCredit,    \* [Vnets -> Nat] buffers of a virtual channel
          PipeStages,   \* latency of a router in cycles
          LinkLatency,  \* latency of a link in cycles
          Scripts,      \* set of [NIs -> Seq(message)]: what controllers send
          MaxCycle      \* bound on the clock

ASSUME GarnetParameters ==
    /\ Src \in [Links -> NIs \cup Routers]
    /\ Dst \in [Links -> NIs \cup Routers]
    /\ Ordered \subseteq Vnets
    /\ VcPerVnet \in Nat \ {0}
    /\ MaxCredit \in [Vnets -> Nat \ {0}]
    /\ PipeStages \in Nat \ {0}
    /\ LinkLatency \in Nat \ {0}

VARIABLES
    now,        \* the current cycle
    wake,       \* pairs <<consumer, cycle>>: the wakeups that are scheduled
    script,     \* the messages the controllers send in this run
    sent,       \* [NIs -> number of messages of its script enqueued]
    toNet,      \* [NIs -> [Vnets -> Seq of messages waiting]] inNode_ptr
    delivered,  \* [NIs -> Seq of messages] enqueued into outNode_ptr
    niVc,       \* [NIs -> [Vcs -> set of flits]] m_ni_out_vcs
    niTime,     \* [NIs -> [Vcs -> cycle]] m_ni_out_vcs_enqueue_time
    vcAlloc,    \* [NIs -> [Vnets -> offset]] m_vc_allocator
    niRR,       \* [NIs -> Vcs] m_vc_round_robin
    outVc,      \* [Links -> [Vcs -> [state, credit]]] OutVcState upstream
    inVc,       \* [Links -> [Vcs -> virtual channel]] VirtualChannel downstream
    rrInvc,     \* [Links -> Vcs] m_round_robin_invc of the input port
    rrInport,   \* [Links -> position] m_round_robin_inport of the output port
    srcQ,       \* [Links -> set of flits] the queue a link takes from
    linkQ,      \* [Links -> set of flits] linkBuffer
    credSrcQ,   \* [Links -> set of credits] creditQueue, outCreditQueue
    credLinkQ   \* [Links -> set of credits] linkBuffer of the credit link

clockVars == <<now, wake>>
niVars == <<toNet, delivered, niVc, niTime, vcAlloc, niRR>>
routerVars == <<inVc, rrInvc, rrInport>>
linkVars == <<srcQ, linkQ, credSrcQ, credLinkQ>>
vars == <<clockVars, script, sent, niVars, routerVars, outVc, linkVars>>

NumVcs == Cardinality(Vnets) * VcPerVnet
Vcs == 0 .. NumVcs - 1
VnetOf(vc) == vc \div VcPerVnet
VcsOf(vnet) == {vc \in Vcs : VnetOf(vc) = vnet}
INFINITE_ == MaxCycle + 1
NoVc == -1

OutLink == [n \in NIs |-> CHOOSE l \in Links : Src[l] = n]
InLink == [n \in NIs |-> CHOOSE l \in Links : Dst[l] = n]
InPorts == [r \in Routers |-> {l \in Links : Dst[l] = r}]
OutPorts == [r \in Routers |-> {l \in Links : Src[l] = r}]

NI(n) == <<"NI", n>>
Router(r) == <<"Router", r>>
Link(l) == <<"NetworkLink", l>>
CreditLink(l) == <<"CreditLink", l>>
ConsumerAt(x) == IF x \in NIs THEN NI(x) ELSE Router(x)

IdleVc == [state |-> "IDLE_", port |-> NoVc, outvc |-> NoVc,
           enq |-> INFINITE_, buf |-> {}]

Init ==
    /\ now = 0
    /\ wake = {}
    /\ script \in Scripts
    /\ sent = [n \in NIs |-> 0]
    /\ toNet = [n \in NIs |-> [v \in Vnets |-> <<>>]]
    /\ delivered = [n \in NIs |-> <<>>]
    /\ niVc = [n \in NIs |-> [vc \in Vcs |-> {}]]
    /\ niTime = [n \in NIs |-> [vc \in Vcs |-> INFINITE_]]
    /\ vcAlloc = [n \in NIs |-> [v \in Vnets |-> 0]]
    /\ niRR = [n \in NIs |-> 0]
    /\ outVc = [l \in Links |->
                  [vc \in Vcs |-> [state |-> "IDLE_",
                                   credit |-> MaxCredit[VnetOf(vc)]]]]
    /\ inVc = [l \in Links |-> [vc \in Vcs |-> IdleVc]]
    /\ rrInvc = [l \in Links |-> 0]
    /\ rrInport = [l \in Links |-> 0]
    /\ srcQ = [l \in Links |-> {}]
    /\ linkQ = [l \in Links |-> {}]
    /\ credSrcQ = [l \in Links |-> {}]
    /\ credLinkQ = [l \in Links |-> {}]

-----------------------------------------------------------------------------
(* Flits and flit buffers. *)

IsHead(f) == f.id = 0
IsTail(f) == f.id = f.msg.size - 1

(* A flitBuffer is a heap: its top has the smallest time, then the smallest *)
(* position in its packet.                                                  *)
Top(b) == CHOOSE f \in b : \A g \in b :
              f.time < g.time \/ (f.time = g.time /\ f.id <= g.id)

(* Mutant: a flit is ready only after its time. *)
isReadyLate(b, time) == b # {} /\ Top(b).time < time

isReady(b, time) == b # {} /\ Top(b).time <= time

(* The first member of S at or after first, in cyclic order modulo n: what  *)
(* the round robin loops stop at.                                           *)
CyclicFirst(S, first, n) ==
    CHOOSE x \in S : \A y \in S : (x - first) % n <= (y - first) % n

-----------------------------------------------------------------------------
(* The controllers.  Enqueueing a message schedules the network interface.  *)

Enqueue(n) ==
    /\ sent[n] < Len(script[n])
    /\ LET msg == script[n][sent[n] + 1]
       IN  /\ toNet' = [toNet EXCEPT ![n][msg.vnet] =
                          Append(@, [msg |-> msg, dests |-> msg.dests,
                                     time |-> now + 1])]
           /\ wake' = wake \cup {<<NI(n), now + 1>>}
    /\ sent' = [sent EXCEPT ![n] = @ + 1]
    /\ UNCHANGED <<now, script, delivered, niVc, niTime, vcAlloc, niRR,
                   routerVars, outVc, linkVars>>

-----------------------------------------------------------------------------
(* The network interface. *)

MessageReady(n, vnet) ==
    toNet[n][vnet] # <<>> /\ Head(toNet[n][vnet]).time <= now

(* The idle channels of a virtual network, and the place calculateVC finds  *)
(* each of them at when it starts from m_vc_allocator.                      *)
IdleVcs(n, vnet) == {vc \in VcsOf(vnet) : outVc[OutLink[n]][vc].state = "IDLE_"}
Offset(n, vc) == (vc - vcAlloc[n][VnetOf(vc)]) % VcPerVnet

AllPlaced(n, vnet) ==
    Cardinality(Head(toNet[n][vnet]).dests) <= Cardinality(IdleVcs(n, vnet))

(* The virtual networks wakeup picks up a message from: it stops at the     *)
(* first one whose message cannot be placed.                                *)
PickedUp(n) ==
    {v \in Vnets : /\ MessageReady(n, v)
                   /\ \A w \in Vnets : w < v /\ MessageReady(n, w)
                                         => AllPlaced(n, w)}

(* flitisizeMessage: one packet per destination, in the order of the        *)
(* destinations, as long as there are idle channels.                        *)
Placed(n, vnet) ==
    LET msg == Head(toNet[n][vnet])
        idle == IdleVcs(n, vnet)
    IN  {[msg |-> msg.msg, dest |-> p[1], vc |-> p[2]] :
            p \in {q \in msg.dests \X idle :
                     Cardinality({d \in msg.dests : d < q[1]})
                       = Cardinality({w \in idle : Offset(n, w) < Offset(n, q[2])})}}

Flits(packet) ==
    {[msg |-> packet.msg, dest |-> packet.dest, vc |-> packet.vc, id |-> i,
      time |-> now, sa |-> now] : i \in 0 .. packet.msg.size - 1}

(* The flits, the enqueue times and the channel states of an interface      *)
(* after the packets were placed.                                           *)
FlitsIn(n, packets, vc) ==
    niVc[n][vc] \cup UNION {Flits(p) : p \in {q \in packets : q.vc = vc}}

Taken(packets) == {p.vc : p \in packets}

EnqueueTime(n, packets, vc) == IF vc \in Taken(packets) THEN now ELSE niTime[n][vc]

(* Mutant: the order of the packets is left to the round robin. *)
MayLeaveAnyOrder(n, packets, vc) ==
    /\ isReady(FlitsIn(n, packets, vc), now)
    /\ outVc[OutLink[n]][vc].credit > 0

(* scheduleOutputLink: the channels that may send a flit, and the one that  *)
(* does.                                                                    *)
MayLeave(n, packets, vc) ==
    /\ isReady(FlitsIn(n, packets, vc), now)
    /\ outVc[OutLink[n]][vc].credit > 0
    /\ VnetOf(vc) \in Ordered =>
          ~ \E other \in VcsOf(VnetOf(vc)) :
               /\ isReady(FlitsIn(n, packets, other), now)
               /\ EnqueueTime(n, packets, other) < EnqueueTime(n, packets, vc)

Leaving(n, packets) ==
    LET able == {vc \in Vcs : MayLeave(n, packets, vc)}
    IN  IF able = {} THEN NoVc ELSE CyclicFirst(able, niRR[n] + 1, NumVcs)

(* m_vc_allocator moves past the last channel it handed out. *)
NextAlloc(n, packets, vnet) ==
    LET mine == {vc \in Taken(packets) : VnetOf(vc) = vnet}
        last == CHOOSE vc \in mine : \A w \in mine : Offset(n, w) <= Offset(n, vc)
    IN  IF mine = {} THEN vcAlloc[n][vnet] ELSE (last + 1) % VcPerVnet

(* Mutant: the destinations already placed stay in the message. *)
RemainingUntouched(n, packets, vnet) ==
    IF vnet \in PickedUp(n) /\ AllPlaced(n, vnet) THEN Tail(toNet[n][vnet])
    ELSE toNet[n][vnet]

(* What is left of a message buffer: the message is dequeued once all its   *)
(* destinations have been placed.                                           *)
Remaining(n, packets, vnet) ==
    LET waiting == toNet[n][vnet]
    IN  IF vnet \notin PickedUp(n) THEN waiting
        ELSE IF AllPlaced(n, vnet) THEN Tail(waiting)
        ELSE [waiting EXCEPT ![1].dests =
                @ \ {p.dest : p \in {q \in packets : VnetOf(q.vc) = vnet}}]

Credit(vc, free, time) == [id |-> 0, vc |-> vc, free |-> free, time |-> time]

(* Mutant: every credit frees the channel. *)
TakeCreditAlwaysFree(vcs, c) ==
    [vcs EXCEPT ![c.vc] = [state |-> "IDLE_", credit |-> @.credit + 1]]

(* Mutant: the free signal does not count as a credit. *)
TakeCreditOrFree(vcs, c) ==
    [vcs EXCEPT ![c.vc] = IF c.free THEN [@ EXCEPT !.state = "IDLE_"]
                          ELSE [@ EXCEPT !.credit = @ + 1]]

(* An OutVcState takes a credit. *)
TakeCredit(vcs, c) ==
    [vcs EXCEPT ![c.vc] = [state |-> IF c.free THEN "IDLE_" ELSE @.state,
                           credit |-> @.credit + 1]]

(* Mutant: only waiting messages bring the interface back. *)
MoreToSendMessages(waiting, vcs) ==
    \E v \in Vnets : waiting[v] # <<>> /\ waiting[v][1].time <= now

(* checkReschedule: is there a message or a flit left for the next cycle? *)
MoreToSend(waiting, vcs) ==
    \/ \E v \in Vnets : waiting[v] # <<>> /\ waiting[v][1].time <= now
    \/ \E vc \in Vcs : isReady(vcs[vc], now + 1)

(* NetworkInterface::wakeup. *)
Packets(n) == UNION {Placed(n, v) : v \in PickedUp(n)}

NIWakeup(n) ==
  \E packets \in {Packets(n)} : \E leaving \in {Leaving(n, packets)} :
    LET out == OutLink[n]
        in == InLink[n]
        sends == leaving # NoVc
        flit == Top(FlitsIn(n, packets, leaving))
        after == [vc \in Vcs |-> FlitsIn(n, packets, vc)
                                   \ (IF vc = leaving THEN {flit} ELSE {})]
        debited == [vc \in Vcs |->
                      [state |-> IF vc \in Taken(packets) THEN "ACTIVE_"
                                 ELSE outVc[out][vc].state,
                       credit |-> outVc[out][vc].credit
                                    - (IF vc = leaving THEN 1 ELSE 0)]]
        waiting == [v \in Vnets |-> Remaining(n, packets, v)]
        arrives == isReady(linkQ[in], now)
        arrived == Top(linkQ[in])
        credited == isReady(credLinkQ[out], now)
        credit == Top(credLinkQ[out])
    IN  /\ toNet' = [toNet EXCEPT ![n] = waiting]
        /\ vcAlloc' = [vcAlloc EXCEPT ![n] =
                         [v \in Vnets |-> NextAlloc(n, packets, v)]]
        /\ niVc' = [niVc EXCEPT ![n] = after]
        /\ niTime' = [niTime EXCEPT ![n] =
                        [vc \in Vcs |->
                           IF vc = leaving /\ IsTail(flit) THEN INFINITE_
                           ELSE EnqueueTime(n, packets, vc)]]
        /\ niRR' = [niRR EXCEPT ![n] = (@ + 1) % NumVcs]
        /\ outVc' = [outVc EXCEPT ![out] =
                       IF credited THEN TakeCredit(debited, credit) ELSE debited]
        /\ srcQ' = IF sends
                   THEN [srcQ EXCEPT ![out] = @ \cup {[flit EXCEPT !.time = now + 1]}]
                   ELSE srcQ
        /\ linkQ' = IF arrives THEN [linkQ EXCEPT ![in] = @ \ {arrived}] ELSE linkQ
        /\ delivered' = IF arrives /\ IsTail(arrived)
                        THEN [delivered EXCEPT ![n] = Append(@, arrived.msg)]
                        ELSE delivered
        /\ credSrcQ' = IF arrives
                       THEN [credSrcQ EXCEPT ![in] =
                               @ \cup {Credit(arrived.vc, IsTail(arrived), now)}]
                       ELSE credSrcQ
        /\ credLinkQ' = IF credited
                        THEN [credLinkQ EXCEPT ![out] = @ \ {credit}]
                        ELSE credLinkQ
        /\ wake' = (wake \ {<<NI(n), now>>})
                     \cup (IF sends THEN {<<Link(out), now + 1>>} ELSE {})
                     \cup (IF MoreToSend(waiting, after)
                           THEN {<<NI(n), now + 1>>} ELSE {})
                     \cup (IF arrives THEN {<<CreditLink(in), now + 1>>} ELSE {})
        /\ UNCHANGED <<now, script, sent, routerVars>>

-----------------------------------------------------------------------------
(* The links. *)

(* NetworkLink::wakeup: one flit from the source queue to the link buffer. *)
LinkWakeup(l) ==
    LET ready == isReady(srcQ[l], now)
        flit == Top(srcQ[l])
    IN  /\ srcQ' = IF ready THEN [srcQ EXCEPT ![l] = @ \ {flit}] ELSE srcQ
        /\ linkQ' = IF ready
                    THEN [linkQ EXCEPT ![l] =
                            @ \cup {[flit EXCEPT !.time = now + LinkLatency]}]
                    ELSE linkQ
        /\ wake' = (wake \ {<<Link(l), now>>})
                     \cup (IF ready
                           THEN {<<ConsumerAt(Dst[l]), now + LinkLatency>>}
                           ELSE {})
        /\ UNCHANGED <<now, script, sent, niVars, routerVars, outVc, credSrcQ, credLinkQ>>

(* The same for credits, which go the other way. *)
CreditLinkWakeup(l) ==
    LET ready == isReady(credSrcQ[l], now)
        credit == Top(credSrcQ[l])
    IN  /\ credSrcQ' = IF ready THEN [credSrcQ EXCEPT ![l] = @ \ {credit}]
                       ELSE credSrcQ
        /\ credLinkQ' = IF ready
                        THEN [credLinkQ EXCEPT ![l] =
                                @ \cup {[credit EXCEPT !.time = now + LinkLatency]}]
                        ELSE credLinkQ
        /\ wake' = (wake \ {<<CreditLink(l), now>>})
                     \cup (IF ready
                           THEN {<<ConsumerAt(Src[l]), now + LinkLatency>>}
                           ELSE {})
        /\ UNCHANGED <<now, script, sent, niVars, routerVars, outVc, srcQ, linkQ>>

-----------------------------------------------------------------------------
(* The router. *)

(* lookupRoutingTable: the links of least weight that lead to the           *)
(* destination; an ordered virtual network always takes the first of them.  *)
Outports(r, dest, vnet) ==
    LET leading == {l \in OutPorts[r] : dest \in RoutingTable[l]}
        best == {l \in leading : \A k \in leading : Weight[l] <= Weight[k]}
    IN  IF vnet \in Ordered THEN {Min(best)} ELSE best

Arrives(l) == isReady(linkQ[l], now)

(* What InputUnit::wakeup may take from the links: the flit that is ready   *)
(* on a link, with one of the output ports route_compute may draw for it.   *)
Takes(r) ==
    UNION {LET f == Top(linkQ[l])
           IN  {[in |-> l, flit |-> [f EXCEPT !.sa = now + PipeStages - 1],
                 out |-> o] : o \in Outports(r, f.dest, f.msg.vnet)} :
           l \in {i \in InPorts[r] : Arrives(i)}}

Arrivals(r) ==
    {A \in SUBSET Takes(r) : \A l \in InPorts[r] :
        Arrives(l) => Cardinality({a \in A : a.in = l}) = 1}

(* A virtual channel after the arrivals: the head of a packet activates it  *)
(* and fixes its output port.                                               *)
Chan(arrivals, l, vc) ==
    LET mine == {a \in arrivals : a.in = l /\ a.flit.vc = vc}
        a == CHOOSE x \in mine : TRUE
    IN  IF mine = {} THEN inVc[l][vc]
        ELSE IF IsHead(a.flit)
        THEN [inVc[l][vc] EXCEPT !.state = "ACTIVE_", !.enq = now,
                                 !.port = a.out, !.buf = @ \cup {a.flit}]
        ELSE [inVc[l][vc] EXCEPT !.buf = @ \cup {a.flit}]

(* OutputUnit::wakeup. *)
AfterCredits(l) ==
    IF isReady(credLinkQ[l], now) THEN TakeCredit(outVc[l], Top(credLinkQ[l]))
    ELSE outVc[l]

(* VirtualChannel::need_stage for SA_. *)
NeedSA(chan, time) == isReady(chan.buf, time) /\ Top(chan.buf).sa <= time

FreeVcs(states, vnet) == {vc \in VcsOf(vnet) : states[vc].state = "IDLE_"}

(* The channels of a router with a flit that may compete for the switch. *)
Competing(r, arrivals) ==
    {c \in {[in |-> l, invc |-> vc, chan |-> Chan(arrivals, l, vc)] :
               l \in InPorts[r], vc \in Vcs} : NeedSA(c.chan, now)}

(* SwitchAllocator::send_allowed: there is a free output channel or a       *)
(* credit in the one the packet has, and no older packet of the same        *)
(* ordered virtual network and input port wants the same output port.       *)
SendAllowed(competing, c) ==
    LET outs == AfterCredits(c.chan.port)
        vnet == VnetOf(c.invc)
    IN  /\ IF c.chan.outvc = NoVc THEN FreeVcs(outs, vnet) # {}
           ELSE outs[c.chan.outvc].credit > 0
        /\ vnet \in Ordered =>
              ~ \E d \in competing : /\ d.in = c.in
                                     /\ VnetOf(d.invc) = vnet
                                     /\ d.chan.port = c.chan.port
                                     /\ d.chan.enq < c.chan.enq

(* arbitrate_inports: every input port asks for one of its channels. *)
PortRequests(competing) ==
    LET able == {c \in competing : SendAllowed(competing, c)}
        turn(c) == (c.invc - rrInvc[c.in]) % NumVcs
    IN  {[in |-> c.in, invc |-> c.invc, out |-> c.chan.port,
          outvc |-> c.chan.outvc, flit |-> Top(c.chan.buf)] :
            c \in {d \in able : \A e \in able : e.in = d.in => turn(d) <= turn(e)}}

(* arbitrate_outports: every output port is granted to one of the input     *)
(* ports that ask for it, and vc_allocate gives a head a free channel.      *)
Turn(r, q) ==
    (Cardinality({k \in InPorts[r] : k < q.in}) - rrInport[q.out])
       % Cardinality(InPorts[r])

Grants(r, requests) ==
    {[q EXCEPT !.outvc = IF q.outvc # NoVc THEN q.outvc
                         ELSE Min(FreeVcs(AfterCredits(q.out), VnetOf(q.invc)))] :
        q \in {p \in requests : \A k \in requests :
                  k.out = p.out => Turn(r, p) <= Turn(r, k)}}

(* An input channel after its flit has left: set_idle for the tail. *)
AfterGrant(chan, q) ==
    LET rest == chan.buf \ {q.flit}
    IN  IF IsTail(q.flit) THEN [IdleVc EXCEPT !.buf = rest]
        ELSE [chan EXCEPT !.outvc = q.outvc, !.buf = rest]

(* Router::wakeup: flits, credits, switch allocation, switch traversal. *)
RouterWakeup(r, arrivals) ==
  \E grants \in {Grants(r, PortRequests(Competing(r, arrivals)))} :
    LET won(l, vc) == {q \in grants : q.in = l /\ q.invc = vc}
        outOf(o) == {q \in grants : q.out = o}
        chanNext(l, vc) ==
            IF won(l, vc) = {} THEN Chan(arrivals, l, vc)
            ELSE AfterGrant(Chan(arrivals, l, vc), CHOOSE q \in won(l, vc) : TRUE)
        spend(o) ==
            LET q == CHOOSE x \in outOf(o) : TRUE
            IN  IF outOf(o) = {} THEN AfterCredits(o)
                ELSE [AfterCredits(o) EXCEPT
                        ![q.outvc] = [state |-> IF IsHead(q.flit) THEN "ACTIVE_"
                                                ELSE @.state,
                                      credit |-> @.credit - 1]]
    IN  /\ inVc' = [l \in Links |->
                      IF l \in InPorts[r] THEN [vc \in Vcs |-> chanNext(l, vc)]
                      ELSE inVc[l]]
        /\ outVc' = [o \in Links |-> IF o \in OutPorts[r] THEN spend(o)
                                     ELSE outVc[o]]
        /\ rrInvc' = [l \in Links |->
                        IF l \in InPorts[r] THEN (rrInvc[l] + 1) % NumVcs
                        ELSE rrInvc[l]]
        /\ rrInport' = [o \in Links |->
                          IF o \in OutPorts[r]
                          THEN (rrInport[o] + 1) % Cardinality(InPorts[r])
                          ELSE rrInport[o]]
        /\ srcQ' = [o \in Links |->
                      srcQ[o] \cup {[q.flit EXCEPT !.vc = q.outvc,
                                                   !.time = now + 1] :
                                       q \in outOf(o)}]
        /\ linkQ' = [l \in Links |-> IF l \in InPorts[r] /\ Arrives(l)
                                     THEN linkQ[l] \ {Top(linkQ[l])}
                                     ELSE linkQ[l]]
        /\ credSrcQ' = [l \in Links |->
                          credSrcQ[l] \cup
                            {Credit(q.invc, IsTail(q.flit), now) :
                                q \in {g \in grants : g.in = l}}]
        /\ credLinkQ' = [o \in Links |->
                           IF o \in OutPorts[r] /\ isReady(credLinkQ[o], now)
                           THEN credLinkQ[o] \ {Top(credLinkQ[o])}
                           ELSE credLinkQ[o]]
        /\ wake' = (wake \ {<<Router(r), now>>})
                     \cup {<<Link(q.out), now + 1>> : q \in grants}
                     \cup {<<CreditLink(q.in), now + 1>> : q \in grants}
                     \cup {<<Router(r), now + PipeStages - 1>> :
                              a \in {b \in arrivals : PipeStages > 1}}
                     \cup {<<Router(r), now + 1>> :
                              l \in {i \in InPorts[r] : \E vc \in Vcs :
                                        NeedSA(chanNext(i, vc), now + 1)}}
        /\ UNCHANGED <<now, script, sent, niVars>>

-----------------------------------------------------------------------------
(* The clock moves on when every wakeup of the cycle has run, as long as    *)
(* some wakeup is scheduled: an empty event queue ends the simulation.      *)
Tick ==
    /\ wake # {}
    /\ \A w \in wake : w[2] > now
    /\ now < MaxCycle
    /\ now' = now + 1
    /\ UNCHANGED <<wake, script, sent, niVars, routerVars, outVc, linkVars>>

Scheduled(c) == <<c, now>> \in wake

Wakeup ==
    \/ \E n \in NIs : Scheduled(NI(n)) /\ NIWakeup(n)
    \/ \E r \in Routers : /\ Scheduled(Router(r))
                          /\ \E arrivals \in Arrivals(r) : RouterWakeup(r, arrivals)
    \/ \E l \in Links : Scheduled(Link(l)) /\ LinkWakeup(l)
    \/ \E l \in Links : Scheduled(CreditLink(l)) /\ CreditLinkWakeup(l)

Next == (\E n \in NIs : Enqueue(n)) \/ Wakeup \/ Tick

Spec == Init /\ [][Next]_vars

-----------------------------------------------------------------------------
(* The messages enqueued so far for destination n. *)
SentTo(n) ==
    {m \in UNION {ToSet(SubSeq(script[s], 1, sent[s])) : s \in NIs} : n \in m.dests}

(* A message reaches each of its destinations at most once and no other     *)
(* node, although flitisizeMessage may place the destinations of one        *)
(* message in several wakeups and removes them from it as it goes.          *)
DeliveredOnce ==
    \A n \in NIs :
       /\ IsInjective(delivered[n])
       /\ ToSet(delivered[n]) \subseteq SentTo(n)

(* Point-to-point order: on an ordered virtual network the messages of one  *)
(* source reach a destination in the order they were enqueued, although the *)
(* packets travel in different virtual channels and are arbitrated          *)
(* separately at the network interface and at every router.  The protocols  *)
(* that declare a virtual network ordered rely on it.                       *)
InOrder ==
    \A n \in NIs : \A i, j \in DOMAIN delivered[n] :
       LET first == delivered[n][i]
           second == delivered[n][j]
       IN  /\ i < j
           /\ first.src = second.src
           /\ first.vnet = second.vnet
           /\ first.vnet \in Ordered
           => first.seq < second.seq

(* The network sleeps only when it is empty: when no consumer is scheduled, *)
(* every message enqueued has been delivered.  Each wakeup() looks at most  *)
(* at one flit and one credit of a link and is scheduled once per cycle, so *)
(* a flit or a blocked message nobody comes back for would stay for ever.   *)
AsleepIsEmpty ==
    wake = {} =>
       /\ \A n \in NIs : SentTo(n) = ToSet(delivered[n])
       /\ \A n \in NIs, vc \in Vcs : niVc[n][vc] = {}
       /\ \A l \in Links : srcQ[l] = {} /\ linkQ[l] = {}
                           /\ credSrcQ[l] = {} /\ credLinkQ[l] = {}
       /\ \A l \in Links, vc \in Vcs : outVc[l][vc].state = "IDLE_"

(* The asserts of InputUnit::wakeup and SwitchAllocator::arbitrate_outports:*)
(* a head flit arrives at an IDLE_ channel and any other flit at an ACTIVE_ *)
(* one, and when the tail leaves nothing is behind it.                      *)
PacketsDoNotMix ==
    \A l \in Links :
       Dst[l] \in Routers =>
          /\ Arrives(l) =>
                LET f == Top(linkQ[l])
                IN  inVc[l][f.vc].state = IF IsHead(f) THEN "IDLE_" ELSE "ACTIVE_"
          /\ \A vc \in Vcs : \A f \in inVc[l][vc].buf :
                IsTail(f) => \A g \in inVc[l][vc].buf : g.id <= f.id

(* The channels of a link with flits of a packet still to send upstream. *)
OpenVcs(l) ==
    IF Src[l] \in NIs THEN {vc \in Vcs : niVc[Src[l]][vc] # {}}
    ELSE UNION {{inVc[k][w].outvc : w \in {x \in Vcs : inVc[k][x].port = l}} :
                   k \in InPorts[Src[l]]}

On(q, vc) == {x \in q : x.vc = vc}

(* Each virtual channel of each link as a VcChannel. *)
Channel(l, vc) ==
    INSTANCE VcChannel WITH
        MaxCredit <- MaxCredit[VnetOf(vc)],
        state <- outVc[l][vc].state,
        credits <- outVc[l][vc].credit,
        tail <- IF vc \in OpenVcs(l) THEN "upstream" ELSE "sent",
        wire <- Cardinality(On(srcQ[l], vc)) + Cardinality(On(linkQ[l], vc)),
        buf <- Cardinality(inVc[l][vc].buf),
        back <- Cardinality(On(credSrcQ[l], vc)) + Cardinality(On(credLinkQ[l], vc))

(* Every virtual channel of every link implements VcChannel: credits are    *)
(* taken, returned and freed by the network interfaces and routers at its   *)
(* two ends as that specification says, so that what is proved of it (no    *)
(* buffer overruns, an idle channel is empty) holds of the network.         *)
ChannelContract ==
    /\ \A l \in Links, vc \in Vcs : Channel(l, vc)!Init
    /\ [][\A l \in Links :
             \/ UNCHANGED <<outVc[l], inVc[l], srcQ[l], linkQ[l], credSrcQ[l],
                            credLinkQ[l], OpenVcs(l)>>
             \/ \A vc \in Vcs : [Channel(l, vc)!Next]_(Channel(l, vc)!vars)]_vars

(* The network never stays awake for ever: whatever the controllers send    *)
(* when, it falls asleep before the clock has counted MaxCycle busy cycles. *)
(* With AsleepIsEmpty this says that every message is delivered.  A message *)
(* that cannot be placed wakes the interface in every cycle.                *)
FallsAsleep == now < MaxCycle

=============================================================================
