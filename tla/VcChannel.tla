----------------------------- MODULE VcChannel -----------------------------
(***************************************************************************)
(* What Garnet promises of one virtual channel of one link: credit-based    *)
(* flow control of one packet at a time.  The upstream end (an OutVcState)  *)
(* owns a channel that is IDLE_ or ACTIVE_ and a count of credits; the      *)
(* downstream end has MaxCredit buffers.  A packet is handed out flit by    *)
(* flit, every flit costs a credit, and the credit comes back when the flit *)
(* leaves the buffer.  The credit of the tail carries the free signal that  *)
(* makes the channel IDLE_ again.                                           *)
(*                                                                          *)
(* Flits are counted, not named: the tail is the last flit of the packet,   *)
(* so it is wherever nothing of the packet is behind it.                    *)
(***************************************************************************)
EXTENDS Integers

CONSTANT MaxCredit      \* buffers of the channel downstream

VARIABLES state,        \* "IDLE_" or "ACTIVE_": the upstream OutVcState
          tail,         \* "upstream" until the tail of the packet is sent
          credits,      \* m_credit_count
          wire,         \* flits sent and not yet in the buffer downstream
          buf,          \* flits in the buffer downstream
          back          \* credits on their way back

vars == <<state, tail, credits, wire, buf, back>>

Init ==
    /\ state = "IDLE_"
    /\ tail = "sent"
    /\ credits = MaxCredit
    /\ wire = 0 /\ buf = 0 /\ back = 0

(* The credit about to arrive is the one of the tail. *)
LastCredit == tail = "sent" /\ wire = 0 /\ buf = 0 /\ back = 1

(* One wakeup of the upstream end: it may take a credit, give the channel   *)
(* to a new packet and send a flit, in this order.  The arguments say how   *)
(* many of each: 0 or 1.                                                    *)
Upstream(take, allocate, send) ==
    LET mine == IF take = 1 /\ LastCredit THEN "IDLE_" ELSE state
    IN  /\ take <= back
        /\ allocate = 1 => mine = "IDLE_"
        /\ send = 1 => tail = "upstream" \/ allocate = 1
        /\ send <= credits + take
        /\ state' = IF allocate = 1 THEN "ACTIVE_" ELSE mine
        /\ credits' = credits + take - send
        /\ back' = back - take
        /\ wire' = wire + send
        /\ tail' \in IF send = 1 THEN {"upstream", "sent"}
                     ELSE IF allocate = 1 THEN {"upstream"} ELSE {tail}
        /\ UNCHANGED buf

(* One wakeup of the downstream end: it may buffer the next flit of the     *)
(* wire and pass a flit of the buffer on, which sends a credit back.        *)
Downstream(arrive, forward) ==
    /\ arrive <= wire
    /\ forward <= buf + arrive
    /\ wire' = wire - arrive
    /\ buf' = buf + arrive - forward
    /\ back' = back + forward
    /\ UNCHANGED <<state, tail, credits>>

Next ==
    \/ \E take, allocate, send \in {0, 1} : Upstream(take, allocate, send)
    \/ \E arrive, forward \in {0, 1} : Downstream(arrive, forward)

Spec == Init /\ [][Next]_vars

-----------------------------------------------------------------------------

TypeOK ==
    /\ state \in {"IDLE_", "ACTIVE_"}
    /\ tail \in {"upstream", "sent"}
    /\ credits \in Nat /\ wire \in Nat /\ buf \in Nat /\ back \in Nat

(* Every buffer is accounted for once: it is a credit upstream, a flit on   *)
(* the wire, a flit in the buffer or a credit on its way back.  This is     *)
(* what the asserts of OutVcState::increment_credit and decrement_credit    *)
(* rest on.                                                                 *)
CreditsConserved == credits + wire + buf + back = MaxCredit

(* An IDLE_ channel is empty end to end, with all its credits: the head of  *)
(* the next packet never meets flits of the one before, and                 *)
(* SwitchAllocator::send_allowed may skip the credit check for a head.      *)
IdleIsEmpty ==
    state = "IDLE_" => tail = "sent" /\ wire = 0 /\ buf = 0 /\ back = 0

(* A channel that is ACTIVE_ has a flit or a credit of its packet somewhere, *)
(* or flits still to send: no channel is left ACTIVE_ with nothing to free  *)
(* it, which would take it away from its virtual network for ever.          *)
ActiveIsInUse ==
    state = "ACTIVE_" => tail = "upstream" \/ wire + buf + back > 0

(* The buffer downstream never holds more than it has room for. *)
NoOverrun == buf <= MaxCredit

=============================================================================
