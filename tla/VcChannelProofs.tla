--------------------------- MODULE VcChannelProofs ---------------------------
(***************************************************************************)
(* Safety of the virtual channel, for every number of buffers.  Garnet      *)
(* implements VcChannel for each virtual channel of each link               *)
(* (ChannelContract), so these facts hold of the network.                   *)
(***************************************************************************)
EXTENDS VcChannel, TLAPS

(* CreditsConserved bounds the buffer only together with IdleIsEmpty: the   *)
(* next packet starts from a channel with all its credits.                  *)
IInv == TypeOK /\ CreditsConserved /\ IdleIsEmpty /\ ActiveIsInUse

(* A wakeup of the upstream end preserves the invariant: OutVcState takes a *)
(* credit, is allocated and pays for a flit.                                *)
LEMMA UpstreamSafe ==
    ASSUME IInv, NEW take \in {0, 1}, NEW allocate \in {0, 1},
           NEW send \in {0, 1}, Upstream(take, allocate, send)
    PROVE  IInv'
<1> USE DEF IInv, TypeOK
<1>1. TypeOK'
  BY DEF Upstream, LastCredit, CreditsConserved
<1>2. CreditsConserved'
  BY DEF Upstream, CreditsConserved
<1>3. IdleIsEmpty'
  <2>1. CASE allocate = 1
    BY <2>1 DEF Upstream, IdleIsEmpty
  <2>2. CASE allocate = 0 /\ take = 1 /\ LastCredit
    BY <2>2 DEF Upstream, IdleIsEmpty, LastCredit
  <2>3. CASE allocate = 0 /\ ~(take = 1 /\ LastCredit)
    BY <2>3 DEF Upstream, IdleIsEmpty
  <2> QED
    BY <2>1, <2>2, <2>3
<1>4. ActiveIsInUse'
  <2>1. CASE send = 1
    BY <2>1, <1>1 DEF Upstream, ActiveIsInUse
  <2>2. CASE send = 0 /\ allocate = 1
    BY <2>2 DEF Upstream, ActiveIsInUse
  <2>3. CASE send = 0 /\ allocate = 0
    BY <2>3 DEF Upstream, ActiveIsInUse, LastCredit
  <2> QED
    BY <2>1, <2>2, <2>3
<1> QED
  BY <1>1, <1>2, <1>3, <1>4

(* A wakeup of the downstream end preserves the invariant: a flit moves     *)
(* from the wire to the buffer or becomes a credit.                         *)
LEMMA DownstreamSafe ==
    ASSUME IInv, NEW arrive \in {0, 1}, NEW forward \in {0, 1},
           Downstream(arrive, forward)
    PROVE  IInv'
<1> USE DEF IInv, TypeOK
<1>1. TypeOK'
  BY DEF Downstream
<1>2. CreditsConserved' /\ IdleIsEmpty' /\ ActiveIsInUse'
  BY DEF Downstream, CreditsConserved, IdleIsEmpty, ActiveIsInUse
<1> QED
  BY <1>1, <1>2

(* The invariant holds of every behaviour: the credits upstream, the flits  *)
(* under way and the credits coming back always add up to the buffers of    *)
(* the channel (OutVcState::increment_credit, decrement_credit), an IDLE_   *)
(* channel is empty (SwitchAllocator::send_allowed), and an ACTIVE_ one     *)
(* still has something that will free it.                                   *)
THEOREM ChannelInvariant ==
    ASSUME MaxCredit \in Nat
    PROVE  Spec => []IInv
<1>1. Init => IInv
  BY DEF Init, IInv, TypeOK, CreditsConserved, IdleIsEmpty, ActiveIsInUse
<1>2. IInv /\ [Next]_vars => IInv'
  <2> SUFFICES ASSUME IInv, [Next]_vars
               PROVE  IInv'
    OBVIOUS
  <2>1. ASSUME NEW take \in {0, 1}, NEW allocate \in {0, 1},
               NEW send \in {0, 1}, Upstream(take, allocate, send)
        PROVE  IInv'
    BY <2>1, UpstreamSafe
  <2>2. ASSUME NEW arrive \in {0, 1}, NEW forward \in {0, 1},
               Downstream(arrive, forward)
        PROVE  IInv'
    BY <2>2, DownstreamSafe
  <2>3. CASE UNCHANGED vars
    BY <2>3 DEF vars, IInv, TypeOK, CreditsConserved, IdleIsEmpty, ActiveIsInUse
  <2> QED
    BY <2>1, <2>2, <2>3 DEF Next
<1> QED
  BY <1>1, <1>2, PTL DEF Spec

(* The buffer of a channel never overruns, whatever packets use it and      *)
(* however flits and credits are delayed on the links.                      *)
THEOREM ChannelNeverOverruns ==
    ASSUME MaxCredit \in Nat
    PROVE  Spec => []NoOverrun
<1>1. IInv => NoOverrun
  BY DEF IInv, TypeOK, CreditsConserved, NoOverrun
<1> QED
  BY <1>1, ChannelInvariant, PTL

=============================================================================
