---------------------------- MODULE MCMI_example ----------------------------
(* Small systems for the MI_example protocol. *)
EXTENDS MI_example

CONSTANTS a1, a2, c1, c2, d1, d2

(* Every cache but c1 has its blocks fetched by d2. *)
MCMemNode == [c \in Caches |-> IF c = c1 THEN d1 ELSE d2]

(* One home for all blocks, and a table index for each. *)
MCOneHome == [a \in Addrs |-> d1]
MCOwnIdx == [a \in Addrs |-> a]

(* Two homes whose tables have one index for both blocks. *)
MCTwoHomes == [a \in Addrs |-> IF a = a1 THEN d1 ELSE d2]
MCSameIdx == [a \in Addrs |-> 0]

=============================================================================
