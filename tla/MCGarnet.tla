------------------------------ MODULE MCGarnet ------------------------------
(* A small network: two interfaces on one router, the third on another.     *)
EXTENDS Garnet

CONSTANTS r1, r2

(* Links 1..3 come from the interfaces, 4..6 lead to them, 7 and 9 lead from *)
(* the first router to the second and 8 back.                               *)
MCSrc == (1 :> 1) @@ (2 :> 2) @@ (3 :> 3) @@ (4 :> r1) @@ (5 :> r1)
           @@ (6 :> r2) @@ (7 :> r1) @@ (8 :> r2) @@ (9 :> r1)
MCDst == (1 :> r1) @@ (2 :> r1) @@ (3 :> r2) @@ (4 :> 1) @@ (5 :> 2)
           @@ (6 :> 3) @@ (7 :> r2) @@ (8 :> r1) @@ (9 :> r2)
MCRoutingTable == (1 :> {}) @@ (2 :> {}) @@ (3 :> {}) @@ (4 :> {1}) @@ (5 :> {2})
           @@ (6 :> {3}) @@ (7 :> {3}) @@ (8 :> {1, 2}) @@ (9 :> {3})
MCWeight == [l \in Links |-> 1]
MCMaxCredit == [v \in Vnets |-> v + 1]

Msg(src, seq, vnet, dests, size) ==
    [src |-> src, seq |-> seq, vnet |-> vnet, dests |-> dests, size |-> size]

(* Virtual network 0 is ordered.  In the first run a source sends to two    *)
(* destinations, runs out of channels and has a message of another virtual  *)
(* network waiting behind; in the second, two sources compete for the link  *)
(* between the routers while one of them has two packets under way to the   *)
(* same destination.                                                        *)
MCScripts ==
    {(1 :> <<Msg(1, 1, 0, {3}, 1), Msg(1, 2, 0, {2, 3}, 2), Msg(1, 3, 1, {3}, 1)>>)
       @@ (2 :> <<>>) @@ (3 :> <<>>),
     (1 :> <<Msg(1, 1, 0, {3}, 2), Msg(1, 2, 0, {3}, 1)>>)
       @@ (2 :> <<Msg(2, 1, 0, {3}, 2)>>) @@ (3 :> <<>>)}

=============================================================================
