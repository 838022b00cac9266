--------------------------- MODULE MCEventQueue ---------------------------
(* EventQueue with three events on two priorities, one of them AutoDelete. *)
EXTENDS EventQueue, TLC

CONSTANTS e1, e2, e3

MCPriority == (e1 :> 0) @@ (e2 :> 0) @@ (e3 :> 1)
===========================================================================
