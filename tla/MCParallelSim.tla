--------------------------- MODULE MCParallelSim ---------------------------
(* Two threads; local events of both queues.                               *)
EXTENDS ParallelSim
MCHome == [f \in LocalEvent |-> IF f = "a" THEN 0 ELSE 1]
============================================================================
