---- MODULE MCTimingMem ----
(***************************************************************************)
(* One tester above two crossbars in a row, the other on the lower one,    *)
(* which leads to the near memory and over a bridge to the far one.        *)
(***************************************************************************)
EXTENDS TimingMem

CONSTANTS t1, t2, cpubus, membus, br, near, far

MCUpper == <<t1, t2, cpubus, membus, br, membus>>

MCLower == <<cpubus, membus, membus, br, far, near>>

MCPortMap == [x \in Xbars |-> IF x = cpubus THEN <<3, 3, 3>> ELSE <<6, 4, 4>>]

\* A memory has a second response while the crossbar refuses its first.
MCNearLoad == [t \in Testers |-> IF t = t1 THEN <<{1, 2}, {1, 2}>> ELSE <<{2}, {1}>>]

\* A bridge has room for one more request and none for one more response.
MCFarLoad == [t \in Testers |-> IF t = t1 THEN <<{1, 2, 3}, {1, 2, 3}>> ELSE <<{1, 2, 3}>>]

MCWorkloads == {MCNearLoad, MCFarLoad}

====
