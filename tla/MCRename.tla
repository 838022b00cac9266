------------------------------ MODULE MCRename ------------------------------
(* Two threads with a zero register and two others each, and two spare   *)
(* physical registers.                                                     *)
EXTENDS RenameCommit, TLC

CONSTANTS t0, t1, zero, ra, rb, p0, pa, pb, q0, qa, qb, s1, s2

MCThreads == {t0, t1}
MCArchRegs == {zero, ra, rb}
MCPhysRegs == {p0, pa, pb, q0, qa, qb, s1, s2}

MCInitialMap ==
  [t \in MCThreads |->
    IF t = t0 THEN [a \in MCArchRegs |-> IF a = zero THEN p0
                                         ELSE IF a = ra THEN pa ELSE pb]
              ELSE [a \in MCArchRegs |-> IF a = zero THEN q0
                                         ELSE IF a = ra THEN qa ELSE qb]]

(* ra := f(ra), a result that is thrown away, an instruction with two      *)
(* results.                                                                *)
MCOperands ==
  {[srcs |-> {ra}, dests |-> <<ra>>],
   [srcs |-> {rb}, dests |-> <<zero>>],
   [srcs |-> {}, dests |-> <<ra, rb>>]}

(* The spare registers are interchangeable.                                *)
Spares == Permutations({s1, s2})
=============================================================================
