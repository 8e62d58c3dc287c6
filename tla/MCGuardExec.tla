----------------------------- MODULE MCGuardExec -----------------------------
(* Instances of GuardExec for TLC.                                         *)
EXTENDS GuardExec, TLC

\* A host at ease, one under soft pressure, and one with plenty of memory left
\* whose compressor and swap are under hard pressure.
MCSample ==
    {[available |-> 50, reclaimable |-> 10, compressor |-> 2, total |-> 20, swapUsed |-> 0, swapTotal |-> 20],
     [available |-> 9, reclaimable |-> 2, compressor |-> 2, total |-> 20, swapUsed |-> 0, swapTotal |-> 20],
     [available |-> 40, reclaimable |-> 8, compressor |-> 15, total |-> 20, swapUsed |-> 9, swapTotal |-> 20]}

SessionSymmetry == Permutations(Owner)
=============================================================================
