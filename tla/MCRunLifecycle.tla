--------------------------- MODULE MCRunLifecycle ----------------------------
(* RunLifecycle with interchangeable runs.                                 *)
EXTENDS RunLifecycle, TLC

RunSymmetry == Permutations(Run)

=============================================================================
