------------------------- MODULE MCAdmissionReconcile -------------------------
(* TLC instance of AdmissionRoot: two processes and an operator.           *)
EXTENDS AdmissionRoot, TLC

\* Processes are interchangeable; ticket numbers are not.
ProcSymmetry == Permutations(Proc)
=============================================================================
