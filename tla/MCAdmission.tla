----------------------------- MODULE MCAdmission -----------------------------
(* TLC instances of Admission.                                             *)
EXTENDS Admission, TLC

\* Processes are interchangeable; ticket numbers are not.
ProcSymmetry == Permutations(Proc)

\* Three processes contend for two ticket numbers.  The last number, which
\* fills the queue and exhausts the counter, is used by one process at a time
\* amid the residue of the others.
Focus ==
    counter = MaxCounter =>
        \A p, q \in Proc : pc[p] # "idle" /\ pc[q] # "idle" => p = q
=============================================================================
