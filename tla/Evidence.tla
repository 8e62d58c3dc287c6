------------------------------ MODULE Evidence ------------------------------
(***************************************************************************)
(* The evidence of one check (CheckEvidence of src/receipt.rs) and the     *)
(* status a set of checks has together.  The exit code is kept as "zero",  *)
(* "nonzero" or "none"; flag says which of timed_out and cancelled is set. *)
(***************************************************************************)

NotYet == [status |-> "none", exit |-> "none", flag |-> "none", reason |-> "none"]

\* evidence_from_result
EvidenceOf(status, exit, flag) ==
    [status |-> status, exit |-> exit, flag |-> flag, reason |-> "none"]

\* not_run
NotRun(reason) == [status |-> "not_run", exit |-> "none", flag |-> "none", reason |-> reason]

\* CheckEvidence::validate
ValidEvidence(e) ==
    CASE e.status = "pass" -> e.exit = "zero" /\ e.flag = "none" /\ e.reason = "none"
      [] e.status = "fail" -> (e.exit = "nonzero" \/ e.flag # "none") /\ e.reason = "none"
      [] OTHER -> e.exit = "none" /\ e.flag = "none" /\ e.reason # "none"

\* derive_overall_status of run.rs and receipt.rs, derive_status of matrix.rs: of the required checks
DeriveStatus(statuses) ==
    IF "fail" \in statuses THEN "fail"
    ELSE IF "not_run" \in statuses THEN "pending" ELSE "pass"
=============================================================================
