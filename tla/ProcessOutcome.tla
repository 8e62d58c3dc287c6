--------------------------- MODULE ProcessOutcome ----------------------------
(***************************************************************************)
(* What a call of SupervisorPort::execute returns (src/process.rs): a      *)
(* ProcessResult, reduced to its termination, its cleanup status and its   *)
(* exit, or a ProcessError.                                                *)
(***************************************************************************)

Terminations == {"completed", "cancelled", "timed_out"}

\* ExitOutcome: no status, code 0, another code, or death by a signal (no code).
Exits == {"none", "success", "failure", "signalled"}

Errors == {"invalid_request", "spawn", "monitor", "output",
           "cleanup_uncertain", "stale_generation"}

Ok(termination, cleanup, exit) ==
    [error |-> "none", termination |-> termination, cleanup |-> cleanup, exit |-> exit]

Err(error) == [error |-> error, termination |-> "none", cleanup |-> "none", exit |-> "none"]

NoOutcome == Err("none")

\* empty_result: the token was set before anything was started.
NeverStarted == Ok("cancelled", "not_required", "none")

Outcomes ==
    {NeverStarted}
      \cup {Ok(t, "verified", e) : t \in Terminations, e \in Exits \ {"none"}}
      \cup {Err(e) : e \in Errors}

IsOk(o) == o.error = "none" /\ o.termination # "none"

Succeeded(o) == o = Ok("completed", "verified", "success")

\* The outcomes of a call that starts nothing.
BeforeStart == {NeverStarted, Err("spawn"), Err("invalid_request"), Err("stale_generation")}

\* The outcomes of a call whose process group is alive, or empty, when it returns.
AfterStart(alive) ==
    IF alive THEN {Err("cleanup_uncertain")}
             ELSE Outcomes \ {NeverStarted, Err("spawn"), Err("invalid_request")}
=============================================================================
