-------------------------- MODULE ProcessSupervisor --------------------------
(***************************************************************************)
(* ProcessSupervisor::execute of src/process.rs: one command, started as   *)
(* the leader of its own process group, is polled until it exits, is       *)
(* cancelled, outlives its execution budget or belongs to a superseded     *)
(* generation; then the group is stopped and sealed and the two output     *)
(* readers are joined.                                                     *)
(*                                                                         *)
(* Time passes only while the supervisor sleeps or waits (one unit per     *)
(* poll): its own steps take none.  The processes of the command, the      *)
(* reader threads, whoever cancels and whoever replaces the generation all *)
(* act between any two of its steps.                                       *)
(***************************************************************************)
EXTENDS Integers, FiniteSets, FiniteSetsExt

CONSTANTS
    Kid,        \* processes the command may fork
    Total,      \* the timeout of the request
    GraceCap,   \* grace_period of the supervisor
    Limit,      \* max_capture_bytes
    MaxBytes,   \* bound on what the command writes to a stream
    MaxFaults   \* bound on failing system calls

ASSUME TimeAssumption == Total \in Nat \ {0} /\ GraceCap \in Nat
ASSUME CaptureAssumption == Limit \in Nat \ {0} /\ MaxBytes \in Nat /\ MaxFaults \in Nat

VARIABLES
    pc,         \* where execute is
    clock,      \* time since execute started
    token,      \* CancellationToken::reason, "none" while not cancelled
    current,    \* whether the guard still holds the identity of the request
    proc,       \* every process: "unborn", "in" the group, "out" of it, or "dead"
    doomed,     \* processes with a SIGKILL on its way
    status,     \* the exit status of the leader, "none" while it runs
    exit,       \* last_exit: the status once it was observed
    ending,     \* termination and error the stop in progress will report
    since,      \* when the wait in progress began
    until,      \* its deadline
    reader,     \* each reader thread: "reading", "eof" or "failed"
    count,      \* bytes a reader has hashed and counted
    kept,       \* bytes it has kept
    truncated,  \* its truncated flag
    faults,     \* failed system calls so far
    outcome     \* what execute returned

world == <<proc, doomed, status>>
streams == <<reader, count, kept, truncated>>
vars == <<pc, clock, token, current, proc, doomed, status, exit, ending, since, until,
          reader, count, kept, truncated, faults, outcome>>

C == INSTANCE SupervisorContract WITH
        phase <- IF pc = "done" THEN "returned" ELSE IF proc["leader"] = "unborn" THEN "idle" ELSE "running",
        group <- IF \E p \in DOMAIN proc : proc[p] = "in" THEN "alive" ELSE "empty"

Process == Kid \cup {"leader"}
Stream == {"stdout", "stderr"}
Exited == {"success", "failure", "signalled"}

InGroup == {p \in Process : proc[p] = "in"}
Holders == {p \in Process : proc[p] \in {"in", "out"}}     \* of the output pipes

NoEnding == [termination |-> "none", error |-> "none"]
Endings == [termination : {"completed", "cancelled", "timed_out"},
            error : {"none", "monitor", "stale_generation", "cleanup_uncertain"}]

(***************************************************************************)
(* ProcessDeadline.                                                        *)
(***************************************************************************)
CleanupBudget == Min({GraceCap, Total \div 2})
ExecutionBudget == Total - CleanupBudget
\* Mutant of CleanupRemaining: every stage gets the whole cleanup budget again.
CleanupBudgetAgain == CleanupBudget
CleanupRemaining == Min({CleanupBudget, Total - clock})

TypeOK ==
    /\ pc \in {"start", "spawn", "generation", "cancelled", "deadline", "wait", "sleep",
               "seal", "sealed", "drain", "recheck", "stop", "grace", "graceSleep",
               "force", "forced", "done"}
    /\ clock \in Nat /\ since \in Nat /\ until \in Nat
    /\ token \in {"none", "user", "resource_pressure"}
    /\ current \in BOOLEAN
    /\ proc \in [Process -> {"unborn", "in", "out", "dead"}]
    /\ doomed \subseteq Process
    /\ status \in Exited \cup {"none"} /\ exit \in {"none", status}
    /\ ending \in Endings \cup {NoEnding}
    /\ reader \in [Stream -> {"reading", "eof", "failed"}]
    /\ count \in [Stream -> 0..MaxBytes] /\ kept \in [Stream -> 0..Limit]
    /\ truncated \in [Stream -> BOOLEAN]
    /\ faults \in 0..MaxFaults
    /\ outcome \in C!Outcomes \cup {C!NoOutcome}

Init ==
    /\ pc = "start" /\ clock = 0 /\ since = 0 /\ until = 0
    /\ token = "none" /\ current = TRUE
    /\ proc = [p \in Process |-> "unborn"] /\ doomed = {}
    /\ status = "none" /\ exit = "none" /\ ending = NoEnding
    /\ reader = [s \in Stream |-> "reading"]
    /\ count = [s \in Stream |-> 0] /\ kept = [s \in Stream |-> 0]
    /\ truncated = [s \in Stream |-> FALSE]
    /\ faults = 0 /\ outcome = C!NoOutcome

-----------------------------------------------------------------------------
(* The world around the supervisor.                                        *)

\* CancellationToken::set_reason: the first reason stays.
Cancel(reason) ==
    /\ token = "none" /\ pc # "done"
    /\ token' = reason
    /\ UNCHANGED <<pc, clock, current, world, exit, ending, since, until, streams, faults, outcome>>

\* GenerationGuard::replace by another holder of the guard.
Replace ==
    /\ current /\ pc # "done"
    /\ current' = FALSE
    /\ UNCHANGED <<pc, clock, token, world, exit, ending, since, until, streams, faults, outcome>>

Fork(k) ==
    /\ proc[k] = "unborn" /\ InGroup \ doomed # {} /\ pc # "done"
    /\ proc' = [proc EXCEPT ![k] = "in"]
    /\ UNCHANGED <<pc, clock, token, current, doomed, status, exit, ending, since, until, streams,
                   faults, outcome>>

\* A descendant makes itself the leader of a session of its own.
LeaveGroup(k) ==
    /\ proc[k] = "in" /\ k \notin doomed /\ pc # "done"
    /\ proc' = [proc EXCEPT ![k] = "out"]
    /\ UNCHANGED <<pc, clock, token, current, doomed, status, exit, ending, since, until, streams,
                   faults, outcome>>

Die(p) ==
    /\ proc[p] \in {"in", "out"} /\ pc # "done"
    /\ proc' = [proc EXCEPT ![p] = "dead"]
    /\ doomed' = doomed \ {p}
    /\ \/ p # "leader" /\ UNCHANGED status
       \/ p = "leader" /\ status' \in (IF p \in doomed THEN {"signalled"} ELSE Exited)
    /\ UNCHANGED <<pc, clock, token, current, exit, ending, since, until, streams, faults, outcome>>

(***************************************************************************)
(* read_stream: what is read is counted and hashed in full, and kept up to *)
(* the limit.  A failing read or a failing tee write ends in an error.     *)
(***************************************************************************)
Read(s, n) ==
    /\ reader[s] = "reading" /\ Holders # {} /\ count[s] + n <= MaxBytes /\ pc # "done"
    /\ count' = [count EXCEPT ![s] = @ + n]
    /\ kept' = [kept EXCEPT ![s] = @ + Min({n, Limit - @})]
    /\ truncated' = [truncated EXCEPT ![s] = @ \/ Limit - kept[s] < n]
    /\ UNCHANGED <<pc, clock, token, current, world, exit, ending, since, until, reader, faults, outcome>>

\* The reader ends when every holder of the pipe is gone.
ReadEnd(s) ==
    /\ reader[s] = "reading" /\ proc["leader"] # "unborn" /\ Holders = {} /\ pc # "done"
    /\ reader' = [reader EXCEPT ![s] = "eof"]
    /\ UNCHANGED <<pc, clock, token, current, world, exit, ending, since, until, count, kept,
                   truncated, faults, outcome>>

ReadFails(s) ==
    /\ reader[s] = "reading" /\ proc["leader"] # "unborn" /\ faults < MaxFaults /\ pc # "done"
    /\ reader' = [reader EXCEPT ![s] = "failed"]
    /\ faults' = faults + 1
    /\ UNCHANGED <<pc, clock, token, current, world, exit, ending, since, until, count, kept,
                   truncated, outcome>>

World ==
    \/ \E reason \in {"user", "resource_pressure"} : Cancel(reason)
    \/ Replace
    \/ \E k \in Kid : Fork(k) \/ LeaveGroup(k)
    \/ \E p \in Process : Die(p)
    \/ \E s \in Stream : ReadEnd(s) \/ ReadFails(s) \/ \E n \in 1..MaxBytes : Read(s, n)

-----------------------------------------------------------------------------
(* Building blocks of the supervisor's own steps.                          *)

Goto(step) == pc' = step

Return(o) ==
    /\ Goto("done")
    /\ outcome' = o

\* stop_and_collect begins; error is what the caller reports when it succeeds.
StopWith(termination, error) ==
    /\ Goto("stop")
    /\ ending' = [termination |-> termination, error |-> error]

\* A wait bounded by what is left for cleanup begins, at step.
WaitAt(step) ==
    /\ Goto(step)
    /\ since' = clock
    /\ until' = clock + CleanupRemaining

\* The result a finished stop or a finished command reports.
Result ==
    IF ending.error = "none" THEN C!Ok(ending.termination, "verified", exit)
                             ELSE C!Err(ending.error)

Uncertain == Return(C!Err("cleanup_uncertain"))

-----------------------------------------------------------------------------
(* execute_with_output_and_capture_ceiling.                                *)

\* validate, ensure_current and the cancellation check before anything runs.
Start ==
    /\ pc = "start"
    /\ \/ Return(C!Err("invalid_request"))
       \/ ~current /\ Return(C!Err("stale_generation"))
       \/ current /\ token # "none" /\ Return(C!Ok("cancelled", "not_required", "none"))
       \/ current /\ token = "none" /\ Goto("spawn") /\ UNCHANGED outcome
    /\ UNCHANGED <<clock, token, current, world, exit, ending, since, until, streams, faults>>

Spawn ==
    /\ pc = "spawn"
    /\ \/ /\ faults < MaxFaults
          /\ faults' = faults + 1
          /\ Return(C!Err("spawn"))
          /\ UNCHANGED proc
       \/ /\ proc' = [proc EXCEPT !["leader"] = "in"]
          /\ Goto("generation")
          /\ UNCHANGED <<faults, outcome>>
    /\ UNCHANGED <<clock, token, current, doomed, status, exit, ending, since, until, streams>>

CheckGeneration ==
    /\ pc = "generation"
    /\ \/ current /\ Goto("cancelled") /\ UNCHANGED ending
       \/ ~current /\ StopWith("cancelled", "stale_generation")
    /\ UNCHANGED <<clock, token, current, world, exit, since, until, streams, faults, outcome>>

CheckCancelled ==
    /\ pc = "cancelled"
    /\ \/ token = "none" /\ Goto("deadline") /\ UNCHANGED ending
       \/ token # "none" /\ StopWith("cancelled", "none")
    /\ UNCHANGED <<clock, token, current, world, exit, since, until, streams, faults, outcome>>

CheckDeadline ==
    /\ pc = "deadline"
    /\ \/ clock < ExecutionBudget /\ Goto("wait") /\ UNCHANGED ending
       \/ clock >= ExecutionBudget /\ StopWith("timed_out", "none")
    /\ UNCHANGED <<clock, token, current, world, exit, since, until, streams, faults, outcome>>

TryWait ==
    /\ pc = "wait"
    /\ \/ /\ faults < MaxFaults
          /\ faults' = faults + 1
          /\ StopWith("cancelled", "monitor")
          /\ UNCHANGED exit
       \/ /\ status # "none"
          /\ exit' = status
          /\ ending' = [termination |-> "completed", error |-> "none"]
          /\ Goto("seal")
          /\ UNCHANGED faults
       \/ /\ status = "none"
          /\ Goto("sleep")
          /\ UNCHANGED <<exit, ending, faults>>
    /\ UNCHANGED <<clock, token, current, world, since, until, streams, outcome>>

-----------------------------------------------------------------------------
(* stop_and_collect.                                                       *)

\* request_graceful_stop: SIGTERM to the group, which may be gone already.
Stop ==
    /\ pc = "stop"
    /\ \/ InGroup # {} /\ WaitAt("grace") /\ UNCHANGED faults
       \/ InGroup = {} /\ Goto("force") /\ UNCHANGED <<since, until, faults>>
       \/ faults < MaxFaults /\ faults' = faults + 1 /\ Goto("force") /\ UNCHANGED <<since, until>>
    /\ UNCHANGED <<clock, token, current, world, exit, ending, streams, outcome>>

\* The grace loop; its bound shrinks as its own time passes.
Grace ==
    /\ pc = "grace"
    /\ \/ /\ clock - since >= CleanupRemaining
          /\ Goto("force")
          /\ UNCHANGED <<exit, faults, outcome>>
       \/ /\ clock - since < CleanupRemaining /\ status # "none"
          /\ exit' = status
          /\ Goto("seal")
          /\ UNCHANGED <<faults, outcome>>
       \/ /\ clock - since < CleanupRemaining /\ status = "none"
          /\ Goto("graceSleep")
          /\ UNCHANGED <<exit, faults, outcome>>
       \/ /\ clock - since < CleanupRemaining /\ faults < MaxFaults
          /\ faults' = faults + 1
          /\ Uncertain
          /\ UNCHANGED exit
    /\ UNCHANGED <<clock, token, current, world, ending, since, until, streams>>

(***************************************************************************)
(* force_stop_and_wait: a SIGKILL, whose failure is forgiven when the      *)
(* leader is found to have exited, then a bounded wait for it.  A failure  *)
(* still seals the group before it is reported.                            *)
(***************************************************************************)
ForceStop ==
    /\ pc = "force"
    /\ \/ /\ doomed' = doomed \cup InGroup
          /\ WaitAt("forced")
          /\ UNCHANGED <<exit, ending, faults>>
       \/ /\ faults < MaxFaults
          /\ faults' = faults + 1
          /\ \/ status # "none" /\ exit' = status /\ WaitAt("forced") /\ UNCHANGED ending
             \/ /\ status = "none"
                /\ ending' = [ending EXCEPT !.error = "cleanup_uncertain"]
                /\ Goto("seal")
                /\ UNCHANGED <<exit, since, until>>
          /\ UNCHANGED doomed
    /\ UNCHANGED <<clock, token, current, proc, status, streams, outcome>>

Forced ==
    /\ pc = "forced"
    /\ \/ /\ status # "none"
          /\ exit' = status
          /\ Goto("seal")
          /\ UNCHANGED <<ending, faults>>
       \/ /\ \/ status = "none" /\ clock >= until /\ UNCHANGED faults
             \/ faults < MaxFaults /\ faults' = faults + 1
          /\ ending' = [ending EXCEPT !.error = "cleanup_uncertain"]
          /\ Goto("seal")
          /\ UNCHANGED exit
    /\ UNCHANGED <<clock, token, current, world, since, until, streams, outcome>>

(***************************************************************************)
(* seal_unix_process_group: a SIGKILL to the whole group, then a bounded   *)
(* wait until no member of it exists.                                      *)
(***************************************************************************)
\* Mutant of Seal: an exited leader is taken for an empty group.
SealLeaderOnly ==
    /\ pc = "seal"
    /\ \/ doomed' = doomed \cup InGroup /\ WaitAt(IF exit = "none" THEN "sealed" ELSE "drain")
          /\ UNCHANGED <<faults, outcome>>
       \/ faults < MaxFaults /\ faults' = faults + 1 /\ Uncertain /\ UNCHANGED <<doomed, since, until>>
    /\ UNCHANGED <<clock, token, current, proc, status, exit, ending, streams>>

Seal ==
    /\ pc = "seal"
    /\ \/ doomed' = doomed \cup InGroup /\ WaitAt("sealed") /\ UNCHANGED <<faults, outcome>>
       \/ faults < MaxFaults /\ faults' = faults + 1 /\ Uncertain /\ UNCHANGED <<doomed, since, until>>
    /\ UNCHANGED <<clock, token, current, proc, status, exit, ending, streams>>

\* Mutant of Sealed: the wait for the group has no deadline.
SealedForever ==
    /\ pc = "sealed"
    /\ InGroup = {}
    /\ IF ending.error = "cleanup_uncertain"
       THEN Uncertain /\ UNCHANGED <<since, until>>
       ELSE WaitAt("drain") /\ UNCHANGED outcome
    /\ UNCHANGED <<clock, token, current, world, exit, ending, streams, faults>>

Sealed ==
    /\ pc = "sealed"
    /\ \/ /\ InGroup = {} /\ ending.error # "cleanup_uncertain"
          /\ WaitAt("drain")
          /\ UNCHANGED outcome
       \/ /\ \/ InGroup # {} /\ clock >= until
             \/ InGroup = {} /\ ending.error = "cleanup_uncertain"
          /\ Uncertain
          /\ UNCHANGED <<since, until>>
    /\ UNCHANGED <<clock, token, current, world, exit, ending, streams, faults>>

(***************************************************************************)
(* collect_output joins stdout, then stderr, within one deadline.  The     *)
(* completed path checks the generation once more afterwards.              *)
(***************************************************************************)
Drain ==
    /\ pc = "drain"
    /\ \/ /\ \A s \in Stream : reader[s] = "eof"
          /\ \/ ending.termination = "completed" /\ Goto("recheck") /\ UNCHANGED outcome
             \/ ending.termination # "completed" /\ Return(Result)
       \/ /\ \/ reader["stdout"] = "failed"
             \/ reader["stdout"] = "eof" /\ reader["stderr"] = "failed"
             \/ clock >= until /\ \E s \in Stream : reader[s] = "reading"
          /\ Return(C!Err("output"))
    /\ UNCHANGED <<clock, token, current, world, exit, ending, since, until, streams, faults>>

\* Mutant of Recheck: the generation is not checked again after the collection.
RecheckSkipped ==
    /\ pc = "recheck"
    /\ Return(Result)
    /\ UNCHANGED <<clock, token, current, world, exit, ending, since, until, streams, faults>>

Recheck ==
    /\ pc = "recheck"
    /\ Return(IF current THEN Result ELSE C!Err("stale_generation"))
    /\ UNCHANGED <<clock, token, current, world, exit, ending, since, until, streams, faults>>

-----------------------------------------------------------------------------
(* One unit of time passes: a sleep ends, or a bounded wait goes on.       *)

Waiting ==
    \/ pc \in {"sleep", "graceSleep"}
    \/ pc = "forced" /\ status = "none" /\ clock < until
    \/ pc = "sealed" /\ InGroup # {} /\ clock < until
    \/ /\ pc = "drain" /\ clock < until
       /\ reader["stdout"] = "reading" \/ (reader["stdout"] = "eof" /\ reader["stderr"] = "reading")

Tick ==
    /\ Waiting
    /\ clock' = clock + 1
    /\ Goto(CASE pc = "sleep" -> "generation" [] pc = "graceSleep" -> "grace" [] OTHER -> pc)
    /\ UNCHANGED <<token, current, world, exit, ending, since, until, streams, faults, outcome>>

Supervise ==
    \/ Start \/ Spawn \/ CheckGeneration \/ CheckCancelled \/ CheckDeadline \/ TryWait
    \/ Stop \/ Grace \/ ForceStop \/ Forced \/ Seal \/ Sealed \/ Drain \/ Recheck

Next == World \/ Supervise \/ Tick

Spec == Init /\ [][Next]_vars

\* The supervisor's thread runs and time passes; nothing is assumed of the processes.
FairSpec == Spec /\ WF_vars(Supervise) /\ WF_vars(Tick)

-----------------------------------------------------------------------------
(***************************************************************************)
(* The supervisor keeps SupervisorContract: whatever the processes do and  *)
(* whichever system call fails, an outcome other than "cleanup uncertain"  *)
(* means that no member of the process group is left (process.rs 500-650). *)
(***************************************************************************)
Contract == C!Spec

(***************************************************************************)
(* execute, cleanup and output collection included, ends within the        *)
(* timeout of the request: the cleanup budget is carved out of it and the  *)
(* stages share what is left (ProcessDeadline).                            *)
(***************************************************************************)
WithinTimeout == clock <= Total

(***************************************************************************)
(* What is reported is what happened.  A timeout is reported only once the *)
(* execution budget is spent, a cancellation only when the token was set,  *)
(* a completion only with the leader's real status and while the           *)
(* generation of the request is still the current one.  And a reader keeps *)
(* the first Limit bytes, its truncated flag says that it has dropped some *)
(* (read_stream).                                                          *)
(***************************************************************************)
TruthfulOutcome ==
    /\ C!IsOk(outcome) =>
        /\ outcome.termination = "timed_out" => clock >= ExecutionBudget
        /\ outcome.termination = "cancelled" => token # "none"
        /\ outcome.termination = "completed" => outcome.exit = status /\ current
    /\ \A s \in Stream :
        /\ kept[s] = Min({Limit, count[s]})
        /\ truncated[s] <=> count[s] > Limit

(***************************************************************************)
(* execute always returns, although the command may never exit, never      *)
(* react to a signal and never close its pipes.                            *)
(***************************************************************************)
Returns == <>(pc = "done")
=============================================================================
