------------------------------ MODULE CheckRun -------------------------------
(***************************************************************************)
(* The execution of a plan and the evidence it leaves:                     *)
(* execute_local_receipt_and_artifacts_with_dependencies of src/run.rs,    *)
(* the workspace it prepares (src/workspace.rs), the containers its checks *)
(* run in (ContainerRuntime), the watchdog beside it (Watchdog), and the   *)
(* publication of the receipt by the run and matrix commands of            *)
(* src/main.rs and src/matrix.rs.                                          *)
(*                                                                         *)
(* A plan is a sequence of rows, one per runtime, each a sequence of       *)
(* checks in execution order; a plan of one row is an ordinary run.  One   *)
(* process executes at a time, as the admission slot sees to.              *)
(***************************************************************************)
EXTENDS ContainerRuntime, Watchdog, Evidence, Functions

CONSTANTS
    Plans,      \* the plans that may be run
    Required,   \* the checks a receipt must have passed
    Deps,       \* Deps[c]: depends_on
    Producer,   \* the checks that declare an artifact
    Directory,  \* those of them whose artifact is a directory, not a file
    MaxRuns     \* bound on the processes started

ASSUME PlanAssumption ==
    /\ Plans \subseteq Seq(Seq(Check)) /\ Required \subseteq Check
    /\ Deps \in [Check -> SUBSET Check] /\ Directory \subseteq Producer
    /\ Producer \subseteq Check
    /\ MaxRuns \in Nat \ {0} /\ \E o \in Owner : Owner = {o}

\* A plan has a row, and no check twice: ids are unique in a row, and the check of another row has
\* a container and a result of its own.
ASSUME RowsAssumption ==
    \A p \in Plans :
        /\ Len(p) > 0
        /\ \A r, s \in 1..Len(p) : \A i \in 1..Len(p[r]), j \in 1..Len(p[s]) :
             p[r][i] = p[s][j] => r = s /\ i = j

VARIABLES
    pc, plan, row, index,
    run,        \* how many processes have been started
    evidence,   \* evidence[c]: CheckEvidence, of this run
    terminal,   \* terminal_reason
    lock,       \* the workspace's lock file: the run that made it, 0 if none
    file,       \* file[c]: the runs that wrote what the check's artifact holds
    moved,      \* whether HEAD or the checkout has left the run's commit
    movedEarly, \* moved, when the last check ended
    manifest,   \* artifacts of the row that only this run wrote, when observed
    promoted,   \* rows whose caches this run promoted
    receipt,    \* the run whose receipt is at the plan's output path, 0 if none
    overall,    \* the overall status of the receipt this run published
    result      \* "none", "ok" or the error the run ended with

vars == <<runtimeVars, watchdogVars, pc, plan, row, index, run, evidence, terminal, lock, file,
          moved, movedEarly, manifest, promoted, receipt, overall,
          result>>

me == CHOOSE o \in Owner : TRUE

Pressure == token[me] = "resource_pressure"

RunErrors == {"pressure", "runtime", "workspace", "lifecycle", "stale", "artifact", "invariant",
            "receipt", "io", "terminal"}

Row == plan[row]
PlannedChecks == UNION {Range(plan[r]) : r \in DOMAIN plan}
Matrix == Len(plan) > 1

TypeOK ==
    /\ RuntimeTypeOK /\ WatchdogTypeOK
    /\ pc \in {"idle", "enter", "probe", "prepare", "render", "loop", "check", "inspect",
               "revalidate", "observe", "barrier", "join", "promote", "seal", "outerBarrier",
               "outerJoin", "publish", "complete", "finalJoin"}
    /\ run \in 0..MaxRuns /\ lock \in 0..run
    /\ \A c \in Check : evidence[c].status \in {"none", "pass", "fail", "not_run"}
    /\ terminal \in {"none", "cancelled", "pressure", "unavailable"}
    /\ file \in [Check -> SUBSET (1..MaxRuns)]
    /\ receipt \in 0..run /\ overall \in {"none", "pass", "fail", "pending"}
    /\ result \in RunErrors \cup {"none", "ok"}

Init ==
    /\ RuntimeInit /\ WatchdogInit
    /\ pc = "idle" /\ plan \in Plans /\ row = 1 /\ index = 1 /\ run = 0
    /\ evidence = [c \in Check |-> NotYet] /\ terminal = "none"
    /\ lock = 0 /\ file = [c \in Check |-> {}]
    /\ moved = FALSE /\ movedEarly = FALSE
    /\ manifest = {} /\ promoted = {} /\ receipt = 0 /\ overall = "none" /\ result = "none"

-----------------------------------------------------------------------------
\* The state of a new process.  Containers are named after the run: it starts without any.
Forget ==
    /\ row' = 1 /\ index' = 1 /\ evidence' = [c \in Check |-> NotYet] /\ terminal' = "none"
    /\ moved' = FALSE /\ movedEarly' = FALSE /\ manifest' = {} /\ promoted' = {}
    /\ overall' = "none" /\ result' = "none"
    /\ step' = "idle" /\ kept' = NoOutcome /\ outcome' = NoOutcome
    /\ box' = [c \in Check |-> "none"] /\ code' = [c \in Check |-> "none"] /\ pending' = {}
    /\ token' = [token EXCEPT ![me] = "none"] /\ stop' = [stop EXCEPT ![me] = FALSE]
    /\ trip' = [trip EXCEPT ![me] = "none"] /\ state' = [state EXCEPT ![me] = NewState]
    /\ last' = [last EXCEPT ![me] = NoSnapshot]

(***************************************************************************)
(* A process: it has been admitted, has materialised its commit as a       *)
(* snapshot and, where the platform has one, starts the watchdog.          *)
(***************************************************************************)
BeginRun ==
    /\ pc = "idle" /\ run < MaxRuns
    /\ run' = run + 1 /\ pc' = "enter"
    /\ Forget
    /\ \E t \in {"off", "asleep"} : thread' = [thread EXCEPT ![me] = t]
    /\ UNCHANGED <<plan, lock, file, receipt>>

quiet == <<runtimeVars, watchdogVars>>
position == <<plan, row, run>>
records == <<evidence, terminal, index>>
rest == <<file, moved, movedEarly, manifest, promoted, receipt, overall>>
outside == <<lock, file, moved, manifest, promoted, receipt, overall>>

\* The function returns an error: PreparedWorkspace is dropped, and its lock with it.
FailWith(e) ==
    /\ pc' = "complete" /\ result' = e
    /\ lock' = IF lock = run THEN 0 ELSE lock

\* Storage and capability preflights, after a first look at the token.
Enter ==
    /\ pc = "enter"
    /\ \/ Pressure /\ FailWith("pressure")
       \/ ~Pressure /\ pc' = "probe" /\ UNCHANGED <<result, lock>>
       \/ FailWith("runtime")
    /\ UNCHANGED <<quiet, position, records, rest>>

\* runtime.probe, cancelled by the token or failing by itself.
Probe ==
    /\ pc = "probe"
    /\ \/ token[me] = "none" /\ pc' = "prepare" /\ UNCHANGED <<result, lock>>
       \/ FailWith(IF Pressure THEN "pressure" ELSE "runtime")
    /\ UNCHANGED <<quiet, position, records, rest>>

(***************************************************************************)
(* PreparedWorkspace::prepare_snapshot_with_generation.  The run root is   *)
(* that of the plan: it is locked, file artifacts are created empty and    *)
(* directory artifacts keep what they hold.                                *)
(***************************************************************************)
Prepare ==
    /\ pc = "prepare"
    /\ \/ /\ ~Pressure /\ lock = 0 /\ lock' = run
          /\ file' = [c \in Check |-> IF c \in Range(Row) \ Directory THEN {} ELSE file[c]]
          /\ pc' = "render" /\ UNCHANGED result
       \/ FailWith(IF Pressure THEN "pressure" ELSE "workspace") /\ UNCHANGED file
    /\ UNCHANGED <<quiet, position, records, moved, movedEarly, manifest, promoted, receipt, overall>>

\* dry_run, the clock and the environment; then the phase Executing.
Render ==
    /\ pc = "render"
    /\ (pc' = "loop" /\ UNCHANGED <<result, lock>>) \/ FailWith("runtime")
    /\ UNCHANGED <<quiet, position, records, rest>>

-----------------------------------------------------------------------------
(***************************************************************************)
(* The loop over the checks.  Before each one the token, the terminal      *)
(* reason and the dependencies are looked at, in this order.               *)
(***************************************************************************)
Current == Row[index]

\* cancellation_reason_text
CancelText == IF Pressure THEN "pressure" ELSE "cancelled"

Note(e, t) ==
    /\ evidence' = [evidence EXCEPT ![Current] = e]
    /\ terminal' = t /\ index' = index + 1

DependenciesPassed(c) == \A d \in Deps[c] : evidence[d].status = "pass"

NextCheck ==
    /\ pc = "loop" /\ index <= Len(Row)
    /\ \/ /\ token[me] # "none"
          /\ Note(NotRun(CancelText), CancelText) /\ UNCHANGED <<pc, runtimeVars>>
       \/ /\ token[me] = "none" /\ terminal # "none"
          /\ Note(NotRun(terminal), terminal) /\ UNCHANGED <<pc, runtimeVars>>
       \/ /\ token[me] = "none" /\ terminal = "none" /\ ~DependenciesPassed(Current)
          /\ Note(NotRun("dependency"), terminal) /\ UNCHANGED <<pc, runtimeVars>>
       \/ /\ token[me] = "none" /\ terminal = "none" /\ DependenciesPassed(Current)
          /\ pc' = "check"
          /\ \/ step' = "create" /\ UNCHANGED outcome
             \/ step' = "returned" /\ outcome' = Err("workspace")  \* revalidate_mount_sources
          /\ UNCHANGED <<kept, box, code, pending, records>>
    /\ UNCHANGED <<watchdogVars, position, outside, movedEarly, result>>

Executes ==
    /\ pc = "check"
    /\ RuntimeStep(Current, token[me])
    /\ UNCHANGED <<watchdogVars, pc, position, records, outside, movedEarly, result>>

\* evidence_from_result
EvidenceFromResult(o) ==
    IF o.termination = "timed_out" THEN EvidenceOf("fail", "none", "timed_out")
    ELSE IF o.termination = "cancelled" THEN EvidenceOf("fail", "none", "cancelled")
    ELSE IF o.exit = "success" THEN EvidenceOf("pass", "zero", "none")
    ELSE IF o.exit = "failure" THEN EvidenceOf("fail", "nonzero", "none")
    ELSE EvidenceOf("fail", "none", "none")

FatalErrors == {"lifecycle", "cleanup_uncertain"}

\* What the loop makes of the result of execute_check.
Conclude ==
    /\ pc = "check" /\ step = "returned"
    /\ step' = "idle" /\ outcome' = NoOutcome
    /\ LET interrupted == outcome.termination = "cancelled" /\ Pressure
           unverified  == IsOk(outcome) /\ ~interrupted /\ outcome.cleanup # "verified"
       IN  \/ /\ interrupted
              /\ Note(NotRun("pressure"), "pressure")
              /\ pc' = "loop" /\ UNCHANGED <<result, lock>>
           \/ unverified /\ FailWith("invariant") /\ UNCHANGED records
           \/ /\ IsOk(outcome) /\ ~interrupted /\ ~unverified
              /\ Note(EvidenceFromResult(outcome), terminal)
              /\ pc' = "loop" /\ UNCHANGED <<result, lock>>
           \/ outcome.error \in FatalErrors /\ FailWith("lifecycle") /\ UNCHANGED records
           \/ /\ ~IsOk(outcome) /\ outcome.error \notin FatalErrors
              /\ LET t == IF Pressure THEN "pressure" ELSE "unavailable" IN Note(NotRun(t), t)
              /\ pc' = "loop" /\ UNCHANGED <<result, lock>>
    /\ UNCHANGED <<kept, box, code, pending, watchdogVars, position, rest>>

-----------------------------------------------------------------------------
\* has_resource_pressure_not_run, checks_have_resource_not_run
PressureRecorded(checks) == \E c \in checks : evidence[c] = NotRun("pressure")

UnrecordedPressure == Pressure /\ ~PressureRecorded(Range(Row))

LoopEnds ==
    /\ pc = "loop" /\ index > Len(Row)
    /\ movedEarly' = moved
    /\ \/ UnrecordedPressure /\ FailWith("pressure")
       \/ ~UnrecordedPressure /\ pc' = "inspect" /\ UNCHANGED <<result, lock>>
    /\ UNCHANGED <<quiet, position, records, file, moved, manifest, promoted, receipt, overall>>

\* Mutant of InspectRepository: only a git failure ends the run.
InspectOnlyGit ==
    /\ pc = "inspect"
    /\ \/ pc' = "revalidate" /\ UNCHANGED <<result, lock>>
       \/ FailWith("io")
    /\ UNCHANGED <<quiet, position, records, rest>>

\* inspect_repository under a fresh token; another commit, or a change, ends the run.
InspectRepository ==
    /\ pc = "inspect"
    /\ \/ ~moved /\ pc' = "revalidate" /\ UNCHANGED <<result, lock>>
       \/ moved /\ FailWith("stale")
       \/ FailWith("io")
    /\ UNCHANGED <<quiet, position, records, rest>>

\* SourceSnapshot::revalidate, then the last look at the token before the barrier.
Revalidate ==
    /\ pc = "revalidate"
    /\ \/ UnrecordedPressure /\ FailWith("pressure")
       \/ ~UnrecordedPressure /\ pc' = "observe" /\ UNCHANGED <<result, lock>>
       \/ FailWith("runtime")
    /\ UNCHANGED <<quiet, position, records, rest>>

\* observe_artifacts: what is there must be plain and within the limits.
ObserveArtifacts ==
    /\ pc = "observe"
    /\ \/ /\ manifest' = {c \in Range(Row) \cap Producer : file[c] = {run}}
          /\ pc' = (IF Matrix THEN "promote" ELSE "barrier") /\ UNCHANGED <<result, lock>>
       \/ FailWith("artifact") /\ UNCHANGED manifest
    /\ UNCHANGED <<quiet, position, records, file, moved, movedEarly, promoted, receipt, overall>>

(***************************************************************************)
(* WatchdogCompletionBarrier::finalize: the watchdog is told to stop and   *)
(* joined; a trip is acceptable only if a check shows it.                  *)
(***************************************************************************)
TripAccepted(checks) ==
    trip[me] = "none" \/ (trip[me] \in {"hard", "soft"} /\ PressureRecorded(checks))

StopWatchdog ==
    /\ \/ pc = "barrier" /\ pc' = "join"
       \/ pc = "outerBarrier" /\ pc' = "outerJoin"
       \/ pc = "complete" /\ pc' = "finalJoin"
    /\ TellToStop(me)
    /\ UNCHANGED <<runtimeVars, position, records, outside, movedEarly, result>>

\* Mutant of JoinBarrier: the trip is read without waiting for the thread.
JoinBarrierAtOnce ==
    /\ \/ /\ pc = "join"
          /\ \/ TripAccepted(Range(Row)) /\ pc' = "promote" /\ UNCHANGED <<result, lock>>
             \/ ~TripAccepted(Range(Row)) /\ FailWith("pressure")
       \/ /\ pc = "outerJoin"
          /\ \/ TripAccepted(PlannedChecks) /\ pc' = "publish" /\ UNCHANGED <<result, lock>>
             \/ ~TripAccepted(PlannedChecks) /\ FailWith("pressure")
    /\ UNCHANGED <<quiet, position, records, rest>>

JoinBarrier ==
    /\ Joinable(me)
    /\ \/ /\ pc = "join"
          /\ \/ TripAccepted(Range(Row)) /\ pc' = "promote" /\ UNCHANGED <<result, lock>>
             \/ ~TripAccepted(Range(Row)) /\ FailWith("pressure")
       \/ /\ pc = "outerJoin"
          /\ \/ TripAccepted(PlannedChecks) /\ pc' = "publish" /\ UNCHANGED <<result, lock>>
             \/ ~TripAccepted(PlannedChecks) /\ FailWith("pressure")
    /\ UNCHANGED <<quiet, position, records, rest>>

AllPassed(checks) == \A c \in checks : evidence[c].status = "pass"

\* Mutant of MarkCachesComplete: the required checks decide, as they do for the receipt.
MarkWhenRequiredPassed ==
    /\ pc = "promote"
    /\ LET passed == AllPassed(Range(Row) \cap Required)
       IN  \/ passed /\ promoted' = promoted \cup {row} /\ pc' = "seal" /\ UNCHANGED <<result, lock>>
           \/ ~passed /\ pc' = "seal" /\ UNCHANGED <<promoted, result, lock>>
           \/ passed /\ FailWith("workspace") /\ UNCHANGED promoted
    /\ UNCHANGED <<quiet, position, records, file, moved, movedEarly, manifest, receipt, overall>>

\* mark_caches_complete, when every check of the row passed, required or not.
MarkCachesComplete ==
    /\ pc = "promote"
    /\ LET passed == AllPassed(Range(Row))
       IN  \/ passed /\ promoted' = promoted \cup {row} /\ pc' = "seal" /\ UNCHANGED <<result, lock>>
           \/ ~passed /\ pc' = "seal" /\ UNCHANGED <<promoted, result, lock>>
           \/ passed /\ FailWith("workspace") /\ UNCHANGED promoted
    /\ UNCHANGED <<quiet, position, records, file, moved, movedEarly, manifest, receipt, overall>>

-----------------------------------------------------------------------------
OverallStatus(checks) == DeriveStatus({evidence[c].status : c \in checks \cap Required})

\* ReceiptEnvelope::seal: the evidence is validated, and so is the run's window.
Seal ==
    /\ pc = "seal"
    /\ \/ /\ \A c \in Range(Row) : ValidEvidence(evidence[c])
          /\ lock' = 0 /\ UNCHANGED result
          /\ \/ ~Matrix /\ pc' = "publish" /\ UNCHANGED <<row, index, terminal>>
             \/ /\ Matrix /\ row < Len(plan)
                /\ pc' = "enter" /\ row' = row + 1 /\ index' = 1 /\ terminal' = "none"
             \/ Matrix /\ row = Len(plan) /\ pc' = "outerBarrier" /\ UNCHANGED <<row, index, terminal>>
       \/ FailWith("receipt") /\ UNCHANGED <<row, index, terminal>>
    /\ UNCHANGED <<quiet, plan, run, evidence, rest>>

\* write_receipt_bytes_atomic: the rename replaces a receipt that is already there.  A matrix gives
\* its slot back, removes its snapshot and seals the outer receipt first, and may fail at each.
Publish ==
    /\ pc = "publish"
    /\ pc' = "complete"
    /\ \/ receipt' = run /\ overall' = OverallStatus(PlannedChecks) /\ result' = "ok"
       \/ result' \in {"receipt", "io"} /\ UNCHANGED <<receipt, overall>>
       \/ Matrix /\ result' = "terminal" /\ UNCHANGED <<receipt, overall>>
    /\ UNCHANGED <<quiet, position, records, lock, file, moved, movedEarly, manifest, promoted>>

\* Mutant of Complete: every trip overrides the outcome.
CompleteTripWins ==
    /\ pc = "finalJoin" /\ Joinable(me)
    /\ pc' = "idle"
    /\ result' \in {IF ~Matrix /\ trip[me] # "none" THEN "pressure" ELSE result, "terminal"}
    /\ UNCHANGED <<quiet, position, records, outside, movedEarly>>

\* reconcile_watchdog_outcome, after ensure_joined; a matrix run only joins.
Reconciled ==
    IF ~Matrix /\ trip[me] # "none" /\ ~(result = "ok" /\ TripAccepted(PlannedChecks))
    THEN "pressure" ELSE result

\* finalize_run_terminal and what follows it: the slot is given back, the snapshot removed and the
\* end journaled; a failure of any of these is what the run returns, whatever it had achieved.
Complete ==
    /\ pc = "finalJoin" /\ Joinable(me)
    /\ pc' = "idle"
    /\ result' \in {Reconciled, "terminal"}
    /\ UNCHANGED <<quiet, position, records, outside, movedEarly>>

-----------------------------------------------------------------------------
UserCancels ==
    /\ pc # "idle" /\ token[me] = "none"
    /\ SetReason(me, "user")
    /\ UNCHANGED <<runtimeVars, thread, stop, trip, state, last, pc, position, records, outside,
                   movedEarly, result>>

WatchdogRuns ==
    /\ pc # "idle" /\ ThreadStep(me)
    /\ UNCHANGED <<runtimeVars, pc, position, records, outside, movedEarly, result>>

CheckoutMoves ==
    /\ pc # "idle" /\ ~moved
    /\ moved' = TRUE
    /\ UNCHANGED <<quiet, pc, position, records, lock, file, manifest, promoted, receipt, overall,
                   movedEarly, result>>

\* The workload writes to the artifact it declares: a file anew, or into a directory.
WorkloadWrites(c) ==
    /\ pc # "idle" /\ c \in Producer /\ box[c] = "running" /\ run \notin file[c]
    /\ file' = [file EXCEPT ![c] = IF c \in Directory THEN @ \cup {run} ELSE {run}]
    /\ UNCHANGED <<quiet, pc, position, records, lock, moved, manifest, promoted, receipt, overall,
                   movedEarly, result>>

\* Between two processes the daemon's steps make no difference here.
Daemon(c) ==
    /\ pc # "idle" /\ DaemonStep(c)
    /\ UNCHANGED <<watchdogVars, pc, position, records, outside, movedEarly, result>>

\* The process dies: its lock file stays.
Crash ==
    /\ pc # "idle"
    /\ pc' = "idle"
    /\ Forget
    /\ thread' = [thread EXCEPT ![me] = "off"]
    /\ UNCHANGED <<plan, run, lock, file, receipt>>

Next ==
    \/ BeginRun \/ Enter \/ Probe \/ Prepare \/ Render
    \/ NextCheck \/ Executes \/ Conclude \/ LoopEnds
    \/ InspectRepository \/ Revalidate \/ ObserveArtifacts
    \/ StopWatchdog \/ JoinBarrier \/ MarkCachesComplete \/ Seal \/ Publish \/ Complete
    \/ UserCancels \/ WatchdogRuns \/ CheckoutMoves \/ Crash
    \/ \E c \in Check : WorkloadWrites(c) \/ Daemon(c)

Spec == Init /\ [][Next]_vars

-----------------------------------------------------------------------------
\* The run published its receipt, and has not crashed since.
Published == receipt = run /\ result # "none"

\* A check that passed ran to exit code zero after its dependencies had passed, and its container
\* is gone from the daemon, with no request left that could bring it back (execute_check).
PassedForReal ==
    \A c \in Check : evidence[c].status = "pass" =>
        /\ code[c] = "zero" /\ box[c] = "none" /\ <<c, "create">> \notin pending
        /\ DependenciesPassed(c)

\* A receipt that says PASS was deserved: every required check passed in this very run, and the
\* checkout was still on the run's commit, unchanged, after the last check (run.rs).
PassIsDeserved ==
    Published /\ overall = "pass" =>
        /\ \A c \in PlannedChecks \cap Required : code[c] = "zero" /\ evidence[c].status = "pass"
        /\ ~movedEarly

\* Pressure is reported, and as pressure.  When a receipt is published the watchdog has ended, and a
\* trip it recorded shows in the receipt as a check that did not run (CompletionBarrier); a check is
\* reported as cancelled only if the user cancelled it.
PressureIsReported ==
    /\ Published =>
        /\ Joinable(me)
        /\ trip[me] # "none" => \E c \in PlannedChecks : evidence[c] = NotRun("pressure")
    /\ \A c \in Check : evidence[c].flag = "cancelled" => token[me] = "user"

\* The caches of an ordinary run become the last known good ones only after all its checks passed,
\* the commit was confirmed and the watchdog had ended without a trip (mark_caches_complete).
PromotedAfterVerdict ==
    \A r \in promoted :
        /\ AllPassed(Range(plan[r]))
        /\ ~Matrix => ~movedEarly /\ Joinable(me) /\ trip[me] = "none"

\* A run that ends by itself and reports success has published its receipt; one whose receipt is on
\* disk reports success, unless giving back the slot, removing the snapshot or journaling the end
\* failed after the publication, so that the watchdog's last word never contradicts what is already
\* there (reconcile_watchdog_outcome, print_run).  Either way it leaves its workspace free for the
\* next one (WorkspaceLock).
EndIsClean ==
    pc = "idle" /\ result # "none" =>
        /\ result = "ok" => receipt = run
        /\ receipt = run => result \in {"ok", "terminal"}
        /\ lock # run
=============================================================================
