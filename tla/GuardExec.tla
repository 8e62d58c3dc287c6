----------------------------- MODULE GuardExec -------------------------------
(***************************************************************************)
(* The guard exec command of src/main.rs: a session takes the host-wide    *)
(* admission slot, checks the host's memory, starts a watchdog, runs one   *)
(* command under the process supervisor and, whatever happened, joins the  *)
(* watchdog, appends a record to the resource history shared by all        *)
(* sessions, gives the slot back and turns the result into an exit code.   *)
(*                                                                         *)
(* Sessions are processes of their own.  The slot is what FifoSlot         *)
(* promises, without the order of the queue; the supervisor is what        *)
(* SupervisorContract promises.                                            *)
(***************************************************************************)
EXTENDS Watchdog, ProcessOutcome

CONSTANTS
    NoSession,
    HistoryLimit,   \* DEFAULT_RESOURCE_HISTORY_V2_RECORDS
    MaxFaults       \* bound on failures of the history's storage

ASSUME NoSessionAssumption == NoSession \notin Owner
ASSUME HistoryAssumption == HistoryLimit \in Nat \ {0} /\ MaxFaults \in Nat

VARIABLES
    macos,      \* whether the platform enforces the policy
    pc,         \* where the session is
    slot,       \* the session admitted to the host
    child,      \* child[s]: the session's command, "none" or "alive"
    uncertain,  \* sessions told that the end of their command is uncertain
    result,     \* result[s]: what the session is about to report
    keeps,      \* keeps[s]: whether the session observes for the history
    record,     \* record[s]: the history record under construction
    buffer,     \* buffer[s]: the records read before the append
    history,    \* the history file: for every record, the session it is about
    appended,   \* the same for every record an append has written, in order
    exit,       \* exit[s]: how the command ended
    faults

store == <<record, buffer, history, appended, faults>>
vars == <<watchdogVars, macos, pc, slot, child, uncertain, result, keeps, record, buffer, history,
          appended, exit, faults>>

Session == Owner

FinishSteps == {"stopWatchdog", "join", "outcome", "detail", "read", "write",
                "finalize", "release", "classify"}
Active == {"acquire", "open", "prestart", "start", "pin", "spawn", "running"} \cup FinishSteps

GuardErrors == {"cache", "resource"}

NoRecord == [outcome |-> "none", detail |-> "none", trip |-> "none", snapshot |-> NoSnapshot]

RunOutcomes == {"completed", "failed", "cancelled", "timed_out", "resource_pressure"}

ExitKinds == {"none", "success", "child_exit", "timed_out", "cancelled", "pressure", "failed",
              "admission", "usage"}

TypeOK ==
    /\ WatchdogTypeOK
    /\ macos \in BOOLEAN
    /\ pc \in [Session -> Active \cup {"idle", "leaving", "exited", "crashed"}]
    /\ slot \in Session \cup {NoSession}
    /\ child \in [Session -> {"none", "alive"}] /\ uncertain \subseteq Session
    /\ \A s \in Session : result[s] \in Outcomes \cup {NoOutcome} \cup {Err(e) : e \in GuardErrors}
    /\ keeps \in [Session -> BOOLEAN]
    /\ exit \in [Session -> ExitKinds]
    /\ Len(history) <= HistoryLimit
    /\ faults \in 0..MaxFaults

Init ==
    /\ WatchdogInit
    /\ macos \in BOOLEAN
    /\ pc = [s \in Session |-> "idle"]
    /\ slot = NoSession
    /\ child = [s \in Session |-> "none"] /\ uncertain = {}
    /\ result = [s \in Session |-> NoOutcome]
    /\ keeps = [s \in Session |-> FALSE]
    /\ record = [s \in Session |-> NoRecord]
    /\ buffer = [s \in Session |-> <<>>]
    /\ history = <<NoSession>>
    /\ appended = history
    /\ exit = [s \in Session |-> "none"]
    /\ faults = 0

-----------------------------------------------------------------------------
Goto(s, step) == pc' = [pc EXCEPT ![s] = step]

Leave(s, how) ==
    /\ Goto(s, "leaving")
    /\ exit' = [exit EXCEPT ![s] = how]
    /\ result' = [result EXCEPT ![s] = NoOutcome]

\* session.finish(result) begins.
Finish(s, o) == Goto(s, "stopWatchdog") /\ result' = [result EXCEPT ![s] = o]

\* The arguments are checked before anything else; then the session queues.
Begin(s) ==
    /\ pc[s] = "idle"
    /\ (Goto(s, "acquire") /\ UNCHANGED <<exit, result>>) \/ Leave(s, "usage")
    /\ UNCHANGED <<watchdogVars, macos, slot, child, uncertain, keeps, store>>

Acquire(s) ==
    /\ pc[s] = "acquire" /\ slot = NoSession
    /\ slot' = s
    /\ Goto(s, "open")
    /\ UNCHANGED <<watchdogVars, macos, child, result, uncertain, keeps, store, exit>>

\* The queue timed out, the user cancelled, or the coordinator is unavailable.
AcquireFails(s) ==
    /\ pc[s] = "acquire"
    /\ Leave(s, "admission")
    /\ UNCHANGED <<watchdogVars, macos, slot, child, uncertain, keeps, store>>

\* ManagedCache::open, when the session uses a managed cache.
OpenCache(s) ==
    /\ pc[s] = "open"
    /\ (Goto(s, "prestart") /\ UNCHANGED result) \/ Finish(s, Err("cache"))
    /\ UNCHANGED <<watchdogVars, macos, slot, child, uncertain, keeps, store, exit>>

(***************************************************************************)
(* resource_pre_start: the snapshot admits the run, or it is refused; so   *)
(* is a run whose snapshot cannot be taken.                                *)
(***************************************************************************)
PreStart(s) ==
    /\ pc[s] = "prestart"
    /\ \/ ~macos /\ Goto(s, "start") /\ UNCHANGED <<last, result>>
       \/ /\ macos
          /\ \E snapshot \in Sample :
               \/ Admits(snapshot) /\ last' = [last EXCEPT ![s] = snapshot] /\ Goto(s, "start")
                  /\ UNCHANGED result
               \/ ~Admits(snapshot) /\ Finish(s, Err("resource")) /\ UNCHANGED last
       \/ macos /\ Finish(s, Err("resource")) /\ UNCHANGED last
    /\ UNCHANGED <<token, thread, stop, trip, state, macos, slot, child, uncertain, keeps, store, exit>>

\* start_watchdog; the history may be disabled, or its root unusable.
StartWatchdog(s) ==
    /\ pc[s] = "start"
    /\ \/ macos /\ StartThread(s, last[s]) /\ \E b \in BOOLEAN : keeps' = [keeps EXCEPT ![s] = b]
       \/ ~macos /\ UNCHANGED <<watchdogVars, keeps>>
    /\ Goto(s, "pin")
    /\ UNCHANGED <<macos, slot, child, result, uncertain, store, exit>>

\* pin_completed_sources and the revalidation of the pins.
PinCache(s) ==
    /\ pc[s] = "pin"
    /\ (Goto(s, "spawn") /\ UNCHANGED result) \/ Finish(s, Err("cache"))
    /\ UNCHANGED <<watchdogVars, macos, slot, child, uncertain, keeps, store, exit>>

\* execute_with_output: the command starts, or the call returns without it.
Spawn(s) ==
    /\ pc[s] = "spawn"
    /\ \/ token[s] = "none" /\ child' = [child EXCEPT ![s] = "alive"] /\ Goto(s, "running")
          /\ UNCHANGED result
       \/ token[s] # "none" /\ Finish(s, NeverStarted) /\ UNCHANGED child
       \/ Finish(s, Err("spawn")) /\ UNCHANGED child
    /\ UNCHANGED <<watchdogVars, macos, slot, uncertain, keeps, store, exit>>

(***************************************************************************)
(* What the supervisor may return here.  The session does not tell process *)
(* errors apart, except by the command they leave behind, and looks at the *)
(* exit of a command only when it completed: one of each stands for all.   *)
(***************************************************************************)
Returned(alive) ==
    AfterStart(alive) \cap
      ({Ok("completed", "verified", e) : e \in Exits}
         \cup {Ok(t, "verified", "signalled") : t \in Terminations}
         \cup {Err("output"), Err("cleanup_uncertain")})

ChildEnds(s) ==
    /\ child[s] = "alive"
    /\ child' = [child EXCEPT ![s] = "none"]
    /\ UNCHANGED <<watchdogVars, macos, pc, slot, result, uncertain, keeps, store, exit>>

\* Mutant of SupervisorReturns: a result without the seal of the process group.
SupervisorReturnsEarly(s) ==
    /\ pc[s] = "running"
    /\ \E o \in Returned(FALSE) :
         /\ o.termination = "cancelled" => token[s] # "none"
         /\ Finish(s, o)
         /\ uncertain' = IF o = Err("cleanup_uncertain") THEN uncertain \cup {s} ELSE uncertain
    /\ UNCHANGED <<watchdogVars, macos, slot, child, keeps, store, exit>>

SupervisorReturns(s) ==
    /\ pc[s] = "running"
    /\ \E o \in Returned(child[s] = "alive") :
         /\ o.termination = "cancelled" => token[s] # "none"
         /\ Finish(s, o)
         /\ uncertain' = IF o = Err("cleanup_uncertain") THEN uncertain \cup {s} ELSE uncertain
    /\ UNCHANGED <<watchdogVars, macos, slot, child, keeps, store, exit>>

-----------------------------------------------------------------------------
(* GuardExecSession::finish.                                               *)

\* ensure_joined tells the thread to stop and waits for its end.
StopWatchdog(s) ==
    /\ pc[s] = "stopWatchdog"
    /\ TellToStop(s)
    /\ Goto(s, "join")
    /\ UNCHANGED <<macos, slot, child, result, uncertain, keeps, store, exit>>

AfterJoin(s) == IF keeps[s] THEN "outcome" ELSE "finalize"

\* Mutant of Join: the trip is read without waiting for the thread.
JoinWithoutWaiting(s) ==
    /\ pc[s] = "join"
    /\ Goto(s, AfterJoin(s))
    /\ UNCHANGED <<watchdogVars, macos, slot, child, result, uncertain, keeps, store, exit>>

\* Mutant of Join: the slot is given back before the append.
JoinAndRelease(s) ==
    /\ pc[s] = "join" /\ Joinable(s)
    /\ slot' = NoSession
    /\ Goto(s, AfterJoin(s))
    /\ UNCHANGED <<watchdogVars, macos, child, result, uncertain, keeps, store, exit>>

Join(s) ==
    /\ pc[s] = "join" /\ Joinable(s)
    /\ thread' = [thread EXCEPT ![s] = "off"]
    /\ stop' = [stop EXCEPT ![s] = FALSE]
    /\ Goto(s, AfterJoin(s))
    /\ UNCHANGED <<token, trip, state, last, macos, slot, child, result, uncertain, keeps, store, exit>>

Pressure(s) == trip[s] # "none" \/ token[s] = "resource_pressure"

ResourceRunOutcome(s) ==
    CASE Pressure(s) -> "resource_pressure"
      [] ~Pressure(s) /\ (token[s] = "user" \/ result[s].termination = "cancelled") -> "cancelled"
      [] ~Pressure(s) /\ token[s] # "user" /\ result[s].termination = "timed_out" -> "timed_out"
      [] ~Pressure(s) /\ token[s] # "user" /\ result[s].termination = "completed"
           /\ result[s].exit = "success" -> "completed"
      [] OTHER -> "failed"

ResourceTerminalDetail(s) ==
    IF Pressure(s) THEN "resource_pressure"
    ELSE IF token[s] = "user" THEN "user_cancelled"
    ELSE CASE result[s].termination = "cancelled" -> "user_cancelled"
           [] result[s].termination = "timed_out" -> "timed_out"
           [] result[s].termination = "completed" ->
                (CASE result[s].exit = "success" -> "none"
                   [] result[s].exit = "failure" -> "child_exit"
                   [] OTHER -> "internal_failure")
           [] result[s].error \in Errors -> "process_supervision_failure"
           [] OTHER -> "internal_failure"

\* The outcome and the detail of the record read the token one after the other.
RecordOutcome(s) ==
    /\ pc[s] = "outcome"
    /\ record' = [record EXCEPT ![s] = [NoRecord EXCEPT !.outcome = ResourceRunOutcome(s)]]
    /\ Goto(s, "detail")
    /\ UNCHANGED <<watchdogVars, macos, slot, child, result, uncertain, keeps, buffer, history, appended, exit,
                   faults>>

\* ResourceHistoryRecordV2::validate.
ValidRecord(r) ==
    \/ r.detail = "none"
    \/ /\ r.outcome = "failed"
       /\ r.detail \in {"child_exit", "process_supervision_failure", "internal_failure"}
    \/ r.outcome = "cancelled" /\ r.detail = "user_cancelled"
    \/ r.outcome = r.detail /\ r.outcome \in {"timed_out", "resource_pressure"}

\* from_summary, and the validation append_v2 begins with.
RecordDetail(s) ==
    /\ pc[s] = "detail"
    /\ record' = [record EXCEPT ![s].detail = ResourceTerminalDetail(s),
                                ![s].trip = trip[s],
                                ![s].snapshot = IF trip[s] \in {"hard", "soft"} THEN last[s]
                                                ELSE NoSnapshot]
    /\ last' = [last EXCEPT ![s] = NoSnapshot]
    /\ Goto(s, IF ValidRecord(record'[s]) THEN "read" ELSE "finalize")
    /\ UNCHANGED <<token, thread, stop, trip, state, macos, slot, child, result, uncertain, keeps, buffer,
                   history, appended, exit, faults>>

ReadHistory(s) ==
    /\ pc[s] = "read"
    /\ buffer' = [buffer EXCEPT ![s] = history]
    /\ Goto(s, "write")
    /\ UNCHANGED <<watchdogVars, macos, slot, child, result, uncertain, keeps, record, history, appended, exit,
                   faults>>

\* The oldest records are dropped until there is room for one more.
Kept(records) ==
    IF Len(records) >= HistoryLimit
    THEN SubSeq(records, Len(records) - HistoryLimit + 2, Len(records))
    ELSE records

\* write_records_atomic: the new file replaces the old one in one rename.
WriteHistory(s) ==
    /\ pc[s] = "write"
    /\ history' = Append(Kept(buffer[s]), s)
    /\ appended' = Append(appended, s)
    /\ buffer' = [buffer EXCEPT ![s] = <<>>]
    /\ Goto(s, "finalize")
    /\ UNCHANGED <<watchdogVars, macos, slot, child, result, uncertain, keeps, record, exit, faults>>

\* A failing append is a warning.
HistoryFails(s) ==
    /\ pc[s] \in {"read", "write"} /\ faults < MaxFaults
    /\ faults' = faults + 1
    /\ buffer' = [buffer EXCEPT ![s] = <<>>]
    /\ Goto(s, "finalize")
    /\ UNCHANGED <<watchdogVars, macos, slot, child, result, uncertain, keeps, record, history, appended, exit>>

\* A record of the session is among the records.
HasRecord(records, s) == \E i \in 1..Len(records) : records[i] = s

\* The observation is gone; of the record, what was appended is remembered.
DropObservation(s) ==
    /\ keeps' = [keeps EXCEPT ![s] = FALSE]
    /\ last' = [last EXCEPT ![s] = NoSnapshot]
    /\ record' = [record EXCEPT ![s] = IF HasRecord(appended, s)
                                       THEN [NoRecord EXCEPT !.outcome = record[s].outcome] ELSE NoRecord]

\* finalize_guard_exec_result: pressure replaces whatever the command returned.
Finalize(s) ==
    /\ pc[s] = "finalize"
    /\ result' = [result EXCEPT ![s] = IF Pressure(s) THEN Err("resource") ELSE @]
    /\ DropObservation(s)
    /\ Goto(s, "release")
    /\ UNCHANGED <<token, thread, stop, trip, state, macos, slot, child, uncertain, buffer,
                   history, appended, faults, exit>>

ErrorExit(error) == IF error = "resource" THEN "pressure" ELSE "failed"

\* The guard is released, which may report an error of its own.
Release(s) ==
    /\ pc[s] = "release"
    /\ slot' = NoSession
    /\ \/ Leave(s, "admission")
       \/ IsOk(result[s]) /\ Goto(s, "classify") /\ UNCHANGED <<exit, result>>
       \/ ~IsOk(result[s]) /\ Leave(s, ErrorExit(result[s].error))
    /\ UNCHANGED <<watchdogVars, macos, child, uncertain, keeps, store>>

\* classify_guard_result.
Classify(s) ==
    /\ pc[s] = "classify"
    /\ Leave(s, CASE result[s].termination = "timed_out" -> "timed_out"
                  [] result[s].termination = "cancelled" ->
                       IF token[s] = "resource_pressure" THEN "pressure" ELSE "cancelled"
                  [] OTHER ->
                       CASE token[s] = "user" -> "cancelled"
                         [] token[s] # "user" /\ result[s].exit = "success" -> "success"
                         [] token[s] # "user" /\ result[s].exit = "failure" -> "child_exit"
                         [] OTHER -> "failed")
    /\ UNCHANGED <<watchdogVars, macos, slot, child, uncertain, keeps, store>>

-----------------------------------------------------------------------------
\* The handler installed before the session queues: the user asks it to stop.
UserCancels(s) ==
    /\ pc[s] \in Active /\ token[s] = "none"
    /\ SetReason(s, "user")
    /\ UNCHANGED <<thread, stop, trip, state, last, macos, pc, slot, child, result, uncertain, keeps, store,
                   exit>>

WatchdogRuns(s) ==
    /\ pc[s] \in Active
    /\ ThreadStep(s)
    /\ UNCHANGED <<macos, pc, slot, child, result, uncertain, keeps, store, exit>>

\* What lived in the memory of the session's process is gone with it.
Forget(s) ==
    /\ token' = [token EXCEPT ![s] = "none"]
    /\ thread' = [thread EXCEPT ![s] = "off"]
    /\ stop' = [stop EXCEPT ![s] = FALSE]
    /\ trip' = [trip EXCEPT ![s] = "none"]
    /\ state' = [state EXCEPT ![s] = NewState]
    /\ last' = [last EXCEPT ![s] = NoSnapshot]
    /\ result' = [result EXCEPT ![s] = NoOutcome]
    /\ keeps' = [keeps EXCEPT ![s] = FALSE]
    /\ record' = [record EXCEPT ![s] = NoRecord]
    /\ buffer' = [buffer EXCEPT ![s] = <<>>]
    /\ exit' = [exit EXCEPT ![s] = "none"]

Exit(s) ==
    /\ pc[s] = "leaving"
    /\ Goto(s, "exited")
    /\ Forget(s)
    /\ UNCHANGED <<macos, slot, child, uncertain, history, appended, faults>>

\* The session's process dies: its locks and its thread go, its command stays.
Crash(s) ==
    /\ pc[s] \in Active
    /\ Goto(s, "crashed")
    /\ slot' = IF slot = s THEN NoSession ELSE slot
    /\ Forget(s)
    /\ UNCHANGED <<macos, child, uncertain, history, appended, faults>>

Step(s) ==
    \/ Begin(s) \/ Acquire(s) \/ AcquireFails(s) \/ OpenCache(s) \/ PreStart(s)
    \/ StartWatchdog(s) \/ PinCache(s) \/ Spawn(s) \/ SupervisorReturns(s)
    \/ StopWatchdog(s) \/ Join(s) \/ RecordOutcome(s) \/ RecordDetail(s)
    \/ ReadHistory(s) \/ WriteHistory(s) \/ HistoryFails(s)
    \/ Finalize(s) \/ Release(s) \/ Classify(s) \/ Exit(s)

Next == \E s \in Session : Step(s) \/ WatchdogRuns(s) \/ ChildEnds(s) \/ UserCancels(s) \/ Crash(s)

Spec == Init /\ [][Next]_vars

-----------------------------------------------------------------------------
(***************************************************************************)
(* Two guarded commands are never alive together, except for one whose     *)
(* session died or could not make sure of its end: guard exec holds the    *)
(* slot from before the command starts until after its group is gone.      *)
(***************************************************************************)
OneGuardedCommand ==
    \A s, t \in Session :
      s # t /\ child[s] = "alive" /\ child[t] = "alive" =>
        {s, t} \cap uncertain # {} \/ "crashed" \in {pc[s], pc[t]}

(***************************************************************************)
(* The history file always holds the latest HistoryLimit records that were *)
(* appended: the read, the trim and the rename of one session never lose   *)
(* the record of another (append_v2 is called before the release).         *)
(***************************************************************************)
HistoryKeepsTheLatest ==
    history = IF Len(appended) > HistoryLimit
              THEN SubSeq(appended, Len(appended) - HistoryLimit + 1, Len(appended))
              ELSE appended

(***************************************************************************)
(* The exit code tells what happened, and the history agrees with it.  A   *)
(* session whose watchdog tripped never reports success, however late the  *)
(* trip came: finish reads the trip after it has joined the thread.  A     *)
(* success is recorded as completed, a pressure record belongs to a        *)
(* pressure exit, and a recorded timeout to a timeout, unless the release  *)
(* failed afterwards.                                                      *)
(***************************************************************************)
ExitTellsWhatHappened ==
    \A s \in Session :
      pc[s] = "leaving" =>
        /\ exit[s] = "success" => trip[s] = "none"
        /\ HasRecord(appended, s) /\ exit[s] # "admission" =>
             /\ exit[s] = "success" => record[s].outcome = "completed"
             /\ record[s].outcome = "resource_pressure" <=> exit[s] = "pressure"
             /\ record[s].outcome = "timed_out" => exit[s] = "timed_out"

(***************************************************************************)
(* A trip is justified by the samples: a hard one by the sample recorded   *)
(* last, a soft one by consecutive samples under soft pressure, the last   *)
(* and the one before it (observe).  And no session starts on a host its   *)
(* own watchdog would at once call out of memory (evaluate_pre_start).     *)
(***************************************************************************)
TripsAreJustified ==
    [][\A s \in Session :
         /\ trip[s] = "none" /\ trip'[s] = "hard" => HardPressure(last'[s])
         /\ trip[s] = "none" /\ trip'[s] = "soft" =>
              /\ SoftPressure(state[s].window, last[s])
              /\ SoftPressure(state'[s].window, last'[s])
         /\ macos /\ pc[s] = "start" => ~HardPressure(last[s])]_vars
=============================================================================
