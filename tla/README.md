# Verification of commit-ci-preflight

TLA+ modules, TLC configurations and TLAPS proofs about commit-ci-preflight
(CCP). `PROJECT.json` maps every definition to the lines it models and lists
components, runs, mutants, findings, hazards and theorems. Line numbers below
refer to `src/src/`.

## 1. The system

CCP runs the checks of a repository on the developer's machine, in containers,
and writes a receipt for a commit. Several CCP processes may run on one host at
the same time; they meet only in files.

| part | state | behaviours that are hard to test |
|---|---|---|
| host admission (`admission.rs`) | `tickets/`, `leases/`, `quarantine/`, the ticket counter, OS locks on `queue.lock`, `slot.lock` and every ticket | lock-step interleavings of many processes; crash between any two file operations; drops without the queue lock; an operator who reconciles meanwhile |
| managed cache (`cache.rs`) | entries (`data/`, `.complete`, manifest, backup), promotion journal, entry locks | promotion of several entries interrupted anywhere, recovery interrupted again, pins against promotions |
| run journal (`run_journal.rs`) | one append-only directory per run | torn last entry, runs that end without a terminal entry, recovery of a live run |
| run orchestration (`run.rs`, `main.rs`, `terminal.rs`) | phase of a run, evidence, receipt, admission guard | order of receipt, release and journal on error paths; a checkout that moves under the run |
| process supervisor (`process.rs`) | process group, deadline, cancellation token, reader threads | exit, timeout, cancellation and a new generation race; a group that does not die |
| resource guard (`resource.rs`, `resource_history.rs`) | watchdog thread, samples, history file | a trip against the normal end, lost updates |
| container runtime (`runtime.rs`) | containers at the daemon | a request that the daemon carries out after its CLI was killed |
| workspace and source snapshot (`workspace.rs`, `source_snapshot.rs`) | `.run-lock-v1`, artifacts, mounts, snapshot tree, overlay | what an earlier run left, mount points in the commit's own tree |
| configuration, plan, matrix (`config.rs`, `matrix.rs`, `matrix_legacy.rs`) | documents and digests | orders, cycles, nested paths, what a digest binds |
| receipts and verification (`receipt.rs`, `verify.rs`) | documents, clocks | files that change between two readings, dates at boundaries, damaged documents |

How they interact: a run takes the admission slot, opens its journal, locks its
workspace, prepares the cache entries of its plan, executes the checks under
supervisor and watchdog, promotes the caches when every check passes, publishes
the receipt, releases the slot and closes the journal. A guarded command (`guard
exec`) takes the same slot and pins complete cache entries for its child.

What correctness means here: at most one holder of the slot, in order of
arrival, whatever dies; nobody loses what it holds to somebody else's cleanup;
a cache entry that looks complete is the last one completed, and the last good
payload is never lost; the journal of a run tells truly how it ended, and
a receipt exists only for the commit that was checked and says what happened to
its checks; no process of a command outlives it unnoticed; a configuration that
is accepted can be run as it says; a receipt is accepted by a policy exactly when
its run deserves it.

## 2. Modules

| module | models |
|---|---|
| `Admission` | `AdmissionCoordinator::acquire`, `scan_tickets`, `remove_stale`, `next_ticket_id`, `create_ticket`, `activate_lease`, `HeartbeatHandle`, `TicketReservation` and `AdmissionGuard`; crashes, storage failures, ageing leases |
| `AdmissionReconcile`, `AdmissionRoot` | on top of it: `status`, `reconcile` preview and apply; `initialize_until` on an absent directory |
| `FifoSlot` | the abstract promise: one slot handed out in order of arrival |
| `CachePromotion` | `prepare_entry`, `promote_entries`, `recover_promotion_locked`, `create_promotion_journal`, `execute_promotion`, `finalize_promotion`, `pin_completed_sources`, `WorkspaceLock` |
| `RunJournal`, `RunLifecycle` | the journal store; the `run` command on it, single and matrix, with `recover apply` |
| `ProcessSupervisor` | `ProcessSupervisor::execute` with deadlines, cancellation, generations, graceful and forced stop, the sealing of the group, reader threads |
| `SupervisorContract`, `ProcessOutcome` | what `execute` promises the rest of the program, and what it returns |
| `ResourcePolicy`, `Watchdog` | `ResourceSnapshot::validate`, `evaluate_pre_start`, `WatchdogState::observe`; `ResourceWatchdog`, its thread and the shared `CancellationToken` |
| `GuardExec` | `guard exec`: slot, prestart check, watchdog, command, history record, release, exit code |
| `ContainerRuntime` | `execute_check`: the sequence of docker commands of one check, against a daemon that may act late |
| `Evidence` | `CheckEvidence`, its validation, the status of several checks |
| `CheckRun` | `execute_local_receipt_and_artifacts_with_dependencies` and the publication of the receipt, for one row or a matrix; extends `ContainerRuntime`, `Watchdog`, `Evidence` |
| `CheckOrder` | `topological_checks` |
| `PlanBuild` | `ConfigV1::into_plan`, `build_plan_with_profile` and the legacy projection: validation, normalisation, order, digests |
| `SourceSnapshot`, `WorkspacePlan` | the snapshot, its overlay and revalidation; a plan of `PlanBuild` at work: mounts, environment, artifacts over several runs |
| `Calendar`, `Receipts` | dates to seconds and back; documents, sealing, integrity |
| `Verification` | `verify`: policies of every version, age, trusted configuration, matrix policy; two readings of every file |
| `AdmissionProofs`, `ReconcileProofs`, `CheckRunProofs`, `SupervisorProofs`, `LifecycleProofs`, `CacheProofs`, `GuardProofs`, `DocumentProofs` | proofs (section 4) |
| `MC...` | instances for TLC |

Each module with variables has a `TypeOK` that documents the range of its state.
The one of `Admission` is proved; those of `ProcessSupervisor`, `RunLifecycle` and
`CachePromotion` are part of a proved invariant, and so is most of the one of
`GuardExec`.

The composition goes through abstract specifications where they exist:
`Admission` implements `FifoSlot`, and `RunLifecycle`, `GuardExec` and `CheckRun`
use one slot with one holder; `ProcessSupervisor` implements
`SupervisorContract`, and `GuardExec` and `ContainerRuntime` take any of its
outcomes. `WorkspacePlan` runs the plans `PlanBuild` accepted, and `CheckRun`
executes checks in an order `CheckOrder` gives.

### Admission

`ticket[i]` is the file of number `i` in `tickets/` (none, staging, present) or
in `quarantine/`; `lease[i]` is its lease file (none, torn, queued, active) and
`expired` the numbers whose lease is past its time; `ticketLock`, `queue` and
`slot` are the OS locks; `counter` is the persistent next number; `own`, `pc`,
`pass`, `hb` are the ticket, the program point, the pass of `release_inner` and
the heartbeat thread of each process; `todo`, `live`, `stale` are the local
variables of the one scan that can be in progress (it runs under the queue lock).

Every file operation that another process or a crash can observe is a step of
its own. The exceptions, where one action stands for a run of operations that
nobody can tell apart: the listing of `tickets/` with its size check, the scan
of one ticket (read, lock, read lease, unlock), and `activate_lease` with the
start of the heartbeat. Storage may refuse any creation, replacement, rename or
removal, which then has no effect; reading and locking do not fail by
themselves. Ticket ids are zero-padded to 20 digits, so the order of the names
is the order of the numbers. `initialize_until` on an initialised root changes
nothing. A crash closes all descriptors of a process, its locks go with them.

Not in `Admission`: files nobody of CCP wrote (malformed or foreign tickets),
failures of unlocking, and clocks that are set back. The last can leave a lease
whose heartbeat is earlier than its acquisition; a preview may therefore find any
lease "invalid" (`Classification`), and an apply may refuse at any step before its
first change.

`AdmissionReconcile` adds the commands `admission status`, `reconcile` and
`reconcile --apply` of an `Operator`: its `step`, the selected ids (`chosen`),
what the apply has done to them (`unleased`, `moved`) and what it prints
(`report`). It takes the queue lock, so it uses the scan variables; droppers and
heartbeat threads take no queue lock and run between any two of its steps.
`AdmissionRoot` adds the first use of the directory: the owner marker is created
and then written, the three directories follow, and a crash or a storage failure
may come between (`cut`).

### CachePromotion

`data`, `marker`, `manifest`, `backup` are the files of an entry; a payload is
the number of the run that built it, and -1 is a tree whose removal was begun
(`remove_dir_all` takes two steps). Files created under their final name
(`.complete`, the journal, restored files) are empty first and written in the
next step. `journal` is the promotion journal with what it records. `made` gives
the generation each run was started with: generations are chosen by the caller
and may repeat. `good` is a history variable: the last payload of an entry whose
marker was written to the end. A plan's digest is part of its cache keys, so two
plans never share an entry. Staging directories have fresh names and are left
out; so are the payload copies and `mark_entry_complete`, which no part of the
program calls.

### RunJournal and RunLifecycle

A journal is a directory (`dir`) with an owner marker (`owner`), a source binding
(`binding`) and numbered entry files (`entries`). `create_new` creates a file
under its final name and writes it afterwards, so a file is none, torn or whole,
and creating and writing are two steps. `root` and `token` are the marker of the
store and the token each process took from it: the first processes race to
create it. `recover apply` is two steps, reading the journal (`applying`
remembers which) and renaming the directory; nothing in the code tells it whether
the process of the run is alive.

`pc` is the next step of a run's process; a step named after a journal state is
the call of `transition` with that state, which the store accepts (`Accepts`) or
refuses, and `AfterEntry` and `AfterEntryError` say where the code goes then. A
single run (`kind`) journals Finalizing and publishes its receipt while it holds
the slot, then releases it, removes the snapshot and journals Sealed; a matrix
releases and removes first, then journals Finalizing, publishes and journals
Sealed. `primary` is the result handed to `finalize_run_terminal`; it is
"unadmitted" when the slot was acquired and Admitted could not be journaled,
because a failed release is then journaled by a call of its own. `adm` is the
admission guard: acquisition is the abstract slot (one holder), a failed release
leaves it "uncertain", a crash "lost". After a quarantine a live run goes on with
paths that no longer exist: reads fail, an entry file that is already open is
still written (and the sync of its directory fails), and `create_dir_all` makes
the directory again (`dir = "recreated"`).

Three errors after the journal exists are returned without an entry: the
cancellation handler of a matrix that cannot be installed, the generation guard
that refuses the commit, and `platform_for` that fails (`OpenAdmission`). The
result of such a run is "unjournaled", and its journal ends with Created.

The checks of a run, from the first one to the watchdog barrier, are the one
step `Check` here, with any outcome (`CheckRun` has them in detail); so are the
sealing and writing of the receipt. Everything before the journal exists changes
nothing that the model has. Digests, identifiers and clocks are valid.

### ProcessSupervisor

`proc` says of every process whether it is unborn, in the group, out of it or
dead; `doomed` are those a SIGKILL is on its way to. `clock` advances only while
the supervisor sleeps or waits, one unit per poll. `ending` is what the stop in
progress will report, `until` the deadline of the current wait; `reader`,
`count`, `kept`, `truncated` are the reader threads. The command forks, ignores
SIGTERM, leaves its group, writes and closes its pipes as it likes, between any
two steps of the supervisor.

### GuardExec, Watchdog and ResourcePolicy

Sessions are processes; each has a watchdog thread that sleeps, samples, may
trip and then cancels the token. The trip may come at any step of the session,
also after the command has exited: `stop_and_join` decides. Memory is counted in
units of 512 MiB, in which all thresholds are whole; percentages are compared as
the code does, by multiplication. The history file is read, trimmed and replaced
without a lock of its own, in two steps, each of which may fail; only the slot
keeps two sessions apart. A record is known by its session.

### CheckRun and ContainerRuntime

`box[c]` is the container of a check as the daemon has it. A CLI that is killed
leaves its request in `pending`, which the daemon applies later or never. Cleanup
inspects, stops, removes and inspects again. The run inspects the repository
before and after, executes the checks row by row, turns results into evidence,
joins the watchdog (the barrier), seals, promotes and publishes. The user may
cancel, the watchdog may trip, the checkout may move and the process may die at
any step. An artifact (`file`) is known by the runs that wrote what it holds.
After the publication `Complete` reconciles the result with the watchdog
(`Reconciled`), and giving back the slot, removing the snapshot and journaling the
end may each still fail the run ("terminal"). A matrix does the first two before
it seals its outer receipt, so that there they fail in `Publish`.

### PlanBuild, WorkspacePlan and SourceSnapshot

Ids and names are numbers ordered like the strings; a path is a sequence of
segments and a segment a sequence of character codes, because a path may
begin with another as a string (`ab` with `a`) without lying under it, and the
check for nested paths has to tell, and because some characters (`~`, `:`, a
backslash) make a path invalid. One action per stage of `into_plan`
(`ValidateTopLevel`, `NormalizeCaches`, ... `FinishRow`), each of which may
refuse. A plan has every field that is part of its digest: project, image,
limits, network, freshness, and of each check its command, directory, timeout,
dependencies, artifacts and contracts. The rules for single texts and numbers are
one flag each (`TextValid`, `ScalarsValid`), but for the limits of artifact
contracts (`MaxBytes`, `MaxEntries`). A configuration may be declared again in
another order (`Redeclare`) or have one value changed (`Edit`); `first` remembers
what became of it before. A matrix plans each runtime as a configuration of its
own. A digest is the value it is computed from, and `LegacyBasis` is what the
legacy profile computes it from.

`WorkspacePlan` refuses a plan with remote-only names, materialises the commit,
makes the mount points, prepares artifacts and binds the environment; only names
that the host has (`Host`) are inherited. A path of the snapshot holds a file, a
directory, a link or something else (`Special`, a socket or a named pipe);
materialisation gives up at what it does not support (a link, a submodule, an LFS
pointer, a tree or blob over the limits), and revalidation at everything that is
not the commit's file or a mount point of the overlay.

### Receipts and Verification

A run is remembered as it happened (`Deserves` looks at that memory), the
verifier sees its document only. A run records the commit's files, what was
measured of each artifact under a contract, and when it began and ended; a row of
a matrix has a clock reading of its own (`RowClocks`), and a receipt that does not
validate is not written: a clock that was set back, an artifact over its limits, a
commit without files. A document may be damaged: a field of it changes, its
identifier stays. A document that somebody made up, identifier included, is not
in the model: a receipt proves integrity and not origin (VERIFICATION_POLICY.md:128,
GITHUB_GATE.md:45), so nothing could be said of it. Policies and the trusted
configuration are read twice, and may change in between; a change after the last
reading is invisible to the verifier and left out. Clocks show instants around a
midnight and need not agree.

## 3. Runs

| run | instance | shows |
|---|---|---|
| `admission_interleavings` | 3 processes, 2 queue places, 3 numbers | `QueueWithinLimit`, `OwnersUndisturbed`, `TicketNumbersFresh`, `ImplementsFifoSlot` |
| `admission_liveness` | 2 processes, 2 numbers; deadlines pass, or need not | `CallsReturn`, `NobodyWaitsForever` |
| `admission_reconcile` | 2 processes, 1 operator, 2 numbers, from an absent directory | `RootAllOrNothing`, `OnlyAbandoned`, `ReportIsTrue` |
| `cache_promotion` | 2 processes, 2 plans, 4 runs, 2 faults | `PromotedMeansCurrent`, `LastGoodSurvives`, `CompleteMeansGood`, `PinnedEntryStable` |
| `run_lifecycle` | 2 runs of any kind, 1 fault, an operator | `ReceiptFollowsJournal`, `JournalsBelongToStore`, `EveryEndIsRecorded` |
| `run_lifecycle_faults` | 1 run, 3 faults, an operator | `JournalIsTrue`, `JournalReplays`, `EveryRunEnds` |
| `supervisor` | leader and 1 child, timeout 4, grace 2, capture 1, 1 fault | `WithinTimeout`, `TruthfulOutcome`, `Contract`, `Returns` |
| `guard_exec` | 2 sessions, 3 snapshots, history of 2, 1 fault | `OneGuardedCommand`, `HistoryKeepsTheLatest`, `ExitTellsWhatHappened`, `TripsAreJustified` |
| `check_run` | 2 plans of 2 checks, a matrix of 2 rows | `PassedForReal`, `PassIsDeserved`, `PressureIsReported`, `PromotedAfterVerdict`, `EndIsClean` |
| `plan_build` | families of graphs, declarations, paths, contracts, schemas, matrices; each plan edited once or run twice | `OrderIsRight`, `PathsApartExactly`, `DigestsBindPlans`, `PlansAreMountable`, `ChecksStartAsPlanned`, `SealedSourceIsCommit` |
| `verification` | 4 configurations, 10 policies, 2 midnights, 1 edit | `AcceptedMeansDeserved`, `DeservingRunAccepted` |
| `plan_contract_order` | two orders of the same artifact contracts | violates `PlanIgnoresDeclarationOrder` (below) |

Every property is stated in words above its definition, with the code it is
about.

Bounds.

* Admission. `MaxQueueTickets` stands for the 1024 of the code; with 2 the queue
  is full while a third process arrives. `MaxCounter` stands for 2^64 - 1; with 3
  two numbers can be given out, with 4 one is given out after a ticket was
  reclaimed and its lease left behind, and then the counter is exhausted. `Focus`
  lets the last number be used by one process at a time, amid the residue of the
  others.
* Cache. Two plans, of two entries and of one, are the least with which a
  promotion of several entries is interrupted between entries and a run of
  another plan recovers it. Two faults allow a crash during the recovery from a
  crash; four runs are one that fills the entries, one that is interrupted, one
  whose recovery is interrupted and one that recovers. `Focus` looks at the
  second fault and the fourth run with one process at work at a time; without it
  the same properties hold in 6.2 million states.
* Runs meet in the store's marker and in the slot only, so two of them are
  enough; three faults of a run alone make the handling of an error fail and the
  handling of that failure as well.
* Supervisor. A timeout of 4 is an execution budget of 2 and a cleanup budget of
  2, so that time can pass inside each of the stages of the cleanup; a capture
  limit of 1 and two bytes truncate; one child is enough for a group that
  outlives its leader or a pipe held from outside the group.
* Guard. Two soft samples in a row and a window of two are the least at which a
  calm sample in between and a growth of swap matter. The history holds one
  record already and two at most, so that it overflows.
* Checks. A required check with an optional one that depends on it, two
  independent ones, and two rows. One hard sample is enough, since a soft trip
  has the same effect and `guard_exec` has the policy.
* Plans. Up to four checks in any graph; paths of up to two segments,
  some of which begin with another or lie under it; contracts at their limits and
  over them. An edit changes one value of a matrix, each in turn. `Focus` runs
  only plans that mount something, and a plan that was declared or edited anew is
  not run again. The configurations come in families (`Families`), each of which
  varies one thing. 0.2 million states.
* Verification. The midnights are those of 29 February 2000 and 31 December 2023,
  the offsets 0, a day, and a day and a second, at a maximum age of a day. The
  rows of a matrix take no time, take a day, or end before they began. An artifact
  is at its limit, over it or empty. 2.8 million states.

Deadlock is checked where processes go on forever. It is not where the system
really stops: when all runs, sessions or commands are over, and in
`admission_reconcile` after an initialisation that was cut short, after which
every acquire fails.

Fairness. A process that is not dead takes its next step, and a begun renewal of
a lease ends: threads are scheduled (`FairSpec`). The admission properties say
what else they need: `DeadlinesPass` is that a waiting process comes to the head
of its loop every 25 ms, where the check finally fails, whatever happens to the
queue lock. `Patience` assumes no deadline but that a process that polls the free
queue lock again and again gets it, that an admitted command ends (its supervisor
bounds it) and that leases age. Neither assumes anything of dead processes, of
storage or of the order in which the lock is granted. `FairSpec` of
`RunLifecycle` lets a live run take its next step; waiting for the slot ends at
the timeout of `acquire`. `FairSpec` of `ProcessSupervisor` lets the supervisor's
thread run and time pass; the command, its descendants and the reader threads
need do nothing.

### Where code and documentation differ

`plan_contract_order`: `normalize_check` sorts dependencies and artifacts but
keeps `artifact_contracts` in the order of their declaration (`config.rs:725`),
so that two declarations of the same contracts have plans with different digests;
CONFIGURATION.md:115 says that the order is canonical and the digest the same.

The models also show the following. They follow from reading the code and can be
reproduced by stating the quoted sentence as a property; no run is kept for them.

* An unlocked ticket without a lease is reclaimed (`admission.rs:1447`);
  ARCHITECTURE.md:73 says it remains blocking. Harmless: `OwnersUndisturbed`
  holds with it.
* The next run of an interrupted plan cannot recover the promotion journal,
  because it already holds the locks of its entries and the recovery takes them
  again through new descriptors (`cache.rs:554`, `710`);
  RELIABILITY_HARDENING_PLAN.md:583 says that a later promoter can. A run of a
  different plan succeeds.
* An interrupted write leaves a half-written `.complete` (`cache.rs:1366`);
  LOCAL_RUN.md:154 says markers are written atomically. It never makes an entry
  complete (`CompleteMeansGood`).
* An entry whose write fails halfway makes the whole journal unreadable
  (`run_journal.rs:471`, `513`); RELIABILITY_HARDENING_PLAN.md:423 says that a
  full disk leaves a readable last known state.
* A cache or artifact destination that the commit does not have is made in the
  snapshot (`prepare_mount_overlay`, `main.rs:1128`), and the run goes on.
  CONFIGURATION.md:136-141 says that it "must already exist" and that "the runner
  fails before Docker", CACHE_AND_WORKSPACE.md:164-169 that "live preparation
  rejects a missing destination", and ADOPTION_GUIDE.md:90-93 that every
  destination "must already exist". That is what `validate_repository_mount_target`
  does by itself, but the run command calls it on the snapshot with the overlay.
  `PlansAreMountable` states what the code does: a missing destination is no
  reason to give up.
* Three errors are returned after the journal was created and without a terminal
  entry (above), and a run that succeeds removes its snapshot before it journals
  Sealed (`main.rs:1249`); TRIZ_CONTRADICTIONS.md:46 says "clean up only after the
  journal records a terminal state". `EveryEndIsRecorded` states what is left
  behind by each kind of end.
* Failed is journaled before the snapshot is dropped; a run that dies in between
  leaves a snapshot in a terminal journal, which `apply` refuses
  (`run_journal.rs:443`); INVARIANT_EVIDENCE_MATRIX.md:24 says that it is
  recoverable through quarantine.
* `recover apply` decides at `run_journal.rs:440` and renames at `447`, so a
  journal that is finished in between is quarantined; and a run whose directory
  is quarantined while it copies its snapshot makes it again
  (`source_snapshot.rs:432`), after which a second `apply` returns `Corrupt`.
* A heartbeat that was begun before a ticket is reclaimed or moved may write the
  lease again, which then has no ticket; later numbers are fresh all the same.
* An initialisation of the admission directory that is cut short is not repaired
  (`admission.rs:1107`): every later acquire fails until an operator removes it.
* Paths are compared within a row of a matrix, while all rows share one overlay:
  nested artifacts of two rows are accepted and the run fails
  (`matrix.rs:457`, `source_snapshot.rs:243`; CONFIGURATION.md:128). It is the
  exception `PlansAreMountable` names.
* A directory artifact keeps what an earlier run of the plan left
  (`workspace.rs:439`); only regular files are emptied. It is the exception
  `ChecksStartAsPlanned` names.
* In a matrix the caches of the first row are promoted before the second row
  runs. A check that a signal killed has evidence that cannot be sealed, and the
  run then ends without a receipt. An optional check that pressure interrupted
  can leave a PASS, in which the interruption is on record.

## 4. Proofs

### Admission

`AdmissionProofs` proves for every set of processes, every queue limit and every
range of the counter:

* `TypeCorrect`: `Spec => []TypeOK`;
* `Undisturbed`: `Spec => []OwnersUndisturbed`;
* `Fifo`: `Spec => AdmissionIsFifo`, that whoever takes the slot has the lowest
  ticket of all that wait;
* `Fresh`: `Spec => TicketNumbersFresh`;
* `Refines`: `Spec => ImplementsFifoSlot`, the refinement of `FifoSlot`;
* `LimitKept`: `Spec => []QueueWithinLimit`.

The assumptions are those of `Admission`: `NoProc` is not a process, processes
and operators are disjoint, the queue limit is a positive number and the counter
starts at a number within its range.

`OwnersUndisturbed` is not inductive: a scanner could reach `remove_stale` with a
live ticket in `stale`, or two processes could own one number. `IInv` adds to it
who holds the queue lock at which program point and that only its holder has a
scan (`QueueInv`), that numbers are unique, below the counter, and that nothing
on disk has a number at or above it (`OwnInv`), when the heartbeat thread lives
(`HeartbeatInv`), what `create_ticket` has done so far (`CreateInv`), and that a
scan still has every waiting process ahead of it or among the live and never
among the stale (`ScanInv`). `OwnInv` gives `Fresh`, `ScanInv` gives `Fifo`: with
`todo` empty every waiting process is in `live`, and the one that takes the slot
is the least of them. The proofs go action by action. Most actions touch only
the files and locks of the acting process's own number (`Private`); lemma
`PrivateStep` shows once that such a step leaves the others' part of the
invariant alone, because numbers are unique, and the action's own step then only
has to establish the acting process's part (`Sound`).

`Refines` needs where the process that is between `try_lock_slot` and the end of
its guard stands (`PlaceInv`): it is the holder of the mapped slot, and nobody
else is. The mapped queue is the sequence of waiting processes by ticket number,
and a ticket that is being created has the highest number of all (`OwnInv`), so
that writing a lease is the abstract `Join` at the end of the queue; taking the
slot is `Grant`, by `Fifo`; and every other step leaves the place of every process
as it is or is the `Leave` of the acting one (`Moves`, `OneMoves`).

`LimitKept` rests on `IInv` and on `Covered`: a scan misses no file that is still
there, because files appear only under the queue lock that the scanner holds, so
that the count of live tickets bounds the count of files when the limit is
checked; and whoever is about to create a file still has room for it. Files that
disappear meanwhile (`Quiet` steps) do no harm.

### Reconciliation and the admission directory

`ReconcileProofs` proves of `AdmissionRoot`, which has the operators' commands and
the first use of the directory beside `Admission`, for every set of processes and
operators:

* `RootWhole`: `Spec => []RootAllOrNothing`;
* `Reconciles`: `Spec => OnlyAbandoned`;
* `ReportsTruly`: `Spec => []ReportIsTrue`.

`RootInv` extends the invariant of the coordinator by what a directory looks like
while it is created, who holds `queue.lock` among processes and operators, and
how far each command has come. The core is `Abandoned`: a number that was given
out and that nobody uses stays abandoned, because numbers are never given out
twice. So what a command found to be abandoned is still so when it acts on it,
however many steps later, although processes come, leave and crash in between.
A step of a process takes nothing from an operator that holds `queue.lock`
(`Spares`); a step of a command changes no process and only the files of tickets
it has locked (`Gentle`), so that it keeps the invariant of `Admission`; and both
keep what any other command relies on (`Keeps`). What a report says is compared
with what was done ticket by ticket (`Progress`), also for an apply that stops
halfway.

### Execution of a plan

`CheckRunProofs` proves of `CheckRun`, for every set of plans of any number of
rows and checks, with any dependencies, any number of processes one after the
other, and any behaviour of the daemon, the watchdog, the user and the checkout:

* `RealPasses`: `Spec => []PassedForReal`;
* `DeservedPass`: `Spec => []PassIsDeserved`;
* `ReportedPressure`: `Spec => []PressureIsReported`;
* `LatePromotion`: `Spec => []PromotedAfterVerdict`;
* `CleanEnd`: `Spec => []EndIsClean`.

The assumptions are that plans are made of checks, that a plan has a row and no
check twice, and that there is one process at a time. None of the five is
inductive. `IInv` says where the run is in its plan, and that a check has evidence
exactly when the loop is past it (`Place`), so that evidence is given once; that
the container of a check that has not begun does not exist and cannot come into
being, and what `execute_check` knows of its container at each of its commands
(`Containers`, `Handled`): a success is kept only with exit code zero and
returned only after the removal, and a creation that the daemon may still carry
out late always ends in an error; that dependencies have passed (`Ordered`); that
a cancelled outcome means a token that is set, and stays set with the same reason
(`Cancelled`); what was established on the way to the receipt: the commit, the end
of the watchdog, its trip in the evidence (`Established`); and how receipt, lock
and result relate (`Concluded`). That a trip accepted at the barrier is still the
trip at the end needs that a thread which has ended records nothing more
(`OutsiderKeeps`); that the watchdog never overrides an "ok" at the end
(`Reconciled`) needs the barrier's verdict to be part of the invariant.

### Process supervisor

`SupervisorProofs` proves for every set of processes, every positive timeout,
every grace period and capture limit, any output and any number of failing calls:

* `TimeoutKept`: `Spec => []WithinTimeout`;
* `ReportsTruly`: `Spec => []TruthfulOutcome`;
* `ContractKept`: `Spec => Contract`, the refinement of `SupervisorContract`.

Their invariant `IInv` is `TypeOK`, what exists before and after the leader
(`Control`), where each deadline comes from (`Timing`: the poll loop ends within
the execution budget, every later wait has a deadline within the timeout), that
the reason for which the call ends holds and keeps holding (`Cause`), and that
output is collected only when the group is empty and the exit known
(`Collecting`). `Timing` is what makes `WithinTimeout` inductive, since a stage's
deadline is computed steps before it is used; `Collecting` is what lets a
returned result mean an empty group, the guard of the contract's `Return`. In the
refinement the spawn is the contract's `Start`, the end of the last member of the
group its `Empty`, the return its `Return`, and every other step a stutter.

### Run journal and lifecycle

`LifecycleProofs` proves of `RunLifecycle`, for every set of runs of either kind
and any number of crashes, failing writes and recoveries:

* `Replay`: `Spec => []JournalReplays`;
* `Truth`: `Spec => []JournalIsTrue`;
* `Receipts`: `Spec => []ReceiptFollowsJournal`;
* `Tokens`: `Spec => []JournalsBelongToStore`;
* `Ending`: `Spec => []EveryEndIsRecorded`.

The assumptions are that `NoRun` is not a run and that the bound on failures is a
number. A run writes only to its own directory, so the invariant `IInv` is
`TypeOK` and one formula per run: which token a process may know (`Token`; the
marker of the store is the only thing runs share, and once written it does not
change), that entries replay and none exists before the owner marker
(`Replays`), when the slot is held (`Slot`), when the receipt may be there
(`Published`) and what a terminal entry means (`Terminal`). `Truth` needs `Slot`
and `Published`: an entry is created steps before it is written, and what it says
must still be so then. `Ending` needs in addition where the journal of a run ends
at each program point as long as nothing has failed (`Sound`, `Current`), because
whether `transition` accepts a state depends on the last entry, and what a run
holds once its result is decided (`Ends`): no slot, a receipt exactly with
success, and a journal whose last entry fits the result.

### Managed cache

`CacheProofs` proves of `CachePromotion`, for every set of processes, of
generations and of plans (sequences of distinct keys, no key in two plans) and
any number of runs, crashes and storage failures:

* `LastGood`: `Spec => []LastGoodSurvives`;
* `ValidEntries`: `Spec => []CompleteMeansGood`;
* `Promoted`: `Spec => []PromotedMeansCurrent`;
* `Pinned`: `Spec => PinnedEntryStable`.

The invariant is about entries and about processes. An entry is `Settled`
(complete with its last good payload and manifest, or empty, and no backup)
unless a prepared journal names it; if one does, whoever was interrupted wherever,
it is in one of four conditions (`InJournal`): promoted, its good payload in the
backup, its good payload back in place, or new. Recovery decides which of them it
meets from the files alone. For every process there is where it is in its plan
(`Placed`), which locks it holds (`Locks`), what the journal is (`Journal`), the
condition of the entry in hand (`InHand`) and of the entries before and after it
(`Progress`). That a recovery works on entries of other plans than its own is
part of `Locks`: a process that holds the locks of an entry cannot take them a
second time. Only the holder of the promotion lock is in a step that depends on
the journal, so every other process is a bystander (`BystanderKept`); a step on
one entry changes no other (`EntryKept`).

### Guarded execution

`GuardProofs` proves of `GuardExec`, for every set of sessions and of valid
snapshots, every positive limit of the history and any number of failures:

* `OneCommand`: `Spec => []OneGuardedCommand`;
* `History`: `Spec => []HistoryKeepsTheLatest`;
* `ExitCode`: `Spec => []ExitTellsWhatHappened`;
* `JustifiedTrips`: `Spec => TripsAreJustified`.

The assumptions are that `NoSession` is not a session, that snapshots are valid,
that the limit of the history is positive and that a soft trip takes at least two
samples (the code has 15). The invariant says of each session that it has the
slot exactly from the acquisition to the release and that a live command belongs
to it (`Slot`); that between the read and the write of the history nobody else
appends, so that the buffer is still the file (`Append1`); that the token says
pressure only after the trip was recorded, that the watchdog's count is positive
only if the last sample was under soft pressure, and that no thread is left after
the join (`Dog`); and how result and record relate from the record to the exit
code (`Faithful`, `Outcome`, `Exited`). Pressure is thus the same question
(`PressureIsTrip`) at the record, at the end of `finish` and in the
classification of the result, although each asks for it anew.
`AppendKeepsLatest` is the lemma about the trimming: dropping the oldest record
of the latest ones and appending one gives the latest ones, at, below and above
the limit.

### Order of checks

`DocumentProofs` proves of the loop of `topological_checks`, from the tables
`StartOrder` builds for any set of checks with finitely many dependencies among
them:

* `DependenciesFirst`: `LoopSpec => []DependenciesComeFirst`, a part of
  `OrderIsRight`;
* `CycleNamed`: `LoopSpec => []LeftoverIsCyclic`: if the loop stops short,
  `DependencyCycle` names exactly the checks left over and each of them waits for
  another one of them, so there is a cycle.

`OrderInv` says that the indegree of a check counts its dependencies that are not
placed yet, and that a check is ready or placed exactly when there are none.

### Receipts and verification

`DocumentProofs` also proves, for every set of configurations, policies, hosts,
commits, evidence and clock readings and any number of changes of the files:

* `RoundTrip`: `ParseUtc(FormatUtc(t)) = t` for every `t` since 1970, so that the
  verifier measures an age from the very second the run wrote;
* `AcceptedAreDeserved`: `Spec => []AcceptedMeansDeserved`;
* `DeservingAreAccepted`: `Spec => []DeservingRunAccepted`.

The assumptions are that clocks show instants since 1970, that a plan is a
sequence of at least one row, and that policies have a version that the loader
knows. `RoundTrip` follows the arithmetic of `civil_from_days`: the day of an era
determines a year of it with the day in that year (`YearBounds`, with the century
and leap corrections), the day of a year a month of it (`MonthBounds`), and
`parse_utc_seconds` adds up the same terms.

The invariant `VerifyInv` says that the receipt file and the copy that was read
are records of the run that wrote them (`Files`, `Recorded`): the run's own
document verifies, and the file is garbage or still has the identifier of that
document. Since a digest binds its content, what verifies is the document itself
(`IntactReceipt`). It says further that a policy in use is valid (`Steps`), that a
report other than a refusal is the verdict on what was read (`Reported`), and that
what was read for the last time is still what the files hold (`Fresh`).
The verdict is lemma `Verdict`: the decision is to pass exactly if the document is
whole and the run deserves it. It is put together from one lemma per policy
(`SinglePolicy`, `TrustDeserved`, `MatrixPolicy`), each of which says that there
is no finding exactly if the run, not the receipt, is as the policy asks; in a
matrix that rests on the rows having different runtimes (`Apart`), which
`MatrixReceiptV2::validate` sees to.

TLC has checked each of these invariants on the instance of the run it belongs to.

### Only model-checked

* Liveness (`CallsReturn`, `NobodyWaitsForever`, `EveryRunEnds`, `Returns`): it
  needs fairness and ENABLED, which the prover does not handle.
* That the order of checks is the least one, and the properties of `PlanBuild`
  and `WorkspacePlan` (`OrderIsRight`, `PathsApartExactly`, `DigestsBindPlans`,
  `PlansAreMountable`, `ChecksStartAsPlanned`, `SealedSourceIsCommit`): they
  compare the results of sorting, flattening and path operations on sequences,
  which are recursive; what these compute for every input takes induction over
  data.

## 5. Not modelled

* Cache: staging directories (their names are fresh), inventory and cleanup
  preview (they only report), `mark_entry_complete` (no caller), the creation of
  the cache root.
* `cache_payload.rs` and `storage.rs`: recursive copying, sizes and free space;
  input and output without decisions that outlive the call.
* `main.rs`: argument parsing, printing, and the commands that only report
  (`doctor`, `init`, `plan`, listings).
* `resource_history.rs`: the version 1 history and its listing.
* `agent_session.rs`: a library of probes that no command of the program calls.
* `capability_pack.rs`, `github_actions.rs`, `benchmark.rs`,
  `economic_evaluation.rs`, `schema_contract.rs`: parsing, translation,
  statistics and constants; they have no state for a model checker to explore.
* Everywhere: the text of documents, command lines and messages, the character
  rules of names, and files in CCP's directories that nobody of CCP wrote.
