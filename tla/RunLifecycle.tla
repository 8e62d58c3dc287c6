---------------------------- MODULE RunLifecycle -----------------------------
(***************************************************************************)
(* The `run` command of src/main.rs from the creation of its journal to    *)
(* its exit: print_run for a plan with one runtime, print_matrix_run with  *)
(* orchestrate_matrix_terminal_lifecycle for a matrix.  Several runs share *)
(* the journal store and the admission slot; an operator may call `recover *)
(* apply` at any time; a run may crash, and storage may fail, anywhere.    *)
(*                                                                         *)
(* A step is named by what the process does next.  The steps named after a *)
(* journal state are calls of RunJournalStore::transition with that state. *)
(***************************************************************************)
EXTENDS RunJournal

CONSTANT
    MaxFaults   \* bound on crashes and storage failures

ASSUME FaultsAssumption == MaxFaults \in Nat

VARIABLES
    kind,       \* which of the two commands a run is
    pc,         \* its next step
    primary,    \* the result that finalize_run_terminal is given
    adm,        \* its admission guard
    snap,       \* whether its source snapshot is on disk
    receipt,    \* whether it has published its receipt
    result,     \* what the process returns
    faults      \* crashes and storage failures so far

vars == <<root, token, dir, owner, binding, entries, applying,
          kind, pc, primary, adm, snap, receipt, result, faults>>

Steps == {"init", "mark", "markWrite", "runDir", "owner", "ownerWrite", "resolve", "reserve",
          "materialize", "copy", "overlay", "bind", "bindWrite", "admission", "acquire", "prestart",
          "check", "publish", "release", "cleanup", "exit"}
Over  == {"done", "dead"}

TypeOK ==
    /\ StoreTypeOK
    /\ kind \in [Run -> {"run", "matrix"}]
    /\ pc \in [Run -> Steps \cup State \cup Over]
    /\ primary \in [Run -> {"none", "ok", "err", "unadmitted"}]
    /\ adm \in [Run -> {"none", "held", "released", "uncertain", "lost"}]
    /\ snap \in [Run -> BOOLEAN]
    /\ receipt \in [Run -> BOOLEAN]
    /\ result \in [Run -> {"none", "ok", "err", "unjournaled"}]
    /\ faults \in 0..MaxFaults

Init ==
    /\ StoreInit
    /\ kind \in [Run -> {"run", "matrix"}]
    /\ pc = [r \in Run |-> "init"]
    /\ primary = [r \in Run |-> "none"]
    /\ adm = [r \in Run |-> "none"]
    /\ snap = [r \in Run |-> FALSE]
    /\ receipt = [r \in Run |-> FALSE]
    /\ result = [r \in Run |-> "none"]
    /\ faults = 0

-----------------------------------------------------------------------------
(* Building blocks.                                                        *)

NoFault == UNCHANGED faults
Fault   == faults < MaxFaults /\ faults' = faults + 1

Goto(r, step) == pc' = [pc EXCEPT ![r] = step]

\* print_run returns: what it owns is dropped in step "exit".
Return(r, res) == Goto(r, "exit") /\ result' = [result EXCEPT ![r] = res]

\* The command fails before it holds the slot.
GiveUp(r) == Goto(r, "failed") /\ UNCHANGED result

\* The command is over for finalize_run_terminal, which releases the slot.
Finalize(r, res) == Goto(r, "release") /\ primary' = [primary EXCEPT ![r] = res]

run == <<kind, primary, adm, snap, receipt, result>>

-----------------------------------------------------------------------------
(* RunJournalStore::initialize and create_run.                             *)

\* initialize creates the directory of the store and looks for its marker.
LookForMarker(r) ==
    /\ pc[r] = "init"
    /\ \/ root.marker = "none" /\ Goto(r, "mark") /\ NoFault /\ UNCHANGED <<token, result>>
       \/ /\ root.marker = "whole"
          /\ token' = [token EXCEPT ![r] = root.token]
          /\ Goto(r, "runDir")
          /\ NoFault
          /\ UNCHANGED result
       \/ root.marker = "torn" /\ Return(r, "err") /\ NoFault /\ UNCHANGED token
       \/ Fault /\ Return(r, "err") /\ UNCHANGED token
    /\ UNCHANGED <<root, dir, owner, binding, entries, applying,
                   kind, primary, adm, snap, receipt>>

\* Mutant of CreateMarker: the marker is replaced, not created.
CreateMarkerReplacing(r) ==
    /\ pc[r] = "mark"
    /\ root' = [root EXCEPT !.marker = "torn", !.token = r]
    /\ Goto(r, "markWrite")
    /\ NoFault
    /\ UNCHANGED <<token, dir, owner, binding, entries, applying,
                   kind, primary, adm, snap, receipt, result>>

\* It creates the marker, unless somebody else did in the meantime.
CreateMarker(r) ==
    /\ pc[r] = "mark"
    /\ \/ /\ root.marker = "none" /\ NoFault
          /\ root' = [root EXCEPT !.marker = "torn", !.token = r]
          /\ Goto(r, "markWrite")
          /\ UNCHANGED result
       \/ root.marker # "none" /\ NoFault /\ Return(r, "err") /\ UNCHANGED root
       \/ Fault /\ Return(r, "err") /\ UNCHANGED root
    /\ UNCHANGED <<token, dir, owner, binding, entries, applying,
                   kind, primary, adm, snap, receipt>>

WriteMarker(r) ==
    /\ pc[r] = "markWrite"
    /\ \/ /\ NoFault
          /\ root' = [root EXCEPT !.marker = "whole"]
          /\ token' = [token EXCEPT ![r] = r]
          /\ Goto(r, "runDir")
          /\ UNCHANGED result
       \/ /\ Fault
          /\ root' \in {root, [root EXCEPT !.marker = "whole"]}
          /\ Return(r, "err")
          /\ UNCHANGED token
    /\ UNCHANGED <<dir, owner, binding, entries, applying, kind, primary, adm, snap, receipt>>

\* The directories runs/ and runs/<run id>; ids are unique.  A failed sync
\* leaves the directory it was for.
CreateRunDirectory(r) ==
    /\ pc[r] = "runDir"
    /\ \/ /\ NoFault
          /\ root' = [root EXCEPT !.runs = TRUE]
          /\ dir' = [dir EXCEPT ![r] = "live"]
          /\ Goto(r, "owner")
          /\ UNCHANGED result
       \/ /\ Fault
          /\ Return(r, "err")
          /\ \/ UNCHANGED <<root, dir>>
             \/ root' = [root EXCEPT !.runs = TRUE] /\ dir' \in {dir, [dir EXCEPT ![r] = "live"]}
    /\ UNCHANGED <<token, owner, binding, entries, applying, kind, primary, adm, snap, receipt>>

\* The owner marker of the run.
CreateOwner(r) ==
    /\ pc[r] = "owner"
    /\ \/ NoFault /\ owner' = [owner EXCEPT ![r] = "torn"] /\ Goto(r, "ownerWrite") /\ UNCHANGED result
       \/ Fault /\ Return(r, "err") /\ UNCHANGED owner
    /\ UNCHANGED <<root, token, dir, binding, entries, applying, kind, primary, adm, snap, receipt>>

WriteOwner(r) ==
    /\ pc[r] = "ownerWrite"
    /\ \/ NoFault /\ owner' = [owner EXCEPT ![r] = "whole"] /\ Goto(r, "created") /\ UNCHANGED result
       \/ Fault /\ owner' \in {owner, [owner EXCEPT ![r] = "whole"]} /\ Return(r, "err")
    /\ UNCHANGED <<root, token, dir, binding, entries, applying, kind, primary, adm, snap, receipt>>

-----------------------------------------------------------------------------
(* Journal transitions, and what the command does after them.              *)

\* The entry file of the current transition exists and is not yet written.
Pending(r) ==
    /\ entries[r] # <<>>
    /\ entries[r][Len(entries[r])] = [state |-> pc[r], whole |-> FALSE]

\* The store accepts the transition: the first entry is written unread, and
\* the release failure of a run without Admitted entry has a call of its own.
Accepted(r) ==
    LET late == pc[r] = "cleanup_pending" /\ primary[r] = "unadmitted"
    IN  \/ pc[r] = "created"
        \/ late /\ AcceptsLateCleanup(r)
        \/ ~late /\ Accepts(r, pc[r])

AfterEntry(r) ==
    /\ UNCHANGED primary
    /\ \/ pc[r] = "created" /\ Goto(r, "resolve") /\ UNCHANGED result
       \/ pc[r] = "admitted" /\ Goto(r, "prestart") /\ UNCHANGED result
       \/ pc[r] = "prepared" /\ Goto(r, "executing") /\ UNCHANGED result
       \/ pc[r] = "executing" /\ Goto(r, "check") /\ UNCHANGED result
       \/ pc[r] = "finalizing" /\ Goto(r, "publish") /\ UNCHANGED result
       \/ pc[r] = "sealed" /\ Return(r, "ok")
       \/ pc[r] \in {"failed", "cleanup_pending"} /\ Return(r, "err")

\* Mutants of AfterEntryError: a failed Finalizing is ignored; the entry of a
\* failure is tried again.
AfterEntryErrorIgnored(r) ==
    \/ pc[r] = "finalizing" /\ Goto(r, "publish") /\ UNCHANGED <<primary, result>>
    \/ pc[r] # "finalizing" /\ Finalize(r, "err") /\ UNCHANGED result

AfterEntryErrorRetried(r) ==
    \/ pc[r] = "admitted" /\ Finalize(r, "unadmitted") /\ UNCHANGED result
    \/ pc[r] \in {"prepared", "executing", "finalizing"} /\ Finalize(r, "err") /\ UNCHANGED result
    \/ pc[r] \in {"failed", "cleanup_pending"} /\ UNCHANGED <<pc, primary, result>>
    \/ pc[r] \in {"created", "sealed"} /\ Return(r, "err") /\ UNCHANGED primary

\* A transition that returns an error.  A matrix enters Finalizing when it no
\* longer holds the slot; a failed Sealed is returned as it is.
AfterEntryError(r) ==
    \/ pc[r] = "admitted" /\ Finalize(r, "unadmitted") /\ UNCHANGED result
    \/ pc[r] \in {"prepared", "executing"} /\ Finalize(r, "err") /\ UNCHANGED result
    \/ pc[r] = "finalizing" /\ kind[r] = "run" /\ Finalize(r, "err") /\ UNCHANGED result
    \/ pc[r] = "finalizing" /\ kind[r] = "matrix" /\ GiveUp(r) /\ UNCHANGED primary
    \/ /\ pc[r] \in {"created", "sealed", "failed", "cleanup_pending"}
       /\ Return(r, "err")
       /\ UNCHANGED primary

BeginEntry(r) ==
    /\ pc[r] \in State /\ ~Pending(r)
    /\ Accepted(r)
    /\ OpenEntry(r, pc[r])
    /\ NoFault
    /\ UNCHANGED <<root, token, dir, owner, binding, applying, pc, run>>

\* The store refuses, or cannot create the file.
RefuseEntry(r) ==
    /\ pc[r] \in State /\ ~Pending(r)
    /\ \/ ~Accepted(r) /\ NoFault
       \/ Fault
    /\ AfterEntryError(r)
    /\ UNCHANGED <<root, token, dir, owner, binding, entries, applying, kind, adm, snap, receipt>>

\* The contents go to the open file; syncing the directory fails when
\* `recover apply` has moved it.
FinishEntry(r) ==
    /\ pc[r] \in State /\ Pending(r)
    /\ WriteEntry(r)
    /\ \/ dir[r] = "live" /\ AfterEntry(r)
       \/ dir[r] # "live" /\ AfterEntryError(r)
    /\ NoFault
    /\ UNCHANGED <<root, token, dir, owner, binding, applying, kind, adm, snap, receipt>>

\* Storage fails before or after the contents are written.
FinishEntryFails(r) ==
    /\ pc[r] \in State /\ Pending(r)
    /\ Fault
    /\ WriteEntry(r) \/ UNCHANGED entries
    /\ AfterEntryError(r)
    /\ UNCHANGED <<root, token, dir, owner, binding, applying, kind, adm, snap, receipt>>

-----------------------------------------------------------------------------
(* Preparation: the commit, the snapshot and its binding.                  *)

\* resolve_clean_head.  Two failures here are not journaled: before it a matrix
\* cannot install its cancellation handler, after it the generation guard
\* refuses the commit.
Resolve(r) ==
    /\ pc[r] = "resolve"
    /\ \/ Goto(r, "reserve") /\ NoFault /\ UNCHANGED result
       \/ GiveUp(r) /\ NoFault
       \/ Return(r, "unjournaled") /\ NoFault
    /\ UNCHANGED <<root, token, dir, owner, binding, entries, applying,
                   kind, primary, adm, snap, receipt>>

\* reserve_resource
Reserve(r) ==
    /\ pc[r] = "reserve"
    /\ \/ Owned(r) /\ Goto(r, "materialize") /\ NoFault
       \/ ~Owned(r) /\ Goto(r, "failed") /\ NoFault
       \/ Goto(r, "failed") /\ Fault
    /\ UNCHANGED <<root, token, dir, owner, binding, entries, applying, run>>

\* SourceSnapshot::materialize creates the directory inside the run directory.
StartSnapshot(r) ==
    /\ pc[r] = "materialize"
    /\ \/ dir[r] = "live" /\ snap' = [snap EXCEPT ![r] = TRUE] /\ Goto(r, "copy") /\ NoFault
       \/ dir[r] # "live" /\ Goto(r, "failed") /\ NoFault /\ UNCHANGED snap
       \/ Goto(r, "failed") /\ Fault /\ UNCHANGED snap
    /\ UNCHANGED <<root, token, dir, owner, binding, entries, applying,
                   kind, primary, adm, receipt, result>>

\* create_dir_all makes the path of a directory that was moved away again.
Recreated(r) ==
    IF dir[r] = "quarantined" THEN [dir EXCEPT ![r] = "recreated"] ELSE dir

\* It copies the tree, or removes what it made; the removal may fail unnoticed,
\* and does not find what was moved away.
CopySnapshot(r) ==
    /\ pc[r] = "copy"
    /\ \/ dir' = Recreated(r) /\ Goto(r, "overlay") /\ NoFault /\ UNCHANGED snap
       \/ /\ dir' \in {dir, Recreated(r)}
          /\ Goto(r, "failed")
          /\ \/ NoFault /\ snap' = [snap EXCEPT ![r] = dir[r] # "live"]
             \/ Fault /\ UNCHANGED snap
    /\ UNCHANGED <<root, token, owner, binding, entries, applying,
                   kind, primary, adm, receipt, result>>

\* prepare_mount_overlay makes what is missing in the snapshot, if anything; on
\* an error the snapshot stays until it is dropped.
Overlay(r) ==
    /\ pc[r] = "overlay"
    /\ dir' \in {dir, Recreated(r)}
    /\ Goto(r, "bind") \/ Goto(r, "failed")
    /\ NoFault
    /\ UNCHANGED <<root, token, owner, binding, entries, applying, run>>

\* bind_source
CreateBinding(r) ==
    /\ pc[r] = "bind"
    /\ \/ Owned(r) /\ binding' = [binding EXCEPT ![r] = "torn"] /\ Goto(r, "bindWrite") /\ NoFault
       \/ ~Owned(r) /\ Goto(r, "failed") /\ NoFault /\ UNCHANGED binding
       \/ Goto(r, "failed") /\ Fault /\ UNCHANGED binding
    /\ UNCHANGED <<root, token, dir, owner, entries, applying, run>>

WriteBinding(r) ==
    /\ pc[r] = "bindWrite"
    /\ \/ /\ NoFault
          /\ binding' = [binding EXCEPT ![r] = "whole"]
          /\ Goto(r, IF dir[r] = "live" THEN "admission" ELSE "failed")
       \/ /\ Fault
          /\ binding' \in {binding, [binding EXCEPT ![r] = "whole"]}
          /\ Goto(r, "failed")
    /\ UNCHANGED <<root, token, dir, owner, entries, applying, run>>

-----------------------------------------------------------------------------
(* Admission, execution and publication.                                   *)

\* AdmissionCoordinator::platform_for, whose failure (no home directory, an
\* unsafe or misplaced root, storage) is not journaled; a matrix then validates
\* its profile.
OpenAdmission(r) ==
    /\ pc[r] = "admission"
    /\ \/ Goto(r, "acquire") /\ NoFault /\ UNCHANGED result
       \/ kind[r] = "matrix" /\ GiveUp(r) /\ NoFault
       \/ Return(r, "unjournaled") /\ NoFault
    /\ UNCHANGED <<root, token, dir, owner, binding, entries, applying,
                   kind, primary, adm, snap, receipt>>

\* AdmissionCoordinator::acquire gives the slot to one run at a time ...
Acquire(r) ==
    /\ pc[r] = "acquire"
    /\ \A q \in Run : adm[q] # "held"
    /\ adm' = [adm EXCEPT ![r] = "held"]
    /\ Goto(r, "admitted")
    /\ NoFault
    /\ UNCHANGED <<root, token, dir, owner, binding, entries, applying,
                   kind, primary, snap, receipt, result>>

\* Mutant of AcquireFails: the refusal is not journaled.
AcquireFailsSilently(r) ==
    /\ pc[r] = "acquire"
    /\ Return(r, "err")
    /\ NoFault
    /\ UNCHANGED <<root, token, dir, owner, binding, entries, applying,
                   kind, primary, adm, snap, receipt>>

\* ... or refuses: the timeout passed, or the user cancelled.
AcquireFails(r) ==
    /\ pc[r] = "acquire"
    /\ GiveUp(r)
    /\ NoFault
    /\ UNCHANGED <<root, token, dir, owner, binding, entries, applying,
                   kind, primary, adm, snap, receipt>>

\* resource_pre_start and, for a single runtime, everything up to the prepared
\* workspace.
PreStart(r) ==
    /\ pc[r] = "prestart"
    /\ \/ Goto(r, "prepared") /\ UNCHANGED primary
       \/ Finalize(r, "err")
    /\ NoFault
    /\ UNCHANGED <<root, token, dir, owner, binding, entries, applying,
                   kind, adm, snap, receipt, result>>

\* The checks, the inspection of the repository after them, the revalidation
\* of the snapshot and the watchdog barrier.
Check(r) ==
    /\ pc[r] = "check"
    /\ \/ dir[r] = "live" /\ kind[r] = "run" /\ Goto(r, "finalizing") /\ UNCHANGED primary
       \/ dir[r] = "live" /\ kind[r] = "matrix" /\ Finalize(r, "ok")
       \/ Finalize(r, "err")
    /\ NoFault
    /\ UNCHANGED <<root, token, dir, owner, binding, entries, applying,
                   kind, adm, snap, receipt, result>>

\* The receipt is sealed and renamed into place, or not.
Publish(r) ==
    /\ pc[r] = "publish"
    /\ \/ /\ receipt' = [receipt EXCEPT ![r] = TRUE]
          /\ \/ kind[r] = "run" /\ Finalize(r, "ok")
             \/ kind[r] = "matrix" /\ Goto(r, "sealed") /\ UNCHANGED primary
       \/ /\ UNCHANGED receipt
          /\ \/ kind[r] = "run" /\ Finalize(r, "err")
             \/ kind[r] = "matrix" /\ Goto(r, "failed") /\ UNCHANGED primary
    /\ NoFault
    /\ UNCHANGED <<root, token, dir, owner, binding, entries, applying,
                   kind, adm, snap, result>>

-----------------------------------------------------------------------------
(* finalize_run_terminal and what follows it.                              *)

\* AdmissionGuard::release; closing the lock file frees the slot either way,
\* but after an error nobody knows what is left of the ticket.
Release(r) ==
    /\ pc[r] = "release"
    /\ \/ /\ NoFault
          /\ adm' = [adm EXCEPT ![r] = "released"]
          /\ Goto(r, IF primary[r] = "ok" THEN "cleanup" ELSE "failed")
       \/ /\ Fault
          /\ adm' = [adm EXCEPT ![r] = "uncertain"]
          /\ Goto(r, "cleanup_pending")
    /\ UNCHANGED <<root, token, dir, owner, binding, entries, applying,
                   kind, primary, snap, receipt, result>>

\* Mutant of Cleanup: a single run ignores its error.
CleanupBestEffort(r) ==
    /\ pc[r] = "cleanup"
    /\ \/ NoFault /\ snap' = [snap EXCEPT ![r] = FALSE]
       \/ kind[r] = "run" /\ Fault /\ UNCHANGED snap
    /\ Goto(r, IF kind[r] = "run" THEN "sealed" ELSE "finalizing")
    /\ UNCHANGED <<root, token, dir, owner, binding, entries, applying,
                   kind, primary, adm, receipt, result>>

\* SourceSnapshot::cleanup
Cleanup(r) ==
    /\ pc[r] = "cleanup"
    /\ \/ /\ dir[r] = "live" /\ NoFault
          /\ snap' = [snap EXCEPT ![r] = FALSE]
          /\ Goto(r, IF kind[r] = "run" THEN "sealed" ELSE "finalizing")
       \/ dir[r] # "live" /\ NoFault /\ Goto(r, "cleanup_pending") /\ UNCHANGED snap
       \/ Fault /\ Goto(r, "cleanup_pending") /\ UNCHANGED snap
    /\ UNCHANGED <<root, token, dir, owner, binding, entries, applying,
                   kind, primary, adm, receipt, result>>

\* The snapshot is dropped; a failed removal goes unnoticed.
Exit(r) ==
    /\ pc[r] = "exit"
    /\ Goto(r, "done")
    /\ \/ dir[r] = "live" /\ NoFault /\ snap' = [snap EXCEPT ![r] = FALSE]
       \/ dir[r] # "live" /\ NoFault /\ UNCHANGED snap
       \/ snap[r] /\ Fault /\ UNCHANGED snap
    /\ UNCHANGED <<root, token, dir, owner, binding, entries, applying,
                   kind, primary, adm, receipt, result>>

\* The process dies; the operating system unlocks the slot.
Crash(r) ==
    /\ pc[r] \notin Over
    /\ Goto(r, "dead")
    /\ adm' = IF adm[r] = "held" THEN [adm EXCEPT ![r] = "lost"] ELSE adm
    /\ Fault
    /\ UNCHANGED <<root, token, dir, owner, binding, entries, applying,
                   kind, primary, snap, receipt, result>>

-----------------------------------------------------------------------------
Step(r) ==
    \/ LookForMarker(r) \/ CreateMarker(r) \/ WriteMarker(r)
    \/ CreateRunDirectory(r) \/ CreateOwner(r) \/ WriteOwner(r)
    \/ BeginEntry(r) \/ RefuseEntry(r) \/ FinishEntry(r) \/ FinishEntryFails(r)
    \/ Resolve(r) \/ Reserve(r) \/ StartSnapshot(r) \/ CopySnapshot(r) \/ Overlay(r)
    \/ CreateBinding(r) \/ WriteBinding(r)
    \/ OpenAdmission(r) \/ Acquire(r) \/ AcquireFails(r) \/ PreStart(r) \/ Check(r) \/ Publish(r)
    \/ Release(r) \/ Cleanup(r) \/ Exit(r)

Recover ==
    /\ (\E r \in Run : ApplyReads(r)) \/ ApplyRenames \/ ApplyFails
    /\ UNCHANGED <<pc, faults, run>>

Next == (\E r \in Run : Step(r) \/ Crash(r)) \/ Recover

Spec == Init /\ [][Next]_vars

\* A live process takes its next step; acquire is bounded by its timeout.
FairSpec == Spec /\ \A r \in Run : WF_vars(Step(r))

-----------------------------------------------------------------------------
(* Properties.                                                             *)

Recorded(r, s) == \E i \in DOMAIN entries[r] : entries[r][i] = [state |-> s, whole |-> TRUE]

\* What a journal says at its end is true, whatever failed and whoever
\* recovered meanwhile.  A run journaled as Sealed has published its receipt,
\* has given the slot back without error and has removed its snapshot
\* (print_run, print_matrix_run).  A run journaled as Failed knows that it does
\* not hold the slot: an uncertain release is never recorded as Failed
\* (finalize_run_terminal, acquire_admission_with_journal).
JournalIsTrue ==
    \A r \in Run :
        /\ Recorded(r, "sealed") => receipt[r] /\ adm[r] = "released" /\ ~snap[r]
        /\ Recorded(r, "failed") => adm[r] \in {"none", "released"}

\* A receipt is published only by a run whose journal says Finalizing, and the
\* receipt of a matrix only after the slot was released and the snapshot
\* removed (MatrixTerminalLifecyclePorts).
ReceiptFollowsJournal ==
    \A r \in Run : receipt[r] =>
        /\ Recorded(r, "finalizing")
        /\ kind[r] = "matrix" => adm[r] = "released" /\ ~snap[r]

\* Only the last file of a journal can be torn, and its states follow the
\* legal transitions, also when a failed write was followed by other calls
\* (append_entry, read_entries).
JournalReplays ==
    \A r \in Run : \A i \in 1..Len(entries[r]) - 1 :
        /\ entries[r][i].whole
        /\ entries[r][i + 1].state \in Legal(entries[r][i].state)

\* Runs that initialise the store at the same time agree on its token, so each
\* can read its journal (initialize).
JournalsBelongToStore ==
    \A r \in Run : dir[r] # "none" => token[r] = root.token /\ root.marker = "whole"

\* The last entry that fits what a run returned.
LastWord(res) ==
    IF res = "ok" THEN "sealed" ELSE IF res = "err" THEN "failed" ELSE "created"

\* Without storage failures and recovery a run that has ended left nothing
\* behind but its journal and, exactly when it succeeded, its receipt: the
\* snapshot is gone and the slot given back.  The journal ends as the run did,
\* with Sealed or Failed, but for three errors that are returned without an
\* entry (the cancellation handler of a matrix, the generation guard,
\* platform_for).  After one of these the journal says Created for ever, of a
\* run that never held the slot (print_run and print_matrix_run, all error
\* paths, and the drop of the snapshot).
EveryEndIsRecorded ==
    \A r \in Run : pc[r] = "done" /\ dir[r] = "live" /\ faults = 0 =>
        /\ Recorded(r, LastWord(result[r])) /\ LastState(r) = LastWord(result[r])
        /\ receipt[r] <=> result[r] = "ok"
        /\ ~snap[r]
        /\ adm[r] \in IF result[r] = "unjournaled" THEN {"none"} ELSE {"none", "released"}

\* A run ends, unless it crashes, and gives the slot back, whatever fails on
\* the way (the error paths of print_run and print_matrix_run).
EveryRunEnds ==
    \A r \in Run : <>(pc[r] \in Over /\ adm[r] # "held")
=============================================================================
