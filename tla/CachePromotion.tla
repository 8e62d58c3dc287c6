--------------------------- MODULE CachePromotion ----------------------------
(***************************************************************************)
(* The managed cache of src/cache.rs: runs prepare a staging generation of *)
(* every cache entry of their plan, and promote them all under a journal   *)
(* once their checks pass.  Other processes pin complete entries for use.  *)
(*                                                                         *)
(* An entry directory holds data/, the .complete marker, the generation    *)
(* manifest and, during a promotion, the backup of the previous data/.     *)
(* Staging directories have fresh names and are left out: a payload is the *)
(* number of the run that built it.  Renames are atomic; a directory tree  *)
(* is removed, and a new file is written, in two steps.                    *)
(***************************************************************************)
EXTENDS Integers, Sequences, FiniteSets

CONSTANTS
    Proc,       \* processes that use the cache
    NoProc,     \* "nobody" as the holder of a lock
    Key,        \* cache keys
    Plan,       \* plans, each the sequence of its cache keys.  The plan digest
                \*   is part of a key, so two plans never share one
    Gen,        \* generation numbers an operator passes to a run
    MaxRuns,    \* bound on the number of runs
    MaxFaults   \* bound on crashes and storage failures

ASSUME NoProcAssumption == NoProc \notin Proc
ASSUME PlanAssumption ==
    /\ \A P \in Plan : P \in Seq(Key) /\ P # <<>>
    /\ \A P \in Plan : \A i, j \in DOMAIN P : P[i] = P[j] => i = j
    /\ \A P, Q \in Plan : \A i \in DOMAIN P, j \in DOMAIN Q : P[i] = Q[j] => P = Q
ASSUME GenAssumption == Gen \subseteq Nat \ {0}
ASSUME BoundAssumption == MaxRuns \in Nat /\ MaxFaults \in Nat

VARIABLES
    pc,         \* where each process is
    plan,       \* the plan it runs, or whose entries it pins
    at,         \* index of the entry it is working on
    run,        \* the number of its run, 0 when it has none
    runLock,    \* plans whose .run-lock-v1 exists
    elock,      \* holder of the entry lock
    plock,      \* holder of the promotion lock
    data, marker, manifest, backup,     \* the files of an entry
    journal,    \* the promotion journal
    made,       \* made[n] is the generation of run n
    good,       \* the last payload of an entry that was marked complete
    faults      \* crashes and storage failures so far

entries == <<data, marker, manifest, backup, good>>
locks   == <<runLock, elock, plock>>
vars    == <<pc, plan, at, run, runLock, elock, plock, data, marker, manifest, backup,
             journal, made, good, faults>>

Partial == -1                       \* a tree whose removal was interrupted
Torn    == -1                       \* a manifest that was not written to the end
Runs    == 1..MaxRuns
Payload == Runs \cup {0, Partial}   \* 0: absent

NoJournal == [state |-> "none"]
KeysOf(P) == {P[i] : i \in DOMAIN P}

RunSteps == {"prepare", "check", "promote"}
RecoverySteps == {"recover", "rec", "recKeep", "recData", "recManifest", "recRename",
                  "recRestore", "recRestoreWrite", "recMark", "recMarkWrite", "recJournal"}
PromotionSteps == {"journal", "journalWrite", "exec", "execMarker", "execManifest", "execData",
                   "execMoveManifest", "execMark", "execMarkWrite", "finalize"}

TypeOK ==
    /\ pc \in [Proc -> RunSteps \cup RecoverySteps \cup PromotionSteps
                         \cup {"idle", "promoted", "pin"}]
    /\ plan \in [Proc -> Plan \cup {<<>>}]
    /\ at \in [Proc -> Nat]
    /\ run \in [Proc -> Runs \cup {0}]
    /\ runLock \in SUBSET Plan
    /\ elock \in [Key -> Proc \cup {NoProc}]
    /\ plock \in Proc \cup {NoProc}
    /\ data \in [Key -> Payload]
    /\ marker \in [Key -> {"none", "torn", "complete"}]
    /\ manifest \in [Key -> Gen \cup {0, Torn}]
    /\ backup \in [Key -> Payload]
    /\ journal.state \in {"none", "torn", "prepared"}
    /\ journal.state = "prepared" => journal.keys \in Plan /\ journal.gen \in Gen
    /\ made \in Seq(Gen) /\ Len(made) <= MaxRuns
    /\ good \in [Key -> Runs \cup {0}]
    /\ faults \in 0..MaxFaults

Init ==
    /\ pc = [p \in Proc |-> "idle"]
    /\ plan = [p \in Proc |-> <<>>]
    /\ at = [p \in Proc |-> 0]
    /\ run = [p \in Proc |-> 0]
    /\ runLock = {}
    /\ elock = [k \in Key |-> NoProc]
    /\ plock = NoProc
    /\ data = [k \in Key |-> 0]
    /\ marker = [k \in Key |-> "none"]
    /\ manifest = [k \in Key |-> 0]
    /\ backup = [k \in Key |-> 0]
    /\ journal = NoJournal
    /\ made = <<>>
    /\ good = [k \in Key |-> 0]
    /\ faults = 0

-----------------------------------------------------------------------------
(* Building blocks.                                                        *)

Goto(p, step) == pc' = [pc EXCEPT ![p] = step]

At(p, step) == pc[p] = step /\ at[p] <= Len(plan[p])
Cur(p) == plan[p][at[p]]                        \* the entry in hand

RecAt(p, step) == pc[p] = step /\ at[p] <= Len(journal.keys)
Rec(p) == journal.keys[at[p]]                   \* the same during recovery

\* Go on with the next entry, at step.
NextEntry(p, step) ==
    /\ Goto(p, step)
    /\ at' = [at EXCEPT ![p] = @ + 1]

\* Start a pass over the entries, at step.
FirstEntry(p, step) ==
    /\ Goto(p, step)
    /\ at' = [at EXCEPT ![p] = 1]

\* remove_dir_all is not atomic.
Shrink(tree) == IF tree = Partial THEN 0 ELSE Partial

\* validate_completed_entry
ValidEntry(k) == data[k] # 0 /\ marker[k] = "complete" /\ manifest[k] \notin {0, Torn}

\* Every descriptor p holds is closed.
Unlock(p) ==
    /\ elock' = [k \in Key |-> IF elock[k] = p THEN NoProc ELSE elock[k]]
    /\ plock' = IF plock = p THEN NoProc ELSE plock

Reset(p) ==
    /\ Goto(p, "idle")
    /\ plan' = [plan EXCEPT ![p] = <<>>]
    /\ at' = [at EXCEPT ![p] = 0]
    /\ run' = [run EXCEPT ![p] = 0]

\* The run ends: its handles and its workspace lock are dropped.
EndRun(p) ==
    /\ Reset(p)
    /\ Unlock(p)
    /\ runLock' = runLock \ {plan[p]}
    /\ UNCHANGED <<entries, journal, made>>

-----------------------------------------------------------------------------
(* A run up to promotion: workspace lock, prepared entries, checks.        *)

\* PreparedWorkspace::prepare_with_generation takes the workspace lock.
Begin(p, P, g) ==
    /\ pc[p] = "idle"
    /\ P \notin runLock
    /\ Len(made) < MaxRuns
    /\ runLock' = runLock \cup {P}
    /\ plan' = [plan EXCEPT ![p] = P]
    /\ run' = [run EXCEPT ![p] = Len(made) + 1]
    /\ made' = Append(made, g)
    /\ FirstEntry(p, "prepare")
    /\ UNCHANGED <<elock, plock, entries, journal, faults>>

\* prepare_entry: the entry lock is free, the marker and the manifest parse,
\* and a complete entry has data to copy.
Preparable(k) ==
    /\ elock[k] = NoProc
    /\ \/ marker[k] = "none"
       \/ marker[k] = "complete" /\ manifest[k] # Torn /\ data[k] # 0

PrepareEntry(p) ==
    /\ At(p, "prepare")
    /\ Preparable(Cur(p))
    /\ elock' = [elock EXCEPT ![Cur(p)] = p]
    /\ NextEntry(p, "prepare")
    /\ UNCHANGED <<plan, run, runLock, plock, entries, journal, made, faults>>

Prepared(p) ==
    /\ pc[p] = "prepare"
    /\ at[p] > Len(plan[p])
    /\ Goto(p, "check")
    /\ UNCHANGED <<plan, at, run, locks, entries, journal, made, faults>>

\* Every check of the run passed: promote_entries is called.
ChecksPass(p) ==
    /\ pc[p] = "check"
    /\ Goto(p, "promote")
    /\ UNCHANGED <<plan, at, run, locks, entries, journal, made, faults>>

\* Some check did not pass: nothing is promoted.
ChecksFail(p) ==
    /\ pc[p] = "check"
    /\ EndRun(p)
    /\ UNCHANGED faults

-----------------------------------------------------------------------------
(* recover_promotion_locked: undo or finish an interrupted promotion.      *)

LockPromotion(p) ==
    /\ pc[p] = "promote"
    /\ plock = NoProc
    /\ plock' = p
    /\ Goto(p, "recover")
    /\ UNCHANGED <<plan, at, run, runLock, elock, entries, journal, made, faults>>

NothingToRecover(p) ==
    /\ pc[p] = "recover"
    /\ journal = NoJournal
    /\ Goto(p, "journal")
    /\ UNCHANGED <<plan, at, run, locks, entries, journal, made, faults>>

\* Every entry lock of the journal is taken through a new descriptor, so a
\* lock the process itself holds on a prepared entry is as busy as any other.
RecoverLocks(p) ==
    /\ pc[p] = "recover"
    /\ journal.state = "prepared"
    /\ \A k \in KeysOf(journal.keys) : elock[k] = NoProc
    /\ elock' = [k \in Key |-> IF k \in KeysOf(journal.keys) THEN p ELSE elock[k]]
    /\ FirstEntry(p, "rec")
    /\ UNCHANGED <<plan, run, runLock, plock, entries, journal, made, faults>>

\* current_generation_is_complete
CurrentIsComplete(k) ==
    /\ data[k] # 0
    /\ marker[k] = "complete"
    /\ manifest[k] = journal.gen

\* The promotion of this entry had been finished: only residue is removed.
RecComplete(p) ==
    /\ RecAt(p, "rec")
    /\ CurrentIsComplete(Rec(p))
    /\ Goto(p, "recKeep")
    /\ UNCHANGED <<plan, at, run, locks, entries, journal, made, faults>>

RecKeep(p) ==
    /\ pc[p] = "recKeep"
    /\ IF backup[Rec(p)] = 0
       THEN NextEntry(p, "rec") /\ UNCHANGED backup
       ELSE backup' = [backup EXCEPT ![Rec(p)] = Shrink(@)] /\ UNCHANGED <<pc, at>>
    /\ UNCHANGED <<plan, run, locks, data, marker, manifest, good, journal, made, faults>>

\* Mutant of RecRollback: whether there is a backup is not asked.
RecRollbackBlind(p) ==
    /\ RecAt(p, "rec")
    /\ ~CurrentIsComplete(Rec(p))
    /\ journal.had[Rec(p)]
    /\ Goto(p, "recData")
    /\ UNCHANGED <<plan, at, run, locks, entries, journal, made, faults>>

\* The previous data is in the backup: it is put back.
RecRollback(p) ==
    /\ RecAt(p, "rec")
    /\ ~CurrentIsComplete(Rec(p))
    /\ journal.had[Rec(p)] /\ backup[Rec(p)] # 0
    /\ Goto(p, "recData")
    /\ UNCHANGED <<plan, at, run, locks, entries, journal, made, faults>>

RecData(p) ==
    /\ pc[p] = "recData"
    /\ IF data[Rec(p)] # 0
       THEN /\ data' = [data EXCEPT ![Rec(p)] = Shrink(@)]
            /\ UNCHANGED <<pc, marker>>
       ELSE /\ marker' = [marker EXCEPT ![Rec(p)] = "none"]
            /\ Goto(p, "recManifest")
            /\ UNCHANGED data
    /\ UNCHANGED <<plan, at, run, locks, manifest, backup, good, journal, made, faults>>

RecManifest(p) ==
    /\ pc[p] = "recManifest"
    /\ manifest' = [manifest EXCEPT ![Rec(p)] = 0]
    /\ Goto(p, "recRename")
    /\ UNCHANGED <<plan, at, run, locks, data, marker, backup, good, journal, made, faults>>

RecRename(p) ==
    /\ pc[p] = "recRename"
    /\ data' = [data EXCEPT ![Rec(p)] = backup[Rec(p)]]
    /\ backup' = [backup EXCEPT ![Rec(p)] = 0]
    /\ Goto(p, "recRestore")
    /\ UNCHANGED <<plan, at, run, locks, marker, manifest, good, journal, made, faults>>

\* restore_optional_file, for the manifest and then for the marker.
RecRestore(p) ==
    /\ pc[p] = "recRestore"
    /\ IF journal.manifest[Rec(p)] = 0
       THEN Goto(p, "recMark") /\ UNCHANGED manifest
       ELSE /\ manifest' = [manifest EXCEPT ![Rec(p)] = Torn]
            /\ Goto(p, "recRestoreWrite")
    /\ UNCHANGED <<plan, at, run, locks, data, marker, backup, good, journal, made, faults>>

RecRestoreWrite(p) ==
    /\ pc[p] = "recRestoreWrite"
    /\ manifest' = [manifest EXCEPT ![Rec(p)] = journal.manifest[Rec(p)]]
    /\ Goto(p, "recMark")
    /\ UNCHANGED <<plan, at, run, locks, data, marker, backup, good, journal, made, faults>>

RecMark(p) ==
    /\ pc[p] = "recMark"
    /\ IF journal.marker[Rec(p)] = "none"
       THEN NextEntry(p, "rec") /\ UNCHANGED marker
       ELSE /\ marker' = [marker EXCEPT ![Rec(p)] = "torn"]
            /\ Goto(p, "recMarkWrite")
            /\ UNCHANGED at
    /\ UNCHANGED <<plan, run, locks, data, manifest, backup, good, journal, made, faults>>

RecMarkWrite(p) ==
    /\ pc[p] = "recMarkWrite"
    /\ marker' = [marker EXCEPT ![Rec(p)] = journal.marker[Rec(p)]]
    /\ NextEntry(p, "rec")
    /\ UNCHANGED <<plan, run, locks, data, manifest, backup, good, journal, made, faults>>

\* current_matches_previous: the promotion never got to this entry.
MatchesPrevious(k) ==
    /\ data[k] # 0
    /\ marker[k] = journal.marker[k]
    /\ manifest[k] = journal.manifest[k]

RecUntouched(p) ==
    /\ RecAt(p, "rec")
    /\ ~CurrentIsComplete(Rec(p))
    /\ journal.had[Rec(p)] /\ backup[Rec(p)] = 0 /\ MatchesPrevious(Rec(p))
    /\ NextEntry(p, "rec")
    /\ UNCHANGED <<plan, run, locks, entries, journal, made, faults>>

\* There was no previous data and there is no new data either.
RecEmpty(p) ==
    /\ RecAt(p, "rec")
    /\ ~journal.had[Rec(p)] /\ backup[Rec(p)] = 0 /\ data[Rec(p)] = 0
    /\ marker' = [marker EXCEPT ![Rec(p)] = "none"]
    /\ manifest' = [manifest EXCEPT ![Rec(p)] = 0]
    /\ NextEntry(p, "rec")
    /\ UNCHANGED <<plan, run, locks, data, backup, good, journal, made, faults>>

RecDone(p) ==
    /\ pc[p] = "rec"
    /\ at[p] > Len(journal.keys)
    /\ elock' = [k \in Key |-> IF k \in KeysOf(journal.keys) THEN NoProc ELSE elock[k]]
    /\ Goto(p, "recJournal")
    /\ UNCHANGED <<plan, at, run, runLock, plock, entries, journal, made, faults>>

RecRemoveJournal(p) ==
    /\ pc[p] = "recJournal"
    /\ journal' = NoJournal
    /\ Goto(p, "journal")
    /\ UNCHANGED <<plan, at, run, locks, entries, made, faults>>
-----------------------------------------------------------------------------
(* create_promotion_journal, execute_promotion and finalize_promotion.     *)

CreateJournal(p) ==
    /\ pc[p] = "journal"
    /\ journal' = [state |-> "torn"]
    /\ Goto(p, "journalWrite")
    /\ UNCHANGED <<plan, at, run, locks, entries, made, faults>>

WriteJournal(p) ==
    /\ pc[p] = "journalWrite"
    /\ journal' = [state |-> "prepared", keys |-> plan[p], gen |-> made[run[p]],
                   had |-> [k \in KeysOf(plan[p]) |-> data[k] # 0],
                   marker |-> [k \in KeysOf(plan[p]) |-> marker[k]],
                   manifest |-> [k \in KeysOf(plan[p]) |-> manifest[k]]]
    /\ FirstEntry(p, "exec")
    /\ UNCHANGED <<plan, run, locks, entries, made, faults>>

ExecBackup(p) ==
    /\ At(p, "exec")
    /\ IF journal.had[Cur(p)]
       THEN /\ backup' = [backup EXCEPT ![Cur(p)] = data[Cur(p)]]
            /\ data' = [data EXCEPT ![Cur(p)] = 0]
       ELSE UNCHANGED <<backup, data>>
    /\ Goto(p, "execMarker")
    /\ UNCHANGED <<plan, at, run, locks, marker, manifest, good, journal, made, faults>>

\* Mutant of ExecMarker: the old marker is left in place.
ExecMarkerLeft(p) ==
    /\ pc[p] = "execMarker"
    /\ Goto(p, "execManifest")
    /\ UNCHANGED <<plan, at, run, locks, entries, journal, made, faults>>

ExecMarker(p) ==
    /\ pc[p] = "execMarker"
    /\ marker' = [marker EXCEPT ![Cur(p)] = "none"]
    /\ Goto(p, "execManifest")
    /\ UNCHANGED <<plan, at, run, locks, data, manifest, backup, good, journal, made, faults>>

ExecManifest(p) ==
    /\ pc[p] = "execManifest"
    /\ manifest' = [manifest EXCEPT ![Cur(p)] = 0]
    /\ Goto(p, "execData")
    /\ UNCHANGED <<plan, at, run, locks, data, marker, backup, good, journal, made, faults>>

\* The staging data becomes the current data, then its manifest follows.
ExecData(p) ==
    /\ pc[p] = "execData"
    /\ data' = [data EXCEPT ![Cur(p)] = run[p]]
    /\ Goto(p, "execMoveManifest")
    /\ UNCHANGED <<plan, at, run, locks, marker, manifest, backup, good, journal, made, faults>>

ExecMoveManifest(p) ==
    /\ pc[p] = "execMoveManifest"
    /\ manifest' = [manifest EXCEPT ![Cur(p)] = made[run[p]]]
    /\ Goto(p, "execMark")
    /\ UNCHANGED <<plan, at, run, locks, data, marker, backup, good, journal, made, faults>>

\* write_complete_marker creates the file and then writes it.
ExecMark(p) ==
    /\ pc[p] = "execMark"
    /\ marker' = [marker EXCEPT ![Cur(p)] = "torn"]
    /\ Goto(p, "execMarkWrite")
    /\ UNCHANGED <<plan, at, run, locks, data, manifest, backup, good, journal, made, faults>>

ExecMarkWrite(p) ==
    /\ pc[p] = "execMarkWrite"
    /\ marker' = [marker EXCEPT ![Cur(p)] = "complete"]
    /\ good' = [good EXCEPT ![Cur(p)] = run[p]]
    /\ NextEntry(p, "exec")
    /\ UNCHANGED <<plan, run, locks, data, manifest, backup, journal, made, faults>>

\* Mutant of ExecDone: the last entry is left out.
ExecDoneEarly(p) ==
    /\ pc[p] = "exec"
    /\ at[p] >= Len(plan[p])
    /\ FirstEntry(p, "finalize")
    /\ UNCHANGED <<plan, run, locks, entries, journal, made, faults>>

ExecDone(p) ==
    /\ pc[p] = "exec"
    /\ at[p] > Len(plan[p])
    /\ FirstEntry(p, "finalize")
    /\ UNCHANGED <<plan, run, locks, entries, journal, made, faults>>

Finalize(p) ==
    /\ At(p, "finalize")
    /\ IF backup[Cur(p)] = 0
       THEN NextEntry(p, "finalize") /\ UNCHANGED backup
       ELSE backup' = [backup EXCEPT ![Cur(p)] = Shrink(@)] /\ UNCHANGED <<pc, at>>
    /\ UNCHANGED <<plan, run, locks, data, marker, manifest, good, journal, made, faults>>

RemoveJournal(p) ==
    /\ pc[p] = "finalize"
    /\ at[p] > Len(plan[p])
    /\ journal' = NoJournal
    /\ Goto(p, "promoted")
    /\ UNCHANGED <<plan, at, run, locks, entries, made, faults>>

\* The run goes on to its receipt and drops its workspace.
Return(p) ==
    /\ pc[p] = "promoted"
    /\ EndRun(p)
    /\ UNCHANGED faults

-----------------------------------------------------------------------------
(* pin_completed_sources: a guarded command uses complete entries.         *)

PinSources(p, P) ==
    /\ pc[p] = "idle"
    /\ plan' = [plan EXCEPT ![p] = P]
    /\ FirstEntry(p, "pin")
    /\ UNCHANGED <<run, locks, entries, journal, made, faults>>

\* Mutant of PinEntry: the entry lock is not taken.
PinEntryUnlocked(p) ==
    /\ At(p, "pin")
    /\ elock[Cur(p)] = NoProc
    /\ ValidEntry(Cur(p))
    /\ NextEntry(p, "pin")
    /\ UNCHANGED <<plan, run, locks, entries, journal, made, faults>>

PinEntry(p) ==
    /\ At(p, "pin")
    /\ elock[Cur(p)] = NoProc
    /\ ValidEntry(Cur(p))
    /\ elock' = [elock EXCEPT ![Cur(p)] = p]
    /\ NextEntry(p, "pin")
    /\ UNCHANGED <<plan, run, runLock, plock, entries, journal, made, faults>>

\* Every pin taken so far is dropped.
Unpin(p) ==
    /\ Reset(p)
    /\ Unlock(p)
    /\ UNCHANGED <<runLock, entries, journal, made, faults>>

PinRefused(p) ==
    /\ At(p, "pin")
    /\ elock[Cur(p)] # NoProc \/ ~ValidEntry(Cur(p))
    /\ Unpin(p)

\* The guarded command has ended.
GuardedCommandEnds(p) ==
    /\ pc[p] = "pin"
    /\ at[p] > Len(plan[p])
    /\ Unpin(p)

-----------------------------------------------------------------------------
(* Errors, storage failures, crashes.                                      *)

\* The entry in hand is in a state recovery does not decide about.
Uncertain(k) ==
    \/ data[k] # 0 /\ marker[k] = "complete" /\ manifest[k] = Torn
    \/ /\ ~CurrentIsComplete(k)
       /\ IF journal.had[k]
          THEN backup[k] = 0 /\ ~MatchesPrevious(k)
          ELSE backup[k] # 0 \/ data[k] # 0

\* The run stops at an error of its own: a busy lock, an entry or a journal
\* it cannot read, or a state it cannot decide about.
Rejected(p) ==
    /\ \/ At(p, "prepare") /\ ~Preparable(Cur(p))
       \/ pc[p] = "promote" /\ plock # NoProc
       \/ pc[p] = "recover" /\ journal.state = "torn"
       \/ /\ pc[p] = "recover" /\ journal.state = "prepared"
          /\ \E k \in KeysOf(journal.keys) : elock[k] # NoProc
       \/ RecAt(p, "rec") /\ Uncertain(Rec(p))
    /\ EndRun(p)
    /\ UNCHANGED faults

\* The file system refuses the next operation of the run.
StorageFails(p) ==
    /\ pc[p] \in RunSteps \cup RecoverySteps \cup PromotionSteps
    /\ faults < MaxFaults
    /\ faults' = faults + 1
    /\ EndRun(p)

\* The process dies.  Its advisory locks go with it, .run-lock-v1 stays.
Crash(p) ==
    /\ pc[p] # "idle"
    /\ faults < MaxFaults
    /\ faults' = faults + 1
    /\ Reset(p)
    /\ Unlock(p)
    /\ UNCHANGED <<runLock, entries, journal, made>>

\* An operator removes a workspace lock that no runner uses.
OperatorUnlock(P) ==
    /\ P \in runLock
    /\ \A p \in Proc : run[p] # 0 => plan[p] # P
    /\ runLock' = runLock \ {P}
    /\ UNCHANGED <<pc, plan, at, run, elock, plock, entries, journal, made, faults>>

-----------------------------------------------------------------------------
RunStep(p) ==
    \/ \E P \in Plan, g \in Gen : Begin(p, P, g)
    \/ PrepareEntry(p) \/ Prepared(p) \/ ChecksPass(p) \/ ChecksFail(p)
    \/ Rejected(p) \/ Return(p)

RecoveryStep(p) ==
    \/ LockPromotion(p) \/ NothingToRecover(p) \/ RecoverLocks(p)
    \/ RecComplete(p) \/ RecKeep(p)
    \/ RecRollback(p) \/ RecData(p) \/ RecManifest(p) \/ RecRename(p)
    \/ RecRestore(p) \/ RecRestoreWrite(p) \/ RecMark(p) \/ RecMarkWrite(p)
    \/ RecUntouched(p) \/ RecEmpty(p) \/ RecDone(p) \/ RecRemoveJournal(p)

PromotionStep(p) ==
    \/ CreateJournal(p) \/ WriteJournal(p)
    \/ ExecBackup(p) \/ ExecMarker(p) \/ ExecManifest(p) \/ ExecData(p)
    \/ ExecMoveManifest(p) \/ ExecMark(p) \/ ExecMarkWrite(p) \/ ExecDone(p)
    \/ Finalize(p) \/ RemoveJournal(p)

PinStep(p) ==
    \/ \E P \in Plan : PinSources(p, P)
    \/ PinEntry(p) \/ PinRefused(p) \/ GuardedCommandEnds(p)

Next ==
    \/ \E p \in Proc : RunStep(p) \/ RecoveryStep(p) \/ PromotionStep(p) \/ PinStep(p)
    \/ \E p \in Proc : StorageFails(p) \/ Crash(p)
    \/ \E P \in Plan : OperatorUnlock(P)

Spec == Init /\ [][Next]_vars

-----------------------------------------------------------------------------
(* Properties.                                                             *)

\* "immutable last-known-good generations": the last payload of an entry that
\* was marked complete is still on disk, whole, as data/ or as the backup, at
\* every step of promotions, recoveries, storage failures and crashes.
LastGoodSurvives == \A k \in Key : good[k] # 0 => good[k] \in {data[k], backup[k]}

\* Whoever finds an entry that passes validate_completed_entry finds the
\* payload of the last completed promotion with the manifest of that
\* payload's run, never a mixture of two runs or a half removed tree.  The
\* journal is removed last: without a written one there is no trace of an
\* interrupted promotion, every entry is complete or empty.
CompleteMeansGood ==
    \A k \in Key :
        /\ ValidEntry(k) => data[k] = good[k] /\ manifest[k] = made[data[k]]
        /\ journal.state # "prepared" =>
             /\ backup[k] = 0
             /\ ValidEntry(k) \/ (data[k] = 0 /\ marker[k] = "none" /\ manifest[k] = 0)

\* When promote_entries reports `promoted`, every entry of the plan is
\* complete with this run's payload.
PromotedMeansCurrent ==
    \A p \in Proc : pc[p] = "promoted" =>
        \A k \in KeysOf(plan[p]) : ValidEntry(k) /\ data[k] = run[p]

PinnedBy(p, k) == pc[p] = "pin" /\ \E i \in 1..(at[p] - 1) : plan[p][i] = k

\* As long as a guarded command has an entry pinned, no promotion and no
\* recovery changes the entry's data, marker or manifest.
PinnedEntryStable ==
    [][\A p \in Proc, k \in Key : PinnedBy(p, k) /\ PinnedBy(p, k)' =>
          data'[k] = data[k] /\ marker'[k] = marker[k] /\ manifest'[k] = manifest[k]]_vars
=============================================================================
