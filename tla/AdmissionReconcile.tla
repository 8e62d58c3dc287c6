-------------------------- MODULE AdmissionReconcile --------------------------
(***************************************************************************)
(* The operator's commands on the admission directory, beside the          *)
(* processes of Admission: `admission status`, `admission reconcile`       *)
(* (preview) and `admission reconcile --apply` with selected tickets.      *)
(*                                                                         *)
(* Each command takes queue.lock, and preview and apply also try slot.lock *)
(* and the selected tickets.  Droppers and heartbeat threads do not take   *)
(* queue.lock, so they run between any two steps of a command.  The scan   *)
(* variables of Admission belong to the holder of queue.lock, a command    *)
(* included: todo is its directory listing or its list of selected ids.    *)
(***************************************************************************)
EXTENDS Admission

VARIABLES
    step,       \* where each operator's command is
    chosen,     \* the selected ticket ids of an apply
    unleased,   \* ids whose lease the apply removed
    moved,      \* ids whose ticket the apply moved to quarantine/
    report      \* the classification the command prints for an id

rvars == <<step, chosen, unleased, moved, report>>
allVars == <<vars, rvars>>

Waiting == {"status", "preview", "apply"}
\* Steps of apply before its first change, and after it may have changed.
Validating == {"applySlot", "applyLeases", "applyTickets"}
Changing   == {"applyClean", "applyMove", "applySync", "applyRelease"}
Reading    == {"statusScan", "previewSlot", "previewScan"}

Eligible == {"eligible_absent_lease", "eligible_expired_lease"}
Previewed == Eligible \cup {"blocked_ticket_locked", "blocked_slot_locked",
                            "blocked_invalid_lease", "blocked_live_lease"}
LeaseOnly == {"partial_lease_remove_failed", "partial_lease_sync_failed",
              "partial_after_lease_removal", "partial_move_failed"}
TicketMoved == {"partial_ticket_moved", "partial_ticket_sync_failed",
                "partial_quarantine_sync_failed", "quarantined"}
Untouched == {"blocked", "not_attempted"}

\* The files and locks, and the commands, have their types.
ReconcileTypeOK ==
    /\ TypeOK
    /\ step \in [Operator -> Waiting \cup Validating \cup Changing \cup Reading \cup {"idle", "done"}]
    /\ chosen \in [Operator -> SUBSET Ids]
    /\ unleased \in [Operator -> SUBSET Ids]
    /\ moved \in [Operator -> SUBSET Ids]
    /\ report \in [Operator -> [Ids -> {"none", "listed"} \cup Previewed \cup LeaseOnly
                                          \cup TicketMoved \cup Untouched]]

NoReport == [i \in Ids |-> "none"]

ReconcileInit ==
    /\ Init
    /\ step = [o \in Operator |-> "idle"]
    /\ chosen = [o \in Operator |-> {}]
    /\ unleased = [o \in Operator |-> {}]
    /\ moved = [o \in Operator |-> {}]
    /\ report = [o \in Operator |-> NoReport]

-----------------------------------------------------------------------------
(* Building blocks.                                                        *)

At(o, s) == step' = [step EXCEPT ![o] = s]

\* What processes hold and the counter: no command changes them.
Untouchable == UNCHANGED <<pc, own, pass, hb, counter>>

\* ReconciliationApplyLocks::release_all, also by its Drop on every return:
\* the tickets, the slot and the queue are unlocked.
ReleaseAll(o) ==
    /\ queue' = IF queue = o THEN NoProc ELSE queue
    /\ slot' = IF slot = o THEN NoProc ELSE slot
    /\ ticketLock' = [i \in Ids |-> IF ticketLock[i] = o THEN NoProc ELSE ticketLock[i]]
    /\ IF queue = o THEN ForgetScan ELSE UNCHANGED scan

\* The command returns and its report is printed.
Return(o, r) ==
    /\ report' = [report EXCEPT ![o] = r]
    /\ At(o, "done")
    /\ ReleaseAll(o)
    /\ UNCHANGED <<files, chosen, unleased, moved>>
    /\ Untouchable

\* blocked_reconciliation_outcomes: an error other than Partial is printed as
\* "blocked" for every selected id.
Refuse(o) == Return(o, [i \in Ids |-> IF i \in chosen[o] THEN "blocked" ELSE "none"])

\* The least id left: ids are taken in canonical order.
Current(i) == i \in todo /\ \A j \in todo : i <= j

\* Nothing has been pushed to `outcomes` yet.
NoOutcomes(o) == todo = chosen[o]

\* partial!: the ids before the current one are quarantined, the ones after
\* it were not attempted.
Partial(o, i, class) ==
    Return(o, [j \in Ids |-> IF j \notin chosen[o] THEN "none"
                             ELSE IF j = i THEN class
                             ELSE IF j \in todo THEN "not_attempted" ELSE "quarantined"])

-----------------------------------------------------------------------------
(* Every command: the arguments, queue.lock, and the ways to be refused.   *)

Begin(o, command) ==
    /\ step[o] = "idle"
    /\ command \in {"status", "preview"}
    /\ At(o, command)
    /\ UNCHANGED <<vars, chosen, unleased, moved, report>>

\* An apply names at least one ticket and at most MAX_QUEUE_TICKETS; any other
\* number is refused at once.
BeginApply(o, ids) ==
    /\ step[o] = "idle"
    /\ ids # {} /\ Cardinality(ids) <= MaxQueueTickets
    /\ chosen' = [chosen EXCEPT ![o] = ids]
    /\ At(o, "apply")
    /\ UNCHANGED <<vars, unleased, moved, report>>

\* lock_queue_until.  The listing of tickets/ is bounded like everywhere else.
EnterQueue(o) ==
    /\ step[o] \in Waiting
    /\ queue = NoProc
    /\ step[o] = "status" => Cardinality(Entries) <= MaxQueueTickets
    /\ queue' = o
    /\ todo' = IF step[o] = "status" THEN Entries ELSE {}
    /\ At(o, CASE step[o] = "status" -> "statusScan"
               [] step[o] = "preview" -> "previewSlot"
               [] step[o] = "apply" -> "applySlot")
    /\ UNCHANGED <<files, ticketLock, slot, live, stale, chosen, unleased, moved, report>>
    /\ Untouchable

\* Before anything is changed the command may end with an error at every
\* step: the deadline passes, the caller cancels, the layout is incomplete,
\* the slot or a ticket is held, a lease is live or unreadable, a file
\* vanished or cannot be read.
Refused(o) ==
    /\ step[o] \in Waiting \cup Reading \cup Validating
    /\ Refuse(o)

\* The operator reads the report.
Dismiss(o) ==
    /\ step[o] = "done"
    /\ At(o, "idle")
    /\ chosen' = [chosen EXCEPT ![o] = {}]
    /\ unleased' = [unleased EXCEPT ![o] = {}]
    /\ moved' = [moved EXCEPT ![o] = {}]
    /\ report' = [report EXCEPT ![o] = NoReport]
    /\ UNCHANGED vars

\* The command is killed: the OS drops its locks, files stay as they are.
OperatorDies(o) ==
    /\ step[o] \notin {"idle", "done"}
    /\ ReleaseAll(o)
    /\ At(o, "idle")
    /\ chosen' = [chosen EXCEPT ![o] = {}]
    /\ unleased' = [unleased EXCEPT ![o] = {}]
    /\ moved' = [moved EXCEPT ![o] = {}]
    /\ report' = [report EXCEPT ![o] = NoReport]
    /\ UNCHANGED files
    /\ Untouchable

-----------------------------------------------------------------------------
(* status: scan_tickets without reclaiming, then slot_status.              *)

\* Every readable ticket counts as live, locked or not; a staging file or the
\* torn lease of an unlocked ticket is an error.
StatusEntry(o, i) ==
    /\ step[o] = "statusScan"
    /\ i \in todo
    /\ ticket[i] = "present"
    /\ ticketLock[i] = NoProc => lease[i] # "torn"
    /\ todo' = todo \ {i}
    /\ live' = live \cup {i}
    /\ UNCHANGED <<files, locks, stale, rvars>>
    /\ Untouchable

\* A dropper removed the entry before the listing reached it.
EntryGone(o, i) ==
    /\ step[o] \in {"statusScan", "previewScan"}
    /\ i \in todo \ Entries
    /\ todo' = todo \ {i}
    /\ UNCHANGED <<files, locks, live, stale, rvars>>
    /\ Untouchable

\* slot_status: the state of slot.lock, which contradicts an active lease when
\* it is free.  A torn lease anywhere is an error.
SlotState ==
    IF slot # NoProc THEN "held"
    ELSE IF \E i \in Ids : lease[i] = "active" THEN "unknown" ELSE "free"

\* The queued tickets: the lowest live one is the holder's when the slot is
\* held.
Listed == {i \in live : SlotState = "held" => \E j \in live : j < i}

StatusReport(o) ==
    /\ step[o] = "statusScan"
    /\ todo = {}
    /\ \A i \in Ids : lease[i] # "torn"
    /\ Return(o, [i \in Ids |-> IF i \in Listed THEN "listed" ELSE "none"])

-----------------------------------------------------------------------------
(* preview: every ticket is classified, nothing is changed.                *)

PreviewSlot(o) ==
    /\ step[o] = "previewSlot"
    /\ Cardinality(Entries) <= MaxQueueTickets
    /\ slot' = IF slot = NoProc THEN o ELSE slot
    /\ todo' = Entries
    /\ At(o, "previewScan")
    /\ UNCHANGED <<files, ticketLock, queue, live, stale, chosen, unleased, moved, report>>
    /\ Untouchable

\* Mutant of Classification: an expired lease is taken for proof.
ClassificationByLease(o, i) ==
    IF lease[i] = "none" THEN {"eligible_absent_lease"}
    ELSE IF i \in expired THEN {"eligible_expired_lease"}
    ELSE IF ticketLock[i] # NoProc THEN {"blocked_ticket_locked"}
    ELSE IF slot # o THEN {"blocked_slot_locked"}
    ELSE {"blocked_live_lease"}

\* The classes a ticket may be given.  A lease is semantically invalid when the clock was set
\* back between its acquisition and a heartbeat; clocks are not modelled, so any lease may be.
Classification(o, i) ==
    IF ticketLock[i] # NoProc THEN {"blocked_ticket_locked"}
    ELSE IF slot # o THEN {"blocked_slot_locked"}
    ELSE IF lease[i] = "none" THEN {"eligible_absent_lease"}
    ELSE {"blocked_invalid_lease",
          IF i \in expired THEN "eligible_expired_lease" ELSE "blocked_live_lease"}

PreviewEntry(o, i) ==
    /\ step[o] = "previewScan"
    /\ i \in todo
    /\ ticket[i] = "present"
    /\ ticketLock[i] = NoProc => lease[i] # "torn"
    /\ todo' = todo \ {i}
    /\ \E class \in Classification(o, i) : report' = [report EXCEPT ![o][i] = class]
    /\ UNCHANGED <<files, locks, live, stale, step, chosen, unleased, moved>>
    /\ Untouchable

PreviewReport(o) ==
    /\ step[o] = "previewScan"
    /\ todo = {}
    /\ Return(o, report[o])

-----------------------------------------------------------------------------
(* apply, validation: slot, leases, selected tickets.                      *)

TakeSlot(o) ==
    /\ step[o] = "applySlot"
    /\ slot = NoProc
    /\ slot' = o
    /\ LET found == {i \in Ids : lease[i] # "none"}
       IN  Cardinality(found) <= MaxQueueTickets /\ todo' = found
    /\ At(o, "applyLeases")
    /\ UNCHANGED <<files, ticketLock, queue, live, stale, chosen, unleased, moved, report>>
    /\ Untouchable

\* validate_reconciliation_lease_namespace: every lease must be well formed,
\* expired, and have its ticket.
CheckLease(o, i) ==
    /\ step[o] = "applyLeases"
    /\ i \in todo
    /\ \/ lease[i] = "none"                  \* removed since the listing
       \/ lease[i] # "torn" /\ ticket[i] = "present" /\ i \in expired
    /\ todo' = todo \ {i}
    /\ UNCHANGED <<files, locks, live, stale, rvars>>
    /\ Untouchable

LeasesChecked(o) ==
    /\ step[o] = "applyLeases"
    /\ todo = {}
    /\ todo' = chosen[o]
    /\ At(o, "applyTickets")
    /\ UNCHANGED <<files, locks, live, stale, chosen, unleased, moved, report>>
    /\ Untouchable

\* open_selected_ticket, try_lock_exclusive and the lease of the ticket.
Selectable(i) ==
    /\ ticket[i] = "present"
    /\ ticketLock[i] = NoProc
    /\ lease[i] = "none" \/ (lease[i] # "torn" /\ i \in expired)

LockSelected(o, i) ==
    /\ step[o] = "applyTickets"
    /\ Current(i)
    /\ Selectable(i)
    /\ ticketLock' = [ticketLock EXCEPT ![i] = o]
    /\ todo' = todo \ {i}
    /\ UNCHANGED <<files, queue, slot, live, stale, rvars>>
    /\ Untouchable

\* The paths still name the locked files (device and inode).
Recheck(o) ==
    /\ step[o] = "applyTickets"
    /\ todo = {}
    /\ \A i \in chosen[o] : ticket[i] = "present"
    /\ todo' = chosen[o]
    /\ At(o, "applyClean")
    /\ UNCHANGED <<files, locks, live, stale, chosen, unleased, moved, report>>
    /\ Untouchable

-----------------------------------------------------------------------------
(* apply, the changes, one ticket after another: remove the lease, sync    *)
(* leases/, move the ticket, sync tickets/ and quarantine/.                *)

RemoveSelectedLease(o, i) ==
    /\ step[o] = "applyClean"
    /\ Current(i)
    /\ RemoveLease(i)
    /\ unleased' = [unleased EXCEPT ![o] = IF lease[i] = "none" THEN @ ELSE @ \cup {i}]
    /\ At(o, "applyMove")
    /\ UNCHANGED <<ticket, locks, scan, chosen, moved, report>>
    /\ Untouchable

\* The deadline check before the ticket, or the removal, fails.
CleanFails(o, i) ==
    /\ step[o] = "applyClean"
    /\ Current(i)
    /\ IF NoOutcomes(o)
       THEN Refuse(o)
       ELSE \E class \in {"not_attempted", "partial_lease_remove_failed"} : Partial(o, i, class)

\* quarantine_file_no_replace.  TicketNumbersFresh makes the name free.
MoveTicket(o, i) ==
    /\ step[o] = "applyMove"
    /\ Current(i)
    /\ ticket[i] = "present"
    /\ ticket' = [ticket EXCEPT ![i] = "quarantined"]
    /\ moved' = [moved EXCEPT ![o] = @ \cup {i}]
    /\ At(o, "applySync")
    /\ UNCHANGED <<lease, expired, locks, scan, chosen, unleased, report>>
    /\ Untouchable

\* Mutant of MoveFails: only earlier outcomes make the failure partial.
MoveFailsForgetsLease(o, i) ==
    /\ step[o] = "applyMove"
    /\ Current(i)
    /\ IF NoOutcomes(o)
       THEN Refuse(o)
       ELSE \E class \in LeaseOnly \ {"partial_lease_remove_failed"} : Partial(o, i, class)

\* The sync of leases/, the second deadline check or the rename fails (the
\* ticket may have been removed by its owner's drop).
MoveFails(o, i) ==
    /\ step[o] = "applyMove"
    /\ Current(i)
    /\ IF i \notin unleased[o] /\ NoOutcomes(o)
       THEN Refuse(o)
       ELSE \E class \in {"partial_after_lease_removal", "partial_move_failed"}
                           \cup (IF i \in unleased[o] THEN {"partial_lease_sync_failed"} ELSE {}) :
              Partial(o, i, class)

\* The third deadline check and the syncs of tickets/ and quarantine/.
SyncFails(o, i) ==
    /\ step[o] = "applySync"
    /\ Current(i)
    /\ \E class \in TicketMoved \ {"quarantined"} : Partial(o, i, class)

TicketDone(o, i) ==
    /\ step[o] = "applySync"
    /\ Current(i)
    /\ todo' = todo \ {i}
    /\ At(o, IF todo = {i} THEN "applyRelease" ELSE "applyClean")
    /\ UNCHANGED <<files, locks, live, stale, chosen, unleased, moved, report>>
    /\ Untouchable

\* All locks are given back; the outcomes are the same when an unlock fails.
Complete(o) ==
    /\ step[o] = "applyRelease"
    /\ Return(o, [i \in Ids |-> IF i \in chosen[o] THEN "quarantined" ELSE "none"])

-----------------------------------------------------------------------------
ReadStep(o) ==
    \/ StatusReport(o) \/ PreviewSlot(o) \/ PreviewReport(o)
    \/ \E i \in Ids : StatusEntry(o, i) \/ EntryGone(o, i) \/ PreviewEntry(o, i)

ApplyStep(o) ==
    \/ TakeSlot(o) \/ LeasesChecked(o) \/ Recheck(o) \/ Complete(o)
    \/ \E i \in Ids :
         \/ CheckLease(o, i) \/ LockSelected(o, i)
         \/ RemoveSelectedLease(o, i) \/ CleanFails(o, i)
         \/ MoveTicket(o, i) \/ MoveFails(o, i)
         \/ SyncFails(o, i) \/ TicketDone(o, i)

OperatorStep(o) ==
    \/ \E command \in {"status", "preview"} : Begin(o, command)
    \/ \E ids \in SUBSET Ids : BeginApply(o, ids)
    \/ EnterQueue(o) \/ ReadStep(o) \/ ApplyStep(o)
    \/ Refused(o) \/ Dismiss(o) \/ OperatorDies(o)

ReconcileNext ==
    \/ Next /\ UNCHANGED rvars
    \/ \E o \in Operator : OperatorStep(o)

ReconcileSpec == ReconcileInit /\ [][ReconcileNext]_allVars

-----------------------------------------------------------------------------
(* What the commands promise.                                              *)

\* A process waits or holds the slot with ticket i.
InUse(i) == \E p \in Proc : own[p] = i /\ (Queued(p) \/ Admitted(p))

\* reconcile touches abandoned tickets only, and all or nothing: no process
\* loses what it waits or holds the slot with; once a lease is removed or a
\* ticket moved, no selected ticket is in use, although owners drop and renew
\* without queue.lock between the validation and the changes; and no ticket
\* that a preview calls eligible is in use.
OnlyAbandoned ==
    /\ OwnersUndisturbed
    /\ \A o \in Operator :
        /\ unleased[o] \cup moved[o] # {} => \A i \in chosen[o] : ~InUse(i)
        /\ \A i \in Ids : report[o][i] \in Eligible => ~InUse(i)

\* The report of an apply is true wherever it stopped: "blocked" and
\* "not_attempted" ids were not touched, a moved ticket is reported as moved
\* and is in quarantine/, and an id that only lost its lease is reported as
\* partial.
ReportIsTrue ==
    \A o \in Operator : \A i \in chosen[o] :
        step[o] = "done" =>
            /\ i \in moved[o] <=> report[o][i] \in TicketMoved
            /\ i \in moved[o] => ticket[i] = "quarantined"
            /\ report[o][i] \in Untouched => i \notin unleased[o] \cup moved[o]

=============================================================================
