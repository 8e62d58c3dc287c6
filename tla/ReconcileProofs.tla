--------------------------- MODULE ReconcileProofs ---------------------------
(***************************************************************************)
(* The operator's commands and the first use of the admission directory,   *)
(* for every set of processes and operators: what AdmissionRoot adds to    *)
(* the inductive invariant of Admission, and what follows from it.         *)
(***************************************************************************)
EXTENDS AdmissionRoot, AdmissionProofs

\* The time limits of the provers, in seconds.
USE SMTT(40), ZenonT(30)

-----------------------------------------------------------------------------
(* The inductive invariant.                                                *)

\* p creates ticket own[p], waits with it or is admitted with it.
Uses(p) == pc[p] \in CreateSteps \/ Queued(p) \/ Admitted(p)

\* The number was given out and nobody uses it.  No step ends this: numbers are
\* never given out twice.
Abandoned(i) == i < counter /\ \A p \in Proc : Uses(p) => own[p] # i

\* Steps at which a command holds queue.lock.
Commanding == Reading \cup Validating \cup Changing

\* An apply in its changing steps: ids leave todo in order, each one moved, and
\* only the current one may have lost its lease while its ticket is in place.
Progress(o) ==
    \A i \in chosen[o] :
        /\ i \in moved[o] <=> i \notin todo \/ (step[o] = "applySync" /\ Current(i))
        /\ i \in unleased[o] =>
             \/ i \notin todo
             \/ step[o] \in {"applyMove", "applySync"} /\ Current(i)

CommandInv(o) ==
    /\ step[o] \in Commanding => queue = o
    /\ step[o] \in {"idle", "status", "preview"} \cup Reading => chosen[o] = {}
    /\ step[o] \notin Changing \cup {"done"} => unleased[o] = {} /\ moved[o] = {}
    /\ step[o] \in {"applyTickets"} \cup Changing => todo \subseteq chosen[o]
    /\ step[o] = "applyTickets" =>
         \A i \in chosen[o] \ todo : ticketLock[i] = o /\ i < counter
    /\ step[o] \in Changing =>
         /\ \A i \in chosen[o] : ticketLock[i] = o /\ i < counter
         /\ Progress(o)
    /\ step[o] = "applyRelease" => todo = {}
    /\ unleased[o] \cup moved[o] # {} => \A i \in chosen[o] : Abandoned(i)
    /\ \A i \in Ids : report[o][i] \in Eligible => Abandoned(i)
    /\ \A i \in moved[o] : ticket[i] = "quarantined"
    /\ \A i \in chosen[o] :
         step[o] = "done" =>
             /\ i \in moved[o] <=> report[o][i] \in TicketMoved
             /\ report[o][i] \in Untouched => i \notin unleased[o] \cup moved[o]

\* An initialiser writes with queue.lock held, and has its marker written
\* before it creates the directories.
InitialiserInv(p) ==
    /\ ini[p] # "none" => pc[p] = "idle"
    /\ ini[p] \in {"mark", "markWrite", "dirs"} => queue = p
    /\ ini[p] = "dirs" => marker = "whole"

RootInv ==
    /\ RootTypeOK
    /\ Consistent
    /\ \A o \in Operator : CommandInv(o)
    /\ \A p \in Proc : InitialiserInv(p)
    /\ RootAllOrNothing

-----------------------------------------------------------------------------
(* What a process leaves alone.                                            *)

\* A step of p takes queue.lock from nobody else; while an operator has it, p
\* takes neither the scan nor a ticket lock from it; p moves nothing out of
\* quarantine/; and it uses no ticket number but its own or a new one.
Spares(p) ==
    /\ queue' = queue \/ queue = NoProc \/ (queue = p /\ pc[p] # "idle")
    /\ queue \in Operator =>
         /\ todo' = todo
         /\ \A i \in Ids : ticketLock[i] = queue => ticketLock'[i] = queue
    /\ \A i \in Ids : ticket[i] = "quarantined" => ticket'[i] = "quarantined"
    /\ \A q \in Proc \ {p} : pc'[q] = pc[q] /\ own'[q] = own[q] /\ hb'[q] = hb[q]
    /\ counter' \in Int /\ counter <= counter'
    /\ Uses(p)' /\ own'[p] < counter => own'[p] = 0 \/ (Uses(p) /\ own'[p] = own[p])

\* Every action of a process spares the others.
LEMMA ProcSpares ==
  ASSUME IInv, NEW p \in Proc, ProcStep(p)
  PROVE  Spares(p)
<1> USE DEF Spares, Uses, Queued, Admitted, Goto, files, locks, scan, ScanSteps, CreateSteps,
   DropGuardSteps
<1> DEFINE Here == /\ pc \in [Proc -> Steps] /\ own \in [Proc -> Ids \cup {0}]
                   /\ hb \in [Proc -> {"none", "sleeping", "read", "dead"}]
                   /\ ticketLock \in [Ids -> Actor]
                   /\ ticket \in [Ids -> {"none", "staging", "present", "quarantined"}]
                   /\ Ids \subseteq Int /\ counter \in Int /\ own[p] < counter
                   /\ pc[p] \in QueueSteps => queue = p
                   /\ queue \in Operator => queue # p /\ queue # NoProc
                   /\ pc[p] \in {"idle", "enter"} => own[p] = 0
                   /\ pc[p] \notin {"idle", "enter"} \cup ScanSteps => own[p] \in Ids
                   /\ pc[p] = "stage" => ticket[own[p]] = "none"
                   /\ pc[p] = "publish" => ticket[own[p]] = "staging"
                   /\ hb[p] # "none" => pc[p] \in {"hold", "release", "stopHeartbeat"}
                                                    \cup DropGuardSteps
<1>1. Here
  BY NoProcAssumption, ActorsAssumption, CounterAssumption DEF IInv, TypeOK, Ids,
     Consistent, QueueInv, CreateInv, OwnInv, HeartbeatInv
<1>2. CASE Acquire(p)
  BY <1>1, <1>2 DEF Acquire
<1>3. CASE EnterFails(p)
  BY <1>1, <1>3 DEF EnterFails
<1>4. CASE LockQueue(p)
  BY <1>1, <1>4 DEF LockQueue
<1>5. CASE ScanStep(p)
  <2>1. CASE ScanDone(p)
    BY <1>1, <2>1 DEF ScanDone, QueueSteps
  <2>2. ASSUME NEW i \in Ids, ScanStaging(p, i) PROVE Spares(p)
    BY <1>1, <2>2 DEF ScanStaging, Scannable, QueueSteps
  <2>3. ASSUME NEW i \in Ids, ScanStale(p, i) PROVE Spares(p)
    BY <1>1, <2>3 DEF ScanStale, Scannable, QueueSteps
  <2>4. ASSUME NEW i \in Ids, ScanLive(p, i) PROVE Spares(p)
    BY <1>1, <2>4 DEF ScanLive, Scannable, QueueSteps
  <2>5. ASSUME NEW i \in Ids, ScanGone(p, i) PROVE Spares(p)
    BY <1>1, <2>5 DEF ScanGone, QueueSteps
  <2>6. ASSUME NEW i \in Ids, ScanError(p, i) PROVE Spares(p)
    BY <1>1, <2>6 DEF ScanError, FailUnderQueue, QueueSteps
  <2>7. ASSUME NEW i \in Ids, QuarantineStale(p, i) PROVE Spares(p)
    BY <1>1, <2>7 DEF QuarantineStale, QueueSteps
  <2>8. ASSUME NEW i \in Ids, RemoveStaleLease(p, i) PROVE Spares(p)
    BY <1>1, <2>8 DEF RemoveStaleLease, QueueSteps
  <2>9. ASSUME NEW i \in Ids, RemoveStaleError(p, i) PROVE Spares(p)
    BY <1>1, <2>9 DEF RemoveStaleError, FailUnderQueue, QueueSteps
  <2> HIDE DEF Spares
  <2>10. QED
    BY <1>5, <2>1, <2>2, <2>3, <2>4, <2>5, <2>6, <2>7, <2>8, <2>9 DEF ScanStep
<1>6. CASE CreateStep(p)
  <2>1. CASE QueueFull(p)
    BY <1>1, <2>1 DEF QueueFull, Admissible, LeaveQueue, QueueSteps
  <2>2. CASE AllocateFails(p)
    BY <1>1, <2>2 DEF AllocateFails, Admissible, LeaveQueue, QueueSteps
  <2>3. CASE AllocateId(p)
    BY <1>1, <2>3 DEF AllocateId, Admissible, IsNextTicketId, QueueSteps
  <2>4. CASE CreateStaging(p)
    BY <1>1, <2>4 DEF CreateStaging, QueueSteps
  <2>5. CASE CreateFails(p)
    BY <1>1, <2>5 DEF CreateFails, QueueSteps
  <2>6. CASE PublishTicket(p)
    BY <1>1, <2>6 DEF PublishTicket, QueueSteps
  <2>7. CASE OpenLease(p)
    BY <1>1, <2>7 DEF OpenLease, QueueSteps
  <2>8. CASE WriteLease(p)
    BY <1>1, <2>8 DEF WriteLease, QueueSteps
  <2>9. CASE LeaseFails(p)
    BY <1>1, <2>9 DEF LeaseFails, TryRemoveTicket, UnlockTicket, QueueSteps
  <2> HIDE DEF Spares
  <2>10. QED
    BY <1>6, <2>1, <2>2, <2>3, <2>4, <2>5, <2>6, <2>7, <2>8, <2>9 DEF CreateStep
<1>7. CASE WaitStep(p)
  <2>1. CASE TryLockSlot(p)
    BY <1>1, <2>1 DEF TryLockSlot, Decides, QueueSteps
  <2>2. CASE KeepWaiting(p)
    BY <1>1, <2>2 DEF KeepWaiting, Decides, QueueSteps
  <2>3. CASE ActivateLease(p)
    BY <1>1, <2>3 DEF ActivateLease, QueueSteps
  <2>4. CASE ActivateFails(p)
    BY <1>1, <2>4 DEF ActivateFails, QueueSteps
  <2> HIDE DEF Spares
  <2>5. QED
    BY <1>7, <2>1, <2>2, <2>3, <2>4 DEF WaitStep
<1>8. CASE GiveUp(p)
  BY <1>1, <1>8 DEF GiveUp
<1>9. CASE QueueLockFails(p)
  BY <1>1, <1>9 DEF QueueLockFails
<1>10. CASE GiveUpStep(p)
  <2>1. CASE CleanupLock(p)
    BY <1>1, <2>1 DEF CleanupLock
  <2>2. CASE CleanupLease(p)
    BY <1>1, <2>2 DEF CleanupLease, UnlockTicket, QueueSteps, CleanupSteps
  <2>3. CASE CleanupTicket(p)
    BY <1>1, <2>3 DEF CleanupTicket, TryRemoveTicket, QueueSteps, CleanupSteps
  <2>4. CASE DropUnlock(p)
    BY <1>1, <2>4 DEF DropUnlock, UnlockTicket
  <2>5. CASE DropTicket(p)
    BY <1>1, <2>5 DEF DropTicket, TryRemoveTicket
  <2>6. CASE DropLease(p)
    BY <1>1, <2>6 DEF DropLease
  <2> HIDE DEF Spares
  <2>7. QED
    BY <1>10, <2>1, <2>2, <2>3, <2>4, <2>5, <2>6 DEF GiveUpStep
<1>11. CASE HeartbeatStep(p)
  <2>1. CASE HeartbeatRead(p)
    BY <1>1, <2>1 DEF HeartbeatRead
  <2>2. CASE HeartbeatWrite(p)
    BY <1>1, <2>2 DEF HeartbeatWrite
  <2>3. CASE HeartbeatFails(p)
    BY <1>1, <2>3 DEF HeartbeatFails
  <2> HIDE DEF Spares
  <2>4. QED
    BY <1>11, <2>1, <2>2, <2>3 DEF HeartbeatStep
<1>12. CASE ReleaseStep(p)
  <2>1. CASE ReleaseLock(p)
    BY <1>1, <2>1 DEF ReleaseLock
  <2>2. CASE ReleaseLockFails(p)
    BY <1>1, <2>2 DEF ReleaseLockFails
  <2>3. CASE StopHeartbeat(p)
    BY <1>1, <2>3 DEF StopHeartbeat, QueueSteps, ReleaseSteps
  <2>4. CASE ReleaseLease(p)
    BY <1>1, <2>4 DEF ReleaseLease, QueueSteps, ReleaseSteps
  <2>5. CASE ReleaseTicket(p)
    BY <1>1, <2>5 DEF ReleaseTicket, UnlockTicket, TryRemoveTicket, QueueSteps,
       ReleaseSteps
  <2>6. CASE DropGuardTicket(p)
    BY <1>1, <2>6 DEF DropGuardTicket, UnlockTicket
  <2>7. CASE DropGuardSlot(p)
    BY <1>1, <2>7 DEF DropGuardSlot
  <2>8. CASE DropGuardHeartbeat(p)
    BY <1>1, <2>8 DEF DropGuardHeartbeat
  <2> HIDE DEF Spares
  <2>9. QED
    BY <1>12, <2>1, <2>2, <2>3, <2>4, <2>5, <2>6, <2>7, <2>8 DEF ReleaseStep
<1>13. CASE Crash(p)
  BY <1>1, <1>13 DEF Crash
<1>14. ASSUME NEW n \in {1, 2}, Release(p, n) PROVE Spares(p)
  BY <1>1, <1>14 DEF Release
<1> HIDE DEF Spares
<1>15. QED
  BY <1>2, <1>3, <1>4, <1>5, <1>6, <1>7, <1>8, <1>9, <1>10, <1>11, <1>12, <1>13, <1>14
     DEF ProcStep

-----------------------------------------------------------------------------
(* What the commands leave alone.                                          *)

\* A step of the command of o changes no process.  It takes a lock only from
\* nobody and gives back only its own; it uses the scan only with queue.lock
\* held, and changes only files of tickets it has locked.
Gentle(o) ==
    /\ Untouchable
    /\ \A r \in Operator \ {o} :
         /\ step'[r] = step[r] /\ chosen'[r] = chosen[r] /\ unleased'[r] = unleased[r]
         /\ moved'[r] = moved[r] /\ report'[r] = report[r]
    /\ queue' = queue \/ {queue, queue'} \subseteq {o, NoProc}
    /\ slot' = slot \/ {slot, slot'} \subseteq {o, NoProc}
    /\ \A i \in Ids : \/ ticketLock'[i] = ticketLock[i]
                      \/ {ticketLock[i], ticketLock'[i]} \subseteq {o, NoProc}
    /\ stale' \in {stale, {}}
    /\ \/ UNCHANGED <<queue, todo, live, stale>>
       \/ queue \in {o, NoProc} /\ queue' = o
       \/ queue = o /\ todo' = {} /\ live' = {}
    /\ \A i \in Ids :
         \/ ticket'[i] = ticket[i] /\ lease'[i] = lease[i]
         \/ /\ ticketLock[i] = o /\ queue = o
            /\ ticket'[i] = ticket[i] \/ (ticket[i] = "present" /\ ticket'[i] = "quarantined")
            /\ lease'[i] \in {lease[i], "none"}

\* Giving back all locks is gentle.
LEMMA ReleaseIsGentle ==
  ASSUME ReconcileTypeOK, NEW o \in Operator, ReleaseAll(o), UNCHANGED files, Untouchable,
         \A r \in Operator \ {o} :
           /\ step'[r] = step[r] /\ chosen'[r] = chosen[r] /\ unleased'[r] = unleased[r]
           /\ moved'[r] = moved[r] /\ report'[r] = report[r]
  PROVE  Gentle(o)
BY DEF ReleaseAll, Gentle, ForgetScan, files, scan, ReconcileTypeOK, TypeOK

\* So is every return of a command.
LEMMA ReturnIsGentle ==
  ASSUME ReconcileTypeOK, NEW o \in Operator, NEW r, Return(o, r)
  PROVE  Gentle(o)
<1>1. /\ step' = [step EXCEPT ![o] = "done"] /\ report' = [report EXCEPT ![o] = r]
      /\ UNCHANGED <<chosen, unleased, moved>>
  BY DEF Return, At
<1>2. ReleaseAll(o) /\ UNCHANGED files /\ Untouchable
  BY DEF Return
<1>3. QED
  BY <1>1, <1>2, ReleaseIsGentle DEF ReconcileTypeOK

\* Every step of a command is gentle.
LEMMA OperatorIsGentle ==
  ASSUME ReconcileTypeOK, NEW o \in Operator, CommandInv(o), OperatorStep(o)
  PROVE  Gentle(o)
<1> DEFINE Here == /\ step \in [Operator -> Waiting \cup Validating \cup Changing \cup Reading
                                              \cup {"idle", "done"}]
                   /\ chosen \in [Operator -> SUBSET Ids]
                   /\ unleased \in [Operator -> SUBSET Ids]
                   /\ moved \in [Operator -> SUBSET Ids]
                   /\ ticket \in [Ids -> {"none", "staging", "present", "quarantined"}]
                   /\ lease \in [Ids -> {"none", "torn", "queued", "active"}]
                   /\ ticketLock \in [Ids -> Actor]
                   /\ step[o] \in Commanding => queue = o
                   /\ step[o] \in Changing => \A i \in todo : ticketLock[i] = o
<1>1. Here /\ report \in [Operator -> [Ids -> {"none", "listed"} \cup Previewed \cup LeaseOnly
                                                \cup TicketMoved \cup Untouched]]
  BY ZenonT(30) DEF ReconcileTypeOK, TypeOK, CommandInv
<1>2. CASE \/ \E command \in {"status", "preview"} : Begin(o, command)
           \/ \E ids \in SUBSET Ids : BeginApply(o, ids)
           \/ Dismiss(o)
  BY <1>1, <1>2 DEF Gentle, Begin, BeginApply, Dismiss, At, vars, Untouchable
<1>3. CASE EnterQueue(o)
  BY <1>1, <1>3 DEF Gentle, EnterQueue, At, files, Untouchable
<1>4. CASE OperatorDies(o)
  <2>1. ReleaseAll(o) /\ UNCHANGED files /\ Untouchable
    BY <1>4 DEF OperatorDies
  <2>2. QED
    BY <1>1, <1>4, <2>1, ReleaseIsGentle DEF OperatorDies, At
<1>5. CASE Refused(o)
  BY <1>5, ReturnIsGentle, ZenonT(30) DEF Refused, Refuse
<1>6. CASE ReadStep(o)
  <2> USE <1>1 DEF Gentle, At, files, locks, rvars, Untouchable, Commanding, Reading
  <2>1. CASE PreviewSlot(o)
    BY <2>1 DEF PreviewSlot
  <2>2. ASSUME NEW i \in Ids, StatusEntry(o, i) \/ EntryGone(o, i) PROVE Gentle(o)
    BY <2>2, ZenonT(30) DEF StatusEntry, EntryGone
  <2>3. ASSUME NEW i \in Ids, PreviewEntry(o, i) PROVE Gentle(o)
    BY <2>3 DEF PreviewEntry
  <2> HIDE DEF Gentle
  <2>4. CASE StatusReport(o) \/ PreviewReport(o)
    BY <2>4, ReturnIsGentle DEF StatusReport, PreviewReport
  <2>5. QED
    BY <1>6, <2>1, <2>2, <2>3, <2>4 DEF ReadStep
<1>7. CASE ApplyStep(o)
  <2> USE <1>1 DEF Gentle, At, files, locks, scan, rvars, Untouchable, Commanding, Validating,
     Changing
  <2>1. CASE TakeSlot(o)
    BY <2>1 DEF TakeSlot
  <2>2. CASE LeasesChecked(o) \/ Recheck(o)
    BY <2>2 DEF LeasesChecked, Recheck
  <2>3. ASSUME NEW i \in Ids, CheckLease(o, i) \/ TicketDone(o, i) PROVE Gentle(o)
    BY <2>3 DEF CheckLease, TicketDone
  <2>4. ASSUME NEW i \in Ids, LockSelected(o, i) PROVE Gentle(o)
    BY <2>4 DEF LockSelected, Selectable
  <2>5. ASSUME NEW i \in Ids, RemoveSelectedLease(o, i) PROVE Gentle(o)
    BY <2>5 DEF RemoveSelectedLease, RemoveLease, Current
  <2>6. ASSUME NEW i \in Ids, MoveTicket(o, i) PROVE Gentle(o)
    BY <2>6 DEF MoveTicket, Current
  <2> HIDE DEF Gentle
  <2>7. CASE Complete(o)
    BY <2>7, ReturnIsGentle DEF Complete
  <2>8. ASSUME NEW i \in Ids, CleanFails(o, i) \/ MoveFails(o, i) \/ SyncFails(o, i)
        PROVE  Gentle(o)
    BY <2>8, ReturnIsGentle, Zenon DEF CleanFails, MoveFails, SyncFails, Refuse, Partial
  <2>9. QED
    BY <1>7, <2>1, <2>2, <2>3, <2>4, <2>5, <2>6, <2>7, <2>8 DEF ApplyStep
<1>8. QED
  BY <1>2, <1>3, <1>4, <1>5, <1>6, <1>7 DEF OperatorStep

\* The invariant of the processes survives a gentle step: nobody who uses a
\* ticket has left its lock to a command.
LEMMA GentleKeepsConsistent ==
  ASSUME TypeOK, Consistent, NEW o \in Operator, Gentle(o)
  PROVE  Consistent'
<1>1. /\ UNCHANGED <<pc, own, hb, counter>>
      /\ \A p \in Proc : (Queued(p)' <=> Queued(p)) /\ (Admitted(p)' <=> Admitted(p))
  BY ZenonT(30) DEF Gentle, Untouchable, Queued, Admitted
<1>2. \A p \in Proc : p # o /\ p # NoProc
  BY NoProcAssumption, ActorsAssumption
<1>3. \A p \in Proc : /\ pc[p] \in QueueSteps => queue = p /\ queue' = queue
                      /\ slot = p => slot' = slot
                      /\ \A i \in Ids : ticketLock[i] = p => ticketLock'[i] = p
  BY <1>2 DEF Gentle, Consistent, QueueInv
<1>4. (\E p \in Proc : pc[p] \in QueueSteps) => UNCHANGED <<todo, live, stale>>
  BY <1>2, <1>3, ZenonT(30) DEF Gentle
<1>5. QueueInv'
  <2>1. \A p \in Proc : pc'[p] \in QueueSteps => queue' = p
    BY <1>1, <1>3
  <2>2. ASSUME \A p \in Proc : pc'[p] \notin ScanSteps
        PROVE  stale' = {} /\ (queue' \notin Operator => todo' = {} /\ live' = {})
    BY <1>1, <2>2, ZenonT(30) DEF Gentle, Consistent, QueueInv
  <2>3. \A p \in Proc : pc'[p] \in {"reclaim", "unlease"} => todo' = {}
    BY <1>1, <1>4 DEF Consistent, QueueInv, QueueSteps, ScanSteps
  <2>4. QED
    BY <2>1, <2>2, <2>3 DEF QueueInv
<1>6. \A i \in Ids : ticket'[i] # "none" \/ lease'[i] # "none"
                       => ticket[i] # "none" \/ lease[i] # "none"
  BY ZenonT(30) DEF Gentle
<1>7. OwnInv'
  BY <1>1, <1>6 DEF Consistent, OwnInv
<1>8. HeartbeatInv'
  BY <1>1 DEF Consistent, HeartbeatInv
<1>9. \A p \in Proc : \A i \in Ids : ticketLock[i] = p \/ pc[p] \in QueueSteps
                                      => ticket'[i] = ticket[i] /\ lease'[i] = lease[i]
  BY <1>2, <1>3 DEF Gentle
<1>10. \A p \in Proc : pc[p] \notin {"idle", "enter"} \cup ScanSteps \/ Queued(p) \/ Admitted(p)
                        => own[p] \in Ids
  BY DEF TypeOK, Consistent, OwnInv, HeartbeatInv, Queued, Admitted, DropGuardSteps,
     ScanSteps
<1>11. CreateInv'
  BY <1>1, <1>3, <1>9, <1>10 DEF Consistent, CreateInv, QueueSteps, ScanSteps,
     CreateSteps
<1>12. ScanInv'
  BY <1>1, <1>4, ZenonT(30) DEF Gentle, Consistent, ScanInv, QueueSteps
<1>13. OwnersUndisturbed'
  BY <1>1, <1>3, <1>9, <1>10 DEF Consistent, OwnersUndisturbed
<1>14. QED
  BY <1>5, <1>7, <1>8, <1>11, <1>12, <1>13 DEF Consistent

-----------------------------------------------------------------------------
(* A command relies on little, and nobody else takes it away.              *)

Keeps(o) ==
    /\ step'[o] = step[o] /\ chosen'[o] = chosen[o] /\ unleased'[o] = unleased[o]
    /\ moved'[o] = moved[o] /\ report'[o] = report[o]
    /\ queue = o => /\ queue' = o /\ todo' = todo
                    /\ \A i \in Ids : ticketLock[i] = o => ticketLock'[i] = o
    /\ \A i \in Ids : ticket[i] = "quarantined" => ticket'[i] = "quarantined"
    /\ \A i \in Ids : Abandoned(i) => Abandoned(i)'
    /\ \A i \in Ids : i < counter => i < counter'

\* What a step keeps for the command of o is enough for its invariant.
LEMMA CommandKept ==
  ASSUME ReconcileTypeOK, NEW o \in Operator, CommandInv(o), Keeps(o)
  PROVE  CommandInv(o)'
<1>1. /\ step'[o] = step[o] /\ chosen'[o] = chosen[o] /\ unleased'[o] = unleased[o]
      /\ moved'[o] = moved[o] /\ report'[o] = report[o]
      /\ chosen[o] \subseteq Ids /\ moved[o] \subseteq Ids
  BY ZenonT(30) DEF Keeps, ReconcileTypeOK
<1>2. step[o] \in Commanding => queue' = o /\ todo' = todo
  BY ZenonT(30) DEF Keeps, CommandInv
<1>3. step[o] \in Commanding => \A i \in Ids : ticketLock[i] = o => ticketLock'[i] = o
  BY ZenonT(30) DEF Keeps, CommandInv
<1>4. \A i \in Ids : (Abandoned(i) => Abandoned(i)') /\ (i < counter => i < counter')
  BY ZenonT(30) DEF Keeps
<1>5. \A i \in moved[o] : ticket'[i] = "quarantined"
  BY <1>1, ZenonT(30) DEF Keeps, CommandInv
<1>6. step[o] \in Changing /\ Progress(o) => Progress(o)'
  BY <1>1, <1>2, ZenonT(30) DEF Progress, Current, Commanding
<1>7. step[o] \in Validating \cup Changing \cup Reading <=> step[o] \in Commanding
  BY DEF Commanding
<1>8. "applyTickets" \in Validating /\ "applyRelease" \in Changing
  BY DEF Validating, Changing
<1>9. QED
  BY <1>1, <1>2, <1>3, <1>4, <1>5, <1>6, <1>7, <1>8, ZenonT(30) DEF CommandInv

\* A number that is abandoned stays so when p moves.
LEMMA AbandonedStays ==
  ASSUME TypeOK, NEW p \in Proc, Spares(p), NEW i \in Ids, Abandoned(i)
  PROVE  Abandoned(i)'
<1>1. i \in Int /\ i # 0 /\ counter \in Int
  BY CounterAssumption DEF TypeOK, Ids
<1>2. \A q \in Proc \ {p} : Uses(q)' => Uses(q) /\ own'[q] = own[q]
  BY ZenonT(30) DEF Spares, Uses, Queued, Admitted
<1>3. Uses(p)' /\ own'[p] = i => Uses(p) /\ own[p] = i
  BY <1>1, ZenonT(30) DEF Spares, Abandoned
<1>4. i < counter'
  BY <1>1 DEF Spares, Abandoned
<1>5. QED
  BY <1>2, <1>3, <1>4 DEF Abandoned

\* No step of the processes, and no expiry, disturbs a command.
LEMMA ProcessesKeep ==
  ASSUME RootInv, NEW o \in Operator, [Next]_vars, UNCHANGED rvars
  PROVE  Keeps(o)
<1>1. TypeOK /\ IInv
  BY DEF RootInv, RootTypeOK, ReconcileTypeOK, IInv
<1>2. ASSUME NEW p \in Proc, ProcStep(p) PROVE Keeps(o)
  <2>1. Spares(p)
    BY <1>1, <1>2, ProcSpares
  <2>2. \A i \in Ids : Abandoned(i) => Abandoned(i)'
    BY <1>1, <2>1, AbandonedStays
  <2>3. \A i \in Ids : i < counter => i < counter'
    BY <1>1, <2>1 DEF Spares, TypeOK, Ids
  <2>4. o # p /\ o # NoProc
    BY NoProcAssumption, ActorsAssumption
  <2>5. QED
    BY <2>1, <2>2, <2>3, <2>4, ZenonT(30) DEF Keeps, Spares, rvars
<1>3. CASE (\E i \in Ids : Expire(i)) \/ UNCHANGED vars
  <2>1. UNCHANGED <<pc, own, hb, counter, ticket, ticketLock, queue, todo, step, chosen, unleased,
                    moved, report>>
    BY <1>3 DEF Expire, vars, rvars, locks, scan
  <2>2. QED
    BY <2>1, ZenonT(30) DEF Keeps, Abandoned, Uses, Queued, Admitted
<1>4. QED
  BY <1>2, <1>3 DEF Next

\* The commands of two operators do not disturb each other.
LEMMA OperatorsKeep ==
  ASSUME RootInv, NEW o \in Operator, NEW r \in Operator \ {o}, Gentle(r)
  PROVE  Keeps(o)
<1>1. UNCHANGED <<pc, own, hb, counter>>
  BY ZenonT(30) DEF Gentle, Untouchable
<1>2. \A i \in Ids : Abandoned(i) => Abandoned(i)'
  BY <1>1, ZenonT(30) DEF Abandoned, Uses, Queued, Admitted
<1>3. o # NoProc
  BY NoProcAssumption
<1>4. QED
  BY <1>1, <1>2, <1>3 DEF Keeps, Gentle

\* Nor does the initialisation of the directory.
LEMMA InitialisersKeep ==
  ASSUME RootInv, NEW o \in Operator, NEW p \in Proc, InitStep(p)
  PROVE  Keeps(o)
<1>1. /\ UNCHANGED <<own, hb, counter, ticket, ticketLock, todo, step, chosen, unleased, moved,
                     report>>
      /\ pc' = pc \/ (pc' = [pc EXCEPT ![p] = "enter"] /\ ini[p] = "dirs")
      /\ queue' = queue \/ queue = NoProc \/ ini[p] \in {"mark", "markWrite", "dirs"}
  BY ZenonT(30) DEF InitStep, InitBegin, InitLock, InitMark, InitMarkWrite,
     InitDirectory, InitDone, InitGivesUp, InitCut, RestUnchanged, InitSteps, Goto,
     allVars, vars, rvars, files, scan
<1>2. pc \in [Proc -> Steps] /\ (ini[p] = "dirs" => pc[p] = "idle")
  BY ZenonT(30) DEF RootInv, RootTypeOK, ReconcileTypeOK, TypeOK, InitialiserInv
<1>3. \A q \in Proc : Uses(q)' => Uses(q)
  BY <1>1, <1>2, ZenonT(30) DEF Uses, Queued, Admitted, CreateSteps, ScanSteps,
     DropGuardSteps
<1>4. queue = o => queue' = o
  BY <1>1, NoProcAssumption, ActorsAssumption, ZenonT(30) DEF RootInv, InitialiserInv
<1>5. QED
  BY <1>1, <1>3, <1>4, ZenonT(30) DEF Keeps, Abandoned

-----------------------------------------------------------------------------
(* The steps of a command.                                                 *)

Classes == {"none", "listed"} \cup Previewed \cup LeaseOnly \cup TicketMoved \cup Untouched

\* A command that returns leaves all types as they are.
LEMMA ReturnTypes ==
  ASSUME ReconcileTypeOK, NEW o \in Operator, NEW r \in [Ids -> Classes], Return(o, r)
  PROVE  ReconcileTypeOK'
<1>1. TypeOK'
  BY ZenonT(30) DEF ReconcileTypeOK, TypeOK, Return, ReleaseAll, ForgetScan,
     Untouchable, files, scan, Actor
<1>2. QED
  BY <1>1, ZenonT(30) DEF ReconcileTypeOK, Return, At, Classes

\* Every step of a command keeps the types.
LEMMA OperatorTypes ==
  ASSUME ReconcileTypeOK, NEW o \in Operator, OperatorStep(o)
  PROVE  ReconcileTypeOK'
<1>1. TypeOK /\ report \in [Operator -> [Ids -> Classes]]
  BY ZenonT(30) DEF ReconcileTypeOK, Classes
<1>2. CASE \/ \E command \in {"status", "preview"} : Begin(o, command)
           \/ \E ids \in SUBSET Ids : BeginApply(o, ids)
           \/ Dismiss(o)
  <2>1. TypeOK'
    BY <1>1, <1>2, ZenonT(30) DEF Begin, BeginApply, Dismiss, vars, TypeOK
  <2>2. ASSUME NEW command \in {"status", "preview"}, Begin(o, command) PROVE ReconcileTypeOK'
    BY <2>1, <2>2, ZenonT(30) DEF Begin, At, ReconcileTypeOK, Waiting
  <2>3. ASSUME NEW ids \in SUBSET Ids, BeginApply(o, ids) PROVE ReconcileTypeOK'
    BY <2>1, <2>3, ZenonT(30) DEF BeginApply, At, ReconcileTypeOK, Waiting
  <2>4. CASE Dismiss(o)
    BY <2>1, <2>4, ZenonT(30) DEF Dismiss, At, NoReport, ReconcileTypeOK
  <2>5. QED
    BY <1>2, <2>2, <2>3, <2>4
<1>3. CASE EnterQueue(o)
  BY <1>3, ZenonT(30) DEF EnterQueue, At, files, Untouchable, ReconcileTypeOK, TypeOK,
     Entries, Actor, Reading, Validating, Waiting
<1>4. CASE OperatorDies(o)
  <2>1. TypeOK'
    BY <1>1, <1>4, ZenonT(30) DEF OperatorDies, TypeOK, ReleaseAll, ForgetScan,
       Untouchable, files, scan, Actor
  <2>2. QED
    BY <1>4, <2>1, ZenonT(30) DEF OperatorDies, At, NoReport, ReconcileTypeOK
<1>5. CASE Refused(o)
  <2>1. [i \in Ids |-> IF i \in chosen[o] THEN "blocked" ELSE "none"] \in [Ids -> Classes]
    BY DEF Classes, Untouched
  <2>2. QED
    BY <1>5, <2>1, ReturnTypes, ZenonT(30) DEF Refused, Refuse
<1>6. CASE ReadStep(o)
  <2>1. CASE PreviewSlot(o)
    BY <2>1, ZenonT(30) DEF PreviewSlot, At, files, Untouchable, ReconcileTypeOK,
       TypeOK, Entries, Actor, Reading
  <2>2. ASSUME NEW i \in Ids, StatusEntry(o, i) \/ EntryGone(o, i) PROVE ReconcileTypeOK'
    BY <2>2 DEF StatusEntry, EntryGone, files, locks, rvars, Untouchable,
       ReconcileTypeOK, TypeOK
  <2>3. ASSUME NEW i \in Ids, PreviewEntry(o, i) PROVE ReconcileTypeOK'
    <3>1. TypeOK'
      BY <1>1, <2>3, ZenonT(30) DEF PreviewEntry, files, locks, Untouchable, TypeOK
    <3>2. PICK class \in Classification(o, i) : report' = [report EXCEPT ![o][i] = class]
      BY <2>3, ZenonT(30) DEF PreviewEntry
    <3>3. class \in Previewed
      BY <3>2 DEF Classification, Previewed, Eligible
    <3>4. report' \in [Operator -> [Ids -> Classes]]
      BY <1>1, <3>2, <3>3, ZenonT(30) DEF Classes
    <3>5. QED
      BY <2>3, <3>1, <3>4, ZenonT(30) DEF PreviewEntry, ReconcileTypeOK, Classes
  <2>4. CASE StatusReport(o)
    <3>1. [i \in Ids |-> IF i \in Listed THEN "listed" ELSE "none"] \in [Ids -> Classes]
      BY DEF Classes
    <3>2. QED
      BY <2>4, <3>1, ReturnTypes DEF StatusReport
  <2>5. CASE PreviewReport(o)
    BY <1>1, <2>5, ReturnTypes DEF PreviewReport
  <2>6. QED
    BY <1>6, <2>1, <2>2, <2>3, <2>4, <2>5 DEF ReadStep
<1>7. CASE ApplyStep(o)
  <2>1. CASE TakeSlot(o)
    BY <2>1, ZenonT(30) DEF TakeSlot, At, files, Untouchable, ReconcileTypeOK, TypeOK,
       Actor, Validating
  <2>2. CASE LeasesChecked(o) \/ Recheck(o)
    BY <2>2, ZenonT(30) DEF LeasesChecked, Recheck, At, files, locks, Untouchable,
       ReconcileTypeOK, TypeOK, Validating, Changing
  <2>3. ASSUME NEW i \in Ids, CheckLease(o, i) \/ TicketDone(o, i) PROVE ReconcileTypeOK'
    BY <2>3, ZenonT(30) DEF CheckLease, TicketDone, At, files, locks, rvars,
       Untouchable, ReconcileTypeOK, TypeOK, Changing
  <2>4. ASSUME NEW i \in Ids, LockSelected(o, i) PROVE ReconcileTypeOK'
    BY <2>4, ZenonT(30) DEF LockSelected, files, rvars, Untouchable, ReconcileTypeOK,
       TypeOK, Actor
  <2>5. ASSUME NEW i \in Ids, RemoveSelectedLease(o, i) PROVE ReconcileTypeOK'
    BY <2>5, ZenonT(30) DEF RemoveSelectedLease, RemoveLease, At, locks, scan,
       Untouchable, ReconcileTypeOK, TypeOK, Changing
  <2>6. ASSUME NEW i \in Ids, MoveTicket(o, i) PROVE ReconcileTypeOK'
    BY <2>6, ZenonT(30) DEF MoveTicket, At, locks, scan, Untouchable, ReconcileTypeOK,
       TypeOK, Changing
  <2>7. CASE Complete(o)
    <3>1. [i \in Ids |-> IF i \in chosen[o] THEN "quarantined" ELSE "none"] \in [Ids -> Classes]
      BY ZenonT(30) DEF Classes, TicketMoved
    <3>2. QED
      BY <2>7, <3>1, ReturnTypes, ZenonT(30) DEF Complete
  <2>8. ASSUME NEW i \in Ids, NEW class \in Classes, Partial(o, i, class) PROVE ReconcileTypeOK'
    <3>1. [j \in Ids |-> IF j \notin chosen[o] THEN "none"
                         ELSE IF j = i THEN class
                         ELSE IF j \in todo THEN "not_attempted" ELSE "quarantined"]
            \in [Ids -> Classes]
      BY ZenonT(30) DEF Classes, TicketMoved, Untouched
    <3>2. QED
      BY <2>8, <3>1, ReturnTypes, ZenonT(30) DEF Partial
  <2>9. ASSUME Refuse(o) PROVE ReconcileTypeOK'
    <3>1. [i \in Ids |-> IF i \in chosen[o] THEN "blocked" ELSE "none"] \in [Ids -> Classes]
      BY DEF Classes, Untouched
    <3>2. QED
      BY <2>9, <3>1, ReturnTypes, ZenonT(30) DEF Refuse
  <2>10. ASSUME NEW i \in Ids, CleanFails(o, i) \/ MoveFails(o, i) \/ SyncFails(o, i)
         PROVE  Refuse(o) \/ \E class \in Classes : Partial(o, i, class)
    BY <2>10, ZenonT(30) DEF CleanFails, MoveFails, SyncFails, Classes, LeaseOnly,
       TicketMoved, Untouched
  <2>11. QED
    BY <1>7, <2>1, <2>2, <2>3, <2>4, <2>5, <2>6, <2>7, <2>8, <2>9, <2>10, ZenonT(30) DEF
       ApplyStep
<1>8. QED
  BY <1>2, <1>3, <1>4, <1>5, <1>6, <1>7 DEF OperatorStep

\* Under queue.lock a ticket that no process has locked is abandoned: its
\* owner cannot be creating it, and who waits or holds has it locked.
LEMMA LockedIsAbandoned ==
  ASSUME IInv, NEW o \in Operator, queue = o, NEW i \in Ids, i < counter,
         ticketLock[i] \in {o, NoProc}
  PROVE  Abandoned(i)
<1>1. \A p \in Proc : p # o /\ p # NoProc
  BY NoProcAssumption, ActorsAssumption, ZenonT(30)
<1>2. \A p \in Proc : pc[p] \notin CreateSteps
  BY <1>1, ZenonT(30) DEF IInv, Consistent, QueueInv, QueueSteps
<1>3. \A p \in Proc : Queued(p) \/ Admitted(p) => own[p] # i
  BY <1>1 DEF IInv, Consistent, OwnersUndisturbed
<1>4. QED
  BY <1>2, <1>3, ZenonT(30) DEF Abandoned, Uses

\* A report is true when it says so of every selected id; that ids are
\* abandoned does not change when the locks are given back.
LEMMA ReportHolds ==
  ASSUME ReconcileTypeOK, NEW o \in Operator, CommandInv(o), NEW r, Return(o, r),
         \A i \in Ids : r[i] \in Eligible => Abandoned(i),
         \A i \in chosen[o] : /\ i \in moved[o] <=> r[i] \in TicketMoved
                              /\ r[i] \in Untouched => i \notin unleased[o] \cup moved[o]
  PROVE  CommandInv(o)'
<1>1. /\ step'[o] = "done" /\ report'[o] = r
      /\ UNCHANGED <<ticket, chosen, unleased, moved>>
  BY ZenonT(30) DEF Return, At, files, ReconcileTypeOK
<1>2. \A i \in Ids : Abandoned(i) => Abandoned(i)'
  BY ZenonT(30) DEF Return, Untouchable, Abandoned, Uses, Queued, Admitted
<1>3. "done" \notin Commanding /\ "done" \notin {"idle", "status", "preview"} \cup Reading
      /\ "done" \notin Changing
  BY ZenonT(30) DEF Commanding, Reading, Validating, Changing
<1>4. chosen[o] \subseteq Ids
  BY DEF ReconcileTypeOK
<1>5. unleased[o] \cup moved[o] # {} => \A i \in chosen[o] : Abandoned(i)
  BY ZenonT(30) DEF CommandInv
<1>6. \A i \in moved[o] : ticket[i] = "quarantined"
  BY ZenonT(30) DEF CommandInv
<1>7. QED
  BY <1>1, <1>2, <1>3, <1>4, <1>5, <1>6, ZenonT(30) DEF CommandInv

\* A refusal reports every selected id as blocked, and nothing was touched.
LEMMA RefusalHolds ==
  ASSUME ReconcileTypeOK, NEW o \in Operator, CommandInv(o), Refuse(o),
         \A i \in chosen[o] : i \notin unleased[o] \cup moved[o]
  PROVE  CommandInv(o)'
<1> DEFINE r == [i \in Ids |-> IF i \in chosen[o] THEN "blocked" ELSE "none"]
<1>1. Return(o, r)
  BY ZenonT(30) DEF Refuse
<1>2. \A i \in Ids : r[i] \notin Eligible \cup TicketMoved
  BY DEF Eligible, TicketMoved
<1>3. chosen[o] \subseteq Ids
  BY DEF ReconcileTypeOK
<1> HIDE DEF r
<1>4. QED
  BY <1>1, <1>2, <1>3, ReportHolds, ZenonT(30)

\* A partial report is true of the current id when its class is, and of the
\* ids before and after it.
LEMMA PartialHolds ==
  ASSUME ReconcileTypeOK, NEW o \in Operator, CommandInv(o), step[o] \in Changing,
         NEW i \in Ids, Current(i), NEW class, Partial(o, i, class),
         class \notin Eligible,
         i \in moved[o] <=> class \in TicketMoved,
         class \in Untouched => i \notin unleased[o]
  PROVE  CommandInv(o)'
<1> DEFINE r == [j \in Ids |-> IF j \notin chosen[o] THEN "none"
                               ELSE IF j = i THEN class
                               ELSE IF j \in todo THEN "not_attempted" ELSE "quarantined"]
<1>1. Return(o, r)
  BY ZenonT(30) DEF Partial
<1>2. \A j \in Ids : r[j] \notin Eligible
  BY ZenonT(30) DEF Eligible
<1>3. chosen[o] \subseteq Ids /\ todo \subseteq Ids
  BY ZenonT(30) DEF ReconcileTypeOK, TypeOK
<1>4. \A j \in todo : Current(j) => j = i
  BY <1>3 DEF Current, Ids
<1>5. Progress(o)
  BY ZenonT(30) DEF CommandInv
<1>6. "not_attempted" \notin TicketMoved /\ "quarantined" \in TicketMoved
      /\ "quarantined" \notin Untouched /\ TicketMoved \cap Untouched = {}
  BY ZenonT(30) DEF TicketMoved, Untouched
<1>7. ASSUME NEW j \in chosen[o]
      PROVE  /\ j \in moved[o] <=> r[j] \in TicketMoved
             /\ r[j] \in Untouched => j \notin unleased[o] \cup moved[o]
  <2>1. CASE j = i
    BY <1>3, <1>6, <2>1, ZenonT(30)
  <2>2. CASE j # i /\ j \in todo
    <3>1. j \notin moved[o] /\ j \notin unleased[o]
      BY <1>4, <1>5, <2>2, ZenonT(30) DEF Progress
    <3>2. r[j] = "not_attempted"
      BY <1>3, <2>2, ZenonT(30)
    <3>3. QED
      BY <1>6, <3>1, <3>2, ZenonT(30)
  <2>3. CASE j # i /\ j \notin todo
    <3>1. j \in moved[o]
      BY <1>5, <2>3, ZenonT(30) DEF Progress
    <3>2. r[j] = "quarantined"
      BY <1>3, <2>3, ZenonT(30)
    <3>3. QED
      BY <1>6, <3>1, <3>2, ZenonT(30)
  <2>4. QED
    BY <2>1, <2>2, <2>3, ZenonT(30)
<1> HIDE DEF r
<1>8. QED
  BY <1>1, <1>2, <1>7, ReportHolds, ZenonT(30)

\* Before its first change a command only reads, locks and lists.
LEMMA ReadingHolds ==
  ASSUME ReconcileTypeOK, Consistent, NEW o \in Operator, CommandInv(o), Gentle(o),
         \/ \E command \in {"status", "preview"} : Begin(o, command)
         \/ \E ids \in SUBSET Ids : BeginApply(o, ids)
         \/ Dismiss(o) \/ OperatorDies(o) \/ EnterQueue(o) \/ ReadStep(o)
  PROVE  CommandInv(o)'
<1>1. \A i \in Ids : Abandoned(i)' <=> Abandoned(i)
  BY ZenonT(30) DEF Gentle, Untouchable, Abandoned, Uses, Queued, Admitted
<1>2. IInv
  BY DEF ReconcileTypeOK, IInv
<1> DEFINE Here == /\ step \in [Operator -> Waiting \cup Validating \cup Changing \cup Reading
                                              \cup {"idle", "done"}]
                   /\ chosen \in [Operator -> SUBSET Ids]
                   /\ unleased \in [Operator -> SUBSET Ids]
                   /\ moved \in [Operator -> SUBSET Ids]
                   /\ report \in [Operator -> [Ids -> Classes]]
<1>3. Here
  BY DEF ReconcileTypeOK, Classes
<1>4. CASE \/ \E command \in {"status", "preview"} : Begin(o, command)
           \/ \E ids \in SUBSET Ids : BeginApply(o, ids)
  BY <1>1, <1>3, <1>4, ZenonT(30) DEF Begin, BeginApply, CommandInv, At, vars,
     Commanding, Reading, Validating, Changing
<1>5. CASE Dismiss(o) \/ OperatorDies(o)
  <2>1. /\ step'[o] = "idle" /\ chosen'[o] = {} /\ unleased'[o] = {} /\ moved'[o] = {}
        /\ report'[o] = NoReport
    BY <1>3, <1>5 DEF Dismiss, OperatorDies, At
  <2>2. \A i \in Ids : report'[o][i] \notin Eligible
    BY <2>1 DEF NoReport, Eligible
  <2>3. QED
    BY <2>1, <2>2, ZenonT(30) DEF CommandInv, Commanding, Reading, Validating, Changing
<1>6. CASE EnterQueue(o)
  BY <1>1, <1>3, <1>6, ZenonT(30) DEF EnterQueue, CommandInv, At, files, Waiting,
     Commanding, Reading, Validating, Changing
<1>7. CASE PreviewSlot(o)
  BY <1>1, <1>3, <1>7, ZenonT(30) DEF PreviewSlot, CommandInv, At, files, Commanding,
     Reading, Validating, Changing
<1>8. ASSUME NEW i \in Ids, StatusEntry(o, i) \/ EntryGone(o, i) PROVE CommandInv(o)'
  BY <1>1, <1>3, <1>8, ZenonT(30) DEF StatusEntry, EntryGone, CommandInv, files, locks,
     rvars, Commanding, Reading, Validating, Changing
<1>9. ASSUME NEW i \in Ids, PreviewEntry(o, i) PROVE CommandInv(o)'
  <2>0. PICK class \in Classification(o, i) : report' = [report EXCEPT ![o][i] = class]
    BY <1>9, ZenonT(30) DEF PreviewEntry
  <2>1. ASSUME class \in Eligible PROVE Abandoned(i)
    <3>1. ticketLock[i] = NoProc
      BY <2>0, <2>1 DEF Classification, Eligible
    <3>2. i < counter
      BY <1>9, ZenonT(30) DEF PreviewEntry, Consistent, OwnInv
    <3>3. queue = o
      BY <1>9, ZenonT(30) DEF PreviewEntry, CommandInv, Commanding, Reading
    <3>4. QED
      BY <1>2, <3>1, <3>2, <3>3, LockedIsAbandoned, ZenonT(30)
  <2>2. \A j \in Ids : report'[o][j] \in Eligible => Abandoned(j)
    BY <1>3, <2>0, <2>1, ZenonT(30) DEF CommandInv
  <2>3. QED
    BY <1>1, <1>3, <1>9, <2>2, ZenonT(30) DEF PreviewEntry, CommandInv, files, locks,
       Commanding, Reading, Validating, Changing
<1>10. CASE StatusReport(o)
  <2> DEFINE r == [i \in Ids |-> IF i \in Listed THEN "listed" ELSE "none"]
  <2>1. Return(o, r) /\ chosen[o] = {}
    BY <1>10, ZenonT(30) DEF StatusReport, CommandInv, Reading
  <2>2. \A i \in Ids : r[i] \notin Eligible
    BY DEF Eligible
  <2> HIDE DEF r
  <2>3. QED
    BY <2>1, <2>2, ReportHolds, ZenonT(30)
<1>11. CASE PreviewReport(o)
  <2>1. Return(o, report[o]) /\ chosen[o] = {}
    BY <1>11, ZenonT(30) DEF PreviewReport, CommandInv, Reading
  <2>2. \A i \in Ids : report[o][i] \in Eligible => Abandoned(i)
    BY ZenonT(30) DEF CommandInv
  <2>3. QED
    BY <2>1, <2>2, ReportHolds, ZenonT(30)
<1>12. QED
  BY <1>4, <1>5, <1>6, <1>7, <1>8, <1>9, <1>10, <1>11 DEF ReadStep

\* An apply locks every selected ticket before it changes one, and takes them
\* one after another.
LEMMA ApplyHolds ==
  ASSUME ReconcileTypeOK, Consistent, NEW o \in Operator, CommandInv(o), Gentle(o), ApplyStep(o)
  PROVE  CommandInv(o)'
<1>1. \A i \in Ids : Abandoned(i)' <=> Abandoned(i)
  BY ZenonT(30) DEF Gentle, Untouchable, Abandoned, Uses, Queued, Admitted
<1>2. IInv
  BY DEF ReconcileTypeOK, IInv
<1> DEFINE Here == /\ step \in [Operator -> Waiting \cup Validating \cup Changing \cup Reading
                                              \cup {"idle", "done"}]
                   /\ chosen \in [Operator -> SUBSET Ids] /\ todo \subseteq Ids
                   /\ unleased \in [Operator -> SUBSET Ids]
                   /\ moved \in [Operator -> SUBSET Ids]
                   /\ report \in [Operator -> [Ids -> Classes]]
                   /\ ticket \in [Ids -> {"none", "staging", "present", "quarantined"}]
                   /\ ticketLock \in [Ids -> Actor]
<1>3. Here
  BY ZenonT(30) DEF ReconcileTypeOK, TypeOK, Classes
<1>4. step[o] \in Changing => \A i \in chosen[o] : Abandoned(i)
  <2>1. step[o] \in Changing => /\ queue = o
                                /\ \A i \in chosen[o] :
                                     i \in Ids /\ ticketLock[i] = o /\ i < counter
    BY <1>3, ZenonT(30) DEF CommandInv, Commanding
  <2>2. QED
    BY <1>2, <2>1, LockedIsAbandoned, ZenonT(30)
<1>5. \A i, j \in Ids : Current(i) /\ Current(j) => i = j
  BY DEF Current, Ids
<1>p. step[o] \in Changing =>
        /\ todo \subseteq chosen[o] /\ chosen[o] \subseteq Ids
        /\ Progress(o)
  BY <1>3, ZenonT(30) DEF CommandInv
<1>6. CASE TakeSlot(o) \/ LeasesChecked(o) \/ \E i \in Ids : CheckLease(o, i)
  BY <1>1, <1>3, <1>6, ZenonT(30) DEF TakeSlot, LeasesChecked, CheckLease, CommandInv,
     At, files, locks, rvars, Untouchable, Commanding, Reading, Validating, Changing
<1>7. ASSUME NEW i \in Ids, LockSelected(o, i) PROVE CommandInv(o)'
  <2>1. i < counter
    BY <1>7, ZenonT(30) DEF LockSelected, Selectable, Consistent, OwnInv
  <2>2. QED
    BY <1>1, <1>3, <1>7, <2>1, ZenonT(30) DEF LockSelected, CommandInv, files, rvars,
       Untouchable, Commanding, Reading, Validating, Changing
<1>8. CASE Recheck(o)
  BY <1>1, <1>3, <1>8, ZenonT(30) DEF Recheck, CommandInv, Progress, At, files, locks,
     Untouchable, Commanding, Reading, Validating, Changing
<1>9. ASSUME NEW i \in Ids, RemoveSelectedLease(o, i) PROVE CommandInv(o)'
  <2>1. /\ step[o] = "applyClean" /\ step'[o] = "applyMove" /\ Current(i)
        /\ unleased'[o] \subseteq unleased[o] \cup {i}
        /\ UNCHANGED <<ticket, ticketLock, queue, todo, chosen, moved, report, counter>>
    BY <1>3, <1>9, ZenonT(30) DEF RemoveSelectedLease, At, locks, scan, Untouchable
  <2>2. Progress(o)'
    <3>1. Progress(o) /\ chosen[o] \subseteq Ids
      BY <1>p, <2>1 DEF Changing
    <3>2. \A j \in chosen[o] : Current(j)' <=> Current(j)
      BY <2>1, ZenonT(30) DEF Current
    <3>3. \A j \in chosen[o] : Current(j) <=> j = i
      BY <1>5, <2>1, <3>1, ZenonT(30)
    <3>4. QED
      BY <2>1, <3>1, <3>2, <3>3, ZenonT(30) DEF Progress
  <2>3. QED
    BY <1>1, <1>3, <1>4, <2>1, <2>2, ZenonT(30) DEF CommandInv, Commanding, Reading,
       Validating, Changing
<1>10. ASSUME NEW i \in Ids, MoveTicket(o, i) PROVE CommandInv(o)'
  <2>1. /\ step[o] = "applyMove" /\ step'[o] = "applySync" /\ Current(i)
        /\ moved'[o] = moved[o] \cup {i}
        /\ ticket' = [ticket EXCEPT ![i] = "quarantined"]
        /\ UNCHANGED <<ticketLock, queue, todo, chosen, unleased, report, counter>>
    BY <1>3, <1>10, ZenonT(30) DEF MoveTicket, At, locks, scan, Untouchable
  <2>2. Progress(o)'
    <3>1. Progress(o) /\ chosen[o] \subseteq Ids
      BY <1>p, <2>1 DEF Changing
    <3>2. \A j \in chosen[o] : Current(j)' <=> Current(j)
      BY <2>1, ZenonT(30) DEF Current
    <3>3. \A j \in chosen[o] : Current(j) <=> j = i
      BY <1>5, <2>1, <3>1, ZenonT(30)
    <3>4. QED
      BY <2>1, <3>1, <3>2, <3>3, ZenonT(30) DEF Progress
  <2>3. QED
    BY <1>1, <1>3, <1>4, <2>1, <2>2, ZenonT(30) DEF CommandInv, Commanding, Reading,
       Validating, Changing
<1>11. ASSUME NEW i \in Ids, TicketDone(o, i) PROVE CommandInv(o)'
  <2>1. /\ step[o] = "applySync" /\ Current(i) /\ todo' = todo \ {i}
        /\ step'[o] = IF todo = {i} THEN "applyRelease" ELSE "applyClean"
        /\ UNCHANGED <<ticket, ticketLock, queue, chosen, unleased, moved, report, counter>>
    BY <1>3, <1>11, ZenonT(30) DEF TicketDone, At, files, locks, Untouchable
  <2>2. Progress(o)'
    BY <1>5, <1>p, <2>1 DEF Progress, Current, Changing
  <2>3. QED
    BY <1>1, <1>3, <1>4, <2>1, <2>2, ZenonT(30) DEF CommandInv, Commanding, Reading,
       Validating, Changing
<1>12. CASE Complete(o)
  <2> DEFINE r == [i \in Ids |-> IF i \in chosen[o] THEN "quarantined" ELSE "none"]
  <2>1. Return(o, r)
    BY <1>12, ZenonT(30) DEF Complete
  <2>2. \A i \in chosen[o] : i \in moved[o]
    BY <1>12, ZenonT(30) DEF Complete, CommandInv, Progress, Changing
  <2>3. /\ \A i \in Ids : r[i] \notin Eligible \cup Untouched
        /\ \A i \in chosen[o] : r[i] \in TicketMoved
    BY <1>3, ZenonT(30) DEF Eligible, Untouched, TicketMoved
  <2>4. chosen[o] \subseteq Ids
    BY <1>3, ZenonT(30)
  <2> HIDE DEF r
  <2>5. QED
    BY <2>1, <2>2, <2>3, <2>4, ReportHolds, ZenonT(30)
<1>13. ASSUME NEW i \in Ids, CleanFails(o, i) PROVE CommandInv(o)'
  <2>1. step[o] = "applyClean" /\ Current(i) /\ step[o] \in Changing
    BY <1>13 DEF CleanFails, Changing
  <2>2. /\ todo \subseteq chosen[o]
        /\ \A j \in chosen[o] : j \in todo => j \notin unleased[o] \cup moved[o]
    BY <2>1, ZenonT(30) DEF CommandInv, Progress
  <2>3. CASE NoOutcomes(o)
    BY <1>13, <2>2, <2>3, RefusalHolds, ZenonT(30) DEF CleanFails, NoOutcomes
  <2>4. CASE ~NoOutcomes(o)
    <3>1. PICK class \in {"not_attempted", "partial_lease_remove_failed"} : Partial(o, i, class)
      BY <1>13, <2>4, ZenonT(30) DEF CleanFails
    <3>2. class \notin Eligible \cup TicketMoved
      BY DEF Eligible, TicketMoved
    <3>3. i \notin unleased[o] \cup moved[o]
      BY <2>1, <2>2, ZenonT(30) DEF Current
    <3>4. QED
      BY <2>1, <3>1, <3>2, <3>3, PartialHolds, ZenonT(30)
  <2>5. QED
    BY <2>3, <2>4
<1>14. ASSUME NEW i \in Ids, MoveFails(o, i) PROVE CommandInv(o)'
  <2>1. step[o] = "applyMove" /\ Current(i) /\ step[o] \in Changing
    BY <1>14, ZenonT(30) DEF MoveFails, Changing
  <2>2. /\ todo \subseteq chosen[o]
        /\ \A j \in chosen[o] : j \in todo => j \notin moved[o] /\ (j \in unleased[o] => j = i)
    BY <1>3, <1>5, <2>1, ZenonT(30) DEF CommandInv, Progress
  <2>3. CASE i \notin unleased[o] /\ NoOutcomes(o)
    <3>1. Refuse(o)
      BY <1>14, <2>3, ZenonT(30) DEF MoveFails
    <3>2. \A j \in chosen[o] : j \notin unleased[o] \cup moved[o]
      BY <2>2, <2>3, ZenonT(30) DEF NoOutcomes
    <3>3. QED
      BY <3>1, <3>2, RefusalHolds, ZenonT(30)
  <2>4. CASE ~(i \notin unleased[o] /\ NoOutcomes(o))
    <3>1. PICK class \in LeaseOnly : Partial(o, i, class)
      BY <1>14, <2>4, ZenonT(30) DEF MoveFails, LeaseOnly
    <3>2. class \notin Eligible \cup TicketMoved \cup Untouched
      BY ZenonT(30) DEF Eligible, TicketMoved, Untouched, LeaseOnly
    <3>3. i \notin moved[o]
      BY <2>1, <2>2, ZenonT(30) DEF Current
    <3>4. QED
      BY <2>1, <3>1, <3>2, <3>3, PartialHolds, ZenonT(30)
  <2>5. QED
    BY <2>3, <2>4, ZenonT(30)
<1>15. ASSUME NEW i \in Ids, SyncFails(o, i) PROVE CommandInv(o)'
  <2>1. step[o] = "applySync" /\ Current(i) /\ step[o] \in Changing
    BY <1>15, ZenonT(30) DEF SyncFails, Changing
  <2>2. PICK class \in TicketMoved : Partial(o, i, class)
    BY <1>15 DEF SyncFails
  <2>3. class \notin Eligible \cup Untouched
    BY DEF Eligible, TicketMoved, Untouched
  <2>4. i \in moved[o]
    BY <2>1, ZenonT(30) DEF CommandInv, Progress, Current
  <2>5. QED
    BY <2>1, <2>2, <2>3, <2>4, PartialHolds, ZenonT(30)
<1>16. QED
  BY <1>6, <1>7, <1>8, <1>9, <1>10, <1>11, <1>12, <1>13, <1>14, <1>15, ZenonT(30) DEF
     ApplyStep

\* Every step of a command keeps its invariant.
LEMMA CommandHolds ==
  ASSUME ReconcileTypeOK, Consistent, NEW o \in Operator, CommandInv(o), OperatorStep(o)
  PROVE  CommandInv(o)'
<1>1. Gentle(o)
  BY OperatorIsGentle, ZenonT(30)
<1>2. CASE Refused(o)
  <2>1. unleased[o] = {} /\ moved[o] = {}
    BY <1>2, ZenonT(30) DEF Refused, CommandInv, Waiting, Reading, Validating, Changing
  <2>2. QED
    BY <1>2, <2>1, RefusalHolds, ZenonT(30) DEF Refused
<1>3. QED
  BY <1>1, <1>2, ReadingHolds, ApplyHolds, ZenonT(30) DEF OperatorStep

-----------------------------------------------------------------------------
(* The first use of the directory, and the theorems.                       *)

\* initialize_until creates files in an unused directory only, under
\* queue.lock: the invariant of the processes survives.
LEMMA InitialiserSteps ==
  ASSUME RootInv, NEW p \in Proc, InitStep(p)
  PROVE  RootTypeOK' /\ Consistent'
<1>1. TypeOK /\ Consistent /\ pc[p] \in Steps
      /\ ini \in [Proc -> InitSteps \cup {"none"}]
      /\ dirs \in 0..3 /\ marker \in {"none", "torn", "whole"}
  BY ZenonT(30) DEF RootInv, RootTypeOK, ReconcileTypeOK, TypeOK
<1>2. /\ UNCHANGED <<own, pass, hb, files, ticketLock, slot, counter, scan, rvars>>
      /\ pc' = pc \/ (pc[p] = "idle" /\ pc' = [pc EXCEPT ![p] = "enter"])
      /\ queue' = queue \/ (queue \in {p, NoProc} /\ queue' \in {p, NoProc})
  BY ZenonT(30) DEF RootInv, InitialiserInv, InitStep, InitBegin, InitLock, InitMark,
     InitMarkWrite, InitDirectory, InitDone, InitGivesUp, InitCut, RestUnchanged,
     InitSteps, Goto, allVars, vars, rvars, files, scan
<1>3. pc[p] = "idle" /\ (queue' # queue => \A q \in Proc : pc[q] \notin QueueSteps)
  <2>1. pc[p] = "idle"
    BY ZenonT(30) DEF RootInv, InitialiserInv, InitStep, InitBegin, InitLock, InitMark,
       InitMarkWrite, InitDirectory, InitDone, InitGivesUp, InitCut, InitSteps
  <2>2. pc[p] \notin QueueSteps
    BY <2>1 DEF QueueSteps, ScanSteps, CreateSteps, CleanupSteps, ReleaseSteps
  <2>3. QED
    BY <1>1, <1>2, <2>1, <2>2, NoProcAssumption, ZenonT(30) DEF Consistent, QueueInv
<1>4. RootTypeOK'
  <2>1. ReconcileTypeOK'
    BY <1>2, ZenonT(30) DEF RootInv, RootTypeOK, ReconcileTypeOK, TypeOK, files, scan,
       rvars, Steps, Actor
  <2>2. cut' \in BOOLEAN
    BY Zenon DEF RootInv, RootTypeOK, InitStep, InitBegin, InitLock, InitMark,
       InitMarkWrite, InitDirectory, InitDone, InitGivesUp, InitCut
  <2>3. marker' \in {"none", "torn", "whole"} /\ dirs' \in 0..3
    BY <1>1 DEF InitStep, InitBegin, InitLock, InitMark, InitMarkWrite, InitDirectory,
       InitDone, InitGivesUp, InitCut
  <2>4. ini' \in [Proc -> InitSteps \cup {"none"}]
    BY <1>1, ZenonT(30) DEF InitStep, InitBegin, InitLock, InitMark, InitMarkWrite,
       InitDirectory, InitDone, InitGivesUp, InitCut, InitSteps, InitGoto
  <2>5. QED
    BY <2>1, <2>2, <2>3, <2>4 DEF RootTypeOK
<1>5. \A q \in Proc : /\ pc'[q] \in ScanSteps <=> pc[q] \in ScanSteps
                      /\ pc'[q] \in QueueSteps <=> pc[q] \in QueueSteps
                      /\ pc'[q] = pc[q] \/ (pc[q] = "idle" /\ pc'[q] = "enter")
  BY <1>1, <1>2 DEF TypeOK, QueueSteps, ScanSteps, CreateSteps, CleanupSteps,
     ReleaseSteps
<1>6. \A q \in Proc : (Queued(q)' <=> Queued(q)) /\ (Admitted(q)' <=> Admitted(q))
  BY <1>2, <1>5, ZenonT(30) DEF Queued, Admitted, DropGuardSteps
<1>7. QueueInv'
  <2>1. queue \in Operator <=> queue' \in Operator
    BY <1>2, NoProcAssumption, ActorsAssumption, ZenonT(30)
  <2>2. QED
    BY <1>1, <1>2, <1>3, <1>5, <2>1, ZenonT(30) DEF Consistent, QueueInv, scan
<1>8. OwnInv' /\ HeartbeatInv' /\ CreateInv'
  <2>1. OwnInv'
    BY <1>1, <1>2, <1>5, ZenonT(30) DEF Consistent, OwnInv, files, ScanSteps
  <2>2. HeartbeatInv'
    BY <1>1, <1>2, <1>5, ZenonT(30) DEF Consistent, HeartbeatInv, files, DropGuardSteps
  <2>3. CreateInv'
    BY <1>1, <1>2, <1>5, ZenonT(30) DEF Consistent, CreateInv, files
  <2>4. QED
    BY <2>1, <2>2, <2>3
<1>9. ScanInv' /\ OwnersUndisturbed'
  BY <1>1, <1>2, <1>5, <1>6, ZenonT(30) DEF Consistent, ScanInv, OwnersUndisturbed,
     files, scan
<1>10. QED
  BY <1>4, <1>7, <1>8, <1>9, ZenonT(30) DEF Consistent

\* Initialisers exclude each other: what one has begun under queue.lock only
\* it goes on with, and a complete directory stays complete.
LEMMA InitialiserHolds ==
  ASSUME RootInv, NEW p \in Proc, InitStep(p)
  PROVE  (\A q \in Proc : InitialiserInv(q)') /\ RootAllOrNothing'
<1> DEFINE Here == /\ pc \in [Proc -> Steps] /\ ini \in [Proc -> InitSteps \cup {"none"}]
                   /\ dirs \in 0..3 /\ marker \in {"none", "torn", "whole"}
                   /\ \A q \in Proc : InitialiserInv(q) /\ q # NoProc
                   /\ RootAllOrNothing
<1>1. Here
  BY NoProcAssumption, ZenonT(30) DEF RootInv, RootTypeOK, ReconcileTypeOK, TypeOK
<1> USE <1>1 DEF InitialiserInv, RootAllOrNothing, Ready, InitGoto, InitSteps
<1>2. CASE InitBegin(p) \/ InitGivesUp(p)
  BY <1>2, ZenonT(30) DEF InitBegin, InitGivesUp, allVars, vars
<1>3. CASE InitLock(p)
  BY <1>3, ZenonT(30) DEF InitLock
<1>4. CASE InitMark(p) \/ InitMarkWrite(p)
  BY <1>4, ZenonT(30) DEF InitMark, InitMarkWrite, allVars, vars
<1>5. CASE InitDirectory(p)
  BY <1>5 DEF InitDirectory, allVars, vars
<1>6. CASE InitDone(p)
  BY <1>6, ZenonT(30) DEF InitDone, Goto
<1>7. CASE InitCut(p)
  BY <1>7, ZenonT(30) DEF InitCut
<1>8. QED
  BY <1>2, <1>3, <1>4, <1>5, <1>6, <1>7, ZenonT(30) DEF InitStep

\* The processes and the commands leave a running initialiser alone, in a
\* directory that somebody else has completed.
LEMMA OthersHold ==
  ASSUME RootInv, Ready, ReconcileNext, UNCHANGED rootVars,
         \A p \in Proc : ini[p] # "none" => pc'[p] = "idle"
  PROVE  (\A q \in Proc : InitialiserInv(q)') /\ RootAllOrNothing'
<1>1. RootAllOrNothing'
  BY ZenonT(30) DEF RootAllOrNothing, Ready, rootVars
<1>2. ASSUME NEW q \in Proc, ini[q] \in {"mark", "markWrite", "dirs"} PROVE queue' = q
  <2>1. queue = q /\ pc[q] = "idle"
    BY <1>2, ZenonT(30) DEF RootInv, InitialiserInv
  <2>2. q # NoProc /\ q \notin Operator
    BY NoProcAssumption, ActorsAssumption, ZenonT(30)
  <2>3. ASSUME NEW p \in Proc, ProcStep(p) PROVE queue' = q
    <3>1. Spares(p)
      BY <2>3, ProcSpares, ZenonT(30) DEF RootInv, RootTypeOK, ReconcileTypeOK, IInv
    <3>2. QED
      BY <2>1, <2>2, <3>1, ZenonT(30) DEF Spares
  <2>4. ASSUME NEW i \in Ids, Expire(i) PROVE queue' = q
    BY <2>1, <2>4, ZenonT(30) DEF Expire, locks
  <2>5. ASSUME NEW o \in Operator, OperatorStep(o) PROVE queue' = q
    <3>1. Gentle(o)
      BY <2>5, OperatorIsGentle, ZenonT(30) DEF RootInv, RootTypeOK
    <3>2. QED
      BY <2>1, <2>2, <3>1, ZenonT(30) DEF Gentle
  <2>6. QED
    BY <2>3, <2>4, <2>5, ZenonT(30) DEF ReconcileNext, Next
<1>3. QED
  BY <1>1, <1>2, ZenonT(30) DEF RootInv, InitialiserInv, rootVars

\* The invariant holds in an absent directory.
LEMMA RootBegins == RootInit => RootInv
<1> SUFFICES ASSUME RootInit PROVE RootInv
  OBVIOUS
<1>1. IInv
  BY InvInit DEF RootInit, ReconcileInit
<1>2. RootTypeOK
  <2>1. ReconcileTypeOK
    BY <1>1, ZenonT(30) DEF RootInit, ReconcileInit, ReconcileTypeOK, IInv, NoReport
  <2>2. cut \in BOOLEAN
    BY Zenon DEF RootInit
  <2>3. /\ marker \in {"none", "torn", "whole"} /\ dirs \in 0..3
        /\ ini \in [Proc -> InitSteps \cup {"none"}]
    BY DEF RootInit
  <2>4. QED
    BY <2>1, <2>2, <2>3 DEF RootTypeOK
<1>3. ASSUME NEW o \in Operator PROVE CommandInv(o)
  BY ZenonT(30) DEF RootInit, ReconcileInit, CommandInv, NoReport, Commanding, Reading,
     Validating, Changing, Eligible
<1>4. (\A p \in Proc : InitialiserInv(p)) /\ RootAllOrNothing
  BY ZenonT(30) DEF RootInit, ReconcileInit, Init, InitialiserInv, RootAllOrNothing
<1>5. QED
  BY <1>1, <1>2, <1>3, <1>4 DEF RootInv, IInv

\* Every step of a process, a command or an initialiser keeps it.
LEMMA RootStep ==
  ASSUME RootInv, [RootNext]_everything
  PROVE  RootInv'
<1>1. /\ ReconcileTypeOK /\ TypeOK /\ Consistent /\ IInv
      /\ \A o \in Operator : CommandInv(o)
  BY ZenonT(30) DEF RootInv, RootTypeOK, ReconcileTypeOK, IInv
<1>2. ASSUME NEW p \in Proc, InitStep(p) PROVE RootInv'
  <2>1. \A o \in Operator : CommandInv(o)'
    BY <1>1, <1>2, InitialisersKeep, CommandKept, ZenonT(30)
  <2>2. QED
    BY <1>2, <2>1, InitialiserSteps, InitialiserHolds DEF RootInv
<1>3. ASSUME Ready, ReconcileNext, UNCHANGED rootVars,
             \A p \in Proc : ini[p] # "none" => pc'[p] = "idle"
      PROVE  RootInv'
  <2>1. (\A q \in Proc : InitialiserInv(q)') /\ RootAllOrNothing'
    BY <1>3, OthersHold, ZenonT(30)
  <2>2. ReconcileTypeOK' => RootTypeOK'
    BY <1>3, ZenonT(30) DEF RootInv, RootTypeOK, rootVars
  <2>3. CASE Next /\ UNCHANGED rvars
    <3>1. TypeOK' /\ Consistent'
      BY <1>1, <2>3, TypeStep, ConsistentStep, ZenonT(30)
    <3>2. ReconcileTypeOK'
      BY <1>1, <2>3, <3>1, ZenonT(30) DEF ReconcileTypeOK, rvars
    <3>3. \A o \in Operator : CommandInv(o)'
      BY <1>1, <2>3, ProcessesKeep, CommandKept, ZenonT(30)
    <3>4. QED
      BY <2>1, <2>2, <3>1, <3>2, <3>3, ZenonT(30) DEF RootInv
  <2>4. ASSUME NEW o \in Operator, OperatorStep(o) PROVE RootInv'
    <3>1. ReconcileTypeOK' /\ Gentle(o)
      BY <1>1, <2>4, OperatorTypes, OperatorIsGentle, ZenonT(30)
    <3>2. Consistent'
      BY <1>1, <3>1, GentleKeepsConsistent, ZenonT(30)
    <3>3. CommandInv(o)'
      BY <1>1, <2>4, CommandHolds
    <3>4. \A r \in Operator \ {o} : CommandInv(r)'
      BY <1>1, <3>1, OperatorsKeep, CommandKept, ZenonT(30)
    <3>5. QED
      BY <2>1, <2>2, <3>1, <3>2, <3>3, <3>4, ZenonT(30) DEF RootInv
  <2>5. QED
    BY <1>3, <2>3, <2>4, ZenonT(30) DEF ReconcileNext
<1>4. CASE UNCHANGED everything
  <2>1. UNCHANGED vars /\ UNCHANGED rvars /\ UNCHANGED rootVars
    BY <1>4, ZenonT(30) DEF everything, allVars
  <2>2. TypeOK' /\ Consistent'
    BY <1>1, <2>1, TypeStep, ConsistentStep
  <2>3. \A o \in Operator : CommandInv(o)'
    BY <1>1, <2>1, ProcessesKeep, CommandKept, ZenonT(30)
  <2>4. RootTypeOK'
    BY <1>1, <2>1, <2>2, ZenonT(30) DEF RootInv, RootTypeOK, ReconcileTypeOK, rvars,
       rootVars
  <2>5. (\A q \in Proc : InitialiserInv(q)') /\ RootAllOrNothing'
    BY <2>1, ZenonT(30) DEF RootInv, InitialiserInv, RootAllOrNothing, Ready, rootVars,
       vars
  <2>6. QED
    BY <2>2, <2>3, <2>4, <2>5, ZenonT(30) DEF RootInv
<1>5. QED
  BY <1>2, <1>3, <1>4, ZenonT(30) DEF RootNext

\* Every reachable state of the directory with its processes, commands and
\* initialisers satisfies the inductive invariant.
LEMMA RootInvariant == RootSpec => []RootInv
BY RootBegins, RootStep, PTL DEF RootSpec

\* However many processes use a new directory at once, none queues, waits or
\* holds the slot before it is complete, and without an interrupted
\* initialisation nobody finds it half made.
THEOREM RootWhole == RootSpec => []RootAllOrNothing
<1>1. RootInv => RootAllOrNothing
  BY DEF RootInv
<1>2. QED
  BY <1>1, RootInvariant, PTL

\* No command takes anything from a live process; once an apply has changed
\* something, all its tickets are abandoned; a ticket that a preview calls
\* eligible is abandoned and stays so.
THEOREM Reconciles == RootSpec => []OnlyAbandoned
<1>1. RootInv => OnlyAbandoned
  <2> SUFFICES ASSUME RootInv PROVE OnlyAbandoned
    OBVIOUS
  <2>1. \A i \in Ids : Abandoned(i) => ~InUse(i)
    BY ZenonT(30) DEF Abandoned, InUse, Uses
  <2>2. \A o \in Operator : chosen[o] \subseteq Ids
    BY ZenonT(30) DEF RootInv, RootTypeOK, ReconcileTypeOK
  <2>3. QED
    BY <2>1, <2>2, ZenonT(30) DEF RootInv, CommandInv, Consistent, OnlyAbandoned
<1>2. QED
  BY <1>1, RootInvariant, PTL

\* Wherever an apply stops, its report tells which tickets were moved and
\* calls none untouched that lost its lease.
THEOREM ReportsTruly == RootSpec => []ReportIsTrue
<1>1. RootInv => ReportIsTrue
  BY ZenonT(30) DEF RootInv, CommandInv, ReportIsTrue
<1>2. QED
  BY <1>1, RootInvariant, PTL

=============================================================================
