---------------------------- MODULE AdmissionProofs ----------------------------
(***************************************************************************)
(* What Admission promises, for every set of processes, every queue limit  *)
(* and every counter range: types and numbers, that nobody's claim is      *)
(* disturbed, the order of admission, the bound of the queue, and that the *)
(* slot is the fair one of FifoSlot.  All of it rests on one inductive     *)
(* invariant, which every step preserves.                                  *)
(***************************************************************************)
EXTENDS Admission, FiniteSetTheorems, TLAPS

\* The time limits of the provers, in seconds.
USE SMTT(40), ZenonT(30)

-----------------------------------------------------------------------------
(* Types.                                                                  *)

\* An initialised, empty admission root has the types of TypeOK.
LEMMA TypeInit == Init => TypeOK
BY CounterAssumption DEF Init, TypeOK, Ids, Actor, Steps

\* Removing a lease or a ticket, with or without success, keeps their types.
LEMMA RemovalTypes ==
  ASSUME TypeOK, NEW i
  PROVE  /\ TryRemoveLease(i) => /\ lease' \in [Ids -> {"none", "torn", "queued", "active"}]
                                 /\ expired' \in SUBSET Ids
         /\ TryRemoveTicket(i) =>
              ticket' \in [Ids -> {"none", "staging", "present", "quarantined"}]
<1>1. CASE i \in Ids
  BY <1>1 DEF TypeOK, TryRemoveLease, TryRemoveTicket
<1>2. CASE i \notin Ids
  BY <1>2 DEF TypeOK, TryRemoveLease, TryRemoveTicket
<1>3. QED
  BY <1>1, <1>2

\* One step per action; none needs more than the types themselves.
LEMMA TypeStep ==
  ASSUME TypeOK, [Next]_vars
  PROVE  TypeOK'
<1> USE CounterAssumption DEF TypeOK, Ids, Actor, Steps, QueueSteps, ScanSteps,
   CreateSteps, CleanupSteps, ReleaseSteps, DropSteps, DropGuardSteps, Goto, files,
   locks, scan
<1>1. ASSUME NEW p \in Proc, Acquire(p) PROVE TypeOK'
  BY <1>1 DEF Acquire
<1>2. ASSUME NEW p \in Proc, EnterFails(p) PROVE TypeOK'
  BY <1>2 DEF EnterFails
<1>3. ASSUME NEW p \in Proc, LockQueue(p) PROVE TypeOK'
  BY <1>3 DEF LockQueue, Entries
<1>4. ASSUME NEW p \in Proc, ScanStep(p) PROVE TypeOK'
  <2>1. CASE ScanDone(p)
    BY <2>1, ZenonT(30) DEF ScanDone
  <2>2. ASSUME NEW i \in Ids, ScanStaging(p, i) PROVE TypeOK'
    BY <2>2 DEF ScanStaging, Scannable, Unscannable, Entries
  <2>3. ASSUME NEW i \in Ids, ScanStale(p, i) PROVE TypeOK'
    BY <2>3 DEF ScanStale, Scannable, Unscannable, Entries, Reclaimable
  <2>4. ASSUME NEW i \in Ids, ScanLive(p, i) PROVE TypeOK'
    BY <2>4 DEF ScanLive, Scannable, Unscannable, Entries, Reclaimable
  <2>5. ASSUME NEW i \in Ids, ScanGone(p, i) PROVE TypeOK'
    BY <2>5 DEF ScanGone, Entries
  <2>6. ASSUME NEW i \in Ids, ScanError(p, i) PROVE TypeOK'
    BY <2>6 DEF ScanError, FailUnderQueue, UnlockStale, ForgetScan, Unscannable,
       Entries
  <2>7. ASSUME NEW i \in Ids, QuarantineStale(p, i) PROVE TypeOK'
    BY <2>7 DEF QuarantineStale, NextStale
  <2>8. ASSUME NEW i \in Ids, RemoveStaleLease(p, i) PROVE TypeOK'
    BY <2>8 DEF RemoveStaleLease, RemoveLease, NextStale
  <2>9. ASSUME NEW i \in Ids, RemoveStaleError(p, i) PROVE TypeOK'
    BY <2>9 DEF RemoveStaleError, FailUnderQueue, UnlockStale, ForgetScan, NextStale
  <2>10. QED
    BY <1>4, <2>1, <2>2, <2>3, <2>4, <2>5, <2>6, <2>7, <2>8, <2>9, ZenonT(30) DEF
       ScanStep
<1>5. ASSUME NEW p \in Proc, CreateStep(p) PROVE TypeOK'
  <2>1. CASE QueueFull(p)
    BY <2>1, ZenonT(30) DEF QueueFull, Admissible, LeaveQueue, ForgetScan
  <2>2. CASE AllocateFails(p)
    BY <2>2 DEF AllocateFails, Admissible, LeaveQueue, ForgetScan
  <2>3. CASE AllocateId(p)
    BY <2>3 DEF AllocateId, ForgetScan, Admissible, IsNextTicketId
  <2>4. CASE CreateStaging(p)
    BY <2>4, Zenon DEF CreateStaging
  <2>5. CASE CreateFails(p)
    BY <2>5 DEF CreateFails
  <2>6. CASE PublishTicket(p)
    BY <2>6, Zenon DEF PublishTicket
  <2>7. CASE OpenLease(p)
    BY <2>7, Zenon DEF OpenLease
  <2>8. CASE WriteLease(p)
    BY <2>8, Zenon DEF WriteLease
  <2>9. CASE LeaseFails(p)
    <3>1. pc' \in [Proc -> Steps] /\ own' \in [Proc -> Ids \cup {0}] /\ queue' \in Actor
      BY <2>9 DEF LeaseFails
    <3>2. ticketLock' \in [Ids -> Actor]
      BY <2>9, Zenon DEF LeaseFails, UnlockTicket
    <3>3. ticket' \in [Ids -> {"none", "staging", "present", "quarantined"}]
      BY <2>9, RemovalTypes DEF LeaseFails
    <3>4. QED
      BY <2>9, <3>1, <3>2, <3>3 DEF LeaseFails
  <2>10. QED
    BY <1>5, <2>1, <2>2, <2>3, <2>4, <2>5, <2>6, <2>7, <2>8, <2>9, ZenonT(30) DEF
       CreateStep
<1>6. ASSUME NEW p \in Proc, WaitStep(p) PROVE TypeOK'
  <2>1. CASE TryLockSlot(p)
    BY <2>1 DEF TryLockSlot, ForgetScan, FirstIsOurs, Decides
  <2>2. CASE KeepWaiting(p)
    BY <2>2 DEF KeepWaiting, ForgetScan, FirstIsOurs, Decides
  <2>3. CASE ActivateLease(p)
    BY <2>3, Zenon DEF ActivateLease
  <2>4. CASE ActivateFails(p)
    BY <2>4 DEF ActivateFails
  <2>5. QED
    BY <1>6, <2>1, <2>2, <2>3, <2>4, ZenonT(30) DEF WaitStep
<1>7. ASSUME NEW p \in Proc, GiveUp(p) PROVE TypeOK'
  BY <1>7 DEF GiveUp
<1>8. ASSUME NEW p \in Proc, QueueLockFails(p) PROVE TypeOK'
  BY <1>8 DEF QueueLockFails
<1>9. ASSUME NEW p \in Proc, GiveUpStep(p) PROVE TypeOK'
  <2>1. CASE CleanupLock(p)
    BY <2>1, ZenonT(30) DEF CleanupLock
  <2>2. CASE CleanupLease(p)
    <3>1. pc' \in [Proc -> Steps] /\ own' \in [Proc -> Ids \cup {0}] /\ queue' \in Actor
      BY <2>2 DEF CleanupLease
    <3>2. ticketLock' \in [Ids -> Actor]
      BY <2>2, Zenon DEF CleanupLease, UnlockTicket
    <3>3. /\ lease' \in [Ids -> {"none", "torn", "queued", "active"}]
         /\ expired' \in SUBSET Ids
      BY <2>2, RemovalTypes DEF CleanupLease
    <3>4. QED
      BY <2>2, <3>1, <3>2, <3>3 DEF CleanupLease
  <2>3. CASE CleanupTicket(p)
    BY <2>3, RemovalTypes DEF CleanupTicket
  <2>4. CASE DropUnlock(p)
    BY <2>4, Zenon DEF DropUnlock, UnlockTicket
  <2>5. CASE DropTicket(p)
    BY <2>5, RemovalTypes DEF DropTicket
  <2>6. CASE DropLease(p)
    BY <2>6, RemovalTypes DEF DropLease
  <2>7. QED
    BY <1>9, <2>1, <2>2, <2>3, <2>4, <2>5, <2>6, ZenonT(30) DEF GiveUpStep
<1>10. ASSUME NEW p \in Proc, HeartbeatStep(p) PROVE TypeOK'
  <2>1. CASE HeartbeatRead(p)
    BY <2>1 DEF HeartbeatRead
  <2>2. CASE HeartbeatWrite(p)
    BY <2>2, Zenon DEF HeartbeatWrite
  <2>3. CASE HeartbeatFails(p)
    BY <2>3 DEF HeartbeatFails
  <2>4. QED
    BY <1>10, <2>1, <2>2, <2>3, ZenonT(30) DEF HeartbeatStep
<1>11. ASSUME NEW p \in Proc, NEW n \in {1, 2}, Release(p, n) PROVE TypeOK'
  BY <1>11 DEF Release
<1>12. ASSUME NEW p \in Proc, ReleaseStep(p) PROVE TypeOK'
  <2>1. CASE ReleaseLock(p)
    BY <2>1 DEF ReleaseLock
  <2>2. CASE ReleaseLockFails(p)
    BY <2>2 DEF ReleaseLockFails
  <2>3. CASE StopHeartbeat(p)
    BY <2>3 DEF StopHeartbeat
  <2>4. CASE ReleaseLease(p)
    BY <2>4, RemovalTypes DEF ReleaseLease
  <2>5. CASE ReleaseTicket(p)
    <3>1. pc' \in [Proc -> Steps] /\ own' \in [Proc -> Ids \cup {0}] /\ pass' \in
       [Proc -> 0..2]
      BY <2>5 DEF ReleaseTicket
    <3>2. slot' \in Actor /\ ticketLock' \in [Ids -> Actor] /\ queue' \in Actor
      BY <2>5, Zenon DEF ReleaseTicket, UnlockTicket
    <3>3. ticket' \in [Ids -> {"none", "staging", "present", "quarantined"}]
      BY <2>5, RemovalTypes DEF ReleaseTicket
    <3>4. QED
      BY <2>5, <3>1, <3>2, <3>3 DEF ReleaseTicket
  <2>6. CASE DropGuardTicket(p)
    BY <2>6, Zenon DEF DropGuardTicket, UnlockTicket
  <2>7. CASE DropGuardSlot(p)
    BY <2>7 DEF DropGuardSlot
  <2>8. CASE DropGuardHeartbeat(p)
    BY <2>8 DEF DropGuardHeartbeat
  <2>9. QED
    BY <1>12, <2>1, <2>2, <2>3, <2>4, <2>5, <2>6, <2>7, <2>8, ZenonT(30) DEF ReleaseStep
<1>13. ASSUME NEW p \in Proc, Crash(p) PROVE TypeOK'
  BY <1>13 DEF Crash
<1>14. ASSUME NEW i \in Ids, Expire(i) PROVE TypeOK'
  BY <1>14 DEF Expire
<1>15. CASE UNCHANGED vars
  BY <1>15 DEF vars
<1>16. QED
  <2> HIDE DEF TypeOK, Ids, Actor, Steps, QueueSteps, ScanSteps, CreateSteps,
     CleanupSteps, ReleaseSteps, DropSteps, DropGuardSteps, Goto, files, locks,
     scan
  <2>1. ASSUME NEW p \in Proc, ProcStep(p) PROVE TypeOK'
    BY <2>1, <1>1, <1>2, <1>3, <1>4, <1>5, <1>6, <1>7, <1>8, <1>9, <1>10, <1>11,
       <1>12, <1>13 DEF ProcStep
  <2>2. QED
    BY <2>1, <1>14, <1>15 DEF Next

\* Every variable keeps its type: in particular the counter and the ticket
\* numbers stay in range because next_ticket_id refuses to overflow.
THEOREM TypeCorrect == Spec => []TypeOK
BY TypeInit, TypeStep, PTL DEF Spec

-----------------------------------------------------------------------------
(* The inductive invariant.                                                *)

\* Steps under the queue lock are taken by its holder, and a scan belongs to a
\* scanner or to an operator that holds the lock.
QueueInv ==
    /\ \A p \in Proc : pc[p] \in QueueSteps => queue = p
    /\ (\A p \in Proc : pc[p] \notin ScanSteps)
         => stale = {} /\ (queue \notin Operator => todo = {} /\ live = {})
    /\ \A p \in Proc : pc[p] \in {"reclaim", "unlease"} => todo = {}

\* Who has a ticket number, and that numbers are unique and below the counter.
OwnInv ==
    /\ \A p \in Proc :
         /\ own[p] < counter
         /\ pc[p] \in {"idle", "enter"} => own[p] = 0
         /\ pc[p] \notin {"idle", "enter"} \cup ScanSteps => own[p] # 0
    /\ \A p, q \in Proc : own[p] = own[q] => p = q \/ own[p] = 0
    /\ \A i \in Ids : ticket[i] # "none" \/ lease[i] # "none" => i < counter

\* The heartbeat thread lives only between activation and the end of the guard.
HeartbeatInv ==
    \A p \in Proc : hb[p] # "none" =>
        pc[p] \in {"hold", "release", "stopHeartbeat"} \cup DropGuardSteps

\* What create_ticket has established so far.
CreateInv ==
    \A p \in Proc :
        /\ pc[p] = "stage" => ticket[own[p]] = "none"
        /\ pc[p] = "publish" => ticket[own[p]] = "staging"
        /\ pc[p] \in {"lease", "leaseWrite"} =>
             ticket[own[p]] = "present" /\ ticketLock[own[p]] = p
        /\ pc[p] = "activate" => slot = p

\* A scan covers every waiting process and marks nobody's ticket stale.
ScanInv ==
    \A p \in Proc :
        /\ Queued(p) /\ (\E q \in Proc : pc[q] \in ScanSteps)
             => own[p] \in todo \cup live
        /\ Queued(p) \/ Admitted(p) => own[p] \notin stale

\* The inductive invariant.
Consistent ==
    /\ QueueInv
    /\ OwnInv
    /\ HeartbeatInv
    /\ CreateInv
    /\ ScanInv
    /\ OwnersUndisturbed

IInv == TypeOK /\ Consistent

\* The inductive invariant holds in an initialised, empty admission root.
LEMMA InvInit == Init => IInv
<1> SUFFICES ASSUME Init PROVE IInv
  OBVIOUS
<1>1. TypeOK
  BY TypeInit
<1>2. QueueInv
  BY NoProcAssumption DEF Init, QueueInv, QueueSteps, ScanSteps, CreateSteps,
     CleanupSteps, ReleaseSteps
<1>3. OwnInv /\ HeartbeatInv /\ CreateInv
  BY DEF Init, OwnInv, HeartbeatInv, CreateInv
<1>4. ScanInv /\ OwnersUndisturbed
  BY DEF Init, ScanInv, OwnersUndisturbed, Queued, Admitted, ScanSteps
<1>5. QED
  BY <1>1, <1>2, <1>3, <1>4 DEF IInv, Consistent

\* What the invariant says of one process outside a scan.
Sound(p) ==
    /\ pc[p] \in QueueSteps => queue = p
    /\ pc[p] \in {"idle", "enter"} <=> own[p] = 0
    /\ hb[p] # "none" =>
         pc[p] \in {"hold", "release", "stopHeartbeat"} \cup DropGuardSteps
    /\ pc[p] = "stage" => ticket[own[p]] = "none"
    /\ pc[p] = "publish" => ticket[own[p]] = "staging"
    /\ pc[p] \in {"lease", "leaseWrite"} \/ Queued(p) \/ Admitted(p) =>
         ticket[own[p]] = "present" /\ ticketLock[own[p]] = p
    /\ Queued(p) => lease[own[p]] = "queued"
    /\ Admitted(p) => lease[own[p]] = "active"
    /\ pc[p] = "activate" \/ Admitted(p) => slot = p

\* It follows from the invariant.
LEMMA SoundNow ==
  ASSUME TypeOK, Consistent, NEW p \in Proc, pc[p] \notin ScanSteps
  PROVE  Sound(p)
BY DEF TypeOK, Consistent, Sound, QueueInv, OwnInv, HeartbeatInv, CreateInv,
   OwnersUndisturbed, Queued, Admitted, ScanSteps

\* A process with a heartbeat thread does not scan.
LEMMA HeartbeatIsHeld ==
  ASSUME Consistent, NEW p \in Proc, hb[p] # "none"
  PROVE  pc[p] \notin ScanSteps
BY ZenonT(30) DEF Consistent, HeartbeatInv, ScanSteps, DropGuardSteps

\* A step in which p, which has a ticket and does not scan, changes nothing
\* but what is its own: its program point, its ticket's files and locks.
Private(p) ==
    /\ pc[p] \notin ScanSteps /\ pc'[p] \notin ScanSteps
    /\ own[p] # 0 /\ own'[p] \in {own[p], 0}
    /\ \A q \in Proc \ {p} : pc'[q] = pc[q] /\ own'[q] = own[q] /\ hb'[q] = hb[q]
    /\ \A i \in Ids \ {own[p]} :
         ticket'[i] = ticket[i] /\ lease'[i] = lease[i] /\ ticketLock'[i] = ticketLock[i]
    /\ slot' = slot \/ slot = p
    /\ queue' = queue \/ (queue \in {p, NoProc} /\ queue' \in {p, NoProc})
    /\ UNCHANGED <<todo, live, stale, counter>>
    /\ Queued(p)' => Queued(p) \/ queue = p
    /\ Admitted(p)' => Queued(p) \/ Admitted(p)

\* Ticket numbers are unique, so a private step concerns no other process:
\* what p does to its own ticket in create_ticket, cleanup, drop, the
\* heartbeat and release leaves the others' part of the invariant alone.
LEMMA PrivateStep ==
  ASSUME TypeOK, Consistent, NEW p \in Proc, Private(p), Sound(p)'
  PROVE  Consistent'
<1> USE DEF Private, Sound, Consistent, TypeOK, Ids
<1>1. \A q \in Proc \ {p} : own[q] # own[p] /\ own'[q] = own[q]
  BY DEF OwnInv
<1>2. \A q \in Proc \ {p} : Queued(q)' = Queued(q) /\ Admitted(q)' = Admitted(q)
  BY <1>1 DEF Queued, Admitted
<1>3. QueueInv'
  <2>1. \A q \in Proc : pc'[q] \in QueueSteps => queue' = q
    BY NoProcAssumption DEF QueueInv
  <2>2. queue \in Operator => queue' = queue
    BY NoProcAssumption, ActorsAssumption
  <2>3. \A q \in Proc : pc'[q] \in ScanSteps <=> pc[q] \in ScanSteps
    OBVIOUS
  <2>4. (\A q \in Proc : pc'[q] \notin ScanSteps)
          => stale' = {} /\ (queue' \notin Operator => todo' = {} /\ live' = {})
    BY <2>2, <2>3 DEF QueueInv
  <2>5. \A q \in Proc : pc'[q] \in {"reclaim", "unlease"} => todo' = {}
    BY ZenonT(30) DEF QueueInv, ScanSteps
  <2>6. QED
    BY <2>1, <2>4, <2>5, ZenonT(30) DEF QueueInv
<1>4. OwnInv'
  <2>1. \A q \in Proc : own'[q] < counter' /\ own'[q] \in {own[q], 0}
    BY DEF OwnInv
  <2>2. \A q, r \in Proc : own'[q] = own'[r] => q = r \/ own'[q] = 0
    BY <1>1, <2>1 DEF OwnInv
  <2>3. \A i \in Ids : ticket'[i] # "none" \/ lease'[i] # "none" => i < counter'
    BY DEF OwnInv
  <2>4. QED
    BY <2>1, <2>2, <2>3 DEF OwnInv, ScanSteps
<1>5. HeartbeatInv'
  BY DEF HeartbeatInv
<1>6. \A q \in Proc \ {p} : own[q] # 0 =>
        /\ ticket'[own'[q]] = ticket[own[q]] /\ lease'[own'[q]] = lease[own[q]]
        /\ ticketLock'[own'[q]] = ticketLock[own[q]]
  BY <1>1
<1>7. CreateInv'
  <2>1. \A q \in Proc \ {p} : pc[q] \in CreateSteps => own[q] # 0
    BY ZenonT(30) DEF OwnInv, ScanSteps, CreateSteps
  <2>2. QED
    BY <1>6, <2>1 DEF CreateInv, CreateSteps
<1>8. (\E q \in Proc : pc[q] \in ScanSteps)' => \E q \in Proc : pc[q] \in ScanSteps
  OBVIOUS
<1>9. queue = p => todo = {} /\ live = {} /\ stale = {} /\ \A q \in Proc : pc[q] \notin ScanSteps
  <2>1. ASSUME queue = p PROVE \A q \in Proc : pc[q] \notin ScanSteps
    BY <2>1, ZenonT(30) DEF QueueInv, QueueSteps
  <2>2. QED
    BY <2>1, ActorsAssumption DEF QueueInv
<1>10. ScanInv'
  <2>1. \A q \in Proc : Queued(q)' \/ Admitted(q)' => own'[q] = own[q]
    BY DEF Queued, Admitted, ScanSteps, DropGuardSteps
  <2>2. QED
    BY <1>2, <1>8, <1>9, <2>1 DEF ScanInv
<1>11. OwnersUndisturbed'
  <2>1. \A q \in Proc \ {p} : Queued(q) \/ Admitted(q) => own[q] # 0
    BY ZenonT(30) DEF Queued, Admitted, OwnInv, HeartbeatInv, ScanSteps, DropGuardSteps
  <2>2. QED
    BY <1>2, <1>6, <2>1 DEF OwnersUndisturbed
<1>12. QED
  BY <1>3, <1>4, <1>5, <1>7, <1>10, <1>11, ZenonT(30)

\* An error in the scan: only the scan and the locks it took are given up.
LEMMA FailUnderQueueInv ==
  ASSUME TypeOK, Consistent, NEW p \in Proc, pc[p] \in ScanSteps, FailUnderQueue(p),
         UNCHANGED <<own, pass, hb, files, slot, counter>>
  PROVE  Consistent'
<1> USE DEF FailUnderQueue, UnlockStale, ForgetScan, Goto, files, Consistent, TypeOK
<1>1. queue = p /\ \A q \in Proc : q # p => pc[q] \notin QueueSteps
  BY DEF QueueInv, QueueSteps
<1>2. QueueInv'
  BY <1>1, NoProcAssumption DEF QueueInv, Steps, QueueSteps, ScanSteps, CreateSteps,
     CleanupSteps, ReleaseSteps, DropSteps, DropGuardSteps
<1>3. OwnInv' /\ HeartbeatInv'
  BY DEF OwnInv, HeartbeatInv, ScanSteps, DropGuardSteps
<1>4. CreateInv'
  BY <1>1 DEF CreateInv, Steps, QueueSteps, ScanSteps, CreateSteps, CleanupSteps,
     ReleaseSteps, DropSteps, DropGuardSteps
<1>5. ScanInv'
  BY <1>1 DEF ScanInv, Queued, Admitted, Steps, QueueSteps, ScanSteps, CreateSteps,
     CleanupSteps, ReleaseSteps, DropSteps, DropGuardSteps
<1>6. \A q \in Proc : (Queued(q)' => Queued(q)) /\ (Admitted(q)' => Admitted(q))
  BY DEF Queued, Admitted, HeartbeatInv, ScanSteps, DropGuardSteps
<1>7. \A q \in Proc : Queued(q) \/ Admitted(q) => own[q] \in Ids /\ own[q] \notin
   stale
  BY DEF Queued, Admitted, OwnInv, ScanInv, HeartbeatInv, ScanSteps, DropGuardSteps
<1>8. OwnersUndisturbed'
  BY <1>6, <1>7 DEF OwnersUndisturbed
<1>9. QED
  BY <1>2, <1>3, <1>4, <1>5, <1>8

\* scan_tickets and remove_stale touch only tickets that nobody holds: the scan
\* covers every waiting process and reclaims none of their tickets.
LEMMA ScanKeeps ==
  ASSUME TypeOK, Consistent, NEW p \in Proc, ScanStep(p)
  PROVE  Consistent'
<1> USE DEF Goto, files, locks, scan, TypeOK
<1>1. CASE ScanDone(p)
  BY <1>1, NoProcAssumption, CounterAssumption DEF Consistent, Ids, ScanDone, QueueInv,
     OwnInv, HeartbeatInv, CreateInv, ScanInv, OwnersUndisturbed, Queued, Admitted,
     Steps, QueueSteps, ScanSteps, CreateSteps, CleanupSteps, ReleaseSteps, DropSteps,
     DropGuardSteps
<1>2. ASSUME NEW i \in Ids, ScanStaging(p, i) PROVE Consistent'
  BY <1>2, NoProcAssumption, CounterAssumption DEF Consistent, Ids, ScanStaging,
     Scannable, Unscannable, Entries, QueueInv, OwnInv, HeartbeatInv, CreateInv,
     ScanInv, OwnersUndisturbed, Queued, Admitted, Steps, QueueSteps, ScanSteps,
     CreateSteps, CleanupSteps, ReleaseSteps, DropSteps, DropGuardSteps
<1>3. ASSUME NEW i \in Ids, ScanStale(p, i) PROVE Consistent'
  BY <1>3, NoProcAssumption, CounterAssumption DEF Consistent, Ids, ScanStale,
     Scannable, Unscannable, Entries, Reclaimable, QueueInv, OwnInv, HeartbeatInv,
     CreateInv, ScanInv, OwnersUndisturbed, Queued, Admitted, Steps, QueueSteps,
     ScanSteps, CreateSteps, CleanupSteps, ReleaseSteps, DropSteps, DropGuardSteps
<1>4. ASSUME NEW i \in Ids, ScanLive(p, i) PROVE Consistent'
  BY <1>4, NoProcAssumption, CounterAssumption DEF Consistent, Ids, ScanLive, Scannable,
     Unscannable, Entries, Reclaimable, QueueInv, OwnInv, HeartbeatInv, CreateInv,
     ScanInv, OwnersUndisturbed, Queued, Admitted, Steps, QueueSteps, ScanSteps,
     CreateSteps, CleanupSteps, ReleaseSteps, DropSteps, DropGuardSteps
<1>5. ASSUME NEW i \in Ids, ScanGone(p, i) PROVE Consistent'
  BY <1>5, NoProcAssumption, CounterAssumption DEF Consistent, Ids, ScanGone, Entries,
     QueueInv, OwnInv, HeartbeatInv, CreateInv, ScanInv, OwnersUndisturbed, Queued,
     Admitted, Steps, QueueSteps, ScanSteps, CreateSteps, CleanupSteps, ReleaseSteps,
     DropSteps, DropGuardSteps
<1>6. ASSUME NEW i \in Ids, ScanError(p, i) PROVE Consistent'
  BY <1>6, FailUnderQueueInv, ZenonT(30) DEF ScanError, ScanSteps
<1>7. ASSUME NEW i \in Ids, QuarantineStale(p, i) PROVE Consistent'
  BY <1>7, NoProcAssumption, CounterAssumption DEF Consistent, Ids, QuarantineStale,
     NextStale, QueueInv, OwnInv, HeartbeatInv, CreateInv, ScanInv, OwnersUndisturbed,
     Queued, Admitted, Steps, QueueSteps, ScanSteps, CreateSteps, CleanupSteps,
     ReleaseSteps, DropSteps, DropGuardSteps
<1>8. ASSUME NEW i \in Ids, RemoveStaleLease(p, i) PROVE Consistent'
  BY <1>8, NoProcAssumption, CounterAssumption DEF Consistent, Ids, RemoveStaleLease,
     RemoveLease, NextStale, QueueInv, OwnInv, HeartbeatInv, CreateInv, ScanInv,
     OwnersUndisturbed, Queued, Admitted, Steps, QueueSteps, ScanSteps, CreateSteps,
     CleanupSteps, ReleaseSteps, DropSteps, DropGuardSteps
<1>9. ASSUME NEW i \in Ids, RemoveStaleError(p, i) PROVE Consistent'
  BY <1>9, FailUnderQueueInv, ZenonT(30) DEF RemoveStaleError, ScanSteps
<1>10. QED
  BY <1>1, <1>2, <1>3, <1>4, <1>5, <1>6, <1>7, <1>8, <1>9, ZenonT(30) DEF ScanStep

\* next_ticket_id hands out a number above every other, and create_ticket works
\* on that number alone.
LEMMA CreateKeeps ==
  ASSUME TypeOK, Consistent, NEW p \in Proc, CreateStep(p)
  PROVE  Consistent'
<1>a. pc[p] \notin ScanSteps => Sound(p)
  BY SoundNow
<1> USE DEF Goto, files, locks, scan, TypeOK
<1>1. CASE QueueFull(p)
  BY <1>1, NoProcAssumption, CounterAssumption DEF Consistent, Ids, QueueFull,
     Admissible, LeaveQueue, ForgetScan, QueueInv, OwnInv, HeartbeatInv, CreateInv,
     ScanInv, OwnersUndisturbed, Queued, Admitted, Steps, QueueSteps, ScanSteps,
     CreateSteps, CleanupSteps, ReleaseSteps, DropSteps, DropGuardSteps
<1>2. CASE AllocateFails(p)
  BY <1>2, NoProcAssumption, CounterAssumption DEF Consistent, Ids, AllocateFails,
     Admissible, LeaveQueue, ForgetScan, QueueInv, OwnInv, HeartbeatInv, CreateInv,
     ScanInv, OwnersUndisturbed, Queued, Admitted, Steps, QueueSteps, ScanSteps,
     CreateSteps, CleanupSteps, ReleaseSteps, DropSteps, DropGuardSteps
<1>3. CASE AllocateId(p)
  BY <1>3, NoProcAssumption, CounterAssumption DEF Consistent, Ids, AllocateId,
     ForgetScan, Admissible, IsNextTicketId, QueueInv, OwnInv, HeartbeatInv, CreateInv,
     ScanInv, OwnersUndisturbed, Queued, Admitted, Steps, QueueSteps, ScanSteps,
     CreateSteps, CleanupSteps, ReleaseSteps, DropSteps, DropGuardSteps
<1>4. CASE CreateStaging(p)
  <2> USE <1>4 DEF CreateStaging
  <2>1. Sound(p)
    BY <1>a, ZenonT(30) DEF ScanSteps
  <2>2. Private(p)
    BY <2>1, NoProcAssumption, ZenonT(30) DEF Private, Sound, Queued, Admitted,
       QueueSteps, ScanSteps, CreateSteps, CleanupSteps, ReleaseSteps, DropGuardSteps
  <2>3. Sound(p)'
    BY <2>1, NoProcAssumption, ZenonT(30) DEF Sound, Queued, Admitted, QueueSteps,
       ScanSteps, CreateSteps, CleanupSteps, ReleaseSteps, DropGuardSteps
  <2>4. QED
    BY <2>2, <2>3, PrivateStep, ZenonT(30)
<1>5. CASE CreateFails(p)
  <2> USE <1>5 DEF CreateFails
  <2>1. Sound(p)
    BY <1>a, ZenonT(30) DEF ScanSteps
  <2>2. Private(p)
    BY <2>1, NoProcAssumption DEF Private, Sound, Queued, Admitted, QueueSteps,
       ScanSteps, CreateSteps, CleanupSteps, ReleaseSteps, DropGuardSteps
  <2>3. Sound(p)'
    BY <2>1, NoProcAssumption, ZenonT(30) DEF Sound, Queued, Admitted, QueueSteps,
       ScanSteps, CreateSteps, CleanupSteps, ReleaseSteps, DropGuardSteps
  <2>4. QED
    BY <2>2, <2>3, PrivateStep
<1>6. CASE PublishTicket(p)
  <2> USE <1>6 DEF PublishTicket
  <2>1. Sound(p)
    BY <1>a, ZenonT(30) DEF ScanSteps
  <2>2. Private(p)
    BY <2>1, NoProcAssumption DEF Private, Sound, Queued, Admitted, QueueSteps,
       ScanSteps, CreateSteps, CleanupSteps, ReleaseSteps, DropGuardSteps
  <2>3. Sound(p)'
    BY <2>1, NoProcAssumption DEF Sound, Queued, Admitted, QueueSteps, ScanSteps,
       CreateSteps, CleanupSteps, ReleaseSteps, DropGuardSteps
  <2>4. QED
    BY <2>2, <2>3, PrivateStep
<1>7. CASE OpenLease(p)
  <2> USE <1>7 DEF OpenLease
  <2>1. Sound(p)
    BY <1>a, ZenonT(30) DEF ScanSteps
  <2>2. Private(p)
    BY <2>1, NoProcAssumption, ZenonT(30) DEF Private, Sound, Queued, Admitted,
       QueueSteps, ScanSteps, CreateSteps, CleanupSteps, ReleaseSteps, DropGuardSteps
  <2>3. Sound(p)'
    BY <2>1, NoProcAssumption, ZenonT(30) DEF Sound, Queued, Admitted, QueueSteps,
       ScanSteps, CreateSteps, CleanupSteps, ReleaseSteps, DropGuardSteps
  <2>4. QED
    BY <2>2, <2>3, PrivateStep
<1>8. CASE WriteLease(p)
  <2> USE <1>8 DEF WriteLease
  <2>1. Sound(p)
    BY <1>a, ZenonT(30) DEF ScanSteps
  <2>2. Private(p)
    BY <2>1, NoProcAssumption, ZenonT(30) DEF Private, Sound, Queued, Admitted,
       QueueSteps, ScanSteps, CreateSteps, CleanupSteps, ReleaseSteps, DropGuardSteps
  <2>3. Sound(p)'
    BY <2>1, NoProcAssumption, ZenonT(30) DEF Sound, Queued, Admitted, QueueSteps,
       ScanSteps, CreateSteps, CleanupSteps, ReleaseSteps, DropGuardSteps
  <2>4. QED
    BY <2>2, <2>3, PrivateStep
<1>9. CASE LeaseFails(p)
  <2> USE <1>9 DEF LeaseFails, TryRemoveTicket, UnlockTicket
  <2>1. Sound(p)
    BY <1>a, ZenonT(30) DEF ScanSteps
  <2>2. Private(p)
    BY <2>1, NoProcAssumption, ZenonT(30) DEF Private, Sound, Queued, Admitted,
       QueueSteps, ScanSteps, CreateSteps, CleanupSteps, ReleaseSteps, DropGuardSteps
  <2>3. Sound(p)'
    BY <2>1, NoProcAssumption, ZenonT(30) DEF Sound, Queued, Admitted, QueueSteps,
       ScanSteps, CreateSteps, CleanupSteps, ReleaseSteps, DropGuardSteps
  <2>4. QED
    BY <2>2, <2>3, PrivateStep, ZenonT(30)
<1>10. QED
  BY <1>1, <1>2, <1>3, <1>4, <1>5, <1>6, <1>7, <1>8, <1>9 DEF CreateStep

\* The end of a scan of a waiting process: it takes the slot, waits on, or
\* activates its lease.
LEMMA WaitKeeps ==
  ASSUME TypeOK, Consistent, NEW p \in Proc, WaitStep(p)
  PROVE  Consistent'
<1>a. pc[p] \notin ScanSteps => Sound(p)
  BY SoundNow
<1> USE DEF Goto, files, locks, scan, TypeOK
<1>1. CASE TryLockSlot(p)
  <2> USE <1>1 DEF TryLockSlot, ForgetScan, Decides
  <2>1. QueueInv'
    BY NoProcAssumption, ZenonT(30) DEF Consistent, QueueInv, QueueSteps, ScanSteps,
       CreateSteps, CleanupSteps, ReleaseSteps
  <2>2. OwnInv'
    BY DEF Consistent, OwnInv, QueueInv, Queued, Admitted, QueueSteps, ScanSteps,
       CreateSteps, CleanupSteps, ReleaseSteps, DropSteps, DropGuardSteps
  <2>3. HeartbeatInv'
    BY DEF Consistent, HeartbeatInv, OwnInv, QueueSteps, ScanSteps, CreateSteps,
       CleanupSteps, ReleaseSteps, DropSteps, DropGuardSteps
  <2>4. CreateInv'
    BY DEF Consistent, CreateInv, QueueInv, QueueSteps, ScanSteps, CreateSteps
  <2>5. ScanInv'
    BY DEF Consistent, ScanInv, QueueInv, Queued, Admitted, QueueSteps, ScanSteps,
       CreateSteps
  <2>6. OwnersUndisturbed'
    BY NoProcAssumption DEF Consistent, OwnersUndisturbed, HeartbeatInv, Queued,
       Admitted, ScanSteps, DropGuardSteps
  <2>7. QED
    BY <2>1, <2>2, <2>3, <2>4, <2>5, <2>6, Zenon DEF Consistent
<1>2. CASE KeepWaiting(p)
  <2> USE <1>2 DEF KeepWaiting, ForgetScan, Decides
  <2>1. QueueInv'
    BY NoProcAssumption DEF Consistent, QueueInv, QueueSteps, ScanSteps, CreateSteps,
       CleanupSteps, ReleaseSteps
  <2>2. OwnInv'
    BY DEF Consistent, OwnInv, QueueInv, Queued, Admitted, QueueSteps, ScanSteps,
       CreateSteps, CleanupSteps, ReleaseSteps, DropSteps, DropGuardSteps
  <2>3. HeartbeatInv'
    BY DEF Consistent, HeartbeatInv, OwnInv, QueueSteps, ScanSteps, CreateSteps,
       CleanupSteps, ReleaseSteps, DropSteps, DropGuardSteps
  <2>4. CreateInv'
    BY DEF Consistent, CreateInv, QueueInv, QueueSteps, ScanSteps, CreateSteps
  <2>5. ScanInv'
    BY DEF Consistent, ScanInv, QueueInv, Queued, Admitted, QueueSteps, ScanSteps,
       CreateSteps
  <2>6. OwnersUndisturbed'
    BY NoProcAssumption DEF Consistent, OwnersUndisturbed, HeartbeatInv, Queued,
       Admitted, ScanSteps, DropGuardSteps
  <2>7. QED
    BY <2>1, <2>2, <2>3, <2>4, <2>5, <2>6, Zenon DEF Consistent
<1>3. CASE ActivateLease(p)
  <2> USE <1>3 DEF ActivateLease
  <2>1. Sound(p)
    BY <1>a, ZenonT(30) DEF ScanSteps
  <2>2. Private(p)
    BY <2>1, NoProcAssumption, ZenonT(30) DEF Private, Sound, Queued, Admitted,
       QueueSteps, ScanSteps, CreateSteps, CleanupSteps, ReleaseSteps, DropGuardSteps
  <2>3. Sound(p)'
    BY <2>1, NoProcAssumption, ZenonT(30) DEF Sound, Queued, Admitted, QueueSteps,
       ScanSteps, CreateSteps, CleanupSteps, ReleaseSteps, DropGuardSteps
  <2>4. QED
    BY <2>2, <2>3, PrivateStep
<1>4. CASE ActivateFails(p)
  <2> USE <1>4 DEF ActivateFails
  <2>1. Sound(p)
    BY <1>a, ZenonT(30) DEF ScanSteps
  <2>2. Private(p)
    BY <2>1, NoProcAssumption, ZenonT(30) DEF Private, Sound, Queued, Admitted,
       QueueSteps, ScanSteps, CreateSteps, CleanupSteps, ReleaseSteps, DropGuardSteps
  <2>3. Sound(p)'
    BY <2>1, NoProcAssumption, ZenonT(30) DEF Sound, Queued, Admitted, QueueSteps,
       ScanSteps, CreateSteps, CleanupSteps, ReleaseSteps, DropGuardSteps
  <2>4. QED
    BY <2>2, <2>3, PrivateStep, ZenonT(30)
<1>5. QED
  BY <1>1, <1>2, <1>3, <1>4 DEF WaitStep

\* cleanup and drop dismantle the ticket of their own process only.
LEMMA GiveUpKeeps ==
  ASSUME TypeOK, Consistent, NEW p \in Proc, GiveUpStep(p)
  PROVE  Consistent'
<1>a. pc[p] \notin ScanSteps => Sound(p)
  BY SoundNow
<1> USE DEF Goto, files, locks, scan, TypeOK
<1>1. CASE CleanupLock(p)
  <2> USE <1>1 DEF CleanupLock
  <2>1. Sound(p)
    BY <1>a, ZenonT(30) DEF ScanSteps
  <2>2. Private(p)
    BY <2>1, NoProcAssumption DEF Private, Sound, Queued, Admitted, QueueSteps,
       ScanSteps, CreateSteps, CleanupSteps, ReleaseSteps, DropGuardSteps
  <2>3. Sound(p)'
    BY <2>1, NoProcAssumption, ZenonT(30) DEF Sound, Queued, Admitted, QueueSteps,
       ScanSteps, CreateSteps, CleanupSteps, ReleaseSteps, DropGuardSteps
  <2>4. QED
    BY <2>2, <2>3, PrivateStep
<1>2. CASE CleanupLease(p)
  <2> USE <1>2 DEF CleanupLease, TryRemoveLease, UnlockTicket
  <2>1. Sound(p)
    BY <1>a, ZenonT(30) DEF ScanSteps
  <2>2. Private(p)
    BY <2>1, NoProcAssumption DEF Private, Sound, Queued, Admitted, QueueSteps,
       ScanSteps, CreateSteps, CleanupSteps, ReleaseSteps, DropGuardSteps
  <2>3. Sound(p)'
    BY <2>1, NoProcAssumption, ZenonT(30) DEF Sound, Queued, Admitted, QueueSteps,
       ScanSteps, CreateSteps, CleanupSteps, ReleaseSteps, DropGuardSteps
  <2>4. QED
    BY <2>2, <2>3, PrivateStep
<1>3. CASE CleanupTicket(p)
  <2> USE <1>3 DEF CleanupTicket, TryRemoveTicket
  <2>1. Sound(p)
    BY <1>a, ZenonT(30) DEF ScanSteps
  <2>2. Private(p)
    BY <2>1, NoProcAssumption DEF Private, Sound, Queued, Admitted, QueueSteps,
       ScanSteps, CreateSteps, CleanupSteps, ReleaseSteps, DropGuardSteps
  <2>3. Sound(p)'
    BY <2>1, NoProcAssumption, ZenonT(30) DEF Sound, Queued, Admitted, QueueSteps,
       ScanSteps, CreateSteps, CleanupSteps, ReleaseSteps, DropGuardSteps
  <2>4. QED
    BY <2>2, <2>3, PrivateStep, ZenonT(30)
<1>4. CASE DropUnlock(p)
  <2> USE <1>4 DEF DropUnlock, UnlockTicket
  <2>1. Sound(p)
    BY <1>a, ZenonT(30) DEF ScanSteps
  <2>2. Private(p)
    BY <2>1, NoProcAssumption, ZenonT(30) DEF Private, Sound, Queued, Admitted,
       QueueSteps, ScanSteps, CreateSteps, CleanupSteps, ReleaseSteps, DropGuardSteps
  <2>3. Sound(p)'
    BY <2>1, NoProcAssumption, ZenonT(30) DEF Sound, Queued, Admitted, QueueSteps,
       ScanSteps, CreateSteps, CleanupSteps, ReleaseSteps, DropGuardSteps
  <2>4. QED
    BY <2>2, <2>3, PrivateStep
<1>5. CASE DropTicket(p)
  <2> USE <1>5 DEF DropTicket, TryRemoveTicket
  <2>1. Sound(p)
    BY <1>a, ZenonT(30) DEF ScanSteps
  <2>2. Private(p)
    BY <2>1, NoProcAssumption DEF Private, Sound, Queued, Admitted, QueueSteps,
       ScanSteps, CreateSteps, CleanupSteps, ReleaseSteps, DropGuardSteps
  <2>3. Sound(p)'
    BY <2>1, NoProcAssumption, ZenonT(30) DEF Sound, Queued, Admitted, QueueSteps,
       ScanSteps, CreateSteps, CleanupSteps, ReleaseSteps, DropGuardSteps
  <2>4. QED
    BY <2>2, <2>3, PrivateStep, ZenonT(30)
<1>6. CASE DropLease(p)
  <2> USE <1>6 DEF DropLease, TryRemoveLease
  <2>1. Sound(p)
    BY <1>a, ZenonT(30) DEF ScanSteps
  <2>2. Private(p)
    BY <2>1, NoProcAssumption DEF Private, Sound, Queued, Admitted, QueueSteps,
       ScanSteps, CreateSteps, CleanupSteps, ReleaseSteps, DropGuardSteps
  <2>3. Sound(p)'
    BY <2>1, NoProcAssumption, ZenonT(30) DEF Sound, Queued, Admitted, QueueSteps,
       ScanSteps, CreateSteps, CleanupSteps, ReleaseSteps, DropGuardSteps
  <2>4. QED
    BY <2>2, <2>3, PrivateStep, ZenonT(30)
<1>7. QED
  BY <1>1, <1>2, <1>3, <1>4, <1>5, <1>6 DEF GiveUpStep

\* One step per action.  The actions that change files or locks of their own
\* ticket rest on the uniqueness of ticket numbers: no other process is
\* concerned.
LEMMA ConsistentStep ==
  ASSUME TypeOK, Consistent, [Next]_vars
  PROVE  Consistent'
<1>a. \A p \in Proc : pc[p] \notin ScanSteps => Sound(p)
  BY SoundNow, ZenonT(30)
<1>b. \A p \in Proc : hb[p] # "none" => Sound(p)
  BY <1>a, HeartbeatIsHeld
<1> USE DEF Goto, files, locks, scan, TypeOK
<1>1. ASSUME NEW p \in Proc, Acquire(p) PROVE Consistent'
  <2> USE <1>1 DEF Acquire
  <2>1. QueueInv'
    BY NoProcAssumption, ZenonT(30) DEF Consistent, QueueInv, QueueSteps,
       ScanSteps, CreateSteps, CleanupSteps, ReleaseSteps
  <2>2. OwnInv' /\ HeartbeatInv'
    BY DEF Consistent, OwnInv, HeartbeatInv, ScanSteps, DropGuardSteps
  <2>3. CreateInv'
    BY ZenonT(30) DEF Consistent, CreateInv, QueueSteps, ScanSteps, CreateSteps
  <2>4. \A q \in Proc : (Queued(q)' => Queued(q)) /\ (Admitted(q)' => Admitted(q))
    BY DEF Consistent, Queued, Admitted, OwnInv, HeartbeatInv, ScanSteps,
       DropGuardSteps
  <2>5. ScanInv'
    BY <2>4 DEF Consistent, ScanInv, ScanSteps
  <2>6. OwnersUndisturbed'
    BY <2>4 DEF Consistent, OwnersUndisturbed
  <2>7. QED
    BY <2>1, <2>2, <2>3, <2>5, <2>6, Zenon DEF Consistent
<1>2. ASSUME NEW p \in Proc, EnterFails(p) PROVE Consistent'
  <2> USE <1>2 DEF EnterFails
  <2>1. QueueInv'
    BY NoProcAssumption, ZenonT(30) DEF Consistent, QueueInv, QueueSteps,
       ScanSteps, CreateSteps, CleanupSteps, ReleaseSteps
  <2>2. OwnInv' /\ HeartbeatInv'
    BY DEF Consistent, OwnInv, HeartbeatInv, ScanSteps, DropGuardSteps
  <2>3. CreateInv'
    BY ZenonT(30) DEF Consistent, CreateInv, QueueSteps, ScanSteps, CreateSteps
  <2>4. \A q \in Proc : (Queued(q)' => Queued(q)) /\ (Admitted(q)' => Admitted(q))
    BY DEF Consistent, Queued, Admitted, OwnInv, HeartbeatInv, ScanSteps,
       DropGuardSteps
  <2>5. ScanInv'
    BY <2>4 DEF Consistent, ScanInv, ScanSteps
  <2>6. OwnersUndisturbed'
    BY <2>4 DEF Consistent, OwnersUndisturbed
  <2>7. QED
    BY <2>1, <2>2, <2>3, <2>5, <2>6, Zenon DEF Consistent
<1>3. ASSUME NEW p \in Proc, LockQueue(p) PROVE Consistent'
  <2> USE <1>3 DEF LockQueue, Entries
  <2>1. todo = {} /\ live = {} /\ stale = {} /\ \A q \in Proc : pc[q] \notin
     QueueSteps
    BY NoProcAssumption, ZenonT(30) DEF Consistent, QueueInv, QueueSteps
  <2>2. QueueInv'
    BY <2>1, NoProcAssumption, ZenonT(30) DEF Consistent, QueueInv, Steps, QueueSteps,
       ScanSteps, CreateSteps, CleanupSteps, ReleaseSteps, DropSteps, DropGuardSteps
  <2>3. OwnInv' /\ HeartbeatInv'
    BY DEF Consistent, OwnInv, HeartbeatInv, ScanSteps, DropGuardSteps
  <2>4. CreateInv'
    BY <2>1, ZenonT(30) DEF Consistent, CreateInv, Steps, QueueSteps, ScanSteps,
       CreateSteps, CleanupSteps, ReleaseSteps, DropSteps, DropGuardSteps
  <2>5. \A q \in Proc : (Queued(q)' => Queued(q)) /\ (Admitted(q)' => Admitted(q))
    BY ZenonT(30) DEF Consistent, Queued, Admitted, OwnInv, HeartbeatInv, ScanSteps,
       DropGuardSteps
  <2>6. OwnersUndisturbed'
    BY <2>5, ZenonT(30) DEF Consistent, OwnersUndisturbed
  <2>7. \A q \in Proc : Queued(q) => own[q] \in Ids /\ ticket[own[q]] = "present"
    BY DEF Consistent, OwnersUndisturbed, Queued
  <2>8. ScanInv'
    BY <2>1, <2>5, <2>7, ZenonT(30) DEF Consistent, ScanInv, ScanSteps, QueueSteps
  <2>9. QED
    BY <2>2, <2>3, <2>4, <2>6, <2>8, Zenon DEF Consistent
<1>4. ASSUME NEW p \in Proc, ScanStep(p) PROVE Consistent'
  BY <1>4, ScanKeeps, ZenonT(30)
<1>5. ASSUME NEW p \in Proc, CreateStep(p) PROVE Consistent'
  BY <1>5, CreateKeeps
<1>6. ASSUME NEW p \in Proc, WaitStep(p) PROVE Consistent'
  BY <1>6, WaitKeeps
<1>7. ASSUME NEW p \in Proc, GiveUp(p) PROVE Consistent'
  <2> USE <1>7 DEF GiveUp
  <2>1. Sound(p)
    BY <1>a, ZenonT(30) DEF ScanSteps
  <2>2. Private(p)
    BY <2>1, NoProcAssumption, ZenonT(30) DEF Private, Sound, Queued, Admitted,
       QueueSteps, ScanSteps, CreateSteps, CleanupSteps, ReleaseSteps, DropGuardSteps
  <2>3. Sound(p)'
    BY <2>1, NoProcAssumption, ZenonT(30) DEF Sound, Queued, Admitted, QueueSteps,
       ScanSteps, CreateSteps, CleanupSteps, ReleaseSteps, DropGuardSteps
  <2>4. QED
    BY <2>2, <2>3, PrivateStep, ZenonT(30)
<1>8. ASSUME NEW p \in Proc, QueueLockFails(p) PROVE Consistent'
  <2> USE <1>8 DEF QueueLockFails
  <2>1. Sound(p)
    BY <1>a, ZenonT(30) DEF ScanSteps
  <2>2. Private(p)
    BY <2>1, NoProcAssumption, ZenonT(30) DEF Private, Sound, Queued, Admitted,
       QueueSteps, ScanSteps, CreateSteps, CleanupSteps, ReleaseSteps, DropGuardSteps
  <2>3. Sound(p)'
    BY <2>1, NoProcAssumption, ZenonT(30) DEF Sound, Queued, Admitted, QueueSteps,
       ScanSteps, CreateSteps, CleanupSteps, ReleaseSteps, DropGuardSteps
  <2>4. QED
    BY <2>2, <2>3, PrivateStep, ZenonT(30)
<1>9. ASSUME NEW p \in Proc, GiveUpStep(p) PROVE Consistent'
  BY <1>9, GiveUpKeeps
<1>10. ASSUME NEW p \in Proc, HeartbeatStep(p) PROVE Consistent'
  <2>1. CASE HeartbeatRead(p)
    <3> USE <2>1 DEF HeartbeatRead
    <3>1. Sound(p)
      BY <1>b, Zenon
    <3>2. Private(p)
      BY <3>1, NoProcAssumption, ZenonT(30) DEF Private, Sound, Queued, Admitted,
         QueueSteps, ScanSteps, CreateSteps, CleanupSteps, ReleaseSteps, DropGuardSteps
    <3>3. Sound(p)'
      BY <3>1, NoProcAssumption, ZenonT(30) DEF Sound, Queued, Admitted, QueueSteps,
         ScanSteps, CreateSteps, CleanupSteps, ReleaseSteps, DropGuardSteps
    <3>4. QED
      BY <3>2, <3>3, PrivateStep, ZenonT(30)
  <2>2. CASE HeartbeatWrite(p)
    <3> USE <2>2 DEF HeartbeatWrite
    <3>1. Sound(p)
      BY <1>b, Zenon
    <3>2. Private(p)
      BY <3>1, NoProcAssumption, ZenonT(30) DEF Private, Sound, Queued, Admitted,
         QueueSteps, ScanSteps, CreateSteps, CleanupSteps, ReleaseSteps, DropGuardSteps
    <3>3. Sound(p)'
      BY <3>1, NoProcAssumption, ZenonT(30) DEF Sound, Queued, Admitted, QueueSteps,
         ScanSteps, CreateSteps, CleanupSteps, ReleaseSteps, DropGuardSteps
    <3>4. QED
      BY <3>2, <3>3, PrivateStep, ZenonT(30)
  <2>3. CASE HeartbeatFails(p)
    <3> USE <2>3 DEF HeartbeatFails
    <3>1. Sound(p)
      BY <1>b, Zenon
    <3>2. Private(p)
      BY <3>1, NoProcAssumption, ZenonT(30) DEF Private, Sound, Queued, Admitted,
         QueueSteps, ScanSteps, CreateSteps, CleanupSteps, ReleaseSteps, DropGuardSteps
    <3>3. Sound(p)'
      BY <3>1, NoProcAssumption, ZenonT(30) DEF Sound, Queued, Admitted, QueueSteps,
         ScanSteps, CreateSteps, CleanupSteps, ReleaseSteps, DropGuardSteps
    <3>4. QED
      BY <3>2, <3>3, PrivateStep, ZenonT(30)
  <2>4. QED
    BY <1>10, <2>1, <2>2, <2>3 DEF HeartbeatStep
<1>11. ASSUME NEW p \in Proc, NEW n \in {1, 2}, Release(p, n) PROVE Consistent'
  <2> USE <1>11 DEF Release
  <2>1. Sound(p)
    BY <1>a, ZenonT(30) DEF ScanSteps
  <2>2. Private(p)
    BY <2>1, NoProcAssumption, ZenonT(30) DEF Private, Sound, Queued, Admitted,
       QueueSteps, ScanSteps, CreateSteps, CleanupSteps, ReleaseSteps, DropGuardSteps
  <2>3. Sound(p)'
    BY <2>1, NoProcAssumption, ZenonT(30) DEF Sound, Queued, Admitted, QueueSteps,
       ScanSteps, CreateSteps, CleanupSteps, ReleaseSteps, DropGuardSteps
  <2>4. QED
    BY <2>2, <2>3, PrivateStep, ZenonT(30)
<1>12. ASSUME NEW p \in Proc, ReleaseStep(p) PROVE Consistent'
  <2>1. CASE ReleaseLock(p)
    <3> USE <2>1 DEF ReleaseLock
    <3>1. Sound(p)
      BY <1>a, ZenonT(30) DEF ScanSteps
    <3>2. Private(p)
      BY <3>1, NoProcAssumption, ZenonT(30) DEF Private, Sound, Queued, Admitted,
         QueueSteps, ScanSteps, CreateSteps, CleanupSteps, ReleaseSteps, DropGuardSteps
    <3>3. Sound(p)'
      BY <3>1, NoProcAssumption, ZenonT(30) DEF Sound, Queued, Admitted, QueueSteps,
         ScanSteps, CreateSteps, CleanupSteps, ReleaseSteps, DropGuardSteps
    <3>4. QED
      BY <3>2, <3>3, PrivateStep, ZenonT(30)
  <2>2. CASE ReleaseLockFails(p)
    <3> USE <2>2 DEF ReleaseLockFails
    <3>1. Sound(p)
      BY <1>a, ZenonT(30) DEF ScanSteps
    <3>2. Private(p)
      BY <3>1, NoProcAssumption, ZenonT(30) DEF Private, Sound, Queued, Admitted,
         QueueSteps, ScanSteps, CreateSteps, CleanupSteps, ReleaseSteps, DropGuardSteps
    <3>3. Sound(p)'
      BY <3>1, NoProcAssumption, ZenonT(30) DEF Sound, Queued, Admitted, QueueSteps,
         ScanSteps, CreateSteps, CleanupSteps, ReleaseSteps, DropGuardSteps
    <3>4. QED
      BY <3>2, <3>3, PrivateStep, ZenonT(30)
  <2>3. CASE StopHeartbeat(p)
    <3> USE <2>3 DEF StopHeartbeat
    <3>1. Sound(p)
      BY <1>a, ZenonT(30) DEF ScanSteps
    <3>2. Private(p)
      BY <3>1, NoProcAssumption DEF Private, Sound, Queued, Admitted, QueueSteps,
         ScanSteps, CreateSteps, CleanupSteps, ReleaseSteps, DropGuardSteps
    <3>3. Sound(p)'
      BY <3>1, NoProcAssumption, ZenonT(30) DEF Sound, Queued, Admitted, QueueSteps,
         ScanSteps, CreateSteps, CleanupSteps, ReleaseSteps, DropGuardSteps
    <3>4. QED
      BY <3>2, <3>3, PrivateStep, ZenonT(30)
  <2>4. CASE ReleaseLease(p)
    <3> USE <2>4 DEF ReleaseLease, TryRemoveLease
    <3>1. Sound(p)
      BY <1>a, ZenonT(30) DEF ScanSteps
    <3>2. Private(p)
      BY <3>1, NoProcAssumption, ZenonT(30) DEF Private, Sound, Queued, Admitted,
         QueueSteps, ScanSteps, CreateSteps, CleanupSteps, ReleaseSteps, DropGuardSteps
    <3>3. Sound(p)'
      BY <3>1, NoProcAssumption, ZenonT(30) DEF Sound, Queued, Admitted, QueueSteps,
         ScanSteps, CreateSteps, CleanupSteps, ReleaseSteps, DropGuardSteps
    <3>4. QED
      BY <3>2, <3>3, PrivateStep, ZenonT(30)
  <2>5. CASE ReleaseTicket(p)
    <3> USE <2>5 DEF ReleaseTicket, TryRemoveTicket, UnlockTicket
    <3>1. Sound(p)
      BY <1>a, ZenonT(30) DEF ScanSteps
    <3>2. Private(p)
      BY <3>1, NoProcAssumption DEF Private, Sound, Queued, Admitted, QueueSteps,
         ScanSteps, CreateSteps, CleanupSteps, ReleaseSteps, DropGuardSteps
    <3>3. Sound(p)'
      BY <3>1, NoProcAssumption, ZenonT(30) DEF Sound, Queued, Admitted, QueueSteps,
         ScanSteps, CreateSteps, CleanupSteps, ReleaseSteps, DropGuardSteps
    <3>4. QED
      BY <3>2, <3>3, PrivateStep, ZenonT(30)
  <2>6. CASE DropGuardTicket(p)
    <3> USE <2>6 DEF DropGuardTicket, UnlockTicket
    <3>1. Sound(p)
      BY <1>a, ZenonT(30) DEF ScanSteps
    <3>2. Private(p)
      BY <3>1, NoProcAssumption, ZenonT(30) DEF Private, Sound, Queued, Admitted,
         QueueSteps, ScanSteps, CreateSteps, CleanupSteps, ReleaseSteps, DropGuardSteps
    <3>3. Sound(p)'
      BY <3>1, NoProcAssumption, ZenonT(30) DEF Sound, Queued, Admitted, QueueSteps,
         ScanSteps, CreateSteps, CleanupSteps, ReleaseSteps, DropGuardSteps
    <3>4. QED
      BY <3>2, <3>3, PrivateStep, ZenonT(30)
  <2>7. CASE DropGuardSlot(p)
    <3> USE <2>7 DEF DropGuardSlot
    <3>1. Sound(p)
      BY <1>a, ZenonT(30) DEF ScanSteps
    <3>2. Private(p)
      BY <3>1, NoProcAssumption, ZenonT(30) DEF Private, Sound, Queued, Admitted,
         QueueSteps, ScanSteps, CreateSteps, CleanupSteps, ReleaseSteps, DropGuardSteps
    <3>3. Sound(p)'
      BY <3>1, NoProcAssumption, ZenonT(30) DEF Sound, Queued, Admitted, QueueSteps,
         ScanSteps, CreateSteps, CleanupSteps, ReleaseSteps, DropGuardSteps
    <3>4. QED
      BY <3>2, <3>3, PrivateStep, ZenonT(30)
  <2>8. CASE DropGuardHeartbeat(p)
    <3> USE <2>8 DEF DropGuardHeartbeat
    <3>1. Sound(p)
      BY <1>a, ZenonT(30) DEF ScanSteps
    <3>2. Private(p)
      BY <3>1, NoProcAssumption, ZenonT(30) DEF Private, Sound, Queued, Admitted,
         QueueSteps, ScanSteps, CreateSteps, CleanupSteps, ReleaseSteps, DropGuardSteps
    <3>3. Sound(p)'
      BY <3>1, NoProcAssumption, ZenonT(30) DEF Sound, Queued, Admitted, QueueSteps,
         ScanSteps, CreateSteps, CleanupSteps, ReleaseSteps, DropGuardSteps
    <3>4. QED
      BY <3>2, <3>3, PrivateStep, ZenonT(30)
  <2>9. QED
    BY <1>12, <2>1, <2>2, <2>3, <2>4, <2>5, <2>6, <2>7, <2>8 DEF ReleaseStep
<1>13. ASSUME NEW p \in Proc, Crash(p) PROVE Consistent'
  <2> USE <1>13 DEF Crash
  <2>1. QueueInv'
    BY NoProcAssumption, Zenon DEF Consistent, QueueInv, Steps, QueueSteps, ScanSteps,
       CreateSteps, CleanupSteps, ReleaseSteps, DropSteps, DropGuardSteps
  <2>2. OwnInv' /\ HeartbeatInv'
    BY DEF Consistent, OwnInv, HeartbeatInv, ScanSteps, DropGuardSteps
  <2>3. CreateInv'
    BY DEF Consistent, CreateInv, OwnInv, Steps, QueueSteps, ScanSteps, CreateSteps,
       CleanupSteps, ReleaseSteps, DropSteps, DropGuardSteps
  <2>4. \A q \in Proc : (Queued(q)' => q # p /\ Queued(q)) /\ (Admitted(q)' => q # p
     /\ Admitted(q))
    BY ZenonT(30) DEF Queued, Admitted
  <2>5. ScanInv'
    BY <2>4, ZenonT(30) DEF Consistent, ScanInv, QueueInv, Steps, QueueSteps, ScanSteps,
       CreateSteps, CleanupSteps, ReleaseSteps, DropSteps, DropGuardSteps
  <2>6. \A q \in Proc : Queued(q) \/ Admitted(q) => own[q] \in Ids
    BY DEF Consistent, Queued, Admitted, OwnInv, HeartbeatInv, ScanSteps, DropGuardSteps
  <2>7. OwnersUndisturbed'
    BY <2>4, <2>6 DEF Consistent, OwnersUndisturbed
  <2>8. QED
    BY <2>1, <2>2, <2>3, <2>5, <2>7, Zenon DEF Consistent
<1>14. ASSUME NEW i \in Ids, Expire(i) PROVE Consistent'
  <2> USE <1>14 DEF Expire
  <2>1. QueueInv'
    BY NoProcAssumption, ZenonT(30) DEF Consistent, QueueInv, Steps, QueueSteps,
       ScanSteps, CreateSteps, CleanupSteps, ReleaseSteps, DropSteps, DropGuardSteps
  <2>2. OwnInv' /\ HeartbeatInv'
    BY CounterAssumption, ZenonT(30) DEF Consistent, Ids, OwnInv, HeartbeatInv,
       ScanSteps, DropGuardSteps
  <2>3. CreateInv'
    BY ZenonT(30) DEF Consistent, CreateInv, QueueInv, OwnInv, HeartbeatInv, Steps,
       QueueSteps, ScanSteps, CreateSteps, CleanupSteps, ReleaseSteps, DropSteps,
       DropGuardSteps
  <2>4. ScanInv'
    BY ZenonT(30) DEF Consistent, ScanInv, QueueInv, OwnInv, HeartbeatInv, Queued,
       Admitted, Steps, QueueSteps, ScanSteps, CreateSteps, CleanupSteps, ReleaseSteps,
       DropSteps, DropGuardSteps
  <2>5. OwnersUndisturbed'
    BY ZenonT(30) DEF Consistent, OwnersUndisturbed, QueueInv, OwnInv, CreateInv,
       HeartbeatInv, Queued, Admitted, ScanSteps, CreateSteps, DropGuardSteps
  <2>6. QED
    BY <2>1, <2>2, <2>3, <2>4, <2>5, Zenon DEF Consistent
<1>15. CASE UNCHANGED vars
  <2> USE <1>15 DEF vars
  <2>1. QueueInv'
    BY NoProcAssumption, ZenonT(30) DEF Consistent, QueueInv, Steps, QueueSteps,
       ScanSteps, CreateSteps, CleanupSteps, ReleaseSteps, DropSteps, DropGuardSteps
  <2>2. OwnInv' /\ HeartbeatInv'
    BY CounterAssumption, ZenonT(30) DEF Consistent, Ids, OwnInv, HeartbeatInv,
       ScanSteps, DropGuardSteps
  <2>3. CreateInv'
    BY ZenonT(30) DEF Consistent, CreateInv, QueueInv, OwnInv, HeartbeatInv, Steps,
       QueueSteps, ScanSteps, CreateSteps, CleanupSteps, ReleaseSteps, DropSteps,
       DropGuardSteps
  <2>4. ScanInv'
    BY ZenonT(30) DEF Consistent, ScanInv, QueueInv, OwnInv, HeartbeatInv, Queued,
       Admitted, Steps, QueueSteps, ScanSteps, CreateSteps, CleanupSteps, ReleaseSteps,
       DropSteps, DropGuardSteps
  <2>5. OwnersUndisturbed'
    BY ZenonT(30) DEF Consistent, OwnersUndisturbed, QueueInv, OwnInv, CreateInv,
       HeartbeatInv, Queued, Admitted, ScanSteps, CreateSteps, DropGuardSteps
  <2>6. QED
    BY <2>1, <2>2, <2>3, <2>4, <2>5, Zenon DEF Consistent
<1>16. QED
  <2> HIDE DEF TypeOK, Ids, Actor, Steps, QueueSteps, ScanSteps, CreateSteps,
     CleanupSteps, ReleaseSteps, DropSteps, DropGuardSteps, Goto, files, locks,
     scan, Consistent
  <2>1. ASSUME NEW p \in Proc, ProcStep(p) PROVE Consistent'
    BY <2>1, <1>1, <1>2, <1>3, <1>4, <1>5, <1>6, <1>7, <1>8, <1>9, <1>10, <1>11,
       <1>12, <1>13, ZenonT(30) DEF ProcStep
  <2>2. QED
    BY <2>1, <1>14, <1>15 DEF Next

\* Every reachable state of acquire, scan, drop and release satisfies the
\* inductive invariant.
LEMMA Invariant == Spec => []IInv
<1>1. IInv /\ [Next]_vars => IInv'
  BY TypeStep, ConsistentStep DEF IInv
<1>2. QED
  BY <1>1, InvInit, PTL DEF Spec

\* A live process keeps its ticket, its locks and its lease through every
\* scan, drop, release, expiry and crash of the others, whatever their number.
THEOREM Undisturbed == Spec => []OwnersUndisturbed
<1>1. IInv => OwnersUndisturbed
  BY DEF IInv, Consistent
<1>2. QED
  BY <1>1, Invariant, PTL

-----------------------------------------------------------------------------
(* The order of arrival and the refinement.  Each step of Admission is a   *)
(* step of FifoSlot or leaves the place of every process as it is.         *)

\* The holder of slot.lock is on its way from try_lock_slot to the end of its
\* guard, and the ticket that is being created has the highest number of all.
SlotSteps == {"activate", "hold", "release", "dropGuard", "dropSlot"} \cup ReleaseSteps

PlaceInv ==
    \A p \in Proc :
        /\ slot = p => pc[p] \in SlotSteps
        /\ pc[p] \in CreateSteps => own[p] = counter - 1

\* The place of a process in the order of arrival, 0 when it has none.
Rank(p) == IF Stage(p) = "out" THEN 0 ELSE own[p]

\* Only p moves.  It keeps its place, leaves, joins or gets the slot.
Moves(p) ==
    /\ \A q \in Proc \ {p} : /\ pc'[q] = pc[q] /\ own'[q] = own[q]
                             /\ slot' = q <=> slot = q
    /\ \/ Stage(p)' = Stage(p) /\ Rank(p)' = Rank(p)
       \/ Stage(p) # "out" /\ Stage(p)' = "out"
       \/ WriteLease(p)
       \/ TryLockSlot(p)
    /\ slot' = p => pc'[p] \in SlotSteps
    /\ pc'[p] \in CreateSteps => own'[p] = counter' - 1
    /\ (counter' = counter /\ own'[p] \in {own[p], 0}) \/ AllocateId(p)

\* Every action of a process moves nobody else.
LEMMA OneMoves ==
  ASSUME IInv, PlaceInv, NEW p \in Proc, ProcStep(p)
  PROVE  Moves(p)
<1> USE NoProcAssumption DEF Moves, Stage, Rank, Queued, Goto, locks, SlotSteps, ReleaseSteps,
   ScanSteps, CreateSteps
<1> DEFINE Here == /\ pc \in [Proc -> Steps] /\ own \in [Proc -> Ids \cup {0}]
                   /\ counter \in Int
                   /\ slot = p => pc[p] \in SlotSteps
                   /\ pc[p] \in CreateSteps => own[p] = counter - 1
                   /\ pc[p] = "activate" => slot = p
                   /\ pc[p] \in {"idle", "enter"} => own[p] = 0
                   /\ pc[p] \notin {"idle", "enter"} \cup ScanSteps => own[p] # 0
                   /\ hb[p] # "none" => pc[p] \in {"hold", "release", "stopHeartbeat"}
                                                    \cup DropGuardSteps
<1>1. Here
  BY DEF IInv, TypeOK, Consistent, CreateInv, OwnInv, HeartbeatInv, PlaceInv
<1>2. CASE Acquire(p)
  BY <1>1, <1>2 DEF Acquire
<1>3. CASE EnterFails(p)
  BY <1>1, <1>3 DEF EnterFails
<1>4. CASE LockQueue(p)
  BY <1>1, <1>4 DEF LockQueue
<1>5. CASE ScanStep(p)
  <2>1. CASE ScanDone(p)
    BY <1>1, <2>1 DEF ScanDone
  <2>2. ASSUME NEW i \in Ids, ScanStaging(p, i) PROVE Moves(p)
    BY <1>1, <2>2 DEF ScanStaging, Scannable
  <2>3. ASSUME NEW i \in Ids, ScanStale(p, i) PROVE Moves(p)
    BY <1>1, <2>3 DEF ScanStale, Scannable
  <2>4. ASSUME NEW i \in Ids, ScanLive(p, i) PROVE Moves(p)
    BY <1>1, <2>4 DEF ScanLive, Scannable
  <2>5. ASSUME NEW i \in Ids, ScanGone(p, i) PROVE Moves(p)
    BY <1>1, <2>5 DEF ScanGone
  <2>6. ASSUME NEW i \in Ids, ScanError(p, i) PROVE Moves(p)
    BY <1>1, <2>6 DEF ScanError, FailUnderQueue
  <2>7. ASSUME NEW i \in Ids, QuarantineStale(p, i) PROVE Moves(p)
    BY <1>1, <2>7 DEF QuarantineStale
  <2>8. ASSUME NEW i \in Ids, RemoveStaleLease(p, i) PROVE Moves(p)
    BY <1>1, <2>8 DEF RemoveStaleLease
  <2>9. ASSUME NEW i \in Ids, RemoveStaleError(p, i) PROVE Moves(p)
    BY <1>1, <2>9 DEF RemoveStaleError, FailUnderQueue
  <2> HIDE DEF Moves
  <2>10. QED
    BY <1>5, <2>1, <2>2, <2>3, <2>4, <2>5, <2>6, <2>7, <2>8, <2>9 DEF ScanStep
<1>6. CASE CreateStep(p)
  <2>1. CASE QueueFull(p)
    BY <1>1, <2>1, ZenonT(30) DEF QueueFull, Admissible, LeaveQueue
  <2>2. CASE AllocateFails(p)
    BY <1>1, <2>2 DEF AllocateFails, Admissible, LeaveQueue
  <2>3. CASE AllocateId(p)
    <3>1. PICK n \in Ids : counter' = n + 1 /\ own' = [own EXCEPT ![p] = n]
      BY <2>3, Zenon DEF AllocateId
    <3>2. own[p] = 0 /\ pc' = [pc EXCEPT ![p] = "stage"] /\ slot' = slot /\ pc[p] = "reclaim"
      BY <2>3 DEF AllocateId, Admissible
    <3>3. own'[p] = counter' - 1
      BY <1>1, <3>1 DEF Ids
    <3>4. slot # p /\ Stage(p) = "out" /\ Stage(p)' = "out"
      BY <1>1, <3>2
    <3>5. QED
      BY <1>1, <2>3, <3>1, <3>2, <3>3, <3>4
  <2>4. CASE CreateStaging(p)
    BY <1>1, <2>4 DEF CreateStaging
  <2>5. CASE CreateFails(p)
    BY <1>1, <2>5 DEF CreateFails
  <2>6. CASE PublishTicket(p)
    BY <1>1, <2>6 DEF PublishTicket
  <2>7. CASE OpenLease(p)
    BY <1>1, <2>7 DEF OpenLease
  <2>8. CASE WriteLease(p)
    BY <1>1, <2>8 DEF WriteLease
  <2>9. CASE LeaseFails(p)
    BY <1>1, <2>9 DEF LeaseFails
  <2> HIDE DEF Moves
  <2>10. QED
    BY <1>6, <2>1, <2>2, <2>3, <2>4, <2>5, <2>6, <2>7, <2>8, <2>9 DEF CreateStep
<1>7. CASE WaitStep(p)
  <2>1. CASE TryLockSlot(p)
    BY <1>1, <2>1 DEF TryLockSlot, Decides
  <2>2. CASE KeepWaiting(p)
    BY <1>1, <2>2 DEF KeepWaiting, Decides
  <2>3. CASE ActivateLease(p)
    BY <1>1, <2>3 DEF ActivateLease
  <2>4. CASE ActivateFails(p)
    BY <1>1, <2>4 DEF ActivateFails
  <2> HIDE DEF Moves
  <2>5. QED
    BY <1>7, <2>1, <2>2, <2>3, <2>4 DEF WaitStep
<1>8. CASE GiveUp(p)
  BY <1>1, <1>8 DEF GiveUp
<1>9. CASE QueueLockFails(p)
  BY <1>1, <1>9 DEF QueueLockFails
<1>10. CASE GiveUpStep(p)
  <2>1. CASE CleanupLock(p)
    BY <1>1, <2>1 DEF CleanupLock
  <2>2. CASE CleanupLease(p)
    BY <1>1, <2>2 DEF CleanupLease
  <2>3. CASE CleanupTicket(p)
    BY <1>1, <2>3 DEF CleanupTicket
  <2>4. CASE DropUnlock(p)
    BY <1>1, <2>4 DEF DropUnlock
  <2>5. CASE DropTicket(p)
    BY <1>1, <2>5 DEF DropTicket
  <2>6. CASE DropLease(p)
    BY <1>1, <2>6, ZenonT(30) DEF DropLease
  <2> HIDE DEF Moves
  <2>7. QED
    BY <1>10, <2>1, <2>2, <2>3, <2>4, <2>5, <2>6 DEF GiveUpStep
<1>11. CASE HeartbeatStep(p)
  <2>1. CASE HeartbeatRead(p)
    BY <1>1, <2>1 DEF HeartbeatRead
  <2>2. CASE HeartbeatWrite(p)
    BY <1>1, <2>2 DEF HeartbeatWrite
  <2>3. CASE HeartbeatFails(p)
    BY <1>1, <2>3 DEF HeartbeatFails
  <2> HIDE DEF Moves
  <2>4. QED
    BY <1>11, <2>1, <2>2, <2>3 DEF HeartbeatStep
<1>12. CASE ReleaseStep(p)
  <2>1. CASE ReleaseLock(p)
    BY <1>1, <2>1, ZenonT(30) DEF ReleaseLock
  <2>2. CASE ReleaseLockFails(p)
    BY <1>1, <2>2 DEF ReleaseLockFails
  <2>3. CASE StopHeartbeat(p)
    BY <1>1, <2>3 DEF StopHeartbeat
  <2>4. CASE ReleaseLease(p)
    BY <1>1, <2>4 DEF ReleaseLease
  <2>5. CASE ReleaseTicket(p)
    BY <1>1, <2>5 DEF ReleaseTicket
  <2>6. CASE DropGuardTicket(p)
    BY <1>1, <2>6 DEF DropGuardTicket
  <2>7. CASE DropGuardSlot(p)
    BY <1>1, <2>7 DEF DropGuardSlot
  <2>8. CASE DropGuardHeartbeat(p)
    BY <1>1, <2>8 DEF DropGuardHeartbeat
  <2> HIDE DEF Moves
  <2>9. QED
    BY <1>12, <2>1, <2>2, <2>3, <2>4, <2>5, <2>6, <2>7, <2>8 DEF ReleaseStep
<1>13. CASE Crash(p)
  BY <1>1, <1>13 DEF Crash
<1>14. ASSUME NEW n \in {1, 2}, Release(p, n) PROVE Moves(p)
  BY <1>1, <1>14 DEF Release
<1> HIDE DEF Moves
<1>15. QED
  BY <1>2, <1>3, <1>4, <1>5, <1>6, <1>7, <1>8, <1>9, <1>10, <1>11, <1>12, <1>13, <1>14
     DEF ProcStep

\* Where everybody is stays as PlaceInv says: numbers are given out under the
\* queue lock, so that no other ticket is being created at the same time.
LEMMA PlaceStep ==
  ASSUME IInv, PlaceInv, [Next]_vars
  PROVE  PlaceInv'
<1>1. ASSUME NEW p \in Proc, ProcStep(p) PROVE PlaceInv'
  <2>1. Moves(p)
    BY <1>1, OneMoves
  <2>2. ASSUME AllocateId(p), NEW q \in Proc \ {p} PROVE pc[q] \notin CreateSteps
    BY <2>2 DEF AllocateId, Admissible, IInv, Consistent, QueueInv, QueueSteps,
       ScanSteps
  <2>3. ASSUME NEW q \in Proc \ {p}
        PROVE  /\ slot' = q => pc'[q] \in SlotSteps
               /\ pc'[q] \in CreateSteps => own'[q] = counter' - 1
    BY <2>1, <2>2 DEF Moves, PlaceInv
  <2>4. QED
    BY <2>1, <2>3 DEF Moves, PlaceInv
<1>2. CASE \/ UNCHANGED vars
           \/ \E i \in Ids : Expire(i)
  BY <1>2, Zenon DEF vars, Expire, locks, PlaceInv
<1>3. QED
  BY <1>1, <1>2 DEF Next

\* The steps of FifoSlot, in terms of stages and ranks.
LEMMA FifoSteps ==
  ASSUME NEW p \in Proc, \A q \in Proc \ {p} : Stage(q)' = Stage(q) /\ Rank(q)' = Rank(q)
  PROVE  /\ Stage(p)' = Stage(p) /\ Rank(p)' = Rank(p)
              => UNCHANGED <<[q \in Proc |-> Stage(q)], [q \in Proc |-> Rank(q)]>>
         /\ Stage(p) # "out" /\ Stage(p)' = "out" => Abstract!Leave(p)
         /\ (/\ Stage(p) = "out" /\ Stage(p)' = "waiting" /\ Rank(p)' \in Ids
             /\ \A q \in Proc : Rank(q) < Rank(p)')
              => Abstract!Join(p)
         /\ (/\ Stage(p) = "waiting" /\ Stage(p)' = "holding" /\ Rank(p)' = Rank(p)
             /\ \A q \in Proc : Stage(q) # "holding"
             /\ \A q \in Proc : Stage(q) = "waiting" => Rank(p) <= Rank(q))
              => Abstract!Grant(p)
<1> DEFINE stages == [q \in Proc |-> Stage(q)]
           ranks  == [q \in Proc |-> Rank(q)]
<1>1. /\ stages' = [stages EXCEPT ![p] = Stage(p)']
      /\ ranks' = [ranks EXCEPT ![p] = Rank(p)']
  BY Zenon
<1>2. Stage(p)' = "out" => Rank(p)' = 0
  BY DEF Rank
<1>3. Stage(p)' = Stage(p) /\ Rank(p)' = Rank(p) => UNCHANGED <<stages, ranks>>
  BY <1>1
<1>4. Stage(p) # "out" /\ Stage(p)' = "out" => Abstract!Leave(p)
  BY <1>1, <1>2 DEF Abstract!Leave, Rank
<1>5. ASSUME Stage(p) = "out", Stage(p)' = "waiting", Rank(p)' \in Ids,
             \A q \in Proc : Rank(q) < Rank(p)'
      PROVE  Abstract!Join(p)
  BY <1>1, <1>5, Zenon DEF Abstract!Join, Rank
<1>6. ASSUME Stage(p) = "waiting", Stage(p)' = "holding", Rank(p)' = Rank(p),
             \A q \in Proc : Stage(q) # "holding",
             \A q \in Proc : Stage(q) = "waiting" => Rank(p) <= Rank(q)
      PROVE  Abstract!Grant(p)
  BY <1>1, <1>6 DEF Abstract!Grant, Rank
<1>7. QED
  BY <1>3, <1>4, <1>5, <1>6

\* A process joins behind everybody that waits or holds the slot.
LEMMA JoinsLast ==
  ASSUME IInv, PlaceInv, NEW p \in Proc, WriteLease(p)
  PROVE  /\ Stage(p) = "out" /\ Stage(p)' = "waiting" /\ Rank(p)' \in Ids
         /\ \A q \in Proc : Rank(q) < Rank(p)'
<1>1. /\ pc[p] = "leaseWrite" /\ pc' = [pc EXCEPT ![p] = "wait"] /\ own' = own /\ slot' = slot
      /\ pc \in [Proc -> Steps] /\ own \in [Proc -> Ids \cup {0}] /\ counter \in Int
  BY DEF WriteLease, Goto, IInv, TypeOK
<1>2. own[p] # 0 /\ own[p] = counter - 1 /\ slot # p
  BY <1>1 DEF IInv, Consistent, OwnInv, PlaceInv, CreateSteps, ScanSteps, SlotSteps,
     ReleaseSteps
<1>3. Stage(p) = "out" /\ Stage(p)' = "waiting" /\ Rank(p)' = own[p]
  BY <1>1, <1>2 DEF Stage, Rank, Queued, ScanSteps
<1>4. ASSUME NEW q \in Proc PROVE Rank(q) < own[p]
  <2>1. own[q] < counter /\ (own[q] = own[p] => q = p) /\ own[q] \in Int /\ own[p] > 0
    BY <1>1, <1>2 DEF IInv, Consistent, OwnInv, Ids
  <2>2. QED
    BY <1>1, <1>2, <1>3, <2>1 DEF Rank
<1>5. QED
  BY <1>1, <1>2, <1>3, <1>4

\* The slot is free and goes to the first of those that wait.
LEMMA GrantsFirst ==
  ASSUME IInv, NEW p \in Proc, TryLockSlot(p)
  PROVE  /\ Stage(p) = "waiting" /\ Stage(p)' = "holding" /\ Rank(p)' = Rank(p)
         /\ \A q \in Proc : Stage(q) # "holding"
         /\ \A q \in Proc : Stage(q) = "waiting" => Rank(p) <= Rank(q)
<1>1. /\ pc[p] = "reclaim" /\ own[p] # 0 /\ own' = own /\ slot = NoProc /\ slot' = p
      /\ FirstIsOurs(p)
  BY ZenonT(30) DEF TryLockSlot, Decides
<1>2. Stage(p) = "waiting" /\ Stage(p)' = "holding" /\ \A q \in Proc : Stage(q) # "holding"
  BY <1>1, NoProcAssumption DEF Stage, Queued, ScanSteps
<1>3. ASSUME NEW q \in Proc, Stage(q) = "waiting" PROVE Rank(p) <= Rank(q)
  <2>1. Queued(q)
    BY <1>3 DEF Stage
  <2>2. todo = {} /\ pc[p] \in ScanSteps
    BY <1>1 DEF IInv, Consistent, QueueInv, ScanSteps
  <2>3. own[q] \in live
    BY <2>1, <2>2 DEF IInv, Consistent, ScanInv
  <2>4. QED
    BY <1>1, <1>2, <1>3, <2>3, ZenonT(30) DEF FirstIsOurs, Rank
<1>4. QED
  BY <1>1, <1>2, <1>3, ZenonT(30) DEF Rank

\* The holder of the slot is where PlaceInv says in every reachable state.
LEMMA Placed == Spec => []PlaceInv
<1>1. Init => PlaceInv
  BY NoProcAssumption, ZenonT(30) DEF Init, PlaceInv, CreateSteps
<1>2. QED
  BY <1>1, PlaceStep, Invariant, PTL DEF Spec

\* Whoever takes the slot has the lowest ticket of all that wait: the scan
\* before it has seen every one of them.
THEOREM Fifo == Spec => AdmissionIsFifo
<1> DEFINE Lowest == \A p \in Proc : slot' = p /\ slot # p
                       => \A q \in Proc : Queued(q) => own[p] <= own[q]
<1>1. IInv /\ PlaceInv /\ [Next]_vars => [Lowest]_vars
  <2> SUFFICES ASSUME IInv, PlaceInv, [Next]_vars, NEW p \in Proc, slot' = p, slot # p,
                      NEW q \in Proc, Queued(q)
               PROVE  own[p] <= own[q]
    OBVIOUS
  <2>1. PICK r \in Proc : ProcStep(r)
    BY DEF Next, Expire, locks, vars
  <2>2. Moves(r)
    BY <2>1, OneMoves
  <2>3. r = p
    BY <2>2, ZenonT(30) DEF Moves
  <2>4. TryLockSlot(p)
    BY <2>2, <2>3, ZenonT(30) DEF Moves, Stage, WriteLease
  <2>5. slot = NoProc
    BY <2>4, ZenonT(30) DEF TryLockSlot
  <2>6. Stage(q) = "waiting" /\ Stage(p) = "waiting"
    BY <2>4, <2>5, GrantsFirst, NoProcAssumption DEF Stage
  <2>7. QED
    BY <2>4, <2>6, GrantsFirst, ZenonT(30) DEF Rank
<1>2. QED
  BY <1>1, Placed, Invariant, PTL DEF Spec, AdmissionIsFifo

\* A new ticket number collides with nothing any process ever left behind.
THEOREM Fresh == Spec => TicketNumbersFresh
<1> DEFINE Unused == \A p \in Proc : own'[p] # own[p] /\ own'[p] # 0
                       => /\ ticket[own'[p]] = "none"
                          /\ lease[own'[p]] = "none"
                          /\ \A q \in Proc : own[q] # own'[p]
<1>1. IInv /\ PlaceInv /\ [Next]_vars => [Unused]_vars
  <2> SUFFICES ASSUME IInv, PlaceInv, [Next]_vars, NEW p \in Proc, own'[p] # own[p], own'[p] # 0
               PROVE  /\ ticket[own'[p]] = "none"
                      /\ lease[own'[p]] = "none"
                      /\ \A q \in Proc : own[q] # own'[p]
    OBVIOUS
  <2>1. PICK r \in Proc : ProcStep(r)
    BY DEF Next, Expire, vars
  <2>2. Moves(r)
    BY <2>1, OneMoves
  <2>3. AllocateId(p)
    BY <2>2, ZenonT(30) DEF Moves
  <2>4. own'[p] \in Ids /\ counter <= own'[p]
    BY <2>3, ZenonT(30) DEF AllocateId, IsNextTicketId, IInv, TypeOK
  <2>5. QED
    BY <2>4, CounterAssumption DEF IInv, TypeOK, Consistent, OwnInv, Ids
<1>2. QED
  BY <1>1, Placed, Invariant, PTL DEF Spec, TicketNumbersFresh

\* acquire, release, drop, the heartbeat, expiry and crashes together behave as
\* a single slot that is handed out in the order in which processes joined.
THEOREM Refines == Spec => ImplementsFifoSlot
<1>1. Init => Abstract!Init
  <2> SUFFICES ASSUME Init PROVE Abstract!Init
    OBVIOUS
  <2>1. \A p \in Proc : slot # p /\ pc[p] = "idle" /\ own[p] = 0
    BY NoProcAssumption DEF Init
  <2>2. \A p \in Proc : Stage(p) = "out"
    BY <2>1, ZenonT(30) DEF Stage, Queued
  <2>3. QED
    BY <2>2, ZenonT(30) DEF Abstract!Init
<1>2. IInv /\ PlaceInv /\ [Next]_vars
        => [Abstract!Next]_<<[p \in Proc |-> Stage(p)], [p \in Proc |-> Rank(p)]>>
  <2> SUFFICES ASSUME IInv, PlaceInv, [Next]_vars
               PROVE  [Abstract!Next]_<<[p \in Proc |-> Stage(p)], [p \in Proc |-> Rank(p)]>>
    OBVIOUS
  <2>1. ASSUME NEW p \in Proc, ProcStep(p)
        PROVE  [Abstract!Next]_<<[q \in Proc |-> Stage(q)], [q \in Proc |-> Rank(q)]>>
    <3>1. Moves(p)
      BY <2>1, OneMoves, ZenonT(30)
    <3>2. \A q \in Proc \ {p} : Stage(q)' = Stage(q) /\ Rank(q)' = Rank(q)
      BY <3>1, ZenonT(30) DEF Moves, Stage, Rank, Queued
    <3>3. CASE Stage(p)' = Stage(p) /\ Rank(p)' = Rank(p)
      BY <3>2, <3>3, FifoSteps, ZenonT(30)
    <3>4. CASE Stage(p) # "out" /\ Stage(p)' = "out"
      BY <3>2, <3>4, FifoSteps, ZenonT(30) DEF Abstract!Next
    <3>5. CASE WriteLease(p)
      BY <3>2, <3>5, FifoSteps, JoinsLast, ZenonT(30) DEF Abstract!Next
    <3>6. CASE TryLockSlot(p)
      BY <3>2, <3>6, FifoSteps, GrantsFirst DEF Abstract!Next
    <3>7. QED
      BY <3>1, <3>3, <3>4, <3>5, <3>6, ZenonT(30) DEF Moves
  <2>2. CASE \/ UNCHANGED vars
             \/ \E i \in Ids : Expire(i)
    BY <2>2, ZenonT(30) DEF vars, Expire, locks, Stage, Rank, Queued
  <2>3. QED
    BY <2>1, <2>2 DEF Next
<1>3. QED
  BY <1>1, <1>2, Placed, Invariant, PTL DEF Spec, ImplementsFifoSlot, Abstract!Spec,
     Rank

-----------------------------------------------------------------------------
(* The queue stays within MAX_QUEUE_TICKETS although tickets are counted   *)
(* by one process and removed by others that hold no lock.                 *)

\* A scan misses no file that is still there, a stale ticket whose lease is about to be removed is
\* gone, and whoever is about to create a file has room for it.
Covered ==
    \A p \in Proc :
        /\ pc[p] \in ScanSteps => Entries \subseteq todo \cup live \cup stale
        /\ pc[p] = "unlease" => \A i \in stale : NextStale(i) => i \notin Entries
        /\ pc[p] = "stage" => Cardinality(Entries) < MaxQueueTickets

LimitInv == QueueWithinLimit /\ Covered

\* A step that adds no file, starts nothing that counts files and leaves a scan in progress alone.
Quiet ==
    /\ Entries' \subseteq Entries
    /\ \A q \in Proc : pc'[q] \in ScanSteps \cup {"stage"} => pc'[q] = pc[q]
    /\ (\E q \in Proc : pc'[q] \in ScanSteps) => UNCHANGED <<todo, live, stale>>

-----------------------------------------------------------------------------
\* The files of the queue are finitely many, and fewer of them count less.
LEMMA EntriesFinite ==
  /\ IsFiniteSet(Entries) /\ Cardinality(Entries) \in Nat
  /\ \A S \in SUBSET Entries : IsFiniteSet(S) /\ Cardinality(S) <= Cardinality(Entries)
<1>1. IsFiniteSet(Ids)
  BY FS_Interval, CounterAssumption DEF Ids
<1>2. IsFiniteSet(Entries)
  BY <1>1, FS_Subset DEF Entries
<1>3. QED
  BY <1>2, FS_Subset, FS_CardinalityType

\* Quiet steps keep the limit.
LEMMA QuietKeeps ==
  ASSUME LimitInv, Quiet
  PROVE  LimitInv'
<1>1. Entries' \in SUBSET Entries
  BY DEF Quiet
<1>2. Cardinality(Entries') <= Cardinality(Entries) /\ IsFiniteSet(Entries')
  BY <1>1, EntriesFinite
<1>3. Cardinality(Entries') \in Nat /\ Cardinality(Entries) \in Nat
  BY <1>2, EntriesFinite, FS_CardinalityType
<1>4. QueueWithinLimit'
  BY <1>2, <1>3, LimitAssumption DEF LimitInv, QueueWithinLimit
<1>5. ASSUME NEW p \in Proc, pc'[p] \in ScanSteps
      PROVE  /\ Entries' \subseteq todo' \cup live' \cup stale'
             /\ pc'[p] = "unlease" => \A i \in stale' : NextStale(i)' => i \notin Entries'
  <2>1. pc'[p] = pc[p] /\ UNCHANGED <<todo, live, stale>>
    BY <1>5 DEF Quiet
  <2>2. QED
    BY <1>1, <1>5, <2>1, ZenonT(30) DEF LimitInv, Covered, NextStale
<1>6. ASSUME NEW p \in Proc, pc'[p] = "stage" PROVE Cardinality(Entries') < MaxQueueTickets
  <2>1. Cardinality(Entries) < MaxQueueTickets
    BY <1>6 DEF Quiet, LimitInv, Covered
  <2>2. QED
    BY <1>2, <1>3, <2>1, LimitAssumption
<1>7. Covered'
  BY <1>5, <1>6 DEF Covered, ScanSteps
<1>8. QED
  BY <1>4, <1>7 DEF LimitInv

\* Nobody but p scans or creates a ticket while p holds the queue lock.
LEMMA Alone ==
  ASSUME IInv, NEW p \in Proc, pc[p] \in QueueSteps, NEW q \in Proc, q # p
  PROVE  pc[q] \notin QueueSteps
BY DEF IInv, Consistent, QueueInv

-----------------------------------------------------------------------------
\* The steps of a process that has a ticket, or that gives up before it has one, and of the time.
LEMMA PrivateIsQuiet ==
  ASSUME IInv, NEW p \in Proc,
         \/ Acquire(p) \/ EnterFails(p) \/ CreateFails(p) \/ PublishTicket(p) \/ OpenLease(p)
         \/ WriteLease(p) \/ LeaseFails(p) \/ ActivateLease(p) \/ ActivateFails(p) \/ GiveUp(p)
         \/ QueueLockFails(p) \/ GiveUpStep(p) \/ HeartbeatStep(p)
         \/ (\E n \in {1, 2} : Release(p, n)) \/ ReleaseStep(p)
  PROVE  Quiet
<1> USE DEF Goto, files, locks, scan
<1>1. UNCHANGED <<todo, live, stale>>
  BY ZenonT(30) DEF Acquire, EnterFails, CreateFails, PublishTicket, OpenLease,
     WriteLease, LeaseFails, ActivateLease, ActivateFails, GiveUp, QueueLockFails,
     GiveUpStep, CleanupLock, CleanupLease, CleanupTicket, DropUnlock, DropTicket,
     DropLease, HeartbeatStep, HeartbeatRead, HeartbeatWrite, HeartbeatFails, Release,
     ReleaseStep, ReleaseLock, ReleaseLockFails, StopHeartbeat, ReleaseLease,
     ReleaseTicket, DropGuardTicket, DropGuardSlot, DropGuardHeartbeat
<1>2. \A q \in Proc : pc'[q] \in ScanSteps \cup {"stage"} => pc'[q] = pc[q]
  <2> DEFINE Elsewhere == \/ pc' = pc
                          \/ \E x : x \notin ScanSteps \cup {"stage"} /\ pc' = [pc EXCEPT ![p] = x]
  <2> USE DEF ScanSteps
  <2>1. Elsewhere
    <3>1. CASE Acquire(p) \/ EnterFails(p) \/ CreateFails(p) \/ PublishTicket(p) \/ OpenLease(p)
      BY <3>1, ZenonT(30) DEF Acquire, EnterFails, CreateFails, PublishTicket, OpenLease
    <3>2. CASE WriteLease(p) \/ LeaseFails(p) \/ ActivateLease(p) \/ ActivateFails(p)
      BY <3>2, ZenonT(30) DEF WriteLease, LeaseFails, ActivateLease, ActivateFails
    <3>3. CASE GiveUp(p) \/ QueueLockFails(p) \/ HeartbeatStep(p)
      BY <3>3, ZenonT(30) DEF GiveUp, QueueLockFails, HeartbeatStep, HeartbeatRead,
         HeartbeatWrite, HeartbeatFails
    <3>4. CASE GiveUpStep(p)
      BY <3>4, ZenonT(30) DEF GiveUpStep, CleanupLock, CleanupLease, CleanupTicket,
         DropUnlock, DropTicket, DropLease
    <3>5. CASE \E n \in {1, 2} : Release(p, n)
      BY <3>5, Zenon DEF Release
    <3>6. CASE ReleaseStep(p)
      BY <3>6, ZenonT(30) DEF ReleaseStep, ReleaseLock, ReleaseLockFails, StopHeartbeat,
         ReleaseLease, ReleaseTicket, DropGuardTicket, DropGuardSlot, DropGuardHeartbeat
    <3>7. QED
      BY <3>1, <3>2, <3>3, <3>4, <3>5, <3>6, ZenonT(30)
  <2>2. pc \in [Proc -> Steps]
    BY ZenonT(30) DEF IInv, TypeOK
  <2>3. QED
    BY <2>1, <2>2, ZenonT(30)
<1>3. \/ ticket' = ticket
      \/ TryRemoveTicket(own[p])
      \/ pc[p] = "publish" /\ ticket' = [ticket EXCEPT ![own[p]] = "present"]
  BY ZenonT(30) DEF Acquire, EnterFails, CreateFails, PublishTicket, OpenLease,
     WriteLease, LeaseFails, ActivateLease, ActivateFails, GiveUp, QueueLockFails,
     GiveUpStep, CleanupLock, CleanupLease, CleanupTicket, DropUnlock, DropTicket,
     DropLease, HeartbeatStep, HeartbeatRead, HeartbeatWrite, HeartbeatFails, Release,
     ReleaseStep, ReleaseLock, ReleaseLockFails, StopHeartbeat, ReleaseLease,
     ReleaseTicket, DropGuardTicket, DropGuardSlot, DropGuardHeartbeat
<1>4. Entries' \subseteq Entries
  <2> USE DEF IInv, TypeOK
  <2>1. CASE TryRemoveTicket(own[p])
    BY <2>1 DEF TryRemoveTicket, Entries
  <2>2. CASE pc[p] = "publish" /\ ticket' = [ticket EXCEPT ![own[p]] = "present"]
    <3>1. ticket[own[p]] = "staging"
      BY <2>2 DEF Consistent, CreateInv
    <3>2. QED
      BY <2>2, <3>1 DEF Entries
  <2>3. QED
    BY <1>3, <2>1, <2>2, ZenonT(30) DEF Entries
<1>5. QED
  BY <1>1, <1>2, <1>4, ZenonT(30) DEF Quiet

\* Whoever leaves a scan, with or without success, leaves none behind.
LEMMA LeavingIsQuiet ==
  ASSUME IInv, NEW p \in Proc,
         \/ \E i \in Ids : ScanError(p, i) \/ RemoveStaleError(p, i)
         \/ QueueFull(p) \/ AllocateFails(p) \/ TryLockSlot(p) \/ KeepWaiting(p)
  PROVE  Quiet
<1> USE DEF IInv, TypeOK, Goto, files
<1>1. pc[p] \in ScanSteps /\ ticket' = ticket
  BY ZenonT(30) DEF ScanError, RemoveStaleError, QueueFull, AllocateFails, TryLockSlot,
     KeepWaiting, Admissible, Decides, LeaveQueue, ScanSteps
<1>2. pc' = [pc EXCEPT ![p] = pc'[p]] /\ pc'[p] \notin ScanSteps \cup {"stage"}
  BY DEF ScanError, RemoveStaleError, QueueFull, AllocateFails, TryLockSlot,
     KeepWaiting, FailUnderQueue, LeaveQueue, ScanSteps
<1>3. \A q \in Proc : pc'[q] \notin ScanSteps \cup {"stage"}
  BY <1>1, <1>2, Alone DEF QueueSteps, CreateSteps
<1>4. QED
  BY <1>1, <1>3 DEF Quiet, Entries

\* A crash ends the scan of the process that dies, nobody else's.
LEMMA CrashIsQuiet ==
  ASSUME IInv, NEW p \in Proc, Crash(p)
  PROVE  Quiet
<1>1. pc' = [pc EXCEPT ![p] = "idle"] /\ ticket' = ticket
  BY DEF Crash, Goto, files
<1>2. \A q \in Proc : pc'[q] \in ScanSteps \cup {"stage"} => pc'[q] = pc[q] /\ q # p
  BY <1>1 DEF IInv, TypeOK, ScanSteps
<1>3. ASSUME NEW q \in Proc, pc'[q] \in ScanSteps PROVE queue # p
  <2>1. pc[q] \in QueueSteps /\ q # p
    BY <1>2, <1>3 DEF QueueSteps
  <2>2. QED
    BY <2>1 DEF IInv, Consistent, QueueInv
<1>4. QED
  BY <1>1, <1>2, <1>3, ZenonT(30) DEF Quiet, Entries, Crash

-----------------------------------------------------------------------------
(* The steps that look at the files, or add one.                           *)

\* The listing of scan_tickets sees every file.
LEMMA LockKeeps ==
  ASSUME IInv, LimitInv, NEW p \in Proc, LockQueue(p)
  PROVE  LimitInv'
<1>1. Entries' = Entries /\ UNCHANGED <<live, stale>>
  BY ZenonT(30) DEF LockQueue, files, Entries
<1>2. Cardinality(Entries) <= MaxQueueTickets /\ Cardinality(Entries) \in Nat
  BY EntriesFinite DEF LimitInv, QueueWithinLimit
<1>3. pc' = [pc EXCEPT ![p] = "scan"] /\ todo' = Entries
  <2>1. ~(Cardinality(Entries) > MaxQueueTickets)
    BY <1>2, LimitAssumption
  <2>2. QED
    BY <2>1 DEF LockQueue, Goto
<1>4. queue = NoProc
  BY DEF LockQueue
<1>5. \A q \in Proc : pc[q] \notin QueueSteps
  BY <1>4, NoProcAssumption DEF IInv, Consistent, QueueInv
<1>6. \A q \in Proc : pc'[q] \in ScanSteps \cup {"stage"} => pc'[q] = "scan"
  BY <1>3, <1>5 DEF IInv, TypeOK, QueueSteps, CreateSteps
<1>7. Covered'
  BY <1>1, <1>3, <1>6 DEF Covered, ScanSteps
<1>8. QED
  BY <1>1, <1>7 DEF LimitInv, QueueWithinLimit

\* A file leaves the list of the scan for one of its results, or is gone.
LEMMA ScanCovers ==
  ASSUME IInv, LimitInv, NEW p \in Proc,
         \/ ScanDone(p)
         \/ \E i \in Ids : \/ ScanStaging(p, i) \/ ScanStale(p, i) \/ ScanLive(p, i)
                          \/ ScanGone(p, i) \/ QuarantineStale(p, i) \/ RemoveStaleLease(p, i)
  PROVE  LimitInv'
<1> USE DEF Goto, files, locks, scan
<1>1. pc[p] \in ScanSteps /\ Entries \subseteq todo \cup live \cup stale
  <2>1. pc[p] \in ScanSteps
    BY ZenonT(30) DEF ScanDone, ScanStaging, ScanStale, ScanLive, ScanGone,
       QuarantineStale, RemoveStaleLease, Scannable, ScanSteps
  <2>2. QED
    BY <2>1 DEF LimitInv, Covered
<1>2. Entries' \subseteq Entries
  BY DEF ScanDone, ScanStaging, ScanStale, ScanLive, ScanGone, QuarantineStale,
     RemoveStaleLease, Entries, IInv, TypeOK
<1>3. Entries' \subseteq todo' \cup live' \cup stale'
  <2>1. ASSUME NEW i \in Ids, RemoveStaleLease(p, i) PROVE Entries' \subseteq todo' \cup live' \cup stale'
    <3>1. i \notin Entries
      BY <2>1, ZenonT(30) DEF RemoveStaleLease, NextStale, LimitInv, Covered
    <3>2. QED
      BY <1>1, <1>2, <2>1, <3>1 DEF RemoveStaleLease
  <2>2. ASSUME NEW i \in Ids, ScanStaging(p, i) PROVE Entries' \subseteq todo' \cup live' \cup stale'
    <3>1. i \notin Entries'
      BY <2>2 DEF ScanStaging, Entries, IInv, TypeOK
    <3>2. QED
      BY <1>1, <1>2, <2>2, <3>1, ZenonT(30) DEF ScanStaging
  <2>3. QED
    BY <1>1, <1>2, <2>1, <2>2, ZenonT(30) DEF ScanDone, ScanStale, ScanLive, ScanGone,
       QuarantineStale
<1>4. pc'[p] = "unlease" => \A i \in stale' : NextStale(i)' => i \notin Entries'
  <2> SUFFICES ASSUME pc'[p] = "unlease", NEW i \in stale', NEW j \in Ids, QuarantineStale(p, j),
                      NextStale(i)'
               PROVE  i \notin Entries'
    BY ZenonT(30) DEF ScanDone, ScanStaging, ScanStale, ScanLive, ScanGone,
       QuarantineStale, RemoveStaleLease, Scannable, IInv, TypeOK
  <2>1. stale' = stale /\ stale \subseteq Ids /\ NextStale(j)
    BY ZenonT(30) DEF QuarantineStale, IInv, TypeOK
  <2>2. i = j
    BY <2>1 DEF NextStale, Ids
  <2>3. QED
    BY <2>2 DEF QuarantineStale, Entries, IInv, TypeOK
<1>5. \A q \in Proc \ {p} : pc'[q] = pc[q] /\ pc[q] \notin QueueSteps
  <2>1. pc[p] \in QueueSteps
    BY <1>1 DEF QueueSteps
  <2>2. QED
    BY <2>1, Alone, ZenonT(30) DEF ScanDone, ScanStaging, ScanStale, ScanLive, ScanGone,
       QuarantineStale, RemoveStaleLease, IInv, TypeOK
<1>6. pc'[p] # "stage"
  BY <1>1, ZenonT(30) DEF ScanDone, ScanStaging, ScanStale, ScanLive, ScanGone,
     QuarantineStale, RemoveStaleLease, ScanSteps, IInv, TypeOK
<1>7. Covered'
  BY <1>3, <1>4, <1>5, <1>6, ZenonT(30) DEF Covered, QueueSteps, ScanSteps, CreateSteps
<1>8. QueueWithinLimit'
  <2>1. Entries' \in SUBSET Entries
    BY <1>2
  <2>2. Cardinality(Entries') <= Cardinality(Entries) /\ Cardinality(Entries') \in Nat
    BY <2>1, EntriesFinite, FS_CardinalityType, ZenonT(30)
  <2>3. QED
    BY <2>2, EntriesFinite, LimitAssumption DEF LimitInv, QueueWithinLimit
<1>9. QED
  BY <1>7, <1>8 DEF LimitInv

\* What the scan found live is all there is: a count below the limit leaves room for one more.
LEMMA AllocateKeeps ==
  ASSUME IInv, LimitInv, NEW p \in Proc, AllocateId(p)
  PROVE  LimitInv'
<1>1. /\ pc[p] = "reclaim" /\ stale = {} /\ Cardinality(live) < MaxQueueTickets
      /\ pc' = [pc EXCEPT ![p] = "stage"] /\ ticket' = ticket
  BY ZenonT(30) DEF AllocateId, Admissible, Goto, files
<1>2. Entries \subseteq live
  BY <1>1, ZenonT(30) DEF LimitInv, Covered, ScanSteps, IInv, Consistent, QueueInv
<1>3. IsFiniteSet(live)
  <2>1. IsFiniteSet(Ids)
    BY FS_Interval, CounterAssumption DEF Ids
  <2>2. QED
    BY <2>1, FS_Subset, ZenonT(30) DEF IInv, TypeOK
<1>4. Cardinality(Entries) < MaxQueueTickets
  <2>1. Cardinality(Entries) <= Cardinality(live) /\ Cardinality(live) \in Nat
    BY <1>2, <1>3, FS_Subset, FS_CardinalityType, ZenonT(30)
  <2>2. QED
    BY <1>1, <2>1, EntriesFinite, LimitAssumption
<1>5. \A q \in Proc \ {p} : pc'[q] = pc[q] /\ pc[q] \notin QueueSteps
  <2>1. pc[p] \in QueueSteps
    BY <1>1 DEF QueueSteps, ScanSteps
  <2>2. QED
    BY <1>1, <2>1, Alone, ZenonT(30) DEF IInv, TypeOK
<1>6. Entries' = Entries /\ pc'[p] = "stage"
  BY <1>1, ZenonT(30) DEF Entries, IInv, TypeOK
<1>7. Covered'
  BY <1>4, <1>5, <1>6, ZenonT(30) DEF Covered, QueueSteps, ScanSteps, CreateSteps
<1>8. QED
  BY <1>6, <1>7 DEF LimitInv, QueueWithinLimit

\* The file that is added takes the place that was counted for it.
LEMMA StagingKeeps ==
  ASSUME IInv, LimitInv, NEW p \in Proc, CreateStaging(p)
  PROVE  LimitInv'
<1>1. /\ pc[p] = "stage" /\ pc' = [pc EXCEPT ![p] = "publish"]
      /\ ticket' = [ticket EXCEPT ![own[p]] = "staging"]
  BY ZenonT(30) DEF CreateStaging, Goto
<1>2. Cardinality(Entries) < MaxQueueTickets
  BY <1>1, ZenonT(30) DEF LimitInv, Covered
<1>3. Entries' \subseteq Entries \cup {own[p]}
  BY <1>1, ZenonT(30) DEF Entries, IInv, TypeOK
<1>4. /\ IsFiniteSet(Entries \cup {own[p]})
      /\ Cardinality(Entries \cup {own[p]}) <= Cardinality(Entries) + 1
  <2>1. IsFiniteSet(Entries) /\ Cardinality(Entries) \in Nat
    BY EntriesFinite, FS_CardinalityType, ZenonT(30)
  <2>2. /\ IsFiniteSet(Entries \cup {own[p]})
        /\ \/ Cardinality(Entries \cup {own[p]}) = Cardinality(Entries)
           \/ Cardinality(Entries \cup {own[p]}) = Cardinality(Entries) + 1
    BY <2>1, FS_AddElement, Zenon
  <2>3. QED
    BY <2>1, <2>2
<1>5. Cardinality(Entries') <= Cardinality(Entries \cup {own[p]}) /\ IsFiniteSet(Entries')
  BY <1>3, <1>4, FS_Subset, ZenonT(30)
<1>6. QueueWithinLimit'
  BY <1>2, <1>4, <1>5, EntriesFinite, FS_CardinalityType, LimitAssumption DEF
     QueueWithinLimit
<1>7. \A q \in Proc : pc'[q] \notin ScanSteps \cup {"stage"}
  <2>1. pc[p] \in QueueSteps
    BY <1>1 DEF QueueSteps, CreateSteps
  <2>2. QED
    BY <1>1, <2>1, Alone, ZenonT(30) DEF IInv, TypeOK, QueueSteps, ScanSteps,
       CreateSteps
<1>8. QED
  BY <1>6, <1>7, ZenonT(30) DEF LimitInv, Covered, ScanSteps

-----------------------------------------------------------------------------
\* Every step keeps the limit.
LEMMA LimitStep ==
  ASSUME IInv, LimitInv, [Next]_vars
  PROVE  LimitInv'
<1>1. ASSUME NEW p \in Proc, ProcStep(p) PROVE LimitInv'
  <2>1. CASE ScanStep(p)
    BY <2>1, ScanCovers, LeavingIsQuiet, QuietKeeps, ZenonT(30) DEF ScanStep
  <2>2. CASE CreateStep(p)
    BY <2>2, AllocateKeeps, StagingKeeps, PrivateIsQuiet, LeavingIsQuiet, QuietKeeps,
       ZenonT(30) DEF CreateStep
  <2>3. CASE WaitStep(p)
    BY <2>3, PrivateIsQuiet, LeavingIsQuiet, QuietKeeps, ZenonT(30) DEF WaitStep
  <2>4. QED
    BY <1>1, <2>1, <2>2, <2>3, LockKeeps, PrivateIsQuiet, CrashIsQuiet, QuietKeeps,
       ZenonT(30) DEF ProcStep
<1>2. CASE \/ UNCHANGED vars
           \/ \E i \in Ids : Expire(i)
  <2>1. UNCHANGED <<pc, ticket, todo, live, stale>>
    BY <1>2, ZenonT(30) DEF vars, Expire, files, locks, scan
  <2>2. Quiet
    BY <2>1 DEF Quiet, Entries
  <2>3. QED
    BY <2>2, QuietKeeps, ZenonT(30)
<1>3. QED
  BY <1>1, <1>2 DEF Next

(***************************************************************************)
(* However many processes come at once, tickets/ never holds more than     *)
(* MAX_QUEUE_TICKETS files, so that scan_tickets never throws a waiting    *)
(* process out of a full queue (next_ticket_id, create_ticket).            *)
(***************************************************************************)
THEOREM LimitKept == Spec => []QueueWithinLimit
<1>1. Init => LimitInv
  <2> SUFFICES ASSUME Init PROVE LimitInv
    OBVIOUS
  <2>1. Entries = {}
    BY DEF Init, Entries
  <2>2. Cardinality(Entries) = 0
    BY <2>1, FS_EmptySet
  <2>3. QED
    BY <2>1, <2>2, LimitAssumption DEF Init, LimitInv, QueueWithinLimit, Covered,
       ScanSteps
<1>2. LimitInv => QueueWithinLimit
  BY DEF LimitInv
<1>3. QED
  BY <1>1, <1>2, Invariant, LimitStep, PTL DEF Spec
=============================================================================
