------------------------------ MODULE Admission ------------------------------
(***************************************************************************)
(* The host-wide admission coordinator of src/admission.rs: processes that *)
(* want the single heavy-command slot queue with numbered ticket files.    *)
(*                                                                         *)
(* All state lives in one directory shared by the processes:               *)
(*   queue.lock, slot.lock      advisory OS locks (queue, slot)            *)
(*   tickets/ticket-N.json      one file per ticket, OS-locked by its      *)
(*                              owner (ticket, ticketLock)                 *)
(*   leases/lease-N.json        state and heartbeat of a ticket (lease,    *)
(*                              expired)                                   *)
(*   next-ticket-v1             the ticket counter (counter)               *)
(* A process may die at any step; the OS then drops its locks and every    *)
(* file stays as it was.  Storage may refuse any creation, replacement,    *)
(* rename or removal, which then has no effect; reading and locking do not *)
(* fail.                                                                   *)
(***************************************************************************)
EXTENDS Integers, FiniteSets

CONSTANTS
    Proc,               \* processes that call AdmissionCoordinator::acquire
    Operator,           \* processes that run the reconciliation command
    NoProc,             \* "nobody" as the holder of a lock
    MaxQueueTickets,    \* MAX_QUEUE_TICKETS
    MaxCounter          \* the largest ticket counter (u64::MAX in the code)

ASSUME NoProcAssumption == NoProc \notin Proc \cup Operator
ASSUME ActorsAssumption == Proc \cap Operator = {}
ASSUME LimitAssumption == MaxQueueTickets \in Nat \ {0}
ASSUME CounterAssumption == MaxCounter \in Nat \ {0}

VARIABLES
    pc,         \* where each process is inside acquire, release or drop
    own,        \* the ticket of its reservation or guard, 0 when it has none
    pass,       \* which pass of release_inner a releasing process is in
    hb,         \* its heartbeat thread
    ticket,     \* where the ticket file of an id is
    lease,      \* the lease record of an id
    expired,    \* ids whose lease heartbeat is LEASE_DURATION old or older
    ticketLock, \* holder of the OS lock on a ticket file
    queue,      \* holder of queue.lock
    slot,       \* holder of slot.lock
    counter,    \* content of next-ticket-v1 (1 while the file is missing)
    todo,       \* the scan of the queue-lock holder: directory entries left,
    live,       \*   tickets found live
    stale       \*   and tickets found stale (OS-locked by the scanner)

files == <<ticket, lease, expired>>
locks == <<ticketLock, queue, slot>>
scan  == <<todo, live, stale>>
vars  == <<pc, own, pass, hb, ticket, lease, expired, ticketLock, queue, slot,
           counter, todo, live, stale>>

Ids == 1..(MaxCounter - 1)
Actor == Proc \cup Operator \cup {NoProc}

\* Steps taken with queue.lock held, by what they belong to.
ScanSteps    == {"scan", "reclaim", "unlease"}
CreateSteps  == {"stage", "publish", "lease", "leaseWrite"}
CleanupSteps == {"cleanupLease", "cleanupTicket"}
ReleaseSteps == {"stopHeartbeat", "releaseLease", "releaseTicket"}
QueueSteps   == ScanSteps \cup CreateSteps \cup CleanupSteps \cup ReleaseSteps
                  \cup {"activate"}
\* Steps taken without it.
DropSteps      == {"drop", "dropTicket", "dropLease"}
DropGuardSteps == {"dropGuard", "dropSlot", "dropHeartbeat"}
Steps == QueueSteps \cup DropSteps \cup DropGuardSteps
           \cup {"idle", "enter", "wait", "cleanup", "hold", "release"}

TypeOK ==
    /\ pc \in [Proc -> Steps]
    /\ own \in [Proc -> Ids \cup {0}]
    /\ pass \in [Proc -> 0..2]
    /\ hb \in [Proc -> {"none", "sleeping", "read", "dead"}]
    /\ ticket \in [Ids -> {"none", "staging", "present", "quarantined"}]
    /\ lease \in [Ids -> {"none", "torn", "queued", "active"}]
    /\ expired \in SUBSET Ids
    /\ ticketLock \in [Ids -> Actor]
    /\ queue \in Actor
    /\ slot \in Actor
    /\ counter \in 1..MaxCounter
    /\ todo \in SUBSET Ids
    /\ live \in SUBSET Ids
    /\ stale \in SUBSET Ids

Init ==
    /\ pc = [p \in Proc |-> "idle"]
    /\ own = [p \in Proc |-> 0]
    /\ pass = [p \in Proc |-> 0]
    /\ hb = [p \in Proc |-> "none"]
    /\ ticket = [i \in Ids |-> "none"]
    /\ lease = [i \in Ids |-> "none"]
    /\ expired = {}
    /\ ticketLock = [i \in Ids |-> NoProc]
    /\ queue = NoProc
    /\ slot = NoProc
    /\ counter = 1
    /\ todo = {} /\ live = {} /\ stale = {}

-----------------------------------------------------------------------------
(* Building blocks.                                                        *)

Entries == {i \in Ids : ticket[i] \in {"staging", "present"}}

Goto(p, step) == pc' = [pc EXCEPT ![p] = step]

\* Closing the descriptors p holds on other processes' tickets during a scan.
UnlockStale(p) ==
    ticketLock' = [i \in Ids |-> IF i \in stale THEN NoProc ELSE ticketLock[i]]

ForgetScan == todo' = {} /\ live' = {} /\ stale' = {}

RemoveLease(i) ==
    /\ lease' = [lease EXCEPT ![i] = "none"]
    /\ expired' = expired \ {i}

\* Removals whose error is only remembered or ignored: the file may stay.
TryRemoveLease(i) ==
    \E l \in {"none", lease[i]} :
        /\ lease' = [lease EXCEPT ![i] = l]
        /\ expired' = IF l = "none" THEN expired \ {i} ELSE expired

TryRemoveTicket(i) ==
    \E t \in {"none", ticket[i]} :
        ticket' = [ticket EXCEPT ![i] = IF @ = "present" THEN t ELSE @]

UnlockTicket(p, i) ==
    ticketLock' = [ticketLock EXCEPT ![i] = IF @ = p THEN NoProc ELSE @]

-----------------------------------------------------------------------------
(* acquire, up to the queue lock.  initialize_until finds an initialised   *)
(* root here: it takes and releases the queue lock and changes nothing.    *)

Acquire(p) ==
    /\ pc[p] = "idle"
    /\ Goto(p, "enter")
    /\ UNCHANGED <<own, pass, hb, files, locks, counter, scan>>

\* The deadline passes or the caller cancels before a ticket exists.
EnterFails(p) ==
    /\ pc[p] = "enter"
    /\ Goto(p, "idle")
    /\ UNCHANGED <<own, pass, hb, files, locks, counter, scan>>

\* lock_queue_until succeeds and scan_tickets lists the directory.  More than
\* MAX_QUEUE_TICKETS entries are an error that ends the whole acquire.
LockQueue(p) ==
    /\ pc[p] \in {"enter", "wait"}
    /\ queue = NoProc
    /\ LET full == Cardinality(Entries) > MaxQueueTickets
       IN  /\ Goto(p, IF ~full THEN "scan" ELSE IF own[p] = 0 THEN "idle" ELSE "drop")
           /\ queue' = IF full THEN NoProc ELSE p
           /\ todo' = IF full THEN {} ELSE Entries
    /\ UNCHANGED <<own, pass, hb, files, ticketLock, slot, counter, live, stale>>

-----------------------------------------------------------------------------
(* scan_tickets and remove_stale, with the queue lock held.                *)

\* `?` on an error inside the critical section: the queue descriptor and the
\* stale descriptors close, then the reservation (if any) is dropped.
FailUnderQueue(p) ==
    /\ Goto(p, IF own[p] = 0 THEN "idle" ELSE "drop")
    /\ queue' = NoProc
    /\ UnlockStale(p)
    /\ ForgetScan

\* An entry that vanished since the listing, or a lease that does not parse.
Unscannable(p, i) ==
    \/ i \notin Entries
    \/ /\ ticket[i] = "present"
       /\ i # own[p]
       /\ ticketLock[i] = NoProc
       /\ lease[i] = "torn"

\* Mutants of Reclaimable: the OS lock is not asked; expired leases block.
ReclaimableUnlockedOrNot(i) == lease[i] = "none" \/ i \in expired
ReclaimableNeverExpires(i) == ticketLock[i] = NoProc /\ lease[i] = "none"

\* The reclaim condition: unlocked, and the lease absent or expired.
Reclaimable(i) ==
    /\ ticketLock[i] = NoProc
    /\ lease[i] = "none" \/ i \in expired

Scannable(p, i) == pc[p] = "scan" /\ i \in todo /\ ~Unscannable(p, i)

\* A staging file is the residue of a dead creator: move it to quarantine/.
ScanStaging(p, i) ==
    /\ Scannable(p, i)
    /\ ticket[i] = "staging"
    /\ todo' = todo \ {i}
    /\ ticket' = [ticket EXCEPT ![i] = "quarantined"]
    /\ UNCHANGED <<pc, own, pass, hb, lease, expired, locks, counter, live, stale>>

ScanStale(p, i) ==
    /\ Scannable(p, i)
    /\ ticket[i] = "present" /\ i # own[p] /\ Reclaimable(i)
    /\ todo' = todo \ {i}
    /\ stale' = stale \cup {i}
    /\ ticketLock' = [ticketLock EXCEPT ![i] = p]
    /\ UNCHANGED <<pc, own, pass, hb, files, queue, slot, counter, live>>

ScanLive(p, i) ==
    /\ Scannable(p, i)
    /\ ticket[i] = "present" /\ (i = own[p] \/ ~Reclaimable(i))
    /\ todo' = todo \ {i}
    /\ live' = live \cup {i}
    /\ UNCHANGED <<pc, own, pass, hb, files, locks, counter, stale>>

\* A dropper removed the entry before the directory stream reached it.
ScanGone(p, i) ==
    /\ pc[p] = "scan"
    /\ i \in todo \ Entries
    /\ todo' = todo \ {i}
    /\ UNCHANGED <<pc, own, pass, hb, files, locks, counter, live, stale>>

ScanError(p, i) ==
    /\ pc[p] = "scan"
    /\ i \in todo
    /\ Unscannable(p, i) \/ ticket[i] = "staging"     \* the rename is refused
    /\ FailUnderQueue(p)
    /\ UNCHANGED <<own, pass, hb, files, slot, counter>>

ScanDone(p) ==
    /\ pc[p] = "scan"
    /\ todo = {}
    /\ Goto(p, "reclaim")
    /\ UNCHANGED <<own, pass, hb, files, locks, counter, scan>>

\* remove_stale takes the stale tickets in id order: unlock, move to
\* quarantine/, then remove the lease.
NextStale(i) == i \in stale /\ \A j \in stale : i <= j

QuarantineStale(p, i) ==
    /\ pc[p] = "reclaim"
    /\ NextStale(i)
    /\ ticket[i] = "present"
    /\ ticket' = [ticket EXCEPT ![i] = "quarantined"]
    /\ ticketLock' = [ticketLock EXCEPT ![i] = NoProc]
    /\ Goto(p, "unlease")
    /\ UNCHANGED <<own, pass, hb, lease, expired, queue, slot, counter, scan>>

\* The ticket is gone (its owner's drop removed it after the scan locked it),
\* or storage refuses the rename or the removal.
RemoveStaleError(p, i) ==
    /\ pc[p] \in {"reclaim", "unlease"}
    /\ NextStale(i)
    /\ FailUnderQueue(p)
    /\ UNCHANGED <<own, pass, hb, files, slot, counter>>

RemoveStaleLease(p, i) ==
    /\ pc[p] = "unlease"
    /\ NextStale(i)
    /\ RemoveLease(i)
    /\ stale' = stale \ {i}
    /\ Goto(p, "reclaim")
    /\ UNCHANGED <<own, pass, hb, ticket, locks, counter, todo, live>>

-----------------------------------------------------------------------------
(* The first scan ends in a new ticket: next_ticket_id, create_ticket.     *)

Admissible(p) == pc[p] = "reclaim" /\ stale = {} /\ own[p] = 0

\* Back out of the critical section without a ticket.
LeaveQueue(p) ==
    /\ Goto(p, "idle")
    /\ queue' = NoProc
    /\ ForgetScan
    /\ UNCHANGED <<own, pass, hb, files, ticketLock, slot, counter>>

\* Mutant of IsNextTicketId: the persistent counter is ignored.
IsNextTicketIdNoCounter(n) ==
    /\ \A i \in Ids : ticket[i] = "present" => i < n
    /\ n = 1 \/ (n > 1 /\ ticket[n - 1] = "present")

\* max(highest present ticket, counter - 1) + 1
IsNextTicketId(n) ==
    /\ counter <= n
    /\ \A i \in Ids : ticket[i] = "present" => i < n
    /\ \/ n = counter
       \/ n > 1 /\ ticket[n - 1] = "present"

QueueFull(p) ==
    /\ Admissible(p)
    /\ Cardinality(live) >= MaxQueueTickets
    /\ LeaveQueue(p)

\* The counter is exhausted, cannot be replaced, or the deadline passes.
AllocateFails(p) ==
    /\ Admissible(p)
    /\ Cardinality(live) < MaxQueueTickets
    /\ LeaveQueue(p)

\* Mutant of AllocateId: the limit is off by one.
AllocateIdOffByOne(p) ==
    /\ Admissible(p)
    /\ Cardinality(live) <= MaxQueueTickets
    /\ \E n \in Ids : /\ IsNextTicketId(n)
                     /\ counter' = n + 1
                     /\ own' = [own EXCEPT ![p] = n]
    /\ Goto(p, "stage")
    /\ ForgetScan
    /\ UNCHANGED <<pass, hb, files, locks>>

AllocateId(p) ==
    /\ Admissible(p)
    /\ Cardinality(live) < MaxQueueTickets
    /\ \E n \in Ids :
         /\ IsNextTicketId(n)
         /\ counter' = n + 1
         /\ own' = [own EXCEPT ![p] = n]
    /\ Goto(p, "stage")
    /\ ForgetScan
    /\ UNCHANGED <<pass, hb, files, locks>>

CreateStaging(p) ==
    /\ pc[p] = "stage"
    /\ ticket' = [ticket EXCEPT ![own[p]] = "staging"]
    /\ Goto(p, "publish")
    /\ UNCHANGED <<own, pass, hb, lease, expired, locks, counter, scan>>

\* The staging file cannot be created, written or renamed; what exists stays.
CreateFails(p) ==
    /\ pc[p] \in {"stage", "publish"}
    /\ Goto(p, "idle")
    /\ own' = [own EXCEPT ![p] = 0]
    /\ queue' = NoProc
    /\ UNCHANGED <<pass, hb, files, ticketLock, slot, counter, scan>>

PublishTicket(p) ==
    /\ pc[p] = "publish"
    /\ ticket' = [ticket EXCEPT ![own[p]] = "present"]
    /\ ticketLock' = [ticketLock EXCEPT ![own[p]] = p]
    /\ Goto(p, "lease")
    /\ UNCHANGED <<own, pass, hb, lease, expired, queue, slot, counter, scan>>

\* create_lease opens the file and then writes it: two steps for a crash.
OpenLease(p) ==
    /\ pc[p] = "lease"
    /\ lease' = [lease EXCEPT ![own[p]] = "torn"]
    /\ Goto(p, "leaseWrite")
    /\ UNCHANGED <<own, pass, hb, ticket, expired, locks, counter, scan>>

WriteLease(p) ==
    /\ pc[p] = "leaseWrite"
    /\ lease' = [lease EXCEPT ![own[p]] = "queued"]
    /\ queue' = NoProc
    /\ Goto(p, "wait")
    /\ UNCHANGED <<own, pass, hb, ticket, expired, ticketLock, slot, counter, scan>>

\* create_lease fails: the ticket is unlocked and removed, a lease file that
\* was opened stays.
LeaseFails(p) ==
    /\ pc[p] \in {"lease", "leaseWrite"}
    /\ UnlockTicket(p, own[p])
    /\ TryRemoveTicket(own[p])
    /\ queue' = NoProc
    /\ own' = [own EXCEPT ![p] = 0]
    /\ Goto(p, "idle")
    /\ UNCHANGED <<pass, hb, lease, expired, slot, counter, scan>>

-----------------------------------------------------------------------------
(* The loop of acquire: scan with the own ticket, then try the slot.       *)

FirstIsOurs(p) ==
    /\ own[p] \in live
    /\ \A i \in live : own[p] <= i

Decides(p) == pc[p] = "reclaim" /\ stale = {} /\ own[p] # 0

\* Mutant of TryLockSlot: the slot is not tried, only the queue order counts.
TryLockSlotBlind(p) ==
    /\ Decides(p)
    /\ FirstIsOurs(p)
    /\ slot' = p
    /\ Goto(p, "activate")
    /\ ForgetScan
    /\ UNCHANGED <<own, pass, hb, files, ticketLock, queue, counter>>

TryLockSlot(p) ==
    /\ Decides(p)
    /\ FirstIsOurs(p)
    /\ slot = NoProc
    /\ slot' = p
    /\ Goto(p, "activate")
    /\ ForgetScan
    /\ UNCHANGED <<own, pass, hb, files, ticketLock, queue, counter>>

KeepWaiting(p) ==
    /\ Decides(p)
    /\ ~(FirstIsOurs(p) /\ slot = NoProc)
    /\ queue' = NoProc
    /\ Goto(p, "wait")
    /\ ForgetScan
    /\ UNCHANGED <<own, pass, hb, files, ticketLock, slot, counter>>

\* activate_lease requires a queued lease and replaces it by a fresh active
\* one; then the heartbeat thread starts, the queue is unlocked and the guard
\* returned.
ActivateLease(p) ==
    /\ pc[p] = "activate"
    /\ lease[own[p]] = "queued"
    /\ lease' = [lease EXCEPT ![own[p]] = "active"]
    /\ expired' = expired \ {own[p]}
    /\ hb' = [hb EXCEPT ![p] = "sleeping"]
    /\ queue' = NoProc
    /\ Goto(p, "hold")
    /\ UNCHANGED <<own, pass, ticket, ticketLock, slot, counter, scan>>

ActivateFails(p) ==
    /\ pc[p] = "activate"
    /\ slot' = NoProc
    /\ queue' = NoProc
    /\ Goto(p, "cleanup")
    /\ UNCHANGED <<own, pass, hb, files, ticketLock, counter, scan>>

-----------------------------------------------------------------------------
(* Giving up: TicketReservation::cleanup and TicketReservation::drop.      *)

\* deadline.check at the head of the loop fails.
GiveUp(p) ==
    /\ pc[p] = "wait"
    /\ Goto(p, "cleanup")
    /\ UNCHANGED <<own, pass, hb, files, locks, counter, scan>>

\* Mutant of QueueLockFails: cleanup waits for the queue lock without a limit.
QueueLockFailsOnlyInLoop(p) ==
    /\ pc[p] = "wait"
    /\ queue # NoProc
    /\ Goto(p, "drop")
    /\ UNCHANGED <<own, pass, hb, files, locks, counter, scan>>

\* The deadline passes while another process holds the queue lock: `?`
\* drops the reservation.  The same happens inside cleanup.
QueueLockFails(p) ==
    /\ pc[p] \in {"wait", "cleanup"}
    /\ queue # NoProc
    /\ Goto(p, "drop")
    /\ UNCHANGED <<own, pass, hb, files, locks, counter, scan>>

CleanupLock(p) ==
    /\ pc[p] = "cleanup"
    /\ queue = NoProc
    /\ queue' = p
    /\ Goto(p, "cleanupLease")
    /\ UNCHANGED <<own, pass, hb, files, ticketLock, slot, counter, scan>>

CleanupLease(p) ==
    /\ pc[p] = "cleanupLease"
    /\ UnlockTicket(p, own[p])
    /\ TryRemoveLease(own[p])
    /\ Goto(p, "cleanupTicket")
    /\ UNCHANGED <<own, pass, hb, ticket, queue, slot, counter, scan>>

CleanupTicket(p) ==
    /\ pc[p] = "cleanupTicket"
    /\ TryRemoveTicket(own[p])
    /\ own' = [own EXCEPT ![p] = 0]
    /\ queue' = NoProc
    /\ Goto(p, "idle")
    /\ UNCHANGED <<pass, hb, lease, expired, ticketLock, slot, counter, scan>>

\* The drop runs without the queue lock: unlock, remove ticket, remove lease.
DropUnlock(p) ==
    /\ pc[p] = "drop"
    /\ UnlockTicket(p, own[p])
    /\ Goto(p, "dropTicket")
    /\ UNCHANGED <<own, pass, hb, files, queue, slot, counter, scan>>

DropTicket(p) ==
    /\ pc[p] = "dropTicket"
    /\ TryRemoveTicket(own[p])
    /\ Goto(p, "dropLease")
    /\ UNCHANGED <<own, pass, hb, lease, expired, locks, counter, scan>>

DropLease(p) ==
    /\ pc[p] = "dropLease"
    /\ TryRemoveLease(own[p])
    /\ own' = [own EXCEPT ![p] = 0]
    /\ Goto(p, "idle")
    /\ UNCHANGED <<pass, hb, ticket, locks, counter, scan>>

-----------------------------------------------------------------------------
(* The heartbeat thread of an admitted process: it renews the lease by a   *)
(* read and an atomic replace, never holding the queue lock.               *)

HeartbeatRead(p) ==
    /\ hb[p] = "sleeping"
    /\ pc[p] \notin {"stopHeartbeat", "dropHeartbeat"}    \* the stop is sent
    /\ hb' = [hb EXCEPT ![p] = IF lease[own[p]] = "active" THEN "read" ELSE "dead"]
    /\ UNCHANGED <<pc, own, pass, files, locks, counter, scan>>

HeartbeatWrite(p) ==
    /\ hb[p] = "read"
    /\ lease' = [lease EXCEPT ![own[p]] = "active"]
    /\ expired' = expired \ {own[p]}
    /\ hb' = [hb EXCEPT ![p] = "sleeping"]
    /\ UNCHANGED <<pc, own, pass, ticket, locks, counter, scan>>

HeartbeatFails(p) ==
    /\ hb[p] = "read"
    /\ hb' = [hb EXCEPT ![p] = "dead"]
    /\ UNCHANGED <<pc, own, pass, files, locks, counter, scan>>

-----------------------------------------------------------------------------
(* AdmissionGuard: release() runs release_inner and then Drop runs it a    *)
(* second time; a guard that is only dropped goes straight to pass 2.      *)

Release(p, n) ==
    /\ pc[p] = "hold"
    /\ pass' = [pass EXCEPT ![p] = n]
    /\ Goto(p, "release")
    /\ UNCHANGED <<own, hb, files, locks, counter, scan>>

ReleaseLock(p) ==
    /\ pc[p] = "release"
    /\ queue = NoProc
    /\ queue' = p
    /\ Goto(p, "stopHeartbeat")
    /\ UNCHANGED <<own, pass, hb, files, ticketLock, slot, counter, scan>>

\* The queue lock stays busy for DEFAULT_STATUS_TIMEOUT: after pass 1 Drop
\* tries again, after pass 2 the fields of the guard are dropped.
ReleaseLockFails(p) ==
    /\ pc[p] = "release"
    /\ queue # NoProc
    /\ Goto(p, IF pass[p] = 1 THEN "release" ELSE "dropGuard")
    /\ pass' = [pass EXCEPT ![p] = 2]
    /\ UNCHANGED <<own, hb, files, locks, counter, scan>>

\* HeartbeatHandle::stop joins the thread: a renewal in progress finishes.
StopHeartbeat(p) ==
    /\ pc[p] = "stopHeartbeat"
    /\ hb[p] # "read"
    /\ hb' = [hb EXCEPT ![p] = "none"]
    /\ Goto(p, "releaseLease")
    /\ UNCHANGED <<own, pass, files, locks, counter, scan>>

ReleaseLease(p) ==
    /\ pc[p] = "releaseLease"
    /\ TryRemoveLease(own[p])
    /\ Goto(p, "releaseTicket")
    /\ UNCHANGED <<own, pass, hb, ticket, locks, counter, scan>>

ReleaseTicket(p) ==
    /\ pc[p] = "releaseTicket"
    /\ slot' = IF slot = p THEN NoProc ELSE slot
    /\ UnlockTicket(p, own[p])
    /\ TryRemoveTicket(own[p])
    /\ queue' = NoProc
    /\ Goto(p, IF pass[p] = 1 THEN "release" ELSE "idle")
    /\ own' = [own EXCEPT ![p] = IF pass[p] = 1 THEN @ ELSE 0]
    /\ pass' = [pass EXCEPT ![p] = IF @ = 1 THEN 2 ELSE 0]
    /\ UNCHANGED <<hb, lease, expired, counter, scan>>

\* Dropping the fields: ticket descriptor, slot descriptor, heartbeat.
DropGuardTicket(p) ==
    /\ pc[p] = "dropGuard"
    /\ UnlockTicket(p, own[p])
    /\ Goto(p, "dropSlot")
    /\ UNCHANGED <<own, pass, hb, files, queue, slot, counter, scan>>

DropGuardSlot(p) ==
    /\ pc[p] = "dropSlot"
    /\ slot' = IF slot = p THEN NoProc ELSE slot
    /\ Goto(p, "dropHeartbeat")
    /\ UNCHANGED <<own, pass, hb, files, ticketLock, queue, counter, scan>>

DropGuardHeartbeat(p) ==
    /\ pc[p] = "dropHeartbeat"
    /\ hb[p] # "read"
    /\ hb' = [hb EXCEPT ![p] = "none"]
    /\ own' = [own EXCEPT ![p] = 0]
    /\ pass' = [pass EXCEPT ![p] = 0]
    /\ Goto(p, "idle")
    /\ UNCHANGED <<files, locks, counter, scan>>

-----------------------------------------------------------------------------
(* The environment: process death and the passing of time.                 *)

Crash(p) ==
    /\ pc[p] # "idle"
    /\ Goto(p, "idle")
    /\ own' = [own EXCEPT ![p] = 0]
    /\ pass' = [pass EXCEPT ![p] = 0]
    /\ hb' = [hb EXCEPT ![p] = "none"]
    /\ queue' = IF queue = p THEN NoProc ELSE queue
    /\ slot' = IF slot = p THEN NoProc ELSE slot
    /\ ticketLock' = [i \in Ids |-> IF ticketLock[i] = p THEN NoProc ELSE ticketLock[i]]
    /\ todo' = IF queue = p THEN {} ELSE todo
    /\ live' = IF queue = p THEN {} ELSE live
    /\ stale' = IF queue = p THEN {} ELSE stale
    /\ UNCHANGED <<files, counter>>

\* LEASE_DURATION passes without a renewal of lease i.
Expire(i) ==
    /\ lease[i] \in {"queued", "active"}
    /\ i \notin expired
    /\ expired' = expired \cup {i}
    /\ UNCHANGED <<pc, own, pass, hb, ticket, lease, locks, counter, scan>>

-----------------------------------------------------------------------------
ScanStep(p) ==
    \/ ScanDone(p)
    \/ \E i \in Ids :
         \/ ScanStaging(p, i) \/ ScanStale(p, i) \/ ScanLive(p, i)
         \/ ScanGone(p, i) \/ ScanError(p, i)
         \/ QuarantineStale(p, i) \/ RemoveStaleLease(p, i)
         \/ RemoveStaleError(p, i)

CreateStep(p) ==
    \/ QueueFull(p) \/ AllocateFails(p) \/ AllocateId(p)
    \/ CreateStaging(p) \/ CreateFails(p) \/ PublishTicket(p)
    \/ OpenLease(p) \/ WriteLease(p) \/ LeaseFails(p)

WaitStep(p) ==
    \/ TryLockSlot(p) \/ KeepWaiting(p)
    \/ ActivateLease(p) \/ ActivateFails(p)

GiveUpStep(p) ==
    \/ CleanupLock(p) \/ CleanupLease(p) \/ CleanupTicket(p)
    \/ DropUnlock(p) \/ DropTicket(p) \/ DropLease(p)

HeartbeatStep(p) == HeartbeatRead(p) \/ HeartbeatWrite(p) \/ HeartbeatFails(p)

ReleaseStep(p) ==
    \/ ReleaseLock(p) \/ ReleaseLockFails(p) \/ StopHeartbeat(p)
    \/ ReleaseLease(p) \/ ReleaseTicket(p)
    \/ DropGuardTicket(p) \/ DropGuardSlot(p) \/ DropGuardHeartbeat(p)

ProcStep(p) ==
    \/ Acquire(p) \/ EnterFails(p) \/ LockQueue(p)
    \/ ScanStep(p) \/ CreateStep(p) \/ WaitStep(p)
    \/ GiveUp(p) \/ QueueLockFails(p) \/ GiveUpStep(p)
    \/ HeartbeatStep(p)
    \/ \E n \in {1, 2} : Release(p, n)
    \/ ReleaseStep(p)
    \/ Crash(p)

Next ==
    \/ \E p \in Proc : ProcStep(p)
    \/ \E i \in Ids : Expire(i)

Spec == Init /\ [][Next]_vars

-----------------------------------------------------------------------------
(* Fairness.  A running process takes its next step, and a renewal of the  *)
(* lease that was begun ends.                                              *)

Proceed(p) ==
    \/ ScanStep(p) \/ CreateStep(p) \/ WaitStep(p) \/ GiveUpStep(p)
    \/ pc[p] = "cleanup" /\ QueueLockFails(p)
    \/ ReleaseStep(p)

Running(p) == WF_vars(Proceed(p)) /\ WF_vars(HeartbeatWrite(p) \/ HeartbeatFails(p))

FairSpec == Spec /\ \A p \in Proc : Running(p)

\* Deadlines pass: the check at the head of the loop, which a waiting process
\* reaches again and again, finally fails.  Nothing is assumed about who gets
\* the queue lock.
DeadlinesPass ==
    \A p \in Proc : WF_vars(EnterFails(p)) /\ SF_vars(GiveUp(p))

\* No deadline needs to pass, but a waiting process that finds the queue lock
\* free again and again at its 25 ms polls finally gets it, an admitted
\* command ends (its supervisor bounds it), and leases age.
Patience ==
    /\ \A p \in Proc : /\ SF_vars(pc[p] = "wait" /\ LockQueue(p))
                       /\ WF_vars(\E n \in {1, 2} : Release(p, n))
    /\ \A i \in Ids : WF_vars(Expire(i))

-----------------------------------------------------------------------------
(* What the coordinator promises.                                          *)

\* p waits in the loop of acquire with a published ticket.
Queued(p) == own[p] # 0 /\ pc[p] \in ScanSteps \cup {"wait", "activate"}

\* p has an AdmissionGuard that it has not begun to dismantle.
Admitted(p) == hb[p] # "none" /\ pc[p] \notin DropGuardSteps

\* Nobody else ever takes away what a live process relies on: while a process
\* waits, its ticket file is in tickets/, OS-locked by it, and its lease is
\* the queued lease that activate_lease will ask for; while it is admitted,
\* it also holds the slot and its lease is active.  Scanners, droppers,
\* releasers, expiry and crashes of others must all preserve this.
OwnersUndisturbed ==
    \A p \in Proc :
        /\ Queued(p) => /\ ticket[own[p]] = "present"
                        /\ ticketLock[own[p]] = p
                        /\ lease[own[p]] = "queued"
        /\ Admitted(p) => /\ ticket[own[p]] = "present"
                          /\ ticketLock[own[p]] = p
                          /\ lease[own[p]] = "active"
                          /\ slot = p

\* The queue is FIFO: a process that takes the slot (try_lock_slot in acquire)
\* has the lowest ticket of all processes that wait at that moment.
AdmissionIsFifo ==
    [][\A p \in Proc : slot' = p /\ slot # p
          => \A q \in Proc : Queued(q) => own[p] <= own[q]]_vars

\* next_ticket_id never hands out a number that left any trace: no ticket, no
\* staging file, no lease and nothing in quarantine/ has it.  So create_lease
\* (create_new) cannot collide with residue of a crash, and the replacing
\* rename of quarantine_file cannot overwrite earlier evidence.
TicketNumbersFresh ==
    [][\A p \in Proc : own'[p] # own[p] /\ own'[p] # 0
          => /\ ticket[own'[p]] = "none"
             /\ lease[own'[p]] = "none"
             /\ \A q \in Proc : own[q] # own'[p]]_vars

\* tickets/ never holds more than MAX_QUEUE_TICKETS entries, staging files
\* and stale tickets included.  scan_tickets fails on more, which would throw
\* every waiting process out of the queue.
QueueWithinLimit == Cardinality(Entries) <= MaxQueueTickets

\* When deadlines pass, every call of acquire returns, admitted or with an
\* error, and so does every release of the guard, however the queue lock is
\* contended: the waiting loop, the cleanup after a timeout and both passes of
\* release_inner are bounded, and joining the heartbeat thread cannot deadlock.
CallsReturn ==
    DeadlinesPass => \A p \in Proc : /\ pc[p] = "enter" ~> pc[p] \in {"idle", "hold"}
                                     /\ pc[p] = "release" ~> pc[p] = "idle"

\* No process waits forever even without its deadline: tickets of dead
\* processes, also the holder's, are reclaimed once their lease expires, and
\* no live process is stuck behind them.
NobodyWaitsForever == Patience => \A p \in Proc : Queued(p) ~> ~Queued(p)

\* The detailed coordinator implements the single FIFO slot of FifoSlot.  A
\* process joins when its queued lease is written, holds while it has the OS
\* lock on slot.lock, and is out as soon as it starts to give up.
Stage(p) == IF slot = p THEN "holding" ELSE IF Queued(p) THEN "waiting" ELSE "out"

Abstract == INSTANCE FifoSlot
    WITH Number <- Ids,
         stage <- [p \in Proc |-> Stage(p)],
         number <- [p \in Proc |-> IF Stage(p) = "out" THEN 0 ELSE own[p]]

\* Every step of acquire, release, drop and of the environment is a step of
\* the FIFO slot or leaves it unchanged: at most one holder, handed out in
\* order of arrival, and no latecomer overtakes.
ImplementsFifoSlot == Abstract!Spec
=============================================================================
