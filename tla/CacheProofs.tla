----------------------------- MODULE CacheProofs ------------------------------
(***************************************************************************)
(* What CachePromotion promises of cache entries, for every set of         *)
(* processes, keys, plans and generations and any number of runs, crashes  *)
(* and storage failures.                                                   *)
(***************************************************************************)
EXTENDS CachePromotion, TLAPS

\* The time limits of the provers, in seconds.
USE ZenonT(8), SMTT(15)

-----------------------------------------------------------------------------
(* The inductive invariant.                                                *)

\* The steps on one entry of the journal, of a recovery and of a promotion.
RecoverOne == {"recKeep", "recData", "recManifest", "recRename", "recRestore", "recRestoreWrite",
               "recMark", "recMarkWrite"}
PromoteOne == {"execMarker", "execManifest", "execData", "execMoveManifest", "execMark",
               "execMarkWrite"}

\* The passes over the journal; the steps under a written journal.
Recovering == {"rec"} \cup RecoverOne
Promoting  == {"exec"} \cup PromoteOne

\* The steps that hold the promotion lock, and those that hold all entry locks.
Holding == RecoverySteps \cup PromotionSteps \cup {"promoted"}
Locked  == {"check", "promote"} \cup Holding

\* The program counters are where they can be.
Placed(p) ==
    /\ pc[p] # "idle" => plan[p] \in Plan /\ at[p] >= 1
    /\ pc[p] \notin {"idle", "pin"} => run[p] \in DOMAIN made
    /\ pc[p] = "pin" => at[p] <= Len(plan[p]) + 1
    /\ pc[p] \in RecoverOne \cup PromoteOne => at[p] \in DOMAIN journal.keys

\* Who holds which lock.  A recovery works on entries of other plans.
Locks(p) ==
    /\ plock = p <=> pc[p] \in Holding
    /\ pc[p] \in {"prepare", "pin"} => \A i \in DOMAIN plan[p] : i < at[p] => elock[plan[p][i]] = p
    /\ pc[p] \in Locked => \A k \in KeysOf(plan[p]) : elock[k] = p
    /\ pc[p] \in Recovering =>
         \A k \in KeysOf(journal.keys) : elock[k] = p /\ k \notin KeysOf(plan[p])

\* What the journal is at each step.
Journal(p) ==
    /\ pc[p] \in {"journal", "promoted"} => journal.state = "none"
    /\ pc[p] = "journalWrite" => journal.state = "torn"
    /\ pc[p] \in Recovering \cup {"recJournal"} => journal.state = "prepared"
    /\ pc[p] \in Promoting \cup {"finalize"} =>
         journal.state = "prepared" /\ journal.keys = plan[p] /\ journal.gen = made[run[p]]

\* The entry holds the last good payload with its manifest; it holds nothing.
Complete(k) ==
    good[k] # 0 /\ data[k] = good[k] /\ marker[k] = "complete" /\ manifest[k] = made[good[k]]
Empty(k) == good[k] = 0 /\ data[k] = 0 /\ marker[k] = "none" /\ manifest[k] = 0

\* An entry outside of promotions.
Settled(k) == backup[k] = 0 /\ (Complete(k) \/ Empty(k))

\* The journal knows the last good payload of k, or that there is none.
Saved(k) ==
    /\ journal.had[k] /\ good[k] # 0
    /\ journal.marker[k] = "complete" /\ journal.manifest[k] = made[good[k]]
New(k) == ~journal.had[k] /\ good[k] = 0 /\ backup[k] = 0 /\ marker[k] # "complete"

\* Its promotion has not begun; its data is out of the way; it is promoted.
Waiting(k) == backup[k] = 0 /\ ((Saved(k) /\ Complete(k)) \/ (~journal.had[k] /\ Empty(k)))
Aside(k)   == (Saved(k) /\ backup[k] = good[k]) \/ New(k)
Fresh(k)   == Complete(k) /\ manifest[k] = journal.gen

\* An entry of the journal, whoever was interrupted where.
Journaled(k) == journal.state = "prepared" /\ k \in KeysOf(journal.keys)
InJournal(k) ==
    \/ Fresh(k)
    \/ Saved(k) /\ backup[k] = good[k] /\ (data[k] # 0 => marker[k] # "complete")
    \/ Saved(k) /\ backup[k] = 0 /\ data[k] = good[k]
         /\ (marker[k] = "complete" => manifest[k] = made[good[k]])
    \/ New(k)

EntryInv(k) ==
    /\ good[k] # 0 => good[k] \in DOMAIN made
    /\ Journaled(k) => InJournal(k)
    /\ ~Journaled(k) => Settled(k)

\* The entry in hand.
InHand(p, k) ==
    /\ pc[p] = "recKeep" => Fresh(k)
    /\ pc[p] \in {"recData", "recManifest", "recRename"} =>
         Saved(k) /\ backup[k] = good[k] /\ (data[k] # 0 => marker[k] # "complete")
    /\ pc[p] \in {"recManifest", "recRename"} => data[k] = 0 /\ marker[k] = "none"
    /\ pc[p] \in {"recRestore", "recRestoreWrite", "recMark", "recMarkWrite"} =>
         Saved(k) /\ backup[k] = 0 /\ data[k] = good[k] /\ marker[k] # "complete"
    /\ pc[p] \in {"recMark", "recMarkWrite"} => manifest[k] = made[good[k]]
    /\ pc[p] \in PromoteOne => Aside(k)
    /\ pc[p] \in {"execMarker", "execManifest", "execData"} => data[k] = 0
    /\ pc[p] \in {"execManifest", "execData", "execMoveManifest", "execMark"} => marker[k] = "none"
    /\ pc[p] \in {"execMoveManifest", "execMark", "execMarkWrite"} => data[k] = run[p]
    /\ pc[p] \in {"execMark", "execMarkWrite"} => manifest[k] = made[run[p]]
    /\ pc[p] = "execMarkWrite" => marker[k] # "complete"

\* The entries before it, and after it, in the order of the journal.
Progress(p, i) ==
    LET k == journal.keys[i]
    IN  /\ pc[p] \in Recovering /\ i < at[p] => Settled(k)
        /\ pc[p] = "recJournal" => Settled(k)
        /\ pc[p] \in Promoting /\ i < at[p] => Fresh(k) /\ data[k] = run[p]
        /\ pc[p] = "exec" /\ i = at[p] => Waiting(k)
        /\ pc[p] \in Promoting /\ i > at[p] => Waiting(k)
        /\ pc[p] = "finalize" => Fresh(k) /\ data[k] = run[p]
        /\ pc[p] = "finalize" /\ i < at[p] => backup[k] = 0

Work(p) ==
    /\ pc[p] \in RecoverOne \cup PromoteOne => InHand(p, Rec(p))
    /\ journal.state = "prepared" => \A i \in DOMAIN journal.keys : Progress(p, i)
    /\ pc[p] = "promoted" => \A k \in KeysOf(plan[p]) : Complete(k) /\ data[k] = run[p]

ProcInv(p) == Placed(p) /\ Locks(p) /\ Journal(p) /\ Work(p)

IInv ==
    /\ TypeOK
    /\ \A p \in Proc : ProcInv(p)
    /\ \A k \in Key : EntryInv(k)

-----------------------------------------------------------------------------
(* Plans.                                                                  *)

\* A plan lists distinct keys.
LEMMA PlanKeys ==
  ASSUME NEW P \in Plan
  PROVE  /\ Len(P) \in Nat /\ DOMAIN P = 1..Len(P)
         /\ KeysOf(P) \subseteq Key
         /\ \A i \in DOMAIN P : P[i] \in Key /\ P[i] \in KeysOf(P)
         /\ \A i, j \in DOMAIN P : P[i] = P[j] => i = j
<1>1. P \in Seq(Key)
  BY PlanAssumption
<1>2. Len(P) \in Nat /\ DOMAIN P = 1..Len(P) /\ \A i \in DOMAIN P : P[i] \in Key
  BY <1>1, SMTT(30)
<1>3. \A i, j \in DOMAIN P : P[i] = P[j] => i = j
  BY PlanAssumption
<1>4. QED
  BY <1>2, <1>3 DEF KeysOf

\* The keys that are not the one in hand.
LEMMA KeyOfSome ==
  ASSUME NEW P, NEW k \in KeysOf(P)
  PROVE  \E i \in DOMAIN P : P[i] = k
BY DEF KeysOf

-----------------------------------------------------------------------------
(* What a step leaves alone.                                               *)

\* The generations of earlier runs stay.
MadeKept == \A n \in DOMAIN made : n \in DOMAIN made' /\ made'[n] = made[n]

\* The files of an entry.
SameFiles(k) ==
    /\ data'[k] = data[k] /\ marker'[k] = marker[k] /\ manifest'[k] = manifest[k]
    /\ backup'[k] = backup[k] /\ good'[k] = good[k]

\* What the invariant says of an entry whose files stay.
SameEntry(k) ==
    /\ Complete(k)' <=> Complete(k)
    /\ Settled(k)' <=> Settled(k)
    /\ Waiting(k)' <=> Waiting(k)
    /\ Fresh(k)' <=> Fresh(k)
    /\ data'[k] = data[k] /\ backup'[k] = backup[k]

\* An entry whose files stay keeps what the invariant says of it.
LEMMA EntryKept ==
  ASSUME NEW k, EntryInv(k), SameFiles(k), MadeKept, journal' = journal
  PROVE  EntryInv(k)' /\ SameEntry(k)
<1>1. good[k] # 0 => made'[good[k]] = made[good[k]] /\ good[k] \in DOMAIN made'
  BY DEF EntryInv, MadeKept
<1>2. Complete(k)' <=> Complete(k)
  BY <1>1 DEF Complete, SameFiles
<1>3. Empty(k)' <=> Empty(k)
  BY DEF Empty, SameFiles
<1>4. Saved(k)' <=> Saved(k)
  BY <1>1 DEF Saved, SameFiles
<1>5. New(k)' <=> New(k)
  BY DEF New, SameFiles
<1>6. SameEntry(k)
  BY <1>2, <1>3, <1>4 DEF SameEntry, Settled, Waiting, Fresh, SameFiles
<1>7. Journaled(k)' <=> Journaled(k)
  BY DEF Journaled
<1>8. InJournal(k)' <=> InJournal(k)
  BY <1>1, <1>4, <1>5, <1>6 DEF InJournal, SameEntry, SameFiles, Saved
<1>9. QED
  BY <1>1, <1>6, <1>7, <1>8 DEF EntryInv, SameEntry, SameFiles

\* What belongs to a process, and the entry locks it holds.
SameProc(q) ==
    /\ pc'[q] = pc[q] /\ plan'[q] = plan[q] /\ at'[q] = at[q] /\ run'[q] = run[q]
    /\ plock' = q <=> plock = q
    /\ \A k \in Key : elock[k] = q => elock'[k] = q

\* A process that holds no promotion lock does not depend on files and journal.
LEMMA BystanderKept ==
  ASSUME NEW q \in Proc, ProcInv(q), SameProc(q), MadeKept, pc[q] \notin Holding
  PROVE  ProcInv(q)'
<1>1. pc[q] \notin Recovering \cup Promoting \cup RecoverOne \cup PromoteOne
                 \cup {"journal", "journalWrite", "promoted", "recJournal", "finalize"}
  BY DEF Holding, Recovering, Promoting, RecoverOne, PromoteOne, RecoverySteps, PromotionSteps
<1>2. Placed(q)'
  BY <1>1 DEF ProcInv, Placed, SameProc, MadeKept
<1>3. plan[q] \in Plan => KeysOf(plan[q]) \subseteq Key /\ \A i \in DOMAIN plan[q] : plan[q][i] \in Key
  BY PlanKeys
<1>4. Locks(q)'
  BY <1>1, <1>3 DEF ProcInv, Placed, Locks, SameProc, Locked
<1>5. Journal(q)'
  BY <1>1 DEF Journal, SameProc
<1>6. ASSUME NEW i PROVE Progress(q, i)'
  <2>1. /\ pc'[q] \notin Recovering /\ pc'[q] \notin Promoting
        /\ pc'[q] \notin {"recJournal", "exec", "finalize"}
    BY <1>1 DEF Promoting, SameProc
  <2>2. QED
    BY <2>1 DEF Progress
<1>7. Work(q)'
  BY <1>1, <1>6 DEF Work, SameProc
<1>8. QED
  BY <1>2, <1>4, <1>5, <1>7 DEF ProcInv

\* What the invariant says of the entry in hand.
LEMMA InHandKept ==
  ASSUME NEW q \in Proc, NEW k, EntryInv(k), SameFiles(k), MadeKept, journal' = journal,
         pc'[q] = pc[q], run'[q] = run[q], run[q] \in DOMAIN made, InHand(q, k)
  PROVE  InHand(q, k)'
<1>1. good[k] # 0 => made'[good[k]] = made[good[k]]
  BY DEF EntryInv, MadeKept
<1>2. made'[run[q]] = made[run[q]]
  BY DEF MadeKept
<1>3. Saved(k)' <=> Saved(k)
  BY <1>1 DEF Saved, SameFiles
<1>4. Aside(k)' <=> Aside(k)
  BY <1>3 DEF Aside, New, SameFiles
<1>5. Fresh(k)' <=> Fresh(k)
  BY EntryKept DEF SameEntry
<1>6. Saved(k) => good[k] # 0
  BY DEF Saved
<1>7. QED
  BY <1>1, <1>2, <1>3, <1>4, <1>5, <1>6 DEF InHand, SameFiles

\* Nor does a process when files and journal stay.
LEMMA QuietKept ==
  ASSUME NEW q \in Proc, ProcInv(q), SameProc(q), MadeKept, TypeOK,
         UNCHANGED <<data, marker, manifest, backup, good, journal>>,
         \A k \in Key : EntryInv(k)
  PROVE  ProcInv(q)'
<1>1. plan[q] \in Plan => KeysOf(plan[q]) \subseteq Key /\ \A i \in DOMAIN plan[q] : plan[q][i] \in Key
  BY PlanKeys
<1>2. journal.state = "prepared" =>
        /\ KeysOf(journal.keys) \subseteq Key
        /\ \A i \in DOMAIN journal.keys : journal.keys[i] \in Key
  BY PlanKeys DEF TypeOK
<1>3. \A k \in Key : SameEntry(k)
  BY EntryKept DEF SameFiles
<1>4. pc[q] \in RecoverOne \cup PromoteOne => journal.state = "prepared"
  BY DEF ProcInv, Journal, Recovering, Promoting
<1>5. Placed(q)'
  BY DEF ProcInv, Placed, SameProc, MadeKept
<1>6. Locks(q)'
  <2>1. pc[q] # "idle" => plan[q] \in Plan
    BY DEF ProcInv, Placed
  <2>2. pc[q] \in Recovering => journal.state = "prepared"
    BY DEF ProcInv, Journal
  <2>3. pc[q] \in Locked \cup {"prepare", "pin"} => pc[q] # "idle"
    BY DEF Locked, Holding, RecoverySteps, PromotionSteps
  <2>4. QED
    BY <1>1, <1>2, <2>1, <2>2, <2>3 DEF ProcInv, Locks, SameProc
<1>7. pc[q] \in Holding => run[q] \in DOMAIN made /\ made'[run[q]] = made[run[q]]
  BY DEF ProcInv, Placed, MadeKept, Holding, RecoverySteps, PromotionSteps
<1>8. Journal(q)'
  BY <1>7 DEF ProcInv, Journal, SameProc, Holding, Promoting, PromoteOne, PromotionSteps
<1>9. Work(q)'
  <2>1. ASSUME pc[q] \in RecoverOne \cup PromoteOne PROVE InHand(q, Rec(q))'
    <3>1. Rec(q) \in Key /\ Rec(q)' = Rec(q)
      BY <1>2, <1>4, <2>1 DEF ProcInv, Placed, Rec, SameProc
    <3>2. InHand(q, Rec(q)) /\ EntryInv(Rec(q))
      BY <2>1, <3>1 DEF ProcInv, Work
    <3>3. run[q] \in DOMAIN made
      BY <2>1, <1>7 DEF RecoverOne, PromoteOne, Holding, RecoverySteps, PromotionSteps
    <3>4. \A k : k = Rec(q) => InHand(q, k)'
      BY <3>2, <3>3, InHandKept DEF SameFiles, SameProc
    <3>5. QED
      BY <3>1, <3>4
  <2>2. ASSUME journal.state = "prepared", NEW i \in DOMAIN journal.keys PROVE Progress(q, i)'
    <3>1. SameEntry(journal.keys[i]) /\ Progress(q, i)
      BY <1>2, <1>3, <2>2 DEF ProcInv, Work
    <3>2. QED
      BY <3>1 DEF Progress, SameEntry, SameProc
  <2>3. ASSUME pc[q] = "promoted", NEW k \in KeysOf(plan[q]) PROVE (Complete(k) /\ data[k] = run[q])'
    <3>1. SameEntry(k) /\ Complete(k) /\ data[k] = run[q]
      BY <1>1, <1>3, <2>3 DEF ProcInv, Placed, Work
    <3>2. QED
      BY <3>1 DEF SameEntry, SameProc
  <2>4. QED
    BY <2>1, <2>2, <2>3 DEF Work, SameProc
<1>10. QED
  BY <1>5, <1>6, <1>8, <1>9 DEF ProcInv

-----------------------------------------------------------------------------
(* Steps that change no file.                                              *)

\* The places of a process.
Spots == RunSteps \cup RecoverySteps \cup PromotionSteps \cup {"idle", "promoted", "pin"}

\* Every step has its place.
LEMMA SpotNames ==
  /\ \A s \in {"idle", "pin", "prepare", "check", "promote", "recover", "rec", "recKeep", "recData",
               "recManifest", "recRename", "recRestore", "recRestoreWrite", "recMark",
               "recMarkWrite", "recJournal", "journal", "journalWrite", "exec", "execMarker",
               "execManifest", "execData", "execMoveManifest", "execMark", "execMarkWrite",
               "finalize", "promoted"} : s \in Spots
BY DEF Spots, RunSteps, RecoverySteps, PromotionSteps

\* A step of p that changes neither files nor journal.
Quiet(p) ==
    /\ UNCHANGED <<data, marker, manifest, backup, good, journal>>
    /\ MadeKept
    /\ \A q \in Proc : q # p => SameProc(q)

\* Such a step keeps the invariant if it keeps that of its process.
LEMMA QuietStep ==
  ASSUME IInv, NEW p \in Proc, Quiet(p), TypeOK', ProcInv(p)'
  PROVE  IInv'
<1>1. \A k \in Key : EntryInv(k)'
  BY EntryKept DEF IInv, Quiet, SameFiles
<1>2. ASSUME NEW q \in Proc, q # p PROVE ProcInv(q)'
  BY <1>2, QuietKept DEF IInv, Quiet
<1>3. QED
  BY <1>1, <1>2 DEF IInv

\* The locks p holds are given back, and nobody else's.
LEMMA Unlocked ==
  ASSUME TypeOK, NEW p \in Proc, Unlock(p)
  PROVE  /\ elock' \in [Key -> Proc \cup {NoProc}] /\ plock' \in Proc \cup {NoProc}
         /\ plock' # p
         /\ \A q \in Proc : q # p => /\ plock' = q <=> plock = q
                                     /\ \A k \in Key : elock[k] = q => elock'[k] = q
BY NoProcAssumption DEF TypeOK, Unlock

\* A process gives up everything.
LEMMA ResetStep ==
  ASSUME IInv, NEW p \in Proc, Reset(p), Unlock(p), runLock' \subseteq runLock, faults' \in 0..MaxFaults,
         UNCHANGED <<data, marker, manifest, backup, good, journal, made>>
  PROVE  IInv'
<1>pc. pc \in [Proc -> Spots]
  BY DEF IInv, TypeOK, Spots
<1>plan. plan \in [Proc -> Plan \cup {<<>>}]
  BY DEF IInv, TypeOK
<1>at. at \in [Proc -> Nat]
  BY DEF IInv, TypeOK
<1>run. run \in [Proc -> Runs \cup {0}]
  BY DEF IInv, TypeOK
<1>1. /\ elock' \in [Key -> Proc \cup {NoProc}] /\ plock' \in Proc \cup {NoProc}
      /\ plock' # p
      /\ \A q \in Proc : q # p => /\ plock' = q <=> plock = q
                                  /\ \A k \in Key : elock[k] = q => elock'[k] = q
  BY Unlocked DEF IInv
<1>2. TypeOK'
  <2>1. pc' \in [Proc -> Spots]
    BY <1>pc, SpotNames DEF Reset, Goto
  <2>2. plan' \in [Proc -> Plan \cup {<<>>}]
    BY <1>plan DEF Reset
  <2>3. at' \in [Proc -> Nat]
    BY <1>at, SMTT(30) DEF Reset
  <2>4. run' \in [Proc -> Runs \cup {0}]
    BY <1>run DEF Reset
  <2>5. runLock' \in SUBSET Plan
    BY DEF IInv, TypeOK
  <2>6. QED
    BY <1>1, <2>1, <2>2, <2>3, <2>4, <2>5, Zenon DEF IInv, TypeOK, Spots
<1>3. Quiet(p)
  <2>1. ASSUME NEW q \in Proc, q # p PROVE SameProc(q)
    BY <2>1, <1>pc, <1>plan, <1>at, <1>run, <1>1 DEF Reset, Goto, SameProc
  <2>2. QED
    BY <2>1 DEF Quiet, MadeKept
<1>4. ProcInv(p)'
  <2>1. pc'[p] = "idle"
    BY <1>pc DEF Reset, Goto
  <2>2. /\ "idle" \notin Holding /\ "idle" \notin Locked /\ "idle" \notin Recovering
        /\ "idle" \notin Promoting /\ "idle" \notin RecoverOne /\ "idle" \notin PromoteOne
    BY DEF Holding, Locked, Recovering, Promoting, RecoverOne, PromoteOne, RecoverySteps,
       PromotionSteps
  <2>3. Placed(p)' /\ Locks(p)' /\ Journal(p)'
    BY <1>1, <2>1, <2>2 DEF Placed, Locks, Journal
  <2>4. ASSUME NEW i PROVE Progress(p, i)'
    BY <2>1, <2>2 DEF Progress
  <2>5. Work(p)'
    BY <2>1, <2>2, <2>4 DEF Work
  <2>6. QED
    BY <2>3, <2>5 DEF ProcInv
<1>5. QED
  BY <1>2, <1>3, <1>4, QuietStep

\* Runs that end, pins that are dropped, and crashes.
LEMMA EndSteps ==
  ASSUME IInv, NEW p \in Proc,
         \/ ChecksFail(p) \/ Return(p) \/ Rejected(p) \/ StorageFails(p) \/ Crash(p)
         \/ PinRefused(p) \/ GuardedCommandEnds(p)
  PROVE  IInv'
<1>1. Reset(p) /\ Unlock(p)
  BY DEF ChecksFail, Return, Rejected, StorageFails, Crash, PinRefused, GuardedCommandEnds,
     EndRun, Unpin
<1>2. runLock' \subseteq runLock
  BY DEF ChecksFail, Return, Rejected, StorageFails, Crash, PinRefused, GuardedCommandEnds,
     EndRun, Unpin
<1>3. UNCHANGED <<data, marker, manifest, backup, good, journal, made>>
  BY DEF ChecksFail, Return, Rejected, StorageFails, Crash, PinRefused, GuardedCommandEnds,
     EndRun, Unpin, entries
<1>4. faults' = faults \/ (faults < MaxFaults /\ faults' = faults + 1)
  BY DEF ChecksFail, Return, Rejected, StorageFails, Crash, PinRefused, GuardedCommandEnds, Unpin
<1>5. faults \in 0..MaxFaults
  BY DEF IInv, TypeOK
<1>6. faults' \in 0..MaxFaults
  BY <1>4, <1>5, BoundAssumption, SMTT(30)
<1>7. QED
  BY <1>1, <1>2, <1>3, <1>6, ResetStep

\* An operator's unlock is nothing to the entries.
LEMMA OperatorStep ==
  ASSUME IInv, NEW P \in Plan, OperatorUnlock(P)
  PROVE  IInv'
<1>1. UNCHANGED <<pc, plan, at, run, elock, plock, data, marker, manifest,
                  backup, good, journal, made, faults>>
  BY DEF OperatorUnlock, entries
<1>2. TypeOK'
  <2>1. runLock' \in SUBSET Plan
    BY DEF OperatorUnlock, IInv, TypeOK
  <2>2. QED
    BY <1>1, <2>1, Zenon DEF IInv, TypeOK
<1>3. MadeKept /\ \A q \in Proc : SameProc(q)
  BY <1>1 DEF MadeKept, SameProc
<1>4. \A q \in Proc : ProcInv(q)'
  BY <1>1, <1>3, QuietKept DEF IInv
<1>5. \A k \in Key : EntryInv(k)'
  BY <1>1, <1>3, EntryKept DEF IInv, SameFiles
<1>6. QED
  BY <1>2, <1>4, <1>5 DEF IInv

\* A process that does not hold the promotion lock has little to keep.
LEMMA OutsideInv ==
  ASSUME NEW p \in Proc, pc'[p] \notin Holding, Placed(p)', Locks(p)'
  PROVE  ProcInv(p)'
<1>1. /\ pc'[p] \notin Recovering /\ pc'[p] \notin Promoting
      /\ pc'[p] \notin RecoverOne /\ pc'[p] \notin PromoteOne
      /\ pc'[p] \notin {"journal", "journalWrite", "promoted", "recJournal", "finalize", "exec"}
  BY DEF Holding, Recovering, Promoting, RecoverOne, PromoteOne, RecoverySteps, PromotionSteps
<1>2. Journal(p)'
  BY <1>1 DEF Journal
<1>3. ASSUME NEW i PROVE Progress(p, i)'
  BY <1>1 DEF Progress
<1>4. Work(p)'
  BY <1>1, <1>3 DEF Work
<1>5. QED
  BY <1>2, <1>4 DEF ProcInv

\* The places without the promotion lock.
LEMMA OutsideNames ==
  /\ \A s \in {"idle", "pin", "prepare", "check", "promote"} :
        s \notin Holding /\ s \notin Recovering /\ s \notin RecoverOne /\ s \notin PromoteOne
  /\ \A s \in {"idle", "pin", "prepare"} : s \notin Locked
BY DEF Holding, Locked, Recovering, RecoverOne, PromoteOne, RecoverySteps, PromotionSteps

\* A run begins with the workspace lock.
LEMMA BeginStep ==
  ASSUME IInv, NEW p \in Proc, NEW P \in Plan, NEW g \in Gen, Begin(p, P, g)
  PROVE  IInv'
<1>pc. pc \in [Proc -> Spots]
  BY DEF IInv, TypeOK, Spots
<1>plan. plan \in [Proc -> Plan \cup {<<>>}]
  BY DEF IInv, TypeOK
<1>at. at \in [Proc -> Nat]
  BY DEF IInv, TypeOK
<1>run. run \in [Proc -> Runs \cup {0}]
  BY DEF IInv, TypeOK
<1>elock. elock \in [Key -> Proc \cup {NoProc}]
  BY DEF IInv, TypeOK
<1>plock. plock \in Proc \cup {NoProc}
  BY DEF IInv, TypeOK
<1>inv. Placed(p) /\ Locks(p) /\ Journal(p) /\ Work(p)
  BY DEF IInv, ProcInv
<1>made. made \in Seq(Gen) /\ Len(made) \in Nat /\ Len(made) < MaxRuns
  BY SMTT(30) DEF IInv, TypeOK, Begin
<1>1. pc'[p] = "prepare" /\ at'[p] = 1 /\ plan'[p] = P /\ run'[p] = Len(made) + 1 /\ pc[p] = "idle"
  BY <1>pc, <1>at, <1>plan, <1>run DEF Begin, FirstEntry, Goto
<1>2. /\ made' \in Seq(Gen) /\ Len(made') <= MaxRuns /\ run'[p] \in DOMAIN made'
      /\ run'[p] \in Runs /\ \A n \in DOMAIN made : n \in DOMAIN made' /\ made'[n] = made[n]
  <2>1. made' = Append(made, g) /\ g \in Gen
    BY DEF Begin
  <2>2. QED
    BY <2>1, <1>made, <1>1, BoundAssumption, SMTT(30) DEF Runs
<1>3. UNCHANGED <<elock, plock, data, marker, manifest, backup, good, journal, faults>>
  BY DEF Begin, entries
<1>4. TypeOK'
  <2>1. pc' \in [Proc -> Spots]
    BY <1>pc, SpotNames DEF Begin, FirstEntry, Goto
  <2>2. plan' \in [Proc -> Plan \cup {<<>>}]
    BY <1>plan DEF Begin
  <2>3. at' \in [Proc -> Nat]
    BY <1>at, SMTT(30) DEF Begin, FirstEntry
  <2>4. run' \in [Proc -> Runs \cup {0}]
    BY <1>run, <1>1, <1>2 DEF Begin
  <2>5. runLock' \in SUBSET Plan
    BY DEF IInv, TypeOK, Begin
  <2>6. QED
    BY <1>2, <1>3, <2>1, <2>2, <2>3, <2>4, <2>5, Zenon DEF IInv, TypeOK, Spots
<1>5. Quiet(p)
  <2>1. ASSUME NEW q \in Proc, q # p PROVE SameProc(q)
    BY <2>1, <1>pc, <1>plan, <1>at, <1>run, <1>3 DEF Begin, FirstEntry, Goto, SameProc
  <2>2. QED
    BY <2>1, <1>2, <1>3 DEF Quiet, MadeKept
<1>6. ProcInv(p)'
  <2>1. plock # p
    BY <1>inv, <1>1, OutsideNames DEF Locks
  <2>2. Placed(p)'
    <3>1. at'[p] >= 1
      BY <1>1, SMTT(30)
    <3>2. QED
      BY <3>1, <1>1, <1>2, OutsideNames DEF Placed
  <2>3. Locks(p)'
    <3>1. \A i \in DOMAIN P : ~(i < at'[p])
      BY <1>1, PlanKeys, SMTT(30)
    <3>2. QED
      BY <3>1, <2>1, <1>1, <1>3, OutsideNames DEF Locks
  <2>4. QED
    BY <2>2, <2>3, <1>1, OutsideNames, OutsideInv
<1>7. QED
  BY <1>4, <1>5, <1>6, QuietStep

\* A command is about to pin entries.
LEMMA PinSourcesStep ==
  ASSUME IInv, NEW p \in Proc, NEW P \in Plan, PinSources(p, P)
  PROVE  IInv'
<1>pc. pc \in [Proc -> Spots]
  BY DEF IInv, TypeOK, Spots
<1>plan. plan \in [Proc -> Plan \cup {<<>>}]
  BY DEF IInv, TypeOK
<1>at. at \in [Proc -> Nat]
  BY DEF IInv, TypeOK
<1>run. run \in [Proc -> Runs \cup {0}]
  BY DEF IInv, TypeOK
<1>elock. elock \in [Key -> Proc \cup {NoProc}]
  BY DEF IInv, TypeOK
<1>plock. plock \in Proc \cup {NoProc}
  BY DEF IInv, TypeOK
<1>inv. Placed(p) /\ Locks(p) /\ Journal(p) /\ Work(p)
  BY DEF IInv, ProcInv
<1>1. pc'[p] = "pin" /\ at'[p] = 1 /\ plan'[p] = P /\ pc[p] = "idle"
  BY <1>pc, <1>at, <1>plan DEF PinSources, FirstEntry, Goto
<1>2. UNCHANGED <<run, runLock, elock, plock, data, marker, manifest,
                  backup, good, journal, made, faults>>
  BY DEF PinSources, entries, locks
<1>3. TypeOK'
  <2>1. pc' \in [Proc -> Spots]
    BY <1>pc, SpotNames DEF PinSources, FirstEntry, Goto
  <2>2. plan' \in [Proc -> Plan \cup {<<>>}]
    BY <1>plan DEF PinSources
  <2>3. at' \in [Proc -> Nat]
    BY <1>at, SMTT(30) DEF PinSources, FirstEntry
  <2>4. QED
    BY <1>2, <2>1, <2>2, <2>3, Zenon DEF IInv, TypeOK, Spots
<1>4. Quiet(p)
  <2>1. ASSUME NEW q \in Proc, q # p PROVE SameProc(q)
    BY <2>1, <1>pc, <1>plan, <1>at, <1>2 DEF PinSources, FirstEntry, Goto, SameProc
  <2>2. QED
    BY <2>1, <1>2 DEF Quiet, MadeKept
<1>5. ProcInv(p)'
  <2>1. plock # p
    BY <1>inv, <1>1, OutsideNames DEF Locks
  <2>2. Placed(p)'
    <3>1. at'[p] >= 1
      BY <1>1, SMTT(30)
    <3>2. QED
      BY <3>1, <1>1, OutsideNames, SMTT(30) DEF Placed
  <2>3. Locks(p)'
    <3>1. \A i \in DOMAIN P : ~(i < at'[p])
      BY <1>1, PlanKeys, SMTT(30)
    <3>2. QED
      BY <3>1, <2>1, <1>1, <1>2, OutsideNames DEF Locks
  <2>4. QED
    BY <2>2, <2>3, <1>1, OutsideNames, OutsideInv
<1>6. QED
  BY <1>3, <1>4, <1>5, QuietStep

\* A run prepares, or a command pins, one more entry.
LEMMA TakeEntrySteps ==
  ASSUME IInv, NEW p \in Proc, PrepareEntry(p) \/ PinEntry(p)
  PROVE  IInv'
<1>pc. pc \in [Proc -> Spots]
  BY DEF IInv, TypeOK, Spots
<1>plan. plan \in [Proc -> Plan \cup {<<>>}]
  BY DEF IInv, TypeOK
<1>at. at \in [Proc -> Nat]
  BY DEF IInv, TypeOK
<1>run. run \in [Proc -> Runs \cup {0}]
  BY DEF IInv, TypeOK
<1>elock. elock \in [Key -> Proc \cup {NoProc}]
  BY DEF IInv, TypeOK
<1>plock. plock \in Proc \cup {NoProc}
  BY DEF IInv, TypeOK
<1>inv. Placed(p) /\ Locks(p) /\ Journal(p) /\ Work(p)
  BY DEF IInv, ProcInv
<1> DEFINE k == Cur(p)
<1>1. /\ pc[p] \in {"prepare", "pin"} /\ pc' = pc /\ at' = [at EXCEPT ![p] = at[p] + 1]
      /\ at[p] <= Len(plan[p]) /\ elock[k] = NoProc /\ elock' = [elock EXCEPT ![k] = p]
  BY <1>pc DEF PrepareEntry, PinEntry, Preparable, At, NextEntry, Goto
<1>2. UNCHANGED <<plan, run, runLock, plock, data, marker, manifest,
                  backup, good, journal, made, faults>>
  BY DEF PrepareEntry, PinEntry, entries
<1>3. plan[p] \in Plan /\ at[p] >= 1 /\ at[p] \in Nat
  BY <1>1, <1>at, <1>inv DEF Placed
<1>4. at'[p] = at[p] + 1 /\ at'[p] >= 1 /\ at[p] \in DOMAIN plan[p]
  BY <1>1, <1>3, <1>at, PlanKeys, SMTT(30)
<1>5. k \in Key
  BY <1>3, <1>4, PlanKeys DEF Cur
<1>6. TypeOK'
  <2>1. at' \in [Proc -> Nat]
    BY <1>at, <1>1, SMTT(30)
  <2>2. elock' \in [Key -> Proc \cup {NoProc}]
    BY <1>elock, <1>1
  <2>3. QED
    BY <1>1, <1>2, <2>1, <2>2, Zenon DEF IInv, TypeOK
<1>7. Quiet(p)
  <2>1. ASSUME NEW q \in Proc, q # p PROVE SameProc(q)
    BY <2>1, <1>at, <1>1, <1>2, <1>elock, NoProcAssumption DEF SameProc
  <2>2. QED
    BY <2>1, <1>2 DEF Quiet, MadeKept
<1>8. ProcInv(p)'
  <2>1. plock # p
    BY <1>inv, <1>1, OutsideNames DEF Locks
  <2>2. Placed(p)'
    BY <1>inv, <1>1, <1>2, <1>3, <1>4, OutsideNames, SMTT(30) DEF Placed
  <2>3. ASSUME NEW i \in DOMAIN plan[p], i < at'[p] PROVE elock'[plan[p][i]] = p
    <3>1. i = at[p] \/ i < at[p]
      BY <2>3, <1>3, <1>4, PlanKeys, SMTT(30)
    <3>2. CASE i = at[p]
      BY <3>2, <1>1, <1>5, <1>elock DEF Cur
    <3>3. CASE i < at[p]
      BY <3>3, <1>1, <1>3, <1>5, <1>inv, <1>elock, PlanKeys DEF Locks
    <3>4. QED
      BY <3>1, <3>2, <3>3
  <2>4. Locks(p)'
    BY <2>1, <2>3, <1>1, <1>2, OutsideNames DEF Locks
  <2>5. QED
    BY <2>2, <2>4, <1>1, OutsideNames, OutsideInv
<1>9. QED
  BY <1>6, <1>7, <1>8, QuietStep

\* All entries are prepared; the checks pass.
LEMMA ReadySteps ==
  ASSUME IInv, NEW p \in Proc, Prepared(p) \/ ChecksPass(p)
  PROVE  IInv'
<1>pc. pc \in [Proc -> Spots]
  BY DEF IInv, TypeOK, Spots
<1>plan. plan \in [Proc -> Plan \cup {<<>>}]
  BY DEF IInv, TypeOK
<1>at. at \in [Proc -> Nat]
  BY DEF IInv, TypeOK
<1>run. run \in [Proc -> Runs \cup {0}]
  BY DEF IInv, TypeOK
<1>elock. elock \in [Key -> Proc \cup {NoProc}]
  BY DEF IInv, TypeOK
<1>plock. plock \in Proc \cup {NoProc}
  BY DEF IInv, TypeOK
<1>inv. Placed(p) /\ Locks(p) /\ Journal(p) /\ Work(p)
  BY DEF IInv, ProcInv
<1>1. \/ pc[p] = "prepare" /\ pc'[p] = "check" /\ at[p] > Len(plan[p])
      \/ pc[p] = "check" /\ pc'[p] = "promote"
  BY <1>pc DEF Prepared, ChecksPass, Goto
<1>2. UNCHANGED <<plan, at, run, runLock, elock, plock, data, marker, manifest,
                  backup, good, journal, made, faults>>
  BY DEF Prepared, ChecksPass, entries, locks
<1>3. TypeOK'
  <2>1. pc' \in [Proc -> Spots]
    BY <1>pc, SpotNames DEF Prepared, ChecksPass, Goto
  <2>2. QED
    BY <1>2, <2>1, Zenon DEF IInv, TypeOK, Spots
<1>4. Quiet(p)
  <2>1. ASSUME NEW q \in Proc, q # p PROVE SameProc(q)
    BY <2>1, <1>pc, <1>2 DEF Prepared, ChecksPass, Goto, SameProc
  <2>2. QED
    BY <2>1, <1>2 DEF Quiet, MadeKept
<1>5. \A l \in KeysOf(plan[p]) : elock[l] = p
  <2>1. CASE pc[p] = "check"
    BY <2>1, <1>inv DEF Locks, Locked
  <2>2. CASE pc[p] = "prepare"
    <3>1. plan[p] \in Plan /\ at[p] \in Nat /\ at[p] > Len(plan[p])
      BY <2>2, <1>1, <1>inv, <1>at DEF Placed
    <3>2. \A i \in DOMAIN plan[p] : i < at[p]
      BY <3>1, PlanKeys, SMTT(30)
    <3>3. QED
      BY <2>2, <3>2, <1>inv, KeyOfSome, SMTT(30) DEF Locks
  <2>3. QED
    BY <1>1, <2>1, <2>2
<1>6. ProcInv(p)'
  <2>1. plock # p
    BY <1>inv, <1>1, OutsideNames DEF Locks
  <2>2. Placed(p)'
    BY <1>inv, <1>1, <1>2, OutsideNames DEF Placed
  <2>3. Locks(p)'
    BY <2>1, <1>1, <1>2, <1>5, OutsideNames DEF Locks
  <2>4. QED
    BY <2>2, <2>3, <1>1, OutsideNames, OutsideInv
<1>7. QED
  BY <1>3, <1>4, <1>6, QuietStep

-----------------------------------------------------------------------------
(* Steps with the promotion lock that change no file.                      *)

\* The steps of a recovery, and of a promotion, hold all locks.
LEMMA HoldingNames ==
  /\ Recovering \subseteq Holding /\ Promoting \subseteq Holding
  /\ RecoverOne \subseteq Recovering /\ PromoteOne \subseteq Promoting
  /\ {"recover", "recJournal", "journal", "journalWrite", "finalize", "promoted"} \subseteq Holding
  /\ Holding \subseteq Locked
  /\ \A s \in Recovering : s \notin Promoting
  /\ \A s \in {"recover", "recJournal", "journal", "journalWrite", "finalize", "promoted"} :
        s \notin Recovering /\ s \notin Promoting
  /\ \A s \in Holding : s \notin {"idle", "pin", "prepare", "check", "promote"}
BY DEF Holding, Locked, Recovering, Promoting, RecoverOne, PromoteOne, RecoverySteps,
   PromotionSteps

\* A step inside a recovery or inside a promotion.
LEMMA StayInside ==
  ASSUME NEW p \in Proc, Placed(p), Locks(p), Journal(p),
         \/ pc[p] \in Recovering /\ pc'[p] \in Recovering
         \/ pc[p] \in Promoting \cup {"finalize"} /\ pc'[p] \in Promoting \cup {"finalize"},
         at'[p] >= 1, pc'[p] \in RecoverOne \cup PromoteOne => at'[p] \in DOMAIN journal.keys,
         UNCHANGED <<plan, run, elock, plock, journal, made>>
  PROVE  Placed(p)' /\ Locks(p)' /\ Journal(p)'
<1>1. pc[p] \in Holding /\ pc'[p] \in Holding
  BY HoldingNames
<1>2. Placed(p)'
  BY <1>1, HoldingNames DEF Placed
<1>3. Locks(p)'
  BY <1>1, HoldingNames DEF Locks
<1>4. Journal(p)'
  BY HoldingNames DEF Journal
<1>5. QED
  BY <1>2, <1>3, <1>4

\* The promotion lock is taken; there is no journal.
LEMMA LockSteps ==
  ASSUME IInv, NEW p \in Proc, LockPromotion(p) \/ NothingToRecover(p)
  PROVE  IInv'
<1>pc. pc \in [Proc -> Spots]
  BY DEF IInv, TypeOK, Spots
<1>plan. plan \in [Proc -> Plan \cup {<<>>}]
  BY DEF IInv, TypeOK
<1>at. at \in [Proc -> Nat]
  BY DEF IInv, TypeOK
<1>run. run \in [Proc -> Runs \cup {0}]
  BY DEF IInv, TypeOK
<1>elock. elock \in [Key -> Proc \cup {NoProc}]
  BY DEF IInv, TypeOK
<1>plock. plock \in Proc \cup {NoProc}
  BY DEF IInv, TypeOK
<1>inv. Placed(p) /\ Locks(p) /\ Journal(p) /\ Work(p)
  BY DEF IInv, ProcInv
<1>1. \/ pc[p] = "promote" /\ pc'[p] = "recover" /\ plock = NoProc /\ plock' = p
      \/ pc[p] = "recover" /\ pc'[p] = "journal" /\ plock' = plock /\ journal.state = "none"
  BY <1>pc, SMTT(30) DEF LockPromotion, NothingToRecover, Goto, NoJournal, locks
<1>2. UNCHANGED <<plan, at, run, runLock, elock, data, marker, manifest,
                  backup, good, journal, made, faults>>
  BY DEF LockPromotion, NothingToRecover, entries, locks
<1>3. TypeOK'
  <2>1. pc' \in [Proc -> Spots]
    BY <1>pc, SpotNames DEF LockPromotion, NothingToRecover, Goto
  <2>2. plock' \in Proc \cup {NoProc}
    BY <1>1, <1>plock
  <2>3. QED
    BY <1>2, <2>1, <2>2, Zenon DEF IInv, TypeOK, Spots
<1>4. Quiet(p)
  <2>1. ASSUME NEW q \in Proc, q # p PROVE SameProc(q)
    BY <2>1, <1>pc, <1>1, <1>2, NoProcAssumption DEF LockPromotion, NothingToRecover, Goto,
       SameProc
  <2>2. QED
    BY <2>1, <1>2 DEF Quiet, MadeKept
<1>5. ProcInv(p)'
  <2>1. pc'[p] \in Holding /\ pc'[p] \notin Recovering /\ pc'[p] \notin Promoting
    BY <1>1, HoldingNames
  <2>2. pc'[p] \notin RecoverOne /\ pc'[p] \notin PromoteOne
    BY <2>1, HoldingNames
  <2>3. pc[p] \in Locked /\ plock' = p
    BY <1>1, <1>inv, HoldingNames DEF Locks, Locked
  <2>4. Placed(p)'
    BY <1>inv, <1>1, <1>2, <2>2 DEF Placed
  <2>5. Locks(p)'
    BY <1>inv, <1>1, <1>2, <2>1, <2>3 DEF Locks
  <2>6. Journal(p)'
    BY <1>1, <1>2, <2>1 DEF Journal
  <2>7. ASSUME NEW i PROVE Progress(p, i)'
    BY <1>1, <2>1 DEF Progress
  <2>8. Work(p)'
    BY <1>1, <2>2, <2>7 DEF Work
  <2>9. QED
    BY <2>4, <2>5, <2>6, <2>8 DEF ProcInv
<1>6. QED
  BY <1>3, <1>4, <1>5, QuietStep

\* The entries of the journal are locked for a recovery.
LEMMA RecoverLocksStep ==
  ASSUME IInv, NEW p \in Proc, RecoverLocks(p)
  PROVE  IInv'
<1>pc. pc \in [Proc -> Spots]
  BY DEF IInv, TypeOK, Spots
<1>plan. plan \in [Proc -> Plan \cup {<<>>}]
  BY DEF IInv, TypeOK
<1>at. at \in [Proc -> Nat]
  BY DEF IInv, TypeOK
<1>run. run \in [Proc -> Runs \cup {0}]
  BY DEF IInv, TypeOK
<1>elock. elock \in [Key -> Proc \cup {NoProc}]
  BY DEF IInv, TypeOK
<1>plock. plock \in Proc \cup {NoProc}
  BY DEF IInv, TypeOK
<1>inv. Placed(p) /\ Locks(p) /\ Journal(p) /\ Work(p)
  BY DEF IInv, ProcInv
<1>1. /\ pc[p] = "recover" /\ pc'[p] = "rec" /\ at'[p] = 1 /\ journal.state = "prepared"
      /\ \A l \in KeysOf(journal.keys) : elock[l] = NoProc
      /\ elock' = [l \in Key |-> IF l \in KeysOf(journal.keys) THEN p ELSE elock[l]]
  BY <1>pc, <1>at DEF RecoverLocks, FirstEntry, Goto
<1>2. UNCHANGED <<plan, run, runLock, plock, data, marker, manifest,
                  backup, good, journal, made, faults>>
  BY DEF RecoverLocks, entries
<1>3. journal.keys \in Plan /\ KeysOf(journal.keys) \subseteq Key
  BY <1>1, PlanKeys DEF IInv, TypeOK
<1>4. TypeOK'
  <2>1. pc' \in [Proc -> Spots]
    BY <1>pc, SpotNames DEF RecoverLocks, FirstEntry, Goto
  <2>2. at' \in [Proc -> Nat]
    BY <1>at, SMTT(30) DEF RecoverLocks, FirstEntry
  <2>3. elock' \in [Key -> Proc \cup {NoProc}]
    BY <1>1, <1>elock
  <2>4. QED
    BY <1>2, <2>1, <2>2, <2>3, Zenon DEF IInv, TypeOK, Spots
<1>5. Quiet(p)
  <2>1. ASSUME NEW q \in Proc, q # p PROVE SameProc(q)
    <3>1. \A l \in Key : elock[l] = q => elock'[l] = q
      BY <1>1, NoProcAssumption
    <3>2. QED
      BY <2>1, <3>1, <1>pc, <1>at, <1>2 DEF RecoverLocks, FirstEntry, Goto, SameProc
  <2>2. QED
    BY <2>1, <1>2 DEF Quiet, MadeKept
<1>6. ProcInv(p)'
  <2>1. /\ pc'[p] \in Holding /\ pc'[p] \in Recovering /\ pc'[p] \notin Promoting
        /\ pc'[p] \notin RecoverOne /\ pc'[p] \notin PromoteOne /\ pc[p] \in Holding
    BY <1>1 DEF Holding, Recovering, Promoting, RecoverOne, PromoteOne, RecoverySteps,
       PromotionSteps
  <2>2. at'[p] >= 1
    BY <1>1, SMTT(30)
  <2>3. Placed(p)'
    BY <1>inv, <1>1, <1>2, <2>1, <2>2 DEF Placed
  <2>4. plan[p] \in Plan /\ plock = p /\ \A l \in KeysOf(plan[p]) : elock[l] = p
    BY <1>inv, <1>1, <2>1, HoldingNames DEF Placed, Locks
  <2>5. \A l \in KeysOf(plan[p]) : l \in Key /\ l \notin KeysOf(journal.keys) /\ elock'[l] = p
    BY <1>1, <2>4, NoProcAssumption, PlanKeys
  <2>6. \A l \in KeysOf(journal.keys) : elock'[l] = p
    BY <1>1, <1>3
  <2>7. Locks(p)'
    BY <1>1, <1>2, <2>1, <2>4, <2>5, <2>6 DEF Locks
  <2>8. Journal(p)'
    BY <1>1, <1>2, <2>1 DEF Journal
  <2>9. ASSUME NEW i \in DOMAIN journal.keys PROVE Progress(p, i)'
    <3>1. ~(i < at'[p])
      BY <1>1, <1>3, PlanKeys, SMTT(30)
    <3>2. QED
      BY <3>1, <1>1, <2>1 DEF Progress
  <2>10. Work(p)'
    BY <1>1, <1>2, <2>1, <2>9 DEF Work
  <2>11. QED
    BY <2>3, <2>7, <2>8, <2>10 DEF ProcInv
<1>7. QED
  BY <1>4, <1>5, <1>6, QuietStep

\* What a recovery knows of the entry it comes to: it is promoted, its data is in the backup, or
\* it is as the promotion found it.
LEMMA Decided ==
  ASSUME NEW k, InJournal(k)
  PROVE  /\ CurrentIsComplete(k) => Fresh(k)
         /\ ~CurrentIsComplete(k) /\ journal.had[k] /\ backup[k] # 0 =>
              Saved(k) /\ backup[k] = good[k] /\ (data[k] # 0 => marker[k] # "complete")
         /\ ~CurrentIsComplete(k) /\ journal.had[k] /\ backup[k] = 0 /\ MatchesPrevious(k) => Settled(k)
<1>1. CASE Fresh(k)
  BY <1>1 DEF Fresh, Complete, CurrentIsComplete
<1>2. CASE Saved(k) /\ backup[k] = good[k] /\ (data[k] # 0 => marker[k] # "complete")
  BY <1>2 DEF Saved, CurrentIsComplete
<1>3. CASE Saved(k) /\ backup[k] = 0 /\ data[k] = good[k]
             /\ (marker[k] = "complete" => manifest[k] = made[good[k]])
  BY <1>3 DEF Saved, Fresh, Complete, Settled, CurrentIsComplete, MatchesPrevious
<1>4. CASE New(k)
  BY <1>4 DEF New, CurrentIsComplete
<1>5. QED
  BY <1>1, <1>2, <1>3, <1>4 DEF InJournal

\* A recovery goes on to the next entry when it has settled the one in hand.
LEMMA RecoverProgress ==
  ASSUME TypeOK, NEW p \in Proc, Work(p), journal.state = "prepared", journal' = journal,
         pc[p] \in Recovering, pc'[p] \in Recovering, at[p] \in DOMAIN journal.keys,
         NEW k, k = Rec(p), \A l \in Key : l # k => SameEntry(l),
         at'[p] = at[p] \/ (at'[p] = at[p] + 1 /\ Settled(k)')
  PROVE  \A i \in DOMAIN journal.keys : Progress(p, i)'
<1>1. /\ DOMAIN journal.keys = 1..Len(journal.keys) /\ Len(journal.keys) \in Nat
      /\ \A i \in DOMAIN journal.keys : journal.keys[i] \in Key
      /\ \A i, j \in DOMAIN journal.keys : journal.keys[i] = journal.keys[j] => i = j
  BY PlanKeys DEF TypeOK
<1>2. ASSUME NEW i \in DOMAIN journal.keys, i < at'[p] PROVE Settled(journal.keys[i])'
  <2>1. i < at[p] \/ (i = at[p] /\ Settled(k)')
    BY <1>1, <1>2, SMTT(30)
  <2>2. CASE i < at[p]
    <3>1. i # at[p]
      BY <2>2, <1>1, SMTT(30)
    <3>2. journal.keys[i] \in Key /\ journal.keys[i] # k
      BY <3>1, <1>1 DEF Rec
    <3>3. SameEntry(journal.keys[i])
      BY <3>2
    <3>4. Settled(journal.keys[i])
      BY <2>2 DEF Work, Progress
    <3>5. QED
      BY <3>3, <3>4 DEF SameEntry
  <2>3. CASE i = at[p] /\ Settled(k)'
    BY <2>3 DEF Rec
  <2>4. QED
    BY <2>1, <2>2, <2>3
<1>3. pc'[p] \notin Promoting /\ pc'[p] \notin {"recJournal", "exec", "finalize"}
  BY HoldingNames DEF Promoting
<1>4. QED
  BY <1>2, <1>3 DEF Progress

\* A recovery decides what to do with an entry.
LEMMA DecideSteps ==
  ASSUME IInv, NEW p \in Proc, RecComplete(p) \/ RecRollback(p) \/ RecUntouched(p)
  PROVE  IInv'
<1>pc. pc \in [Proc -> Spots]
  BY DEF IInv, TypeOK, Spots
<1>plan. plan \in [Proc -> Plan \cup {<<>>}]
  BY DEF IInv, TypeOK
<1>at. at \in [Proc -> Nat]
  BY DEF IInv, TypeOK
<1>run. run \in [Proc -> Runs \cup {0}]
  BY DEF IInv, TypeOK
<1>elock. elock \in [Key -> Proc \cup {NoProc}]
  BY DEF IInv, TypeOK
<1>plock. plock \in Proc \cup {NoProc}
  BY DEF IInv, TypeOK
<1>inv. Placed(p) /\ Locks(p) /\ Journal(p) /\ Work(p)
  BY DEF IInv, ProcInv
<1>k. PICK k : k = Rec(p)
  OBVIOUS
<1>1. /\ pc[p] = "rec" /\ at[p] <= Len(journal.keys)
      /\ \/ pc'[p] = "recKeep" /\ at' = at /\ CurrentIsComplete(k)
         \/ /\ pc'[p] = "recData" /\ at' = at
            /\ ~CurrentIsComplete(k) /\ journal.had[k] /\ backup[k] # 0
         \/ /\ pc'[p] = "rec" /\ at' = [at EXCEPT ![p] = at[p] + 1]
            /\ ~CurrentIsComplete(k) /\ journal.had[k] /\ backup[k] = 0 /\ MatchesPrevious(k)
  BY <1>pc, <1>k DEF RecComplete, RecRollback, RecUntouched, RecAt, NextEntry, Goto
<1>2. UNCHANGED <<plan, run, runLock, elock, plock, data, marker, manifest,
                  backup, good, journal, made, faults>>
  BY DEF RecComplete, RecRollback, RecUntouched, entries, locks
<1>3. /\ pc[p] \in Recovering /\ pc'[p] \in Recovering /\ journal.state = "prepared"
      /\ pc'[p] \notin PromoteOne
  BY <1>1, <1>inv DEF Recovering, RecoverOne, PromoteOne, Journal
<1>4. at[p] \in Nat /\ at[p] >= 1 /\ journal.keys \in Plan
  BY <1>1, <1>3, <1>at, <1>inv DEF Placed, IInv, TypeOK
<1>5. at[p] \in DOMAIN journal.keys /\ at'[p] >= 1 /\ (at'[p] = at[p] \/ at'[p] = at[p] + 1)
  BY <1>1, <1>4, <1>at, PlanKeys, SMTT(30)
<1>6. k \in Key /\ Journaled(k)
  BY <1>k, <1>3, <1>4, <1>5, PlanKeys DEF Rec, Journaled
<1>7. InJournal(k)
  BY <1>6 DEF IInv, EntryInv
<1>8. TypeOK'
  <2>1. pc' \in [Proc -> Spots]
    BY <1>pc, SpotNames DEF RecComplete, RecRollback, RecUntouched, NextEntry, Goto
  <2>2. at' \in [Proc -> Nat]
    BY <1>at, <1>1, SMTT(30)
  <2>3. QED
    BY <1>2, <2>1, <2>2, Zenon DEF IInv, TypeOK, Spots
<1>9. Quiet(p)
  <2>1. ASSUME NEW q \in Proc, q # p PROVE SameProc(q)
    BY <2>1, <1>pc, <1>at, <1>2 DEF RecComplete, RecRollback, RecUntouched, NextEntry, Goto,
       SameProc
  <2>2. QED
    BY <2>1, <1>2 DEF Quiet, MadeKept
<1>10. ProcInv(p)'
  <2>1. \A l \in Key : SameEntry(l)
    BY <1>2, <1>9, EntryKept DEF IInv, Quiet, SameFiles
  <2>2. pc'[p] \in RecoverOne => at'[p] = at[p] /\ pc'[p] \in {"recKeep", "recData"}
    BY <1>1 DEF RecoverOne
  <2>3. Placed(p)' /\ Locks(p)' /\ Journal(p)'
    BY <1>inv, <1>2, <1>3, <1>5, <2>2, StayInside
  <2>4. at'[p] = at[p] \/ (at'[p] = at[p] + 1 /\ Settled(k)')
    BY <1>1, <1>5, <1>6, <1>7, <2>1, Decided DEF SameEntry
  <2>5. \A i \in DOMAIN journal.keys : Progress(p, i)'
    BY <1>inv, <1>k, <1>2, <1>3, <1>5, <2>1, <2>4, RecoverProgress DEF IInv
  <2>6. ASSUME pc'[p] \in RecoverOne PROVE InHand(p, Rec(p))'
    <3>1. CASE pc'[p] = "recKeep"
      <4>1. Fresh(k)'
        BY <1>1, <1>6, <1>7, <2>1, <3>1, Decided DEF SameEntry
      <4>2. InHand(p, k)'
        BY <3>1, <4>1 DEF InHand, PromoteOne
      <4>3. QED
        BY <4>2, <2>2, <2>6, <1>k, <1>2 DEF Rec
    <3>2. CASE pc'[p] = "recData"
      <4>1. Saved(k) /\ backup[k] = good[k] /\ (data[k] # 0 => marker[k] # "complete")
        BY <1>1, <1>7, <3>2, Decided
      <4>2. InHand(p, k)'
        BY <3>2, <4>1, <1>2 DEF InHand, PromoteOne, Saved
      <4>3. QED
        BY <4>2, <2>2, <2>6, <1>k, <1>2 DEF Rec
    <3>3. QED
      BY <2>2, <2>6, <3>1, <3>2
  <2>7. Work(p)'
    BY <1>2, <1>3, <2>5, <2>6, HoldingNames DEF Work
  <2>8. QED
    BY <2>3, <2>7 DEF ProcInv
<1>11. QED
  BY <1>8, <1>9, <1>10, QuietStep

\* A recovery has settled every entry and gives back their locks.
LEMMA RecDoneStep ==
  ASSUME IInv, NEW p \in Proc, RecDone(p)
  PROVE  IInv'
<1>pc. pc \in [Proc -> Spots]
  BY DEF IInv, TypeOK, Spots
<1>plan. plan \in [Proc -> Plan \cup {<<>>}]
  BY DEF IInv, TypeOK
<1>at. at \in [Proc -> Nat]
  BY DEF IInv, TypeOK
<1>run. run \in [Proc -> Runs \cup {0}]
  BY DEF IInv, TypeOK
<1>elock. elock \in [Key -> Proc \cup {NoProc}]
  BY DEF IInv, TypeOK
<1>plock. plock \in Proc \cup {NoProc}
  BY DEF IInv, TypeOK
<1>inv. Placed(p) /\ Locks(p) /\ Journal(p) /\ Work(p)
  BY DEF IInv, ProcInv
<1>1. /\ pc[p] = "rec" /\ at[p] > Len(journal.keys) /\ pc'[p] = "recJournal"
      /\ elock' = [l \in Key |-> IF l \in KeysOf(journal.keys) THEN NoProc ELSE elock[l]]
  BY <1>pc DEF RecDone, Goto
<1>2. UNCHANGED <<plan, at, run, runLock, plock, data, marker, manifest,
                  backup, good, journal, made, faults>>
  BY DEF RecDone, entries
<1>3. /\ pc[p] \in Recovering /\ pc[p] \in Holding /\ pc'[p] \in Holding /\ journal.state = "prepared"
      /\ pc'[p] \notin Recovering /\ pc'[p] \notin Promoting
      /\ pc'[p] \notin RecoverOne /\ pc'[p] \notin PromoteOne
  BY <1>1, <1>inv, HoldingNames DEF Recovering, Journal
<1>4. /\ journal.keys \in Plan /\ plan[p] \in Plan /\ at[p] \in Nat
      /\ \A l \in KeysOf(journal.keys) : elock[l] = p /\ l \notin KeysOf(plan[p])
  BY <1>1, <1>3, <1>at, <1>inv DEF Placed, Locks, IInv, TypeOK
<1>5. TypeOK'
  <2>1. pc' \in [Proc -> Spots]
    BY <1>pc, SpotNames DEF RecDone, Goto
  <2>2. elock' \in [Key -> Proc \cup {NoProc}]
    BY <1>1, <1>elock
  <2>3. QED
    BY <1>2, <2>1, <2>2, Zenon DEF IInv, TypeOK, Spots
<1>6. Quiet(p)
  <2>1. ASSUME NEW q \in Proc, q # p PROVE SameProc(q)
    <3>1. \A l \in Key : elock[l] = q => elock'[l] = q
      BY <1>1, <1>4, <2>1
    <3>2. QED
      BY <2>1, <3>1, <1>pc, <1>2 DEF RecDone, Goto, SameProc
  <2>2. QED
    BY <2>1, <1>2 DEF Quiet, MadeKept
<1>7. ProcInv(p)'
  <2>1. \A l \in Key : SameEntry(l)
    BY <1>2, <1>6, EntryKept DEF IInv, Quiet, SameFiles
  <2>2. Placed(p)'
    BY <1>inv, <1>1, <1>2, <1>3 DEF Placed
  <2>3. \A l \in KeysOf(plan[p]) : elock'[l] = p
    BY <1>1, <1>3, <1>4, <1>inv, PlanKeys, HoldingNames DEF Locks
  <2>4. Locks(p)'
    BY <1>inv, <1>1, <1>2, <1>3, <2>3 DEF Locks
  <2>5. Journal(p)'
    BY <1>1, <1>2, <1>3 DEF Journal
  <2>6. ASSUME NEW i \in DOMAIN journal.keys PROVE Progress(p, i)'
    <3>1. i < at[p]
      BY <1>1, <1>4, PlanKeys, SMTT(30)
    <3>2. Settled(journal.keys[i]) /\ SameEntry(journal.keys[i])
      BY <3>1, <1>3, <1>4, <1>inv, <2>1, PlanKeys DEF Work, Progress
    <3>3. QED
      BY <3>2, <1>1, <1>3 DEF Progress, SameEntry
  <2>7. Work(p)'
    BY <1>1, <1>2, <1>3, <2>6 DEF Work
  <2>8. QED
    BY <2>2, <2>4, <2>5, <2>7 DEF ProcInv
<1>8. QED
  BY <1>5, <1>6, <1>7, QuietStep

\* Every entry of the plan is promoted.
LEMMA ExecDoneStep ==
  ASSUME IInv, NEW p \in Proc, ExecDone(p)
  PROVE  IInv'
<1>pc. pc \in [Proc -> Spots]
  BY DEF IInv, TypeOK, Spots
<1>plan. plan \in [Proc -> Plan \cup {<<>>}]
  BY DEF IInv, TypeOK
<1>at. at \in [Proc -> Nat]
  BY DEF IInv, TypeOK
<1>run. run \in [Proc -> Runs \cup {0}]
  BY DEF IInv, TypeOK
<1>elock. elock \in [Key -> Proc \cup {NoProc}]
  BY DEF IInv, TypeOK
<1>plock. plock \in Proc \cup {NoProc}
  BY DEF IInv, TypeOK
<1>inv. Placed(p) /\ Locks(p) /\ Journal(p) /\ Work(p)
  BY DEF IInv, ProcInv
<1>1. pc[p] = "exec" /\ at[p] > Len(plan[p]) /\ pc'[p] = "finalize" /\ at'[p] = 1
  BY <1>pc, <1>at DEF ExecDone, FirstEntry, Goto
<1>2. UNCHANGED <<plan, run, runLock, elock, plock, data, marker, manifest,
                  backup, good, journal, made, faults>>
  BY DEF ExecDone, entries, locks
<1>3. /\ pc[p] \in Promoting /\ journal.state = "prepared" /\ journal.keys = plan[p]
      /\ pc'[p] \notin Recovering /\ pc'[p] \notin Promoting
      /\ pc'[p] \notin RecoverOne /\ pc'[p] \notin PromoteOne
  BY <1>1, <1>inv, HoldingNames DEF Promoting, Journal
<1>4. journal.keys \in Plan /\ at[p] \in Nat /\ at'[p] >= 1
  BY <1>1, <1>3, <1>at, SMTT(30) DEF IInv, TypeOK
<1>5. TypeOK'
  <2>1. pc' \in [Proc -> Spots]
    BY <1>pc, SpotNames DEF ExecDone, FirstEntry, Goto
  <2>2. at' \in [Proc -> Nat]
    BY <1>at, SMTT(30) DEF ExecDone, FirstEntry
  <2>3. QED
    BY <1>2, <2>1, <2>2, Zenon DEF IInv, TypeOK, Spots
<1>6. Quiet(p)
  <2>1. ASSUME NEW q \in Proc, q # p PROVE SameProc(q)
    BY <2>1, <1>pc, <1>at, <1>2 DEF ExecDone, FirstEntry, Goto, SameProc
  <2>2. QED
    BY <2>1, <1>2 DEF Quiet, MadeKept
<1>7. ProcInv(p)'
  <2>1. \A l \in Key : SameEntry(l)
    BY <1>2, <1>6, EntryKept DEF IInv, Quiet, SameFiles
  <2>2. Placed(p)' /\ Locks(p)' /\ Journal(p)'
    BY <1>inv, <1>1, <1>2, <1>3, <1>4, StayInside
  <2>3. ASSUME NEW i \in DOMAIN journal.keys PROVE Progress(p, i)'
    <3>1. i < at[p] /\ ~(i < at'[p])
      BY <1>1, <1>3, <1>4, PlanKeys, SMTT(30)
    <3>2. /\ Fresh(journal.keys[i]) /\ data[journal.keys[i]] = run[p]
          /\ SameEntry(journal.keys[i])
      BY <3>1, <1>3, <1>4, <1>inv, <2>1, PlanKeys DEF Work, Progress
    <3>3. QED
      BY <3>1, <3>2, <1>1, <1>2, <1>3 DEF Progress, SameEntry
  <2>4. Work(p)'
    BY <1>1, <1>2, <1>3, <2>3 DEF Work
  <2>5. QED
    BY <2>2, <2>4 DEF ProcInv
<1>8. QED
  BY <1>5, <1>6, <1>7, QuietStep

-----------------------------------------------------------------------------
(* Steps that change the files of the entry in hand.                       *)

\* Wherever its step is interrupted, the entry in hand is an entry of the journal.
LEMMA InHandInJournal ==
  ASSUME NEW p \in Proc, NEW k, pc'[p] \in RecoverOne \cup PromoteOne, InHand(p, k)'
  PROVE  InJournal(k)'
<1>1. CASE pc'[p] = "recKeep"
  BY <1>1 DEF InHand, InJournal
<1>2. CASE pc'[p] \in {"recData", "recManifest", "recRename"}
  BY <1>2 DEF InHand, InJournal
<1>3. CASE pc'[p] \in {"recRestore", "recRestoreWrite", "recMark", "recMarkWrite"}
  BY <1>3 DEF InHand, InJournal
<1>4. CASE pc'[p] \in PromoteOne
  <2>1. Aside(k)'
    BY <1>4 DEF InHand
  <2>2. data'[k] = 0 \/ marker'[k] # "complete"
    BY <1>4 DEF InHand, PromoteOne
  <2>3. QED
    BY <2>1, <2>2 DEF Aside, InJournal
<1>5. QED
  BY <1>1, <1>2, <1>3, <1>4 DEF RecoverOne

\* A step of the holder of the promotion lock that changes one entry.
LEMMA FileStep ==
  ASSUME IInv, NEW p \in Proc, NEW k, pc[p] \in Holding, TypeOK',
         UNCHANGED <<plan, run, elock, plock, journal, made>>,
         \A q \in Proc : q # p => pc'[q] = pc[q] /\ at'[q] = at[q],
         \A l \in Key : l # k => SameFiles(l),
         k \in Key => EntryInv(k)', ProcInv(p)'
  PROVE  IInv'
<1>1. MadeKept
  BY DEF MadeKept
<1>2. ASSUME NEW l \in Key PROVE EntryInv(l)'
  BY <1>1, EntryKept DEF IInv
<1>3. ASSUME NEW q \in Proc, q # p PROVE ProcInv(q)'
  <2>1. SameProc(q)
    BY <1>3 DEF SameProc
  <2>2. plock = p
    BY DEF IInv, ProcInv, Locks
  <2>3. pc[q] \notin Holding
    BY <1>3, <2>2 DEF IInv, ProcInv, Locks
  <2>4. QED
    BY <1>1, <2>1, <2>3, BystanderKept DEF IInv
<1>4. QED
  BY <1>2, <1>3 DEF IInv

\* What is known at a step on the entry in hand.
LEMMA HandFacts ==
  ASSUME IInv, NEW p \in Proc, pc[p] \in RecoverOne \cup PromoteOne
  PROVE  /\ journal.state = "prepared" /\ journal.keys \in Plan
         /\ at[p] \in DOMAIN journal.keys /\ at[p] \in Nat /\ at[p] >= 1
         /\ Rec(p) \in Key /\ Journaled(Rec(p)) /\ EntryInv(Rec(p)) /\ InHand(p, Rec(p))
         /\ pc[p] \in PromoteOne => Cur(p) = Rec(p)
<1>1. Placed(p) /\ Journal(p) /\ Work(p)
  BY DEF IInv, ProcInv
<1>2. journal.state = "prepared" /\ journal.keys \in Plan
  BY <1>1, HoldingNames DEF Journal, IInv, TypeOK
<1>3. at[p] \in DOMAIN journal.keys /\ at[p] \in Nat /\ at[p] >= 1
  BY <1>1, HoldingNames DEF Placed, IInv, TypeOK
<1>4. Rec(p) \in Key /\ Journaled(Rec(p))
  BY <1>2, <1>3, PlanKeys DEF Rec, Journaled
<1>5. pc[p] \in PromoteOne => Cur(p) = Rec(p)
  BY <1>1, HoldingNames DEF Journal, Cur, Rec
<1>6. QED
  BY <1>1, <1>2, <1>3, <1>4, <1>5 DEF IInv, Work

\* A file step of a recovery.
LEMMA RecoverFile ==
  ASSUME IInv, NEW p \in Proc, NEW k \in Key, k = Rec(p), pc[p] \in Recovering,
         at[p] \in DOMAIN journal.keys, NEW step, pc' = [pc EXCEPT ![p] = step],
         UNCHANGED <<plan, run, runLock, elock, plock, journal, made, good, faults>>,
         data' \in [Key -> Payload], marker' \in [Key -> {"none", "torn", "complete"}],
         manifest' \in [Key -> Gen \cup {0, Torn}], backup' \in [Key -> Payload],
         \A l \in Key : l # k => SameFiles(l),
         \/ at' = at /\ step \in RecoverOne /\ InHand(p, k)'
         \/ at' = [at EXCEPT ![p] = at[p] + 1] /\ step = "rec" /\ Settled(k)' /\ InJournal(k)'
  PROVE  IInv'
<1>pc. pc \in [Proc -> Spots]
  BY DEF IInv, TypeOK, Spots
<1>at. at \in [Proc -> Nat]
  BY DEF IInv, TypeOK
<1>inv. Placed(p) /\ Locks(p) /\ Journal(p) /\ Work(p)
  BY DEF IInv, ProcInv
<1>1. pc'[p] = step /\ step \in Recovering /\ step \in Spots
  BY <1>pc, SpotNames DEF Recovering, RecoverOne
<1>2. at' \in [Proc -> Nat] /\ at'[p] >= 1
  <2>1. at[p] >= 1 /\ at[p] \in Nat
    BY <1>inv, <1>at, HoldingNames DEF Placed
  <2>2. QED
    BY <2>1, <1>at, SMTT(30)
<1>3. TypeOK'
  <2>1. pc' \in [Proc -> Spots]
    BY <1>1, <1>pc
  <2>2. QED
    BY <1>2, <2>1, Zenon DEF IInv, TypeOK, Spots
<1>4. journal.state = "prepared" /\ journal.keys \in Plan /\ Journaled(k)
  BY <1>inv, PlanKeys DEF Journal, IInv, TypeOK, Journaled, Rec
<1>5. EntryInv(k)'
  <2>1. InJournal(k)'
    BY <1>1, InHandInJournal
  <2>2. QED
    BY <1>4, <2>1 DEF IInv, EntryInv, Journaled
<1>6. ProcInv(p)'
  <2>1. step \in RecoverOne => at' = at
    BY DEF RecoverOne
  <2>2. step \notin PromoteOne
    BY <1>1, HoldingNames
  <2>3. Placed(p)' /\ Locks(p)' /\ Journal(p)'
    BY <1>inv, <1>1, <1>2, <2>1, <2>2, StayInside
  <2>4. \A l \in Key : l # k => SameEntry(l)
    BY EntryKept DEF IInv, MadeKept
  <2>5. at'[p] = at[p] \/ (at'[p] = at[p] + 1 /\ Settled(k)')
    BY <1>at
  <2>6. \A i \in DOMAIN journal.keys : Progress(p, i)'
    BY <1>inv, <1>1, <1>4, <2>4, <2>5, RecoverProgress DEF IInv
  <2>7. step \in RecoverOne => Rec(p)' = k /\ InHand(p, k)'
    BY <2>1 DEF Rec, RecoverOne
  <2>8. Work(p)'
    BY <1>1, <2>2, <2>6, <2>7, HoldingNames DEF Work
  <2>9. QED
    BY <2>3, <2>8 DEF ProcInv
<1>7. QED
  BY <1>pc, <1>at, <1>3, <1>5, <1>6, HoldingNames, FileStep

\* A promotion goes on to the next entry when it has promoted the one in hand.
LEMMA PromoteProgress ==
  ASSUME TypeOK, NEW p \in Proc, Work(p), journal.state = "prepared", UNCHANGED <<journal, run>>,
         pc[p] \in Promoting, pc'[p] \in Promoting, at[p] \in DOMAIN journal.keys,
         NEW k, k = Rec(p), \A l \in Key : l # k => SameEntry(l),
         \/ at'[p] = at[p] /\ pc'[p] # "exec"
         \/ at'[p] = at[p] + 1 /\ Fresh(k)' /\ data'[k] = run[p]
  PROVE  \A i \in DOMAIN journal.keys : Progress(p, i)'
<1>1. /\ DOMAIN journal.keys = 1..Len(journal.keys) /\ Len(journal.keys) \in Nat
      /\ \A i \in DOMAIN journal.keys : journal.keys[i] \in Key
      /\ \A i, j \in DOMAIN journal.keys : journal.keys[i] = journal.keys[j] => i = j
  BY PlanKeys DEF TypeOK
<1>2. ASSUME NEW i \in DOMAIN journal.keys PROVE Progress(p, i)'
  <2>1. pc'[p] \notin Recovering /\ pc'[p] \notin {"recJournal", "finalize"}
    BY HoldingNames
  <2>2. CASE i < at[p]
    <3>1. i # at[p] /\ ~(i > at'[p]) /\ i # at'[p]
      BY <2>2, <1>1, SMTT(30)
    <3>2. journal.keys[i] \in Key /\ journal.keys[i] # k
      BY <3>1, <1>1 DEF Rec
    <3>3. Fresh(journal.keys[i]) /\ data[journal.keys[i]] = run[p]
      BY <2>2 DEF Work, Progress
    <3>4. QED
      BY <2>1, <3>1, <3>2, <3>3 DEF Progress, SameEntry
  <2>3. CASE i > at[p]
    <3>1. i # at[p] /\ ~(i < at'[p])
      BY <2>3, <1>1, SMTT(30)
    <3>2. journal.keys[i] \in Key /\ journal.keys[i] # k
      BY <3>1, <1>1 DEF Rec
    <3>3. Waiting(journal.keys[i])
      BY <2>3 DEF Work, Progress
    <3>4. QED
      BY <2>1, <3>1, <3>2, <3>3 DEF Progress, SameEntry
  <2>4. CASE i = at[p]
    <3>1. \/ ~(i < at'[p]) /\ ~(i > at'[p]) /\ pc'[p] # "exec"
          \/ ~(i > at'[p]) /\ i # at'[p] /\ Fresh(k)' /\ data'[k] = run[p]
      BY <2>4, <1>1, SMTT(30)
    <3>2. journal.keys[i] = k
      BY <2>4 DEF Rec
    <3>3. QED
      BY <2>1, <3>1, <3>2 DEF Progress
  <2>5. QED
    BY <2>2, <2>3, <2>4, <1>1, SMTT(30)
<1>3. QED
  BY <1>2

\* A file step of a promotion.
LEMMA PromoteFile ==
  ASSUME IInv, NEW p \in Proc, NEW k \in Key, k = Rec(p), pc[p] \in Promoting,
         at[p] \in DOMAIN journal.keys, NEW step, pc' = [pc EXCEPT ![p] = step],
         UNCHANGED <<plan, run, runLock, elock, plock, journal, made, faults>>,
         data' \in [Key -> Payload], marker' \in [Key -> {"none", "torn", "complete"}],
         manifest' \in [Key -> Gen \cup {0, Torn}], backup' \in [Key -> Payload],
         good' \in [Key -> Runs \cup {0}], good'[k] # 0 => good'[k] \in DOMAIN made,
         \A l \in Key : l # k => SameFiles(l),
         \/ at' = at /\ step \in PromoteOne /\ InHand(p, k)'
         \/ at' = [at EXCEPT ![p] = at[p] + 1] /\ step = "exec" /\ Fresh(k)' /\ data'[k] = run[p]
  PROVE  IInv'
<1>pc. pc \in [Proc -> Spots]
  BY DEF IInv, TypeOK, Spots
<1>at. at \in [Proc -> Nat]
  BY DEF IInv, TypeOK
<1>inv. Placed(p) /\ Locks(p) /\ Journal(p) /\ Work(p)
  BY DEF IInv, ProcInv
<1>1. pc'[p] = step /\ step \in Promoting /\ step \in Spots
  BY <1>pc, SpotNames DEF Promoting, PromoteOne
<1>2. at' \in [Proc -> Nat] /\ at'[p] >= 1
  <2>1. at[p] >= 1 /\ at[p] \in Nat
    BY <1>inv, <1>at, HoldingNames DEF Placed
  <2>2. QED
    BY <2>1, <1>at, SMTT(30)
<1>3. TypeOK'
  <2>1. pc' \in [Proc -> Spots]
    BY <1>1, <1>pc
  <2>2. QED
    BY <1>2, <2>1, Zenon DEF IInv, TypeOK, Spots
<1>4. journal.state = "prepared" /\ journal.keys \in Plan /\ Journaled(k)
  BY <1>inv, PlanKeys DEF Journal, IInv, TypeOK, Journaled, Rec
<1>5. EntryInv(k)'
  <2>1. InJournal(k)'
    <3>1. Fresh(k)' => InJournal(k)'
      BY DEF InJournal
    <3>2. QED
      BY <1>1, <3>1, InHandInJournal
  <2>2. QED
    BY <1>4, <2>1 DEF EntryInv, Journaled
<1>6. ProcInv(p)'
  <2>1. step \in PromoteOne => at' = at /\ step # "exec"
    BY DEF PromoteOne
  <2>2. step \notin RecoverOne
    BY <1>1, HoldingNames
  <2>3. Placed(p)' /\ Locks(p)' /\ Journal(p)'
    BY <1>inv, <1>1, <1>2, <2>1, <2>2, StayInside
  <2>4. \A l \in Key : l # k => SameEntry(l)
    BY EntryKept DEF IInv, MadeKept
  <2>5. \/ at'[p] = at[p] /\ step # "exec"
        \/ at'[p] = at[p] + 1 /\ Fresh(k)' /\ data'[k] = run[p]
    BY <1>at, <2>1
  <2>6. \A i \in DOMAIN journal.keys : Progress(p, i)'
    BY <1>inv, <1>1, <1>4, <2>4, <2>5, PromoteProgress DEF IInv
  <2>7. step \in PromoteOne => Rec(p)' = k /\ InHand(p, k)'
    BY <2>1 DEF Rec, PromoteOne
  <2>8. Work(p)'
    BY <1>1, <2>2, <2>6, <2>7, HoldingNames DEF Work
  <2>9. QED
    BY <2>3, <2>8 DEF ProcInv
<1>7. QED
  BY <1>pc, <1>at, <1>3, <1>5, <1>6, HoldingNames, FileStep

\* The removal of a tree leaves a partial tree, then nothing.
LEMMA ShrinkType ==
  ASSUME NEW t \in Payload
  PROVE  Shrink(t) \in Payload
BY DEF Shrink, Payload

\* The generations of promoted and of current runs.
LEMMA Generations ==
  ASSUME IInv
  PROVE  /\ \A n \in DOMAIN made : made[n] \in Gen /\ made[n] # 0 /\ made[n] # Torn
         /\ \A k \in Key : Saved(k) => journal.manifest[k] \in Gen /\ journal.manifest[k] # 0
<1>1. \A n \in DOMAIN made : made[n] \in Gen /\ made[n] # 0 /\ made[n] # Torn
  <2>1. \A n \in DOMAIN made : made[n] \in Gen
    BY SMTT(30) DEF IInv, TypeOK
  <2>2. \A g \in Gen : g # 0 /\ g # Torn
    BY GenAssumption, SMTT(30) DEF Torn
  <2>3. QED
    BY <2>1, <2>2
<1>2. ASSUME NEW k \in Key, Saved(k)
      PROVE  journal.manifest[k] \in Gen /\ journal.manifest[k] # 0
  <2>1. good[k] \in DOMAIN made
    BY <1>2 DEF IInv, EntryInv, Saved
  <2>2. QED
    BY <1>1, <1>2, <2>1 DEF Saved
<1>3. QED
  BY <1>1, <1>2

\* A recovery removes the residue of a promotion that was complete.
LEMMA RecKeepStep ==
  ASSUME IInv, NEW p \in Proc, RecKeep(p)
  PROVE  IInv'
<1>pc. pc \in [Proc -> Spots]
  BY DEF IInv, TypeOK, Spots
<1>at. at \in [Proc -> Nat]
  BY DEF IInv, TypeOK
<1>files. /\ data \in [Key -> Payload] /\ marker \in [Key -> {"none", "torn", "complete"}]
          /\ manifest \in [Key -> Gen \cup {0, Torn}] /\ backup \in [Key -> Payload]
  BY DEF IInv, TypeOK
<1>k. PICK k : k = Rec(p)
  OBVIOUS
<1>1. pc[p] = "recKeep" /\ pc[p] \in RecoverOne /\ pc[p] \in Recovering
  BY DEF RecKeep, RecoverOne, Recovering
<1>2. k \in Key /\ at[p] \in DOMAIN journal.keys /\ Fresh(k)
  BY <1>1, <1>k, HandFacts DEF InHand
<1>3. UNCHANGED <<plan, run, runLock, elock, plock, journal, made, good, faults, data, marker, manifest>>
  BY DEF RecKeep, locks
<1>4. Fresh(k)' /\ Complete(k)'
  BY <1>2, <1>3 DEF Fresh, Complete
<1>5. CASE backup[k] = 0
  <2>1. pc' = [pc EXCEPT ![p] = "rec"] /\ at' = [at EXCEPT ![p] = at[p] + 1] /\ backup' = backup
    BY <1>5, <1>k DEF RecKeep, NextEntry, Goto
  <2>2. Settled(k)' /\ InJournal(k)'
    BY <1>4, <1>5, <2>1 DEF Settled, InJournal
  <2>3. \A l \in Key : l # k => SameFiles(l)
    BY <1>3, <2>1 DEF SameFiles
  <2>4. QED
    BY <1>files, <1>k, <1>1, <1>2, <1>3, <2>1, <2>2, <2>3, RecoverFile
<1>6. CASE backup[k] # 0
  <2>1. pc' = pc /\ at' = at /\ backup' = [backup EXCEPT ![k] = Shrink(backup[k])]
    BY <1>6, <1>k DEF RecKeep
  <2>2. pc' = [pc EXCEPT ![p] = "recKeep"] /\ pc'[p] = "recKeep"
    BY <1>pc, <1>1, <2>1
  <2>3. InHand(p, k)'
    BY <1>4, <2>2 DEF InHand, PromoteOne
  <2>4. \A l \in Key : l # k => SameFiles(l)
    BY <1>files, <1>3, <2>1 DEF SameFiles
  <2>5. backup' \in [Key -> Payload]
    BY <1>files, <1>2, <2>1, ShrinkType
  <2>6. QED
    BY <1>files, <1>k, <1>1, <1>2, <1>3, <2>1, <2>2, <2>3, <2>4, <2>5, RecoverFile
<1>7. QED
  BY <1>5, <1>6

\* A recovery moves the files of the interrupted promotion out of the way and the backup back.
LEMMA RollbackSteps ==
  ASSUME IInv, NEW p \in Proc, RecData(p) \/ RecManifest(p) \/ RecRename(p)
  PROVE  IInv'
<1>pc. pc \in [Proc -> Spots]
  BY DEF IInv, TypeOK, Spots
<1>at. at \in [Proc -> Nat]
  BY DEF IInv, TypeOK
<1>files. /\ data \in [Key -> Payload] /\ marker \in [Key -> {"none", "torn", "complete"}]
          /\ manifest \in [Key -> Gen \cup {0, Torn}] /\ backup \in [Key -> Payload]
  BY DEF IInv, TypeOK
<1>k. PICK k : k = Rec(p)
  OBVIOUS
<1>1. pc[p] \in {"recData", "recManifest", "recRename"} /\ pc[p] \in RecoverOne /\ pc[p] \in Recovering
  BY DEF RecData, RecManifest, RecRename, RecoverOne, Recovering
<1>2. /\ k \in Key /\ at[p] \in DOMAIN journal.keys /\ InHand(p, k)
      /\ Saved(k) /\ backup[k] = good[k] /\ (data[k] # 0 => marker[k] # "complete")
  BY <1>1, <1>k, HandFacts DEF InHand
<1>3. UNCHANGED <<plan, at, run, runLock, elock, plock, journal, made, good, faults>>
  BY DEF RecData, RecManifest, RecRename, locks
<1>4. Saved(k)' /\ good'[k] = good[k]
  BY <1>2, <1>3 DEF Saved
<1>5. CASE RecData(p) /\ data[k] # 0
  <2>1. /\ pc' = pc /\ data' = [data EXCEPT ![k] = Shrink(data[k])]
        /\ marker' = marker /\ manifest' = manifest /\ backup' = backup
    BY <1>5, <1>k DEF RecData
  <2>2. pc' = [pc EXCEPT ![p] = "recData"] /\ pc'[p] = "recData"
    BY <1>pc, <1>5, <2>1 DEF RecData
  <2>3. InHand(p, k)'
    BY <1>2, <1>4, <1>5, <2>1, <2>2 DEF InHand, PromoteOne
  <2>4. \A l \in Key : l # k => SameFiles(l)
    BY <1>files, <1>3, <2>1 DEF SameFiles
  <2>5. data' \in [Key -> Payload]
    BY <1>files, <1>2, <2>1, ShrinkType
  <2>6. "recData" \in RecoverOne
    BY DEF RecoverOne
  <2>7. QED
    BY <1>files, <1>k, <1>1, <1>2, <1>3, <2>1, <2>2, <2>3, <2>4, <2>5, <2>6, RecoverFile
<1>6. CASE RecData(p) /\ data[k] = 0
  <2>1. /\ pc' = [pc EXCEPT ![p] = "recManifest"] /\ marker' = [marker EXCEPT ![k] = "none"]
        /\ data' = data /\ manifest' = manifest /\ backup' = backup
    BY <1>6, <1>k DEF RecData, Goto
  <2>2. pc'[p] = "recManifest" /\ marker'[k] = "none"
    BY <1>pc, <1>files, <1>2, <2>1
  <2>3. InHand(p, k)'
    BY <1>2, <1>4, <1>6, <2>1, <2>2 DEF InHand, PromoteOne
  <2>4. \A l \in Key : l # k => SameFiles(l)
    BY <1>files, <1>3, <2>1 DEF SameFiles
  <2>5. marker' \in [Key -> {"none", "torn", "complete"}]
    BY <1>files, <1>2, <2>1
  <2>6. "recManifest" \in RecoverOne
    BY DEF RecoverOne
  <2>7. QED
    BY <1>files, <1>k, <1>1, <1>2, <1>3, <2>1, <2>2, <2>3, <2>4, <2>5, <2>6, RecoverFile
<1>7. CASE RecManifest(p)
  <2>1. /\ pc' = [pc EXCEPT ![p] = "recRename"] /\ manifest' = [manifest EXCEPT ![k] = 0]
        /\ data' = data /\ marker' = marker /\ backup' = backup /\ pc[p] = "recManifest"
    BY <1>7, <1>k DEF RecManifest, Goto
  <2>2. pc'[p] = "recRename"
    BY <1>pc, <2>1
  <2>3. InHand(p, k)'
    <3>1. data[k] = 0 /\ marker[k] = "none"
      BY <1>2, <2>1 DEF InHand
    <3>2. QED
      BY <1>2, <1>4, <2>1, <2>2, <3>1 DEF InHand, PromoteOne
  <2>4. \A l \in Key : l # k => SameFiles(l)
    BY <1>files, <1>3, <2>1 DEF SameFiles
  <2>5. manifest' \in [Key -> Gen \cup {0, Torn}]
    BY <1>files, <1>2, <2>1
  <2>6. "recRename" \in RecoverOne
    BY DEF RecoverOne
  <2>7. QED
    BY <1>files, <1>k, <1>1, <1>2, <1>3, <2>1, <2>2, <2>3, <2>4, <2>5, <2>6, RecoverFile
<1>8. CASE RecRename(p)
  <2>1. /\ pc' = [pc EXCEPT ![p] = "recRestore"] /\ data' = [data EXCEPT ![k] = backup[k]]
        /\ backup' = [backup EXCEPT ![k] = 0]
        /\ marker' = marker /\ manifest' = manifest /\ pc[p] = "recRename"
    BY <1>8, <1>k DEF RecRename, Goto
  <2>2. pc'[p] = "recRestore" /\ data'[k] = good[k] /\ backup'[k] = 0
    BY <1>pc, <1>files, <1>2, <2>1
  <2>3. InHand(p, k)'
    <3>1. marker[k] = "none"
      BY <1>2, <2>1 DEF InHand
    <3>2. QED
      BY <1>2, <1>4, <2>1, <2>2, <3>1 DEF InHand, PromoteOne
  <2>4. \A l \in Key : l # k => SameFiles(l)
    BY <1>files, <1>3, <2>1 DEF SameFiles
  <2>5. data' \in [Key -> Payload] /\ backup' \in [Key -> Payload]
    BY <1>files, <1>2, <2>1 DEF Payload
  <2>6. "recRestore" \in RecoverOne
    BY DEF RecoverOne
  <2>7. QED
    BY <1>files, <1>k, <1>1, <1>2, <1>3, <2>1, <2>2, <2>3, <2>4, <2>5, <2>6, RecoverFile
<1>9. QED
  BY <1>5, <1>6, <1>7, <1>8

\* A recovery puts back the manifest, then the marker, of the last good payload.
LEMMA RestoreSteps ==
  ASSUME IInv, NEW p \in Proc, RecRestore(p) \/ RecRestoreWrite(p) \/ RecMark(p) \/ RecMarkWrite(p)
  PROVE  IInv'
<1>pc. pc \in [Proc -> Spots]
  BY DEF IInv, TypeOK, Spots
<1>at. at \in [Proc -> Nat]
  BY DEF IInv, TypeOK
<1>files. /\ data \in [Key -> Payload] /\ marker \in [Key -> {"none", "torn", "complete"}]
          /\ manifest \in [Key -> Gen \cup {0, Torn}] /\ backup \in [Key -> Payload]
  BY DEF IInv, TypeOK
<1>k. PICK k : k = Rec(p)
  OBVIOUS
<1>1. /\ pc[p] \in {"recRestore", "recRestoreWrite", "recMark", "recMarkWrite"}
      /\ pc[p] \in RecoverOne /\ pc[p] \in Recovering
  BY DEF RecRestore, RecRestoreWrite, RecMark, RecMarkWrite, RecoverOne, Recovering
<1>2. /\ k \in Key /\ at[p] \in DOMAIN journal.keys /\ InHand(p, k)
      /\ Saved(k) /\ backup[k] = 0 /\ data[k] = good[k] /\ marker[k] # "complete"
  BY <1>1, <1>k, HandFacts DEF InHand
<1>3. UNCHANGED <<plan, run, runLock, elock, plock, journal, made, good, faults, data, backup>>
  BY DEF RecRestore, RecRestoreWrite, RecMark, RecMarkWrite, locks
<1>4. Saved(k)' /\ good'[k] = good[k] /\ backup'[k] = 0 /\ data'[k] = good[k]
  BY <1>2, <1>3 DEF Saved
<1>5. /\ journal.manifest[k] \in Gen /\ journal.manifest[k] # 0
      /\ journal.manifest[k] = made[good[k]] /\ journal.marker[k] = "complete"
  BY <1>2, Generations DEF Saved
<1>6. CASE RecRestore(p)
  <2>1. /\ pc' = [pc EXCEPT ![p] = "recRestoreWrite"] /\ manifest' = [manifest EXCEPT ![k] = Torn]
        /\ marker' = marker /\ at' = at
    BY <1>5, <1>6, <1>k DEF RecRestore, Goto
  <2>2. pc'[p] = "recRestoreWrite"
    BY <1>pc, <2>1
  <2>3. InHand(p, k)'
    BY <1>2, <1>4, <2>1, <2>2 DEF InHand, PromoteOne
  <2>4. \A l \in Key : l # k => SameFiles(l)
    BY <1>files, <1>3, <2>1 DEF SameFiles
  <2>5. manifest' \in [Key -> Gen \cup {0, Torn}]
    BY <1>files, <1>2, <2>1
  <2>6. "recRestoreWrite" \in RecoverOne
    BY DEF RecoverOne
  <2>7. QED
    BY <1>files, <1>k, <1>1, <1>2, <1>3, <2>1, <2>2, <2>3, <2>4, <2>5, <2>6, RecoverFile
<1>7. CASE RecRestoreWrite(p)
  <2>1. /\ pc' = [pc EXCEPT ![p] = "recMark"] /\ manifest' = [manifest EXCEPT ![k] = journal.manifest[k]]
        /\ marker' = marker /\ at' = at
    BY <1>7, <1>k DEF RecRestoreWrite, Goto
  <2>2. pc'[p] = "recMark" /\ manifest'[k] = made'[good'[k]]
    BY <1>pc, <1>files, <1>2, <1>3, <1>5, <2>1
  <2>3. InHand(p, k)'
    BY <1>2, <1>4, <2>1, <2>2 DEF InHand, PromoteOne
  <2>4. \A l \in Key : l # k => SameFiles(l)
    BY <1>files, <1>3, <2>1 DEF SameFiles
  <2>5. manifest' \in [Key -> Gen \cup {0, Torn}]
    BY <1>files, <1>2, <1>5, <2>1
  <2>6. "recMark" \in RecoverOne
    BY DEF RecoverOne
  <2>7. QED
    BY <1>files, <1>k, <1>1, <1>2, <1>3, <2>1, <2>2, <2>3, <2>4, <2>5, <2>6, RecoverFile
<1>8. CASE RecMark(p)
  <2>1. /\ pc' = [pc EXCEPT ![p] = "recMarkWrite"] /\ marker' = [marker EXCEPT ![k] = "torn"]
        /\ manifest' = manifest /\ at' = at /\ pc[p] = "recMark"
    BY <1>5, <1>8, <1>k DEF RecMark, Goto
  <2>2. pc'[p] = "recMarkWrite" /\ marker'[k] = "torn" /\ manifest'[k] = made'[good'[k]]
    <3>1. manifest[k] = made[good[k]]
      BY <1>2, <2>1 DEF InHand
    <3>2. QED
      BY <1>pc, <1>files, <1>2, <1>3, <2>1, <3>1
  <2>3. InHand(p, k)'
    BY <1>4, <2>2 DEF InHand, PromoteOne
  <2>4. \A l \in Key : l # k => SameFiles(l)
    BY <1>files, <1>3, <2>1 DEF SameFiles
  <2>5. marker' \in [Key -> {"none", "torn", "complete"}]
    BY <1>files, <1>2, <2>1
  <2>6. "recMarkWrite" \in RecoverOne
    BY DEF RecoverOne
  <2>7. QED
    BY <1>files, <1>k, <1>1, <1>2, <1>3, <2>1, <2>2, <2>3, <2>4, <2>5, <2>6, RecoverFile,
       ZenonT(30)
<1>9. CASE RecMarkWrite(p)
  <2>1. /\ pc' = [pc EXCEPT ![p] = "rec"] /\ marker' = [marker EXCEPT ![k] = "complete"]
        /\ at' = [at EXCEPT ![p] = at[p] + 1] /\ manifest' = manifest /\ pc[p] = "recMarkWrite"
    BY <1>5, <1>9, <1>k DEF RecMarkWrite, NextEntry, Goto
  <2>2. marker'[k] = "complete" /\ manifest'[k] = made'[good'[k]]
    <3>1. manifest[k] = made[good[k]]
      BY <1>2, <2>1 DEF InHand
    <3>2. QED
      BY <1>files, <1>2, <1>3, <2>1, <3>1
  <2>3. Settled(k)' /\ InJournal(k)'
    <3>1. good'[k] # 0
      BY <1>4 DEF Saved
    <3>2. QED
      BY <1>4, <2>2, <3>1 DEF Settled, Complete, InJournal
  <2>4. \A l \in Key : l # k => SameFiles(l)
    BY <1>files, <1>3, <2>1 DEF SameFiles
  <2>5. marker' \in [Key -> {"none", "torn", "complete"}]
    BY <1>files, <1>2, <2>1
  <2>6. QED
    BY <1>files, <1>k, <1>1, <1>2, <1>3, <2>1, <2>3, <2>4, <2>5, RecoverFile
<1>10. QED
  BY <1>6, <1>7, <1>8, <1>9

\* A recovery clears an entry that was new and is still without data.
LEMMA RecEmptyStep ==
  ASSUME IInv, NEW p \in Proc, RecEmpty(p)
  PROVE  IInv'
<1>pc. pc \in [Proc -> Spots]
  BY ZenonT(30) DEF IInv, TypeOK, Spots
<1>at. at \in [Proc -> Nat]
  BY DEF IInv, TypeOK
<1>files. /\ data \in [Key -> Payload] /\ marker \in [Key -> {"none", "torn", "complete"}]
          /\ manifest \in [Key -> Gen \cup {0, Torn}] /\ backup \in [Key -> Payload]
  BY DEF IInv, TypeOK
<1>k. PICK k : k = Rec(p)
  OBVIOUS
<1>1. /\ pc[p] = "rec" /\ pc[p] \in Recovering /\ at[p] <= Len(journal.keys)
      /\ pc' = [pc EXCEPT ![p] = "rec"] /\ at' = [at EXCEPT ![p] = at[p] + 1]
      /\ marker' = [marker EXCEPT ![k] = "none"] /\ manifest' = [manifest EXCEPT ![k] = 0]
      /\ ~journal.had[k] /\ backup[k] = 0 /\ data[k] = 0
  BY <1>k DEF RecEmpty, RecAt, NextEntry, Goto, Recovering
<1>2. UNCHANGED <<plan, run, runLock, elock, plock, journal, made, good, faults, data, backup>>
  BY DEF RecEmpty, locks
<1>3. /\ journal.state = "prepared" /\ journal.keys \in Plan /\ at[p] \in DOMAIN journal.keys
  <2>1. journal.state = "prepared" /\ journal.keys \in Plan /\ at[p] \in Nat /\ at[p] >= 1
    BY <1>1, <1>at, ZenonT(30) DEF IInv, TypeOK, ProcInv, Journal, Placed
  <2>2. QED
    BY <1>1, <2>1, PlanKeys, SMTT(30)
<1>4. k \in Key /\ Journaled(k)
  BY <1>k, <1>3, PlanKeys, ZenonT(30) DEF Rec, Journaled
<1>5. good[k] = 0
  BY <1>1, <1>4 DEF IInv, EntryInv, InJournal, Fresh, Complete, Saved, New
<1>6. marker'[k] = "none" /\ manifest'[k] = 0 /\ good'[k] = 0 /\ data'[k] = 0 /\ backup'[k] = 0
  BY <1>files, <1>1, <1>2, <1>4, <1>5
<1>7. Settled(k)' /\ InJournal(k)'
  BY <1>1, <1>2, <1>6 DEF Settled, Empty, InJournal, New
<1>8. \A l \in Key : l # k => SameFiles(l)
  BY <1>files, <1>1, <1>2 DEF SameFiles
<1>9. marker' \in [Key -> {"none", "torn", "complete"}] /\ manifest' \in [Key -> Gen \cup {0, Torn}]
  BY <1>files, <1>1, <1>4
<1>10. QED
  BY <1>files, <1>k, <1>1, <1>2, <1>3, <1>4, <1>7, <1>8, <1>9, RecoverFile

\* A promotion moves the previous data to the backup.
LEMMA ExecBackupStep ==
  ASSUME IInv, NEW p \in Proc, ExecBackup(p)
  PROVE  IInv'
<1>pc. pc \in [Proc -> Spots]
  BY DEF IInv, TypeOK, Spots
<1>at. at \in [Proc -> Nat]
  BY DEF IInv, TypeOK
<1>files. /\ data \in [Key -> Payload] /\ marker \in [Key -> {"none", "torn", "complete"}]
          /\ manifest \in [Key -> Gen \cup {0, Torn}] /\ backup \in [Key -> Payload]
  BY DEF IInv, TypeOK
<1>k. PICK k : k = Rec(p)
  OBVIOUS
<1>1. pc[p] = "exec" /\ pc[p] \in Promoting /\ at[p] <= Len(plan[p])
  BY DEF ExecBackup, At, Promoting
<1>2. UNCHANGED <<plan, at, run, runLock, elock, plock, journal, made, good, faults, marker, manifest>>
  BY DEF ExecBackup, locks
<1>3. /\ journal.state = "prepared" /\ journal.keys = plan[p] /\ journal.keys \in Plan
      /\ at[p] \in Nat /\ at[p] >= 1
  BY <1>1, <1>at DEF IInv, TypeOK, ProcInv, Journal, Placed
<1>4. at[p] \in DOMAIN journal.keys
  BY <1>1, <1>3, PlanKeys, SMTT(30)
<1>5. k \in Key /\ Cur(p) = k
  BY <1>k, <1>3, <1>4, PlanKeys DEF Rec, Cur
<1>6. Waiting(k) /\ EntryInv(k)
  BY <1>k, <1>1, <1>3, <1>4, <1>5 DEF IInv, ProcInv, Work, Progress, Rec
<1>7. pc' = [pc EXCEPT ![p] = "execMarker"] /\ pc'[p] = "execMarker"
  BY <1>pc DEF ExecBackup, Goto
<1>8. /\ data' \in [Key -> Payload] /\ backup' \in [Key -> Payload]
      /\ \A l \in Key : l # k => SameFiles(l)
      /\ data'[k] = 0 /\ Aside(k)'
  <2>1. CASE journal.had[k]
    <3>1. backup' = [backup EXCEPT ![k] = data[k]] /\ data' = [data EXCEPT ![k] = 0]
      BY <2>1, <1>5 DEF ExecBackup
    <3>2. data' \in [Key -> Payload] /\ backup' \in [Key -> Payload]
      BY <1>files, <1>5, <3>1 DEF Payload
    <3>3. \A l \in Key : l # k => SameFiles(l)
      BY <1>files, <1>2, <3>1 DEF SameFiles
    <3>4. data'[k] = 0 /\ backup'[k] = data[k]
      BY <1>files, <1>5, <3>1
    <3>5. Saved(k)' /\ backup'[k] = good'[k]
      BY <1>2, <1>6, <2>1, <3>4 DEF Waiting, Saved, Complete
    <3>6. QED
      BY <3>2, <3>3, <3>4, <3>5 DEF Aside
  <2>2. CASE ~journal.had[k]
    <3>1. backup' = backup /\ data' = data
      BY <2>2, <1>5 DEF ExecBackup
    <3>2. \A l \in Key : l # k => SameFiles(l)
      BY <1>2, <3>1 DEF SameFiles
    <3>3. Empty(k) /\ backup[k] = 0
      BY <1>6, <2>2 DEF Waiting, Saved
    <3>4. data'[k] = 0 /\ New(k)'
      BY <1>2, <2>2, <3>1, <3>3 DEF Empty, New
    <3>5. QED
      BY <1>files, <3>1, <3>2, <3>4 DEF Aside
  <2>3. QED
    BY <2>1, <2>2
<1>9. InHand(p, k)'
  BY <1>7, <1>8 DEF InHand
<1>10. good' \in [Key -> Runs \cup {0}] /\ (good'[k] # 0 => good'[k] \in DOMAIN made)
  BY <1>2, <1>5, <1>6 DEF IInv, TypeOK, EntryInv
<1>11. "execMarker" \in PromoteOne
  BY DEF PromoteOne
<1>12. QED
  BY <1>files, <1>k, <1>1, <1>2, <1>4, <1>5, <1>7, <1>8, <1>9, <1>10, <1>11, PromoteFile

\* A promotion clears the entry and moves the new data, manifest and marker in.
LEMMA ExecSteps ==
  ASSUME IInv, NEW p \in Proc,
         ExecMarker(p) \/ ExecManifest(p) \/ ExecData(p) \/ ExecMoveManifest(p) \/ ExecMark(p)
  PROVE  IInv'
<1>pc. pc \in [Proc -> Spots]
  BY DEF IInv, TypeOK, Spots
<1>at. at \in [Proc -> Nat]
  BY DEF IInv, TypeOK
<1>files. /\ data \in [Key -> Payload] /\ marker \in [Key -> {"none", "torn", "complete"}]
          /\ manifest \in [Key -> Gen \cup {0, Torn}] /\ backup \in [Key -> Payload]
  BY DEF IInv, TypeOK
<1>k. PICK k : k = Rec(p)
  OBVIOUS
<1>1. pc[p] \in PromoteOne /\ pc[p] \in Promoting
  BY DEF ExecMarker, ExecManifest, ExecData, ExecMoveManifest, ExecMark, PromoteOne, Promoting
<1>2. /\ k \in Key /\ at[p] \in DOMAIN journal.keys /\ InHand(p, k) /\ Cur(p) = k
      /\ EntryInv(k) /\ Aside(k)
  BY <1>1, <1>k, HandFacts DEF InHand
<1>3. UNCHANGED <<plan, at, run, runLock, elock, plock, journal, made, good, faults, backup>>
  BY DEF ExecMarker, ExecManifest, ExecData, ExecMoveManifest, ExecMark, locks
<1>4. run[p] \in Payload /\ made[run[p]] \in Gen
  <2>1. run[p] \in DOMAIN made
    BY <1>1, HoldingNames, ZenonT(30) DEF IInv, ProcInv, Placed
  <2>2. run[p] \in Payload
    BY DEF IInv, TypeOK, Payload
  <2>3. QED
    BY <2>1, <2>2, Generations
<1>5. good' \in [Key -> Runs \cup {0}] /\ (good'[k] # 0 => good'[k] \in DOMAIN made)
  BY <1>2, <1>3 DEF IInv, TypeOK, EntryInv
<1>6. CASE ExecMarker(p)
  <2>1. /\ pc' = [pc EXCEPT ![p] = "execManifest"] /\ marker' = [marker EXCEPT ![k] = "none"]
        /\ data' = data /\ manifest' = manifest /\ pc[p] = "execMarker"
    BY <1>6, <1>2 DEF ExecMarker, Goto
  <2>2. pc'[p] = "execManifest" /\ marker'[k] = "none"
    BY <1>pc, <1>files, <1>2, <2>1
  <2>3. InHand(p, k)'
    <3>1. data[k] = 0
      BY <1>2, <2>1 DEF InHand
    <3>2. Aside(k)'
      BY <1>2, <1>3, <2>1, <2>2, <3>1 DEF Aside, Saved, New
    <3>3. QED
      BY <1>3, <2>1, <2>2, <3>1, <3>2 DEF InHand
  <2>4. \A l \in Key : l # k => SameFiles(l)
    BY <1>files, <1>3, <2>1 DEF SameFiles
  <2>5. marker' \in [Key -> {"none", "torn", "complete"}]
    BY <1>files, <1>2, <1>4, <2>1
  <2>6. "execManifest" \in PromoteOne
    BY DEF PromoteOne
  <2>7. QED
    BY <1>files, <1>k, <1>1, <1>2, <1>3, <1>5, <2>1, <2>3, <2>4, <2>5, <2>6, PromoteFile
<1>7. CASE ExecManifest(p)
  <2>1. /\ pc' = [pc EXCEPT ![p] = "execData"] /\ manifest' = [manifest EXCEPT ![k] = 0]
        /\ data' = data /\ marker' = marker /\ pc[p] = "execManifest"
    BY <1>7, <1>2 DEF ExecManifest, Goto
  <2>2. pc'[p] = "execData" /\ manifest'[k] = 0
    BY <1>pc, <1>files, <1>2, <2>1
  <2>3. InHand(p, k)'
    <3>1. data[k] = 0 /\ marker[k] = "none"
      BY <1>2, <2>1 DEF InHand
    <3>2. Aside(k)'
      BY <1>2, <1>3, <2>1, <2>2, <3>1 DEF Aside, Saved, New
    <3>3. QED
      BY <1>3, <2>1, <2>2, <3>1, <3>2 DEF InHand
  <2>4. \A l \in Key : l # k => SameFiles(l)
    BY <1>files, <1>3, <2>1 DEF SameFiles
  <2>5. manifest' \in [Key -> Gen \cup {0, Torn}]
    BY <1>files, <1>2, <1>4, <2>1
  <2>6. "execData" \in PromoteOne
    BY DEF PromoteOne
  <2>7. QED
    BY <1>files, <1>k, <1>1, <1>2, <1>3, <1>5, <2>1, <2>3, <2>4, <2>5, <2>6, PromoteFile
<1>8. CASE ExecData(p)
  <2>1. /\ pc' = [pc EXCEPT ![p] = "execMoveManifest"] /\ data' = [data EXCEPT ![k] = run[p]]
        /\ marker' = marker /\ manifest' = manifest /\ pc[p] = "execData"
    BY <1>8, <1>2 DEF ExecData, Goto
  <2>2. pc'[p] = "execMoveManifest" /\ data'[k] = run[p]
    BY <1>pc, <1>files, <1>2, <2>1
  <2>3. InHand(p, k)'
    <3>1. marker[k] = "none"
      BY <1>2, <2>1 DEF InHand
    <3>2. Aside(k)'
      BY <1>2, <1>3, <2>1, <2>2, <3>1 DEF Aside, Saved, New
    <3>3. QED
      BY <1>3, <2>1, <2>2, <3>1, <3>2 DEF InHand
  <2>4. \A l \in Key : l # k => SameFiles(l)
    BY <1>files, <1>3, <2>1 DEF SameFiles
  <2>5. data' \in [Key -> Payload]
    BY <1>files, <1>2, <1>4, <2>1
  <2>6. "execMoveManifest" \in PromoteOne
    BY DEF PromoteOne
  <2>7. QED
    BY <1>files, <1>k, <1>1, <1>2, <1>3, <1>5, <2>1, <2>3, <2>4, <2>5, <2>6, PromoteFile
<1>9. CASE ExecMoveManifest(p)
  <2>1. /\ pc' = [pc EXCEPT ![p] = "execMark"] /\ manifest' = [manifest EXCEPT ![k] = made[run[p]]]
        /\ data' = data /\ marker' = marker /\ pc[p] = "execMoveManifest"
    BY <1>9, <1>2 DEF ExecMoveManifest, Goto
  <2>2. pc'[p] = "execMark" /\ manifest'[k] = made[run[p]]
    BY <1>pc, <1>files, <1>2, <2>1
  <2>3. InHand(p, k)'
    <3>1. marker[k] = "none" /\ data[k] = run[p]
      BY <1>2, <2>1 DEF InHand
    <3>2. Aside(k)'
      BY <1>2, <1>3, <2>1, <2>2, <3>1 DEF Aside, Saved, New
    <3>3. QED
      BY <1>3, <2>1, <2>2, <3>1, <3>2 DEF InHand
  <2>4. \A l \in Key : l # k => SameFiles(l)
    BY <1>files, <1>3, <2>1 DEF SameFiles
  <2>5. manifest' \in [Key -> Gen \cup {0, Torn}]
    BY <1>files, <1>2, <1>4, <2>1
  <2>6. "execMark" \in PromoteOne
    BY DEF PromoteOne
  <2>7. QED
    BY <1>files, <1>k, <1>1, <1>2, <1>3, <1>5, <2>1, <2>3, <2>4, <2>5, <2>6, PromoteFile
<1>10. CASE ExecMark(p)
  <2>1. /\ pc' = [pc EXCEPT ![p] = "execMarkWrite"] /\ marker' = [marker EXCEPT ![k] = "torn"]
        /\ data' = data /\ manifest' = manifest /\ pc[p] = "execMark"
    BY <1>10, <1>2 DEF ExecMark, Goto
  <2>2. pc'[p] = "execMarkWrite" /\ marker'[k] = "torn"
    BY <1>pc, <1>files, <1>2, <2>1
  <2>3. InHand(p, k)'
    <3>1. data[k] = run[p] /\ manifest[k] = made[run[p]]
      BY <1>2, <2>1 DEF InHand
    <3>2. Aside(k)'
      BY <1>2, <1>3, <2>1, <2>2, <3>1 DEF Aside, Saved, New
    <3>3. QED
      BY <1>3, <2>1, <2>2, <3>1, <3>2 DEF InHand
  <2>4. \A l \in Key : l # k => SameFiles(l)
    BY <1>files, <1>3, <2>1 DEF SameFiles
  <2>5. marker' \in [Key -> {"none", "torn", "complete"}]
    BY <1>files, <1>2, <1>4, <2>1
  <2>6. "execMarkWrite" \in PromoteOne
    BY DEF PromoteOne
  <2>7. QED
    BY <1>files, <1>k, <1>1, <1>2, <1>3, <1>5, <2>1, <2>3, <2>4, <2>5, <2>6, PromoteFile
<1>11. QED
  BY <1>6, <1>7, <1>8, <1>9, <1>10

\* The new data becomes the last good payload with its marker.
LEMMA ExecMarkWriteStep ==
  ASSUME IInv, NEW p \in Proc, ExecMarkWrite(p)
  PROVE  IInv'
<1>pc. pc \in [Proc -> Spots]
  BY DEF IInv, TypeOK, Spots
<1>at. at \in [Proc -> Nat]
  BY DEF IInv, TypeOK
<1>files. /\ data \in [Key -> Payload] /\ marker \in [Key -> {"none", "torn", "complete"}]
          /\ manifest \in [Key -> Gen \cup {0, Torn}] /\ backup \in [Key -> Payload]
  BY DEF IInv, TypeOK
<1>good. good \in [Key -> Runs \cup {0}] /\ run \in [Proc -> Runs \cup {0}]
  BY DEF IInv, TypeOK
<1>k. PICK k : k = Rec(p)
  OBVIOUS
<1>1. pc[p] = "execMarkWrite" /\ pc[p] \in PromoteOne /\ pc[p] \in Promoting
  BY DEF ExecMarkWrite, PromoteOne, Promoting
<1>2. /\ k \in Key /\ at[p] \in DOMAIN journal.keys /\ Cur(p) = k
      /\ data[k] = run[p] /\ manifest[k] = made[run[p]]
  BY <1>1, <1>k, HandFacts DEF InHand
<1>3. /\ pc' = [pc EXCEPT ![p] = "exec"] /\ at' = [at EXCEPT ![p] = at[p] + 1]
      /\ marker' = [marker EXCEPT ![k] = "complete"] /\ good' = [good EXCEPT ![k] = run[p]]
  BY <1>2 DEF ExecMarkWrite, NextEntry, Goto
<1>4. UNCHANGED <<plan, run, runLock, elock, plock, journal, made, faults, data, manifest, backup>>
  BY DEF ExecMarkWrite, locks
<1>5. run[p] \in DOMAIN made /\ run[p] # 0 /\ journal.gen = made[run[p]]
  <2>1. run[p] \in DOMAIN made /\ journal.gen = made[run[p]]
    BY <1>1, HoldingNames DEF IInv, ProcInv, Placed, Journal
  <2>2. 0 \notin DOMAIN made
    BY SMTT(30) DEF IInv, TypeOK
  <2>3. QED
    BY <2>1, <2>2
<1>6. marker'[k] = "complete" /\ good'[k] = run[p]
  BY <1>files, <1>good, <1>2, <1>3
<1>7. Fresh(k)' /\ data'[k] = run[p]
  BY <1>2, <1>4, <1>5, <1>6 DEF Fresh, Complete
<1>8. \A l \in Key : l # k => SameFiles(l)
  BY <1>files, <1>good, <1>3, <1>4 DEF SameFiles
<1>9. marker' \in [Key -> {"none", "torn", "complete"}] /\ good' \in [Key -> Runs \cup {0}]
  BY <1>files, <1>good, <1>2, <1>3
<1>10. QED
  BY <1>files, <1>k, <1>1, <1>2, <1>3, <1>4, <1>5, <1>6, <1>7, <1>8, <1>9, PromoteFile

\* The backups of a complete promotion are removed.
LEMMA FinalizeStep ==
  ASSUME IInv, NEW p \in Proc, Finalize(p)
  PROVE  IInv'
<1>pc. pc \in [Proc -> Spots]
  BY DEF IInv, TypeOK, Spots
<1>at. at \in [Proc -> Nat]
  BY DEF IInv, TypeOK
<1>files. /\ data \in [Key -> Payload] /\ marker \in [Key -> {"none", "torn", "complete"}]
          /\ manifest \in [Key -> Gen \cup {0, Torn}] /\ backup \in [Key -> Payload]
  BY DEF IInv, TypeOK
<1>inv. Placed(p) /\ Locks(p) /\ Journal(p) /\ Work(p)
  BY DEF IInv, ProcInv
<1>k. PICK k : k = Rec(p)
  OBVIOUS
<1>1. pc[p] = "finalize" /\ at[p] <= Len(plan[p])
  BY DEF Finalize, At
<1>2. UNCHANGED <<plan, run, runLock, elock, plock, journal, made, good, faults, data, marker, manifest>>
  BY DEF Finalize, locks
<1>3. /\ journal.state = "prepared" /\ journal.keys = plan[p] /\ journal.keys \in Plan
      /\ at[p] \in Nat /\ at[p] >= 1
  BY <1>1, <1>at, <1>inv DEF IInv, TypeOK, Journal, Placed
<1>4. /\ at[p] \in DOMAIN journal.keys
      /\ DOMAIN journal.keys = 1..Len(journal.keys) /\ Len(journal.keys) \in Nat
  BY <1>1, <1>3, PlanKeys, SMTT(30)
<1>5. k \in Key /\ Cur(p) = k /\ Journaled(k)
  BY <1>k, <1>3, <1>4, PlanKeys DEF Rec, Cur, Journaled
<1>6. /\ pc' = [pc EXCEPT ![p] = "finalize"] /\ pc'[p] = "finalize"
      /\ \/ at' = at /\ backup' = [backup EXCEPT ![k] = Shrink(backup[k])]
         \/ at' = [at EXCEPT ![p] = at[p] + 1] /\ backup' = backup /\ backup[k] = 0
  BY <1>pc, <1>1, <1>5, SMTT(30) DEF Finalize, NextEntry, Goto
<1>7. backup' \in [Key -> Payload] /\ \A l \in Key : l # k => SameFiles(l)
  BY <1>files, <1>2, <1>5, <1>6, ShrinkType, SMTT(30) DEF SameFiles
<1>8. at' \in [Proc -> Nat] /\ at'[p] >= 1
  BY <1>at, <1>3, <1>6, SMTT(30)
<1>9. TypeOK'
  <2>1. pc' \in [Proc -> Spots]
    BY <1>pc, <1>6, SpotNames
  <2>2. QED
    BY <1>2, <1>7, <1>8, <2>1, Zenon DEF IInv, TypeOK, Spots
<1>10. \A i \in DOMAIN journal.keys :
         /\ journal.keys[i] \in Key
         /\ Fresh(journal.keys[i]) /\ data[journal.keys[i]] = run[p]
         /\ i < at[p] => backup[journal.keys[i]] = 0
         /\ journal.keys[i] = k => i = at[p]
  BY <1>inv, <1>k, <1>1, <1>3, <1>4, PlanKeys DEF Work, Progress, Rec
<1>11. EntryInv(k)'
  <2>1. Fresh(k)
    BY <1>k, <1>4, <1>10 DEF Rec
  <2>2. Fresh(k)' /\ Journaled(k)'
    BY <2>1, <1>2, <1>5 DEF Fresh, Complete, Journaled
  <2>3. QED
    BY <2>2, <1>2, <1>5 DEF IInv, EntryInv, InJournal
<1>12. ProcInv(p)'
  <2>1. pc'[p] \notin Promoting /\ pc'[p] \notin Recovering
    BY <1>6, HoldingNames
  <2>2. pc'[p] \notin RecoverOne \cup PromoteOne
    BY <2>1, HoldingNames
  <2>3. Placed(p)' /\ Locks(p)' /\ Journal(p)'
    BY <1>inv, <1>1, <1>2, <1>6, <1>8, <2>2, StayInside
  <2>4. ASSUME NEW i \in DOMAIN journal.keys PROVE Progress(p, i)'
    <3>1. Fresh(journal.keys[i])' /\ data'[journal.keys[i]] = run'[p]
      BY <1>2, <1>10 DEF Fresh, Complete
    <3>2. ASSUME i < at'[p] PROVE backup'[journal.keys[i]] = 0
      <4>1. i < at[p] \/ (i = at[p] /\ at'[p] # at[p])
        BY <1>at, <1>4, <1>6, <3>2, SMTT(30)
      <4>2. CASE i < at[p]
        <5>1. i # at[p]
          BY <4>2, <1>4, SMTT(30)
        <5>2. QED
          BY <4>2, <5>1, <1>7, <1>10 DEF SameFiles
      <4>3. CASE i = at[p] /\ at'[p] # at[p]
        BY <4>3, <1>k, <1>6 DEF Rec
      <4>4. QED
        BY <4>1, <4>2, <4>3
    <3>3. QED
      BY <3>1, <3>2, <2>1, <1>2, <1>6 DEF Progress
  <2>5. Work(p)'
    BY <1>2, <1>6, <2>2, <2>4 DEF Work
  <2>6. QED
    BY <2>3, <2>5 DEF ProcInv
<1>13. pc[p] \in Holding
  BY <1>1, HoldingNames
<1>14. \A q \in Proc : q # p => pc'[q] = pc[q] /\ at'[q] = at[q]
  BY <1>pc, <1>at, <1>6
<1>15. QED
  BY <1>2, <1>7, <1>9, <1>11, <1>12, <1>13, <1>14, FileStep

-----------------------------------------------------------------------------
(* Steps that write and remove the journal.                                *)

\* A step of the holder of the promotion lock that changes the journal and no file.
LEMMA JournalStep ==
  ASSUME IInv, NEW p \in Proc, pc[p] \in Holding, TypeOK',
         UNCHANGED <<plan, run, elock, plock, made>>,
         \A q \in Proc : q # p => pc'[q] = pc[q] /\ at'[q] = at[q],
         \A k \in Key : EntryInv(k)', ProcInv(p)'
  PROVE  IInv'
<1>1. MadeKept
  BY DEF MadeKept
<1>2. ASSUME NEW q \in Proc, q # p PROVE ProcInv(q)'
  <2>1. SameProc(q)
    BY <1>2 DEF SameProc
  <2>2. pc[q] \notin Holding
    BY <1>2 DEF IInv, ProcInv, Locks
  <2>3. QED
    BY <1>1, <2>1, <2>2, BystanderKept DEF IInv
<1>3. QED
  BY <1>2 DEF IInv

\* A step of the lock holder that leaves no written journal.
LEMMA NoJournalStep ==
  ASSUME IInv, NEW p \in Proc, pc[p] \in Holding,
         NEW step \in {"journal", "journalWrite", "promoted"}, pc' = [pc EXCEPT ![p] = step],
         UNCHANGED <<plan, at, run, runLock, elock, plock, data, marker, manifest,
                     backup, good, made, faults>>,
         journal'.state \in {"none", "torn"}, step # "journalWrite" => journal'.state = "none",
         step = "journalWrite" => journal'.state = "torn",
         \A k \in Key : Settled(k),
         step = "promoted" => \A k \in KeysOf(plan[p]) : Complete(k) /\ data[k] = run[p]
  PROVE  IInv'
<1>pc. pc \in [Proc -> Spots]
  BY DEF IInv, TypeOK, Spots
<1>at. at \in [Proc -> Nat]
  BY DEF IInv, TypeOK
<1>inv. Placed(p) /\ Locks(p) /\ Journal(p) /\ Work(p)
  BY DEF IInv, ProcInv
<1>1. pc'[p] = step /\ step \in Holding /\ step \notin Recovering /\ step \notin Promoting
  BY <1>pc, HoldingNames
<1>2. step \notin RecoverOne \cup PromoteOne /\ step \notin {"recJournal", "finalize"}
  BY <1>1, HoldingNames
<1>3. TypeOK'
  <2>1. pc' \in [Proc -> Spots]
    BY <1>pc, SpotNames
  <2>2. journal'.state \in {"none", "torn", "prepared"} /\ journal'.state # "prepared"
    OBVIOUS
  <2>3. QED
    BY <2>1, <2>2, Zenon DEF IInv, TypeOK, Spots
<1>4. ASSUME NEW k \in Key PROVE EntryInv(k)'
  <2>1. Settled(k)'
    BY DEF Settled, Complete, Empty
  <2>2. ~Journaled(k)'
    BY DEF Journaled
  <2>3. QED
    BY <2>1, <2>2 DEF EntryInv, IInv
<1>5. Placed(p)'
  BY <1>inv, <1>1, <1>2, HoldingNames DEF Placed
<1>6. Locks(p)'
  BY <1>inv, <1>1, HoldingNames DEF Locks
<1>7. Journal(p)'
  BY <1>1, <1>2 DEF Journal
<1>8. Work(p)'
  BY <1>1, <1>2 DEF Work, Complete
<1>9. ProcInv(p)'
  BY <1>5, <1>6, <1>7, <1>8 DEF ProcInv
<1>10. QED
  BY <1>pc, <1>3, <1>4, <1>9, JournalStep

\* The journal of a recovery that has settled every entry is removed.
LEMMA RecRemoveJournalStep ==
  ASSUME IInv, NEW p \in Proc, RecRemoveJournal(p)
  PROVE  IInv'
<1>pc. pc \in [Proc -> Spots]
  BY DEF IInv, TypeOK, Spots
<1>at. at \in [Proc -> Nat]
  BY DEF IInv, TypeOK
<1>inv. Placed(p) /\ Locks(p) /\ Journal(p) /\ Work(p)
  BY DEF IInv, ProcInv
<1>1. pc[p] = "recJournal" /\ pc' = [pc EXCEPT ![p] = "journal"] /\ journal'.state = "none"
  BY DEF RecRemoveJournal, Goto, NoJournal
<1>2. UNCHANGED <<plan, at, run, runLock, elock, plock, data, marker, manifest,
                  backup, good, made, faults>>
  BY DEF RecRemoveJournal, entries, locks
<1>3. journal.state = "prepared"
  BY <1>1, <1>inv DEF Journal
<1>4. ASSUME NEW k \in Key PROVE Settled(k)
  <2>1. CASE k \in KeysOf(journal.keys)
    <3>1. PICK i \in DOMAIN journal.keys : journal.keys[i] = k
      BY <2>1, KeyOfSome
    <3>2. QED
      BY <3>1, <1>1, <1>3, <1>inv DEF Work, Progress
  <2>2. CASE k \notin KeysOf(journal.keys)
    BY <2>2 DEF IInv, EntryInv, Journaled
  <2>3. QED
    BY <2>1, <2>2
<1>5. QED
  BY <1>1, <1>2, <1>4, HoldingNames, NoJournalStep

\* A promotion creates its journal.
LEMMA CreateJournalStep ==
  ASSUME IInv, NEW p \in Proc, CreateJournal(p)
  PROVE  IInv'
<1>pc. pc \in [Proc -> Spots]
  BY DEF IInv, TypeOK, Spots
<1>at. at \in [Proc -> Nat]
  BY DEF IInv, TypeOK
<1>inv. Placed(p) /\ Locks(p) /\ Journal(p) /\ Work(p)
  BY DEF IInv, ProcInv
<1>1. pc[p] = "journal" /\ pc' = [pc EXCEPT ![p] = "journalWrite"] /\ journal'.state = "torn"
  BY DEF CreateJournal, Goto
<1>2. UNCHANGED <<plan, at, run, runLock, elock, plock, data, marker, manifest,
                  backup, good, made, faults>>
  BY DEF CreateJournal, entries, locks
<1>3. journal.state = "none"
  BY <1>1, <1>inv DEF Journal
<1>4. \A k \in Key : Settled(k)
  BY <1>3 DEF IInv, EntryInv, Journaled
<1>5. QED
  BY <1>1, <1>2, <1>4, HoldingNames, NoJournalStep

\* The journal of a complete promotion is removed.
LEMMA RemoveJournalStep ==
  ASSUME IInv, NEW p \in Proc, RemoveJournal(p)
  PROVE  IInv'
<1>pc. pc \in [Proc -> Spots]
  BY DEF IInv, TypeOK, Spots
<1>at. at \in [Proc -> Nat]
  BY DEF IInv, TypeOK
<1>inv. Placed(p) /\ Locks(p) /\ Journal(p) /\ Work(p)
  BY DEF IInv, ProcInv
<1>1. /\ pc[p] = "finalize" /\ at[p] > Len(plan[p])
      /\ pc' = [pc EXCEPT ![p] = "promoted"] /\ journal'.state = "none"
  BY DEF RemoveJournal, Goto, NoJournal
<1>2. UNCHANGED <<plan, at, run, runLock, elock, plock, data, marker, manifest,
                  backup, good, made, faults>>
  BY DEF RemoveJournal, entries, locks
<1>3. journal.state = "prepared" /\ journal.keys = plan[p] /\ journal.keys \in Plan /\ at[p] \in Nat
  BY <1>1, <1>at, <1>inv DEF Journal, IInv, TypeOK
<1>4. ASSUME NEW k \in KeysOf(plan[p])
      PROVE  Complete(k) /\ data[k] = run[p] /\ backup[k] = 0
  <2>1. PICK i \in DOMAIN journal.keys : journal.keys[i] = k
    BY <1>3, <1>4, KeyOfSome
  <2>2. i < at[p]
    BY <1>1, <1>3, PlanKeys, SMTT(30)
  <2>3. QED
    BY <2>1, <2>2, <1>1, <1>3, <1>inv DEF Work, Progress, Fresh
<1>5. ASSUME NEW k \in Key PROVE Settled(k)
  <2>1. CASE k \in KeysOf(plan[p])
    BY <2>1, <1>4 DEF Settled
  <2>2. CASE k \notin KeysOf(plan[p])
    BY <2>2, <1>3 DEF IInv, EntryInv, Journaled
  <2>3. QED
    BY <2>1, <2>2
<1>6. QED
  BY <1>1, <1>2, <1>4, <1>5, HoldingNames, NoJournalStep

\* The journal is written: it knows every entry of the plan as it is.
LEMMA WriteJournalStep ==
  ASSUME IInv, NEW p \in Proc, WriteJournal(p)
  PROVE  IInv'
<1>pc. pc \in [Proc -> Spots]
  BY DEF IInv, TypeOK, Spots
<1>at. at \in [Proc -> Nat]
  BY DEF IInv, TypeOK
<1>inv. Placed(p) /\ Locks(p) /\ Journal(p) /\ Work(p)
  BY DEF IInv, ProcInv
<1>1. /\ pc[p] = "journalWrite" /\ pc' = [pc EXCEPT ![p] = "exec"] /\ pc'[p] = "exec"
      /\ at' = [at EXCEPT ![p] = 1] /\ at'[p] = 1
  BY <1>pc, <1>at DEF WriteJournal, FirstEntry, Goto
<1>2. UNCHANGED <<plan, run, runLock, elock, plock, data, marker, manifest,
                  backup, good, made, faults>>
  BY DEF WriteJournal, entries, locks
<1>3. /\ journal'.state = "prepared" /\ journal'.keys = plan[p] /\ journal'.gen = made[run[p]]
      /\ \A k \in KeysOf(plan[p]) :
           /\ journal'.had[k] <=> data[k] # 0
           /\ journal'.marker[k] = marker[k] /\ journal'.manifest[k] = manifest[k]
  BY DEF WriteJournal
<1>4. journal.state = "torn" /\ plan[p] \in Plan /\ run[p] \in DOMAIN made
  BY <1>1, <1>inv DEF Journal, Placed
<1>5. \A k \in Key : Settled(k)
  BY <1>4 DEF IInv, EntryInv, Journaled
<1>6. TypeOK'
  <2>1. pc' \in [Proc -> Spots]
    BY <1>pc, <1>1, SpotNames
  <2>2. at' \in [Proc -> Nat]
    BY <1>at, <1>1, SMTT(30)
  <2>3. journal'.keys \in Plan /\ journal'.gen \in Gen
    BY <1>3, <1>4, Generations
  <2>4. QED
    BY <1>2, <1>3, <2>1, <2>2, <2>3, Zenon DEF IInv, TypeOK, Spots
<1>7. ASSUME NEW k \in KeysOf(plan[p]) PROVE Waiting(k)'
  <2>1. Settled(k) /\ k \in Key
    BY <1>4, <1>5, PlanKeys
  <2>2. CASE Complete(k)
    <3>1. Complete(k)' /\ Saved(k)'
      BY <1>2, <1>3, <2>2 DEF Complete, Saved
    <3>2. QED
      BY <1>2, <2>1, <3>1, ZenonT(30) DEF Settled, Waiting
  <2>3. CASE Empty(k)
    <3>1. Empty(k)' /\ ~journal'.had[k]
      BY <1>2, <1>3, <2>3 DEF Empty
    <3>2. QED
      BY <1>2, <2>1, <3>1 DEF Settled, Waiting
  <2>4. QED
    BY <2>1, <2>2, <2>3 DEF Settled
<1>8. ASSUME NEW k \in Key PROVE EntryInv(k)'
  <2>1. Settled(k)'
    BY <1>2, <1>5 DEF Settled, Complete, Empty
  <2>2. Journaled(k)' => Waiting(k)'
    BY <1>3, <1>7 DEF Journaled
  <2>3. Waiting(k)' => InJournal(k)'
    BY DEF Waiting, InJournal, Complete, Empty, New
  <2>4. QED
    BY <1>2, <2>1, <2>2, <2>3 DEF IInv, EntryInv
<1>9. ProcInv(p)'
  <2>1. pc'[p] \in Promoting /\ pc'[p] \in Holding /\ pc'[p] \notin Recovering
    BY <1>1, HoldingNames DEF Promoting
  <2>2. pc'[p] \notin RecoverOne \cup PromoteOne
    BY <1>1 DEF RecoverOne, PromoteOne
  <2>3. pc[p] \in Holding /\ at'[p] >= 1
    BY <1>1, HoldingNames, SMTT(30)
  <2>4. Placed(p)'
    BY <1>1, <1>2, <1>4, <2>2, <2>3 DEF Placed
  <2>5. Locks(p)'
    BY <1>inv, <1>1, <1>2, <2>1, <2>3, HoldingNames, ZenonT(30) DEF Locks
  <2>6. Journal(p)'
    BY <1>1, <1>2, <1>3, <2>1, ZenonT(30) DEF Journal
  <2>7. ASSUME NEW i \in DOMAIN plan[p] PROVE Progress(p, i)'
    <3>1. ~(i < at'[p])
      BY <1>1, <1>4, PlanKeys, SMTT(30)
    <3>2. journal'.keys[i] = plan[p][i] /\ plan[p][i] \in KeysOf(plan[p])
      BY <1>3, <1>4, PlanKeys, ZenonT(30)
    <3>3. PICK k \in KeysOf(plan[p]) : k = plan[p][i]
      BY <3>2, ZenonT(30)
    <3>4. Waiting(k)'
      BY <1>7
    <3>5. QED
      BY <1>1, <2>1, <3>1, <3>2, <3>3, <3>4, ZenonT(30) DEF Progress
  <2>8. Work(p)'
    BY <1>1, <1>3, <2>2, <2>7 DEF Work
  <2>9. QED
    BY <2>4, <2>5, <2>6, <2>8 DEF ProcInv
<1>10. pc[p] \in Holding /\ \A q \in Proc : q # p => pc'[q] = pc[q] /\ at'[q] = at[q]
  BY <1>pc, <1>at, <1>1, HoldingNames, ZenonT(30)
<1>11. QED
  BY <1>2, <1>6, <1>8, <1>9, <1>10, JournalStep

-----------------------------------------------------------------------------
(* The invariant holds.                                                    *)

\* At the start there is no entry, no journal and no process at work.
LEMMA InvInit == Init => IInv
<1> SUFFICES ASSUME Init PROVE IInv
  OBVIOUS
<1>1. TypeOK
  <2>1. 0 \in Payload /\ "idle" \in Spots
    BY SpotNames DEF Payload
  <2>2. made \in Seq(Gen) /\ Len(made) <= MaxRuns /\ faults \in 0..MaxFaults
    BY BoundAssumption, SMTT(30) DEF Init
  <2>3. journal.state = "none"
    BY ZenonT(30) DEF Init, NoJournal
  <2>4. at \in [Proc -> Nat]
    BY SMTT(30) DEF Init
  <2>5. /\ pc \in [Proc -> Spots] /\ plan \in [Proc -> Plan \cup {<<>>}] /\ run \in [Proc -> Runs \cup {0}]
        /\ runLock \in SUBSET Plan /\ elock \in [Key -> Proc \cup {NoProc}] /\ plock \in Proc \cup {NoProc}
    BY <2>1 DEF Init
  <2>6. /\ data \in [Key -> Payload] /\ marker \in [Key -> {"none", "torn", "complete"}]
        /\ manifest \in [Key -> Gen \cup {0, Torn}] /\ backup \in [Key -> Payload]
        /\ good \in [Key -> Runs \cup {0}]
    BY <2>1 DEF Init
  <2>7. QED
    BY <2>2, <2>3, <2>4, <2>5, <2>6 DEF TypeOK, Spots
<1>2. ASSUME NEW k \in Key PROVE EntryInv(k)
  BY DEF Init, NoJournal, EntryInv, Journaled, Settled, Empty
<1>3. ASSUME NEW p \in Proc PROVE ProcInv(p)
  <2>1. pc[p] = "idle" /\ plock # p /\ journal.state = "none"
    BY NoProcAssumption, ZenonT(30) DEF Init, NoJournal
  <2>2. pc[p] \notin Locked
    BY <2>1 DEF Locked, Holding, RecoverySteps, PromotionSteps
  <2>3. /\ pc[p] \notin Recovering /\ pc[p] \notin Promoting
        /\ pc[p] \notin RecoverOne /\ pc[p] \notin PromoteOne /\ pc[p] \notin Holding
    BY <2>2, HoldingNames
  <2>4. QED
    BY <2>1, <2>2, <2>3 DEF ProcInv, Placed, Locks, Journal, Work
<1>4. QED
  BY <1>1, <1>2, <1>3 DEF IInv

\* Every step keeps it.
LEMMA InvNext == IInv /\ [Next]_vars => IInv'
<1> SUFFICES ASSUME IInv, [Next]_vars PROVE IInv'
  OBVIOUS
<1>1. ASSUME NEW p \in Proc, RunStep(p) PROVE IInv'
  <2>1. CASE \E P \in Plan, g \in Gen : Begin(p, P, g)
    BY <2>1, BeginStep, ZenonT(30)
  <2>2. CASE PrepareEntry(p) \/ Prepared(p) \/ ChecksPass(p)
    BY <2>2, TakeEntrySteps, ReadySteps
  <2>3. CASE ChecksFail(p) \/ Rejected(p) \/ Return(p)
    BY <2>3, EndSteps, ZenonT(30)
  <2>4. QED
    BY <1>1, <2>1, <2>2, <2>3 DEF RunStep
<1>2. ASSUME NEW p \in Proc, RecoveryStep(p) PROVE IInv'
  <2>1. CASE LockPromotion(p) \/ NothingToRecover(p) \/ RecoverLocks(p)
    BY <2>1, LockSteps, RecoverLocksStep
  <2>2. CASE RecComplete(p) \/ RecRollback(p) \/ RecUntouched(p)
    BY <2>2, DecideSteps
  <2>3. CASE RecKeep(p) \/ RecEmpty(p)
    BY <2>3, RecKeepStep, RecEmptyStep
  <2>4. CASE RecData(p) \/ RecManifest(p) \/ RecRename(p)
    BY <2>4, RollbackSteps
  <2>5. CASE RecRestore(p) \/ RecRestoreWrite(p) \/ RecMark(p) \/ RecMarkWrite(p)
    BY <2>5, RestoreSteps
  <2>6. CASE RecDone(p) \/ RecRemoveJournal(p)
    BY <2>6, RecDoneStep, RecRemoveJournalStep
  <2>7. QED
    BY <1>2, <2>1, <2>2, <2>3, <2>4, <2>5, <2>6 DEF RecoveryStep
<1>3. ASSUME NEW p \in Proc, PromotionStep(p) PROVE IInv'
  <2>1. CASE CreateJournal(p) \/ WriteJournal(p) \/ RemoveJournal(p)
    BY <2>1, CreateJournalStep, WriteJournalStep, RemoveJournalStep
  <2>2. CASE ExecMarker(p) \/ ExecManifest(p) \/ ExecData(p) \/ ExecMoveManifest(p) \/ ExecMark(p)
    BY <2>2, ExecSteps
  <2>3. CASE ExecBackup(p) \/ ExecMarkWrite(p) \/ ExecDone(p)
    BY <2>3, ExecBackupStep, ExecMarkWriteStep, ExecDoneStep
  <2>4. CASE Finalize(p)
    BY <2>4, FinalizeStep
  <2>5. QED
    BY <1>3, <2>1, <2>2, <2>3, <2>4 DEF PromotionStep
<1>4. ASSUME NEW p \in Proc, PinStep(p) PROVE IInv'
  <2>1. CASE \E P \in Plan : PinSources(p, P)
    BY <2>1, PinSourcesStep
  <2>2. CASE PinEntry(p)
    BY <2>2, TakeEntrySteps
  <2>3. CASE PinRefused(p) \/ GuardedCommandEnds(p)
    BY <2>3, EndSteps
  <2>4. QED
    BY <1>4, <2>1, <2>2, <2>3 DEF PinStep
<1>5. ASSUME NEW p \in Proc, StorageFails(p) \/ Crash(p) PROVE IInv'
  BY <1>5, EndSteps, ZenonT(30)
<1>6. ASSUME NEW P \in Plan, OperatorUnlock(P) PROVE IInv'
  BY <1>6, OperatorStep
<1>7. CASE UNCHANGED vars
  <2>1. UNCHANGED <<pc, plan, at, run, runLock, elock, plock, data, marker, manifest, backup,
                    journal, made, good, faults>>
    BY <1>7 DEF vars
  <2>2. TypeOK'
    BY <2>1, Zenon DEF IInv, TypeOK
  <2>3. MadeKept
    BY <2>1 DEF MadeKept
  <2>4. \A k \in Key : EntryInv(k)'
    BY <2>1, <2>3, EntryKept DEF IInv, SameFiles
  <2>5. \A q \in Proc : SameProc(q)
    BY <2>1 DEF SameProc
  <2>6. \A q \in Proc : ProcInv(q)'
    BY <2>1, <2>3, <2>5, QuietKept DEF IInv
  <2>7. QED
    BY <2>2, <2>4, <2>6 DEF IInv
<1>8. QED
  BY <1>1, <1>2, <1>3, <1>4, <1>5, <1>6, <1>7, ZenonT(30) DEF Next

-----------------------------------------------------------------------------
(* Results.                                                                *)

\* The inductive invariant holds in every reachable state.
THEOREM Invariant == Spec => []IInv
<1>1. Init => IInv
  BY InvInit
<1>2. IInv /\ [Next]_vars => IInv'
  BY InvNext
<1>3. QED
  BY <1>1, <1>2, PTL DEF Spec

\* In every state of the journal an entry keeps the last good payload.
LEMMA Kept ==
  ASSUME IInv, NEW k \in Key
  PROVE  /\ good[k] # 0 => good[k] \in {data[k], backup[k]}
         /\ ValidEntry(k) => data[k] = good[k] /\ manifest[k] = made[data[k]]
<1>1. CASE Journaled(k)
  <2>1. InJournal(k)
    BY <1>1 DEF IInv, EntryInv
  <2>2. CASE Fresh(k)
    BY <2>2 DEF Fresh, Complete
  <2>3. CASE Saved(k) /\ backup[k] = good[k] /\ (data[k] # 0 => marker[k] # "complete")
    BY <2>3 DEF ValidEntry
  <2>4. CASE Saved(k) /\ backup[k] = 0 /\ data[k] = good[k]
               /\ (marker[k] = "complete" => manifest[k] = made[good[k]])
    BY <2>4 DEF ValidEntry
  <2>5. CASE New(k)
    BY <2>5 DEF New, ValidEntry
  <2>6. QED
    BY <2>1, <2>2, <2>3, <2>4, <2>5 DEF InJournal
<1>2. CASE ~Journaled(k)
  <2>1. Settled(k)
    BY <1>2 DEF IInv, EntryInv
  <2>2. QED
    BY <2>1 DEF Settled, Complete, Empty, ValidEntry
<1>3. QED
  BY <1>1, <1>2

\* A complete entry passes validate_completed_entry.
LEMMA CompleteIsValid ==
  ASSUME IInv, NEW k \in Key, Complete(k)
  PROVE  ValidEntry(k)
<1>1. good[k] \in DOMAIN made
  BY DEF IInv, EntryInv, Complete
<1>2. QED
  BY <1>1, Generations DEF Complete, ValidEntry

\* The last payload that was marked complete is on disk, as data or as the backup, at every step
\* of promotions, recoveries, storage failures and crashes.
THEOREM LastGood == Spec => []LastGoodSurvives
<1>1. IInv => LastGoodSurvives
  BY Kept, ZenonT(30) DEF LastGoodSurvives
<1>2. QED
  BY <1>1, Invariant, PTL

\* An entry that passes validate_completed_entry holds the last good payload with the manifest
\* of its run, and without a written journal there is no trace of an interrupted promotion.
THEOREM ValidEntries == Spec => []CompleteMeansGood
<1>1. ASSUME IInv PROVE CompleteMeansGood
  <2>1. ASSUME NEW k \in Key, journal.state # "prepared"
        PROVE  backup[k] = 0 /\ (ValidEntry(k) \/ (data[k] = 0 /\ marker[k] = "none" /\ manifest[k] = 0))
    <3>1. Settled(k)
      BY <1>1, <2>1, ZenonT(30) DEF IInv, EntryInv, Journaled
    <3>2. QED
      BY <1>1, <3>1, CompleteIsValid, ZenonT(30) DEF Settled, Empty
  <2>2. QED
    BY <1>1, <2>1, Kept, ZenonT(30) DEF CompleteMeansGood
<1>2. QED
  BY <1>1, Invariant, PTL

\* A promotion that reports success has promoted every entry of its plan.
THEOREM Promoted == Spec => []PromotedMeansCurrent
<1>1. ASSUME IInv PROVE PromotedMeansCurrent
  <2>1. ASSUME NEW p \in Proc, pc[p] = "promoted", NEW k \in KeysOf(plan[p])
        PROVE  ValidEntry(k) /\ data[k] = run[p]
    <3>1. Complete(k) /\ data[k] = run[p] /\ plan[p] \in Plan
      BY <1>1, <2>1, ZenonT(30) DEF IInv, ProcInv, Work, Placed
    <3>2. k \in Key
      BY <2>1, <3>1, PlanKeys
    <3>3. QED
      BY <1>1, <3>1, <3>2, CompleteIsValid
  <2>2. QED
    BY <2>1, ZenonT(30) DEF PromotedMeansCurrent
<1>2. QED
  BY <1>1, Invariant, PTL

\* What a pinned entry must keep.
SameContent(k) == data'[k] = data[k] /\ marker'[k] = marker[k] /\ manifest'[k] = manifest[k]

\* A process at work on an entry of the journal has the lock of the entry.
LEMMA OwnEntry ==
  ASSUME IInv, NEW q \in Proc,
         \/ pc[q] \in RecoverOne \cup PromoteOne
         \/ pc[q] = "rec" /\ at[q] <= Len(journal.keys)
         \/ pc[q] = "exec" /\ at[q] <= Len(plan[q])
  PROVE  /\ pc[q] \in Recovering => elock[Rec(q)] = q
         /\ pc[q] \in Promoting => elock[Cur(q)] = q
<1>1. pc[q] \in Recovering \cup Promoting /\ pc[q] \in Holding
  BY HoldingNames DEF Recovering, Promoting
<1>2. journal.state = "prepared" /\ journal.keys \in Plan /\ at[q] \in Nat /\ at[q] >= 1
  BY <1>1, HoldingNames DEF IInv, TypeOK, ProcInv, Journal, Placed
<1>3. pc[q] \in Promoting => journal.keys = plan[q]
  BY DEF IInv, ProcInv, Journal
<1>4. at[q] \in DOMAIN journal.keys
  <2>1. CASE pc[q] \in RecoverOne \cup PromoteOne
    BY <2>1 DEF IInv, ProcInv, Placed
  <2>2. CASE at[q] <= Len(journal.keys)
    BY <1>2, <2>2, PlanKeys, SMTT(30)
  <2>3. pc[q] = "exec" => pc[q] \in Promoting
    BY DEF Promoting
  <2>4. QED
    BY <1>3, <2>1, <2>2, <2>3
<1>5. Rec(q) \in KeysOf(journal.keys) /\ (pc[q] \in Promoting => Cur(q) \in KeysOf(plan[q]))
  BY <1>2, <1>3, <1>4, PlanKeys DEF Rec, Cur
<1>6. QED
  BY <1>1, <1>5, HoldingNames, ZenonT(30) DEF IInv, ProcInv, Locks

\* A recovery changes no entry but one whose lock it holds.
LEMMA RecoveryOwns ==
  ASSUME IInv, NEW q \in Proc, RecoveryStep(q), NEW k \in Key, elock[k] # q
  PROVE  SameContent(k)
<1>files. /\ data \in [Key -> Payload] /\ marker \in [Key -> {"none", "torn", "complete"}]
          /\ manifest \in [Key -> Gen \cup {0, Torn}]
  BY ZenonT(30) DEF IInv, TypeOK
<1>1. CASE UNCHANGED <<data, marker, manifest>>
  BY <1>1 DEF SameContent
<1>2. CASE RecData(q) \/ RecManifest(q) \/ RecRename(q)
  <2>1. pc[q] \in RecoverOne /\ pc[q] \in Recovering
    BY <1>2 DEF RecData, RecManifest, RecRename, RecoverOne, Recovering
  <2>2. Rec(q) # k
    BY <2>1, OwnEntry
  <2>3. QED
    BY <1>2, <1>files, <2>2 DEF RecData, RecManifest, RecRename, SameContent
<1>3. CASE RecRestore(q) \/ RecRestoreWrite(q) \/ RecMark(q) \/ RecMarkWrite(q)
  <2>1. pc[q] \in RecoverOne /\ pc[q] \in Recovering
    BY <1>3 DEF RecRestore, RecRestoreWrite, RecMark, RecMarkWrite, RecoverOne, Recovering
  <2>2. Rec(q) # k
    BY <2>1, OwnEntry
  <2>3. QED
    BY <1>3, <1>files, <2>2 DEF RecRestore, RecRestoreWrite, RecMark, RecMarkWrite, SameContent
<1>4. CASE RecEmpty(q)
  <2>1. pc[q] = "rec" /\ at[q] <= Len(journal.keys) /\ pc[q] \in Recovering
    BY <1>4 DEF RecEmpty, RecAt, Recovering
  <2>2. Rec(q) # k
    BY <2>1, OwnEntry
  <2>3. QED
    BY <1>4, <1>files, <2>2 DEF RecEmpty, SameContent
<1>5. CASE \/ LockPromotion(q) \/ NothingToRecover(q) \/ RecoverLocks(q) \/ RecComplete(q) \/ RecKeep(q)
           \/ RecRollback(q) \/ RecUntouched(q) \/ RecDone(q) \/ RecRemoveJournal(q)
  <2>1. UNCHANGED <<data, marker, manifest>>
    BY <1>5 DEF LockPromotion, NothingToRecover, RecoverLocks, RecComplete, RecKeep, RecRollback,
                RecUntouched, RecDone, RecRemoveJournal, entries
  <2>2. QED
    BY <1>1, <2>1
<1>6. QED
  BY <1>2, <1>3, <1>4, <1>5 DEF RecoveryStep

\* Nor does a promotion.
LEMMA PromotionOwns ==
  ASSUME IInv, NEW q \in Proc, PromotionStep(q), NEW k \in Key, elock[k] # q
  PROVE  SameContent(k)
<1>files. /\ data \in [Key -> Payload] /\ marker \in [Key -> {"none", "torn", "complete"}]
          /\ manifest \in [Key -> Gen \cup {0, Torn}]
  BY DEF IInv, TypeOK
<1>1. CASE ExecMarker(q) \/ ExecManifest(q) \/ ExecData(q) \/ ExecMoveManifest(q)
  <2>1. pc[q] \in PromoteOne /\ pc[q] \in Promoting
    BY <1>1 DEF ExecMarker, ExecManifest, ExecData, ExecMoveManifest, PromoteOne, Promoting
  <2>2. Cur(q) # k
    BY <2>1, OwnEntry
  <2>3. QED
    BY <1>1, <1>files, <2>2 DEF ExecMarker, ExecManifest, ExecData, ExecMoveManifest, SameContent
<1>2. CASE ExecMark(q) \/ ExecMarkWrite(q)
  <2>1. pc[q] \in PromoteOne /\ pc[q] \in Promoting
    BY <1>2 DEF ExecMark, ExecMarkWrite, PromoteOne, Promoting
  <2>2. Cur(q) # k
    BY <2>1, OwnEntry
  <2>3. QED
    BY <1>2, <1>files, <2>2 DEF ExecMark, ExecMarkWrite, SameContent
<1>3. CASE ExecBackup(q)
  <2>1. pc[q] = "exec" /\ at[q] <= Len(plan[q]) /\ pc[q] \in Promoting
    BY <1>3 DEF ExecBackup, At, Promoting
  <2>2. Cur(q) # k
    BY <2>1, OwnEntry
  <2>3. QED
    BY <1>3, <1>files, <2>2 DEF ExecBackup, SameContent
<1>4. CASE CreateJournal(q) \/ WriteJournal(q) \/ ExecDone(q) \/ Finalize(q) \/ RemoveJournal(q)
  BY <1>4 DEF CreateJournal, WriteJournal, ExecDone, Finalize, RemoveJournal, entries, SameContent
<1>5. QED
  BY <1>1, <1>2, <1>3, <1>4 DEF PromotionStep

\* No other step changes an entry.
LEMMA OthersLeaveAlone ==
  ASSUME NEW q \in Proc, RunStep(q) \/ PinStep(q) \/ StorageFails(q) \/ Crash(q), NEW k \in Key
  PROVE  SameContent(k)
<1>1. CASE RunStep(q)
  BY <1>1 DEF RunStep, Begin, PrepareEntry, Prepared, ChecksPass, ChecksFail, Rejected, Return,
              EndRun, entries, SameContent
<1>2. CASE PinStep(q)
  BY <1>2 DEF PinStep, PinSources, PinEntry, PinRefused, GuardedCommandEnds, Unpin, entries,
     SameContent
<1>3. CASE StorageFails(q) \/ Crash(q)
  BY <1>3 DEF StorageFails, Crash, EndRun, entries, SameContent
<1>4. QED
  BY <1>1, <1>2, <1>3

\* As long as a guarded command has an entry pinned, nobody changes its data, marker or manifest.
THEOREM Pinned == Spec => PinnedEntryStable
<1>1. ASSUME IInv, [Next]_vars, NEW p \in Proc, NEW k \in Key, PinnedBy(p, k)
      PROVE  SameContent(k)
  <2>1. pc[p] = "pin" /\ elock[k] = p
    <3>1. PICK i \in 1..(at[p] - 1) : plan[p][i] = k
      BY <1>1 DEF PinnedBy
    <3>2. pc[p] = "pin" /\ plan[p] \in Plan /\ at[p] \in Nat /\ at[p] <= Len(plan[p]) + 1
      BY <1>1 DEF PinnedBy, IInv, TypeOK, ProcInv, Placed
    <3>3. i \in DOMAIN plan[p] /\ i < at[p]
      BY <3>1, <3>2, PlanKeys, SMTT(30)
    <3>4. QED
      BY <1>1, <3>1, <3>2, <3>3 DEF IInv, ProcInv, Locks
  <2>2. ASSUME NEW q \in Proc, RecoveryStep(q) \/ PromotionStep(q) PROVE SameContent(k)
    <3>1. CASE q = p
      BY <2>1, <2>2, <3>1 DEF RecoveryStep, PromotionStep, LockPromotion, NothingToRecover,
         RecoverLocks, RecComplete, RecKeep, RecRollback, RecData, RecManifest, RecRename,
         RecRestore, RecRestoreWrite, RecMark, RecMarkWrite, RecUntouched, RecEmpty, RecDone,
         RecRemoveJournal, CreateJournal, WriteJournal, ExecBackup, ExecMarker, ExecManifest,
         ExecData, ExecMoveManifest, ExecMark, ExecMarkWrite, ExecDone, Finalize, RemoveJournal,
         At, RecAt
    <3>2. CASE q # p
      BY <1>1, <2>1, <2>2, <3>2, RecoveryOwns, PromotionOwns
    <3>3. QED
      BY <3>1, <3>2
  <2>3. ASSUME NEW P \in Plan, OperatorUnlock(P) PROVE SameContent(k)
    BY <2>3 DEF OperatorUnlock, entries, SameContent
  <2>4. CASE UNCHANGED vars
    BY <2>4 DEF vars, SameContent
  <2>5. QED
    BY <1>1, <2>2, <2>3, <2>4, OthersLeaveAlone DEF Next
<1>2. IInv /\ [Next]_vars =>
        [\A p \in Proc, k \in Key : PinnedBy(p, k) /\ PinnedBy(p, k)' =>
            data'[k] = data[k] /\ marker'[k] = marker[k] /\ manifest'[k] = manifest[k]]_vars
  BY <1>1 DEF SameContent
<1>3. QED
  BY <1>2, Invariant, PTL DEF Spec, PinnedEntryStable
=============================================================================
