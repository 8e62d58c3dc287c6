--------------------------- MODULE LifecycleProofs ---------------------------
(***************************************************************************)
(* What RunLifecycle promises of journals and receipts, for every number   *)
(* of runs and of failures.                                                *)
(*                                                                         *)
(* A run only ever writes to its own directory, so the invariant speaks of *)
(* one run at a time; what runs share is the marker of the store, which    *)
(* changes until somebody has written it and never again.                  *)
(***************************************************************************)
EXTENDS RunLifecycle, TLAPS

\* The time limits of the provers, in seconds.
USE ZenonT(8), SMTT(15)

\* The run has not journaled anything; it prepares; it has returned or crashed.
Early == {"init", "mark", "markWrite", "runDir", "owner", "ownerWrite"}
Preparing == {"resolve", "reserve", "materialize", "copy", "overlay", "bind", "bindWrite",
              "admission", "acquire"}
Ended == {"exit"} \cup Over

-----------------------------------------------------------------------------
(* The inductive invariant.                                                *)

\* Who creates the marker gives the store its token; who has gone on knows it.
Token(r) ==
    /\ pc[r] = "markWrite" => root.marker # "none" /\ root.token = r
    /\ pc[r] = "runDir" \/ dir[r] # "none" => token[r] = root.token /\ root.marker = "whole"
    /\ pc[r] \in {"init", "mark", "markWrite", "runDir"} => dir[r] = "none"

\* The entries of a run replay.
Chain(r) ==
    /\ entries[r] # <<>> => entries[r][1].state = "created"
    /\ \A i \in 1..Len(entries[r]) - 1 :
          /\ entries[r][i].whole
          /\ entries[r][i + 1].state \in Legal(entries[r][i].state)

\* There is an entry with state s, and the last one is whole.
Holds(r, s) == \E i \in DOMAIN entries[r] : entries[r][i].state = s
Whole(r) == entries[r] # <<>> /\ entries[r][Len(entries[r])].whole

\* Nothing is journaled before the owner marker is written.
Replays(r) ==
    /\ pc[r] \in Early => entries[r] = <<>>
    /\ pc[r] = "created" => entries[r] = <<>> \/ Pending(r)
    /\ Chain(r)

\* The slot is held from the acquisition to the release.
Slot(r) ==
    /\ pc[r] \in Early \cup {"created"} \cup Preparing => adm[r] = "none"
    /\ pc[r] \in {"admitted", "prestart", "prepared", "executing", "check", "release"} =>
          adm[r] = "held"
    /\ pc[r] \in {"finalizing", "publish"} /\ kind[r] = "run" => adm[r] = "held"
    /\ pc[r] \in {"finalizing", "publish"} /\ kind[r] = "matrix" => adm[r] = "released" /\ ~snap[r]
    /\ pc[r] \in {"cleanup", "sealed"} => adm[r] = "released"
    /\ pc[r] = "failed" => adm[r] \in {"none", "released"}

\* The receipt of a single runtime is published before the release, that of a matrix at the end.
Published(r) ==
    /\ pc[r] = "publish" => Recorded(r, "finalizing")
    /\ pc[r] = "release" /\ kind[r] = "run" /\ primary[r] = "ok" => receipt[r]
    /\ pc[r] = "release" /\ receipt[r] => primary[r] = "ok"
    /\ pc[r] = "cleanup" /\ kind[r] = "run" => receipt[r]
    /\ pc[r] = "sealed" => receipt[r] /\ ~snap[r]
    /\ receipt[r] => /\ Recorded(r, "finalizing")
                     /\ pc[r] \in {"release", "cleanup", "sealed", "cleanup_pending"} \cup Ended
    /\ receipt[r] /\ kind[r] = "matrix" =>
          pc[r] \in {"sealed"} \cup Ended /\ adm[r] = "released" /\ ~snap[r]

\* Nothing follows a terminal entry, and what it says is so.
Terminal(r) ==
    /\ Holds(r, "sealed") => pc[r] \in {"sealed"} \cup Ended
    /\ Holds(r, "failed") => pc[r] \in {"failed"} \cup Ended
    /\ Recorded(r, "sealed") => receipt[r] /\ adm[r] = "released" /\ ~snap[r]
    /\ Recorded(r, "failed") => adm[r] \in {"none", "released"}

\* The last entry of a run in which nothing has failed.
Ends(r) ==
    /\ pc[r] \in Preparing \cup {"admitted"} => LastState(r) = "created"
    /\ pc[r] \in {"prestart", "prepared"} => LastState(r) = "admitted"
    /\ pc[r] = "executing" => LastState(r) = "prepared"
    /\ pc[r] \in {"check", "finalizing"} => LastState(r) = "executing"
    /\ pc[r] \in {"publish", "sealed"} => LastState(r) = "finalizing"
    /\ pc[r] = "release" /\ primary[r] # "ok" => LastState(r) \in {"admitted", "executing", "finalizing"}
    /\ (pc[r] = "release" /\ primary[r] = "ok") \/ pc[r] = "cleanup" =>
          LastState(r) = IF kind[r] = "run" THEN "finalizing" ELSE "executing"
    /\ pc[r] = "failed" => LastState(r) \in {"created", "admitted", "executing", "finalizing"}
    /\ pc[r] \in {"exit", "done"} =>
          /\ LastState(r) = LastWord(result[r])
          /\ receipt[r] <=> result[r] = "ok"
          /\ adm[r] \in IF result[r] = "unjournaled" THEN {"none"} ELSE {"none", "released"}
    /\ pc[r] = "done" => ~snap[r]

\* Nothing has failed, and nobody has recovered the run.
Undisturbed(r) == faults = 0 /\ dir[r] = "live" /\ pc[r] \notin Early

\* Then the run can read its own journal, needs no cleanup ...
Sound(r) ==
    /\ pc[r] \in Early => binding[r] = "none"
    /\ Undisturbed(r) => /\ pc[r] \notin {"cleanup_pending", "dead"}
                         /\ owner[r] = "whole"
                         /\ binding[r] = "torn" => pc[r] = "bindWrite"

\* ... and its journal ends where it is.
Current(r) ==
    Undisturbed(r) =>
        \/ pc[r] = "created" /\ entries[r] = <<>>
        \/ pc[r] \in State /\ Pending(r)
        \/ Whole(r) /\ Ends(r)

RunInv(r) ==
    /\ Token(r) /\ Replays(r)
    /\ Slot(r) /\ Published(r) /\ Terminal(r)
    /\ Sound(r) /\ Current(r)

IInv == TypeOK /\ \A r \in Run : RunInv(r)

-----------------------------------------------------------------------------
(* The operations on entries.                                              *)

\* Completing an entry.
LEMMA Completed ==
  ASSUME NEW x \in Entry
  PROVE  /\ [x EXCEPT !.whole = TRUE] \in Entry
         /\ [x EXCEPT !.whole = TRUE].state = x.state
         /\ [x EXCEPT !.whole = TRUE].whole
BY Zenon DEF Entry

\* What WriteEntry does to the entries of its run.
LEMMA Written ==
  ASSUME TypeOK, NEW r \in Run, entries[r] # <<>>, WriteEntry(r)
  PROVE  /\ entries' \in [Run -> Seq(Entry)]
         /\ \A q \in Run : q # r => entries'[q] = entries[q]
         /\ Len(entries'[r]) = Len(entries[r])
         /\ \A i \in 1..Len(entries[r]) - 1 : entries'[r][i] = entries[r][i]
         /\ entries'[r][Len(entries[r])].state = LastState(r)
         /\ entries'[r][Len(entries[r])].whole
<1> DEFINE e == entries[r]
           n == Len(entries[r])
           f == [e EXCEPT ![n].whole = TRUE]
<1>1. e \in Seq(Entry) /\ n \in Nat /\ n \in DOMAIN e
  BY SMTT(30) DEF TypeOK, StoreTypeOK
<1>2. e[n] \in Entry
  BY <1>1
<1>3. f \in Seq(Entry) /\ Len(f) = n
  BY <1>1, <1>2, Completed, SMTT(30)
<1>4. entries' = [entries EXCEPT ![r] = f]
  BY DEF WriteEntry
<1>5. entries' \in [Run -> Seq(Entry)] /\ entries'[r] = f
  BY <1>3, <1>4 DEF TypeOK, StoreTypeOK
<1>6. f[n] = [e[n] EXCEPT !.whole = TRUE]
  BY <1>1
<1>7. f[n].state = e[n].state /\ f[n].whole
  BY <1>2, <1>6, Completed
<1>8. \A i \in 1..n - 1 : f[i] = e[i]
  BY <1>1, SMTT(30)
<1>9. QED
  BY <1>1, <1>3, <1>4, <1>5, <1>7, <1>8 DEF TypeOK, StoreTypeOK, LastState

\* What OpenEntry does to them.
LEMMA Opened ==
  ASSUME TypeOK, NEW r \in Run, NEW s \in State, OpenEntry(r, s)
  PROVE  /\ entries' \in [Run -> Seq(Entry)]
         /\ \A q \in Run : q # r => entries'[q] = entries[q]
         /\ Len(entries'[r]) = Len(entries[r]) + 1
         /\ \A i \in 1..Len(entries[r]) : entries'[r][i] = entries[r][i]
         /\ entries'[r][Len(entries[r]) + 1] = [state |-> s, whole |-> FALSE]
<1> DEFINE x == [state |-> s, whole |-> FALSE]
<1>1. x \in Entry /\ entries[r] \in Seq(Entry)
  BY Zenon DEF Entry, TypeOK, StoreTypeOK
<1>2. entries' = [entries EXCEPT ![r] = Append(entries[r], x)]
  BY DEF OpenEntry
<1>3. QED
  BY <1>1, <1>2, SMTT(30) DEF TypeOK, StoreTypeOK

-----------------------------------------------------------------------------
(* Types.                                                                  *)

\* Every value of pc.  The proofs use the set as a whole and its members by PlaceNames.
Places == Steps \cup State \cup Over

\* The steps of the command, the journal states and the ends are places.
LEMMA PlaceNames ==
  /\ "mark" \in Places /\ "markWrite" \in Places /\ "runDir" \in Places /\ "owner" \in Places
  /\ "ownerWrite" \in Places /\ "resolve" \in Places /\ "reserve" \in Places
  /\ "materialize" \in Places /\ "copy" \in Places /\ "overlay" \in Places /\ "bind" \in Places
  /\ "bindWrite" \in Places /\ "admission" \in Places /\ "acquire" \in Places
  /\ "prestart" \in Places /\ "check" \in Places /\ "publish" \in Places
  /\ "release" \in Places /\ "cleanup" \in Places /\ "exit" \in Places /\ "done" \in Places
  /\ "dead" \in Places /\ "created" \in Places /\ "admitted" \in Places
  /\ "prepared" \in Places /\ "executing" \in Places /\ "finalizing" \in Places
  /\ "cleanup_pending" \in Places /\ "failed" \in Places /\ "sealed" \in Places
BY DEF Places, Steps, State, Over

\* A step leads to a step.
LEMMA PcType ==
  ASSUME pc \in [Run -> Places], NEW r \in Run, Step(r) \/ Crash(r)
  PROVE  pc' \in [Run -> Places]
<1> USE PlaceNames DEF Goto, Return, GiveUp, Finalize, run
<1>1. CASE LookForMarker(r) \/ CreateMarker(r) \/ WriteMarker(r)
  BY <1>1 DEF LookForMarker, CreateMarker, WriteMarker
<1>2. CASE CreateRunDirectory(r) \/ CreateOwner(r) \/ WriteOwner(r)
  BY <1>2 DEF CreateRunDirectory, CreateOwner, WriteOwner
<1>3. CASE Resolve(r) \/ Reserve(r) \/ StartSnapshot(r)
  BY <1>3 DEF Resolve, Reserve, StartSnapshot
<1>4. CASE CopySnapshot(r) \/ Overlay(r)
  BY <1>4 DEF CopySnapshot, Overlay
<1>5. CASE CreateBinding(r) \/ WriteBinding(r) \/ OpenAdmission(r)
  BY <1>5 DEF CreateBinding, WriteBinding, OpenAdmission
<1>6. CASE Acquire(r) \/ AcquireFails(r) \/ PreStart(r) \/ Check(r)
  BY <1>6 DEF Acquire, AcquireFails, PreStart, Check
<1>7. CASE Publish(r) \/ Release(r)
  BY <1>7 DEF Publish, Release
<1>8. CASE Cleanup(r) \/ Exit(r) \/ Crash(r)
  BY <1>8 DEF Cleanup, Exit, Crash
<1>9. CASE BeginEntry(r) \/ RefuseEntry(r) \/ FinishEntry(r) \/ FinishEntryFails(r)
  BY <1>9 DEF BeginEntry, RefuseEntry, FinishEntry, FinishEntryFails, AfterEntry, AfterEntryError
<1>10. QED
  BY <1>1, <1>2, <1>3, <1>4, <1>5, <1>6, <1>7, <1>8, <1>9 DEF Step

\* The steps that write no entry keep the types.
LEMMA PlainTypes ==
  ASSUME TypeOK, NEW r \in Run, Step(r) \/ Crash(r),
         ~(BeginEntry(r) \/ RefuseEntry(r) \/ FinishEntry(r) \/ FinishEntryFails(r))
  PROVE  TypeOK'
<1>1. pc' \in [Run -> Places]
  BY PcType DEF TypeOK, Places
<1>2. root \in [marker : File, token : Run \cup {NoRun}, runs : BOOLEAN]
  BY DEF TypeOK, StoreTypeOK
<1>3. token \in [Run -> Run \cup {NoRun}]
  BY DEF TypeOK, StoreTypeOK
<1>4. dir \in [Run -> {"none", "live", "quarantined", "recreated"}]
  BY DEF TypeOK, StoreTypeOK
<1>5. owner \in [Run -> File]
  BY DEF TypeOK, StoreTypeOK
<1>6. binding \in [Run -> File]
  BY DEF TypeOK, StoreTypeOK
<1>7. result \in [Run -> {"none", "ok", "err", "unjournaled"}]
  BY DEF TypeOK, StoreTypeOK
<1>8. primary \in [Run -> {"none", "ok", "err", "unadmitted"}]
  BY DEF TypeOK, StoreTypeOK
<1>9. adm \in [Run -> {"none", "held", "released", "uncertain", "lost"}]
  BY DEF TypeOK, StoreTypeOK
<1>10. snap \in [Run -> BOOLEAN]
  BY DEF TypeOK, StoreTypeOK
<1>11. receipt \in [Run -> BOOLEAN]
  BY DEF TypeOK, StoreTypeOK
<1>12. faults \in 0..MaxFaults
  BY DEF TypeOK, StoreTypeOK
<1>13. CASE LookForMarker(r) \/ CreateMarker(r) \/ WriteMarker(r)
  <2>1. root' \in [marker : File, token : Run \cup {NoRun}, runs : BOOLEAN]
    BY <1>13, <1>2 DEF LookForMarker, CreateMarker, WriteMarker, run, File
  <2>2. token' \in [Run -> Run \cup {NoRun}]
    BY <1>13, <1>3, <1>2 DEF LookForMarker, CreateMarker, WriteMarker, run
  <2>3. result' \in [Run -> {"none", "ok", "err", "unjournaled"}]
    BY <1>13, <1>7 DEF LookForMarker, CreateMarker, WriteMarker, Return, GiveUp, run
  <2>4. faults' \in 0..MaxFaults
    BY <1>13, <1>12, FaultsAssumption, SMTT(30) DEF LookForMarker, CreateMarker, WriteMarker,
       Fault, NoFault
  <2>5. UNCHANGED <<dir, owner, binding, entries, applying, kind, primary, adm, snap, receipt>>
    BY <1>13 DEF LookForMarker, CreateMarker, WriteMarker, run, Return, GiveUp, Finalize
  <2>6. QED
    BY <1>1, <2>1, <2>2, <2>3, <2>4, <2>5 DEF TypeOK, StoreTypeOK, Places
<1>14. CASE CreateRunDirectory(r) \/ CreateOwner(r) \/ WriteOwner(r)
  <2>1. root' \in [marker : File, token : Run \cup {NoRun}, runs : BOOLEAN]
    BY <1>14, <1>2 DEF CreateRunDirectory, CreateOwner, WriteOwner, run, File
  <2>2. dir' \in [Run -> {"none", "live", "quarantined", "recreated"}]
    BY <1>14, <1>4 DEF CreateRunDirectory, CreateOwner, WriteOwner, run
  <2>3. owner' \in [Run -> File]
    BY <1>14, <1>5 DEF CreateRunDirectory, CreateOwner, WriteOwner, run, File
  <2>4. result' \in [Run -> {"none", "ok", "err", "unjournaled"}]
    BY <1>14, <1>7 DEF CreateRunDirectory, CreateOwner, WriteOwner, Return, GiveUp, run
  <2>5. faults' \in 0..MaxFaults
    BY <1>14, <1>12, FaultsAssumption, SMTT(30) DEF CreateRunDirectory, CreateOwner, WriteOwner,
       Fault, NoFault
  <2>6. UNCHANGED <<token, binding, entries, applying, kind, primary, adm, snap, receipt>>
    BY <1>14 DEF CreateRunDirectory, CreateOwner, WriteOwner, run, Return, GiveUp, Finalize
  <2>7. QED
    BY <1>1, <2>1, <2>2, <2>3, <2>4, <2>5, <2>6 DEF TypeOK, StoreTypeOK, Places
<1>15. CASE Resolve(r) \/ Reserve(r) \/ StartSnapshot(r)
  <2>1. result' \in [Run -> {"none", "ok", "err", "unjournaled"}]
    BY <1>15, <1>7 DEF Resolve, Reserve, StartSnapshot, Return, GiveUp, run
  <2>2. snap' \in [Run -> BOOLEAN]
    BY <1>15, <1>10, Zenon DEF Resolve, Reserve, StartSnapshot, run
  <2>3. faults' \in 0..MaxFaults
    BY <1>15, <1>12, FaultsAssumption DEF Resolve, Reserve, StartSnapshot, Fault, NoFault
  <2>4. UNCHANGED <<root, token, dir, owner, binding, entries, applying, kind, primary, adm, receipt>>
    BY <1>15 DEF Resolve, Reserve, StartSnapshot, run, Return, GiveUp, Finalize
  <2>5. QED
    BY <1>1, <2>1, <2>2, <2>3, <2>4 DEF TypeOK, StoreTypeOK, Places
<1>16. CASE CopySnapshot(r) \/ Overlay(r)
  <2>1. dir' \in [Run -> {"none", "live", "quarantined", "recreated"}]
    BY <1>16, <1>4 DEF CopySnapshot, Overlay, run, Recreated
  <2>2. snap' \in [Run -> BOOLEAN]
    BY <1>16, <1>10, Zenon DEF CopySnapshot, Overlay, run
  <2>3. faults' \in 0..MaxFaults
    BY <1>16, <1>12, FaultsAssumption DEF CopySnapshot, Overlay, Fault, NoFault
  <2>4. UNCHANGED <<root, token, owner, binding, entries, applying, kind, primary, adm, receipt, result>>
    BY <1>16 DEF CopySnapshot, Overlay, run, Return, GiveUp, Finalize
  <2>5. QED
    BY <1>1, <2>1, <2>2, <2>3, <2>4 DEF TypeOK, StoreTypeOK, Places
<1>17. CASE CreateBinding(r) \/ WriteBinding(r) \/ OpenAdmission(r)
  <2>1. binding' \in [Run -> File]
    BY <1>17, <1>6 DEF CreateBinding, WriteBinding, OpenAdmission, run, File
  <2>2. result' \in [Run -> {"none", "ok", "err", "unjournaled"}]
    BY <1>17, <1>7 DEF CreateBinding, WriteBinding, OpenAdmission, Return, GiveUp, run
  <2>3. faults' \in 0..MaxFaults
    BY <1>17, <1>12, FaultsAssumption DEF CreateBinding, WriteBinding, OpenAdmission, Fault,
       NoFault
  <2>4. UNCHANGED <<root, token, dir, owner, entries, applying, kind, primary, adm, snap, receipt>>
    BY <1>17 DEF CreateBinding, WriteBinding, OpenAdmission, run, Return, GiveUp, Finalize
  <2>5. QED
    BY <1>1, <2>1, <2>2, <2>3, <2>4 DEF TypeOK, StoreTypeOK, Places
<1>18. CASE Acquire(r) \/ AcquireFails(r) \/ PreStart(r) \/ Check(r)
  <2>1. adm' \in [Run -> {"none", "held", "released", "uncertain", "lost"}]
    BY <1>18, <1>9 DEF Acquire, AcquireFails, PreStart, Check, run
  <2>2. primary' \in [Run -> {"none", "ok", "err", "unadmitted"}]
    BY <1>18, <1>8 DEF Acquire, AcquireFails, PreStart, Check, Finalize, run
  <2>3. faults' \in 0..MaxFaults
    BY <1>18, <1>12, FaultsAssumption DEF Acquire, AcquireFails, PreStart, Check, Fault, NoFault
  <2>4. UNCHANGED <<root, token, dir, owner, binding, entries, applying, kind, snap, receipt, result>>
    BY <1>18 DEF Acquire, AcquireFails, PreStart, Check, run, Return, GiveUp, Finalize
  <2>5. QED
    BY <1>1, <2>1, <2>2, <2>3, <2>4 DEF TypeOK, StoreTypeOK, Places
<1>19. CASE Publish(r) \/ Release(r)
  <2>1. receipt' \in [Run -> BOOLEAN]
    BY <1>19, <1>11, Zenon DEF Publish, Release, run
  <2>2. adm' \in [Run -> {"none", "held", "released", "uncertain", "lost"}]
    BY <1>19, <1>9 DEF Publish, Release, run
  <2>3. primary' \in [Run -> {"none", "ok", "err", "unadmitted"}]
    BY <1>19, <1>8 DEF Publish, Release, Finalize, run
  <2>4. faults' \in 0..MaxFaults
    BY <1>19, <1>12, FaultsAssumption, SMTT(30) DEF Publish, Release, Fault, NoFault
  <2>5. UNCHANGED <<root, token, dir, owner, binding, entries, applying, kind, snap, result>>
    BY <1>19 DEF Publish, Release, run, Return, GiveUp, Finalize
  <2>6. QED
    BY <1>1, <2>1, <2>2, <2>3, <2>4, <2>5 DEF TypeOK, StoreTypeOK, Places
<1>20. CASE Cleanup(r) \/ Exit(r) \/ Crash(r)
  <2>1. snap' \in [Run -> BOOLEAN]
    BY <1>20, <1>10, Zenon DEF Cleanup, Exit, Crash, run
  <2>2. adm' \in [Run -> {"none", "held", "released", "uncertain", "lost"}]
    BY <1>20, <1>9 DEF Cleanup, Exit, Crash, run
  <2>3. faults' \in 0..MaxFaults
    BY <1>20, <1>12, FaultsAssumption DEF Cleanup, Exit, Crash, Fault, NoFault
  <2>4. UNCHANGED <<root, token, dir, owner, binding, entries, applying, kind, primary, receipt, result>>
    BY <1>20 DEF Cleanup, Exit, Crash, run, Return, GiveUp, Finalize
  <2>5. QED
    BY <1>1, <2>1, <2>2, <2>3, <2>4 DEF TypeOK, StoreTypeOK, Places
<1>21. QED
  BY <1>13, <1>14, <1>15, <1>16, <1>17, <1>18, <1>19, <1>20 DEF Step

\* The steps of a journal transition keep the types.
LEMMA EntryTypes ==
  ASSUME TypeOK, NEW r \in Run,
         BeginEntry(r) \/ RefuseEntry(r) \/ FinishEntry(r) \/ FinishEntryFails(r)
  PROVE  TypeOK'
<1> USE DEF Fault, NoFault, Goto, Return, GiveUp, Finalize, run
<1>1. pc' \in [Run -> Places]
  BY PcType DEF TypeOK, Places, Step
<1>2. entries' \in [Run -> Seq(Entry)]
  <2>1. CASE BeginEntry(r)
    BY <2>1, Opened DEF BeginEntry
  <2>2. CASE RefuseEntry(r)
    BY <2>2 DEF RefuseEntry, TypeOK, StoreTypeOK
  <2>3. CASE FinishEntry(r) \/ FinishEntryFails(r)
    BY <2>3, Written DEF FinishEntry, FinishEntryFails, Pending, TypeOK, StoreTypeOK
  <2>4. QED
    BY <2>1, <2>2, <2>3
<1> USE DEF BeginEntry, RefuseEntry, FinishEntry, FinishEntryFails, AfterEntry, AfterEntryError
<1>3. result' \in [Run -> {"none", "ok", "err", "unjournaled"}]
  BY DEF TypeOK
<1>4. primary' \in [Run -> {"none", "ok", "err", "unadmitted"}]
  BY DEF TypeOK
<1>5. faults' \in 0..MaxFaults
  BY FaultsAssumption, SMTT(30) DEF TypeOK
<1>6. UNCHANGED <<root, token, dir, owner, binding, applying, kind, adm, snap, receipt>>
  OBVIOUS
<1>7. QED
  BY <1>1, <1>2, <1>3, <1>4, <1>5, <1>6 DEF TypeOK, StoreTypeOK, Places

-----------------------------------------------------------------------------
(* Steps that write no entry.                                              *)

\* The journal of r stays as it is, and so does what the invariant says of it.
SameJournal(r) ==
    /\ entries'[r] = entries[r]
    /\ Recorded(r, "finalizing")' <=> Recorded(r, "finalizing")
    /\ Recorded(r, "sealed")' <=> Recorded(r, "sealed")
    /\ Recorded(r, "failed")' <=> Recorded(r, "failed")
    /\ Holds(r, "sealed")' <=> Holds(r, "sealed")
    /\ Holds(r, "failed")' <=> Holds(r, "failed")
    /\ Chain(r)' <=> Chain(r)
    /\ Whole(r)' <=> Whole(r)
    /\ LastState(r)' = LastState(r)

\* What a step of one run leaves alone of another.
Untouched(q) ==
    /\ token'[q] = token[q] /\ dir'[q] = dir[q] /\ owner'[q] = owner[q] /\ binding'[q] = binding[q]
    /\ entries'[q] = entries[q] /\ kind'[q] = kind[q] /\ pc'[q] = pc[q]
    /\ primary'[q] = primary[q] /\ adm'[q] = adm[q] /\ snap'[q] = snap[q]
    /\ receipt'[q] = receipt[q] /\ result'[q] = result[q]

\* The marker of the store, once created, keeps its token, and stays whole.
RootKept ==
    /\ root.marker # "none" => root'.marker # "none" /\ root'.token = root.token
    /\ root.marker = "whole" => root'.marker = "whole"

\* A step of r touches no other run.
Others(r) ==
    /\ RootKept
    /\ faults' = 0 => faults = 0
    /\ \A q \in Run : q # r => Untouched(q)

\* The step takes r from one place to another.
Moves(r, from, to) == pc[r] = from /\ pc'[r] = to

\* A recorded state is the state of an entry.
LEMMA RecordedHolds ==
  ASSUME NEW r, NEW s, Recorded(r, s)
  PROVE  Holds(r, s)
BY DEF Recorded, Holds

\* The store: LookForMarker, CreateMarker and WriteMarker keep the invariant of
\* their run.  Here the token of the store is settled.
LEMMA MarkerSteps ==
  ASSUME TypeOK, NEW r \in Run, RunInv(r),
         LookForMarker(r) \/ CreateMarker(r) \/ WriteMarker(r)
  PROVE  RunInv(r)' /\ Others(r)
<1>pc. pc \in [Run -> Places]
  BY DEF TypeOK, Places
<1>root. root \in [marker : File, token : Run \cup {NoRun}, runs : BOOLEAN]
  BY DEF TypeOK, StoreTypeOK
<1>token. token \in [Run -> Run \cup {NoRun}]
  BY DEF TypeOK, StoreTypeOK
<1>result. result \in [Run -> {"none", "ok", "err", "unjournaled"}]
  BY DEF TypeOK, StoreTypeOK
<1>faults. faults \in Nat
  BY FaultsAssumption, SMTT(30) DEF TypeOK
<1>same. UNCHANGED <<dir, owner, binding, entries, kind, primary, adm, snap, receipt>>
  BY DEF LookForMarker, CreateMarker, WriteMarker, Return
<1>time. faults' = 0 => faults = 0
  BY <1>faults, SMTT(30) DEF LookForMarker, CreateMarker, WriteMarker, Fault, NoFault
<1>journal. SameJournal(r)
  BY <1>same DEF SameJournal, Recorded, Holds, Chain, Whole, LastState
<1>moves. \/ Moves(r, "init", "mark") /\ root' = root
          \/ Moves(r, "init", "runDir") /\ root' = root
             /\ root.marker = "whole" /\ token'[r] = root.token
          \/ Moves(r, "init", "exit") /\ root' = root
          \/ Moves(r, "mark", "markWrite") /\ root'.marker = "torn" /\ root'.token = r
          \/ Moves(r, "mark", "exit") /\ root' = root
          \/ /\ Moves(r, "markWrite", "runDir")
             /\ root'.marker = "whole" /\ root'.token = root.token /\ token'[r] = r
          \/ Moves(r, "markWrite", "exit")
  <2>1. CASE LookForMarker(r)
    BY <2>1, <1>pc, <1>root, <1>token DEF Moves, LookForMarker, Goto, Return
  <2>2. CASE CreateMarker(r)
    BY <2>2, <1>pc, <1>root DEF Moves, CreateMarker, Goto, Return
  <2>3. CASE WriteMarker(r)
    BY <2>3, <1>pc, <1>root, <1>token DEF Moves, WriteMarker, Goto, Return
  <2>4. QED
    BY <2>1, <2>2, <2>3
<1>others. Others(r)
  <2>1. \A q \in Run : q # r => pc'[q] = pc[q]
    BY <1>pc DEF LookForMarker, CreateMarker, WriteMarker, Goto, Return
  <2>2. \A q \in Run : q # r => token'[q] = token[q]
    BY <1>token DEF LookForMarker, CreateMarker, WriteMarker
  <2>3. \A q \in Run : q # r => result'[q] = result[q]
    BY <1>result DEF LookForMarker, CreateMarker, WriteMarker, Return
  <2>4. RootKept
    BY <1>root DEF RootKept, LookForMarker, CreateMarker, WriteMarker
  <2>5. QED
    BY <2>1, <2>2, <2>3, <2>4, <1>same, <1>time DEF Others, Untouched
<1>1. Token(r)'
  BY <1>moves, <1>same DEF RunInv, Token, Moves
<1>2. Replays(r)'
  BY <1>moves, <1>same, <1>journal DEF RunInv, Replays, Pending, Early, SameJournal, Moves
<1>3. Slot(r)'
  BY <1>moves, <1>same DEF RunInv, Slot, Early, Preparing, Moves
<1>4. Published(r)'
  BY <1>moves, <1>same, <1>journal DEF RunInv, Published, Ended, Over, SameJournal, Moves
<1>5. Terminal(r)'
  BY <1>moves, <1>same, RecordedHolds, <1>journal
     DEF RunInv, Terminal, Ended, Over, SameJournal, Moves
<1>6. Sound(r)'
  BY <1>moves, <1>same, <1>time DEF RunInv, Sound, Undisturbed, Early, Token, Replays, Moves
<1>7. Current(r)'
  BY <1>moves, <1>same, <1>time, <1>journal
     DEF RunInv, Current, Undisturbed, Ends, Early, Preparing, State, Token, Replays,
         SameJournal, Moves
<1>8. QED
  BY <1>1, <1>2, <1>3, <1>4, <1>5, <1>6, <1>7, <1>others DEF RunInv

\* The run directory and its owner marker.
LEMMA DirectorySteps ==
  ASSUME TypeOK, NEW r \in Run, RunInv(r),
         CreateRunDirectory(r) \/ CreateOwner(r) \/ WriteOwner(r)
  PROVE  RunInv(r)' /\ Others(r)
<1>pc. pc \in [Run -> Places]
  BY DEF TypeOK, Places
<1>root. root \in [marker : File, token : Run \cup {NoRun}, runs : BOOLEAN]
  BY DEF TypeOK, StoreTypeOK
<1>dir. dir \in [Run -> {"none", "live", "quarantined", "recreated"}]
  BY DEF TypeOK, StoreTypeOK
<1>owner. owner \in [Run -> File]
  BY DEF TypeOK, StoreTypeOK
<1>result. result \in [Run -> {"none", "ok", "err", "unjournaled"}]
  BY DEF TypeOK, StoreTypeOK
<1>faults. faults \in Nat
  BY FaultsAssumption, SMTT(30) DEF TypeOK
<1>same. UNCHANGED <<token, binding, entries, kind, primary, adm, snap, receipt>>
  BY DEF CreateRunDirectory, CreateOwner, WriteOwner, Return
<1>time. faults' = 0 => faults = 0
  BY <1>faults, SMTT(30) DEF CreateRunDirectory, CreateOwner, WriteOwner, Fault, NoFault
<1>journal. SameJournal(r)
  BY <1>same DEF SameJournal, Recorded, Holds, Chain, Whole, LastState
<1>moves. \/ Moves(r, "runDir", "owner")
          \/ Moves(r, "runDir", "exit") /\ faults' # 0
          \/ Moves(r, "owner", "ownerWrite") /\ dir' = dir
          \/ Moves(r, "owner", "exit") /\ faults' # 0 /\ dir' = dir
          \/ Moves(r, "ownerWrite", "created") /\ owner'[r] = "whole" /\ dir' = dir
          \/ Moves(r, "ownerWrite", "exit") /\ faults' # 0 /\ dir' = dir
  <2>1. CASE CreateRunDirectory(r)
    BY <2>1, <1>pc, <1>faults, SMTT(30) DEF Moves, CreateRunDirectory, Goto, Return, Fault,
       NoFault
  <2>2. CASE CreateOwner(r)
    BY <2>2, <1>pc, <1>dir, <1>faults, SMTT(30) DEF Moves, CreateOwner, Goto, Return, Fault,
       NoFault
  <2>3. CASE WriteOwner(r)
    BY <2>3, <1>pc, <1>dir, <1>owner, <1>faults, SMTT(30)
       DEF Moves, WriteOwner, Goto, Return, Fault, NoFault
  <2>4. QED
    BY <2>1, <2>2, <2>3
<1>others. Others(r)
  <2>1. \A q \in Run : q # r => pc'[q] = pc[q]
    BY <1>pc DEF CreateRunDirectory, CreateOwner, WriteOwner, Goto, Return
  <2>2. \A q \in Run : q # r => dir'[q] = dir[q]
    BY <1>dir DEF CreateRunDirectory, CreateOwner, WriteOwner
  <2>3. \A q \in Run : q # r => owner'[q] = owner[q]
    BY <1>owner DEF CreateRunDirectory, CreateOwner, WriteOwner
  <2>4. \A q \in Run : q # r => result'[q] = result[q]
    BY <1>result DEF CreateRunDirectory, CreateOwner, WriteOwner, Return
  <2>5. RootKept
    BY <1>root DEF RootKept, CreateRunDirectory, CreateOwner, WriteOwner
  <2>6. QED
    BY <2>1, <2>2, <2>3, <2>4, <2>5, <1>same, <1>time DEF Others, Untouched
<1>extra. root'.marker = root.marker /\ root'.token = root.token
  BY <1>root DEF CreateRunDirectory, CreateOwner, WriteOwner
<1>1. Token(r)'
  BY <1>moves, <1>same, <1>extra DEF RunInv, Token, Moves
<1>2. Replays(r)'
  BY <1>moves, <1>same, <1>extra, <1>journal
     DEF RunInv, Replays, Pending, Early, SameJournal, Moves
<1>3. Slot(r)'
  BY <1>moves, <1>same, <1>extra DEF RunInv, Slot, Early, Preparing, Moves
<1>4. Published(r)'
  BY <1>moves, <1>same, <1>extra, <1>journal
     DEF RunInv, Published, Ended, Over, SameJournal, Moves
<1>5. Terminal(r)'
  BY <1>moves, <1>same, <1>extra, RecordedHolds, <1>journal
     DEF RunInv, Terminal, Ended, Over, SameJournal, Moves
<1>6. Sound(r)'
  BY <1>moves, <1>same, <1>extra, <1>time
     DEF RunInv, Sound, Undisturbed, Early, Token, Replays, Moves
<1>7. Current(r)'
  BY <1>moves, <1>same, <1>extra, <1>time, <1>journal
     DEF RunInv, Current, Undisturbed, Ends, Early, Preparing, State, Token, Replays,
         SameJournal, Moves
<1>8. QED
  BY <1>1, <1>2, <1>3, <1>4, <1>5, <1>6, <1>7, <1>others DEF RunInv

\* The commit and the reservation, up to the directory of the snapshot.
LEMMA SourceSteps ==
  ASSUME TypeOK, NEW r \in Run, RunInv(r),
         Resolve(r) \/ Reserve(r) \/ StartSnapshot(r)
  PROVE  RunInv(r)' /\ Others(r)
<1>pc. pc \in [Run -> Places]
  BY DEF TypeOK, Places
<1>result. result \in [Run -> {"none", "ok", "err", "unjournaled"}]
  BY DEF TypeOK, StoreTypeOK
<1>snap. snap \in [Run -> BOOLEAN]
  BY DEF TypeOK, StoreTypeOK
<1>faults. faults \in Nat
  BY FaultsAssumption, SMTT(30) DEF TypeOK
<1>same. UNCHANGED <<root, token, dir, owner, binding, entries, kind, primary, adm, receipt>>
  BY DEF Resolve, Reserve, StartSnapshot, Return, GiveUp, run
<1>time. faults' = 0 => faults = 0
  BY <1>faults DEF Resolve, Reserve, StartSnapshot, Fault, NoFault
<1>journal. SameJournal(r)
  BY <1>same DEF SameJournal, Recorded, Holds, Chain, Whole, LastState
<1>moves. \/ Moves(r, "resolve", "reserve")
          \/ Moves(r, "resolve", "failed")
          \/ Moves(r, "resolve", "exit") /\ result'[r] = "unjournaled"
          \/ Moves(r, "reserve", "materialize")
          \/ Moves(r, "reserve", "failed")
          \/ Moves(r, "materialize", "copy")
          \/ Moves(r, "materialize", "failed")
  <2>1. CASE Resolve(r)
    BY <2>1, <1>pc, <1>result DEF Moves, Resolve, Goto, Return, GiveUp
  <2>2. CASE Reserve(r)
    BY <2>2, <1>pc DEF Moves, Reserve, Goto, run
  <2>3. CASE StartSnapshot(r)
    BY <2>3, <1>pc DEF Moves, StartSnapshot, Goto
  <2>4. QED
    BY <2>1, <2>2, <2>3
<1>others. Others(r)
  <2>1. \A q \in Run : q # r => pc'[q] = pc[q]
    BY <1>pc DEF Resolve, Reserve, StartSnapshot, Goto, Return, GiveUp
  <2>2. \A q \in Run : q # r => result'[q] = result[q]
    BY <1>result DEF Resolve, Reserve, StartSnapshot, Return, GiveUp, run
  <2>3. \A q \in Run : q # r => snap'[q] = snap[q]
    BY <1>snap DEF Resolve, Reserve, StartSnapshot, run
  <2>4. QED
    BY <2>1, <2>2, <2>3, <1>same, <1>time DEF Others, Untouched, RootKept
<1>1. Token(r)'
  BY <1>moves, <1>same DEF RunInv, Token, Moves
<1>2. Replays(r)'
  BY <1>moves, <1>same, <1>journal DEF RunInv, Replays, Pending, Early, SameJournal, Moves
<1>3. Slot(r)'
  BY <1>moves, <1>same DEF RunInv, Slot, Early, Preparing, Moves
<1>4. Published(r)'
  BY <1>moves, <1>same, <1>journal DEF RunInv, Published, Ended, Over, SameJournal, Moves
<1>5. Terminal(r)'
  BY <1>moves, <1>same, RecordedHolds, <1>journal
     DEF RunInv, Terminal, Ended, Over, SameJournal, Moves
<1>6. Sound(r)'
  BY <1>moves, <1>same, <1>time DEF RunInv, Sound, Undisturbed, Early, Moves
<1>7. Current(r)'
  <2>1. CASE pc'[r] # "exit"
    BY <2>1, <1>moves, <1>same, <1>time, <1>journal
       DEF RunInv, Current, Undisturbed, Ends, Early, Preparing, State, SameJournal, Moves
  <2>2. CASE pc'[r] = "exit"
    <3>1. pc[r] = "resolve" /\ result'[r] = "unjournaled"
      BY <2>2, <1>moves DEF Moves
    <3>2. adm'[r] = "none" /\ ~receipt'[r]
      BY <3>1, <1>same DEF RunInv, Slot, Published, Preparing, Ended, Over
    <3>3. Undisturbed(r)' => Undisturbed(r)
      BY <3>1, <1>same, <1>time DEF Undisturbed, Early
    <3>4. Undisturbed(r) => Whole(r)' /\ LastState(r)' = "created"
      BY <3>1, <1>journal DEF RunInv, Current, Ends, Preparing, State, SameJournal
    <3>5. Undisturbed(r)' => Ends(r)'
      BY <2>2, <3>1, <3>2, <3>3, <3>4 DEF Ends, Preparing, LastWord
    <3>6. QED
      BY <3>3, <3>4, <3>5 DEF Current
  <2>3. QED
    BY <2>1, <2>2
<1>8. QED
  BY <1>1, <1>2, <1>3, <1>4, <1>5, <1>6, <1>7, <1>others DEF RunInv

\* The copy and its overlay, which may recreate a directory moved away.
LEMMA SnapshotSteps ==
  ASSUME TypeOK, NEW r \in Run, RunInv(r),
         CopySnapshot(r) \/ Overlay(r)
  PROVE  RunInv(r)' /\ Others(r)
<1>pc. pc \in [Run -> Places]
  BY DEF TypeOK, Places
<1>dir. dir \in [Run -> {"none", "live", "quarantined", "recreated"}]
  BY DEF TypeOK, StoreTypeOK
<1>snap. snap \in [Run -> BOOLEAN]
  BY DEF TypeOK, StoreTypeOK
<1>faults. faults \in Nat
  BY FaultsAssumption, SMTT(30) DEF TypeOK
<1>same. UNCHANGED <<root, token, owner, binding, entries, kind, primary, adm, receipt, result>>
  BY DEF CopySnapshot, Overlay, run
<1>time. faults' = 0 => faults = 0
  BY <1>faults DEF CopySnapshot, Overlay, Fault, NoFault
<1>journal. SameJournal(r)
  BY <1>same DEF SameJournal, Recorded, Holds, Chain, Whole, LastState
<1>moves. \/ Moves(r, "copy", "overlay")
          \/ Moves(r, "copy", "failed")
          \/ Moves(r, "overlay", "bind")
          \/ Moves(r, "overlay", "failed")
  <2>1. CASE CopySnapshot(r)
    BY <2>1, <1>pc DEF Moves, CopySnapshot, Goto, Recreated
  <2>2. CASE Overlay(r)
    BY <2>2, <1>pc DEF Moves, Overlay, Goto, run, Recreated
  <2>3. QED
    BY <2>1, <2>2
<1>others. Others(r)
  <2>1. \A q \in Run : q # r => pc'[q] = pc[q]
    BY <1>pc DEF CopySnapshot, Overlay, Goto
  <2>2. \A q \in Run : q # r => dir'[q] = dir[q]
    BY <1>dir DEF CopySnapshot, Overlay, Recreated
  <2>3. \A q \in Run : q # r => snap'[q] = snap[q]
    BY <1>snap DEF CopySnapshot, Overlay, run
  <2>4. QED
    BY <2>1, <2>2, <2>3, <1>same, <1>time DEF Others, Untouched, RootKept
<1>extra. dir'[r] = dir[r] \/ (dir[r] = "quarantined" /\ dir'[r] = "recreated")
  BY <1>dir DEF CopySnapshot, Overlay, Recreated, run
<1>1. Token(r)'
  BY <1>moves, <1>same, <1>extra DEF RunInv, Token, Moves
<1>2. Replays(r)'
  BY <1>moves, <1>same, <1>extra, <1>journal
     DEF RunInv, Replays, Pending, Early, SameJournal, Moves
<1>3. Slot(r)'
  BY <1>moves, <1>same, <1>extra DEF RunInv, Slot, Early, Preparing, Moves
<1>4. Published(r)'
  BY <1>moves, <1>same, <1>extra, <1>journal
     DEF RunInv, Published, Ended, Over, SameJournal, Moves
<1>5. Terminal(r)'
  BY <1>moves, <1>same, <1>extra, RecordedHolds, <1>journal
     DEF RunInv, Terminal, Ended, Over, SameJournal, Moves
<1>6. Sound(r)'
  BY <1>moves, <1>same, <1>extra, <1>time DEF RunInv, Sound, Undisturbed, Early, Moves
<1>7. Current(r)'
  BY <1>moves, <1>same, <1>extra, <1>time, <1>journal
     DEF RunInv, Current, Undisturbed, Ends, Early, Preparing, State, SameJournal, Moves
<1>8. QED
  BY <1>1, <1>2, <1>3, <1>4, <1>5, <1>6, <1>7, <1>others DEF RunInv

\* The source binding and the coordinator.
LEMMA BindingSteps ==
  ASSUME TypeOK, NEW r \in Run, RunInv(r),
         CreateBinding(r) \/ WriteBinding(r) \/ OpenAdmission(r)
  PROVE  RunInv(r)' /\ Others(r)
<1>pc. pc \in [Run -> Places]
  BY DEF TypeOK, Places
<1>binding. binding \in [Run -> File]
  BY DEF TypeOK, StoreTypeOK
<1>result. result \in [Run -> {"none", "ok", "err", "unjournaled"}]
  BY DEF TypeOK, StoreTypeOK
<1>faults. faults \in Nat
  BY FaultsAssumption, SMTT(30) DEF TypeOK
<1>same. UNCHANGED <<root, token, dir, owner, entries, kind, primary, adm, snap, receipt>>
  BY DEF CreateBinding, WriteBinding, OpenAdmission, run, Return, GiveUp
<1>time. faults' = 0 => faults = 0
  BY <1>faults DEF CreateBinding, WriteBinding, OpenAdmission, Fault, NoFault
<1>journal. SameJournal(r)
  BY <1>same DEF SameJournal, Recorded, Holds, Chain, Whole, LastState
<1>moves. \/ Moves(r, "bind", "bindWrite")
          \/ Moves(r, "bind", "failed") /\ binding' = binding
          \/ Moves(r, "bindWrite", "admission") /\ binding'[r] = "whole"
          \/ Moves(r, "bindWrite", "failed") /\ (binding'[r] = "whole" \/ faults' # 0)
          \/ Moves(r, "admission", "acquire") /\ binding' = binding
          \/ Moves(r, "admission", "failed") /\ binding' = binding
          \/ Moves(r, "admission", "exit") /\ binding' = binding /\ result'[r] = "unjournaled"
  <2>1. CASE CreateBinding(r)
    BY <2>1, <1>pc, <1>binding DEF Moves, CreateBinding, Goto, run
  <2>2. CASE WriteBinding(r)
    BY <2>2, <1>pc, <1>binding, <1>faults, SMTT(30) DEF Moves, WriteBinding, Goto, run, Fault,
       NoFault
  <2>3. CASE OpenAdmission(r)
    BY <2>3, <1>pc, <1>binding, <1>result DEF Moves, OpenAdmission, Goto, Return, GiveUp
  <2>4. QED
    BY <2>1, <2>2, <2>3
<1>others. Others(r)
  <2>1. \A q \in Run : q # r => pc'[q] = pc[q]
    BY <1>pc DEF CreateBinding, WriteBinding, OpenAdmission, Goto, Return, GiveUp
  <2>2. \A q \in Run : q # r => binding'[q] = binding[q]
    BY <1>binding DEF CreateBinding, WriteBinding, OpenAdmission, run
  <2>3. \A q \in Run : q # r => result'[q] = result[q]
    BY <1>result DEF CreateBinding, WriteBinding, OpenAdmission, run, Return, GiveUp
  <2>4. QED
    BY <2>1, <2>2, <2>3, <1>same, <1>time DEF Others, Untouched, RootKept
<1>1. Token(r)'
  BY <1>moves, <1>same DEF RunInv, Token, Moves
<1>2. Replays(r)'
  BY <1>moves, <1>same, <1>journal DEF RunInv, Replays, Pending, Early, SameJournal, Moves
<1>3. Slot(r)'
  BY <1>moves, <1>same DEF RunInv, Slot, Early, Preparing, Moves
<1>4. Published(r)'
  BY <1>moves, <1>same, <1>journal DEF RunInv, Published, Ended, Over, SameJournal, Moves
<1>5. Terminal(r)'
  BY <1>moves, <1>same, RecordedHolds, <1>journal
     DEF RunInv, Terminal, Ended, Over, SameJournal, Moves
<1>6. Sound(r)'
  BY <1>moves, <1>same, <1>time DEF RunInv, Sound, Undisturbed, Early, Moves
<1>7. Current(r)'
  <2>1. CASE pc'[r] # "exit"
    BY <2>1, <1>moves, <1>same, <1>time, <1>journal
       DEF RunInv, Current, Undisturbed, Ends, Early, Preparing, State, SameJournal, Moves
  <2>2. CASE pc'[r] = "exit"
    <3>1. pc[r] = "admission" /\ result'[r] = "unjournaled"
      BY <2>2, <1>moves DEF Moves
    <3>2. adm'[r] = "none" /\ ~receipt'[r]
      BY <3>1, <1>same DEF RunInv, Slot, Published, Preparing, Ended, Over
    <3>3. Undisturbed(r)' => Undisturbed(r)
      BY <3>1, <1>same, <1>time DEF Undisturbed, Early
    <3>4. Undisturbed(r) => Whole(r)' /\ LastState(r)' = "created"
      BY <3>1, <1>journal DEF RunInv, Current, Ends, Preparing, State, SameJournal
    <3>5. Undisturbed(r)' => Ends(r)'
      BY <2>2, <3>1, <3>2, <3>3, <3>4 DEF Ends, Preparing, LastWord
    <3>6. QED
      BY <3>3, <3>4, <3>5 DEF Current
  <2>3. QED
    BY <2>1, <2>2
<1>8. QED
  BY <1>1, <1>2, <1>3, <1>4, <1>5, <1>6, <1>7, <1>others DEF RunInv

\* From the acquisition of the slot to the verdict.
LEMMA CheckSteps ==
  ASSUME TypeOK, NEW r \in Run, RunInv(r),
         Acquire(r) \/ AcquireFails(r) \/ PreStart(r) \/ Check(r)
  PROVE  RunInv(r)' /\ Others(r)
<1>pc. pc \in [Run -> Places]
  BY DEF TypeOK, Places
<1>adm. adm \in [Run -> {"none", "held", "released", "uncertain", "lost"}]
  BY DEF TypeOK, StoreTypeOK
<1>primary. primary \in [Run -> {"none", "ok", "err", "unadmitted"}]
  BY DEF TypeOK, StoreTypeOK
<1>faults. faults \in Nat
  BY FaultsAssumption, SMTT(30) DEF TypeOK
<1>same. UNCHANGED <<root, token, dir, owner, binding, entries, kind, snap, receipt, result>>
  BY DEF Acquire, AcquireFails, PreStart, Check, GiveUp, Finalize, run
<1>time. faults' = 0 => faults = 0
  BY <1>faults DEF Acquire, AcquireFails, PreStart, Check, Fault, NoFault
<1>journal. SameJournal(r)
  BY <1>same DEF SameJournal, Recorded, Holds, Chain, Whole, LastState
<1>moves. \/ Moves(r, "acquire", "admitted") /\ adm'[r] = "held"
          \/ Moves(r, "acquire", "failed") /\ adm' = adm
          \/ Moves(r, "prestart", "prepared") /\ adm' = adm
          \/ Moves(r, "prestart", "release") /\ primary'[r] = "err" /\ adm' = adm
          \/ Moves(r, "check", "finalizing") /\ kind[r] = "run" /\ adm' = adm
          \/ Moves(r, "check", "release") /\ primary'[r] = "ok" /\ kind[r] = "matrix" /\ adm' = adm
          \/ Moves(r, "check", "release") /\ primary'[r] = "err" /\ adm' = adm
  <2>1. CASE Acquire(r)
    BY <2>1, <1>pc, <1>adm DEF Moves, Acquire, Goto
  <2>2. CASE AcquireFails(r)
    BY <2>2, <1>pc, <1>adm DEF Moves, AcquireFails, Goto, GiveUp
  <2>3. CASE PreStart(r)
    BY <2>3, <1>pc, <1>adm, <1>primary DEF Moves, PreStart, Goto, Finalize
  <2>4. CASE Check(r)
    BY <2>4, <1>pc, <1>adm, <1>primary DEF Moves, Check, Goto, Finalize, run
  <2>5. QED
    BY <2>1, <2>2, <2>3, <2>4
<1>others. Others(r)
  <2>1. \A q \in Run : q # r => pc'[q] = pc[q]
    BY <1>pc DEF Acquire, AcquireFails, PreStart, Check, Goto, GiveUp, Finalize
  <2>2. \A q \in Run : q # r => adm'[q] = adm[q]
    BY <1>adm DEF Acquire, AcquireFails, PreStart, Check, run
  <2>3. \A q \in Run : q # r => primary'[q] = primary[q]
    BY <1>primary DEF Acquire, AcquireFails, PreStart, Check, Finalize, run
  <2>4. QED
    BY <2>1, <2>2, <2>3, <1>same, <1>time DEF Others, Untouched, RootKept
<1>1. Token(r)'
  BY <1>moves, <1>same DEF RunInv, Token, Moves
<1>2. Replays(r)'
  BY <1>moves, <1>same, <1>journal DEF RunInv, Replays, Pending, Early, SameJournal, Moves
<1>3. Slot(r)'
  BY <1>moves, <1>same DEF RunInv, Slot, Early, Preparing, Moves
<1>4. Published(r)'
  BY <1>moves, <1>same, <1>journal DEF RunInv, Published, Ended, Over, SameJournal, Moves
<1>5. Terminal(r)'
  BY <1>moves, <1>same, RecordedHolds, <1>journal
     DEF RunInv, Terminal, Ended, Over, SameJournal, Moves
<1>6. Sound(r)'
  BY <1>moves, <1>same, <1>time DEF RunInv, Sound, Undisturbed, Early, Moves
<1>7. Current(r)'
  BY <1>moves, <1>same, <1>time, <1>journal
     DEF RunInv, Current, Undisturbed, Ends, Early, Preparing, State, SameJournal, Moves
<1>8. QED
  BY <1>1, <1>2, <1>3, <1>4, <1>5, <1>6, <1>7, <1>others DEF RunInv

\* The receipt, and the release of the slot.
LEMMA PublishSteps ==
  ASSUME TypeOK, NEW r \in Run, RunInv(r),
         Publish(r) \/ Release(r)
  PROVE  RunInv(r)' /\ Others(r)
<1>pc. pc \in [Run -> Places]
  BY DEF TypeOK, Places
<1>receipt. receipt \in [Run -> BOOLEAN]
  BY DEF TypeOK, StoreTypeOK
<1>adm. adm \in [Run -> {"none", "held", "released", "uncertain", "lost"}]
  BY DEF TypeOK, StoreTypeOK
<1>primary. primary \in [Run -> {"none", "ok", "err", "unadmitted"}]
  BY DEF TypeOK, StoreTypeOK
<1>faults. faults \in Nat
  BY FaultsAssumption, SMTT(30) DEF TypeOK
<1>same. UNCHANGED <<root, token, dir, owner, binding, entries, kind, snap, result>>
  BY DEF Publish, Release, Finalize, run
<1>kind. kind[r] \in {"run", "matrix"}
  BY DEF TypeOK
<1>time. faults' = 0 => faults = 0
  BY <1>faults DEF Publish, Release, Fault, NoFault
<1>journal. SameJournal(r)
  BY <1>same DEF SameJournal, Recorded, Holds, Chain, Whole, LastState
<1>moves. \/ Moves(r, "publish", "release") /\ kind[r] = "run" /\ receipt'[r]
             /\ primary'[r] = "ok" /\ adm' = adm
          \/ Moves(r, "publish", "sealed") /\ kind[r] = "matrix" /\ receipt'[r] /\ adm' = adm
          \/ Moves(r, "publish", "release") /\ kind[r] = "run" /\ receipt' = receipt
             /\ primary'[r] = "err" /\ adm' = adm
          \/ Moves(r, "publish", "failed") /\ kind[r] = "matrix" /\ receipt' = receipt /\ adm' = adm
          \/ /\ receipt' = receipt /\ primary' = primary
             /\ \/ Moves(r, "release", "cleanup") /\ primary[r] = "ok" /\ adm'[r] = "released"
                \/ Moves(r, "release", "failed") /\ primary[r] # "ok" /\ adm'[r] = "released"
                \/ Moves(r, "release", "cleanup_pending") /\ faults' # 0
  <2>1. CASE Publish(r)
    BY <2>1, <1>pc, <1>receipt, <1>adm, <1>primary DEF Moves, Publish, Goto, Finalize, run
  <2>2. CASE Release(r)
    BY <2>2, <1>pc, <1>receipt, <1>adm, <1>primary, <1>faults, SMTT(30)
       DEF Moves, Release, Goto, Fault, NoFault
  <2>3. QED
    BY <2>1, <2>2
<1>others. Others(r)
  <2>1. \A q \in Run : q # r => pc'[q] = pc[q]
    BY <1>pc DEF Publish, Release, Goto, Finalize
  <2>2. \A q \in Run : q # r => receipt'[q] = receipt[q]
    BY <1>receipt DEF Publish, Release, run
  <2>3. \A q \in Run : q # r => adm'[q] = adm[q]
    BY <1>adm DEF Publish, Release, run
  <2>4. \A q \in Run : q # r => primary'[q] = primary[q]
    BY <1>primary DEF Publish, Release, Finalize, run
  <2>5. QED
    BY <2>1, <2>2, <2>3, <2>4, <1>same, <1>time DEF Others, Untouched, RootKept
<1>1. Token(r)'
  BY <1>moves, <1>same DEF RunInv, Token, Moves
<1>2. Replays(r)'
  BY <1>moves, <1>same, <1>journal DEF RunInv, Replays, Pending, Early, SameJournal, Moves
<1>3. Slot(r)'
  BY <1>moves, <1>same DEF RunInv, Slot, Early, Preparing, Moves
<1>4. Published(r)'
  BY <1>moves, <1>same, <1>kind, <1>journal
     DEF RunInv, Published, Ended, Over, Slot, SameJournal, Moves
<1>5. Terminal(r)'
  BY <1>moves, <1>same, RecordedHolds, <1>journal
     DEF RunInv, Terminal, Ended, Over, SameJournal, Moves
<1>6. Sound(r)'
  BY <1>moves, <1>same, <1>time DEF RunInv, Sound, Undisturbed, Early, Moves
<1>7. Current(r)'
  BY <1>moves, <1>same, <1>time, <1>journal
     DEF RunInv, Current, Undisturbed, Ends, Early, Preparing, State, SameJournal, Moves
<1>8. QED
  BY <1>1, <1>2, <1>3, <1>4, <1>5, <1>6, <1>7, <1>others DEF RunInv

\* The cleanup, the exit and the crash.
LEMMA EndSteps ==
  ASSUME TypeOK, NEW r \in Run, RunInv(r),
         Cleanup(r) \/ Exit(r) \/ Crash(r)
  PROVE  RunInv(r)' /\ Others(r)
<1>pc. pc \in [Run -> Places]
  BY DEF TypeOK, Places
<1>snap. snap \in [Run -> BOOLEAN]
  BY DEF TypeOK, StoreTypeOK
<1>adm. adm \in [Run -> {"none", "held", "released", "uncertain", "lost"}]
  BY DEF TypeOK, StoreTypeOK
<1>faults. faults \in Nat
  BY FaultsAssumption, SMTT(30) DEF TypeOK
<1>same. UNCHANGED <<root, token, dir, owner, binding, entries, kind, primary, receipt, result>>
  BY DEF Cleanup, Exit, Crash, run
<1>kind. kind[r] \in {"run", "matrix"}
  BY DEF TypeOK
<1>time. faults' = 0 => faults = 0
  BY <1>faults DEF Cleanup, Exit, Crash, Fault, NoFault
<1>journal. SameJournal(r)
  BY <1>same DEF SameJournal, Recorded, Holds, Chain, Whole, LastState
<1>moves. \/ /\ adm' = adm
             /\ \/ Moves(r, "cleanup", "sealed") /\ kind[r] = "run" /\ ~snap'[r]
                \/ Moves(r, "cleanup", "finalizing") /\ kind[r] # "run" /\ ~snap'[r]
                \/ Moves(r, "cleanup", "cleanup_pending") /\ (dir[r] # "live" \/ faults' # 0)
          \/ Moves(r, "exit", "done") /\ adm' = adm /\ (~snap'[r] \/ (snap' = snap /\ (dir[r] # "live" \/ faults' # 0)))
          \/ Moves(r, pc[r], "dead") /\ faults' # 0 /\ snap' = snap /\ (adm' = adm \/ adm[r] = "held")
  <2>1. CASE Cleanup(r)
    BY <2>1, <1>pc, <1>snap, <1>adm, <1>faults, SMTT(30) DEF Moves, Cleanup, Goto, run, Fault,
       NoFault
  <2>2. CASE Exit(r)
    BY <2>2, <1>pc, <1>snap, <1>adm, <1>faults DEF Moves, Exit, Goto, Fault, NoFault
  <2>3. CASE Crash(r)
    BY <2>3, <1>pc, <1>snap, <1>adm, <1>faults, SMTT(30) DEF Moves, Crash, Goto, Fault
  <2>4. QED
    BY <2>1, <2>2, <2>3
<1>others. Others(r)
  <2>1. \A q \in Run : q # r => pc'[q] = pc[q]
    BY <1>pc DEF Cleanup, Exit, Crash, Goto
  <2>2. \A q \in Run : q # r => snap'[q] = snap[q]
    BY <1>snap DEF Cleanup, Exit, Crash, run
  <2>3. \A q \in Run : q # r => adm'[q] = adm[q]
    BY <1>adm DEF Cleanup, Exit, Crash, run
  <2>4. QED
    BY <2>1, <2>2, <2>3, <1>same, <1>time DEF Others, Untouched, RootKept
<1>1. Token(r)'
  BY <1>moves, <1>same DEF RunInv, Token, Moves
<1>2. Replays(r)'
  BY <1>moves, <1>same, <1>journal DEF RunInv, Replays, Pending, Early, SameJournal, Moves
<1>3. Slot(r)'
  BY <1>moves, <1>same DEF RunInv, Slot, Early, Preparing, Moves
<1>4. Published(r)'
  BY <1>moves, <1>same, <1>kind, <1>journal
     DEF RunInv, Published, Ended, Over, Slot, SameJournal, Moves
<1>5. Terminal(r)'
  BY <1>moves, <1>same, RecordedHolds, <1>journal
     DEF RunInv, Terminal, Ended, Over, SameJournal, Moves
<1>6. Sound(r)'
  BY <1>moves, <1>same, <1>time DEF RunInv, Sound, Undisturbed, Early, Moves
<1>7. Current(r)'
  BY <1>moves, <1>same, <1>time, <1>journal
     DEF RunInv, Current, Undisturbed, Ends, Early, Preparing, State, SameJournal, Moves
<1>8. QED
  BY <1>1, <1>2, <1>3, <1>4, <1>5, <1>6, <1>7, <1>others DEF RunInv

-----------------------------------------------------------------------------
(* Steps of the journal.                                                   *)

\* The transitions that the command makes when nothing fails are legal, and so are
\* the two that end it from any state in progress.
LEMMA LegalNext ==
  /\ \A s \in {"created", "admitted", "prepared", "executing", "finalizing"} :
        "cleanup_pending" \in Legal(s) /\ "failed" \in Legal(s)
  /\ "admitted" \in Legal("created") /\ "prepared" \in Legal("admitted")
  /\ "executing" \in Legal("prepared") /\ "finalizing" \in Legal("executing")
  /\ "sealed" \in Legal("finalizing")
BY SMTT(30) DEF Legal

\* Opening an entry that the store accepts.
LEMMA Begun ==
  ASSUME TypeOK, NEW r \in Run, Replays(r), pc[r] \in State, ~Pending(r), Accepted(r),
         OpenEntry(r, pc[r]), pc' = pc
  PROVE  /\ Chain(r)' /\ Pending(r)'
         /\ \A s : Recorded(r, s)' <=> Recorded(r, s)
         /\ \A s : Holds(r, s)' => Holds(r, s) \/ s = pc[r]
<1> DEFINE e == entries[r]
           n == Len(entries[r])
<1>1. /\ e \in Seq(Entry) /\ n \in Nat
      /\ entries'[r] \in Seq(Entry)
      /\ Len(entries'[r]) = n + 1
      /\ \A i \in 1..n : entries'[r][i] = e[i]
      /\ entries'[r][n + 1] = [state |-> pc[r], whole |-> FALSE]
  BY Opened, SMTT(30) DEF TypeOK, StoreTypeOK
<1>2. DOMAIN e = 1..n /\ DOMAIN entries'[r] = 1..n + 1
  BY <1>1, SMTT(30)
<1>3. Pending(r)'
  BY <1>1, SMTT(30) DEF Pending
<1>4. ASSUME NEW s PROVE Recorded(r, s)' <=> Recorded(r, s)
  <2>1. \A i \in 1..n + 1 : i \in 1..n \/ i = n + 1
    BY <1>1, SMTT(30)
  <2>2. \A i \in 1..n : i \in 1..n + 1
    BY <1>1, SMTT(30)
  <2>3. entries'[r][n + 1] # [state |-> s, whole |-> TRUE]
    <3>1. [state |-> pc[r], whole |-> FALSE] # [state |-> s, whole |-> TRUE]
      BY SMTT(30)
    <3>2. QED
      BY <1>1, <3>1, Zenon
  <2>4. QED
    BY <1>1, <1>2, <2>1, <2>2, <2>3, Zenon DEF Recorded
<1>5. ASSUME NEW s, Holds(r, s)' PROVE Holds(r, s) \/ s = pc[r]
  BY <1>1, <1>2, <1>5, SMTT(30) DEF Holds
<1>6. Chain(r)'
  <2>1. CASE pc[r] = "created"
    <3>1. n = 0
      BY <2>1, <1>1, SMTT(30) DEF Replays
    <3>2. QED
      BY <3>1, <2>1, <1>1, SMTT(30) DEF Chain
  <2>2. CASE pc[r] # "created"
    <3>1. Readable(r) /\ pc[r] \in Legal(LastState(r))
      BY <2>2, LegalNext DEF Accepted, Accepts, AcceptsLateCleanup
    <3>2. /\ n > 0 /\ e[1].state = "created"
          /\ \A i \in 1..n : e[i].whole
          /\ \A i \in 1..n - 1 : e[i + 1].state \in Legal(e[i].state)
      <4>1. n > 0
        BY <3>1, <1>1, SMTT(30) DEF Readable
      <4>2. QED
        BY <3>1, <4>1, <1>2, Zenon DEF Readable
    <3>3. entries'[r][1].state = "created"
      BY <3>2, <1>1, SMTT(30)
    <3>4. ASSUME NEW i \in 1..n
          PROVE  entries'[r][i].whole /\ entries'[r][i + 1].state \in Legal(entries'[r][i].state)
      <4>1. CASE i < n
        <5>1. i \in 1..n - 1 /\ i \in 1..n /\ i + 1 \in 1..n
          BY <4>1, <1>1, SMTT(30)
        <5>2. entries'[r][i] = e[i] /\ entries'[r][i + 1] = e[i + 1]
          BY <5>1, <1>1, Zenon
        <5>3. QED
          BY <5>1, <5>2, <3>2, Zenon
      <4>2. CASE i = n
        BY <4>2, <3>1, <3>2, <1>1, SMTT(30) DEF LastState
      <4>3. QED
        BY <4>1, <4>2, <1>1, SMTT(30)
    <3>5. QED
      BY <3>3, <3>4, <1>1, SMTT(30) DEF Chain
  <2>3. QED
    BY <2>1, <2>2
<1>7. QED
  BY <1>3, <1>4, <1>5, <1>6

\* Writing the entry that is open.
LEMMA Finished ==
  ASSUME TypeOK, NEW r \in Run, Replays(r), Pending(r), WriteEntry(r)
  PROVE  /\ Chain(r)' /\ Whole(r)' /\ LastState(r)' = pc[r]
         /\ \A s : Recorded(r, s)' <=> Recorded(r, s) \/ s = pc[r]
         /\ \A s : Holds(r, s)' <=> Holds(r, s)
<1> DEFINE e == entries[r]
           n == Len(entries[r])
           f == entries'[r]
<1>1. e # <<>> /\ LastState(r) = pc[r]
  BY SMTT(30) DEF Pending, LastState
<1>2. /\ e \in Seq(Entry) /\ n \in Nat \ {0} /\ f \in Seq(Entry)
      /\ Len(f) = n
      /\ \A i \in 1..n - 1 : f[i] = e[i]
      /\ f[n].state = pc[r] /\ e[n].state = pc[r]
      /\ f[n].whole
  BY <1>1, Written, SMTT(30) DEF TypeOK, StoreTypeOK, LastState
<1>3. DOMAIN e = 1..n /\ DOMAIN f = 1..n
  BY <1>2, SMTT(30)
<1>4. \A i \in 1..n : f[i].state = e[i].state
  BY <1>2, SMTT(30)
<1>5. Whole(r)' /\ LastState(r)' = pc[r]
  BY <1>2, SMTT(30) DEF Whole, LastState
<1>6. f[n] = [state |-> pc[r], whole |-> TRUE]
  <2>1. f[n] \in Entry
    BY <1>2, SMTT(30)
  <2>2. QED
    BY <1>2, <2>1 DEF Entry
<1>7. ASSUME NEW s, s = pc[r] PROVE Recorded(r, s)'
  <2>1. n \in DOMAIN f
    BY <1>2, <1>3, SMTT(30)
  <2>2. QED
    BY <2>1, <1>6, <1>7, Zenon DEF Recorded
<1>8. ~e[n].whole
  BY <1>2, SMTT(30) DEF Pending
<1>9. ASSUME NEW s, Recorded(r, s) PROVE Recorded(r, s)'
  <2>1. PICK i \in 1..n : e[i] = [state |-> s, whole |-> TRUE]
    BY <1>9, <1>3 DEF Recorded
  <2>2. i # n
    BY <2>1, <1>8
  <2>3. f[i] = e[i]
    BY <2>2, <1>2, SMTT(30)
  <2>4. QED
    BY <2>1, <2>3, <1>3 DEF Recorded
<1>10. ASSUME NEW s, Recorded(r, s)' PROVE Recorded(r, s) \/ s = pc[r]
  <2>1. PICK i \in 1..n : f[i] = [state |-> s, whole |-> TRUE]
    BY <1>10, <1>3 DEF Recorded
  <2>2. CASE i = n
    BY <2>1, <2>2, <1>2, SMTT(30)
  <2>3. CASE i # n
    <3>1. f[i] = e[i]
      BY <2>3, <1>2, SMTT(30)
    <3>2. QED
      BY <2>1, <3>1, <1>3 DEF Recorded
  <2>4. QED
    BY <2>2, <2>3
<1>11. ASSUME NEW s PROVE Holds(r, s)' <=> Holds(r, s)
  BY <1>3, <1>4, Zenon DEF Holds
<1>12. Chain(r)'
  <2>1. f[1].state = "created"
    BY <1>1, <1>2, <1>4, SMTT(30) DEF Replays, Chain
  <2>2. ASSUME NEW i \in 1..n - 1 PROVE f[i].whole /\ f[i + 1].state \in Legal(f[i].state)
    <3>1. e[i].whole /\ e[i + 1].state \in Legal(e[i].state)
      BY DEF Replays, Chain
    <3>2. f[i] = e[i] /\ f[i + 1].state = e[i + 1].state
      BY <1>2, <1>4, SMTT(30)
    <3>3. QED
      BY <3>1, <3>2
  <2>3. QED
    BY <1>2, <2>1, <2>2 DEF Chain
<1>13. QED
  BY <1>5, <1>7, <1>9, <1>10, <1>11, <1>12

\* In a run in which nothing failed and that nobody recovered the store accepts every transition.
LEMMA UndisturbedAccepted ==
  ASSUME TypeOK, NEW r \in Run, RunInv(r), Undisturbed(r), pc[r] \in State, ~Pending(r)
  PROVE  Accepted(r)
<1>1. CASE pc[r] = "created"
  BY <1>1 DEF Accepted
<1>2. CASE pc[r] # "created"
  <2>1. Whole(r) /\ Ends(r)
    BY <1>2 DEF RunInv, Current
  <2>2. Owned(r) /\ binding[r] # "torn"
    BY DEF RunInv, Sound, Token, Undisturbed, Owned, State
  <2>3. \A i \in DOMAIN entries[r] : entries[r][i].whole
    BY <2>1, SMTT(30) DEF RunInv, Replays, Chain, Whole, TypeOK, StoreTypeOK
  <2>4. Readable(r)
    BY <2>1, <2>2, <2>3, Zenon DEF RunInv, Replays, Chain, Whole, Readable
  <2>5. pc[r] # "cleanup_pending"
    BY DEF RunInv, Sound
  <2>6. pc[r] \in Legal(LastState(r))
    BY <1>2, <2>1, <2>5, LegalNext DEF Ends, State, Preparing
  <2>7. QED
    BY <2>4, <2>5, <2>6 DEF Accepted, Accepts
<1>3. QED
  BY <1>1, <1>2

\* What the journal operations leave alone.
EntryKept(r) ==
    /\ UNCHANGED <<root, token, dir, owner, binding, kind, adm, snap, receipt>>
    /\ faults' = 0 => faults = 0

\* A transition returns an error only when something failed or somebody recovered the run.
LEMMA ErrorStep ==
  ASSUME TypeOK, NEW r \in Run, RunInv(r), EntryKept(r), AfterEntryError(r), Chain(r)',
         faults' # 0 \/ dir[r] # "live",
         \A s : Recorded(r, s) => Recorded(r, s)',
         \A s : Recorded(r, s)' => Recorded(r, s) \/ s = pc[r],
         \A s : Holds(r, s)' => Holds(r, s)
  PROVE  RunInv(r)'
<1>pc. pc \in [Run -> Places]
  BY DEF TypeOK, Places
<1>primary. primary \in [Run -> {"none", "ok", "err", "unadmitted"}]
  BY DEF TypeOK
<1>moves. \/ pc[r] \in {"admitted", "prepared", "executing"} /\ pc'[r] = "release" /\ primary'[r] # "ok"
          \/ Moves(r, "finalizing", "release") /\ kind[r] = "run" /\ primary'[r] # "ok"
          \/ Moves(r, "finalizing", "failed") /\ kind[r] = "matrix"
          \/ pc[r] \in {"created", "sealed", "failed", "cleanup_pending"} /\ pc'[r] = "exit"
  BY <1>pc, <1>primary DEF AfterEntryError, Goto, Return, GiveUp, Finalize, Moves
<1>same. UNCHANGED <<root, token, dir, owner, binding, kind, adm, snap, receipt>>
  BY DEF EntryKept
<1>1. Token(r)'
  BY <1>moves, <1>same DEF RunInv, Token, Moves
<1>2. Replays(r)'
  BY <1>moves DEF Replays, Moves, Early
<1>3. Slot(r)'
  BY <1>moves, <1>same DEF RunInv, Slot, Moves, Early, Preparing
<1>4. Published(r)'
  BY <1>moves, <1>same DEF RunInv, Published, Moves, Ended, Over
<1>5. Terminal(r)'
  BY <1>moves, <1>same DEF RunInv, Terminal, Published, Slot, Moves, Ended, Over
<1>6. Sound(r)' /\ Current(r)'
  BY <1>moves, <1>same DEF Sound, Current, Undisturbed, Moves, Early
<1>7. QED
  BY <1>1, <1>2, <1>3, <1>4, <1>5, <1>6 DEF RunInv

\* Journal transitions, the refused and the failed ones included, keep the
\* invariant of their run.
LEMMA EntrySteps ==
  ASSUME TypeOK, NEW r \in Run, RunInv(r),
         BeginEntry(r) \/ RefuseEntry(r) \/ FinishEntry(r) \/ FinishEntryFails(r)
  PROVE  RunInv(r)' /\ Others(r)
<1>pc. pc \in [Run -> Places]
  BY DEF TypeOK, Places
<1>faults. faults \in Nat
  BY FaultsAssumption, SMTT(30) DEF TypeOK
<1>kept. EntryKept(r)
  BY <1>faults DEF EntryKept, BeginEntry, RefuseEntry, FinishEntry, FinishEntryFails, Fault,
     NoFault, run
<1>same. UNCHANGED <<root, token, dir, owner, binding, kind, adm, snap, receipt>>
  BY <1>kept DEF EntryKept
<1>replays. Replays(r)
  BY DEF RunInv
<1>others. Others(r)
  <2>1. ASSUME NEW q \in Run, q # r PROVE pc'[q] = pc[q]
    BY <2>1, <1>pc DEF BeginEntry, RefuseEntry, FinishEntry, FinishEntryFails, AfterEntry,
       AfterEntryError, Goto, Return, GiveUp, Finalize
  <2>2. ASSUME NEW q \in Run, q # r PROVE primary'[q] = primary[q]
    BY <2>2 DEF TypeOK, BeginEntry, RefuseEntry, FinishEntry, FinishEntryFails, AfterEntry,
       AfterEntryError, Finalize, run
  <2>3. ASSUME NEW q \in Run, q # r PROVE result'[q] = result[q]
    BY <2>3 DEF TypeOK, BeginEntry, RefuseEntry, FinishEntry, FinishEntryFails, AfterEntry,
       AfterEntryError, Return, GiveUp, run
  <2>4. ASSUME NEW q \in Run, q # r PROVE entries'[q] = entries[q]
    <3>1. CASE BeginEntry(r)
      BY <2>4, <3>1, Opened DEF BeginEntry
    <3>2. CASE RefuseEntry(r)
      BY <3>2 DEF RefuseEntry
    <3>3. CASE FinishEntry(r) \/ FinishEntryFails(r)
      BY <2>4, <3>3, Written DEF FinishEntry, FinishEntryFails, Pending
    <3>4. QED
      BY <3>1, <3>2, <3>3
  <2>5. QED
    BY <2>1, <2>2, <2>3, <2>4, <1>kept DEF Others, Untouched, RootKept, EntryKept
<1>1. CASE BeginEntry(r)
  <2>1. /\ Chain(r)' /\ Pending(r)'
        /\ \A s : Recorded(r, s)' <=> Recorded(r, s)
        /\ \A s : Holds(r, s)' => Holds(r, s) \/ s = pc[r]
    BY <1>1, <1>replays, Begun DEF BeginEntry
  <2>2. pc' = pc /\ primary' = primary /\ pc[r] \in State
    BY <1>1 DEF BeginEntry, run
  <2>3. Token(r)' /\ Slot(r)'
    BY <2>2, <1>same DEF RunInv, Token, Slot
  <2>4. Replays(r)'
    BY <2>1, <2>2 DEF Replays, State, Early
  <2>5. Published(r)'
    BY <2>1, <2>2, <1>same DEF RunInv, Published
  <2>6. Terminal(r)'
    BY <2>1, <2>2, <1>same DEF RunInv, Terminal
  <2>7. Sound(r)' /\ Current(r)'
    BY <2>1, <2>2, <1>kept DEF RunInv, EntryKept, Sound, Current, Undisturbed
  <2>8. QED
    BY <2>3, <2>4, <2>5, <2>6, <2>7, <1>others DEF RunInv
<1>2. CASE RefuseEntry(r)
  <2>1. faults' # 0 \/ dir[r] # "live"
    <3>1. CASE Fault
      BY <3>1, <1>faults DEF Fault
    <3>2. CASE ~Accepted(r)
      BY <1>2, <3>2, UndisturbedAccepted, <1>kept DEF RefuseEntry, Undisturbed, EntryKept, Early,
         State
    <3>3. QED
      BY <1>2, <3>1, <3>2 DEF RefuseEntry
  <2>2. entries' = entries /\ AfterEntryError(r)
    BY <1>2 DEF RefuseEntry
  <2>3. /\ Chain(r)'
        /\ \A s : Recorded(r, s)' <=> Recorded(r, s)
        /\ \A s : Holds(r, s)' <=> Holds(r, s)
    BY <2>2, <1>replays DEF Replays, Chain, Recorded, Holds
  <2>4. QED
    BY <2>1, <2>2, <2>3, <1>kept, <1>others, ErrorStep
<1>3. CASE FinishEntryFails(r)
  <2>1. faults' # 0 /\ AfterEntryError(r)
    BY <1>3, <1>faults DEF FinishEntryFails, Fault
  <2>2. CASE WriteEntry(r)
    BY <1>3, <2>1, <2>2, <1>replays, <1>kept, <1>others, Finished, ErrorStep
       DEF FinishEntryFails
  <2>3. CASE entries' = entries
    <3>1. /\ Chain(r)'
          /\ \A s : Recorded(r, s)' <=> Recorded(r, s)
          /\ \A s : Holds(r, s)' <=> Holds(r, s)
      BY <2>3, <1>replays DEF Replays, Chain, Recorded, Holds
    <3>2. QED
      BY <2>1, <3>1, <1>kept, <1>others, ErrorStep
  <2>4. QED
    BY <1>3, <2>2, <2>3 DEF FinishEntryFails
<1>4. CASE FinishEntry(r)
  <2>1. /\ Chain(r)' /\ Whole(r)' /\ LastState(r)' = pc[r]
        /\ \A s : Recorded(r, s)' <=> Recorded(r, s) \/ s = pc[r]
        /\ \A s : Holds(r, s)' <=> Holds(r, s)
    BY <1>4, <1>replays, Finished DEF FinishEntry
  <2>2. CASE AfterEntryError(r) /\ dir[r] # "live"
    BY <2>1, <2>2, <1>kept, <1>others, ErrorStep
  <2>3. CASE AfterEntry(r)
    <3>moves. \/ Moves(r, "created", "resolve") \/ Moves(r, "admitted", "prestart")
              \/ Moves(r, "prepared", "executing") \/ Moves(r, "executing", "check")
              \/ Moves(r, "finalizing", "publish")
              \/ Moves(r, "sealed", "exit") /\ result'[r] = "ok"
              \/ Moves(r, "failed", "exit") /\ result'[r] = "err"
              \/ Moves(r, "cleanup_pending", "exit")
      BY <2>3, <1>pc DEF AfterEntry, Goto, Return, Moves, TypeOK
    <3>1. Token(r)' /\ Slot(r)'
      BY <3>moves, <1>same DEF RunInv, Token, Slot, Moves, Early, Preparing
    <3>2. Replays(r)'
      BY <3>moves, <2>1 DEF Replays, Moves, Early
    <3>3. Published(r)'
      BY <3>moves, <2>1, <1>same DEF RunInv, Published, Moves, Ended, Over
    <3>4. Terminal(r)'
      BY <3>moves, <2>1, <1>same DEF RunInv, Terminal, Published, Slot, Moves, Ended, Over
    <3>5. Sound(r)'
      BY <3>moves, <1>kept DEF RunInv, EntryKept, Sound, Undisturbed, Moves, Early
    <3>6. Current(r)'
      <4>1. CASE pc'[r] # "exit"
        BY <4>1, <3>moves, <2>1, <1>kept
           DEF RunInv, EntryKept, Sound, Current, Undisturbed, Ends, Moves, Early, Preparing
      <4>2. CASE pc'[r] = "exit"
        <5>1. Undisturbed(r)' => pc[r] # "cleanup_pending"
          BY <3>moves, <1>kept DEF RunInv, EntryKept, Sound, Undisturbed, Moves, Early
        <5>2. CASE pc[r] = "sealed"
          <6>1. result'[r] = "ok" /\ receipt'[r] /\ adm'[r] = "released"
            BY <4>2, <5>2, <3>moves, <1>same DEF RunInv, Published, Slot, Moves
          <6>2. QED
            BY <4>2, <5>2, <6>1, <2>1 DEF Current, Ends, LastWord, Preparing
        <5>3. CASE pc[r] = "failed"
          <6>1. result'[r] = "err" /\ ~receipt'[r] /\ adm'[r] \in {"none", "released"}
            BY <4>2, <5>3, <3>moves, <1>same DEF RunInv, Published, Slot, Moves, Ended, Over
          <6>2. QED
            BY <4>2, <5>3, <6>1, <2>1 DEF Current, Ends, LastWord, Preparing
        <5>4. QED
          BY <4>2, <5>1, <5>2, <5>3, <3>moves DEF Current, Moves
      <4>3. QED
        BY <4>1, <4>2
    <3>7. QED
      BY <3>1, <3>2, <3>3, <3>4, <3>5, <3>6, <1>others DEF RunInv
  <2>4. QED
    BY <1>4, <2>2, <2>3 DEF FinishEntry
<1>5. QED
  BY <1>others, <1>1, <1>2, <1>3, <1>4

-----------------------------------------------------------------------------
(* Steps of others.                                                        *)

\* A run stays as it is, but for a recovery that moves its directory.
Aside(q) ==
    /\ token'[q] = token[q] /\ owner'[q] = owner[q] /\ binding'[q] = binding[q]
    /\ entries'[q] = entries[q] /\ kind'[q] = kind[q] /\ pc'[q] = pc[q]
    /\ primary'[q] = primary[q] /\ adm'[q] = adm[q] /\ snap'[q] = snap[q]
    /\ receipt'[q] = receipt[q] /\ result'[q] = result[q]
    /\ dir'[q] = dir[q] \/ (dir[q] = "live" /\ dir'[q] = "quarantined")

\* What others do to a run keeps its invariant.
LEMMA AsideKept ==
  ASSUME NEW q \in Run, RunInv(q), Aside(q), RootKept, faults' = 0 => faults = 0
  PROVE  RunInv(q)'
<1>journal. SameJournal(q)
  BY DEF Aside, SameJournal, Recorded, Holds, Chain, Whole, LastState
<1>1. Token(q)'
  BY DEF RunInv, Token, Aside, RootKept
<1>2. Replays(q)'
  BY <1>journal DEF RunInv, Replays, Pending, SameJournal, Aside
<1>3. Slot(q)'
  BY DEF RunInv, Slot, Aside
<1>4. Published(q)'
  BY <1>journal DEF RunInv, Published, SameJournal, Aside
<1>5. Terminal(q)'
  BY <1>journal DEF RunInv, Terminal, SameJournal, Aside
<1>6. Undisturbed(q)' => Undisturbed(q)
  BY DEF Undisturbed, Aside
<1>7. Sound(q)'
  BY <1>6 DEF RunInv, Sound, Aside
<1>8. Current(q)'
  BY <1>6, <1>journal DEF RunInv, Current, Ends, Pending, SameJournal, Aside
<1>9. QED
  BY <1>1, <1>2, <1>3, <1>4, <1>5, <1>7, <1>8 DEF RunInv

\* A step of recover apply keeps the types.
LEMMA RecoverTypes ==
  ASSUME TypeOK, Recover
  PROVE  TypeOK'
<1>1. dir \in [Run -> {"none", "live", "quarantined", "recreated"}] /\ applying \in Run \cup {NoRun}
  BY DEF TypeOK, StoreTypeOK
<1>2. dir' \in [Run -> {"none", "live", "quarantined", "recreated"}] /\ applying' \in Run \cup {NoRun}
  BY <1>1 DEF Recover, ApplyReads, ApplyRenames, ApplyFails
<1>3. UNCHANGED <<root, token, owner, binding, entries, pc, faults, run>>
  BY DEF Recover, ApplyReads, ApplyRenames, ApplyFails
<1>4. QED
  BY <1>2, <1>3 DEF TypeOK, StoreTypeOK, run

\* recover apply moves the directory of a run, and touches nothing else of it.
LEMMA RecoverSteps ==
  ASSUME TypeOK, Recover, NEW q \in Run
  PROVE  Aside(q) /\ RootKept
<1>1. dir \in [Run -> {"none", "live", "quarantined", "recreated"}]
  BY DEF TypeOK, StoreTypeOK
<1>2. UNCHANGED <<root, token, owner, binding, entries, pc, faults, run>>
  BY DEF Recover, ApplyReads, ApplyRenames, ApplyFails
<1>3. dir'[q] = dir[q] \/ (dir[q] = "live" /\ dir'[q] = "quarantined")
  BY <1>1 DEF Recover, ApplyReads, ApplyRenames, ApplyFails, Owned
<1>4. QED
  BY <1>2, <1>3 DEF Aside, RootKept, run

-----------------------------------------------------------------------------
(* The invariant is inductive.                                             *)

\* No run has begun.
LEMMA InvInit ==
  ASSUME Init
  PROVE  IInv
<1>1. TypeOK
  BY FaultsAssumption, SMTT(30) DEF Init, StoreInit, TypeOK, StoreTypeOK, Steps, File
<1>2. ASSUME NEW r \in Run PROVE RunInv(r)
  <2>1. /\ pc[r] = "init" /\ dir[r] = "none" /\ entries[r] = <<>> /\ adm[r] = "none"
        /\ ~receipt[r] /\ binding[r] = "none"
    BY DEF Init, StoreInit
  <2>2. \A s : ~Holds(r, s) /\ ~Recorded(r, s)
    BY <2>1, SMTT(30) DEF Holds, Recorded
  <2>3. Chain(r)
    BY <2>1, SMTT(30) DEF Chain
  <2>4. Token(r) /\ Replays(r) /\ Slot(r)
    BY <2>1, <2>3 DEF Token, Replays, Slot, Early, Preparing
  <2>5. Published(r) /\ Terminal(r)
    BY <2>1, <2>2 DEF Published, Terminal
  <2>6. Sound(r) /\ Current(r)
    BY <2>1 DEF Sound, Current, Undisturbed
  <2>7. QED
    BY <2>4, <2>5, <2>6 DEF RunInv
<1>3. QED
  BY <1>1, <1>2 DEF IInv

\* Every step of a run keeps its invariant and stays with the run.
LEMMA RunSteps ==
  ASSUME TypeOK, NEW r \in Run, RunInv(r), Step(r) \/ Crash(r)
  PROVE  TypeOK' /\ RunInv(r)' /\ Others(r)
<1>1. TypeOK'
  BY PlainTypes, EntryTypes
<1>2. RunInv(r)' /\ Others(r)
  BY MarkerSteps, DirectorySteps, SourceSteps, SnapshotSteps, BindingSteps, CheckSteps,
     PublishSteps, EndSteps, EntrySteps DEF Step
<1>3. QED
  BY <1>1, <1>2

\* The inductive step.
LEMMA InvNext ==
  ASSUME IInv, [Next]_vars
  PROVE  IInv'
<1>1. CASE \E r \in Run : Step(r) \/ Crash(r)
  <2>1. PICK r \in Run : Step(r) \/ Crash(r)
    BY <1>1
  <2>2. TypeOK' /\ RunInv(r)' /\ Others(r)
    BY <2>1, RunSteps DEF IInv
  <2>3. ASSUME NEW q \in Run, q # r PROVE RunInv(q)'
    <3>1. Aside(q) /\ RootKept /\ (faults' = 0 => faults = 0)
      BY <2>2, <2>3 DEF Others, Untouched, Aside
    <3>2. QED
      BY <3>1, AsideKept DEF IInv
  <2>4. QED
    BY <2>2, <2>3 DEF IInv
<1>2. CASE Recover
  <2>1. faults' = 0 => faults = 0
    BY <1>2 DEF Recover
  <2>2. ASSUME NEW q \in Run PROVE RunInv(q)'
    BY <1>2, <2>1, RecoverSteps, AsideKept DEF IInv
  <2>3. QED
    BY <1>2, <2>2, RecoverTypes DEF IInv
<1>3. CASE UNCHANGED vars
  <2>1. ASSUME NEW q \in Run PROVE RunInv(q)'
    <3>1. Aside(q) /\ RootKept /\ (faults' = 0 => faults = 0)
      BY <1>3 DEF vars, Aside, RootKept
    <3>2. QED
      BY <3>1, AsideKept DEF IInv
  <2>2. TypeOK'
    BY <1>3 DEF IInv, vars, TypeOK, StoreTypeOK
  <2>3. QED
    BY <2>1, <2>2 DEF IInv
<1>4. QED
  BY <1>1, <1>2, <1>3 DEF Next

\* The invariant holds of every behaviour.
THEOREM Invariant == Spec => []IInv
BY InvInit, InvNext, PTL DEF Spec

-----------------------------------------------------------------------------
(* What it shows.                                                          *)

\* A journal replays up to its last file, whatever fails and whoever recovers
\* (append_entry, read_entries).
THEOREM Replay == Spec => []JournalReplays
<1>1. IInv => JournalReplays
  BY DEF IInv, RunInv, Replays, Chain, JournalReplays
<1>2. QED
  BY <1>1, Invariant, PTL

\* A terminal entry says what is so of the receipt, the slot and the snapshot
\* (finalize_run_terminal and its callers).
THEOREM Truth == Spec => []JournalIsTrue
<1>1. IInv => JournalIsTrue
  BY DEF IInv, RunInv, Terminal, JournalIsTrue
<1>2. QED
  BY <1>1, Invariant, PTL

\* Receipts are published under a Finalizing entry (print_run, print_matrix_run).
THEOREM Receipts == Spec => []ReceiptFollowsJournal
<1>1. IInv => ReceiptFollowsJournal
  BY DEF IInv, RunInv, Published, ReceiptFollowsJournal
<1>2. QED
  BY <1>1, Invariant, PTL

\* Every run directory carries the token of the store (initialize).
THEOREM Tokens == Spec => []JournalsBelongToStore
<1>1. IInv => JournalsBelongToStore
  BY DEF IInv, RunInv, Token, JournalsBelongToStore
<1>2. QED
  BY <1>1, Invariant, PTL

\* Without failure and recovery a run leaves nothing behind but its receipt,
\* exactly when it succeeds, and a journal that ends as the run did, unless the
\* error is one of the three that are not journaled (all error paths of
\* print_run and print_matrix_run).
THEOREM Ending == Spec => []EveryEndIsRecorded
<1>1. ASSUME IInv, NEW r \in Run, pc[r] = "done", dir[r] = "live", faults = 0
      PROVE  /\ Recorded(r, LastWord(result[r])) /\ LastState(r) = LastWord(result[r])
             /\ receipt[r] <=> result[r] = "ok"
             /\ ~snap[r]
             /\ adm[r] \in IF result[r] = "unjournaled" THEN {"none"} ELSE {"none", "released"}
  <2>1. Whole(r) /\ Ends(r)
    BY <1>1 DEF IInv, RunInv, Current, Undisturbed, Early, State
  <2>2. LastState(r) = LastWord(result[r])
    BY <1>1, <2>1 DEF Ends
  <2> DEFINE n == Len(entries[r])
  <2>3. entries[r] \in Seq(Entry)
    BY <1>1 DEF IInv, TypeOK, StoreTypeOK
  <2>4. n \in DOMAIN entries[r] /\ entries[r][n] \in Entry
    BY <2>1, <2>3, SMTT(30) DEF Whole
  <2>5. entries[r][n] = [state |-> LastState(r), whole |-> TRUE]
    BY <2>1, <2>4 DEF Entry, Whole, LastState
  <2>6. Recorded(r, LastWord(result[r]))
    BY <2>2, <2>4, <2>5, Zenon DEF Recorded
  <2>7. QED
    BY <1>1, <2>1, <2>2, <2>6 DEF Ends
<1>2. IInv => EveryEndIsRecorded
  BY <1>1 DEF EveryEndIsRecorded
<1>3. QED
  BY <1>2, Invariant, PTL
=============================================================================
