--------------------------- MODULE SupervisorProofs ---------------------------
(***************************************************************************)
(* ProcessSupervisor keeps its timeout, tells the truth and implements     *)
(* SupervisorContract, for every set of processes, every timeout, grace    *)
(* period and capture limit, and any number of failing system calls.       *)
(***************************************************************************)
EXTENDS ProcessSupervisor, TLAPS

\* The time limits of the provers, in seconds.
USE SMTT(20), ZenonT(30)

-----------------------------------------------------------------------------
(* The inductive invariant.                                                *)

\* The steps of a call that has begun to end.
Ended == {"stop", "grace", "graceSleep", "force", "forced", "seal", "sealed", "drain", "recheck"}

\* Nothing exists before the leader, nothing is reported before the end, and an exit status is that
\* of a dead leader.
Control ==
    /\ pc \in {"start", "spawn"} => proc["leader"] = "unborn"
    /\ pc \notin {"start", "spawn", "done"} => proc["leader"] # "unborn"
    /\ proc["leader"] = "unborn" => \A p \in Process : proc[p] = "unborn"
    /\ status # "none" => proc["leader"] = "dead"
    /\ pc # "done" => outcome = C!NoOutcome

\* Where a deadline comes from: the poll loop runs within the execution budget, every later wait
\* within what is left of the timeout.
Timing ==
    /\ clock <= Total
    /\ pc \in {"wait", "sleep"} => clock < ExecutionBudget
    /\ pc \in {"grace", "graceSleep"} => since <= clock
    /\ pc = "graceSleep" => clock < Total
    /\ pc \in {"forced", "sealed", "drain"} => until <= Total

\* A call ends for a reason that holds, and keeps holding.
Cause ==
    pc \in Ended =>
        /\ ending \in Endings
        /\ ending.termination = "timed_out" => clock >= ExecutionBudget
        /\ ending.termination = "cancelled" /\ ending.error = "none" => token # "none"
        /\ ending.termination = "completed" => ending.error \in {"none", "cleanup_uncertain"}
        /\ pc = "recheck" => ending.termination = "completed"

\* Output is collected only when the group is empty and the leader's status known.
Collecting ==
    /\ pc \in {"seal", "sealed"} => exit # "none" \/ ending.error = "cleanup_uncertain"
    /\ pc \in {"drain", "recheck"} =>
        InGroup = {} /\ exit # "none" /\ ending.error # "cleanup_uncertain"

IInv == TypeOK /\ Control /\ Timing /\ Cause /\ Collecting /\ TruthfulOutcome

-----------------------------------------------------------------------------
(* Facts about the budgets.                                                *)

\* The least of two numbers.
LEMMA LeastOfTwo ==
  ASSUME NEW a \in Int, NEW b \in Int
  PROVE  Min({a, b}) = IF a <= b THEN a ELSE b
<1>1. CASE a <= b
  <2>1. a \in {a, b} /\ \A y \in {a, b} : a =< y
    BY <1>1
  <2>2. \A x \in {a, b} : (\A y \in {a, b} : x =< y) => x = a
    BY <1>1
  <2>3. QED
    BY <1>1, <2>1, <2>2 DEF Min
<1>2. CASE ~(a <= b)
  <2>1. b \in {a, b} /\ \A y \in {a, b} : b =< y
    BY <1>2
  <2>2. \A x \in {a, b} : (\A y \in {a, b} : x =< y) => x = b
    BY <1>2
  <2>3. QED
    BY <1>2, <2>1, <2>2 DEF Min
<1>3. QED
  BY <1>1, <1>2

\* ProcessDeadline carves the cleanup budget out of the timeout.
LEMMA Budgets ==
  /\ CleanupBudget \in Nat /\ CleanupBudget <= Total
  /\ ExecutionBudget \in Nat /\ ExecutionBudget <= Total
<1>1. Total \div 2 \in Nat /\ Total \div 2 <= Total
  BY TimeAssumption
<1>2. CleanupBudget = IF GraceCap <= Total \div 2 THEN GraceCap ELSE Total \div 2
  BY <1>1, LeastOfTwo, TimeAssumption DEF CleanupBudget
<1>3. QED
  BY <1>1, <1>2, TimeAssumption DEF ExecutionBudget

\* A wait for cleanup, whenever it begins, ends within the timeout.
LEMMA Remaining ==
  ASSUME clock \in Nat, clock <= Total
  PROVE  CleanupRemaining \in Nat /\ CleanupRemaining <= Total - clock
<1>1. Total - clock \in Nat
  BY TimeAssumption
<1>2. QED
  BY <1>1, Budgets, LeastOfTwo, TimeAssumption DEF CleanupRemaining

-----------------------------------------------------------------------------
(* Every step preserves the invariant.                                     *)

\* Before execute starts.
LEMMA IInit == Init => IInv
<1> SUFFICES ASSUME Init PROVE IInv
  OBVIOUS
<1> USE TimeAssumption, CaptureAssumption DEF Init, C!NoOutcome, C!Err
<1>1. TypeOK
  BY DEF TypeOK, Process, Stream, C!Outcomes
<1>2. Control
  BY DEF Control, Process
<1>3. Timing
  BY DEF Timing
<1>4. Cause /\ Collecting
  BY DEF Cause, Collecting, Ended
<1>5. TruthfulOutcome
  <2>1. Min({Limit, 0}) = 0
    BY LeastOfTwo
  <2>2. QED
    BY <2>1 DEF TruthfulOutcome, C!IsOk, Stream
<1>6. QED
  BY <1>1, <1>2, <1>3, <1>4, <1>5 DEF IInv

\* Cancellation and replacement of the generation touch the token and the guard only.
LEMMA SignalStep ==
  ASSUME IInv, Replace \/ \E reason \in {"user", "resource_pressure"} : Cancel(reason)
  PROVE  IInv'
<1> USE DEF world, streams
<1>1. ASSUME NEW reason \in {"user", "resource_pressure"}, Cancel(reason) PROVE IInv'
  <2>1. UNCHANGED <<pc, clock, current, proc, doomed, status, exit, ending, since, until, reader,
                    count, kept, truncated, faults, outcome>>
        /\ token' = reason /\ pc # "done"
    BY <1>1 DEF Cancel
  <2>2. /\ TypeOK'
        /\ Control' /\ Timing' /\ Collecting'
    <3>1. TypeOK'
      BY <2>1 DEF IInv, TypeOK
    <3>2. QED
      BY <2>1, <3>1 DEF IInv, Control, Timing, Collecting, InGroup
  <2>3. Cause'
    BY <2>1 DEF IInv, Cause
  <2>4. TruthfulOutcome'
    BY <2>1 DEF IInv, TruthfulOutcome, Control, C!IsOk, C!NoOutcome, C!Err
  <2>5. QED
    BY <2>2, <2>3, <2>4 DEF IInv
<1>2. CASE Replace
  <2>1. UNCHANGED <<pc, clock, token, proc, doomed, status, exit, ending, since, until, reader,
                    count, kept, truncated, faults, outcome>>
        /\ current' = FALSE /\ pc # "done"
    BY <1>2 DEF Replace
  <2>2. /\ TypeOK'
        /\ Control' /\ Timing' /\ Collecting'
    <3>1. TypeOK'
      BY <2>1, Zenon DEF IInv, TypeOK
    <3>2. QED
      BY <2>1, <3>1 DEF IInv, Control, Timing, Collecting, InGroup
  <2>3. Cause'
    BY <2>1 DEF IInv, Cause
  <2>4. TruthfulOutcome'
    BY <2>1 DEF IInv, TruthfulOutcome, Control, C!IsOk, C!NoOutcome, C!Err
  <2>5. QED
    BY <2>2, <2>3, <2>4 DEF IInv
<1>3. QED
  BY <1>1, <1>2

\* The processes of the command come, go and leave the group; none of them comes from nothing.
LEMMA ProcessStep ==
  ASSUME IInv, \/ \E k \in Kid : Fork(k) \/ LeaveGroup(k)
               \/ \E p \in Process : Die(p)
  PROVE  IInv'
<1> USE DEF streams
<1>1. UNCHANGED <<pc, clock, token, current, exit, ending, since, until, reader, count, kept,
                  truncated, faults, outcome>>
      /\ pc # "done"
  BY DEF Fork, LeaveGroup, Die
<1>2. Timing' /\ Cause'
  BY <1>1 DEF IInv, Timing, Cause
<1>3. TruthfulOutcome'
  BY <1>1 DEF IInv, TruthfulOutcome, Control, C!IsOk, C!NoOutcome, C!Err
<1>4. ASSUME NEW k \in Kid, Fork(k) PROVE TypeOK' /\ Control' /\ Collecting'
  <2>1. proc' = [proc EXCEPT ![k] = "in"] /\ UNCHANGED <<doomed, status>> /\ k \in Process
    BY <1>4 DEF Fork, Process
  <2>2. \E p \in Process : proc[p] = "in"
    BY <1>4 DEF Fork, InGroup
  <2>3. proc["leader"] # "unborn"
    BY <2>2 DEF IInv, Control
  <2>4. proc'["leader"] = proc["leader"]
    BY <1>4, <2>1, <2>3 DEF IInv, TypeOK, Fork, Process
  <2>5. TypeOK'
    BY <1>1, <2>1 DEF IInv, TypeOK
  <2>6. Control'
    BY <1>1, <2>1, <2>3, <2>4 DEF IInv, Control
  <2>7. Collecting'
    BY <1>1, <2>1, <2>2 DEF IInv, Collecting, InGroup
  <2>8. QED
    BY <2>5, <2>6, <2>7
<1>5. ASSUME NEW k \in Kid, LeaveGroup(k) PROVE TypeOK' /\ Control' /\ Collecting'
  <2>1. /\ proc' = [proc EXCEPT ![k] = "out"] /\ UNCHANGED <<doomed, status>>
        /\ k \in Process /\ proc[k] = "in"
    BY <1>5 DEF LeaveGroup, Process
  <2>2. TypeOK'
    BY <1>1, <2>1 DEF IInv, TypeOK
  <2>3. Control'
    BY <1>1, <2>1 DEF IInv, Control, TypeOK, Process
  <2>4. Collecting'
    BY <1>1, <2>1 DEF IInv, Collecting, InGroup, TypeOK
  <2>5. QED
    BY <2>2, <2>3, <2>4
<1>6. ASSUME NEW p \in Process, Die(p) PROVE TypeOK' /\ Control' /\ Collecting'
  <2>1. proc' = [proc EXCEPT ![p] = "dead"] /\ doomed' = doomed \ {p} /\ proc[p] \in {"in", "out"}
    BY <1>6 DEF Die
  <2>2. \/ p # "leader" /\ status' = status
        \/ p = "leader" /\ status' \in Exited /\ status = "none"
    BY <1>6, <2>1 DEF Die, Exited, IInv, Control
  <2>3. TypeOK'
    BY <1>1, <2>1, <2>2 DEF IInv, TypeOK
  <2>4. Control'
    BY <1>1, <2>1, <2>2 DEF IInv, Control, TypeOK, Process, Exited
  <2>5. Collecting'
    BY <1>1, <2>1 DEF IInv, Collecting, InGroup, TypeOK
  <2>6. QED
    BY <2>3, <2>4, <2>5
<1>7. QED
  BY <1>2, <1>3, <1>4, <1>5, <1>6 DEF IInv

\* A reader counts what it reads and keeps what fits.
LEMMA ReaderStep ==
  ASSUME IInv, \E s \in Stream : ReadEnd(s) \/ ReadFails(s) \/ \E n \in 1..MaxBytes : Read(s, n)
  PROVE  IInv'
<1> USE DEF world
<1>1. UNCHANGED <<pc, clock, token, current, proc, doomed, status, exit, ending, since, until,
                  outcome>>
      /\ pc # "done"
  BY Zenon DEF ReadEnd, ReadFails, Read
<1>2. Control' /\ Timing' /\ Cause' /\ Collecting'
  BY <1>1 DEF IInv, Control, Timing, Cause, Collecting, InGroup
<1>3. outcome' = C!NoOutcome
  BY <1>1 DEF IInv, Control
<1>4. ASSUME NEW s \in Stream, ReadEnd(s) \/ ReadFails(s) PROVE TypeOK' /\ TruthfulOutcome'
  <2>1. UNCHANGED <<count, kept, truncated>>
    BY <1>4 DEF ReadEnd, ReadFails
  <2>2. TypeOK'
    BY <1>1, <1>4, <2>1, CaptureAssumption DEF IInv, TypeOK, ReadEnd, ReadFails
  <2>3. TruthfulOutcome'
    BY <1>1, <1>3, <2>1 DEF IInv, TruthfulOutcome, C!IsOk, C!NoOutcome, C!Err
  <2>4. QED
    BY <2>2, <2>3
<1>5. ASSUME NEW s \in Stream, NEW n \in 1..MaxBytes, Read(s, n)
      PROVE  TypeOK' /\ TruthfulOutcome'
  <2>1. /\ count[s] + n <= MaxBytes /\ count' = [count EXCEPT ![s] = @ + n]
        /\ kept' = [kept EXCEPT ![s] = @ + Min({n, Limit - @})]
        /\ truncated' = [truncated EXCEPT ![s] = @ \/ Limit - kept[s] < n]
        /\ UNCHANGED <<reader, faults>>
    BY <1>5 DEF Read
  <2>2. count[s] \in Nat /\ kept[s] \in 0..Limit /\ truncated[s] \in BOOLEAN
    BY CaptureAssumption DEF IInv, TypeOK
  <2>3. Min({n, Limit - kept[s]}) = IF n <= Limit - kept[s] THEN n ELSE Limit - kept[s]
    BY <2>2, LeastOfTwo, CaptureAssumption
  <2>4. kept[s] = IF Limit <= count[s] THEN Limit ELSE count[s]
    <3>1. kept[s] = Min({Limit, count[s]})
      BY DEF IInv, TruthfulOutcome
    <3>2. QED
      BY <2>2, <3>1, LeastOfTwo, CaptureAssumption
  <2>5. truncated[s] <=> count[s] > Limit
    BY Zenon DEF IInv, TruthfulOutcome
  <2>6. TypeOK'
    BY <1>1, <2>1, <2>2, <2>3, CaptureAssumption DEF IInv, TypeOK
  <2>7. \A q \in Stream : kept'[q] = Min({Limit, count'[q]})
    <3>1. Min({Limit, count[s] + n}) = IF Limit <= count[s] + n THEN Limit ELSE count[s] + n
      BY <2>2, LeastOfTwo, CaptureAssumption
    <3>2. kept'[s] = Min({Limit, count'[s]})
      BY <2>1, <2>2, <2>3, <2>4, <3>1, CaptureAssumption DEF IInv, TypeOK
    <3>3. QED
      BY <2>1, <3>2, Zenon DEF IInv, TruthfulOutcome, TypeOK
  <2>8. \A q \in Stream : truncated'[q] <=> count'[q] > Limit
    <3>1. truncated'[s] <=> (truncated[s] \/ Limit - kept[s] < n)
      BY <2>1, Zenon DEF IInv, TypeOK
    <3>2. (count[s] > Limit \/ Limit - kept[s] < n) <=> count[s] + n > Limit
      BY <2>2, <2>4, CaptureAssumption
    <3>3. count'[s] = count[s] + n
      BY <2>1 DEF IInv, TypeOK
    <3>4. ASSUME NEW q \in Stream, q # s PROVE truncated'[q] = truncated[q] /\ count'[q] = count[q]
      BY <2>1, <3>4 DEF IInv, TypeOK
    <3>5. QED
      BY <2>5, <3>1, <3>2, <3>3, <3>4, Zenon DEF IInv, TruthfulOutcome
  <2>9. QED
    BY <1>3, <2>6, <2>7, <2>8 DEF TruthfulOutcome, C!IsOk, C!NoOutcome, C!Err
<1>6. QED
  BY <1>2, <1>4, <1>5 DEF IInv

\* What execute may return is an outcome, and an error claims nothing.
LEMMA OutcomeTypes ==
  /\ \A e \in C!Errors : C!Err(e) \in C!Outcomes /\ ~C!IsOk(C!Err(e))
  /\ \A t \in C!Terminations, e \in C!Exits \ {"none"} : C!Ok(t, "verified", e) \in C!Outcomes
  /\ C!Ok("cancelled", "not_required", "none") \in C!Outcomes
  /\ ~C!IsOk(C!NoOutcome)
<1>1. \A e \in C!Errors : C!Err(e) \in C!Outcomes
  BY DEF C!Outcomes
<1>2. \A t \in C!Terminations, e \in C!Exits \ {"none"} : C!Ok(t, "verified", e) \in C!Outcomes
  BY DEF C!Outcomes
<1>3. C!Ok("cancelled", "not_required", "none") \in C!Outcomes
  BY DEF C!Outcomes, C!NeverStarted
<1>4. \A e : ~C!IsOk(C!Err(e))
  BY DEF C!IsOk, C!Err
<1>5. QED
  BY <1>1, <1>2, <1>3, <1>4 DEF C!NoOutcome

\* Up to the spawn nothing is running.
LEMMA StartStep ==
  ASSUME IInv, Start \/ Spawn
  PROVE  IInv'
<1> USE DEF world, streams, Return, Goto
<1>1. UNCHANGED <<clock, token, current, doomed, status, exit, ending, since, until, reader, count,
                  kept, truncated>>
  BY DEF Start, Spawn
<1>2. TypeOK'
  <2>1. CASE Start
    <3>1. outcome' \in C!Outcomes \cup {C!NoOutcome}
      BY <2>1, OutcomeTypes DEF Start, IInv, TypeOK, C!Errors
    <3>2. pc' \in {"spawn", "done"} /\ UNCHANGED <<proc, faults>>
      BY <2>1 DEF Start
    <3>3. QED
      BY <1>1, <3>1, <3>2 DEF IInv, TypeOK
  <2>2. CASE Spawn
    <3>1. outcome' \in C!Outcomes \cup {C!NoOutcome}
      BY <2>2, OutcomeTypes DEF Spawn, IInv, TypeOK, C!Errors
    <3>2. pc' \in {"generation", "done"} /\ faults' \in 0..MaxFaults
      BY <2>2, CaptureAssumption DEF Spawn, IInv, TypeOK
    <3>3. proc' \in [Process -> {"unborn", "in", "out", "dead"}]
      BY <2>2 DEF Spawn, IInv, TypeOK
    <3>4. QED
      BY <1>1, <3>1, <3>2, <3>3 DEF IInv, TypeOK
  <2>3. QED
    BY <2>1, <2>2
<1>3. Control'
  BY <1>1 DEF Start, Spawn, IInv, Control, TypeOK, Process
<1>4. Timing' /\ Cause' /\ Collecting'
  <2>1. pc' \in {"spawn", "generation", "done"}
    BY DEF Start, Spawn
  <2>2. QED
    BY <1>1, <2>1 DEF IInv, Timing, Cause, Collecting, Ended
<1>5. C!IsOk(outcome') => outcome'.termination = "cancelled" /\ token' # "none"
  <2>1. CASE Start
    BY <2>1, OutcomeTypes DEF Start, IInv, Control, C!Errors, C!Ok
  <2>2. CASE Spawn
    BY <2>2, OutcomeTypes DEF Spawn, IInv, Control, C!Errors
  <2>3. QED
    BY <2>1, <2>2
<1>6. TruthfulOutcome'
  BY <1>1, <1>5 DEF IInv, TruthfulOutcome
<1>7. QED
  BY <1>2, <1>3, <1>4, <1>6 DEF IInv

\* The poll loop: a call begins to end for a reason it has just found.
LEMMA PollStep ==
  ASSUME IInv, CheckGeneration \/ CheckCancelled \/ CheckDeadline \/ TryWait
  PROVE  IInv'
<1> USE DEF world, streams, Goto, StopWith
<1>1. UNCHANGED <<clock, token, current, proc, doomed, status, since, until, reader, count, kept,
                  truncated, outcome>>
      /\ pc \in {"generation", "cancelled", "deadline", "wait"}
  BY DEF CheckGeneration, CheckCancelled, CheckDeadline, TryWait
<1>2. TypeOK'
  <2>1. ending' \in Endings \cup {NoEnding}
    BY DEF CheckGeneration, CheckCancelled, CheckDeadline, TryWait, IInv, TypeOK, Endings
  <2>2. exit' \in {"none", status} /\ faults' \in 0..MaxFaults
    BY CaptureAssumption DEF CheckGeneration, CheckCancelled, CheckDeadline, TryWait, IInv, TypeOK
  <2>3. pc' \in {"cancelled", "deadline", "wait", "sleep", "seal", "stop"}
    BY DEF CheckGeneration, CheckCancelled, CheckDeadline, TryWait
  <2>4. QED
    BY <1>1, <2>1, <2>2, <2>3 DEF IInv, TypeOK
<1>3. Control'
  BY <1>1 DEF CheckGeneration, CheckCancelled, CheckDeadline, TryWait, IInv, Control
<1>4. Timing'
  BY <1>1 DEF CheckGeneration, CheckCancelled, CheckDeadline, TryWait, IInv, Timing
<1>5. Cause'
  BY <1>1 DEF CheckGeneration, CheckCancelled, CheckDeadline, TryWait, IInv, Cause, Ended, Endings
<1>6. Collecting'
  BY <1>1 DEF CheckGeneration, CheckCancelled, CheckDeadline, TryWait, IInv, Collecting
<1>7. TruthfulOutcome'
  BY <1>1 DEF IInv, TruthfulOutcome
<1>8. QED
  BY <1>2, <1>3, <1>4, <1>5, <1>6, <1>7 DEF IInv

\* The graceful and the forced stop: each wait gets what the timeout has left.
LEMMA StopStep ==
  ASSUME IInv, Stop \/ Grace \/ ForceStop \/ Forced
  PROVE  IInv'
<1> USE DEF world, streams, Goto, WaitAt, Return, Uncertain
<1>1. UNCHANGED <<clock, token, current, proc, status, reader, count, kept, truncated>>
      /\ pc \in {"stop", "grace", "force", "forced"}
  BY DEF Stop, Grace, ForceStop, Forced
<1>2. clock \in Nat /\ CleanupRemaining \in Nat /\ CleanupRemaining <= Total - clock
  BY Remaining DEF IInv, TypeOK, Timing
<1>3. ending \in Endings /\ outcome = C!NoOutcome /\ proc["leader"] # "unborn"
  BY <1>1 DEF IInv, Cause, Control, Ended
<1>4. pc' \in {"grace", "graceSleep", "force", "forced", "seal", "done"}
  BY DEF Stop, Grace, ForceStop, Forced
<1>5. ending' = ending \/ ending' = [ending EXCEPT !.error = "cleanup_uncertain"]
  BY DEF Stop, Grace, ForceStop, Forced
<1>6. outcome' \in {C!NoOutcome, C!Err("cleanup_uncertain")} /\ (pc' # "done" => outcome' = outcome)
  BY <1>3 DEF Stop, Grace, ForceStop, Forced
<1>7. TypeOK'
  <2>1. since' \in Nat /\ until' \in Nat
    BY <1>2 DEF Stop, Grace, ForceStop, Forced, IInv, TypeOK
  <2>2. exit' \in {"none", status} /\ faults' \in 0..MaxFaults
    BY CaptureAssumption DEF Stop, Grace, ForceStop, Forced, IInv, TypeOK
  <2>3. doomed' \subseteq Process
    BY DEF Stop, Grace, ForceStop, Forced, IInv, TypeOK, InGroup
  <2>4. ending' \in Endings
    BY <1>3, <1>5 DEF Endings
  <2>5. outcome' \in C!Outcomes \cup {C!NoOutcome}
    BY <1>6, OutcomeTypes DEF C!Errors
  <2>6. QED
    BY <1>1, <1>4, <2>1, <2>2, <2>3, <2>4, <2>5 DEF IInv, TypeOK
<1>8. Control'
  BY <1>1, <1>3, <1>4, <1>6 DEF IInv, Control
<1>9. Timing'
  BY <1>1, <1>2, TimeAssumption DEF Stop, Grace, ForceStop, Forced, IInv, Timing, TypeOK
<1>10. Cause'
  BY <1>1, <1>3, <1>4, <1>5 DEF IInv, Cause, Ended, Endings
<1>11. Collecting'
  BY <1>1, <1>3 DEF Stop, Grace, ForceStop, Forced, Collecting, Endings
<1>12. TruthfulOutcome'
  BY <1>1, <1>6, OutcomeTypes DEF IInv, TruthfulOutcome, C!Errors
<1>13. QED
  BY <1>7, <1>8, <1>9, <1>10, <1>11, <1>12 DEF IInv

\* The group is sealed: only an empty one leads to the collection.
LEMMA SealStep ==
  ASSUME IInv, Seal \/ Sealed
  PROVE  IInv'
<1> USE DEF world, streams, Goto, WaitAt, Return, Uncertain
<1>1. UNCHANGED <<clock, token, current, proc, status, exit, ending, reader, count, kept, truncated>>
      /\ pc \in {"seal", "sealed"}
  BY DEF Seal, Sealed
<1>2. clock \in Nat /\ CleanupRemaining \in Nat /\ CleanupRemaining <= Total - clock
  BY Remaining DEF IInv, TypeOK, Timing
<1>3. outcome = C!NoOutcome
  BY <1>1 DEF IInv, Control
<1>4. pc' \in {"sealed", "drain", "done"}
  BY DEF Seal, Sealed
<1>5. outcome' \in {C!NoOutcome, C!Err("cleanup_uncertain")} /\ (pc' # "done" => outcome' = outcome)
  BY <1>3 DEF Seal, Sealed
<1>6. TypeOK'
  <2>1. since' \in Nat /\ until' \in Nat
    BY <1>2 DEF Seal, Sealed, IInv, TypeOK
  <2>2. doomed' \subseteq Process /\ faults' \in 0..MaxFaults
    BY CaptureAssumption DEF Seal, Sealed, IInv, TypeOK, InGroup
  <2>3. outcome' \in C!Outcomes \cup {C!NoOutcome}
    BY <1>5, OutcomeTypes DEF C!Errors
  <2>4. QED
    BY <1>1, <1>4, <2>1, <2>2, <2>3 DEF IInv, TypeOK
<1>7. Control'
  BY <1>1, <1>3, <1>4, <1>5 DEF IInv, Control
<1>8. Timing'
  BY <1>1, <1>2, TimeAssumption DEF Seal, Sealed, IInv, Timing, TypeOK
<1>9. Cause'
  BY <1>1, <1>4 DEF IInv, Cause, Ended
<1>10. Collecting'
  BY <1>1 DEF Seal, Sealed, IInv, Collecting, InGroup
<1>11. TruthfulOutcome'
  BY <1>1, <1>5, OutcomeTypes DEF IInv, TruthfulOutcome, C!Errors
<1>12. QED
  BY <1>6, <1>7, <1>8, <1>9, <1>10, <1>11 DEF IInv

\* What a call reports after the collection, given why it ended.
LEMMA ResultIsTrue ==
  ASSUME IInv, pc \in {"drain", "recheck"}
  PROVE  /\ Result \in C!Outcomes \ {C!NeverStarted, C!Err("spawn"), C!Err("invalid_request")}
         /\ C!IsOk(Result) => Result = C!Ok(ending.termination, "verified", exit)
         /\ C!IsOk(Result) => ending.error = "none"
         /\ pc = "recheck" => ending.termination = "completed"
<1>1. /\ ending \in Endings /\ ending.error # "cleanup_uncertain"
      /\ exit # "none" /\ exit \in C!Exits
      /\ pc = "recheck" => ending.termination = "completed"
  BY DEF IInv, Cause, Collecting, Ended, TypeOK, Exited, C!Exits
<1>2. CASE ending.error = "none"
  <2>1. Result = C!Ok(ending.termination, "verified", exit)
    BY <1>2 DEF Result
  <2>2. Result \in C!Outcomes
    BY <1>1, <2>1, OutcomeTypes DEF Endings, C!Terminations
  <2>3. Result.error = "none" /\ Result.cleanup = "verified"
    BY <2>1 DEF C!Ok
  <2>4. Result \notin {C!NeverStarted, C!Err("spawn"), C!Err("invalid_request")}
    BY <2>3 DEF C!NeverStarted, C!Ok, C!Err
  <2>5. QED
    BY <1>1, <1>2, <2>1, <2>2, <2>4
<1>3. CASE ending.error # "none"
  <2>1. Result = C!Err(ending.error) /\ ending.error \in {"monitor", "stale_generation"}
    BY <1>1, <1>3 DEF Result, Endings
  <2>2. Result \in C!Outcomes /\ ~C!IsOk(Result)
    BY <2>1, OutcomeTypes DEF C!Errors
  <2>3. Result \notin {C!NeverStarted, C!Err("spawn"), C!Err("invalid_request")}
    BY <2>1 DEF C!NeverStarted, C!Ok, C!Err
  <2>4. QED
    BY <1>1, <2>2, <2>3
<1>4. QED
  BY <1>2, <1>3

\* The collection of the output ends the call.
LEMMA CollectStep ==
  ASSUME IInv, Drain \/ Recheck
  PROVE  IInv'
<1> USE DEF world, streams, Goto, Return
<1>1. UNCHANGED <<clock, token, current, proc, doomed, status, exit, ending, since, until, reader,
                  count, kept, truncated, faults>>
      /\ pc \in {"drain", "recheck"} /\ pc' \in {"recheck", "done"}
  BY DEF Drain, Recheck
<1>2. outcome = C!NoOutcome
  BY <1>1 DEF IInv, Control
<1>3. \/ pc' = "recheck" /\ outcome' = C!NoOutcome /\ ending.termination = "completed"
      \/ pc' = "done" /\ outcome' \in {C!Err("output"), C!Err("stale_generation")}
      \/ pc' = "done" /\ outcome' = Result /\ (current \/ ending.termination # "completed")
  BY <1>2 DEF Drain, Recheck
<1>4. TypeOK'
  <2>1. outcome' \in C!Outcomes \cup {C!NoOutcome}
    BY <1>1, <1>3, ResultIsTrue, OutcomeTypes DEF C!Errors
  <2>2. QED
    BY <1>1, <2>1 DEF IInv, TypeOK
<1>5. Control'
  BY <1>1, <1>3 DEF IInv, Control
<1>6. Timing'
  BY <1>1 DEF IInv, Timing
<1>7. Cause'
  BY <1>1, <1>3 DEF IInv, Cause, Ended
<1>8. Collecting'
  BY <1>1 DEF IInv, Collecting, InGroup
<1>9. TruthfulOutcome'
  <2>1. ASSUME C!IsOk(outcome')
        PROVE  /\ outcome'.termination = "timed_out" => clock' >= ExecutionBudget
               /\ outcome'.termination = "cancelled" => token' # "none"
               /\ outcome'.termination = "completed" => outcome'.exit = status' /\ current'
    <3>1. /\ outcome' = C!Ok(ending.termination, "verified", exit) /\ ending.error = "none"
          /\ current \/ ending.termination # "completed"
      BY <1>1, <1>3, <2>1, ResultIsTrue, OutcomeTypes DEF C!Errors
    <3>2. outcome'.termination = ending.termination /\ outcome'.exit = exit
      BY <3>1 DEF C!Ok
    <3>3. exit = status
      BY <1>1 DEF IInv, TypeOK, Collecting
    <3>4. /\ ending.termination = "timed_out" => clock >= ExecutionBudget
          /\ ending.termination = "cancelled" => token # "none"
      BY <1>1, <3>1 DEF IInv, Cause, Ended
    <3>5. QED
      BY <1>1, <3>1, <3>2, <3>3, <3>4
  <2>2. QED
    BY <1>1, <2>1 DEF IInv, TruthfulOutcome
<1>10. QED
  BY <1>4, <1>5, <1>6, <1>7, <1>8, <1>9 DEF IInv

\* Time passes in a sleep or in a bounded wait, none of which outlasts the timeout.
LEMMA TickStep ==
  ASSUME IInv, Tick
  PROVE  IInv'
<1> USE DEF world, streams, Goto
<1>1. /\ UNCHANGED <<token, current, proc, doomed, status, exit, ending, since, until, reader, count,
                     kept, truncated, faults, outcome>>
      /\ clock' = clock + 1 /\ clock \in Nat
      /\ \/ pc = "sleep" /\ pc' = "generation"
         \/ pc = "graceSleep" /\ pc' = "grace"
         \/ pc \in {"forced", "sealed", "drain"} /\ pc' = pc /\ clock < until
  BY DEF Tick, Waiting, IInv, TypeOK
<1>2. TypeOK'
  BY <1>1 DEF IInv, TypeOK
<1>3. Control' /\ Collecting'
  BY <1>1 DEF IInv, Control, Collecting, InGroup
<1>4. Timing'
  BY <1>1, Budgets, TimeAssumption DEF IInv, Timing, TypeOK
<1>5. Cause'
  BY <1>1, Budgets DEF IInv, Cause, Ended
<1>6. TruthfulOutcome'
  BY <1>1, <1>3, OutcomeTypes DEF IInv, TruthfulOutcome, Control
<1>7. QED
  BY <1>2, <1>3, <1>4, <1>5, <1>6 DEF IInv

\* The invariant is inductive.
LEMMA IStep ==
  ASSUME IInv, [Next]_vars
  PROVE  IInv'
<1>1. CASE World
  BY <1>1, SignalStep, ProcessStep, ReaderStep DEF World
<1>2. CASE Supervise
  BY <1>2, StartStep, PollStep, StopStep, SealStep, CollectStep DEF Supervise
<1>3. CASE Tick
  BY <1>3, TickStep
<1>4. CASE UNCHANGED vars
  <2>1. TypeOK' /\ Control' /\ Timing'
    BY <1>4 DEF vars, IInv, TypeOK, Control, Timing
  <2>2. Cause' /\ Collecting' /\ TruthfulOutcome'
    BY <1>4 DEF vars, IInv, Cause, Collecting, InGroup, TruthfulOutcome
  <2>3. QED
    BY <2>1, <2>2 DEF IInv
<1>5. QED
  BY <1>1, <1>2, <1>3, <1>4 DEF Next

\* IInv holds in every state of a call.
LEMMA Invariance == Spec => []IInv
BY IInit, IStep, PTL DEF Spec

-----------------------------------------------------------------------------
(***************************************************************************)
(* However long the command lives, however it is stopped and however many  *)
(* system calls fail, execute is done when the timeout of the request is   *)
(* (ProcessDeadline).                                                      *)
(***************************************************************************)
THEOREM TimeoutKept == Spec => []WithinTimeout
<1>1. IInv => WithinTimeout
  BY DEF IInv, Timing, WithinTimeout
<1>2. QED
  BY <1>1, Invariance, PTL

(***************************************************************************)
(* What execute reports is what happened, for every capture limit and any  *)
(* amount of output (execute, read_stream).                                *)
(***************************************************************************)
THEOREM ReportsTruly == Spec => []TruthfulOutcome
<1>1. IInv => TruthfulOutcome
  BY DEF IInv
<1>2. QED
  BY <1>1, Invariance, PTL

-----------------------------------------------------------------------------
(* The refinement.  Each step of ProcessSupervisor is a step of            *)
(* SupervisorContract or changes nothing the contract speaks of.  The      *)
(* modules of guarded sessions and of containers rely on the contract      *)
(* alone.                                                                  *)

\* The contract's view of the state.
Phase == IF pc = "done" THEN "returned" ELSE IF proc["leader"] = "unborn" THEN "idle" ELSE "running"
Group == IF \E p \in DOMAIN proc : proc[p] = "in" THEN "alive" ELSE "empty"

\* The contract's steps, in terms of that view.
LEMMA ContractSteps ==
  /\ C!Start <=> Phase = "idle" /\ Phase' = "running" /\ Group' = "alive" /\ outcome' = outcome
  /\ C!Empty <=> Group = "alive" /\ Group' = "empty" /\ Phase' = Phase /\ outcome' = outcome
  /\ C!Return <=> /\ Phase \in {"idle", "running"} /\ Phase' = "returned" /\ Group' = Group
                  /\ outcome' \in (IF Phase = "idle" THEN C!BeforeStart
                                                     ELSE C!AfterStart(Group = "alive"))
BY DEF C!Start, C!Empty, C!Return, Phase, Group

\* Steps of the processes only ever empty the group.
LEMMA ProcessesRefine ==
  ASSUME IInv, \/ \E k \in Kid : Fork(k) \/ LeaveGroup(k)
               \/ \E p \in Process : Die(p)
  PROVE  C!Empty \/ (Phase' = Phase /\ Group' = Group /\ outcome' = outcome)
<1>1. pc' = pc /\ outcome' = outcome
  BY DEF Fork, LeaveGroup, Die
<1>2. DOMAIN proc = Process /\ "leader" \in Process
  BY DEF IInv, TypeOK, Process
<1>3. ASSUME NEW k \in Kid, Fork(k) PROVE Phase' = Phase /\ Group' = Group
  <2>1. k \in Process /\ proc' = [proc EXCEPT ![k] = "in"] /\ proc[k] = "unborn"
    BY <1>3 DEF Fork, Process
  <2>2. \E p \in Process : proc[p] = "in"
    BY <1>3 DEF Fork, InGroup
  <2>3. proc["leader"] # "unborn"
    BY <2>2 DEF IInv, Control
  <2>4. proc'["leader"] = proc["leader"]
    BY <1>2, <2>1, <2>3
  <2>5. DOMAIN proc' = Process /\ proc'[k] = "in"
    BY <1>2, <2>1
  <2>6. QED
    BY <1>1, <1>2, <2>1, <2>2, <2>4, <2>5 DEF Phase, Group
<1>4. ASSUME NEW p \in Process, NEW v \in {"out", "dead"}, proc[p] \in {"in", "out"},
             proc' = [proc EXCEPT ![p] = v]
      PROVE  C!Empty \/ (Phase' = Phase /\ Group' = Group /\ outcome' = outcome)
  <2>1. DOMAIN proc' = Process
    BY <1>2, <1>4
  <2>2. (proc'["leader"] = "unborn") <=> (proc["leader"] = "unborn")
    BY <1>2, <1>4
  <2>3. Phase' = Phase
    BY <1>1, <2>2 DEF Phase
  <2>4. \A q \in Process : proc'[q] = "in" => proc[q] = "in"
    BY <1>2, <1>4
  <2>5. Group = "empty" => Group' = "empty"
    BY <1>2, <2>1, <2>4 DEF Group
  <2>6. Group \in {"alive", "empty"} /\ Group' \in {"alive", "empty"}
    BY DEF Group
  <2>7. QED
    BY <1>1, <2>3, <2>5, <2>6, ContractSteps
<1>5. QED
  BY <1>1, <1>3, <1>4 DEF LeaveGroup, Die, Process

\* A call that starts nothing returns, or the leader is spawned.
LEMMA StartRefines ==
  ASSUME IInv, Start \/ Spawn
  PROVE  C!Next \/ (Phase' = Phase /\ Group' = Group /\ outcome' = outcome)
<1> USE DEF Goto, Return, world
<1>1. /\ pc \in {"start", "spawn"} /\ proc["leader"] = "unborn"
      /\ \A p \in Process : proc[p] = "unborn"
      /\ DOMAIN proc = Process /\ "leader" \in Process
  BY DEF Start, Spawn, IInv, Control, TypeOK, Process
<1>2. Phase = "idle"
  BY <1>1 DEF Phase
<1>3. ASSUME proc' = proc, pc' = "done", outcome' \in C!BeforeStart PROVE C!Return
  BY <1>2, <1>3, ContractSteps DEF Phase, Group
<1>4. CASE Start
  <2>1. proc' = proc
    BY <1>4 DEF Start
  <2>2. \/ pc' = "done" /\ outcome' \in C!BeforeStart
        \/ pc' = "spawn" /\ outcome' = outcome
    BY <1>4 DEF Start, C!BeforeStart, C!NeverStarted
  <2>3. ASSUME pc' = "spawn" PROVE Phase' = Phase /\ Group' = Group
    BY <1>1, <2>1, <2>3 DEF Phase, Group
  <2>4. QED
    BY <1>3, <2>1, <2>2, <2>3 DEF C!Next
<1>5. CASE Spawn
  <2>1. \/ proc' = proc /\ pc' = "done" /\ outcome' \in C!BeforeStart
        \/ proc' = [proc EXCEPT !["leader"] = "in"] /\ pc' = "generation" /\ outcome' = outcome
    BY <1>5 DEF Spawn, C!BeforeStart
  <2>2. ASSUME proc' = [proc EXCEPT !["leader"] = "in"], pc' = "generation", outcome' = outcome
        PROVE  C!Start
    <3>1. DOMAIN proc' = Process /\ proc'["leader"] = "in"
      BY <1>1, <2>2
    <3>2. Phase' = "running" /\ Group' = "alive"
      BY <1>1, <2>2, <3>1 DEF Phase, Group
    <3>3. QED
      BY <1>2, <2>2, <3>2, ContractSteps
  <2>3. QED
    BY <1>3, <2>1, <2>2 DEF C!Next
<1>6. QED
  BY <1>4, <1>5

\* A running call goes on, gives up with its cleanup uncertain, or returns what it found once the
\* group is empty.
LEMMA RunningRefines ==
  ASSUME IInv,
         \/ CheckGeneration \/ CheckCancelled \/ CheckDeadline \/ TryWait \/ Stop \/ Grace
         \/ ForceStop \/ Forced \/ Seal \/ Sealed \/ Drain \/ Recheck \/ Tick
  PROVE  C!Return \/ (Phase' = Phase /\ Group' = Group /\ outcome' = outcome)
<1> USE DEF Goto, Return, StopWith, WaitAt, Uncertain, world
<1>1. proc' = proc /\ pc \notin {"start", "spawn", "done"}
  BY DEF CheckGeneration, CheckCancelled, CheckDeadline, TryWait, Stop, Grace, ForceStop, Forced,
         Seal, Sealed, Drain, Recheck, Tick, Waiting
<1>2. proc["leader"] # "unborn" /\ Phase = "running" /\ Group' = Group
  BY <1>1 DEF IInv, Control, Phase, Group
<1>3. \/ pc' # "done" /\ outcome' = outcome
      \/ pc' = "done" /\ outcome' = C!Err("cleanup_uncertain")
      \/ /\ pc' = "done" /\ pc \in {"drain", "recheck"}
         /\ outcome' \in {Result, C!Err("output"), C!Err("stale_generation")}
  BY DEF CheckGeneration, CheckCancelled, CheckDeadline, TryWait, Stop, Grace, ForceStop, Forced,
         Seal, Sealed, Drain, Recheck, Tick, Waiting
<1>4. CASE pc' # "done" /\ outcome' = outcome
  BY <1>1, <1>2, <1>4 DEF Phase
<1>5. ASSUME pc' = "done", outcome' \in C!AfterStart(Group = "alive") PROVE C!Return
  BY <1>2, <1>5, ContractSteps DEF Phase
<1>6. CASE pc' = "done" /\ outcome' = C!Err("cleanup_uncertain")
  <2>1. C!Err("cleanup_uncertain") \in C!Outcomes
    BY OutcomeTypes DEF C!Errors
  <2>2. C!Err("cleanup_uncertain") \notin {C!NeverStarted, C!Err("spawn"), C!Err("invalid_request")}
    BY DEF C!NeverStarted, C!Ok, C!Err
  <2>3. QED
    BY <1>5, <1>6, <2>1, <2>2 DEF C!AfterStart
<1>7. CASE /\ pc' = "done" /\ pc \in {"drain", "recheck"}
           /\ outcome' \in {Result, C!Err("output"), C!Err("stale_generation")}
  <2>1. Group = "empty"
    BY <1>7 DEF IInv, Collecting, InGroup, TypeOK, Group
  <2>2. {C!Err("output"), C!Err("stale_generation")} \subseteq C!Outcomes
    BY OutcomeTypes DEF C!Errors
  <2>3. \A e \in {"output", "stale_generation"} :
          C!Err(e) \notin {C!NeverStarted, C!Err("spawn"), C!Err("invalid_request")}
    BY DEF C!NeverStarted, C!Ok, C!Err
  <2>4. outcome' \in C!Outcomes \ {C!NeverStarted, C!Err("spawn"), C!Err("invalid_request")}
    BY <1>7, <2>2, <2>3, ResultIsTrue
  <2>5. QED
    BY <1>5, <1>7, <2>1, <2>4 DEF C!AfterStart
<1>8. QED
  BY <1>3, <1>4, <1>6, <1>7

\* Every step is a step of the contract or is invisible to it.
LEMMA StepRefines ==
  ASSUME IInv, [Next]_vars
  PROVE  C!Next \/ (Phase' = Phase /\ Group' = Group /\ outcome' = outcome)
<1>1. CASE World
  <2>1. ASSUME Replace \/ \E reason \in {"user", "resource_pressure"} : Cancel(reason)
        PROVE  Phase' = Phase /\ Group' = Group /\ outcome' = outcome
    BY <2>1 DEF Replace, Cancel, world, Phase, Group
  <2>2. ASSUME \E s \in Stream : ReadEnd(s) \/ ReadFails(s) \/ \E n \in 1..MaxBytes : Read(s, n)
        PROVE  Phase' = Phase /\ Group' = Group /\ outcome' = outcome
    BY <2>2, Zenon DEF ReadEnd, ReadFails, Read, world, Phase, Group
  <2>3. QED
    BY <1>1, <2>1, <2>2, ProcessesRefine DEF World, C!Next
<1>2. CASE Supervise \/ Tick
  BY <1>2, StartRefines, RunningRefines DEF Supervise, C!Next
<1>3. CASE UNCHANGED vars
  BY <1>3 DEF vars, Phase, Group
<1>4. QED
  BY <1>1, <1>2, <1>3 DEF Next

(***************************************************************************)
(* The supervisor keeps its contract: whatever the processes do and        *)
(* whichever system calls fail, execute returns once, and an outcome other *)
(* than "cleanup uncertain" means that nothing of the process group is     *)
(* left (execute, stop_and_collect, seal_unix_process_group).              *)
(***************************************************************************)
THEOREM ContractKept == Spec => Contract
<1>1. Init => C!Init
  BY DEF Init, C!Init, Process, C!NoOutcome
<1>2. ASSUME IInv, [Next]_vars
      PROVE  [C!Next]_<<Phase, Group, outcome>>
  BY <1>2, StepRefines
<1>3. QED
  BY <1>1, <1>2, Invariance, PTL DEF Spec, Contract, C!Spec, Phase, Group
=============================================================================
