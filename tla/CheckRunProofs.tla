---------------------------- MODULE CheckRunProofs ----------------------------
(***************************************************************************)
(* What CheckRun promises of evidence, receipts, caches and results, for   *)
(* every set of plans, checks and dependencies, any number of runs and any *)
(* behaviour of the daemon, the watchdog, the user and the checkout.       *)
(***************************************************************************)
EXTENDS CheckRun, TLAPS

\* The time limits of the provers, in seconds.
USE SMTT(30), ZenonT(20)

-----------------------------------------------------------------------------
(* The inductive invariant.                                                *)

\* The run is over; its checks are; the commit was confirmed; so were all rows.
Over == {"idle", "complete", "finalJoin"}
Last == {"outerBarrier", "outerJoin", "publish"}
Inspected == {"revalidate", "observe", "barrier", "join", "promote", "seal"} \cup Last
AfterLoop == {"inspect"} \cup Inspected

\* Check c has had its turn in the loop.
Behind(c) ==
    \E r \in 1..row : \E i \in 1..Len(plan[r]) : plan[r][i] = c /\ (r < row \/ i < index)

\* Where the run is in its plan.
Place ==
    /\ plan \in Plans /\ row \in 1..Len(plan) /\ index \in 1..(Len(plan[row]) + 1)
    /\ DOMAIN evidence = Check
    /\ \A c \in Check :
         /\ evidence[c].status \in {"none", "pass", "fail", "not_run"}
         /\ evidence[c].status # "none" <=> Behind(c)
    /\ pc = "check" => index <= Len(plan[row])
    /\ pc \in AfterLoop => index = Len(plan[row]) + 1
    /\ pc \in Last => row = Len(plan)

\* The container of a check that has not been begun.
Untouched(c) == box[c] = "none" /\ <<c, "create">> \notin pending

\* The container of the check that execute_check works on: a success is kept only with the exit
\* code zero, and returned only after the removal.
Handled(c) ==
    /\ step = "create" => Untouched(c)
    /\ step \notin {"create", "returned"} => <<c, "create">> \notin pending
    /\ step \in CleanupSteps /\ kept.exit = "success" =>
         code[c] = "zero" /\ box[c] \in {"exited", "none"}
    /\ step = "final" => box[c] = "none"
    /\ step = "returned" /\ outcome.exit = "success" => code[c] = "zero" /\ Untouched(c)

\* What the daemon has of every check.
Containers ==
    /\ DOMAIN box = Check /\ DOMAIN code = Check
    /\ \A c \in Check : evidence[c].status = "pass" => code[c] = "zero" /\ Untouched(c)
    /\ pc \notin Over => \A c \in Check :
         evidence[c].status = "none" /\ ~(pc = "check" /\ c = Current) => Untouched(c)
    /\ pc = "check" => Handled(Current)

\* Dependencies have passed before a check begins.
Ordered ==
    /\ \A c \in Check : evidence[c].status = "pass" => DependenciesPassed(c)
    /\ pc = "check" => DependenciesPassed(Current)

\* Nothing is cancelled unless the token is set, and nothing is said to be by the user unless so.
Cancelled ==
    /\ token \in [Owner -> Reasons] /\ DOMAIN thread = Owner /\ DOMAIN trip = Owner
    /\ kept.termination = "cancelled" \/ outcome.termination = "cancelled" => token[me] # "none"
    /\ \A c \in Check : evidence[c].flag = "cancelled" => token[me] = "user"

\* The watchdog has ended, and its trip, if any, is on record.
Accounted(checks) == Joinable(me) /\ TripAccepted(checks)

\* What was established on the way to the receipt.
Established ==
    /\ movedEarly => moved
    /\ pc \in Inspected => ~movedEarly
    /\ pc \in {"barrier", "join"} => Len(plan) = 1
    /\ pc \in {"outerBarrier", "outerJoin"} => Len(plan) # 1
    /\ pc \in {"promote", "seal", "publish"} /\ Len(plan) = 1 => Accounted(Range(Row))
    /\ pc = "publish" => Accounted(PlannedChecks)
    /\ \A r \in promoted :
         /\ r \in 1..Len(plan) /\ AllPassed(Range(plan[r]))
         /\ Len(plan) = 1 => /\ pc \in {"seal", "publish"} \cup Over
                             /\ ~movedEarly /\ Joinable(me) /\ trip[me] = "none"

\* The receipt, the lock and the result.
Concluded ==
    /\ run \in Nat /\ lock \in 0..run /\ receipt \in 0..run
    /\ pc # "idle" => run > 0
    /\ pc \notin Over => result = "none" /\ receipt # run
    /\ pc \in {"complete", "finalJoin"} => result # "none"
    /\ result # "none" => /\ result = "ok" => receipt = run
                          /\ receipt = run => result \in {"ok", "terminal"}
                          /\ lock # run
    /\ pc \in {"complete", "finalJoin"} /\ receipt = run => result = "ok"
    /\ pc \in {"enter", "probe", "prepare"} \cup Last => lock # run
    /\ result # "none" /\ receipt = run =>
         /\ Accounted(PlannedChecks) /\ ~movedEarly
         /\ overall = "pass" => AllPassed(PlannedChecks \cap Required)

IInv == Place /\ Containers /\ Ordered /\ Cancelled /\ Established /\ Concluded

-----------------------------------------------------------------------------
(* Plans.                                                                  *)

\* There is one process at a time.
LEMMA OneOwner == me \in Owner /\ Owner = {me}
  BY PlanAssumption, ZenonT(30) DEF me

\* A plan is what its rows say, and no check is in it twice.
LEMMA PlanFacts ==
  ASSUME Place
  PROVE  /\ Len(plan) \in Nat /\ Len(plan) > 0 /\ row \in Nat
         /\ \A r \in 1..Len(plan) :
              /\ Len(plan[r]) \in Nat
              /\ \A i \in 1..Len(plan[r]) : plan[r][i] \in Check
              /\ \A c : c \in Range(plan[r]) <=> \E i \in 1..Len(plan[r]) : c = plan[r][i]
              /\ Range(plan[r]) \subseteq PlannedChecks
         /\ \A c : c \in PlannedChecks <=>
              \E r \in 1..Len(plan) : \E i \in 1..Len(plan[r]) : c = plan[r][i]
         /\ \A r, s \in 1..Len(plan) : \A i \in 1..Len(plan[r]), j \in 1..Len(plan[s]) :
              plan[r][i] = plan[s][j] => r = s /\ i = j
<1>1. plan \in Seq(Seq(Check)) /\ plan \in Plans /\ row \in 1..Len(plan)
  BY PlanAssumption DEF Place
<1>2. Len(plan) \in Nat /\ DOMAIN plan = 1..Len(plan) /\ Len(plan) > 0 /\ row \in Nat
  BY <1>1, RowsAssumption
<1>3. \A r \in 1..Len(plan) : plan[r] \in Seq(Check)
  BY <1>1, <1>2
<1>4. \A r \in 1..Len(plan) : /\ Len(plan[r]) \in Nat /\ DOMAIN plan[r] = 1..Len(plan[r])
                             /\ \A i \in 1..Len(plan[r]) : plan[r][i] \in Check
  BY <1>3
<1>5. \A r \in 1..Len(plan) : \A c :
        c \in Range(plan[r]) <=> \E i \in 1..Len(plan[r]) : c = plan[r][i]
  BY <1>4, Zenon DEF Range
<1>6. \A c : c \in PlannedChecks <=> \E r \in 1..Len(plan) : c \in Range(plan[r])
  BY <1>2, Zenon DEF PlannedChecks
<1>7. \A r, s \in 1..Len(plan) : \A i \in 1..Len(plan[r]), j \in 1..Len(plan[s]) :
        plan[r][i] = plan[s][j] => r = s /\ i = j
  BY <1>1, RowsAssumption, Zenon
<1>8. \A r \in 1..Len(plan) : Range(plan[r]) \subseteq PlannedChecks
  BY <1>6, Zenon
<1>9. \A c : c \in PlannedChecks <=>
        \E r \in 1..Len(plan) : \E i \in 1..Len(plan[r]) : c = plan[r][i]
  <2> TAKE c
  <2>1. \A r \in 1..Len(plan) :
          c \in Range(plan[r]) <=> \E i \in 1..Len(plan[r]) : c = plan[r][i]
    BY <1>5, Zenon
  <2>2. QED
    BY <1>6, <2>1, Zenon
<1>10. QED
  BY <1>2, <1>4, <1>5, <1>7, <1>8, <1>9, Zenon

\* A row is made of checks.
LEMMA RowChecks ==
  ASSUME Place, NEW r \in 1..Len(plan)
  PROVE  Range(plan[r]) \subseteq Check
<1>1. plan \in Seq(Seq(Check))
  BY PlanAssumption DEF Place
<1>2. plan[r] \in Seq(Check)
  BY <1>1
<1>3. QED
  BY <1>2 DEF Range

\* A matrix is a plan of several rows.
LEMMA MatrixRows ==
  ASSUME Place
  PROVE  Matrix <=> Len(plan) # 1
<1>1. Len(plan) \in Nat /\ Len(plan) > 0
  BY PlanFacts, Zenon
<1>2. \A n \in Nat : n > 0 => (n > 1 <=> n # 1)
  OBVIOUS
<1>3. QED
  BY <1>1, <1>2, Zenon DEF Matrix

\* The check whose turn it is has no evidence yet.
LEMMA CurrentIsNew ==
  ASSUME Place, index <= Len(plan[row])
  PROVE  Current \in Check /\ evidence[Current].status = "none"
<1>1. row \in 1..Len(plan) /\ index \in 1..Len(plan[row])
  BY PlanFacts DEF Place
<1>2. Current \in Check
  BY <1>1, PlanFacts DEF Current, Row
<1>3. ~Behind(Current)
  <2> SUFFICES ASSUME Behind(Current) PROVE FALSE
    OBVIOUS
  <2>1. PICK r \in 1..row : \E i \in 1..Len(plan[r]) :
               plan[r][i] = plan[row][index] /\ (r < row \/ i < index)
    BY DEF Behind, Current, Row
  <2>2. PICK i \in 1..Len(plan[r]) : plan[r][i] = plan[row][index] /\ (r < row \/ i < index)
    BY <2>1
  <2>3. r \in 1..Len(plan)
    BY <1>1, PlanFacts
  <2>4. r = row /\ i = index
    BY <1>1, <2>2, <2>3, PlanFacts
  <2>5. QED
    BY <1>1, <2>2, <2>4, PlanFacts
<1>4. QED
  BY <1>2, <1>3 DEF Place

\* When the loop moves on, the check it leaves is behind it, and no other.
LEMMA BehindMoves ==
  ASSUME Place, index <= Len(plan[row]), UNCHANGED <<plan, row>>, index' = index + 1
  PROVE  \A d \in Check : Behind(d)' <=> Behind(d) \/ d = Current
<1>1. row \in 1..Len(plan) /\ Len(plan) \in Nat /\ \A r \in 1..Len(plan) : Len(plan[r]) \in Nat
  BY PlanFacts, Zenon DEF Place
<1>2. row \in 1..row /\ index \in 1..Len(plan[row])
  BY <1>1 DEF Place
<1>3. \A r \in 1..row : \A i \in 1..Len(plan[r]) :
        (r < row \/ i < index + 1) <=> ((r < row \/ i < index) \/ (r = row /\ i = index))
  <2> TAKE r \in 1..row
  <2>1. Len(plan[r]) \in Nat
    BY <1>1
  <2>2. QED
    BY <1>1, <1>2, <2>1
<1>4. \A d \in Check : Behind(d)' <=> \E r \in 1..row : \E i \in 1..Len(plan[r]) :
                                    plan[r][i] = d /\ (r < row \/ i < index + 1)
  BY Zenon DEF Behind
<1>5. \A d \in Check : Behind(d) <=> \E r \in 1..row : \E i \in 1..Len(plan[r]) :
                                   plan[r][i] = d /\ (r < row \/ i < index)
  BY Zenon DEF Behind
<1>6. Current = plan[row][index]
  BY DEF Current, Row
<1>7. QED
  <2> TAKE d \in Check
  <2>1. ASSUME Behind(d)' PROVE Behind(d) \/ d = Current
    <3>1. PICK r \in 1..row : \E i \in 1..Len(plan[r]) :
                 plan[r][i] = d /\ (r < row \/ i < index + 1)
      BY <1>4, <2>1, Zenon
    <3>2. PICK i \in 1..Len(plan[r]) : plan[r][i] = d /\ (r < row \/ i < index + 1)
      BY <3>1, Zenon
    <3>3. (r < row \/ i < index) \/ (r = row /\ i = index)
      BY <1>3, <3>2, Zenon
    <3>4. QED
      BY <1>5, <1>6, <3>2, <3>3, Zenon
  <2>2. Behind(d) => Behind(d)'
    BY <1>3, <1>4, <1>5, ZenonT(30)
  <2>3. d = Current => Behind(d)'
    BY <1>2, <1>3, <1>4, <1>6, Zenon
  <2>4. QED
    BY <2>1, <2>2, <2>3

-----------------------------------------------------------------------------
(* The containers.                                                         *)

\* A command that the daemon carried out concerns one container.
LEMMA PerformsFrame ==
  ASSUME NEW c \in Check, NEW command, NEW o, Performs(c, command, o),
         DOMAIN box = Check, DOMAIN code = Check
  PROVE  /\ DOMAIN box' = Check /\ DOMAIN code' = Check /\ pending' = pending
         /\ \A d \in Check \ {c} : box'[d] = box[d] /\ code'[d] = code[d]
         /\ box'[c] = Effect(command, box[c]) /\ Accepts(command, box[c])
         /\ code'[c] = code[c] \/ (command \in {"stop", "kill"} /\ box[c] = "running")
         /\ o.termination = "completed" /\ o.exit = "success"
  BY DEF Performs, Apply, Ok

\* One that failed changes nothing but what is pending, and is no success.
LEMMA FailsFrame ==
  ASSUME NEW c \in Check, NEW command, NEW reason, NEW o, Fails(c, command, reason, o)
  PROVE  /\ box' = box /\ code' = code
         /\ \A d \in Check : <<d, "create">> \in pending' =>
              <<d, "create">> \in pending \/ (d = c /\ command = "create")
         /\ o.exit # "success"
         /\ o.termination = "cancelled" => reason # "none"
<1>1. box' = box /\ code' = code
  BY DEF Fails
<1>2. \A d \in Check : <<d, "create">> \in pending' =>
        <<d, "create">> \in pending \/ (d = c /\ command = "create")
  BY DEF Fails
<1>3. o \in NotStarted(reason) \cup {Refused} \cup Lost(reason)
  BY DEF Fails
<1>4. QED
  BY <1>1, <1>2, <1>3 DEF NotStarted, Refused, Lost, NeverStarted, Ok, Err

\* What a step of execute_check may do beyond its own container.
Local(c, reason) ==
    /\ DOMAIN box' = Check /\ DOMAIN code' = Check
    /\ \A d \in Check \ {c} :
         /\ box'[d] = box[d] /\ code'[d] = code[d]
         /\ <<d, "create">> \in pending' => <<d, "create">> \in pending
    /\ kept'.termination = "cancelled" \/ outcome'.termination = "cancelled" =>
         \/ kept.termination = "cancelled" \/ outcome.termination = "cancelled"
         \/ reason # "none"

\* The sequence of commands of execute_check: a success is returned only if the workload ended
\* with exit code zero and the container was removed, and no request is left that would create it
\* again; whatever else the daemon refuses, loses or carries out late.
LEMMA RuntimeKeeps ==
  ASSUME NEW c \in Check, NEW reason, RuntimeStep(c, reason), Handled(c),
         DOMAIN box = Check, DOMAIN code = Check
  PROVE  Local(c, reason) /\ Handled(c)'
<1> USE DEF Local, Handled, Untouched, CleanupSteps, Reported, Return, CleanUp, Continue, Ok, Err,
        NoOutcome, Accepts, Effect
<1>1. CASE Create(c, reason)
  <2>1. PICK o \in Outcomes :
          \/ Performs(c, "create", o) /\ (Continue("start") \/ CleanUp(Err("lifecycle")))
          \/ Fails(c, "create", reason, o) /\ Return(o)
    BY <1>1, Zenon DEF Create
  <2>2. CASE Performs(c, "create", o) /\ (Continue("start") \/ CleanUp(Err("lifecycle")))
    BY <1>1, <2>2, PerformsFrame DEF Create
  <2>3. CASE Fails(c, "create", reason, o) /\ Return(o)
    BY <1>1, <2>3, FailsFrame, ZenonT(30) DEF Create
  <2>4. QED
    BY <2>1, <2>2, <2>3, ZenonT(30)
<1>2. CASE Start(c, reason)
  <2>1. PICK o \in Outcomes :
          \/ Performs(c, "start", o) /\ Continue("attach")
          \/ Fails(c, "start", reason, o) /\ CleanUp(o)
    BY <1>2, Zenon DEF Start
  <2>2. CASE Performs(c, "start", o) /\ Continue("attach")
    BY <1>2, <2>2, PerformsFrame DEF Start
  <2>3. CASE Fails(c, "start", reason, o) /\ CleanUp(o)
    BY <1>2, <2>3, FailsFrame DEF Start
  <2>4. QED
    BY <2>1, <2>2, <2>3, ZenonT(30)
<1>3. CASE Attach(c, reason)
  <2>1. PICK o \in Outcomes :
          /\ Performs(c, "attach", o) \/ Fails(c, "attach", reason, o)
          /\ \/ o.termination = "completed" /\ step' = "wait" /\ UNCHANGED <<kept, outcome>>
             \/ o.termination # "completed" /\ CleanUp(o)
    BY <1>3, Zenon DEF Attach
  <2>2. CASE Performs(c, "attach", o)
    BY <1>3, <2>1, <2>2, PerformsFrame DEF Attach
  <2>3. CASE Fails(c, "attach", reason, o)
    BY <1>3, <2>1, <2>3, FailsFrame DEF Attach
  <2>4. QED
    BY <2>1, <2>2, <2>3, ZenonT(30)
<1>4. CASE Wait(c, reason)
  <2>1. PICK o \in Outcomes :
          \/ /\ Performs(c, "wait", o)
             /\ \/ CleanUp(Ok("completed", "verified",
                              IF code[c] = "zero" THEN "success" ELSE "failure"))
                \/ Return(Err("lifecycle"))
          \/ /\ Fails(c, "wait", reason, o)
             /\ CleanUp(Err("lifecycle")) \/ Return(o)
    BY <1>4, Zenon DEF Wait
  <2>2. CASE /\ Performs(c, "wait", o)
             /\ \/ CleanUp(Ok("completed", "verified",
                              IF code[c] = "zero" THEN "success" ELSE "failure"))
                \/ Return(Err("lifecycle"))
    BY <1>4, <2>2, PerformsFrame DEF Wait
  <2>3. CASE /\ Fails(c, "wait", reason, o)
             /\ CleanUp(Err("lifecycle")) \/ Return(o)
    BY <1>4, <2>3, FailsFrame DEF Wait
  <2>4. QED
    BY <2>1, <2>2, <2>3, ZenonT(30)
<1>5. CASE Inspect(c)
  <2>1. PICK o \in Outcomes :
          \/ /\ Performs(c, "inspect", o)
             /\ \/ Continue(IF box[c] = "exited" THEN "remove" ELSE "stop")
                \/ Return(Err("lifecycle"))
          \/ Fails(c, "inspect", "none", o) /\ Return(Err("lifecycle"))
    BY <1>5, Zenon DEF Inspect
  <2>2. CASE /\ Performs(c, "inspect", o)
             /\ \/ Continue(IF box[c] = "exited" THEN "remove" ELSE "stop")
                \/ Return(Err("lifecycle"))
    BY <1>5, <2>2, PerformsFrame DEF Inspect
  <2>3. CASE Fails(c, "inspect", "none", o) /\ Return(Err("lifecycle"))
    BY <1>5, <2>3, FailsFrame, ZenonT(30) DEF Inspect
  <2>4. QED
    BY <2>1, <2>2, <2>3, ZenonT(30)
<1>6. CASE Stop(c)
  <2>1. PICK o \in Outcomes :
          \/ Performs(c, "stop", o) /\ Continue("remove")
          \/ Fails(c, "stop", "none", o) /\ Continue("kill")
    BY <1>6, Zenon DEF Stop
  <2>2. CASE Performs(c, "stop", o) /\ Continue("remove")
    BY <1>6, <2>2, PerformsFrame DEF Stop
  <2>3. CASE Fails(c, "stop", "none", o) /\ Continue("kill")
    BY <1>6, <2>3, FailsFrame DEF Stop
  <2>4. QED
    BY <2>1, <2>2, <2>3, ZenonT(30)
<1>7. CASE Kill(c)
  <2>1. PICK o \in Outcomes :
          \/ Performs(c, "kill", o) /\ Continue("remove")
          \/ Fails(c, "kill", "none", o) /\ Return(Err("lifecycle"))
    BY <1>7, Zenon DEF Kill
  <2>2. CASE Performs(c, "kill", o) /\ Continue("remove")
    BY <1>7, <2>2, PerformsFrame DEF Kill
  <2>3. CASE Fails(c, "kill", "none", o) /\ Return(Err("lifecycle"))
    BY <1>7, <2>3, FailsFrame, ZenonT(30) DEF Kill
  <2>4. QED
    BY <2>1, <2>2, <2>3, ZenonT(30)
<1>8. CASE ForceRemove(c)
  <2>1. PICK o \in Outcomes :
          \/ Performs(c, "remove", o) /\ Continue("final")
          \/ Fails(c, "remove", "none", o) /\ Return(Err("lifecycle"))
    BY <1>8, Zenon DEF ForceRemove
  <2>2. CASE Performs(c, "remove", o) /\ Continue("final")
    BY <1>8, <2>2, PerformsFrame DEF ForceRemove
  <2>3. CASE Fails(c, "remove", "none", o) /\ Return(Err("lifecycle"))
    BY <1>8, <2>3, FailsFrame, ZenonT(30) DEF ForceRemove
  <2>4. QED
    BY <2>1, <2>2, <2>3, ZenonT(30)
<1>9. CASE Final(c)
  <2>1. PICK o \in Outcomes :
          /\ Performs(c, "inspect", o) \/ Fails(c, "final", "none", o)
          /\ Return(kept) \/ Return(Err("lifecycle"))
    BY <1>9, Zenon DEF Final
  <2>2. CASE Performs(c, "inspect", o)
    BY <1>9, <2>2, PerformsFrame DEF Final
  <2>3. CASE Fails(c, "final", "none", o)
    BY <1>9, <2>1, <2>3, FailsFrame DEF Final
  <2>4. QED
    BY <2>1, <2>2, <2>3, ZenonT(30)
<1>10. QED
  BY <1>1, <1>2, <1>3, <1>4, <1>5, <1>6, <1>7, <1>8, <1>9, Zenon DEF RuntimeStep

\* The daemon's own steps bring back no container that was removed for good, and do not touch one
\* whose workload has ended.
LEMMA DaemonKeeps ==
  ASSUME NEW c \in Check, DaemonStep(c), DOMAIN box = Check, DOMAIN code = Check
  PROVE  /\ DOMAIN box' = Check /\ DOMAIN code' = Check
         /\ UNCHANGED <<step, kept, outcome>>
         /\ \A d \in Check :
              /\ Untouched(d) => Untouched(d)' /\ code'[d] = code[d]
              /\ box[d] = "exited" => box'[d] = "exited" /\ code'[d] = code[d]
              /\ <<d, "create">> \notin pending => <<d, "create">> \notin pending'
<1> USE DEF Untouched
<1>1. ASSUME NEW command \in {"create", "start"}, DaemonApplies(c, command)
      PROVE  /\ DOMAIN box' = Check /\ DOMAIN code' = Check
             /\ UNCHANGED <<step, kept, outcome>>
             /\ \A d \in Check :
                  /\ Untouched(d) => Untouched(d)' /\ code'[d] = code[d]
                  /\ box[d] = "exited" => box'[d] = "exited" /\ code'[d] = code[d]
                  /\ <<d, "create">> \notin pending => <<d, "create">> \notin pending'
  BY <1>1 DEF DaemonApplies, Accepts, Effect, Apply
<1>2. CASE WorkloadEnds(c)
  BY <1>2 DEF WorkloadEnds
<1>3. QED
  BY <1>1, <1>2, ZenonT(30) DEF DaemonStep

-----------------------------------------------------------------------------
(* Frames.                                                                 *)

\* Where the run is in its plan, when it moves from one step to another.
LEMMA PlaceKept ==
  ASSUME Place, UNCHANGED <<plan, row, index, evidence>>,
         pc' = "check" => index <= Len(plan[row]),
         pc' \in AfterLoop => index = Len(plan[row]) + 1,
         pc' \in Last => row = Len(plan)
  PROVE  Place'
<1>1. \A c \in Check : Behind(c)' <=> Behind(c)
  BY Zenon DEF Behind
<1>2. QED
  BY <1>1, Zenon DEF Place

\* What the watchdog's end and the evidence say stays said.
LEMMA AccountsKept ==
  ASSUME UNCHANGED <<plan, row, evidence>>,
         Joinable(me) => thread'[me] = thread[me] /\ trip'[me] = trip[me]
  PROVE  /\ Accounted(Range(Row)) => Accounted(Range(Row))'
         /\ Accounted(PlannedChecks) => Accounted(PlannedChecks)'
<1>1. Range(Row)' = Range(Row) /\ PlannedChecks' = PlannedChecks
  BY Zenon DEF Row, PlannedChecks
<1>2. QED
  BY <1>1, Zenon DEF Accounted, Joinable, TripAccepted, PressureRecorded

\* The end of a run with an error.
Aborts ==
    /\ pc \notin Over /\ pc' = "complete"
    /\ result' \notin {"none", "ok"} /\ lock' \in 0..run /\ lock' # run
    /\ kept' = kept /\ outcome' \in {outcome, NoOutcome}
    /\ movedEarly' = movedEarly \/ (pc = "loop" /\ movedEarly' = moved)
    /\ UNCHANGED <<box, code, pending, token, thread, trip, plan, row, index, run, evidence, moved,
                   promoted, receipt, overall>>

\* Whatever a run fails with, and wherever it does, it leaves nothing that is not so.
LEMMA AbortKeeps ==
  ASSUME IInv, Aborts
  PROVE  IInv'
<1> USE DEF Aborts
<1>1. Place'
  BY PlaceKept, ZenonT(30) DEF IInv, Over, AfterLoop, Inspected, Last
<1>2. Containers'
  BY Zenon DEF IInv, Containers, Untouched, Over
<1>3. Ordered'
  BY Zenon DEF IInv, Ordered, DependenciesPassed
<1>4. Cancelled'
  BY DEF IInv, Cancelled, NoOutcome, Err
<1>5. Established'
  BY DEF IInv, Established, Over, Inspected, Last, AllPassed, Joinable
<1>6. Concluded'
  BY ZenonT(30) DEF IInv, Concluded, Over, Last
<1>7. QED
  BY <1>1, <1>2, <1>3, <1>4, <1>5, <1>6 DEF IInv

\* A step of the user, the watchdog, the checkout or the workload.
Outsider ==
    /\ token' \in [Owner -> Reasons] /\ DOMAIN thread' = Owner /\ DOMAIN trip' = Owner
    /\ token[me] # "none" => token'[me] = token[me]
    /\ Joinable(me) => thread'[me] = thread[me] /\ trip'[me] = trip[me]
    /\ moved => moved'
    /\ UNCHANGED <<runtimeVars, pc, plan, row, index, run, evidence, lock, movedEarly, promoted,
                   receipt, overall, result>>

\* None of them can take back what the run has established.
LEMMA OutsiderKeeps ==
  ASSUME IInv, Outsider
  PROVE  IInv'
<1> USE DEF Outsider
<1>1. Place'
  BY PlaceKept, Zenon DEF IInv, Place
<1>2. Containers'
  BY Zenon DEF IInv, Containers, Untouched, Handled, Current, Row, runtimeVars
<1>3. Ordered'
  BY Zenon DEF IInv, Ordered, DependenciesPassed, Current, Row
<1>4. Cancelled'
  BY Zenon DEF IInv, Cancelled, runtimeVars
<1>5. Established' /\ Concluded'
  <2>1. /\ Accounted(Range(Row)) => Accounted(Range(Row))'
        /\ Accounted(PlannedChecks) => Accounted(PlannedChecks)'
    BY AccountsKept, Zenon
  <2>2. Established'
    BY <2>1, Zenon DEF IInv, Established, AllPassed, Joinable
  <2>3. PlannedChecks' = PlannedChecks
    BY Zenon DEF PlannedChecks
  <2>4. Concluded'
    BY <2>1, <2>3, Zenon DEF IInv, Concluded, AllPassed
  <2>5. QED
    BY <2>2, <2>4, ZenonT(30)
<1>6. QED
  BY <1>1, <1>2, <1>3, <1>4, <1>5, ZenonT(30) DEF IInv

\* A step of the run itself that is none of the loop's.
Advances ==
    /\ pc \notin Over \cup {"check"} /\ pc' \notin Over \cup {"check"} /\ lock' \in 0..run
    /\ UNCHANGED <<runtimeVars, token, thread, trip, plan, run, evidence, moved, receipt, overall,
                   result>>

\* It keeps what does not depend on the step the run is at.
LEMMA AdvanceKeeps ==
  ASSUME IInv, Advances, Place', Established',
         pc' \in {"enter", "probe", "prepare"} \cup Last => lock' # run
  PROVE  IInv'
<1> USE DEF Advances
<1>1. Containers'
  BY Zenon DEF IInv, Containers, Untouched, runtimeVars
<1>2. Ordered'
  BY Zenon DEF IInv, Ordered, DependenciesPassed
<1>3. Cancelled'
  BY Zenon DEF IInv, Cancelled, runtimeVars
<1>4. Concluded'
  <2>1. result' = "none" /\ receipt' # run' /\ run' > 0
    BY ZenonT(30) DEF IInv, Concluded, Over
  <2>2. QED
    BY <2>1, ZenonT(30) DEF IInv, Concluded, Over
<1>5. QED
  BY <1>1, <1>2, <1>3, <1>4, ZenonT(30) DEF IInv

\* What a step has to show for what the run has established so far.
LEMMA EstablishedKept ==
  ASSUME IInv, Advances, UNCHANGED <<row, movedEarly, promoted>>,
         pc \notin {"seal", "publish"},
         pc' \in Inspected => ~movedEarly,
         pc' \in {"barrier", "join"} => Len(plan) = 1,
         pc' \in {"outerBarrier", "outerJoin"} => Len(plan) # 1,
         pc' \in {"promote", "seal", "publish"} /\ Len(plan) = 1 => Accounted(Range(Row)),
         pc' = "publish" => Accounted(PlannedChecks)
  PROVE  Established'
<1> USE DEF Advances
<1>1. /\ Accounted(Range(Row)) => Accounted(Range(Row))'
      /\ Accounted(PlannedChecks) => Accounted(PlannedChecks)'
  BY AccountsKept, Zenon
<1>2. Len(plan) = 1 => promoted = {}
  BY Zenon DEF IInv, Established, Over
<1>3. QED
  BY <1>1, <1>2, Zenon DEF IInv, Established, AllPassed

\* The two together, for a step within a row.
LEMMA StepKeeps ==
  ASSUME IInv, Advances, UNCHANGED <<row, index, movedEarly, promoted>>,
         pc \notin {"seal", "publish"},
         pc' \in AfterLoop => index = Len(plan[row]) + 1,
         pc' \in Last => row = Len(plan),
         pc' \in {"enter", "probe", "prepare"} \cup Last => lock' # run,
         pc' \in Inspected => ~movedEarly,
         pc' \in {"barrier", "join"} => Len(plan) = 1,
         pc' \in {"outerBarrier", "outerJoin"} => Len(plan) # 1,
         pc' \in {"promote", "seal", "publish"} /\ Len(plan) = 1 => Accounted(Range(Row)),
         pc' = "publish" => Accounted(PlannedChecks)
  PROVE  IInv'
<1>1. Place'
  BY PlaceKept, Zenon DEF IInv, Advances
<1>2. Established'
  BY EstablishedKept, Zenon
<1>3. QED
  BY <1>1, <1>2, AdvanceKeeps, Zenon

-----------------------------------------------------------------------------
(* The steps of a run.                                                     *)

\* FailWith, wherever it is called.
LEMMA FailWithKeeps ==
  ASSUME IInv, NEW e, e \notin {"none", "ok"}, FailWith(e), pc \notin Over,
         kept' = kept, outcome' \in {outcome, NoOutcome},
         movedEarly' = movedEarly \/ (pc = "loop" /\ movedEarly' = moved),
         UNCHANGED <<box, code, pending, token, thread, trip, plan, row, index, run, evidence,
                     moved, promoted, receipt, overall>>
  PROVE  IInv'
<1>1. lock' \in 0..run /\ lock' # run
  BY DEF IInv, Concluded, FailWith, Over
<1>2. Aborts
  BY <1>1, Zenon DEF Aborts, FailWith
<1>3. QED
  BY <1>2, AbortKeeps, ZenonT(30)

\* From the first look at the token to the loop: every step goes on, or the run fails.
LEMMA PreparationKeeps ==
  ASSUME IInv, Enter \/ Probe \/ Prepare \/ Render
  PROVE  IInv'
<1> USE DEF quiet, position, records, rest, runtimeVars, watchdogVars
<1>1. CASE \E e \in RunErrors : FailWith(e)
  <2>1. PICK e \in RunErrors : FailWith(e)
    BY <1>1, ZenonT(30)
  <2>2. e \notin {"none", "ok"}
    BY DEF RunErrors
  <2>3. pc \notin Over
    BY ZenonT(30) DEF Enter, Probe, Prepare, Render, Over
  <2>4. QED
    BY <2>1, <2>2, <2>3, FailWithKeeps, Zenon DEF Enter, Probe, Prepare, Render
<1>2. CASE ~\E e \in RunErrors : FailWith(e)
  <2>1. <<pc, pc'>> \in {<<"enter", "probe">>, <<"probe", "prepare">>, <<"prepare", "render">>,
                         <<"render", "loop">>}
    BY <1>2, ZenonT(30) DEF Enter, Probe, Prepare, Render, RunErrors
  <2>2. lock' \in 0..run /\ (pc' \in {"probe", "prepare"} => lock' # run)
    BY <1>2 DEF Enter, Probe, Prepare, Render, RunErrors, IInv, Concluded
  <2>3. UNCHANGED <<runtimeVars, token, thread, trip, plan, row, index, run, evidence, moved,
                    movedEarly, promoted, receipt, overall, result>>
    BY <1>2, ZenonT(30) DEF Enter, Probe, Prepare, Render, RunErrors
  <2>4. Advances
    BY <2>1, <2>2, <2>3, ZenonT(30) DEF Advances, Over
  <2>5. QED
    BY <2>1, <2>2, <2>3, <2>4, StepKeeps, ZenonT(30) DEF AfterLoop, Inspected, Last
<1>3. QED
  BY <1>1, <1>2

\* After the loop: what the run saw of the checkout is what it had at the end of the last check.
LEMMA LoopEndKeeps ==
  ASSUME IInv, LoopEnds
  PROVE  IInv'
<1> USE DEF quiet, position, records, runtimeVars, watchdogVars
<1>1. CASE FailWith("pressure")
  BY <1>1, FailWithKeeps, ZenonT(30) DEF LoopEnds, Over
<1>2. CASE pc' = "inspect" /\ UNCHANGED <<result, lock>>
  <2>1. Advances
    <3>1. pc = "loop" /\ lock' \in 0..run
      BY <1>2, Zenon DEF LoopEnds, IInv, Concluded
    <3>2. UNCHANGED <<runtimeVars, token, thread, trip, plan, run, evidence, moved, receipt,
                      overall, result>>
      BY <1>2, Zenon DEF LoopEnds
    <3>3. QED
      BY <1>2, <3>1, <3>2 DEF Advances, Over
  <2>2. index = Len(plan[row]) + 1
    <3>1. index \in 1..(Len(plan[row]) + 1) /\ index > Len(plan[row])
      BY <1>2, ZenonT(30) DEF IInv, Place, LoopEnds, Row
    <3>2. Len(plan[row]) \in Nat
      BY PlanFacts, ZenonT(30) DEF IInv, Place
    <3>3. \A n \in Nat : \A i \in 1..(n + 1) : i > n => i = n + 1
      OBVIOUS
    <3>4. QED
      BY <3>1, <3>2, <3>3, ZenonT(30)
  <2>3. Place'
    BY <1>2, <2>2, PlaceKept DEF IInv, LoopEnds, Last
  <2>4. Established'
    <3>1. Len(plan) = 1 => promoted = {}
      BY ZenonT(30) DEF IInv, Established, Over, LoopEnds
    <3>2. QED
      BY <1>2, <3>1, ZenonT(30) DEF IInv, Established, LoopEnds, Inspected, Last, AllPassed
  <2>5. QED
    BY <1>2, <2>1, <2>3, <2>4, AdvanceKeeps, ZenonT(30) DEF Last
<1>3. QED
  BY <1>1, <1>2, ZenonT(30) DEF LoopEnds

\* The confirmation of the commit, the snapshot and the artifacts.
LEMMA ConfirmationKeeps ==
  ASSUME IInv, InspectRepository \/ Revalidate \/ ObserveArtifacts
  PROVE  IInv'
<1> USE DEF quiet, position, records, rest, runtimeVars, watchdogVars
<1>1. CASE \E e \in RunErrors : FailWith(e)
  <2>1. PICK e \in RunErrors : FailWith(e)
    BY <1>1
  <2>2. e \notin {"none", "ok"}
    BY DEF RunErrors
  <2>3. pc \notin Over
    BY ZenonT(30) DEF InspectRepository, Revalidate, ObserveArtifacts, Over
  <2>4. QED
    BY <2>1, <2>2, <2>3, FailWithKeeps, Zenon DEF InspectRepository, Revalidate, ObserveArtifacts
<1>2. CASE ~\E e \in RunErrors : FailWith(e)
  <2>1. \/ pc = "inspect" /\ pc' = "revalidate" /\ ~moved
        \/ pc = "revalidate" /\ pc' = "observe"
        \/ pc = "observe" /\ pc' \in {"promote", "barrier"} /\ (pc' = "promote" <=> Matrix)
    BY <1>2, ZenonT(30) DEF InspectRepository, Revalidate, ObserveArtifacts, RunErrors
  <2>2. UNCHANGED <<runtimeVars, token, thread, trip, plan, row, index, run, evidence, moved,
                    movedEarly, promoted, receipt, overall, result, lock>>
    BY <1>2, ZenonT(30) DEF InspectRepository, Revalidate, ObserveArtifacts, RunErrors
  <2>3. Advances
    BY <2>1, <2>2, ZenonT(30) DEF Advances, Over, IInv, Concluded
  <2>4. index = Len(plan[row]) + 1
    BY <2>1, ZenonT(30) DEF IInv, Place, AfterLoop, Inspected
  <2>5. ~movedEarly
    BY <2>1, ZenonT(30) DEF IInv, Established, Inspected
  <2>6. Matrix <=> Len(plan) # 1
    BY MatrixRows, Zenon DEF IInv
  <2>7. QED
    BY <2>1, <2>2, <2>3, <2>4, <2>5, <2>6, StepKeeps, ZenonT(30) DEF Last
<1>3. QED
  BY <1>1, <1>2

\* The end of the watchdog.
LEMMA BarrierKeeps ==
  ASSUME IInv, (StopWatchdog /\ pc # "complete") \/ JoinBarrier
  PROVE  IInv'
<1> USE DEF quiet, position, records, rest, outside, runtimeVars, watchdogVars, TellToStop
<1>1. CASE FailWith("pressure")
  BY <1>1, FailWithKeeps, ZenonT(30) DEF StopWatchdog, JoinBarrier, Over, FailWith
<1>2. CASE ~FailWith("pressure")
  <2>1. \/ pc = "barrier" /\ pc' = "join"
        \/ pc = "outerBarrier" /\ pc' = "outerJoin"
        \/ pc = "join" /\ pc' = "promote" /\ Accounted(Range(Row))
        \/ pc = "outerJoin" /\ pc' = "publish" /\ Accounted(PlannedChecks)
    BY <1>2, Zenon DEF StopWatchdog, JoinBarrier, Accounted
  <2>2. UNCHANGED <<runtimeVars, token, thread, trip, plan, row, index, run, evidence, moved,
                    movedEarly, promoted, receipt, overall, result, lock>>
    BY <1>2, Zenon DEF StopWatchdog, JoinBarrier
  <2>3. Advances
    BY <2>1, <2>2, ZenonT(30) DEF Advances, Over, IInv, Concluded
  <2>4. index = Len(plan[row]) + 1 /\ (pc \in Last => row = Len(plan))
    BY <2>1, ZenonT(30) DEF IInv, Place, AfterLoop, Inspected, Last
  <2>5. /\ ~movedEarly /\ (pc = "barrier" => Len(plan) = 1)
        /\ pc \in {"outerBarrier", "outerJoin"} => Len(plan) # 1
    BY <2>1, ZenonT(30) DEF IInv, Established, Inspected, Last
  <2>6. pc \in Last => lock # run
    BY Zenon DEF IInv, Concluded
  <2>7. QED
    BY <2>1, <2>2, <2>3, <2>4, <2>5, <2>6, StepKeeps, ZenonT(30) DEF Last
<1>3. QED
  BY <1>1, <1>2

\* The promotion of the row's caches.
LEMMA PromotionKeeps ==
  ASSUME IInv, MarkCachesComplete
  PROVE  IInv'
<1> USE DEF quiet, position, records, runtimeVars, watchdogVars
<1>1. CASE FailWith("workspace") /\ UNCHANGED promoted
  BY <1>1, FailWithKeeps, ZenonT(30) DEF MarkCachesComplete, Over
<1>2. CASE /\ promoted' = promoted \/ (AllPassed(Range(Row)) /\ promoted' = promoted \cup {row})
           /\ pc' = "seal" /\ UNCHANGED <<result, lock>>
  <2>1. Advances
    <3>1. pc = "promote" /\ lock' \in 0..run
      BY <1>2, Zenon DEF MarkCachesComplete, IInv, Concluded
    <3>2. UNCHANGED <<runtimeVars, token, thread, trip, plan, run, evidence, moved, receipt,
                      overall, result>>
      BY <1>2, Zenon DEF MarkCachesComplete
    <3>3. QED
      BY <1>2, <3>1, <3>2, ZenonT(30) DEF Advances, Over
  <2>2. index = Len(plan[row]) + 1
    BY ZenonT(30) DEF IInv, Place, AfterLoop, Inspected, MarkCachesComplete
  <2>3. Place'
    BY <1>2, <2>2, PlaceKept, ZenonT(30) DEF IInv, MarkCachesComplete, Last
  <2>4. UNCHANGED <<plan, row, evidence, thread, trip, movedEarly, moved>>
    BY Zenon DEF MarkCachesComplete
  <2>5. Accounted(Range(Row)) => Accounted(Range(Row))'
    BY <2>4, AccountsKept, Zenon
  <2>6. ~movedEarly /\ (Len(plan) = 1 => Accounted(Range(Row)) /\ promoted = {})
    BY ZenonT(30) DEF IInv, Established, Inspected, MarkCachesComplete, Over
  <2>7. ASSUME NEW r \in promoted'
        PROVE  /\ r \in 1..Len(plan') /\ AllPassed(Range(plan[r]))'
               /\ Len(plan') = 1 => /\ pc' \in {"seal", "publish"} \cup Over
                                    /\ ~movedEarly' /\ Joinable(me)' /\ trip'[me] = "none"
    <3>1. CASE r \in promoted
      BY <1>2, <2>4, <2>6, <3>1, Zenon DEF IInv, Established, AllPassed
    <3>2. CASE r = row /\ AllPassed(Range(Row))
      <4>1. r \in 1..Len(plan)
        BY <3>2, Zenon DEF IInv, Place
      <4>2. AllPassed(Range(plan[r]))'
        BY <2>4, <3>2, Zenon DEF AllPassed, Row
      <4>3. ~PressureRecorded(Range(Row))
        BY <3>2 DEF AllPassed, PressureRecorded, NotRun
      <4>4. Len(plan) = 1 => Joinable(me) /\ trip[me] = "none"
        BY <2>6, <4>3, Zenon DEF Accounted, TripAccepted
      <4>5. QED
        BY <1>2, <2>4, <2>6, <4>1, <4>2, <4>4, Zenon DEF Joinable
    <3>3. QED
      BY <1>2, <2>7, <3>1, <3>2, Zenon
  <2>8. Established'
    <3>1. movedEarly' => moved'
      BY <2>4, <2>6, ZenonT(30)
    <3>2. QED
      BY <1>2, <2>4, <2>5, <2>6, <2>7, <3>1, ZenonT(30) DEF Established
  <2>9. QED
    BY <1>2, <2>1, <2>3, <2>8, AdvanceKeeps, ZenonT(30) DEF Last
<1>3. QED
  BY <1>1, <1>2, ZenonT(30) DEF MarkCachesComplete

\* The next row begins where this one ended.
LEMMA NextRowKeeps ==
  ASSUME IInv, Seal, row < Len(plan), pc' = "enter", row' = row + 1, index' = 1, lock' = 0,
         result' = result
  PROVE  IInv'
<1> USE DEF quiet, rest, runtimeVars, watchdogVars
<1>1. UNCHANGED <<runtimeVars, token, thread, trip, plan, run, evidence, moved, movedEarly,
                  promoted, receipt, overall, result>>
  BY Zenon DEF Seal
<1>2. pc = "seal" /\ run > 0 /\ run \in Nat
  BY ZenonT(30) DEF Seal, IInv, Concluded
<1>3. Advances
  BY <1>1, <1>2 DEF Advances, Over
<1>4. Place'
  <2>1. /\ Len(plan) \in Nat /\ row \in 1..Len(plan) /\ index = Len(plan[row]) + 1
        /\ \A r \in 1..Len(plan) : Len(plan[r]) \in Nat
    BY <1>2, PlanFacts, ZenonT(30) DEF IInv, Place, AfterLoop, Inspected
  <2>2. row' \in 1..Len(plan') /\ index' \in 1..(Len(plan'[row']) + 1)
    BY <1>1, <2>1
  <2>3. ASSUME NEW c \in Check PROVE Behind(c)' <=> Behind(c)
    <3>1. \A r \in 1..row : Len(plan[r]) \in Nat
      BY <2>1
    <3>2. \A r \in 1..row : \A i \in 1..Len(plan[r]) : r < row \/ i < index
      BY <2>1
    <3>3. Behind(c) <=> \E r \in 1..row : \E i \in 1..Len(plan[r]) : plan[r][i] = c
      BY <3>2, Zenon DEF Behind
    <3>4. \A r \in 1..row' : \A i \in 1..Len(plan[r]) : (r < row' \/ i < index') <=> r \in 1..row
      BY <2>1, <3>1
    <3>5. \A r \in 1..row : r \in 1..row'
      BY <2>1
    <3>6. Behind(c)' <=> \E r \in 1..row : \E i \in 1..Len(plan[r]) : plan[r][i] = c
      BY <1>1, <3>4, <3>5, Zenon DEF Behind
    <3>7. QED
      BY <3>3, <3>6, ZenonT(30)
  <2>4. QED
    BY <1>1, <2>2, <2>3, ZenonT(30) DEF IInv, Place, AfterLoop, Inspected, Last
<1>5. Established'
  <2>1. Len(plan) # 1
    BY PlanFacts DEF IInv, Place
  <2>2. QED
    BY <1>1, <2>1, ZenonT(30) DEF IInv, Established, Inspected, Last, AllPassed
<1>6. QED
  BY <1>2, <1>3, <1>4, <1>5, AdvanceKeeps

\* The receipt of a row, and of the last one.
LEMMA SealKeeps ==
  ASSUME IInv, Seal
  PROVE  IInv'
<1> USE DEF quiet, rest, runtimeVars, watchdogVars
<1>1. CASE FailWith("receipt") /\ UNCHANGED <<row, index, terminal>>
  BY <1>1, FailWithKeeps, ZenonT(30) DEF Seal, Over
<1>2. CASE /\ lock' = 0 /\ UNCHANGED result
           /\ Matrix /\ row < Len(plan) /\ pc' = "enter" /\ row' = row + 1 /\ index' = 1
  BY <1>2, NextRowKeeps, ZenonT(30)
<1>3. CASE /\ lock' = 0 /\ UNCHANGED <<result, row, index>>
           /\ \/ ~Matrix /\ pc' = "publish"
              \/ Matrix /\ row = Len(plan) /\ pc' = "outerBarrier"
  <2>1. UNCHANGED <<runtimeVars, token, thread, trip, plan, row, run, evidence, moved, movedEarly,
                    promoted, receipt, overall, result>>
    BY <1>3, Zenon DEF Seal
  <2>2. pc = "seal" /\ run > 0 /\ run \in Nat /\ pc' \in {"publish", "outerBarrier"}
    BY <1>3, ZenonT(30) DEF Seal, IInv, Concluded
  <2>3. Advances
    BY <1>3, <2>1, <2>2 DEF Advances, Over
  <2>4. Matrix <=> Len(plan) # 1
    BY MatrixRows, Zenon DEF IInv
  <2>5. row = Len(plan) /\ index = Len(plan[row]) + 1
    <3>1. row \in 1..Len(plan) /\ index = Len(plan[row]) + 1
      BY <2>2, ZenonT(30) DEF IInv, Place, AfterLoop, Inspected
    <3>2. \A r \in 1..1 : r = 1
      OBVIOUS
    <3>3. QED
      BY <1>3, <2>4, <3>1, <3>2, Zenon
  <2>6. Place'
    BY <1>3, <2>1, <2>2, <2>5, PlaceKept, ZenonT(30) DEF IInv
  <2>7. Len(plan) = 1 => Accounted(Range(Row))
    BY <2>2, ZenonT(30) DEF IInv, Established
  <2>8. Accounted(Range(Row)) => Accounted(PlannedChecks)
    <3>1. Range(Row) \subseteq PlannedChecks
      BY PlanFacts, Zenon DEF IInv, Place, Row
    <3>2. QED
      BY <3>1, Zenon DEF Accounted, TripAccepted, PressureRecorded
  <2>9. /\ Accounted(Range(Row)) => Accounted(Range(Row))'
        /\ Accounted(PlannedChecks) => Accounted(PlannedChecks)'
    BY <2>1, AccountsKept, Zenon
  <2>10. Established'
    <3>1. ~movedEarly
      BY <2>2, ZenonT(30) DEF IInv, Established, Inspected
    <3>2. ASSUME NEW r \in promoted'
          PROVE  /\ r \in 1..Len(plan') /\ AllPassed(Range(plan[r]))'
                 /\ Len(plan') = 1 => ~movedEarly' /\ Joinable(me)' /\ trip'[me] = "none"
      BY <2>1, <3>2, Zenon DEF IInv, Established, AllPassed, Joinable
    <3>3. Len(plan) = 1 => pc' = "publish"
      BY <1>3, <2>4, ZenonT(30)
    <3>4. pc' = "publish" => Len(plan) = 1
      BY <1>3, <2>2, <2>4, ZenonT(30)
    <3>5. QED
      BY <2>1, <2>2, <2>7, <2>8, <2>9, <3>1, <3>2, <3>3, <3>4, ZenonT(30) DEF Established
  <2>11. QED
    BY <1>3, <2>2, <2>3, <2>6, <2>10, AdvanceKeeps
<1>4. QED
  BY <1>1, <1>2, <1>3, ZenonT(30) DEF Seal

-----------------------------------------------------------------------------
(* The end of a run.                                                       *)

\* The steps after the verdict leave everything but the receipt and the result as it is.
Ends ==
    /\ pc \in {"publish", "complete", "finalJoin"} /\ pc' \in Over
    /\ UNCHANGED <<runtimeVars, token, thread, trip, plan, row, index, run, evidence, moved, lock,
                   movedEarly, promoted>>

\* So they keep everything but what they have to show of these two.
LEMMA EndKeeps ==
  ASSUME IInv, Ends, Concluded'
  PROVE  IInv'
<1> USE DEF Ends
<1>1. Place'
  BY PlaceKept, ZenonT(30) DEF IInv, Over, AfterLoop, Inspected, Last
<1>2. Containers'
  BY Zenon DEF IInv, Containers, Untouched, Over, runtimeVars
<1>3. Ordered'
  BY Zenon DEF IInv, Ordered, DependenciesPassed, Over
<1>4. Cancelled'
  BY Zenon DEF IInv, Cancelled, runtimeVars
<1>5. Established'
  BY ZenonT(30) DEF IInv, Established, Over, Inspected, Last, AllPassed, Joinable
<1>6. QED
  BY <1>1, <1>2, <1>3, <1>4, <1>5, ZenonT(30) DEF IInv

\* The verdict of a receipt is what the evidence says: when it is published every planned check has
\* had its turn.
LEMMA PublishKeeps ==
  ASSUME IInv, Publish
  PROVE  IInv'
<1> USE DEF quiet, position, records, runtimeVars, watchdogVars
<1>1. UNCHANGED <<runtimeVars, token, thread, trip, plan, row, index, run, evidence, moved, lock,
                  movedEarly, promoted>>
  BY Zenon DEF Publish
<1>2. pc = "publish" /\ pc' = "complete"
  BY Zenon DEF Publish
<1>3. Ends
  BY <1>1, <1>2, ZenonT(30) DEF Ends, Over
<1>4. ASSUME NEW c \in PlannedChecks
      PROVE  evidence[c].status \in {"pass", "fail", "not_run"}
  <2>1. row = Len(plan) /\ index = Len(plan[row]) + 1
    BY <1>2, ZenonT(30) DEF IInv, Place, AfterLoop, Inspected, Last
  <2>2. PICK r \in 1..Len(plan) : \E i \in 1..Len(plan[r]) : c = plan[r][i]
    BY PlanFacts, Zenon DEF IInv
  <2>3. PICK i \in 1..Len(plan[r]) : c = plan[r][i]
    BY <2>2, ZenonT(30)
  <2>4. Len(plan) \in Nat /\ Len(plan[r]) \in Nat /\ c \in Check
    BY <2>3, PlanFacts, Zenon DEF IInv
  <2>5. r \in 1..row /\ (r < row \/ i < index)
    BY <2>1, <2>4
  <2>6. Behind(c)
    BY <2>3, <2>5, Zenon DEF Behind
  <2>7. QED
    BY <2>4, <2>6, ZenonT(30) DEF IInv, Place
<1>5. OverallStatus(PlannedChecks) = "pass" => AllPassed(PlannedChecks \cap Required)
  BY <1>4, ZenonT(30) DEF OverallStatus, DeriveStatus, AllPassed
<1>6. Accounted(PlannedChecks) /\ ~movedEarly
  BY <1>2, ZenonT(30) DEF IInv, Established, Inspected, Last
<1>7. /\ Accounted(PlannedChecks)'
      /\ AllPassed(PlannedChecks \cap Required) => AllPassed(PlannedChecks \cap Required)'
  <2>1. PlannedChecks' = PlannedChecks
    BY <1>1, Zenon DEF PlannedChecks
  <2>2. QED
    BY <1>1, <1>6, <2>1, AccountsKept, Zenon DEF AllPassed
<1>8. run \in Nat /\ run > 0 /\ lock \in 0..run /\ lock # run /\ receipt \in 0..run /\ receipt # run
  BY <1>2, ZenonT(30) DEF IInv, Concluded, Over, Last
<1>9. \/ receipt' = run /\ overall' = OverallStatus(PlannedChecks) /\ result' = "ok"
      \/ result' \in {"receipt", "io", "terminal"} /\ UNCHANGED <<receipt, overall>>
  BY Zenon DEF Publish
<1>10. Concluded'
  BY <1>1, <1>2, <1>5, <1>6, <1>7, <1>8, <1>9 DEF Concluded, Over, Last
<1>11. QED
  BY <1>3, <1>10, EndKeeps

\* The last look at the watchdog finds what the barrier found.
LEMMA CompletionKeeps ==
  ASSUME IInv, Complete \/ (StopWatchdog /\ pc = "complete")
  PROVE  IInv'
<1> USE DEF quiet, position, records, outside, runtimeVars, watchdogVars, TellToStop
<1>1. UNCHANGED <<runtimeVars, token, thread, trip, plan, row, index, run, evidence, moved, lock,
                  movedEarly, promoted, receipt, overall>>
  BY Zenon DEF Complete, StopWatchdog
<1>2. pc \in {"complete", "finalJoin"} /\ pc' \in {"idle", "finalJoin"}
  BY ZenonT(30) DEF Complete, StopWatchdog
<1>3. Ends
  BY <1>1, <1>2, ZenonT(30) DEF Ends, Over
<1>4. \/ result' = result
      \/ pc' = "idle" /\ result' = "terminal"
      \/ result # "ok" /\ result' = "pressure"
  <2>1. CASE Complete
    <3>1. result = "ok" => TripAccepted(PlannedChecks)
      BY <2>1, ZenonT(30) DEF Complete, IInv, Concluded, Accounted
    <3>2. QED
      BY <2>1, <3>1, ZenonT(30) DEF Complete, Reconciled
  <2>2. CASE StopWatchdog
    BY <2>2, Zenon DEF StopWatchdog
  <2>3. QED
    BY <2>1, <2>2
<1>5. /\ Accounted(PlannedChecks) => Accounted(PlannedChecks)'
      /\ AllPassed(PlannedChecks \cap Required) => AllPassed(PlannedChecks \cap Required)'
  <2>1. PlannedChecks' = PlannedChecks
    BY <1>1, Zenon DEF PlannedChecks
  <2>2. QED
    BY <1>1, <2>1, AccountsKept, Zenon DEF AllPassed
<1>6. Concluded'
  BY <1>1, <1>2, <1>4, <1>5, ZenonT(30) DEF IInv, Concluded, Over, Last
<1>7. QED
  BY <1>3, <1>6, EndKeeps, ZenonT(30)

-----------------------------------------------------------------------------
(* The loop.                                                               *)

\* A check is given its evidence, and the loop goes on.
Notes(e) ==
    /\ pc \in {"loop", "check"} /\ pc' = "loop" /\ index <= Len(plan[row])
    /\ evidence' = [evidence EXCEPT ![Current] = e] /\ index' = index + 1
    /\ outcome' \in {outcome, NoOutcome}
    /\ UNCHANGED <<kept, box, code, pending, token, thread, trip, plan, row, run, moved, movedEarly,
                   promoted, receipt, overall, lock, result>>

\* Evidence is given once, so what a check had is never taken back.
LEMMA NoteKeeps ==
  ASSUME IInv, NEW e, Notes(e), e.status \in {"pass", "fail", "not_run"},
         e.flag = "cancelled" => token[me] = "user",
         e.status = "pass" =>
           code[Current] = "zero" /\ Untouched(Current) /\ DependenciesPassed(Current)
  PROVE  IInv'
<1> DEFINE now == Current
<1> HIDE DEF now
<1>1. now \in Check /\ evidence[now].status = "none"
  BY CurrentIsNew, Zenon DEF IInv, Notes, now
<1>2. /\ DOMAIN evidence' = Check /\ evidence'[now] = e
      /\ \A d \in Check \ {now} : evidence'[d] = evidence[d]
  <2>1. DOMAIN evidence = Check
    BY ZenonT(30) DEF IInv, Place
  <2>2. evidence' = [evidence EXCEPT ![now] = e]
    BY ZenonT(30) DEF Notes, now
  <2>3. QED
    BY <1>1, <2>1, <2>2, ZenonT(30)
<1>3. \A d \in Check : evidence[d].status = "pass" => evidence'[d] = evidence[d]
  BY <1>1, <1>2, ZenonT(30)
<1>4. Place'
  <2>1. row \in 1..Len(plan) /\ index \in 1..(Len(plan[row]) + 1) /\ Len(plan[row]) \in Nat
    BY PlanFacts, Zenon DEF IInv, Place
  <2>2. \A d \in Check : Behind(d)' <=> Behind(d) \/ d = now
    BY BehindMoves, Zenon DEF IInv, Notes, now
  <2>3. \A d \in Check :
          /\ evidence'[d].status \in {"none", "pass", "fail", "not_run"}
          /\ evidence'[d].status # "none" <=> Behind(d)'
    <3> TAKE d \in Check
    <3>1. CASE d = now
      BY <1>2, <2>2, <3>1, ZenonT(30)
    <3>2. CASE d # now
      BY <1>2, <2>2, <3>2, Zenon DEF IInv, Place
    <3>3. QED
      BY <3>1, <3>2, ZenonT(30)
  <2>4. plan' \in Plans /\ row' \in 1..Len(plan') /\ index' \in 1..(Len(plan'[row']) + 1)
    BY <2>1 DEF IInv, Place, Notes
  <2>5. QED
    BY <1>2, <2>3, <2>4, ZenonT(30) DEF Place, Notes, AfterLoop, Inspected, Last
<1>5. Containers'
  <2>1. \A d \in Check : evidence'[d].status = "pass" => code[d] = "zero" /\ Untouched(d)
    <3> TAKE d \in Check
    <3>1. CASE d = now
      BY <1>2, <3>1, Zenon DEF now
    <3>2. CASE d # now
      BY <1>2, <3>2, Zenon DEF IInv, Containers
    <3>3. QED
      BY <3>1, <3>2, ZenonT(30)
  <2>2. \A d \in Check : evidence'[d].status = "none" => Untouched(d)
    <3> TAKE d \in Check
    <3>1. CASE d = now
      BY <1>2, <3>1, ZenonT(30)
    <3>2. CASE d # now
      BY <1>2, <3>2, ZenonT(30) DEF IInv, Containers, now, Notes, Over
    <3>3. QED
      BY <3>1, <3>2, ZenonT(30)
  <2>3. \A d \in Check : Untouched(d)' <=> Untouched(d)
    BY Zenon DEF Untouched, Notes
  <2>4. pc' = "loop" /\ box' = box /\ code' = code /\ DOMAIN box = Check /\ DOMAIN code = Check
    BY Zenon DEF Notes, IInv, Containers
  <2>5. QED
    BY <2>1, <2>2, <2>3, <2>4, ZenonT(30) DEF Containers
<1>6. Ordered'
  <2>1. \A d \in Check : DependenciesPassed(d) => DependenciesPassed(d)'
    <3>1. \A d \in Check : Deps[d] \subseteq Check
      BY PlanAssumption, ZenonT(30)
    <3>2. QED
      BY <1>3, <3>1, Zenon DEF DependenciesPassed
  <2>2. \A d \in Check : evidence'[d].status = "pass" => DependenciesPassed(d)
    <3> TAKE d \in Check
    <3>1. CASE d = now
      BY <1>2, <3>1, Zenon DEF now
    <3>2. CASE d # now
      BY <1>2, <3>2, Zenon DEF IInv, Ordered
    <3>3. QED
      BY <3>1, <3>2, ZenonT(30)
  <2>3. QED
    BY <2>1, <2>2, ZenonT(30) DEF Ordered, Notes
<1>7. Cancelled'
  <2>1. \A d \in Check : evidence'[d].flag = "cancelled" => token[me] = "user"
    <3> TAKE d \in Check
    <3>1. CASE d = now
      BY <1>2, <3>1, ZenonT(30)
    <3>2. CASE d # now
      BY <1>2, <3>2, Zenon DEF IInv, Cancelled
    <3>3. QED
      BY <3>1, <3>2, ZenonT(30)
  <2>2. outcome'.termination = "cancelled" => outcome.termination = "cancelled"
    BY DEF Notes, NoOutcome, Err
  <2>3. QED
    BY <2>1, <2>2, Zenon DEF IInv, Cancelled, Notes
<1>8. Established'
  <2>1. Len(plan) = 1 => promoted = {}
    BY ZenonT(30) DEF IInv, Established, Over, Notes
  <2>2. ASSUME NEW r \in promoted PROVE r \in 1..Len(plan) /\ AllPassed(Range(plan[r]))'
    <3>1. r \in 1..Len(plan) /\ AllPassed(Range(plan[r]))
      BY Zenon DEF IInv, Established
    <3>2. Range(plan[r]) \subseteq Check
      BY <3>1, RowChecks, Zenon DEF IInv
    <3>3. QED
      BY <1>3, <3>1, <3>2, Zenon DEF AllPassed, Notes
  <2>3. QED
    BY <2>1, <2>2, ZenonT(30) DEF IInv, Established, Inspected, Last, Notes
<1>9. Concluded'
  BY ZenonT(30) DEF IInv, Concluded, Over, Last, Notes
<1>10. QED
  BY <1>4, <1>5, <1>6, <1>7, <1>8, <1>9, ZenonT(30) DEF IInv

\* The four things the loop does with a check.
LEMMA NextCheckKeeps ==
  ASSUME IInv, NextCheck
  PROVE  IInv'
<1> USE DEF position, records, outside, watchdogVars, runtimeVars
<1>1. pc = "loop" /\ index <= Len(plan[row])
  BY Zenon DEF NextCheck, Row
<1>2. ASSUME NEW reason, NEW t, Note(NotRun(reason), t), UNCHANGED <<pc, runtimeVars>>
      PROVE  IInv'
  <2>1. Notes(NotRun(reason))
    BY <1>1, <1>2, ZenonT(30) DEF NextCheck, Note, Notes
  <2>2. NotRun(reason).status = "not_run" /\ NotRun(reason).flag = "none"
    BY ZenonT(30) DEF NotRun
  <2>3. QED
    BY <2>1, <2>2, NoteKeeps, ZenonT(30)
<1>3. CASE /\ DependenciesPassed(Current) /\ pc' = "check"
           /\ \/ step' = "create" /\ UNCHANGED outcome
              \/ step' = "returned" /\ outcome' = Err("workspace")
           /\ UNCHANGED <<kept, box, code, pending, records>>
  <2>1. UNCHANGED <<kept, box, code, pending, token, thread, trip, plan, row, index, run, evidence,
                    lock, moved, movedEarly, promoted, receipt, overall, result>>
    BY <1>3, Zenon DEF NextCheck
  <2>2. Current \in Check /\ evidence[Current].status = "none" /\ Current' = Current
    BY <1>1, <2>1, CurrentIsNew, Zenon DEF IInv, Current, Row
  <2>3. Untouched(Current)
    BY <1>1, <2>2, ZenonT(30) DEF IInv, Containers, Over
  <2>4. Err("workspace").exit # "success" /\ Err("workspace").termination # "cancelled"
    BY ZenonT(30) DEF Err
  <2>5. Place'
    BY <1>1, <1>3, <2>1, PlaceKept, ZenonT(30) DEF IInv, AfterLoop, Inspected, Last
  <2>6. Containers'
    <3>1. \A d \in Check : Untouched(d)' <=> Untouched(d)
      BY <2>1, Zenon DEF Untouched
    <3>2. Handled(Current)'
      BY <1>3, <2>2, <2>3, <2>4, <3>1, ZenonT(30) DEF Handled, CleanupSteps
    <3>3. QED
      BY <1>1, <1>3, <2>1, <3>1, <3>2, ZenonT(30) DEF IInv, Containers, Over
  <2>7. Ordered'
    BY <1>3, <2>1, <2>2, Zenon DEF IInv, Ordered, DependenciesPassed
  <2>8. Cancelled'
    BY <1>3, <2>1, <2>4, Zenon DEF IInv, Cancelled
  <2>9. Established'
    BY <1>1, <1>3, <2>1, ZenonT(30) DEF IInv, Established, Over, Inspected, Last, AllPassed
  <2>10. Concluded'
    BY <1>1, <1>3, <2>1, ZenonT(30) DEF IInv, Concluded, Over, Last
  <2>11. QED
    BY <2>5, <2>6, <2>7, <2>8, <2>9, <2>10 DEF IInv
<1>4. QED
  BY <1>2, <1>3, Zenon DEF NextCheck

\* execute_check, one command at a time.
LEMMA ExecutesKeeps ==
  ASSUME IInv, Executes
  PROVE  IInv'
<1> USE DEF position, records, outside, watchdogVars
<1>1. /\ pc = "check" /\ RuntimeStep(Current, token[me])
      /\ UNCHANGED <<token, thread, trip, pc, plan, row, index, run, evidence, lock, moved,
                     movedEarly, promoted, receipt, overall, result>>
  BY Zenon DEF Executes
<1>2. Current \in Check /\ evidence[Current].status = "none" /\ Current' = Current
  <2>1. index <= Len(plan[row])
    BY <1>1, Zenon DEF IInv, Place
  <2>2. QED
    BY <1>1, <2>1, CurrentIsNew, Zenon DEF IInv, Current, Row
<1>3. Local(Current, token[me]) /\ Handled(Current)'
  <2>1. DOMAIN box = Check /\ DOMAIN code = Check /\ Handled(Current)
    BY <1>1, Zenon DEF IInv, Containers
  <2>2. \A c \in Check : c = Current => (Handled(c)' <=> Handled(Current)')
    BY <1>2, Zenon DEF Handled, Untouched
  <2>3. ASSUME NEW c \in Check, c = Current PROVE Local(c, token[me]) /\ Handled(c)'
    <3>1. RuntimeStep(c, token[me]) /\ Handled(c)
      BY <1>1, <2>1, <2>3, Zenon
    <3>2. QED
      BY <2>1, <3>1, RuntimeKeeps, Zenon
  <2>4. QED
    BY <1>2, <2>2, <2>3, Zenon
<1>4. Place'
  BY <1>1, PlaceKept, Zenon DEF IInv, Place
<1>5. Containers'
  <2>1. \A d \in Check \ {Current} :
          box'[d] = box[d] /\ code'[d] = code[d] /\ (Untouched(d) => Untouched(d)')
    BY <1>3, Zenon DEF Local, Untouched
  <2>2. \A d \in Check : evidence'[d].status = "pass" => code'[d] = "zero" /\ Untouched(d)'
    BY <1>1, <1>2, <2>1, ZenonT(30) DEF IInv, Containers
  <2>3. \A d \in Check : evidence'[d].status = "none" /\ d # Current => Untouched(d)'
    BY <1>1, <2>1, ZenonT(30) DEF IInv, Containers, Over
  <2>4. QED
    BY <1>1, <1>2, <1>3, <2>2, <2>3, Zenon DEF Containers, Local
<1>6. Ordered'
  BY <1>1, <1>2, Zenon DEF IInv, Ordered, DependenciesPassed
<1>7. Cancelled'
  BY <1>1, <1>3, Zenon DEF IInv, Cancelled, Local
<1>8. Established'
  BY <1>1, ZenonT(30) DEF IInv, Established, Over, Inspected, Last, AllPassed
<1>9. Concluded'
  BY <1>1, ZenonT(30) DEF IInv, Concluded, Over, Last
<1>10. QED
  BY <1>4, <1>5, <1>6, <1>7, <1>8, <1>9 DEF IInv

\* The result of execute_check becomes evidence, or ends the run.
LEMMA ConcludeKeeps ==
  ASSUME IInv, Conclude
  PROVE  IInv'
<1> USE DEF position, records, rest, watchdogVars
<1>1. /\ pc = "check" /\ step = "returned" /\ index <= Len(plan[row])
      /\ outcome' = NoOutcome
      /\ UNCHANGED <<kept, box, code, pending, token, thread, trip, plan, row, run, moved,
                     movedEarly, promoted, receipt, overall>>
  BY Zenon DEF Conclude, IInv, Place
<1>2. ASSUME NEW e \in {"invariant", "lifecycle"}, FailWith(e), UNCHANGED records
      PROVE  IInv'
  <2>1. e \notin {"none", "ok"} /\ pc \notin Over
    BY <1>1, ZenonT(30) DEF Over
  <2>2. QED
    BY <1>1, <1>2, <2>1, FailWithKeeps, ZenonT(30)
<1>3. ASSUME NEW reason, NEW t, Note(NotRun(reason), t), pc' = "loop", UNCHANGED <<result, lock>>
      PROVE  IInv'
  <2>1. Notes(NotRun(reason))
    BY <1>1, <1>3, ZenonT(30) DEF Note, Notes
  <2>2. NotRun(reason).status = "not_run" /\ NotRun(reason).flag = "none"
    BY DEF NotRun
  <2>3. QED
    BY <2>1, <2>2, NoteKeeps
<1>4. ASSUME ~(outcome.termination = "cancelled" /\ Pressure),
             Note(EvidenceFromResult(outcome), terminal), pc' = "loop", UNCHANGED <<result, lock>>
      PROVE  IInv'
  <2> DEFINE e == EvidenceFromResult(outcome)
  <2>1. Notes(e)
    BY <1>1, <1>4, ZenonT(30) DEF Note, Notes
  <2>2. /\ e.status \in {"pass", "fail", "not_run"}
        /\ e.flag = "cancelled" => outcome.termination = "cancelled"
        /\ e.status = "pass" => outcome.exit = "success"
    BY ZenonT(30) DEF EvidenceFromResult, EvidenceOf
  <2>3. e.flag = "cancelled" => token[me] = "user"
    BY <1>4, <2>2, OneOwner, ZenonT(30) DEF IInv, Cancelled, Pressure, Reasons
  <2>4. e.status = "pass" =>
          code[Current] = "zero" /\ Untouched(Current) /\ DependenciesPassed(Current)
    BY <1>1, <2>2, Zenon DEF IInv, Containers, Handled, Ordered
  <2>5. QED
    BY <2>1, <2>2, <2>3, <2>4, NoteKeeps, ZenonT(30)
<1>5. QED
  BY <1>2, <1>3, <1>4, Zenon DEF Conclude

-----------------------------------------------------------------------------
(* The daemon, the rest of the world, and a new process.                   *)

\* Whatever the daemon still carries out, no check that passed is touched.
LEMMA DaemonIsHarmless ==
  ASSUME IInv, NEW c \in Check, Daemon(c)
  PROVE  IInv'
<1> USE DEF position, records, outside, watchdogVars
<1>1. /\ DaemonStep(c)
      /\ UNCHANGED <<token, thread, trip, pc, plan, row, index, run, evidence, lock, moved,
                     movedEarly, promoted, receipt, overall, result>>
  BY Zenon DEF Daemon
<1>2. DOMAIN box = Check /\ DOMAIN code = Check
  BY Zenon DEF IInv, Containers
<1>3. /\ DOMAIN box' = Check /\ DOMAIN code' = Check
      /\ UNCHANGED <<step, kept, outcome>>
      /\ \A d \in Check :
           /\ Untouched(d) => Untouched(d)' /\ code'[d] = code[d]
           /\ box[d] = "exited" => box'[d] = "exited" /\ code'[d] = code[d]
           /\ <<d, "create">> \notin pending => <<d, "create">> \notin pending'
  BY <1>1, <1>2, DaemonKeeps, Zenon
<1>4. Place'
  BY <1>1, PlaceKept, Zenon DEF IInv, Place
<1>5. Containers'
  <2>1. ASSUME pc = "check" PROVE Handled(Current)'
    <3>1. Current \in Check /\ Current' = Current
      <4>1. index <= Len(plan[row])
        BY <2>1, Zenon DEF IInv, Place
      <4>2. QED
        BY <1>1, <4>1, CurrentIsNew, Zenon DEF IInv, Current, Row
    <3>2. Handled(Current)
      BY <2>1, Zenon DEF IInv, Containers
    <3>3. step \in CleanupSteps => step \notin {"create", "returned"}
      BY ZenonT(30) DEF CleanupSteps
    <3>4. QED
      BY <1>3, <3>1, <3>2, <3>3, ZenonT(30) DEF Handled, Untouched
  <2>2. QED
    BY <1>1, <1>3, <2>1, Zenon DEF IInv, Containers, Current, Row
<1>6. Ordered'
  BY <1>1, Zenon DEF IInv, Ordered, DependenciesPassed, Current, Row
<1>7. Cancelled'
  BY <1>1, <1>3, Zenon DEF IInv, Cancelled
<1>8. /\ Accounted(Range(Row)) => Accounted(Range(Row))'
      /\ Accounted(PlannedChecks) => Accounted(PlannedChecks)'
  BY <1>1, AccountsKept, Zenon
<1>9. Established'
  BY <1>1, <1>8, Zenon DEF IInv, Established, AllPassed, Joinable
<1>10. Concluded'
  <2>1. PlannedChecks' = PlannedChecks
    BY <1>1, Zenon DEF PlannedChecks
  <2>2. QED
    BY <1>1, <1>8, <2>1, Zenon DEF IInv, Concluded, AllPassed
<1>11. QED
  BY <1>4, <1>5, <1>6, <1>7, <1>9, <1>10, ZenonT(30) DEF IInv

\* The user, the watchdog's thread, the checkout and the workload.
LEMMA OutsidersKeep ==
  ASSUME IInv,
         UserCancels \/ WatchdogRuns \/ CheckoutMoves \/ \E c \in Check : WorkloadWrites(c)
  PROVE  IInv'
<1> USE DEF position, records, outside, quiet, watchdogVars
<1>1. /\ moved => moved'
      /\ UNCHANGED <<runtimeVars, pc, plan, row, index, run, evidence, lock, movedEarly, promoted,
                     receipt, overall, result>>
  BY DEF UserCancels, WatchdogRuns, CheckoutMoves, WorkloadWrites
<1>2. token \in [Owner -> Reasons] /\ DOMAIN thread = Owner /\ DOMAIN trip = Owner /\ me \in Owner
  BY OneOwner, ZenonT(30) DEF IInv, Cancelled
<1>3. /\ token' \in [Owner -> Reasons] /\ DOMAIN thread' = Owner /\ DOMAIN trip' = Owner
      /\ token[me] # "none" => token'[me] = token[me]
      /\ Joinable(me) => thread'[me] = thread[me] /\ trip'[me] = trip[me]
  <2>1. CASE UserCancels
    BY <1>2, <2>1, ZenonT(30) DEF UserCancels, SetReason, Reasons
  <2>2. CASE WatchdogRuns
    <3>1. CASE Wake(me)
      BY <1>2, <3>1, ZenonT(30) DEF Wake, EndThread, Joinable
    <3>2. CASE \E s \in Sample : SampleHost(me, s)
      BY <1>2, <3>2, ZenonT(30) DEF SampleHost, Record, Joinable
    <3>3. CASE SampleCancelled(me) \/ SampleFails(me)
      BY <1>2, <3>3, ZenonT(30) DEF SampleCancelled, SampleFails, Record, Joinable
    <3>4. CASE CancelRun(me)
      BY <1>2, <3>4, ZenonT(30) DEF CancelRun, SetReason, EndThread, Joinable, Reasons
    <3>5. QED
      BY <2>2, <3>1, <3>2, <3>3, <3>4, ZenonT(30) DEF WatchdogRuns, ThreadStep
  <2>3. CASE CheckoutMoves \/ \E c \in Check : WorkloadWrites(c)
    BY <1>2, <2>3, ZenonT(30) DEF CheckoutMoves, WorkloadWrites
  <2>4. QED
    BY <2>1, <2>2, <2>3, ZenonT(30)
<1>4. Outsider
  BY <1>1, <1>3, Zenon DEF Outsider
<1>5. QED
  BY <1>4, OutsiderKeeps

\* A new process, and the end of one that dies, start from nothing but the lock and the receipt.
LEMMA ForgetKeeps ==
  ASSUME IInv, BeginRun \/ Crash
  PROVE  IInv'
<1>1. /\ Forget /\ UNCHANGED <<plan, lock, receipt>> /\ pc' \in {"enter", "idle"}
      /\ \E t : thread' = [thread EXCEPT ![me] = t]
      /\ \/ pc' = "enter" /\ run' = run + 1
         \/ pc' = "idle" /\ run' = run
  BY ZenonT(30) DEF BeginRun, Crash
<1>2. /\ row' = 1 /\ index' = 1 /\ evidence' = [c \in Check |-> NotYet]
      /\ movedEarly' = FALSE /\ promoted' = {} /\ result' = "none"
      /\ kept' = NoOutcome /\ outcome' = NoOutcome
      /\ box' = [c \in Check |-> "none"] /\ code' = [c \in Check |-> "none"] /\ pending' = {}
      /\ token' = [token EXCEPT ![me] = "none"] /\ trip' = [trip EXCEPT ![me] = "none"]
  BY <1>1, Zenon DEF Forget
<1>3. \A c \in Check : evidence'[c].status = "none" /\ evidence'[c].flag = "none"
  BY <1>2, ZenonT(30) DEF NotYet
<1>4. Place'
  <2>1. plan \in Plans /\ Len(plan) \in Nat /\ Len(plan) > 0 /\ Len(plan[1]) \in Nat
    <3>1. /\ plan \in Plans /\ Len(plan) \in Nat /\ Len(plan) > 0
          /\ \A r \in 1..Len(plan) : Len(plan[r]) \in Nat
      BY PlanFacts, Zenon DEF IInv, Place
    <3>2. 1 \in 1..Len(plan)
      BY <3>1
    <3>3. QED
      BY <3>1, <3>2
  <2>2. row' \in 1..Len(plan') /\ index' \in 1..(Len(plan'[row']) + 1)
    BY <1>1, <1>2, <2>1
  <2>3. \A c \in Check : ~Behind(c)'
    <3>1. \A r \in 1..row' : ~(r < row') /\ r = 1
      BY <1>2
    <3>2. \A i \in 1..Len(plan[1]) : ~(i < index')
      BY <1>2, <2>1
    <3>3. QED
      BY <1>1, <3>1, <3>2, Zenon DEF Behind
  <2>4. DOMAIN evidence' = Check
    BY <1>2, ZenonT(30)
  <2>5. pc' \notin {"check"} \cup AfterLoop \cup Last
    BY <1>1, ZenonT(30) DEF AfterLoop, Inspected, Last
  <2>6. QED
    BY <1>1, <1>3, <2>1, <2>2, <2>3, <2>4, <2>5, ZenonT(30) DEF Place
<1>5. Containers'
  BY <1>1, <1>2, <1>3, ZenonT(30) DEF Containers, Untouched
<1>6. Ordered'
  BY <1>1, <1>3, ZenonT(30) DEF Ordered
<1>7. Cancelled'
  <2>1. token \in [Owner -> Reasons] /\ DOMAIN thread = Owner /\ DOMAIN trip = Owner
    BY Zenon DEF IInv, Cancelled
  <2>2. token' \in [Owner -> Reasons] /\ DOMAIN thread' = Owner /\ DOMAIN trip' = Owner
    <3>1. "none" \in Reasons
      BY ZenonT(30) DEF Reasons
    <3>2. QED
      BY <1>1, <1>2, <2>1, <3>1, Zenon
  <2>3. kept'.termination # "cancelled" /\ outcome'.termination # "cancelled"
    BY <1>2, ZenonT(30) DEF NoOutcome, Err
  <2>4. QED
    BY <1>3, <2>2, <2>3, ZenonT(30) DEF Cancelled
<1>8. Established'
  BY <1>1, <1>2, ZenonT(30) DEF Established, Inspected, Last
<1>9. Concluded'
  <2>1. run \in Nat /\ lock \in 0..run /\ receipt \in 0..run
    BY Zenon DEF IInv, Concluded
  <2>2. QED
    BY <1>1, <1>2, <2>1 DEF Concluded, Over, Last
<1>10. QED
  BY <1>4, <1>5, <1>6, <1>7, <1>8, <1>9, ZenonT(30) DEF IInv

\* It holds before the first run.
LEMMA InitHolds == Init => IInv
<1> SUFFICES ASSUME Init PROVE IInv
  OBVIOUS
<1> USE DEF Init, RuntimeInit, WatchdogInit
<1>1. \A c \in Check : evidence[c].status = "none" /\ evidence[c].flag = "none"
  BY ZenonT(30) DEF NotYet
<1>2. Place
  <2>1. /\ plan \in Seq(Seq(Check)) /\ plan \in Plans /\ Len(plan) > 0
    BY PlanAssumption, RowsAssumption, ZenonT(30)
  <2>2. Len(plan) \in Nat /\ Len(plan[1]) \in Nat
    BY <2>1
  <2>3. row \in 1..Len(plan) /\ index \in 1..(Len(plan[row]) + 1)
    BY <2>1, <2>2
  <2>4. \A c \in Check : ~Behind(c)
    BY <2>2 DEF Behind
  <2>5. QED
    BY <1>1, <2>1, <2>3, <2>4, ZenonT(30) DEF Place, AfterLoop, Inspected, Last
<1>3. Containers
  BY <1>1, ZenonT(30) DEF Containers, Untouched
<1>4. Ordered
  BY <1>1, ZenonT(30) DEF Ordered
<1>5. Cancelled
  BY <1>1, ZenonT(30) DEF Cancelled, NoOutcome, Err, Reasons
<1>6. Established
  BY ZenonT(30) DEF Established, Inspected, Last
<1>7. Concluded
  BY DEF Concluded, Over, Last
<1>8. QED
  BY <1>2, <1>3, <1>4, <1>5, <1>6, <1>7, ZenonT(30) DEF IInv

-----------------------------------------------------------------------------
(* The invariant, and what follows from it.                                *)

\* Every step keeps the invariant.
LEMMA StepHolds == IInv /\ [Next]_vars => IInv'
<1> SUFFICES ASSUME IInv, [Next]_vars PROVE IInv'
  OBVIOUS
<1>1. CASE BeginRun \/ Crash
  BY <1>1, ForgetKeeps
<1>2. CASE Enter \/ Probe \/ Prepare \/ Render
  BY <1>2, PreparationKeeps
<1>3. CASE NextCheck
  BY <1>3, NextCheckKeeps
<1>4. CASE Executes
  BY <1>4, ExecutesKeeps
<1>5. CASE Conclude
  BY <1>5, ConcludeKeeps
<1>6. CASE LoopEnds
  BY <1>6, LoopEndKeeps
<1>7. CASE InspectRepository \/ Revalidate \/ ObserveArtifacts
  BY <1>7, ConfirmationKeeps
<1>8. CASE StopWatchdog \/ JoinBarrier
  BY <1>8, BarrierKeeps, CompletionKeeps
<1>9. CASE MarkCachesComplete
  BY <1>9, PromotionKeeps
<1>10. CASE Seal
  BY <1>10, SealKeeps
<1>11. CASE Publish
  BY <1>11, PublishKeeps
<1>12. CASE Complete
  BY <1>12, CompletionKeeps
<1>13. CASE UserCancels \/ WatchdogRuns \/ CheckoutMoves \/ \E c \in Check : WorkloadWrites(c)
  BY <1>13, OutsidersKeep, ZenonT(30)
<1>14. CASE \E c \in Check : Daemon(c)
  BY <1>14, DaemonIsHarmless, ZenonT(30)
<1>15. CASE UNCHANGED vars
  <2>1. Outsider
    BY <1>15, Zenon DEF vars, Outsider, IInv, Cancelled, runtimeVars, watchdogVars
  <2>2. QED
    BY <2>1, OutsiderKeeps
<1>16. QED
  BY <1>1, <1>2, <1>3, <1>4, <1>5, <1>6, <1>7, <1>8, <1>9, <1>10, <1>11, <1>12, <1>13, <1>14,
     <1>15, Zenon DEF Next

\* The invariant holds in every state of every behaviour.
LEMMA Invariant == Spec => []IInv
  BY InitHolds, StepHolds, PTL DEF Spec

\* No check is recorded as passed unless its workload ended with exit code zero, after all it
\* depends on had passed, and its container is gone for good, although the daemon may carry out
\* late what a killed command asked for (execute_check, and the loop of run.rs).
THEOREM RealPasses == Spec => []PassedForReal
<1>1. IInv => PassedForReal
  BY Zenon DEF IInv, Containers, Untouched, Ordered, PassedForReal
<1>2. QED
  BY <1>1, Invariant, PTL

\* A receipt says PASS only if every required check of the plan passed in the run that published
\* it, on the commit it names (derive_overall_status, inspect_repository).
THEOREM DeservedPass == Spec => []PassIsDeserved
<1>1. IInv => PassIsDeserved
  <2> SUFFICES ASSUME IInv, Published, overall = "pass" PROVE PassIsDeserved
    BY ZenonT(30) DEF PassIsDeserved
  <2>1. ~movedEarly /\ AllPassed(PlannedChecks \cap Required)
    BY Zenon DEF IInv, Concluded, Published
  <2>2. \A c \in PlannedChecks \cap Required : c \in Check
    BY PlanAssumption, ZenonT(30)
  <2>3. \A c \in PlannedChecks \cap Required : code[c] = "zero" /\ evidence[c].status = "pass"
    BY <2>1, <2>2, Zenon DEF AllPassed, IInv, Containers
  <2>4. QED
    BY <2>1, <2>3, ZenonT(30) DEF PassIsDeserved
<1>2. QED
  BY <1>1, Invariant, PTL

\* A trip of the watchdog is in the receipt that is published, and no check is said to be cancelled
\* by the user when it was not (CompletionBarrier, evidence_from_result).
THEOREM ReportedPressure == Spec => []PressureIsReported
<1>1. IInv => PressureIsReported
  <2> SUFFICES ASSUME IInv PROVE PressureIsReported
    OBVIOUS
  <2>1. ASSUME Published
        PROVE  /\ Joinable(me)
               /\ trip[me] # "none" => \E c \in PlannedChecks : evidence[c] = NotRun("pressure")
    <3>1. Accounted(PlannedChecks)
      BY <2>1, ZenonT(30) DEF IInv, Concluded, Published
    <3>2. QED
      BY <3>1, Zenon DEF Accounted, TripAccepted, PressureRecorded
  <2>2. QED
    BY <2>1, Zenon DEF PressureIsReported, IInv, Cancelled
<1>2. QED
  BY <1>1, Invariant, PTL

\* The caches of a row are promoted only after its checks have passed, and those of an ordinary run
\* only once the commit was confirmed and the watchdog had ended quietly (mark_caches_complete).
THEOREM LatePromotion == Spec => []PromotedAfterVerdict
<1>1. IInv => PromotedAfterVerdict
  <2> SUFFICES ASSUME IInv, NEW r \in promoted
               PROVE  /\ AllPassed(Range(plan[r]))
                      /\ ~Matrix => ~movedEarly /\ Joinable(me) /\ trip[me] = "none"
    BY Zenon DEF PromotedAfterVerdict
  <2>1. Matrix <=> Len(plan) # 1
    BY MatrixRows, Zenon DEF IInv
  <2>2. QED
    BY <2>1, Zenon DEF IInv, Established
<1>2. QED
  BY <1>1, Invariant, PTL

\* A run that has ended by itself says "ok" only if its receipt is on disk; with the receipt on disk
\* it says "ok" unless the release, the cleanup or the Sealed entry failed after the publication; and
\* it has unlocked its workspace (reconcile_watchdog_outcome, finalize_run_terminal, WorkspaceLock).
THEOREM CleanEnd == Spec => []EndIsClean
<1>1. IInv => EndIsClean
  BY Zenon DEF IInv, Concluded, EndIsClean
<1>2. QED
  BY <1>1, Invariant, PTL

=============================================================================
