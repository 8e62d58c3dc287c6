----------------------------- MODULE GuardProofs ------------------------------
(***************************************************************************)
(* What GuardExec promises of guarded commands, of the resource history    *)
(* and of exit codes, for every set of sessions and samples, every limit   *)
(* of the history and any number of crashes and failures.                  *)
(***************************************************************************)
EXTENDS GuardExec, SequenceTheorems, TLAPS

\* The time limits of the provers, in seconds.
USE ZenonT(8), SMTT(15)

-----------------------------------------------------------------------------
(* The inductive invariant.                                                *)

\* The steps at which a session is admitted to the host.
Admitted == {"open", "prestart", "start", "pin", "spawn", "running", "stopWatchdog", "join",
             "outcome", "detail", "read", "write", "finalize", "release"}

\* The steps at which its watchdog may run, and those after its record was written.
Watched == {"pin", "spawn", "running", "stopWatchdog", "join"}
After   == {"finalize", "release", "classify", "leaving", "exited", "crashed"}

\* The steps before the watchdog.
Early == {"idle", "acquire", "open", "prestart", "start"}

Spots == Active \cup {"idle", "leaving", "exited", "crashed"}
Results == Outcomes \cup {NoOutcome} \cup {Err(e) : e \in GuardErrors}

\* The variables are functions of the session; two of them are no simple types.
Types ==
    /\ token \in [Session -> Reasons] /\ trip \in [Session -> Trips] /\ stop \in [Session -> BOOLEAN]
    /\ thread \in [Session -> {"off", "asleep", "sampling", "tripped", "ended"}]
    /\ DOMAIN state = Session /\ \A s \in Session : state[s].soft \in Nat
    /\ last \in [Session -> Sample \cup {NoSnapshot}]
    /\ macos \in BOOLEAN
    /\ pc \in [Session -> Spots]
    /\ slot \in Session \cup {NoSession}
    /\ child \in [Session -> {"none", "alive"}] /\ uncertain \subseteq Session
    /\ result \in [Session -> Results]
    /\ keeps \in [Session -> BOOLEAN]
    /\ DOMAIN record = Session
    /\ \A s \in Session : DOMAIN record[s] = {"outcome", "detail", "trip", "snapshot"}
    /\ buffer \in [Session -> Seq(Session \cup {NoSession})]
    /\ appended \in Seq(Session \cup {NoSession})
    /\ exit \in [Session -> ExitKinds]

\* The slot belongs to the session that is admitted, and so does a live command, unless its end
\* is uncertain or its session crashed.
Slot(s) ==
    /\ slot = s <=> pc[s] \in Admitted
    /\ child[s] = "alive" => pc[s] = "running" \/ s \in uncertain \/ pc[s] = "crashed"

\* Nobody appends between the read and the write of a session; it appends once.
Append1(s) ==
    /\ pc[s] = "write" => buffer[s] = history
    /\ HasRecord(appended, s) => pc[s] \in After

\* The watchdog and its state.
Dog(s) ==
    /\ pc[s] \notin Watched => thread[s] = "off"
    /\ thread[s] \in {"off", "ended"} => state[s] = NewState
    /\ thread[s] = "tripped" \/ token[s] = "resource_pressure" => trip[s] # "none"
    /\ thread[s] \in {"asleep", "sampling"} /\ state[s].soft > 0 =>
         SoftPressure(state[s].window, last[s])
    /\ macos /\ pc[s] = "start" => last[s] \in Sample /\ Admits(last[s])

\* What the record says of the result.
Faithful(s) ==
    /\ record[s].outcome = "resource_pressure" <=> trip[s] # "none"
    /\ record[s].outcome = "timed_out" => result[s].termination = "timed_out"
    /\ (trip[s] = "none" /\ token[s] # "user"
          /\ result[s].termination = "completed" /\ result[s].exit = "success") =>
         record[s].outcome = "completed"

\* The result on its way to the exit code.
Outcome(s) ==
    /\ pc[s] \in Early => result[s] = NoOutcome
    /\ keeps[s] => pc[s] \in Watched \cup {"outcome", "detail", "read", "write", "finalize"}
    /\ pc[s] \in {"outcome", "detail", "read", "write"} => keeps[s]
    /\ keeps[s] => result[s].error # "resource"
    /\ pc[s] = "finalize" /\ HasRecord(appended, s) => keeps[s]
    /\ pc[s] \in {"detail", "read", "write"} => Faithful(s)
    /\ pc[s] = "finalize" /\ HasRecord(appended, s) => Faithful(s)
    /\ pc[s] \in {"release", "classify"} /\ trip[s] # "none" => result[s].error = "resource"
    /\ pc[s] \in {"release", "classify"} /\ HasRecord(appended, s) =>
         /\ result[s].error = "resource" => trip[s] # "none"
         /\ trip[s] # "none" => record[s].outcome = "resource_pressure"
         /\ trip[s] = "none" => Faithful(s)
    /\ pc[s] = "classify" => IsOk(result[s])

\* The exit code.
Exited(s) ==
    pc[s] = "leaving" =>
      /\ exit[s] = "success" => trip[s] = "none"
      /\ HasRecord(appended, s) /\ exit[s] # "admission" =>
           /\ exit[s] = "success" => record[s].outcome = "completed"
           /\ record[s].outcome = "resource_pressure" <=> exit[s] = "pressure"
           /\ record[s].outcome = "timed_out" => exit[s] = "timed_out"

SInv(s) == Slot(s) /\ Append1(s) /\ Dog(s) /\ Outcome(s) /\ Exited(s)

IInv == Types /\ HistoryKeepsTheLatest /\ \A s \in Session : SInv(s)

-----------------------------------------------------------------------------
(* Frames.                                                                 *)

\* What belongs to a session.
SameLocals(q) ==
    /\ token'[q] = token[q] /\ thread'[q] = thread[q] /\ stop'[q] = stop[q] /\ trip'[q] = trip[q]
    /\ state'[q] = state[q] /\ last'[q] = last[q]
    /\ pc'[q] = pc[q] /\ child'[q] = child[q] /\ result'[q] = result[q] /\ keeps'[q] = keeps[q]
    /\ record'[q] = record[q] /\ buffer'[q] = buffer[q] /\ exit'[q] = exit[q]

\* What the invariant says of a session that does not step.
SameSession(q) ==
    /\ SameLocals(q)
    /\ slot' = q <=> slot = q
    /\ q \in uncertain' <=> q \in uncertain
    /\ HasRecord(appended, q)' <=> HasRecord(appended, q)
    /\ pc[q] = "write" => history' = history

\* The invariant of a session depends on nothing else.
LEMMA SessionKept ==
  ASSUME NEW q \in Session, SInv(q), SameSession(q), macos' = macos
  PROVE  SInv(q)'
<1>1. Slot(q)'
  BY DEF SInv, Slot, SameSession, SameLocals
<1>2. Append1(q)'
  BY DEF SInv, Append1, SameSession, SameLocals
<1>3. Dog(q)'
  BY DEF SInv, Dog, SameSession, SameLocals
<1>4. Outcome(q)'
  <2>1. Faithful(q)' <=> Faithful(q)
    BY DEF Faithful, SameSession, SameLocals
  <2>2. QED
    BY <2>1 DEF SInv, Outcome, SameSession, SameLocals
<1>5. Exited(q)'
  BY DEF SInv, Exited, SameSession, SameLocals
<1>6. QED
  BY <1>1, <1>2, <1>3, <1>4, <1>5 DEF SInv

\* A step of one session.
LEMMA SessionStep ==
  ASSUME IInv, NEW s \in Session, Types', HistoryKeepsTheLatest', SInv(s)', macos' = macos,
         \A q \in Session : q # s => SameSession(q)
  PROVE  IInv'
BY SessionKept DEF IInv

\* The shape of results.
LEMMA ResultShape ==
  /\ \A r \in Results :
       /\ r.termination # "none" => r.error = "none" /\ r.termination \in Terminations
       /\ r.error # "none" => ~IsOk(r)
       /\ ~IsOk(r) => r.termination = "none"
  /\ NoOutcome \in Results /\ NoOutcome.error = "none"
  /\ Err("cache") \in Results /\ Err("cache").error = "cache"
  /\ Err("resource") \in Results /\ Err("resource").error = "resource"
  /\ Err("spawn") \in Results /\ Err("spawn").error = "spawn"
  /\ NeverStarted \in Results /\ NeverStarted.error = "none"
<1>1. ASSUME NEW r \in Results
      PROVE  \/ \E t \in Terminations : \E c, e : r = Ok(t, c, e)
             \/ \E e : r = Err(e)
  BY DEF Results, Outcomes, NeverStarted, NoOutcome, Terminations
<1>2. ASSUME NEW r \in Results
      PROVE  /\ r.termination # "none" => r.error = "none" /\ r.termination \in Terminations
             /\ r.error # "none" => ~IsOk(r)
             /\ ~IsOk(r) => r.termination = "none"
  <2>1. CASE \E t \in Terminations : \E c, e : r = Ok(t, c, e)
    BY <2>1 DEF Ok, IsOk, Terminations
  <2>2. CASE \E e : r = Err(e)
    BY <2>2 DEF Err, IsOk
  <2>3. QED
    BY <1>1, <2>1, <2>2
<1>3. \A e : Err(e).error = e
  BY DEF Err
<1>4. NeverStarted.error = "none"
  BY DEF NeverStarted, Ok
<1>5. /\ NoOutcome \in Results /\ NeverStarted \in Results /\ Err("spawn") \in Results
      /\ Err("cache") \in Results /\ Err("resource") \in Results
  BY DEF Results, Outcomes, Errors, GuardErrors
<1>6. QED
  BY <1>2, <1>3, <1>4, <1>5 DEF NoOutcome

\* What the supervisor may return.
LEMMA ReturnedShape ==
  ASSUME NEW b \in BOOLEAN, NEW o \in Returned(b)
  PROVE  /\ o \in Results /\ o.error # "resource"
         /\ b => o = Err("cleanup_uncertain")
<1>1. o \in Outcomes
  BY DEF Returned, AfterStart, Outcomes, Errors
<1>2. b => o = Err("cleanup_uncertain")
  BY DEF Returned, AfterStart
<1>3. o.error # "resource"
  BY <1>1 DEF Outcomes, NeverStarted, Ok, Err, Errors
<1>4. QED
  BY <1>1, <1>2, <1>3 DEF Results

-----------------------------------------------------------------------------
(* Steps of the session before its command ends.                           *)

\* Every step has its place.
LEMMA SpotNames ==
  /\ Admitted \subseteq Spots /\ After \subseteq Spots /\ Watched \subseteq Admitted
  /\ {"idle", "acquire", "classify", "leaving", "exited", "crashed"} \subseteq Spots
BY DEF Admitted, After, Watched, Spots, Active, FinishSteps

\* A step that leaves the watchdog, the observation and the history alone.
LEMMA ControlStep ==
  ASSUME IInv, NEW s \in Session,
         UNCHANGED <<token, thread, stop, trip, state, last, macos, keeps, record, buffer, history,
                     appended, faults>>,
         \A q \in Session : q # s => /\ pc'[q] = pc[q] /\ result'[q] = result[q]
                                     /\ exit'[q] = exit[q] /\ child'[q] = child[q]
                                     /\ slot' = q <=> slot = q
                                     /\ q \in uncertain' <=> q \in uncertain,
         pc' \in [Session -> Spots], result' \in [Session -> Results],
         exit' \in [Session -> ExitKinds], child' \in [Session -> {"none", "alive"}],
         slot' \in Session \cup {NoSession}, uncertain' \subseteq Session,
         Slot(s)', pc'[s] # "write", HasRecord(appended, s) => pc'[s] \in After,
         pc'[s] \notin Watched => pc[s] \notin Watched, pc'[s] # "start",
         Outcome(s)', Exited(s)'
  PROVE  IInv'
<1>1. Types'
  BY DEF IInv, Types
<1>2. HistoryKeepsTheLatest'
  BY DEF IInv, HistoryKeepsTheLatest
<1>3. \A q \in Session : q # s => SameSession(q)
  BY DEF SameSession, SameLocals
<1>4. Dog(s)'
  BY DEF IInv, SInv, Dog
<1>5. SInv(s)'
  BY <1>4 DEF SInv, Append1
<1>6. QED
  BY <1>1, <1>2, <1>3, <1>5, SessionStep

\* A session begins, or ends before it was admitted.
LEMMA EarlySteps ==
  ASSUME IInv, NEW s \in Session, Begin(s) \/ AcquireFails(s)
  PROVE  IInv'
<1>t. /\ pc \in [Session -> Spots] /\ result \in [Session -> Results] /\ exit \in [Session -> ExitKinds]
      /\ child \in [Session -> {"none", "alive"}] /\ slot \in Session \cup {NoSession}
      /\ uncertain \subseteq Session
  BY DEF IInv, Types
<1>1. /\ pc[s] \in {"idle", "acquire"}
      /\ \/ pc' = [pc EXCEPT ![s] = "acquire"] /\ result' = result /\ exit' = exit
         \/ /\ pc' = [pc EXCEPT ![s] = "leaving"] /\ result' = [result EXCEPT ![s] = NoOutcome]
            /\ \/ exit' = [exit EXCEPT ![s] = "usage"]
               \/ exit' = [exit EXCEPT ![s] = "admission"]
  BY DEF Begin, AcquireFails, Leave, Goto
<1>2. /\ UNCHANGED <<token, thread, stop, trip, state, last, macos, keeps, record, buffer, history,
                     appended, faults>>
      /\ UNCHANGED <<slot, child, uncertain>>
  BY DEF Begin, AcquireFails, watchdogVars, store
<1>3. /\ pc' \in [Session -> Spots] /\ result' \in [Session -> Results]
      /\ exit' \in [Session -> ExitKinds]
  BY <1>t, <1>1, SpotNames, ResultShape, SMTT(30) DEF ExitKinds
<1>4. \A q \in Session : q # s => pc'[q] = pc[q] /\ result'[q] = result[q] /\ exit'[q] = exit[q]
  BY <1>t, <1>1
<1>5. /\ pc'[s] \in {"acquire", "leaving"}
      /\ pc'[s] = "leaving" => exit'[s] \in {"usage", "admission"}
  BY <1>t, <1>1
<1>6. /\ pc[s] \notin Admitted /\ pc'[s] \notin Admitted /\ pc[s] \notin Watched /\ pc'[s] \notin Watched
      /\ pc[s] \notin After
  BY <1>1, <1>5 DEF Admitted, Watched, After
<1>7. ~HasRecord(appended, s)
  BY <1>6 DEF IInv, SInv, Append1
<1>8. Slot(s)'
  BY <1>1, <1>2, <1>6 DEF IInv, SInv, Slot
<1>9. ~keeps[s]
  BY <1>1, <1>6 DEF IInv, SInv, Outcome
<1>10. Outcome(s)'
  <2>1. pc'[s] = "acquire" => result'[s] = NoOutcome
    BY <1>t, <1>1 DEF IInv, SInv, Outcome, Early
  <2>2. QED
    BY <2>1, <1>2, <1>5, <1>9 DEF Outcome, Early
<1>11. Exited(s)'
  BY <1>2, <1>5, <1>7 DEF Exited
<1>12. pc'[s] # "write" /\ pc'[s] # "start"
  BY <1>5
<1>13. QED
  BY <1>t, <1>2, <1>3, <1>4, <1>6, <1>7, <1>8, <1>10, <1>11, <1>12, ControlStep

\* A session is admitted to the host: nobody else is.
LEMMA AcquireStep ==
  ASSUME IInv, NEW s \in Session, Acquire(s)
  PROVE  IInv'
<1>t. /\ pc \in [Session -> Spots] /\ result \in [Session -> Results] /\ exit \in [Session -> ExitKinds]
      /\ child \in [Session -> {"none", "alive"}] /\ uncertain \subseteq Session
  BY DEF IInv, Types
<1>1. /\ pc[s] = "acquire" /\ pc' = [pc EXCEPT ![s] = "open"] /\ pc'[s] = "open"
      /\ slot = NoSession /\ slot' = s
  BY <1>t DEF Acquire, Goto
<1>2. /\ UNCHANGED <<token, thread, stop, trip, state, last, macos, keeps, record, buffer, history,
                     appended, faults>>
      /\ UNCHANGED <<result, exit, child, uncertain>>
  BY DEF Acquire, watchdogVars, store
<1>3. pc' \in [Session -> Spots] /\ \A q \in Session : q # s => pc'[q] = pc[q]
  BY <1>t, <1>1, SpotNames DEF Admitted
<1>4. \A q \in Session : q # s => (slot' = q <=> slot = q)
  BY <1>1, NoSessionAssumption DEF Session
<1>5. /\ pc'[s] \in Admitted /\ pc'[s] \notin Watched /\ pc[s] \notin Watched /\ pc[s] \notin After
  BY <1>1 DEF Admitted, Watched, After
<1>6. ~HasRecord(appended, s)
  BY <1>5 DEF IInv, SInv, Append1
<1>7. Slot(s)'
  BY <1>1, <1>2, <1>5 DEF IInv, SInv, Slot
<1>8. ~keeps[s]
  BY <1>1, <1>5 DEF IInv, SInv, Outcome
<1>9. Outcome(s)' /\ Exited(s)'
  <2>1. result'[s] = NoOutcome
    BY <1>1, <1>2 DEF IInv, SInv, Outcome, Early
  <2>2. QED
    BY <2>1, <1>1, <1>2, <1>8 DEF Outcome, Exited
<1>10. pc'[s] # "write" /\ pc'[s] # "start" /\ slot' \in Session \cup {NoSession}
  BY <1>1
<1>11. QED
  BY <1>t, <1>2, <1>3, <1>4, <1>5, <1>6, <1>7, <1>9, <1>10, ControlStep

\* A step up to the end of the command; it may be the first one of finish.
LEMMA InsideStep ==
  ASSUME IInv, NEW s \in Session,
         UNCHANGED <<token, thread, stop, trip, state, last, macos, keeps, record, buffer, history,
                     appended, faults>>,
         UNCHANGED <<slot, exit>>,
         pc[s] \in {"open", "pin", "spawn", "running"}, NEW step,
         step \in {"prestart", "spawn", "running", "stopWatchdog"}, pc' = [pc EXCEPT ![s] = step],
         pc[s] \in Watched => step \in Watched,
         NEW r \in Results, result' = [result EXCEPT ![s] = r], keeps[s] => r.error # "resource",
         step = "prestart" => r = NoOutcome,
         child' \in [Session -> {"none", "alive"}], \A q \in Session : q # s => child'[q] = child[q],
         uncertain' \subseteq Session, \A q \in Session : q # s => (q \in uncertain' <=> q \in uncertain),
         child'[s] = "alive" => step = "running" \/ s \in uncertain'
  PROVE  IInv'
<1>t. /\ pc \in [Session -> Spots] /\ result \in [Session -> Results] /\ exit \in [Session -> ExitKinds]
      /\ slot \in Session \cup {NoSession}
  BY DEF IInv, Types
<1>1. pc'[s] = step /\ result'[s] = r
  BY <1>t
<1>2. /\ step \in Admitted /\ pc[s] \in Admitted /\ pc[s] \notin After
      /\ step \notin {"write", "start", "outcome", "detail", "read", "finalize", "release", "classify",
                      "leaving"}
  BY DEF Admitted, After
<1>3. pc' \in [Session -> Spots] /\ \A q \in Session : q # s => pc'[q] = pc[q]
  BY <1>t, <1>2, SpotNames
<1>4. result' \in [Session -> Results] /\ \A q \in Session : q # s => result'[q] = result[q]
  BY <1>t
<1>5. ~HasRecord(appended, s)
  BY <1>2 DEF IInv, SInv, Append1
<1>6. Slot(s)'
  BY <1>1, <1>2 DEF IInv, SInv, Slot
<1>7. keeps[s] => step \in Watched
  <2>1. keeps[s] => pc[s] \in Watched
    BY DEF IInv, SInv, Outcome
  <2>2. QED
    BY <2>1
<1>8. Outcome(s)' /\ Exited(s)'
  BY <1>1, <1>2, <1>7 DEF Outcome, Exited, Early
<1>9. QED
  BY <1>t, <1>1, <1>2, <1>3, <1>4, <1>5, <1>6, <1>8, ControlStep

\* The caches are opened and pinned, and the command is spawned.
LEMMA BeforeCommand ==
  ASSUME IInv, NEW s \in Session, OpenCache(s) \/ PinCache(s) \/ Spawn(s)
  PROVE  IInv'
<1>t. /\ pc \in [Session -> Spots] /\ result \in [Session -> Results]
      /\ child \in [Session -> {"none", "alive"}] /\ uncertain \subseteq Session
  BY DEF IInv, Types
<1>1. /\ UNCHANGED <<token, thread, stop, trip, state, last, macos, keeps, record, buffer, history,
                     appended, faults>>
      /\ UNCHANGED <<slot, exit>> /\ uncertain' = uncertain
  BY DEF OpenCache, PinCache, Spawn, watchdogVars, store
<1>2. /\ result' = result \/ result' = [result EXCEPT ![s] = Err("cache")]
           \/ result' = [result EXCEPT ![s] = Err("spawn")]
           \/ result' = [result EXCEPT ![s] = NeverStarted]
  BY DEF OpenCache, PinCache, Spawn, Finish
<1>3. PICK r \in Results :
         /\ result' = [result EXCEPT ![s] = r] /\ (keeps[s] => r.error # "resource")
         /\ result' = result => r = result[s]
  <2>1. CASE result' = result
    <3>1. result' = [result EXCEPT ![s] = result[s]] /\ result[s] \in Results
      BY <1>t, <2>1
    <3>2. keeps[s] => result[s].error # "resource"
      BY DEF IInv, SInv, Outcome
    <3>3. QED
      BY <3>1, <3>2
  <2>2. CASE result' # result
    BY <1>2, <2>2, ResultShape
  <2>3. QED
    BY <2>1, <2>2
<1>4. child[s] # "alive" \/ s \in uncertain
  BY DEF OpenCache, PinCache, Spawn, IInv, SInv, Slot
<1>5. CASE OpenCache(s)
  <2>1. /\ pc[s] = "open" /\ child' = child /\ pc[s] \notin Watched
        /\ \/ pc' = [pc EXCEPT ![s] = "prestart"] /\ result' = result
           \/ pc' = [pc EXCEPT ![s] = "stopWatchdog"]
    BY <1>5 DEF OpenCache, Finish, Goto, Watched
  <2>2. result[s] = NoOutcome
    BY <2>1 DEF IInv, SInv, Outcome, Early
  <2>3. QED
    BY <1>t, <1>1, <1>3, <1>4, <2>1, <2>2, InsideStep
<1>6. CASE PinCache(s)
  <2>1. /\ pc[s] = "pin" /\ child' = child
        /\ \E step \in {"spawn", "stopWatchdog"} : pc' = [pc EXCEPT ![s] = step] /\ step \in Watched
    BY <1>6 DEF PinCache, Finish, Goto, Watched
  <2>2. PICK step \in {"spawn", "stopWatchdog"} : pc' = [pc EXCEPT ![s] = step] /\ step \in Watched
    BY <2>1
  <2>3. QED
    BY <1>t, <1>1, <1>3, <1>4, <2>1, <2>2, InsideStep, ZenonT(30)
<1>7. CASE Spawn(s)
  <2>1. /\ pc[s] = "spawn" /\ {"running", "stopWatchdog"} \subseteq Watched
        /\ \/ pc' = [pc EXCEPT ![s] = "running"] /\ child' = [child EXCEPT ![s] = "alive"]
           \/ pc' = [pc EXCEPT ![s] = "stopWatchdog"] /\ child' = child
    BY <1>7 DEF Spawn, Finish, Goto, Watched
  <2>2. /\ child' \in [Session -> {"none", "alive"}]
        /\ \A q \in Session : q # s => child'[q] = child[q]
    BY <1>t, <2>1
  <2>3. QED
    BY <1>t, <1>1, <1>3, <1>4, <2>1, <2>2, InsideStep
<1>8. QED
  BY <1>5, <1>6, <1>7

\* The supervisor returns: the command is gone, or its end is uncertain.
LEMMA SupervisorStep ==
  ASSUME IInv, NEW s \in Session, SupervisorReturns(s)
  PROVE  IInv'
<1>t. child \in [Session -> {"none", "alive"}] /\ uncertain \subseteq Session
  BY DEF IInv, Types
<1>1. /\ UNCHANGED <<token, thread, stop, trip, state, last, macos, keeps, record, buffer, history,
                     appended, faults>>
      /\ UNCHANGED <<slot, exit>> /\ child' = child /\ pc[s] = "running"
      /\ pc' = [pc EXCEPT ![s] = "stopWatchdog"]
  BY DEF SupervisorReturns, Finish, Goto, watchdogVars, store
<1>2. PICK o \in Returned(child[s] = "alive") :
         /\ result' = [result EXCEPT ![s] = o]
         /\ uncertain' = IF o = Err("cleanup_uncertain") THEN uncertain \cup {s} ELSE uncertain
  BY DEF SupervisorReturns, Finish
<1>3. /\ o \in Results /\ o.error # "resource"
      /\ child[s] = "alive" => o = Err("cleanup_uncertain")
  BY <1>2, ReturnedShape
<1>4. /\ uncertain' \subseteq Session /\ \A q \in Session : q # s => (q \in uncertain' <=> q \in uncertain)
      /\ child[s] = "alive" => s \in uncertain'
  BY <1>t, <1>2, <1>3
<1>5. "stopWatchdog" \in Watched
  BY DEF Watched
<1>6. QED
  BY <1>t, <1>1, <1>2, <1>3, <1>4, <1>5, InsideStep

\* The command ends by itself.
LEMMA ChildEndsStep ==
  ASSUME IInv, NEW s \in Session, ChildEnds(s)
  PROVE  IInv'
<1>t. child \in [Session -> {"none", "alive"}]
  BY DEF IInv, Types
<1>1. /\ UNCHANGED <<token, thread, stop, trip, state, last, macos, keeps, record, buffer, history,
                     appended, faults>>
      /\ UNCHANGED <<pc, slot, result, uncertain, exit>> /\ child' = [child EXCEPT ![s] = "none"]
  BY DEF ChildEnds, watchdogVars, store
<1>2. /\ child' \in [Session -> {"none", "alive"}] /\ child'[s] = "none"
      /\ \A q \in Session : q # s => child'[q] = child[q]
  BY <1>t, <1>1
<1>3. Types'
  BY <1>1, <1>2 DEF IInv, Types
<1>4. HistoryKeepsTheLatest'
  BY <1>1 DEF IInv, HistoryKeepsTheLatest
<1>5. \A q \in Session : q # s => SameSession(q)
  BY <1>1, <1>2 DEF SameSession, SameLocals
<1>6. SInv(s)'
  <2>1. Slot(s)' /\ Append1(s)' /\ Dog(s)' /\ Exited(s)'
    BY <1>1, <1>2 DEF IInv, SInv, Slot, Append1, Dog, Exited
  <2>2. Faithful(s)' <=> Faithful(s)
    BY <1>1 DEF Faithful
  <2>3. Outcome(s)'
    BY <1>1, <2>2 DEF IInv, SInv, Outcome
  <2>4. QED
    BY <2>1, <2>3 DEF SInv
<1>7. QED
  BY <1>1, <1>3, <1>4, <1>5, <1>6, SessionStep

\* A session that the host admits, or refuses, before it starts.
LEMMA PreStartStep ==
  ASSUME IInv, NEW s \in Session, PreStart(s)
  PROVE  IInv'
<1>t. /\ pc \in [Session -> Spots] /\ result \in [Session -> Results]
      /\ last \in [Session -> Sample \cup {NoSnapshot}]
  BY DEF IInv, Types
<1>1. /\ UNCHANGED <<token, thread, stop, trip, state, macos, keeps, record, buffer, history,
                     appended, faults>>
      /\ UNCHANGED <<slot, child, uncertain, exit>> /\ pc[s] = "prestart"
  BY DEF PreStart, store
<1>2. \/ pc' = [pc EXCEPT ![s] = "start"] /\ last' = last /\ result' = result /\ ~macos
      \/ /\ pc' = [pc EXCEPT ![s] = "start"] /\ result' = result
         /\ \E x \in Sample : Admits(x) /\ last' = [last EXCEPT ![s] = x]
      \/ pc' = [pc EXCEPT ![s] = "stopWatchdog"] /\ last' = last
           /\ result' = [result EXCEPT ![s] = Err("resource")]
  BY DEF PreStart, Finish, Goto
<1>3. /\ pc' \in [Session -> Spots] /\ result' \in [Session -> Results]
      /\ last' \in [Session -> Sample \cup {NoSnapshot}]
  <2>1. {"start", "stopWatchdog"} \subseteq Spots
    BY SpotNames DEF Admitted
  <2>2. QED
    BY <1>t, <1>2, <2>1, ResultShape
<1>4. \A q \in Session : q # s => pc'[q] = pc[q] /\ result'[q] = result[q] /\ last'[q] = last[q]
  BY <1>t, <1>2
<1>5. /\ pc'[s] \in {"start", "stopWatchdog"}
      /\ macos /\ pc'[s] = "start" => last'[s] \in Sample /\ Admits(last'[s])
  BY <1>t, <1>2
<1>6. Types'
  BY <1>1, <1>3 DEF IInv, Types
<1>7. HistoryKeepsTheLatest'
  BY <1>1 DEF IInv, HistoryKeepsTheLatest
<1>8. \A q \in Session : q # s => SameSession(q)
  BY <1>1, <1>4 DEF SameSession, SameLocals
<1>9. /\ pc[s] \in Admitted /\ pc'[s] \in Admitted /\ pc[s] \notin After /\ pc[s] \notin Watched
      /\ pc'[s] \notin {"write", "outcome", "detail", "read", "finalize", "release", "classify", "leaving"}
      /\ pc'[s] # "start" => pc'[s] \in Watched
  BY <1>1, <1>5 DEF Admitted, After, Watched
<1>10. ~keeps[s] /\ ~HasRecord(appended, s) /\ thread[s] = "off"
  BY <1>1, <1>9 DEF IInv, SInv, Outcome, Append1, Dog
<1>11. SInv(s)'
  <2>1. Slot(s)'
    BY <1>1, <1>9 DEF IInv, SInv, Slot
  <2>2. Append1(s)'
    BY <1>1, <1>9, <1>10 DEF Append1
  <2>3. Dog(s)'
    BY <1>1, <1>5, <1>10 DEF IInv, SInv, Dog
  <2>4. pc'[s] = "start" => result'[s] = NoOutcome
    BY <1>t, <1>1, <1>2 DEF IInv, SInv, Outcome, Early
  <2>5. Outcome(s)' /\ Exited(s)'
    BY <1>1, <1>5, <1>9, <1>10, <2>4 DEF Outcome, Exited, Early
  <2>6. QED
    BY <2>1, <2>2, <2>3, <2>5 DEF SInv
<1>12. QED
  BY <1>1, <1>6, <1>7, <1>8, <1>11, SessionStep

-----------------------------------------------------------------------------
(* The watchdog.                                                           *)

\* The steps at which the watchdog may run come before the record.
LEMMA WatchedNames ==
  \A x \in Watched :
    /\ x \in Admitted /\ x \notin After /\ x \notin Early
    /\ x \notin {"start", "write", "outcome", "detail", "read", "finalize", "release", "classify", "leaving"}
BY DEF Watched, Admitted, After, Early

\* A step that moves only watchdog variables of a session whose watchdog may run.
LEMMA WatchStep ==
  ASSUME IInv, NEW s \in Session, pc'[s] \in Watched, pc[s] \in Admitted, Types',
         UNCHANGED <<macos, slot, child, uncertain, result, record, buffer, history, appended, exit, faults>>,
         \A q \in Session : q # s =>
           /\ pc'[q] = pc[q] /\ keeps'[q] = keeps[q]
           /\ token'[q] = token[q] /\ thread'[q] = thread[q] /\ stop'[q] = stop[q]
           /\ trip'[q] = trip[q] /\ state'[q] = state[q] /\ last'[q] = last[q],
         pc[s] = "running" => pc'[s] = "running",
         pc[s] \notin After, keeps'[s] => result[s].error # "resource", Dog(s)'
  PROVE  IInv'
<1>1. HistoryKeepsTheLatest'
  BY DEF IInv, HistoryKeepsTheLatest
<1>2. \A q \in Session : q # s => SameSession(q)
  BY DEF SameSession, SameLocals
<1>3. ~HasRecord(appended, s)
  BY DEF IInv, SInv, Append1
<1>4. pc'[s] \in Admitted /\ pc[s] # "crashed"
  BY WatchedNames DEF After
<1>5. Slot(s)'
  BY <1>4 DEF IInv, SInv, Slot
<1>6. Append1(s)'
  BY <1>3, WatchedNames DEF Append1
<1>7. Outcome(s)' /\ Exited(s)'
  BY WatchedNames DEF Outcome, Exited
<1>8. SInv(s)'
  BY <1>5, <1>6, <1>7 DEF SInv
<1>9. QED
  BY <1>1, <1>2, <1>8, SessionStep

\* The watchdog starts with the snapshot the host was admitted with.
LEMMA StartStep ==
  ASSUME IInv, NEW s \in Session, StartWatchdog(s)
  PROVE  IInv'
<1>t. /\ pc \in [Session -> Spots] /\ keeps \in [Session -> BOOLEAN]
      /\ last \in [Session -> Sample \cup {NoSnapshot}]
      /\ thread \in [Session -> {"off", "asleep", "sampling", "tripped", "ended"}]
  BY DEF IInv, Types
<1>1. /\ UNCHANGED <<macos, slot, child, uncertain, result, record, buffer, history, appended, exit, faults>>
      /\ UNCHANGED <<token, stop, trip, state>>
      /\ pc[s] = "start" /\ pc' = [pc EXCEPT ![s] = "pin"]
  BY DEF StartWatchdog, StartThread, Goto, watchdogVars, store
<1>2. \/ /\ thread' = [thread EXCEPT ![s] = "asleep"] /\ last' = [last EXCEPT ![s] = last[s]]
         /\ \E b \in BOOLEAN : keeps' = [keeps EXCEPT ![s] = b]
      \/ thread' = thread /\ last' = last /\ keeps' = keeps
  BY DEF StartWatchdog, StartThread, watchdogVars
<1>3. /\ thread' \in [Session -> {"off", "asleep", "sampling", "tripped", "ended"}]
      /\ last' = last /\ keeps' \in [Session -> BOOLEAN]
  BY <1>t, <1>2
<1>4. pc' \in [Session -> Spots] /\ pc'[s] = "pin"
  BY <1>t, <1>1, SpotNames DEF Admitted
<1>5. Types'
  BY <1>1, <1>3, <1>4 DEF IInv, Types
<1>6. \A q \in Session : q # s => pc'[q] = pc[q] /\ keeps'[q] = keeps[q] /\ thread'[q] = thread[q]
  BY <1>t, <1>1, <1>2
<1>7. pc[s] \notin Watched /\ pc[s] \notin After /\ pc[s] \in Admitted /\ pc'[s] \in Watched
  BY <1>1, <1>4 DEF Watched, After, Admitted
<1>8. thread[s] = "off" /\ state[s] = NewState /\ (token[s] = "resource_pressure" => trip[s] # "none")
  BY <1>7 DEF IInv, SInv, Dog
<1>9. Dog(s)'
  <2>1. ~(state'[s].soft > 0)
    BY <1>1, <1>8, SMTT(30) DEF NewState
  <2>2. thread'[s] \in {"off", "asleep"}
    BY <1>t, <1>2, <1>8
  <2>3. QED
    BY <1>1, <1>4, <1>7, <1>8, <2>1, <2>2 DEF Dog
<1>10. result[s].error # "resource"
  BY <1>1, ResultShape DEF IInv, SInv, Outcome, Early
<1>11. QED
  BY <1>1, <1>3, <1>4, <1>5, <1>6, <1>7, <1>9, <1>10, WatchStep

\* The session tells its watchdog to stop.
LEMMA StopStep ==
  ASSUME IInv, NEW s \in Session, StopWatchdog(s)
  PROVE  IInv'
<1>t. pc \in [Session -> Spots] /\ stop \in [Session -> BOOLEAN]
  BY DEF IInv, Types
<1>1. /\ UNCHANGED <<macos, slot, child, uncertain, result, record, buffer, history, appended, exit, faults>>
      /\ UNCHANGED <<token, thread, trip, state, last, keeps>> /\ pc[s] = "stopWatchdog"
      /\ pc' = [pc EXCEPT ![s] = "join"] /\ stop' = [stop EXCEPT ![s] = TRUE]
  BY DEF StopWatchdog, TellToStop, Goto, store
<1>2. pc' \in [Session -> Spots] /\ stop' \in [Session -> BOOLEAN] /\ pc'[s] = "join"
  BY <1>t, <1>1, SpotNames DEF Admitted
<1>3. Types'
  BY <1>1, <1>2 DEF IInv, Types
<1>4. \A q \in Session : q # s => pc'[q] = pc[q] /\ stop'[q] = stop[q]
  BY <1>t, <1>1
<1>5. pc[s] \in Watched /\ pc'[s] \in Watched
  BY <1>1, <1>2 DEF Watched
<1>6. Dog(s)'
  BY <1>1, <1>2, <1>5 DEF IInv, SInv, Dog
<1>7. keeps'[s] => result[s].error # "resource"
  BY <1>1 DEF IInv, SInv, Outcome
<1>8. QED
  BY <1>1, <1>3, <1>4, <1>5, <1>6, <1>7, WatchedNames, WatchStep

\* The watchdog wakes up, samples, trips, cancels the run and ends.
LEMMA WatchdogStep ==
  ASSUME IInv, NEW s \in Session, WatchdogRuns(s)
  PROVE  IInv'
<1>t. /\ token \in [Session -> Reasons] /\ trip \in [Session -> Trips]
      /\ thread \in [Session -> {"off", "asleep", "sampling", "tripped", "ended"}]
      /\ DOMAIN state = Session /\ \A q \in Session : state[q].soft \in Nat
      /\ last \in [Session -> Sample \cup {NoSnapshot}]
  BY DEF IInv, Types
<1>dog. Dog(s)
  BY DEF IInv, SInv
<1>1. /\ UNCHANGED <<macos, slot, child, uncertain, result, record, buffer, history, appended, exit, faults>>
      /\ UNCHANGED <<pc, keeps, stop>> /\ ThreadStep(s)
  BY DEF WatchdogRuns, ThreadStep, Wake, SampleHost, SampleCancelled, SampleFails, CancelRun,
     store
<1>2. thread[s] # "off"
  BY <1>1 DEF ThreadStep, Wake, SampleHost, SampleCancelled, SampleFails, CancelRun
<1>3. pc[s] \in Watched
  BY <1>2, <1>dog DEF Dog
<1>4. keeps'[s] => result[s].error # "resource"
  BY <1>1 DEF IInv, SInv, Outcome
<1>5. NewState.soft = 0 /\ NewState.soft \in Nat
  BY SMTT(30) DEF NewState
<1>6. /\ token' \in [Session -> Reasons] /\ trip' \in [Session -> Trips]
      /\ thread' \in [Session -> {"off", "asleep", "sampling", "tripped", "ended"}]
      /\ DOMAIN state' = Session /\ \A q \in Session : state'[q].soft \in Nat
      /\ last' \in [Session -> Sample \cup {NoSnapshot}]
      /\ \A q \in Session : q # s =>
           /\ token'[q] = token[q] /\ thread'[q] = thread[q] /\ trip'[q] = trip[q]
           /\ state'[q] = state[q] /\ last'[q] = last[q]
      /\ Dog(s)'
  <2>1. CASE Wake(s)
    <3>1. /\ token' = token /\ trip' = trip /\ last' = last /\ thread[s] = "asleep"
          /\ \/ thread' = [thread EXCEPT ![s] = "ended"] /\ state' = [state EXCEPT ![s] = NewState]
             \/ thread' = [thread EXCEPT ![s] = "sampling"] /\ state' = state
      BY <2>1 DEF Wake, EndThread
    <3>2. /\ thread' \in [Session -> {"off", "asleep", "sampling", "tripped", "ended"}]
          /\ DOMAIN state' = Session /\ \A q \in Session : state'[q].soft \in Nat
          /\ \A q \in Session : q # s => thread'[q] = thread[q] /\ state'[q] = state[q]
          /\ \/ thread'[s] = "ended" /\ state'[s] = NewState
             \/ thread'[s] = "sampling" /\ state'[s] = state[s]
      BY <1>t, <1>5, <3>1
    <3>3. Dog(s)'
      BY <1>dog, <1>1, <1>3, <3>1, <3>2, WatchedNames DEF Dog
    <3>4. QED
      BY <1>t, <3>1, <3>2, <3>3
  <2>2. CASE \E x \in Sample : SampleHost(s, x)
    <3>1. PICK x \in Sample : SampleHost(s, x)
      BY <2>2
    <3>w. PICK w : w = Observe(state[s], x)
      OBVIOUS
    <3>2. /\ token' = token /\ last' = [last EXCEPT ![s] = x] /\ thread[s] = "sampling"
          /\ state' = [state EXCEPT ![s] = [soft |-> w.soft, window |-> w.window]]
          /\ trip' = [trip EXCEPT ![s] = IF trip[s] = "none" THEN w.trip ELSE trip[s]]
          /\ thread' = [thread EXCEPT ![s] = IF w.trip = "none" THEN "asleep" ELSE "tripped"]
      BY <3>1, <3>w DEF SampleHost, Record
    <3>3. /\ w.soft \in Nat /\ w.trip \in Trips
          /\ w.trip = "none" /\ w.soft > 0 => SoftPressure(w.window, x)
      BY <1>t, <3>w, SMTT(30) DEF Observe, Trips
    <3>4. /\ trip' \in [Session -> Trips] /\ last' \in [Session -> Sample \cup {NoSnapshot}]
          /\ thread' \in [Session -> {"off", "asleep", "sampling", "tripped", "ended"}]
          /\ DOMAIN state' = Session
      BY <1>t, <3>2, <3>3
    <3>5. /\ state'[s].soft = w.soft /\ state'[s].window = w.window /\ last'[s] = x
          /\ thread'[s] \in {"asleep", "tripped"} /\ (thread'[s] = "asleep" <=> w.trip = "none")
          /\ (thread'[s] = "tripped" \/ trip[s] # "none" => trip'[s] # "none")
      BY <1>t, <3>2
    <3>6. \A q \in Session : q # s => /\ thread'[q] = thread[q] /\ trip'[q] = trip[q]
                                      /\ state'[q] = state[q] /\ last'[q] = last[q]
      BY <1>t, <3>2
    <3>7. \A q \in Session : state'[q].soft \in Nat
      BY <1>t, <3>3, <3>5, <3>6
    <3>8. Dog(s)'
      BY <1>dog, <1>1, <1>3, <3>2, <3>3, <3>5, WatchedNames DEF Dog
    <3>9. QED
      BY <1>t, <3>2, <3>4, <3>6, <3>7, <3>8
  <2>3. CASE SampleCancelled(s)
    <3>1. /\ token' = token /\ trip' = trip /\ last' = last /\ state' = state /\ thread[s] = "sampling"
          /\ thread' = [thread EXCEPT ![s] = "asleep"]
      BY <2>3 DEF SampleCancelled
    <3>2. /\ thread' \in [Session -> {"off", "asleep", "sampling", "tripped", "ended"}]
          /\ thread'[s] = "asleep" /\ \A q \in Session : q # s => thread'[q] = thread[q]
      BY <1>t, <3>1
    <3>3. Dog(s)'
      BY <1>dog, <1>1, <1>3, <3>1, <3>2, WatchedNames DEF Dog
    <3>4. QED
      BY <1>t, <3>1, <3>2, <3>3
  <2>4. CASE SampleFails(s)
    <3>1. /\ token' = token /\ last' = last /\ state' = state /\ thread[s] = "sampling"
          /\ trip' = [trip EXCEPT ![s] = IF trip[s] = "none" THEN "probe_failure" ELSE trip[s]]
          /\ thread' = [thread EXCEPT ![s] = "tripped"]
      BY <2>4 DEF SampleFails, Record
    <3>2. /\ thread' \in [Session -> {"off", "asleep", "sampling", "tripped", "ended"}]
          /\ trip' \in [Session -> Trips]
          /\ thread'[s] = "tripped" /\ trip'[s] # "none"
          /\ \A q \in Session : q # s => thread'[q] = thread[q] /\ trip'[q] = trip[q]
      BY <1>t, <3>1 DEF Trips
    <3>3. Dog(s)'
      BY <1>1, <1>3, <3>2, WatchedNames DEF Dog
    <3>4. QED
      BY <1>t, <3>1, <3>2, <3>3
  <2>5. CASE CancelRun(s)
    <3>1. /\ trip' = trip /\ last' = last /\ thread[s] = "tripped"
          /\ token' = [token EXCEPT ![s] = IF token[s] = "none" THEN "resource_pressure" ELSE token[s]]
          /\ thread' = [thread EXCEPT ![s] = "ended"] /\ state' = [state EXCEPT ![s] = NewState]
      BY <2>5 DEF CancelRun, SetReason, EndThread
    <3>2. /\ thread' \in [Session -> {"off", "asleep", "sampling", "tripped", "ended"}]
          /\ token' \in [Session -> Reasons] /\ DOMAIN state' = Session
          /\ thread'[s] = "ended" /\ state'[s] = NewState
          /\ \A q \in Session : q # s =>
               thread'[q] = thread[q] /\ state'[q] = state[q] /\ token'[q] = token[q]
      BY <1>t, <3>1 DEF Reasons
    <3>3. \A q \in Session : state'[q].soft \in Nat
      BY <1>t, <1>5, <3>2
    <3>4. Dog(s)'
      BY <1>dog, <1>1, <1>3, <3>1, <3>2, WatchedNames DEF Dog
    <3>5. QED
      BY <1>t, <3>1, <3>2, <3>3, <3>4
  <2>6. QED
    BY <1>1, <2>1, <2>2, <2>3, <2>4, <2>5 DEF ThreadStep
<1>7. Types'
  BY <1>1, <1>6 DEF IInv, Types
<1>8. QED
  BY <1>1, <1>3, <1>4, <1>6, <1>7, WatchedNames, WatchStep

\* The user cancels: nothing that was recorded becomes false.
LEMMA UserStep ==
  ASSUME IInv, NEW s \in Session, UserCancels(s)
  PROVE  IInv'
<1>t. token \in [Session -> Reasons]
  BY DEF IInv, Types
<1>1. /\ UNCHANGED <<macos, slot, child, uncertain, result, record, buffer, history, appended, exit, faults>>
      /\ UNCHANGED <<pc, keeps, thread, stop, trip, state, last>> /\ token' = [token EXCEPT ![s] = "user"]
      /\ pc[s] \in Active
  BY DEF UserCancels, SetReason, store
<1>2. /\ token' \in [Session -> Reasons] /\ token'[s] = "user"
      /\ \A q \in Session : q # s => token'[q] = token[q]
  BY <1>t, <1>1 DEF Reasons
<1>3. Types'
  BY <1>1, <1>2 DEF IInv, Types
<1>4. HistoryKeepsTheLatest'
  BY <1>1 DEF IInv, HistoryKeepsTheLatest
<1>5. \A q \in Session : q # s => SameSession(q)
  BY <1>1, <1>2 DEF SameSession, SameLocals
<1>6. Slot(s)' /\ Append1(s)' /\ Dog(s)' /\ Exited(s)'
  BY <1>1, <1>2 DEF IInv, SInv, Slot, Append1, Dog, Exited
<1>7. Faithful(s) => Faithful(s)'
  BY <1>1, <1>2 DEF Faithful
<1>8. Outcome(s)'
  BY <1>1, <1>7 DEF IInv, SInv, Outcome
<1>9. SInv(s)'
  BY <1>6, <1>8 DEF SInv
<1>10. QED
  BY <1>1, <1>3, <1>4, <1>5, <1>9, SessionStep

-----------------------------------------------------------------------------
(* From the join to the release.                                           *)

\* A step of finish, from the join to the release.
LEMMA FinishStep ==
  ASSUME IInv, NEW s \in Session, UNCHANGED <<macos, slot, child, uncertain, exit, token, trip, state>>,
         pc[s] \in {"join", "outcome", "detail", "read", "write", "finalize"},
         pc'[s] \in {"outcome", "detail", "read", "write", "finalize", "release"},
         \A q \in Session : q # s =>
           /\ pc'[q] = pc[q] /\ thread'[q] = thread[q] /\ stop'[q] = stop[q] /\ last'[q] = last[q]
           /\ result'[q] = result[q] /\ keeps'[q] = keeps[q] /\ record'[q] = record[q]
           /\ buffer'[q] = buffer[q] /\ (HasRecord(appended, q)' <=> HasRecord(appended, q))
           /\ pc[q] = "write" => history' = history,
         thread[s] \in {"off", "ended"}, thread'[s] = "off",
         Types', HistoryKeepsTheLatest', Append1(s)', Outcome(s)'
  PROVE  IInv'
<1>1. \A q \in Session : q # s => SameSession(q)
  BY DEF SameSession, SameLocals
<1>2. pc[s] \in Admitted /\ pc'[s] \in Admitted /\ pc'[s] \notin Watched \cup {"start", "leaving"}
  BY DEF Admitted, Watched
<1>3. Slot(s)'
  BY <1>2 DEF IInv, SInv, Slot
<1>4. Dog(s)'
  BY <1>2 DEF IInv, SInv, Dog
<1>5. Exited(s)'
  BY <1>2 DEF Exited
<1>6. SInv(s)'
  BY <1>3, <1>4, <1>5 DEF SInv
<1>7. QED
  BY <1>1, <1>6, SessionStep

\* The watchdog is joined.
LEMMA JoinStep ==
  ASSUME IInv, NEW s \in Session, Join(s)
  PROVE  IInv'
<1>t. /\ pc \in [Session -> Spots] /\ stop \in [Session -> BOOLEAN]
      /\ thread \in [Session -> {"off", "asleep", "sampling", "tripped", "ended"}]
  BY DEF IInv, Types
<1>1. /\ UNCHANGED <<macos, slot, child, uncertain, exit, token, trip, state>>
      /\ UNCHANGED <<last, result, keeps, record, buffer, history, appended, faults>>
      /\ pc[s] = "join" /\ thread[s] \in {"off", "ended"} /\ thread' = [thread EXCEPT ![s] = "off"]
      /\ stop' = [stop EXCEPT ![s] = FALSE]
      /\ pc' = [pc EXCEPT ![s] = IF keeps[s] THEN "outcome" ELSE "finalize"]
  BY DEF Join, Joinable, Goto, AfterJoin, store
<1>2. /\ pc' \in [Session -> Spots] /\ stop' \in [Session -> BOOLEAN]
      /\ thread' \in [Session -> {"off", "asleep", "sampling", "tripped", "ended"}]
  BY <1>t, <1>1, SpotNames DEF Admitted
<1>3. /\ thread'[s] = "off" /\ pc'[s] \in {"outcome", "finalize"}
      /\ (pc'[s] = "outcome" <=> keeps[s])
  BY <1>t, <1>1
<1>4. \A q \in Session : q # s => pc'[q] = pc[q] /\ stop'[q] = stop[q] /\ thread'[q] = thread[q]
  BY <1>t, <1>1
<1>5. Types'
  BY <1>1, <1>2 DEF IInv, Types
<1>6. HistoryKeepsTheLatest'
  BY <1>1 DEF IInv, HistoryKeepsTheLatest
<1>7. ~HasRecord(appended, s)
  BY <1>1 DEF IInv, SInv, Append1, After
<1>8. Append1(s)'
  BY <1>1, <1>3, <1>7 DEF Append1
<1>9. keeps[s] => result[s].error # "resource"
  BY DEF IInv, SInv, Outcome
<1>10. Outcome(s)'
  BY <1>1, <1>3, <1>7, <1>9 DEF Outcome, Early
<1>11. QED
  BY <1>1, <1>3, <1>4, <1>5, <1>6, <1>8, <1>10, FinishStep

\* Pressure is a trip: the token says so only after the trip was recorded.
LEMMA PressureIsTrip ==
  ASSUME IInv, NEW s \in Session
  PROVE  Pressure(s) <=> trip[s] # "none"
BY DEF IInv, SInv, Dog, Pressure

\* The outcome of the record.
LEMMA OutcomeIsFaithful ==
  ASSUME IInv, NEW s \in Session, record'[s].outcome = ResourceRunOutcome(s),
         UNCHANGED <<trip, token, result>>
  PROVE  Faithful(s)'
<1>1. Pressure(s) <=> trip[s] # "none"
  BY PressureIsTrip
<1>2. trip[s] # "none" => record'[s].outcome = "resource_pressure"
  BY <1>1 DEF ResourceRunOutcome
<1>3. trip[s] = "none" =>
        /\ record'[s].outcome # "resource_pressure"
        /\ record'[s].outcome = "timed_out" => result[s].termination = "timed_out"
  BY <1>1 DEF ResourceRunOutcome
<1>4. (trip[s] = "none" /\ token[s] # "user"
         /\ result[s].termination = "completed" /\ result[s].exit = "success") =>
        record'[s].outcome = "completed"
  BY <1>1 DEF ResourceRunOutcome
<1>5. QED
  BY <1>2, <1>3, <1>4 DEF Faithful

\* The outcome of the record is computed.
LEMMA RecordStep ==
  ASSUME IInv, NEW s \in Session, RecordOutcome(s)
  PROVE  IInv'
<1>t. /\ pc \in [Session -> Spots] /\ DOMAIN record = Session
      /\ \A q \in Session : DOMAIN record[q] = {"outcome", "detail", "trip", "snapshot"}
  BY DEF IInv, Types
<1>1. /\ UNCHANGED <<macos, slot, child, uncertain, exit, token, trip, state>>
      /\ UNCHANGED <<thread, stop, last, result, keeps, buffer, history, appended, faults>>
      /\ pc[s] = "outcome" /\ pc' = [pc EXCEPT ![s] = "detail"]
      /\ record' = [record EXCEPT ![s] = [NoRecord EXCEPT !.outcome = ResourceRunOutcome(s)]]
  BY DEF RecordOutcome, Goto, watchdogVars
<1>2. /\ pc' \in [Session -> Spots] /\ pc'[s] = "detail"
      /\ \A q \in Session : q # s => pc'[q] = pc[q]
  BY <1>t, <1>1, SpotNames DEF Admitted
<1>3. /\ DOMAIN record' = Session /\ record'[s] = [NoRecord EXCEPT !.outcome = ResourceRunOutcome(s)]
      /\ \A q \in Session : q # s => record'[q] = record[q]
  BY <1>t, <1>1
<1>4. /\ record'[s].outcome = ResourceRunOutcome(s)
      /\ DOMAIN record'[s] = {"outcome", "detail", "trip", "snapshot"}
  BY <1>3 DEF NoRecord
<1>5. Types'
  <2>1. \A q \in Session : DOMAIN record'[q] = {"outcome", "detail", "trip", "snapshot"}
    BY <1>t, <1>3, <1>4
  <2>2. QED
    BY <1>1, <1>2, <1>3, <2>1 DEF IInv, Types
<1>6. HistoryKeepsTheLatest'
  BY <1>1 DEF IInv, HistoryKeepsTheLatest
<1>7. ~HasRecord(appended, s) /\ thread[s] = "off"
  BY <1>1 DEF IInv, SInv, Append1, After, Dog, Watched
<1>8. Append1(s)'
  BY <1>1, <1>2, <1>7 DEF Append1
<1>9. Faithful(s)'
  BY <1>1, <1>4, OutcomeIsFaithful
<1>10. keeps[s] /\ result[s].error # "resource"
  BY <1>1 DEF IInv, SInv, Outcome
<1>11. Outcome(s)'
  BY <1>1, <1>2, <1>7, <1>9, <1>10 DEF Outcome, Early
<1>12. QED
  BY <1>1, <1>2, <1>3, <1>5, <1>6, <1>7, <1>8, <1>11, FinishStep

\* The record is completed and validated; its outcome stays.
LEMMA DetailStep ==
  ASSUME IInv, NEW s \in Session, RecordDetail(s)
  PROVE  IInv'
<1>t. /\ pc \in [Session -> Spots] /\ DOMAIN record = Session
      /\ last \in [Session -> Sample \cup {NoSnapshot}]
      /\ \A q \in Session : DOMAIN record[q] = {"outcome", "detail", "trip", "snapshot"}
  BY ZenonT(30) DEF IInv, Types
<1>1. /\ UNCHANGED <<macos, slot, child, uncertain, exit, token, trip, state>>
      /\ UNCHANGED <<thread, stop, result, keeps, buffer, history, appended, faults>>
      /\ pc[s] = "detail" /\ last' = [last EXCEPT ![s] = NoSnapshot]
      /\ \/ pc' = [pc EXCEPT ![s] = "read"]
         \/ pc' = [pc EXCEPT ![s] = "finalize"]
  BY DEF RecordDetail, Goto
<1>2. PICK d, t, x : record' = [record EXCEPT ![s].detail = d, ![s].trip = t, ![s].snapshot = x]
  BY DEF RecordDetail
<1>3. /\ pc' \in [Session -> Spots] /\ pc'[s] \in {"read", "finalize"}
      /\ \A q \in Session : q # s => pc'[q] = pc[q]
  BY <1>t, <1>1, SpotNames DEF Admitted
<1>4. /\ last' \in [Session -> Sample \cup {NoSnapshot}]
      /\ \A q \in Session : q # s => last'[q] = last[q]
  BY <1>t, <1>1
<1>5. /\ DOMAIN record' = Session /\ \A q \in Session : q # s => record'[q] = record[q]
      /\ record'[s].outcome = record[s].outcome
      /\ DOMAIN record'[s] = {"outcome", "detail", "trip", "snapshot"}
  BY <1>t, <1>2
<1>6. Types'
  <2>1. \A q \in Session : DOMAIN record'[q] = {"outcome", "detail", "trip", "snapshot"}
    BY <1>t, <1>5
  <2>2. QED
    BY <1>1, <1>3, <1>4, <1>5, <2>1 DEF IInv, Types
<1>7. HistoryKeepsTheLatest'
  BY <1>1 DEF IInv, HistoryKeepsTheLatest
<1>8. ~HasRecord(appended, s) /\ thread[s] = "off"
  BY <1>1 DEF IInv, SInv, Append1, After, Dog, Watched
<1>9. Append1(s)'
  BY <1>1, <1>3, <1>8 DEF Append1
<1>10. keeps[s] /\ result[s].error # "resource" /\ Faithful(s)
  BY <1>1 DEF IInv, SInv, Outcome
<1>11. Faithful(s)'
  BY <1>1, <1>5, <1>10 DEF Faithful
<1>12. Outcome(s)'
  BY <1>1, <1>3, <1>8, <1>10, <1>11 DEF Outcome, Early
<1>13. QED
  BY <1>1, <1>3, <1>4, <1>5, <1>6, <1>7, <1>8, <1>9, <1>12, FinishStep

\* The latest records of a sequence of records.
Latest(a) == IF Len(a) > HistoryLimit THEN SubSeq(a, Len(a) - HistoryLimit + 1, Len(a)) ELSE a

\* They are as many as there are, up to the limit, and the last ones.
LEMMA LatestShape ==
  ASSUME NEW S, NEW a \in Seq(S)
  PROVE  /\ Latest(a) \in Seq(S)
         /\ Len(a) < HistoryLimit => Latest(a) = a
         /\ Len(a) >= HistoryLimit =>
              /\ Len(Latest(a)) = HistoryLimit
              /\ \A i \in 1..HistoryLimit : Latest(a)[i] = a[Len(a) - HistoryLimit + i]
<1>l. HistoryLimit \in Nat /\ HistoryLimit > 0 /\ Len(a) \in Nat /\ \A i \in 1..Len(a) : a[i] \in S
  BY HistoryAssumption, LenProperties, SMTT(30)
<1>1. CASE Len(a) > HistoryLimit
  <2>1. PICK m : m = Len(a) - HistoryLimit + 1
    OBVIOUS
  <2>2. /\ Latest(a) = SubSeq(a, m, Len(a)) /\ m \in Int /\ Len(a) \in Int
        /\ \A i \in m..Len(a) : a[i] \in S
    BY <1>l, <1>1, <2>1, SMTT(30) DEF Latest
  <2>3. /\ SubSeq(a, m, Len(a)) \in Seq(S)
        /\ Len(SubSeq(a, m, Len(a))) = IF m <= Len(a) THEN Len(a) - m + 1 ELSE 0
        /\ \A i \in 1..Len(a) - m + 1 : SubSeq(a, m, Len(a))[i] = a[m + i - 1]
    BY <2>2, SubSeqProperties, SMTT(30)
  <2>4. \A i \in 1..HistoryLimit : i \in 1..Len(a) - m + 1 /\ m + i - 1 = Len(a) - HistoryLimit + i
    BY <1>l, <2>1, SMTT(30)
  <2>5. Len(Latest(a)) = HistoryLimit
    BY <1>l, <1>1, <2>1, <2>2, <2>3, SMTT(30)
  <2>6. QED
    BY <1>l, <1>1, <2>2, <2>3, <2>4, <2>5, SMTT(30)
<1>2. CASE ~(Len(a) > HistoryLimit)
  BY <1>l, <1>2, SMTT(30) DEF Latest
<1>3. QED
  BY <1>1, <1>2

\* Dropping the oldest record and appending one keeps the latest records.
LEMMA AppendKeepsLatest ==
  ASSUME NEW S, NEW a \in Seq(S), NEW x \in S
  PROVE  Append(Kept(Latest(a)), x) = Latest(Append(a, x))
<1>l. HistoryLimit \in Nat /\ HistoryLimit > 0 /\ Len(a) \in Nat
  BY HistoryAssumption, LenProperties, SMTT(30)
<1>b. PICK b : b = Append(a, x)
  OBVIOUS
<1>1. /\ b \in Seq(S) /\ Len(b) = Len(a) + 1 /\ b[Len(a) + 1] = x
      /\ \A i \in 1..Len(a) : b[i] = a[i]
  BY <1>b, AppendProperties, SMTT(30)
<1>2. CASE Len(a) < HistoryLimit
  <2>1. Kept(Latest(a)) = a
    BY <1>l, <1>2, LatestShape, SMTT(30) DEF Kept
  <2>2. Latest(b) = b
    BY <1>l, <1>1, <1>2, SMTT(30) DEF Latest
  <2>3. QED
    BY <1>b, <2>1, <2>2
<1>3. CASE Len(a) >= HistoryLimit
  <2>h. PICK h : h = Latest(a)
    OBVIOUS
  <2>1. /\ h \in Seq(S) /\ Len(h) = HistoryLimit
        /\ \A i \in 1..HistoryLimit : h[i] = a[Len(a) - HistoryLimit + i]
    BY <1>3, <2>h, LatestShape
  <2>2. \A i \in 2..HistoryLimit : h[i] \in S
    BY <2>1, LenProperties, SMTT(30)
  <2>k. PICK k : k = Kept(h)
    OBVIOUS
  <2>3. k = SubSeq(h, 2, HistoryLimit)
    BY <1>l, <2>1, <2>k, SMTT(30) DEF Kept
  <2>4. /\ k \in Seq(S) /\ Len(k) = IF 2 <= HistoryLimit THEN HistoryLimit - 2 + 1 ELSE 0
        /\ \A i \in 1..HistoryLimit - 2 + 1 : k[i] = h[2 + i - 1]
    BY <1>l, <2>2, <2>3, SubSeqProperties, SMTT(30)
  <2>5. Len(k) = HistoryLimit - 1 /\ \A i \in 1..HistoryLimit - 1 : k[i] = a[Len(a) - HistoryLimit + i + 1]
    <3>1. Len(k) = HistoryLimit - 1
      BY <1>l, <2>4, SMTT(30)
    <3>2. ASSUME NEW i \in 1..HistoryLimit - 1
          PROVE  k[i] = a[Len(a) - HistoryLimit + i + 1]
      <4>1. i \in 1..HistoryLimit - 2 + 1 /\ 2 + i - 1 \in 1..HistoryLimit
        BY <1>l, <3>2, SMTT(30)
      <4>2. k[i] = a[Len(a) - HistoryLimit + (2 + i - 1)]
        BY <2>1, <2>4, <4>1
      <4>3. Len(a) - HistoryLimit + (2 + i - 1) = Len(a) - HistoryLimit + i + 1
        BY <1>l, <3>2, SMTT(30)
      <4>4. QED
        BY <4>2, <4>3
    <3>3. QED
      BY <3>1, <3>2
  <2>n. PICK n : n = Append(k, x)
    OBVIOUS
  <2>6. /\ n \in Seq(S) /\ Len(n) = Len(k) + 1 /\ n[Len(k) + 1] = x
        /\ \A i \in 1..Len(k) : n[i] = k[i]
    BY <2>4, <2>n, AppendProperties, SMTT(30)
  <2>7. /\ Latest(b) \in Seq(S) /\ Len(Latest(b)) = HistoryLimit
        /\ \A i \in 1..HistoryLimit : Latest(b)[i] = b[Len(b) - HistoryLimit + i]
    <3>1. Len(b) >= HistoryLimit
      BY <1>l, <1>1, <1>3, SMTT(30)
    <3>2. QED
      BY <1>1, <3>1, LatestShape
  <2>8. Len(n) = HistoryLimit
    BY <1>l, <2>5, <2>6, SMTT(30)
  <2>9. \A i \in 1..Len(n) : n[i] = Latest(b)[i]
    <3>1. SUFFICES ASSUME NEW i \in 1..HistoryLimit
                   PROVE  n[i] = b[Len(b) - HistoryLimit + i]
      BY <2>7, <2>8
    <3>2. CASE i = HistoryLimit
      BY <1>l, <1>1, <2>5, <2>6, <3>2, SMTT(30)
    <3>3. CASE i # HistoryLimit
      <4>1. i \in 1..HistoryLimit - 1 /\ Len(a) - HistoryLimit + i + 1 \in 1..Len(a)
        BY <1>l, <1>3, <3>1, <3>3, SMTT(30)
      <4>2. n[i] = a[Len(a) - HistoryLimit + i + 1]
        BY <2>5, <2>6, <4>1
      <4>3. b[Len(a) - HistoryLimit + i + 1] = a[Len(a) - HistoryLimit + i + 1]
        BY <1>1, <4>1
      <4>4. Len(b) - HistoryLimit + i = Len(a) - HistoryLimit + i + 1
        BY <1>l, <1>1, <3>1, SMTT(30)
      <4>5. QED
        BY <4>2, <4>3, <4>4
    <3>4. QED
      BY <3>2, <3>3
  <2>10. n = Latest(b)
    BY <2>6, <2>7, <2>8, <2>9, SeqEqual
  <2>11. QED
    BY <1>b, <2>h, <2>k, <2>n, <2>10
<1>4. QED
  BY <1>l, <1>2, <1>3, SMTT(30)

\* An append adds nobody else's record.
LEMMA OthersAppended ==
  ASSUME NEW S, NEW a \in Seq(S), NEW x \in S, NEW q, q # x
  PROVE  HasRecord(Append(a, x), q) <=> HasRecord(a, q)
<1>b. PICK b : b = Append(a, x)
  OBVIOUS
<1>1. /\ b \in Seq(S) /\ Len(b) = Len(a) + 1 /\ b[Len(a) + 1] = x
      /\ (\A i \in 1..Len(a) : b[i] = a[i]) /\ Len(a) \in Nat
  BY <1>b, AppendProperties, LenProperties, SMTT(30)
<1>2. (\E i \in 1..Len(b) : b[i] = q) <=> (\E i \in 1..Len(a) : a[i] = q)
  BY <1>1, SMTT(30)
<1>3. QED
  BY <1>b, <1>2 DEF HasRecord

\* The file holds a sequence of records.
LEMMA HistoryIsLatest ==
  ASSUME IInv
  PROVE  history = Latest(appended) /\ history \in Seq(Session \cup {NoSession})
<1>1. history = Latest(appended)
  BY DEF IInv, HistoryKeepsTheLatest, Latest
<1>2. appended \in Seq(Session \cup {NoSession})
  BY DEF IInv, Types
<1>3. QED
  BY <1>1, <1>2, LatestShape

\* The history is read, by the only session that may write it.
LEMMA ReadStep ==
  ASSUME IInv, NEW s \in Session, ReadHistory(s)
  PROVE  IInv'
<1>t. pc \in [Session -> Spots] /\ buffer \in [Session -> Seq(Session \cup {NoSession})]
  BY DEF IInv, Types
<1>1. /\ UNCHANGED <<macos, slot, child, uncertain, exit, token, trip, state>>
      /\ UNCHANGED <<thread, stop, last, result, keeps, record, history, appended, faults>>
      /\ pc[s] = "read" /\ pc' = [pc EXCEPT ![s] = "write"] /\ buffer' = [buffer EXCEPT ![s] = history]
  BY DEF ReadHistory, Goto, watchdogVars
<1>2. /\ pc' \in [Session -> Spots] /\ pc'[s] = "write"
      /\ \A q \in Session : q # s => pc'[q] = pc[q]
  BY <1>t, <1>1, SpotNames DEF Admitted
<1>3. /\ buffer' \in [Session -> Seq(Session \cup {NoSession})] /\ buffer'[s] = history
      /\ \A q \in Session : q # s => buffer'[q] = buffer[q]
  BY <1>t, <1>1, HistoryIsLatest
<1>4. Types'
  BY <1>1, <1>2, <1>3 DEF IInv, Types
<1>5. HistoryKeepsTheLatest'
  BY <1>1 DEF IInv, HistoryKeepsTheLatest
<1>6. ~HasRecord(appended, s) /\ thread[s] = "off"
  BY <1>1 DEF IInv, SInv, Append1, After, Dog, Watched
<1>7. Append1(s)'
  BY <1>1, <1>3, <1>6 DEF Append1
<1>8. keeps[s] /\ result[s].error # "resource" /\ Faithful(s)
  BY <1>1 DEF IInv, SInv, Outcome
<1>9. Faithful(s)'
  BY <1>1, <1>8 DEF Faithful
<1>10. Outcome(s)'
  BY <1>1, <1>2, <1>6, <1>8, <1>9 DEF Outcome, Early
<1>11. QED
  BY <1>1, <1>2, <1>3, <1>4, <1>5, <1>6, <1>7, <1>10, FinishStep

\* The history is written: the slot makes sure that it is still the one that was read.
LEMMA WriteStep ==
  ASSUME IInv, NEW s \in Session, WriteHistory(s)
  PROVE  IInv'
<1>t. /\ pc \in [Session -> Spots] /\ buffer \in [Session -> Seq(Session \cup {NoSession})]
      /\ appended \in Seq(Session \cup {NoSession}) /\ s \in Session \cup {NoSession}
  BY DEF IInv, Types
<1>1. /\ UNCHANGED <<macos, slot, child, uncertain, exit, token, trip, state>>
      /\ UNCHANGED <<thread, stop, last, result, keeps, record, faults>>
      /\ pc[s] = "write" /\ pc' = [pc EXCEPT ![s] = "finalize"]
      /\ history' = Append(Kept(buffer[s]), s) /\ appended' = Append(appended, s)
      /\ buffer' = [buffer EXCEPT ![s] = <<>>]
  BY DEF WriteHistory, Goto, watchdogVars
<1>2. /\ pc' \in [Session -> Spots] /\ pc'[s] = "finalize"
      /\ \A q \in Session : q # s => pc'[q] = pc[q]
  BY <1>t, <1>1, SpotNames DEF Admitted
<1>3. /\ buffer' \in [Session -> Seq(Session \cup {NoSession})]
      /\ \A q \in Session : q # s => buffer'[q] = buffer[q]
  <2>1. <<>> \in Seq(Session \cup {NoSession})
    BY EmptySeq
  <2>2. QED
    BY <1>t, <1>1, <2>1
<1>4. appended' \in Seq(Session \cup {NoSession})
  BY <1>t, <1>1, AppendProperties, SMTT(30)
<1>5. Types'
  BY <1>1, <1>2, <1>3, <1>4 DEF IInv, Types
<1>6. buffer[s] = Latest(appended)
  BY <1>1, HistoryIsLatest DEF IInv, SInv, Append1
<1>7. history' = Latest(appended')
  BY <1>t, <1>1, <1>6, AppendKeepsLatest
<1>8. HistoryKeepsTheLatest'
  BY <1>7 DEF HistoryKeepsTheLatest, Latest
<1>9. \A q \in Session : q # s => (HasRecord(appended, q)' <=> HasRecord(appended, q))
  BY <1>t, <1>1, OthersAppended
<1>10. \A q \in Session : q # s => pc[q] # "write"
  BY <1>1 DEF IInv, SInv, Slot, Admitted
<1>11. Append1(s)' /\ thread[s] = "off"
  BY <1>1, <1>2 DEF IInv, SInv, Append1, After, Dog, Watched
<1>12. keeps[s] /\ result[s].error # "resource" /\ Faithful(s)
  BY <1>1 DEF IInv, SInv, Outcome
<1>13. Faithful(s)'
  BY <1>1, <1>12 DEF Faithful
<1>14. Outcome(s)'
  BY <1>1, <1>2, <1>12, <1>13 DEF Outcome, Early
<1>15. QED
  BY <1>1, <1>2, <1>3, <1>5, <1>8, <1>9, <1>10, <1>11, <1>14, FinishStep

\* The append fails: the history is what it was.
LEMMA FailStep ==
  ASSUME IInv, NEW s \in Session, HistoryFails(s)
  PROVE  IInv'
<1>t. pc \in [Session -> Spots] /\ buffer \in [Session -> Seq(Session \cup {NoSession})]
  BY DEF IInv, Types
<1>1. /\ UNCHANGED <<macos, slot, child, uncertain, exit, token, trip, state>>
      /\ UNCHANGED <<thread, stop, last, result, keeps, record, history, appended>>
      /\ pc[s] \in {"read", "write"} /\ pc' = [pc EXCEPT ![s] = "finalize"]
      /\ buffer' = [buffer EXCEPT ![s] = <<>>]
  BY DEF HistoryFails, Goto, watchdogVars
<1>2. /\ pc' \in [Session -> Spots] /\ pc'[s] = "finalize"
      /\ \A q \in Session : q # s => pc'[q] = pc[q]
  BY <1>t, <1>1, SpotNames DEF Admitted
<1>3. /\ buffer' \in [Session -> Seq(Session \cup {NoSession})]
      /\ \A q \in Session : q # s => buffer'[q] = buffer[q]
  <2>1. <<>> \in Seq(Session \cup {NoSession})
    BY EmptySeq
  <2>2. QED
    BY <1>t, <1>1, <2>1
<1>4. Types'
  BY <1>1, <1>2, <1>3 DEF IInv, Types
<1>5. HistoryKeepsTheLatest'
  BY <1>1 DEF IInv, HistoryKeepsTheLatest
<1>6. ~HasRecord(appended, s) /\ thread[s] = "off"
  BY <1>1 DEF IInv, SInv, Append1, After, Dog, Watched
<1>7. Append1(s)'
  BY <1>1, <1>2, <1>6 DEF Append1
<1>8. keeps[s] /\ result[s].error # "resource"
  BY <1>1 DEF IInv, SInv, Outcome
<1>9. Outcome(s)'
  BY <1>1, <1>2, <1>6, <1>8 DEF Outcome, Early
<1>10. QED
  BY <1>1, <1>2, <1>3, <1>4, <1>5, <1>6, <1>7, <1>9, FinishStep

\* Pressure replaces the result, and the observation is dropped; what was recorded is remembered.
LEMMA FinalizeStep ==
  ASSUME IInv, NEW s \in Session, Finalize(s)
  PROVE  IInv'
<1>t. /\ pc \in [Session -> Spots] /\ result \in [Session -> Results] /\ keeps \in [Session -> BOOLEAN]
      /\ last \in [Session -> Sample \cup {NoSnapshot}] /\ DOMAIN record = Session
      /\ \A q \in Session : DOMAIN record[q] = {"outcome", "detail", "trip", "snapshot"}
  BY DEF IInv, Types
<1>p. Pressure(s) <=> trip[s] # "none"
  BY PressureIsTrip
<1>1. /\ UNCHANGED <<macos, slot, child, uncertain, exit, token, trip, state>>
      /\ UNCHANGED <<thread, stop, buffer, history, appended, faults>>
      /\ pc[s] = "finalize" /\ pc' = [pc EXCEPT ![s] = "release"]
      /\ result' = [result EXCEPT ![s] = IF trip[s] # "none" THEN Err("resource") ELSE result[s]]
      /\ keeps' = [keeps EXCEPT ![s] = FALSE] /\ last' = [last EXCEPT ![s] = NoSnapshot]
  BY <1>p DEF Finalize, DropObservation, Goto
<1>2. record' = [record EXCEPT ![s] = IF HasRecord(appended, s)
                                      THEN [NoRecord EXCEPT !.outcome = record[s].outcome] ELSE NoRecord]
  BY DEF Finalize, DropObservation
<1>3. /\ pc' \in [Session -> Spots] /\ pc'[s] = "release"
      /\ \A q \in Session : q # s => pc'[q] = pc[q]
  BY <1>t, <1>1, SpotNames DEF Admitted
<1>4. /\ result' \in [Session -> Results] /\ \A q \in Session : q # s => result'[q] = result[q]
      /\ trip[s] # "none" => result'[s] = Err("resource")
      /\ trip[s] = "none" => result'[s] = result[s]
  BY <1>t, <1>1, ResultShape, ZenonT(30)
<1>5. /\ keeps' \in [Session -> BOOLEAN] /\ last' \in [Session -> Sample \cup {NoSnapshot}]
      /\ \A q \in Session : q # s => keeps'[q] = keeps[q] /\ last'[q] = last[q]
      /\ ~keeps'[s]
  BY <1>t, <1>1
<1>6. /\ DOMAIN record' = Session /\ \A q \in Session : q # s => record'[q] = record[q]
      /\ HasRecord(appended, s) => record'[s] = [NoRecord EXCEPT !.outcome = record[s].outcome]
      /\ ~HasRecord(appended, s) => record'[s] = NoRecord
  BY <1>t, <1>2
<1>7. /\ HasRecord(appended, s) => record'[s].outcome = record[s].outcome
      /\ DOMAIN record'[s] = {"outcome", "detail", "trip", "snapshot"}
  BY <1>6 DEF NoRecord
<1>8. Types'
  <2>1. \A q \in Session : DOMAIN record'[q] = {"outcome", "detail", "trip", "snapshot"}
    BY <1>t, <1>6, <1>7
  <2>2. QED
    BY <1>1, <1>3, <1>4, <1>5, <1>6, <2>1 DEF IInv, Types
<1>9. HistoryKeepsTheLatest'
  BY <1>1 DEF IInv, HistoryKeepsTheLatest
<1>10. Append1(s)' /\ thread[s] = "off"
  BY <1>1, <1>3 DEF IInv, SInv, Append1, After, Dog, Watched
<1>11. HasRecord(appended, s) => Faithful(s) /\ result[s].error # "resource"
  BY <1>1 DEF IInv, SInv, Outcome
<1>12. Outcome(s)'
  <2>1. trip[s] # "none" => result'[s].error = "resource"
    BY <1>4, ResultShape
  <2>2. HasRecord(appended, s) =>
          /\ result'[s].error = "resource" => trip[s] # "none"
          /\ trip[s] # "none" => record'[s].outcome = "resource_pressure"
          /\ trip[s] = "none" => Faithful(s)'
    BY <1>1, <1>4, <1>7, <1>11 DEF Faithful
  <2>3. QED
    BY <1>1, <1>3, <1>5, <2>1, <2>2 DEF Outcome, Early
<1>13. QED
  BY <1>1, <1>3, <1>4, <1>5, <1>6, <1>8, <1>9, <1>10, <1>12, FinishStep

-----------------------------------------------------------------------------
(* The end of the session.                                                 *)

\* The slot is given back.
LEMMA ReleaseStep ==
  ASSUME IInv, NEW s \in Session, Release(s)
  PROVE  IInv'
<1>t. /\ pc \in [Session -> Spots] /\ result \in [Session -> Results] /\ exit \in [Session -> ExitKinds]
      /\ child \in [Session -> {"none", "alive"}] /\ uncertain \subseteq Session
  BY DEF IInv, Types
<1>1. /\ UNCHANGED <<token, thread, stop, trip, state, last, macos, keeps, record, buffer, history,
                     appended, faults>>
      /\ UNCHANGED <<child, uncertain>> /\ pc[s] = "release" /\ slot' = NoSession
  BY DEF Release, watchdogVars, store
<1>2. PICK x \in ExitKinds :
        \/ /\ pc' = [pc EXCEPT ![s] = "leaving"] /\ result' = [result EXCEPT ![s] = NoOutcome]
           /\ exit' = [exit EXCEPT ![s] = x]
           /\ \/ x = "admission"
              \/ /\ ~IsOk(result[s])
                 /\ x = IF result[s].error = "resource" THEN "pressure" ELSE "failed"
        \/ pc' = [pc EXCEPT ![s] = "classify"] /\ result' = result /\ exit' = exit /\ IsOk(result[s])
  BY DEF Release, Leave, Goto, ErrorExit, ExitKinds
<1>3. /\ pc' \in [Session -> Spots] /\ result' \in [Session -> Results]
      /\ exit' \in [Session -> ExitKinds]
  BY <1>t, <1>2, SpotNames, ResultShape, ZenonT(30)
<1>4. \A q \in Session : q # s => pc'[q] = pc[q] /\ result'[q] = result[q] /\ exit'[q] = exit[q]
  BY <1>t, <1>2
<1>5. /\ pc'[s] \in {"leaving", "classify"}
      /\ pc'[s] = "leaving" =>
           exit'[s] = "admission" \/ /\ ~IsOk(result[s])
                                     /\ exit'[s] = IF result[s].error = "resource" THEN "pressure" ELSE "failed"
      /\ pc'[s] = "classify" => IsOk(result[s]) /\ result'[s] = result[s]
  BY <1>t, <1>2
<1>6. /\ slot = s /\ (child[s] = "alive" => s \in uncertain)
  BY <1>1 DEF IInv, SInv, Slot, Admitted
<1>7. /\ slot' \notin Session /\ slot' \in Session \cup {NoSession}
      /\ \A q \in Session : q # s => (slot' = q <=> slot = q)
  BY <1>1, <1>6, NoSessionAssumption DEF Session
<1>8. /\ pc'[s] \notin Admitted /\ pc'[s] \notin Watched /\ pc[s] \notin Watched /\ pc'[s] \in After
  BY <1>1, <1>5 DEF Admitted, Watched, After
<1>9. Slot(s)'
  BY <1>1, <1>6, <1>7, <1>8 DEF Slot
<1>10. ~keeps[s]
  BY <1>1 DEF IInv, SInv, Outcome, Watched
<1>11. /\ trip[s] # "none" => result[s].error = "resource"
       /\ HasRecord(appended, s) =>
            /\ result[s].error = "resource" => trip[s] # "none"
            /\ trip[s] # "none" => record[s].outcome = "resource_pressure"
            /\ trip[s] = "none" => Faithful(s)
  BY <1>1 DEF IInv, SInv, Outcome
<1>12. Outcome(s)'
  <2>1. pc'[s] = "classify" /\ Faithful(s) => Faithful(s)'
    BY <1>1, <1>5 DEF Faithful
  <2>2. QED
    BY <1>1, <1>5, <1>10, <1>11, <2>1 DEF Outcome, Early
<1>13. Exited(s)'
  <2>1. SUFFICES ASSUME pc'[s] = "leaving", exit'[s] # "admission"
                 PROVE  /\ exit'[s] # "success"
                        /\ HasRecord(appended, s) =>
                             /\ record[s].outcome = "resource_pressure" <=> exit'[s] = "pressure"
                             /\ record[s].outcome # "timed_out"
    BY <1>1 DEF Exited
  <2>2. ~IsOk(result[s]) /\ result[s].termination = "none"
    BY <1>t, <1>5, <2>1, ResultShape
  <2>3. CASE result[s].error = "resource"
    BY <1>5, <1>11, <2>1, <2>3
  <2>4. CASE result[s].error # "resource"
    BY <1>5, <1>11, <2>1, <2>2, <2>4 DEF Faithful
  <2>5. QED
    BY <2>3, <2>4
<1>14. pc'[s] # "write" /\ pc'[s] # "start"
  BY <1>5
<1>15. QED
  BY <1>t, <1>1, <1>3, <1>4, <1>7, <1>8, <1>9, <1>12, <1>13, <1>14, ControlStep

\* The result of the command becomes the exit code.
LEMMA ClassifyStep ==
  ASSUME IInv, NEW s \in Session, Classify(s)
  PROVE  IInv'
<1>t. /\ pc \in [Session -> Spots] /\ result \in [Session -> Results] /\ exit \in [Session -> ExitKinds]
      /\ child \in [Session -> {"none", "alive"}] /\ uncertain \subseteq Session
      /\ slot \in Session \cup {NoSession}
  BY DEF IInv, Types
<1>1. /\ UNCHANGED <<token, thread, stop, trip, state, last, macos, keeps, record, buffer, history,
                     appended, faults>>
      /\ UNCHANGED <<child, uncertain, slot>> /\ pc[s] = "classify"
      /\ pc' = [pc EXCEPT ![s] = "leaving"] /\ result' = [result EXCEPT ![s] = NoOutcome]
  BY DEF Classify, Leave, Goto, watchdogVars, store
<1>2. IsOk(result[s]) /\ result[s].termination \in Terminations /\ result[s].error = "none"
  BY <1>t, <1>1, ResultShape DEF IInv, SInv, Outcome, IsOk
<1>3. trip[s] = "none" /\ token[s] # "resource_pressure" /\ (HasRecord(appended, s) => Faithful(s))
  BY <1>1, <1>2, ZenonT(30) DEF IInv, SInv, Outcome, Dog
<1>4. PICK x \in ExitKinds :
        /\ exit' = [exit EXCEPT ![s] = x] /\ x # "pressure"
        /\ x = "success" =>
             token[s] # "user" /\ result[s].termination = "completed" /\ result[s].exit = "success"
        /\ result[s].termination = "timed_out" => x = "timed_out"
  <2>x. PICK x : x = CASE result[s].termination = "timed_out" -> "timed_out"
                  [] result[s].termination = "cancelled" ->
                       IF token[s] = "resource_pressure" THEN "pressure" ELSE "cancelled"
                  [] OTHER ->
                       CASE token[s] = "user" -> "cancelled"
                         [] token[s] # "user" /\ result[s].exit = "success" -> "success"
                         [] token[s] # "user" /\ result[s].exit = "failure" -> "child_exit"
                         [] OTHER -> "failed"
    OBVIOUS
  <2>1. exit' = [exit EXCEPT ![s] = x]
    BY <2>x DEF Classify, Leave
  <2>2. CASE result[s].termination = "timed_out"
    BY <2>x, <2>1, <2>2 DEF ExitKinds
  <2>3. CASE result[s].termination = "cancelled"
    BY <1>3, <2>x, <2>1, <2>3 DEF ExitKinds
  <2>4. CASE result[s].termination = "completed"
    <3>1. x = CASE token[s] = "user" -> "cancelled"
                [] token[s] # "user" /\ result[s].exit = "success" -> "success"
                [] token[s] # "user" /\ result[s].exit = "failure" -> "child_exit"
                [] OTHER -> "failed"
      BY <2>x, <2>4
    <3>2. /\ x \in {"cancelled", "success", "child_exit", "failed"}
          /\ x = "success" => token[s] # "user" /\ result[s].exit = "success"
      BY <3>1
    <3>3. QED
      BY <2>1, <2>4, <3>2 DEF ExitKinds
  <2>5. QED
    BY <1>2, <2>2, <2>3, <2>4 DEF Terminations
<1>5. /\ pc' \in [Session -> Spots] /\ result' \in [Session -> Results]
      /\ exit' \in [Session -> ExitKinds] /\ pc'[s] = "leaving" /\ exit'[s] = x
  BY <1>t, <1>1, <1>4, SpotNames, ResultShape
<1>6. \A q \in Session : q # s => pc'[q] = pc[q] /\ result'[q] = result[q] /\ exit'[q] = exit[q]
  BY <1>t, <1>1, <1>4
<1>7. /\ pc'[s] \notin Admitted /\ pc[s] \notin Admitted /\ pc'[s] \notin Watched /\ pc[s] \notin Watched
      /\ pc'[s] \in After
  BY <1>1, <1>5 DEF Admitted, Watched, After
<1>8. Slot(s)'
  BY <1>1, <1>7 DEF IInv, SInv, Slot
<1>9. ~keeps[s]
  BY <1>1 DEF IInv, SInv, Outcome, Watched
<1>10. Outcome(s)'
  BY <1>1, <1>5, <1>9 DEF Outcome, Early
<1>11. Exited(s)'
  BY <1>1, <1>3, <1>4, <1>5 DEF Exited, Faithful
<1>12. pc'[s] # "write" /\ pc'[s] # "start"
  BY <1>5
<1>13. QED
  BY <1>t, <1>1, <1>5, <1>6, <1>7, <1>8, <1>10, <1>11, <1>12, ControlStep

\* What lived in the memory of the session is gone, and with a crash the slot.
LEMMA EndSteps ==
  ASSUME IInv, NEW s \in Session, Exit(s) \/ Crash(s)
  PROVE  IInv'
<1>t. /\ token \in [Session -> Reasons] /\ trip \in [Session -> Trips] /\ stop \in [Session -> BOOLEAN]
      /\ thread \in [Session -> {"off", "asleep", "sampling", "tripped", "ended"}]
      /\ DOMAIN state = Session /\ \A q \in Session : state[q].soft \in Nat
      /\ last \in [Session -> Sample \cup {NoSnapshot}] /\ pc \in [Session -> Spots]
      /\ slot \in Session \cup {NoSession} /\ result \in [Session -> Results]
      /\ keeps \in [Session -> BOOLEAN] /\ DOMAIN record = Session
      /\ \A q \in Session : DOMAIN record[q] = {"outcome", "detail", "trip", "snapshot"}
      /\ buffer \in [Session -> Seq(Session \cup {NoSession})] /\ exit \in [Session -> ExitKinds]
  BY DEF IInv, Types
<1>1. UNCHANGED <<macos, child, uncertain, history, appended, faults>> /\ Forget(s)
  BY DEF Exit, Crash
<1>2. /\ \/ pc' = [pc EXCEPT ![s] = "exited"] /\ pc[s] = "leaving" /\ slot' = slot
         \/ pc' = [pc EXCEPT ![s] = "crashed"] /\ slot' = IF slot = s THEN NoSession ELSE slot
  BY DEF Exit, Crash, Goto
<1>3. /\ token' \in [Session -> Reasons] /\ trip' \in [Session -> Trips] /\ stop' \in [Session -> BOOLEAN]
      /\ thread' \in [Session -> {"off", "asleep", "sampling", "tripped", "ended"}]
      /\ last' \in [Session -> Sample \cup {NoSnapshot}] /\ result' \in [Session -> Results]
      /\ keeps' \in [Session -> BOOLEAN] /\ exit' \in [Session -> ExitKinds]
  BY <1>t, <1>1, ResultShape DEF Forget, Reasons, Trips, ExitKinds
<1>4. /\ DOMAIN state' = Session /\ DOMAIN record' = Session
      /\ state'[s] = NewState /\ record'[s] = NoRecord
      /\ \A q \in Session : q # s => state'[q] = state[q] /\ record'[q] = record[q]
  BY <1>t, <1>1 DEF Forget
<1>5. /\ \A q \in Session : state'[q].soft \in Nat
      /\ \A q \in Session : DOMAIN record'[q] = {"outcome", "detail", "trip", "snapshot"}
  <2>1. NewState.soft \in Nat
    BY SMTT(30) DEF NewState
  <2>2. DOMAIN NoRecord = {"outcome", "detail", "trip", "snapshot"}
    BY DEF NoRecord
  <2>3. QED
    BY <1>t, <1>4, <2>1, <2>2
<1>6. buffer' \in [Session -> Seq(Session \cup {NoSession})]
  <2>1. <<>> \in Seq(Session \cup {NoSession})
    BY EmptySeq
  <2>2. QED
    BY <1>t, <1>1, <2>1 DEF Forget
<1>7. /\ pc' \in [Session -> Spots] /\ pc'[s] \in {"exited", "crashed"}
      /\ \A q \in Session : q # s => pc'[q] = pc[q]
  <2>1. {"exited", "crashed"} \subseteq Spots
    BY SpotNames
  <2>2. CASE pc' = [pc EXCEPT ![s] = "exited"]
    BY <1>t, <2>1, <2>2
  <2>3. CASE pc' = [pc EXCEPT ![s] = "crashed"]
    BY <1>t, <2>1, <2>3
  <2>4. QED
    BY <1>2, <2>2, <2>3
<1>8. slot' \in Session \cup {NoSession}
  BY <1>t, <1>2
<1>9. Types'
  BY <1>1, <1>3, <1>4, <1>5, <1>6, <1>7, <1>8 DEF IInv, Types
<1>10. HistoryKeepsTheLatest'
  BY <1>1 DEF IInv, HistoryKeepsTheLatest
<1>11. /\ token'[s] = "none" /\ thread'[s] = "off" /\ trip'[s] = "none" /\ ~keeps'[s]
       /\ \A q \in Session : q # s =>
            /\ token'[q] = token[q] /\ thread'[q] = thread[q] /\ stop'[q] = stop[q]
            /\ trip'[q] = trip[q] /\ last'[q] = last[q]
            /\ result'[q] = result[q] /\ keeps'[q] = keeps[q] /\ exit'[q] = exit[q]
            /\ buffer'[q] = buffer[q]
  BY <1>t, <1>1 DEF Forget
<1>12. /\ slot' # s /\ (child[s] = "alive" => s \in uncertain \/ pc'[s] = "crashed")
       /\ \A q \in Session : q # s => (slot' = q <=> slot = q)
  <2>1. NoSession \notin Session
    BY NoSessionAssumption DEF Session
  <2>2. pc[s] = "leaving" => slot # s /\ (child[s] = "alive" => s \in uncertain)
    BY DEF IInv, SInv, Slot, Admitted
  <2>3. CASE pc' = [pc EXCEPT ![s] = "exited"] /\ pc[s] = "leaving" /\ slot' = slot
    BY <2>2, <2>3
  <2>4. CASE pc' = [pc EXCEPT ![s] = "crashed"] /\ slot' = IF slot = s THEN NoSession ELSE slot
    BY <1>t, <2>1, <2>4
  <2>5. QED
    BY <1>2, <2>3, <2>4
<1>13. \A q \in Session : q # s => SameSession(q)
  BY <1>1, <1>4, <1>7, <1>11, <1>12, ZenonT(30) DEF SameSession, SameLocals
<1>14. /\ pc'[s] \notin Admitted /\ pc'[s] \in After /\ pc'[s] \notin Early
       /\ pc'[s] \notin {"start", "write", "outcome", "detail", "read", "finalize", "release", "classify",
                         "leaving"}
  BY <1>7 DEF Admitted, After, Early
<1>15. SInv(s)'
  <2>1. Slot(s)'
    BY <1>1, <1>12, <1>14 DEF Slot
  <2>2. Append1(s)'
    BY <1>14 DEF Append1
  <2>3. Dog(s)'
    BY <1>4, <1>11, <1>14 DEF Dog
  <2>4. Outcome(s)' /\ Exited(s)'
    BY <1>11, <1>14 DEF Outcome, Exited
  <2>5. QED
    BY <2>1, <2>2, <2>3, <2>4 DEF SInv
<1>16. QED
  BY <1>1, <1>9, <1>10, <1>13, <1>15, SessionStep

-----------------------------------------------------------------------------
(* The theorems.                                                           *)

\* Initially every session is idle and the file holds one record of an earlier session.
LEMMA InvInit == Init => IInv
<1> SUFFICES ASSUME Init PROVE IInv
  OBVIOUS
<1>1. /\ token = [s \in Session |-> "none"] /\ thread = [s \in Session |-> "off"]
      /\ stop = [s \in Session |-> FALSE] /\ trip = [s \in Session |-> "none"]
      /\ state = [s \in Session |-> NewState] /\ last = [s \in Session |-> NoSnapshot]
      /\ macos \in BOOLEAN /\ pc = [s \in Session |-> "idle"] /\ slot = NoSession
      /\ child = [s \in Session |-> "none"] /\ uncertain = {}
      /\ result = [s \in Session |-> NoOutcome] /\ keeps = [s \in Session |-> FALSE]
      /\ record = [s \in Session |-> NoRecord] /\ buffer = [s \in Session |-> <<>>]
      /\ history = <<NoSession>> /\ appended = <<NoSession>> /\ exit = [s \in Session |-> "none"]
  BY DEF Init, WatchdogInit, Session
<1>2. /\ appended \in Seq(Session \cup {NoSession}) /\ Len(appended) = 1 /\ appended[1] = NoSession
      /\ <<>> \in Seq(Session \cup {NoSession})
  BY <1>1, EmptySeq, SMTT(30)
<1>3. NewState.soft \in Nat /\ DOMAIN NoRecord = {"outcome", "detail", "trip", "snapshot"}
  BY SMTT(30) DEF NewState, NoRecord
<1>4. Types
  <2>1. /\ token \in [Session -> Reasons] /\ trip \in [Session -> Trips] /\ stop \in [Session -> BOOLEAN]
        /\ thread \in [Session -> {"off", "asleep", "sampling", "tripped", "ended"}]
        /\ last \in [Session -> Sample \cup {NoSnapshot}]
    BY <1>1 DEF Reasons, Trips
  <2>2. DOMAIN state = Session /\ \A s \in Session : state[s].soft \in Nat
    BY <1>1, <1>3
  <2>3. /\ pc \in [Session -> Spots] /\ result \in [Session -> Results] /\ exit \in [Session -> ExitKinds]
    BY <1>1, SpotNames, ResultShape DEF ExitKinds
  <2>4. /\ slot \in Session \cup {NoSession} /\ child \in [Session -> {"none", "alive"}]
        /\ uncertain \subseteq Session /\ keeps \in [Session -> BOOLEAN]
        /\ buffer \in [Session -> Seq(Session \cup {NoSession})]
    BY <1>1, <1>2
  <2>5. /\ DOMAIN record = Session
        /\ \A s \in Session : DOMAIN record[s] = {"outcome", "detail", "trip", "snapshot"}
    BY <1>1, <1>3
  <2>6. QED
    BY <1>1, <1>2, <2>1, <2>2, <2>3, <2>4, <2>5 DEF Types
<1>5. HistoryKeepsTheLatest
  BY <1>1, <1>2, HistoryAssumption, SMTT(30) DEF HistoryKeepsTheLatest
<1>6. ASSUME NEW s \in Session
      PROVE  SInv(s)
  <2>1. /\ token[s] = "none" /\ thread[s] = "off" /\ trip[s] = "none" /\ state[s] = NewState
        /\ pc[s] = "idle" /\ child[s] = "none" /\ result[s] = NoOutcome /\ ~keeps[s] /\ slot # s
    BY <1>1, <1>6, NoSessionAssumption DEF Session
  <2>2. ~HasRecord(appended, s)
    BY <1>2, <1>6, NoSessionAssumption, SMTT(30) DEF HasRecord, Session
  <2>3. Slot(s) /\ Append1(s) /\ Dog(s) /\ Exited(s)
    BY <2>1, <2>2 DEF Slot, Append1, Dog, Exited, Admitted, Watched
  <2>4. Outcome(s)
    BY <2>1, <2>2 DEF Outcome
  <2>5. QED
    BY <2>3, <2>4 DEF SInv
<1>7. QED
  BY <1>4, <1>5, <1>6 DEF IInv

\* Every step keeps the invariant.
LEMMA InvNext ==
  ASSUME IInv, Next
  PROVE  IInv'
<1>1. PICK s \in Session : Step(s) \/ WatchdogRuns(s) \/ ChildEnds(s) \/ UserCancels(s) \/ Crash(s)
  BY DEF Next
<1>2. CASE WatchdogRuns(s) \/ ChildEnds(s) \/ UserCancels(s) \/ Crash(s)
  BY <1>2, WatchdogStep, ChildEndsStep, UserStep, EndSteps
<1>3. CASE Begin(s) \/ Acquire(s) \/ AcquireFails(s) \/ OpenCache(s) \/ PreStart(s)
             \/ StartWatchdog(s) \/ PinCache(s) \/ Spawn(s) \/ SupervisorReturns(s)
  BY <1>3, EarlySteps, AcquireStep, BeforeCommand, PreStartStep, StartStep, SupervisorStep
<1>4. CASE StopWatchdog(s) \/ Join(s) \/ RecordOutcome(s) \/ RecordDetail(s)
             \/ ReadHistory(s) \/ WriteHistory(s) \/ HistoryFails(s)
  BY <1>4, StopStep, JoinStep, RecordStep, DetailStep, ReadStep, WriteStep, FailStep
<1>5. CASE Finalize(s) \/ Release(s) \/ Classify(s) \/ Exit(s)
  BY <1>5, FinalizeStep, ReleaseStep, ClassifyStep, EndSteps
<1>6. QED
  BY <1>1, <1>2, <1>3, <1>4, <1>5 DEF Step

\* A step that changes nothing keeps it too.
LEMMA InvStutter ==
  ASSUME IInv, UNCHANGED vars
  PROVE  IInv'
<1>1. UNCHANGED <<token, thread, stop, trip, state, last, macos, pc, slot, child, uncertain, result, keeps,
                  record, buffer, history, appended, exit, faults>>
  BY DEF vars, watchdogVars
<1>2. Types' /\ HistoryKeepsTheLatest'
  BY <1>1 DEF IInv, Types, HistoryKeepsTheLatest
<1>3. \A q \in Session : SameSession(q)
  BY <1>1 DEF SameSession, SameLocals
<1>4. QED
  BY <1>1, <1>2, <1>3, SessionKept DEF IInv

(***************************************************************************)
(* The invariant holds in every reachable state of guard exec: who holds   *)
(* the slot, what the buffer of an append is worth, what the watchdog has  *)
(* counted, and how the result and the record relate on the way to the     *)
(* exit code.                                                              *)
(***************************************************************************)
THEOREM Invariant == Spec => []IInv
<1>1. IInv /\ [Next]_vars => IInv'
  BY InvNext, InvStutter
<1>2. QED
  BY <1>1, InvInit, PTL DEF Spec

(***************************************************************************)
(* However many sessions there are, two guarded commands are never alive   *)
(* together, unless a session died or was told that the end of its command *)
(* is uncertain: a live command's session holds the slot.                  *)
(***************************************************************************)
THEOREM OneCommand == Spec => []OneGuardedCommand
<1>1. ASSUME IInv, NEW s \in Session, NEW t \in Session, s # t, child[s] = "alive", child[t] = "alive"
      PROVE  {s, t} \cap uncertain # {} \/ "crashed" \in {pc[s], pc[t]}
  <2>1. \A q \in {s, t} : pc[q] = "running" \/ q \in uncertain \/ pc[q] = "crashed"
    BY <1>1 DEF IInv, SInv, Slot
  <2>2. ~(pc[s] = "running" /\ pc[t] = "running")
    BY <1>1 DEF IInv, SInv, Slot, Admitted
  <2>3. QED
    BY <2>1, <2>2
<1>2. IInv => OneGuardedCommand
  BY <1>1 DEF OneGuardedCommand
<1>3. QED
  BY <1>2, Invariant, PTL

(***************************************************************************)
(* For every limit, the history file holds the latest records that were    *)
(* appended, whoever appended them: the append of one session is never     *)
(* undone by the read, the trim and the rename of another.                 *)
(***************************************************************************)
THEOREM History == Spec => []HistoryKeepsTheLatest
<1>1. IInv => HistoryKeepsTheLatest
  BY DEF IInv
<1>2. QED
  BY <1>1, Invariant, PTL

(***************************************************************************)
(* The exit code of guard exec tells what happened, and the record in the  *)
(* history agrees with it, however the watchdog, the user and the command  *)
(* interleave.                                                             *)
(***************************************************************************)
THEOREM ExitCode == Spec => []ExitTellsWhatHappened
<1>1. IInv => ExitTellsWhatHappened
  BY DEF IInv, SInv, Exited, ExitTellsWhatHappened
<1>2. QED
  BY <1>1, Invariant, PTL

\* Only a sample makes the policy trip.
LEMMA TripMoves ==
  ASSUME IInv, Next, NEW s \in Session, trip[s] = "none", trip'[s] \in {"hard", "soft"}
  PROVE  \E x \in Sample : SampleHost(s, x)
<1>t. trip \in [Session -> Trips]
  BY DEF IInv, Types
<1>1. PICK q \in Session : Step(q) \/ WatchdogRuns(q) \/ ChildEnds(q) \/ UserCancels(q) \/ Crash(q)
  BY DEF Next
<1>2. ASSUME trip' = trip
      PROVE  FALSE
  BY <1>2
<1>3. CASE Exit(q) \/ Crash(q)
  <2>1. trip' = [trip EXCEPT ![q] = "none"]
    BY <1>3 DEF Exit, Crash, Forget
  <2>2. QED
    BY <1>t, <2>1
<1>4. CASE WatchdogRuns(q)
  <2>1. CASE Wake(q) \/ SampleCancelled(q) \/ CancelRun(q)
    BY <1>2, <2>1 DEF Wake, SampleCancelled, CancelRun
  <2>2. CASE SampleFails(q)
    <3>1. trip' = [trip EXCEPT ![q] = IF trip[q] = "none" THEN "probe_failure" ELSE trip[q]]
      BY <2>2 DEF SampleFails, Record
    <3>2. QED
      BY <1>t, <3>1
  <2>3. CASE \E x \in Sample : SampleHost(q, x)
    <3>1. \E r : trip' = [trip EXCEPT ![q] = r]
      BY <2>3 DEF SampleHost, Record
    <3>2. q = s
      BY <1>t, <3>1
    <3>3. QED
      BY <2>3, <3>2
  <2>4. QED
    BY <1>4, <2>1, <2>2, <2>3 DEF WatchdogRuns, ThreadStep
<1>5. CASE ChildEnds(q) \/ UserCancels(q) \/ StopWatchdog(q) \/ Join(q) \/ RecordDetail(q) \/ Finalize(q)
             \/ PreStart(q) \/ StartWatchdog(q)
  BY <1>2, <1>5 DEF ChildEnds, UserCancels, StopWatchdog, TellToStop, Join, RecordDetail,
     Finalize, PreStart, StartWatchdog, StartThread, watchdogVars
<1>6. CASE Begin(q) \/ Acquire(q) \/ AcquireFails(q) \/ OpenCache(q) \/ PinCache(q) \/ Spawn(q)
             \/ SupervisorReturns(q)
  BY <1>2, <1>6 DEF Begin, Acquire, AcquireFails, OpenCache, PinCache, Spawn, SupervisorReturns,
                    watchdogVars
<1>7. CASE RecordOutcome(q) \/ ReadHistory(q) \/ WriteHistory(q) \/ HistoryFails(q)
             \/ Release(q) \/ Classify(q)
  BY <1>2, <1>7 DEF RecordOutcome, ReadHistory, WriteHistory, HistoryFails, Release, Classify,
                    watchdogVars
<1>8. QED
  BY <1>1, <1>3, <1>4, <1>5, <1>6, <1>7 DEF Step

(***************************************************************************)
(* A trip is justified by the samples, for every policy that asks for two  *)
(* consecutive samples or more, and no session starts on a host that its   *)
(* own watchdog would at once call out of memory.                          *)
(***************************************************************************)
THEOREM JustifiedTrips == Spec => TripsAreJustified
<1>1. ASSUME IInv, Next, NEW s \in Session, trip[s] = "none", trip'[s] \in {"hard", "soft"}
      PROVE  /\ trip'[s] = "hard" => HardPressure(last'[s])
             /\ trip'[s] = "soft" => /\ SoftPressure(state[s].window, last[s])
                                     /\ SoftPressure(state'[s].window, last'[s])
  <2>t. /\ trip \in [Session -> Trips] /\ DOMAIN state = Session /\ state[s].soft \in Nat
        /\ last \in [Session -> Sample \cup {NoSnapshot}]
    BY <1>1 DEF IInv, Types
  <2>1. PICK x \in Sample : SampleHost(s, x)
    BY <1>1, TripMoves
  <2>w. PICK w : w = Observe(state[s], x)
    OBVIOUS
  <2>2. /\ last' = [last EXCEPT ![s] = x] /\ thread[s] = "sampling"
        /\ state' = [state EXCEPT ![s] = [soft |-> w.soft, window |-> w.window]]
        /\ trip' = [trip EXCEPT ![s] = IF trip[s] = "none" THEN w.trip ELSE trip[s]]
    BY <2>1, <2>w DEF SampleHost, Record
  <2>3. last'[s] = x /\ state'[s].window = w.window /\ trip'[s] = w.trip
    BY <1>1, <2>t, <2>2
  <2>4. /\ w.trip = "hard" => HardPressure(x)
        /\ w.trip = "soft" => SoftPressure(w.window, x) /\ state[s].soft > 0
    BY <2>t, <2>w, PolicyAssumption, SMTT(30) DEF Observe
  <2>5. state[s].soft > 0 => SoftPressure(state[s].window, last[s])
    BY <1>1, <2>2 DEF IInv, SInv, Dog
  <2>6. QED
    BY <2>3, <2>4, <2>5
<1>2. ASSUME IInv, NEW s \in Session, macos, pc[s] = "start"
      PROVE  ~HardPressure(last[s])
  <2>1. last[s] \in Snapshots /\ Admits(last[s])
    BY <1>2, SampleAssumption DEF IInv, SInv, Dog
  <2>2. QED
    BY <2>1, SMTT(30) DEF Snapshots, Admits, HardPressure, MinPrestartAvailable, MinPrestartFree,
                          HardAvailable, HardReclaimable
<1>3. IInv /\ [Next]_vars =>
        [\A s \in Session :
           /\ trip[s] = "none" /\ trip'[s] = "hard" => HardPressure(last'[s])
           /\ trip[s] = "none" /\ trip'[s] = "soft" =>
                /\ SoftPressure(state[s].window, last[s])
                /\ SoftPressure(state'[s].window, last'[s])
           /\ macos /\ pc[s] = "start" => ~HardPressure(last[s])]_vars
  BY <1>1, <1>2
<1>4. QED
  BY <1>3, Invariant, PTL DEF Spec, TripsAreJustified
=============================================================================
