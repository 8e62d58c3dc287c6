-------------------------- MODULE ContainerRuntime ---------------------------
(***************************************************************************)
(* execute_check of src/runtime.rs: one check is one container that the    *)
(* docker CLI creates, starts, attaches to, waits for, and then inspects,  *)
(* stops, removes and inspects once more.                                  *)
(*                                                                         *)
(* Every command goes through the process supervisor, which answers for    *)
(* the CLI's own processes (ProcessOutcome) and for nothing else: the      *)
(* daemon may still carry out the request of a CLI that was killed.  Such  *)
(* a request to create or start a container stays in `pending' until the   *)
(* daemon applies or forgets it.  A late stop or kill does no more than a  *)
(* workload that ends, a late removal comes after execute_check returned.  *)
(***************************************************************************)
EXTENDS ProcessOutcome, FiniteSets

CONSTANTS Check

VARIABLES
    step,       \* the command execute_check is about to run
    kept,       \* the result it will return if the container is cleaned up
    outcome,    \* what it returned
    box,        \* box[c]: the check's container, at the daemon
    code,       \* code[c]: the exit code of the container's workload
    pending     \* <<check, command>> requests the daemon may still carry out

runtimeVars == <<step, kept, outcome, box, code, pending>>

RunSteps == {"create", "start", "attach", "wait"}
CleanupSteps == {"inspect", "stop", "kill", "remove", "final"}

RuntimeResults == Outcomes \cup {NoOutcome, Err("lifecycle"), Err("workspace")}

RuntimeTypeOK ==
    /\ step \in RunSteps \cup CleanupSteps \cup {"idle", "returned"}
    /\ kept \in RuntimeResults /\ outcome \in RuntimeResults
    /\ box \in [Check -> {"none", "created", "running", "exited"}]
    /\ code \in [Check -> {"none", "zero", "nonzero"}]
    /\ pending \subseteq Check \X {"create", "start"}

RuntimeInit ==
    /\ step = "idle" /\ kept = NoOutcome /\ outcome = NoOutcome
    /\ box = [c \in Check |-> "none"]
    /\ code = [c \in Check |-> "none"]
    /\ pending = {}

-----------------------------------------------------------------------------
\* The daemon: which requests it accepts for a container, and what they do.
Accepts(command, b) ==
    CASE command = "create" -> b = "none"
      [] command = "start"  -> b = "created"
      [] command = "attach" -> b \in {"running", "exited"}
      [] command = "wait"   -> b = "exited"
      [] command = "kill"   -> b = "running"
      [] OTHER              -> b # "none"

Effect(command, b) ==
    CASE command = "create" -> "created"
      [] command = "start"  -> "running"
      [] command \in {"stop", "kill"} -> IF b = "running" THEN "exited" ELSE b
      [] command = "remove" -> "none"
      [] OTHER -> b

Apply(c, command) ==
    /\ box' = [box EXCEPT ![c] = Effect(command, @)]
    /\ code' = IF command \in {"stop", "kill"} /\ box[c] = "running"
               THEN [code EXCEPT ![c] = "nonzero"] ELSE code

\* A request left over from a killed CLI is carried out, or gets lost.
DaemonApplies(c, command) ==
    /\ <<c, command>> \in pending
    /\ pending' = pending \ {<<c, command>>}
    /\ \/ Accepts(command, box[c]) /\ Apply(c, command)
       \/ UNCHANGED <<box, code>>
    /\ UNCHANGED <<step, kept, outcome>>

\* The check's own command ends.
WorkloadEnds(c) ==
    /\ box[c] = "running"
    /\ box' = [box EXCEPT ![c] = "exited"]
    /\ \E e \in {"zero", "nonzero"} : code' = [code EXCEPT ![c] = e]
    /\ UNCHANGED <<step, kept, outcome, pending>>

-----------------------------------------------------------------------------
(***************************************************************************)
(* execute_cli under a token.  The CLI reports that the daemon did what it *)
(* was asked, or refused; or the call starts nothing; or the CLI is lost   *)
(* (timed out, cancelled, killed, not to be observed) after it may have    *)
(* handed its request over.                                                *)
(***************************************************************************)
NotStarted(reason) == {Err("spawn")} \cup (IF reason = "none" THEN {} ELSE {NeverStarted})

Lost(reason) ==
    {Ok("timed_out", "verified", "signalled"), Ok("completed", "verified", "signalled"),
     Err("monitor"), Err("cleanup_uncertain")}
      \cup (IF reason = "none" THEN {} ELSE {Ok("cancelled", "verified", "signalled")})

Refused == Ok("completed", "verified", "failure")

Performs(c, command, o) ==
    /\ o = Ok("completed", "verified", "success") /\ Accepts(command, box[c])
    /\ Apply(c, command)
    /\ UNCHANGED pending

Fails(c, command, reason, o) ==
    /\ \/ o \in NotStarted(reason) \cup {Refused} /\ UNCHANGED pending
       \/ /\ o \in Lost(reason)
          /\ pending' = pending \cup ({<<c, command>>} \cap (Check \X {"create", "start"}))
    /\ UNCHANGED <<box, code>>

\* Of the supervisor's errors the caller tells only cleanup_uncertain apart.
Reported(o) == IF o.error = "spawn" THEN Err("monitor") ELSE o

Return(o) == step' = "returned" /\ outcome' = Reported(o) /\ kept' = NoOutcome

\* cleanup_container begins; if it succeeds, execute_check returns o.
CleanUp(o) == step' = "inspect" /\ kept' = Reported(o) /\ UNCHANGED outcome

Continue(next) == step' = next /\ UNCHANGED <<kept, outcome>>

\* Create: an output that is no container id has the container cleaned up.
Create(c, reason) ==
    /\ step = "create"
    /\ \E o \in Outcomes :
         \/ /\ Performs(c, "create", o)
            /\ Continue("start") \/ CleanUp(Err("lifecycle"))
         \/ Fails(c, "create", reason, o) /\ Return(o)

Start(c, reason) ==
    /\ step = "start"
    /\ \E o \in Outcomes :
         \/ Performs(c, "start", o) /\ Continue("attach")
         \/ Fails(c, "start", reason, o) /\ CleanUp(o)

\* Attach: how the CLI itself exited does not matter, only that it was not stopped.
Attach(c, reason) ==
    /\ step = "attach"
    /\ \E o \in Outcomes :
         /\ Performs(c, "attach", o) \/ Fails(c, "attach", reason, o)
         /\ \/ o.termination = "completed" /\ step' = "wait" /\ UNCHANGED <<kept, outcome>>
            \/ o.termination # "completed" /\ CleanUp(o)

\* Mutant of Wait: the exit code of the check is the one of the attached client.
WaitNotAuthoritative(c, reason) ==
    /\ step = "wait"
    /\ \E o \in Outcomes :
         \/ Performs(c, "wait", o) /\ CleanUp(Ok("completed", "verified", "success"))
         \/ /\ Fails(c, "wait", reason, o)
            /\ \/ IsOk(o) /\ CleanUp(Err("lifecycle"))
               \/ ~IsOk(o) /\ Return(o)

\* Wait: the exit code it prints is the check's; an output that is none ends the call.
Wait(c, reason) ==
    /\ step = "wait"
    /\ \E o \in Outcomes :
         \/ /\ Performs(c, "wait", o)
            /\ \/ CleanUp(Ok("completed", "verified",
                             IF code[c] = "zero" THEN "success" ELSE "failure"))
               \/ Return(Err("lifecycle"))
         \/ /\ Fails(c, "wait", reason, o)
            /\ \/ IsOk(o) /\ CleanUp(Err("lifecycle"))
               \/ ~IsOk(o) /\ Return(o)

-----------------------------------------------------------------------------
(***************************************************************************)
(* cleanup_container, under a token nobody sets.                           *)
(***************************************************************************)
\* The inspection must name the container, its labels and a state it knows.
Inspect(c) ==
    /\ step = "inspect"
    /\ \E o \in Outcomes :
         \/ /\ Performs(c, "inspect", o)
            /\ \/ Continue(IF box[c] = "exited" THEN "remove" ELSE "stop")
               \/ Return(Err("lifecycle"))
         \/ Fails(c, "inspect", "none", o) /\ Return(Err("lifecycle"))

Stop(c) ==
    /\ step = "stop"
    /\ \E o \in Outcomes :
         \/ Performs(c, "stop", o) /\ Continue("remove")
         \/ Fails(c, "stop", "none", o) /\ Continue("kill")

Kill(c) ==
    /\ step = "kill"
    /\ \E o \in Outcomes :
         \/ Performs(c, "kill", o) /\ Continue("remove")
         \/ Fails(c, "kill", "none", o) /\ Return(Err("lifecycle"))

ForceRemove(c) ==
    /\ step = "remove"
    /\ \E o \in Outcomes :
         \/ Performs(c, "remove", o) /\ Continue("final")
         \/ Fails(c, "remove", "none", o) /\ Return(Err("lifecycle"))

\* The final inspection must have run and must have failed.
Final(c) ==
    /\ step = "final"
    /\ \E o \in Outcomes :
         /\ Performs(c, "inspect", o) \/ Fails(c, "final", "none", o)
         /\ \/ /\ o.termination = "completed" /\ o.exit # "success"
               /\ Return(kept)
            \/ /\ ~(o.termination = "completed" /\ o.exit # "success")
               /\ Return(Err("lifecycle"))

RuntimeStep(c, reason) ==
    \/ Create(c, reason) \/ Start(c, reason) \/ Attach(c, reason) \/ Wait(c, reason)
    \/ Inspect(c) \/ Stop(c) \/ Kill(c) \/ ForceRemove(c) \/ Final(c)

DaemonStep(c) ==
    \/ \E command \in {"create", "start"} : DaemonApplies(c, command)
    \/ WorkloadEnds(c)
=============================================================================
