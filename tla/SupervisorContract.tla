------------------------- MODULE SupervisorContract --------------------------
(***************************************************************************)
(* What SupervisorPort::execute promises the rest of the program about one *)
(* command: it returns once, with one of the outcomes of ProcessOutcome,   *)
(* and unless the outcome says that cleanup is uncertain nothing of the    *)
(* command's process group is left behind.                                 *)
(***************************************************************************)
EXTENDS ProcessOutcome

VARIABLES
    phase,      \* "idle", "running" or "returned"
    group,      \* "empty" or "alive": what is left of the process group
    outcome     \* what execute returned, NoOutcome before

Init ==
    /\ phase = "idle"
    /\ group = "empty"
    /\ outcome = NoOutcome

Start ==
    /\ phase = "idle"
    /\ phase' = "running"
    /\ group' = "alive"
    /\ UNCHANGED outcome

(***************************************************************************)
(* The processes of the group come and go on their own: the group empties  *)
(* when its last member dies.                                              *)
(***************************************************************************)
Empty ==
    /\ group = "alive"
    /\ group' = "empty"
    /\ UNCHANGED <<phase, outcome>>

Return ==
    /\ phase \in {"idle", "running"}
    /\ outcome' \in (IF phase = "idle" THEN BeforeStart ELSE AfterStart(group = "alive"))
    /\ phase' = "returned"
    /\ UNCHANGED group

Next == Start \/ Empty \/ Return

Spec == Init /\ [][Next]_<<phase, group, outcome>>
=============================================================================
