----------------------------- MODULE MCCheckRun ------------------------------
(***************************************************************************)
(* CheckRun for TLC: an ordinary plan with a required check and an         *)
(* optional one that depends on it, one with two independent checks, and a *)
(* matrix of two runtimes.                                                 *)
(***************************************************************************)
EXTENDS CheckRun

CONSTANTS build, lint, test

MCPlans == {<< <<build, lint>> >>, << <<build, test>> >>, << <<build>>, <<test>> >>}
MCDeps == [c \in {build, lint, test} |-> IF c = lint THEN {build} ELSE {}]

\* One snapshot, under hard pressure: the others leave the run alone.
MCSample == {[available |-> 40, reclaimable |-> 8, compressor |-> 15, total |-> 20,
              swapUsed |-> 9, swapTotal |-> 20]}
=============================================================================
