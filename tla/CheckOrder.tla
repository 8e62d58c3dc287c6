----------------------------- MODULE CheckOrder ------------------------------
(***************************************************************************)
(* topological_checks of src/config.rs: the order in which the checks of a *)
(* plan run.  A check waits for as many others as it names in depends_on;  *)
(* of those that wait for none the one with the least id goes next.  Ids   *)
(* are numbers here, in the order of the strings they stand for.           *)
(***************************************************************************)
EXTENDS Integers, Sequences, FiniteSets

VARIABLES
    deps,       \* deps[c]: depends_on of the check c
    indegree,   \* how many dependencies of c are still to be ordered
    ready,      \* checks that wait for none
    ordered     \* the ids taken so far

orderVars == <<deps, indegree, ready, ordered>>

Ids == DOMAIN deps

\* The tables built from the checks by id.
StartOrder(d) ==
    /\ deps' = d
    /\ indegree' = [c \in DOMAIN d |-> Cardinality(d[c])]
    /\ ready' = {c \in DOMAIN d : d[c] = {}}
    /\ ordered' = <<>>

\* Mutant of PopReady: the greatest id goes first.
PopReadyLast ==
    \E id \in ready :
        LET children == {c \in Ids : id \in deps[c]}
        IN  /\ \A c \in ready : id >= c
            /\ ordered' = Append(ordered, id)
            /\ indegree' = [c \in Ids |-> IF c \in children THEN indegree[c] - 1 ELSE indegree[c]]
            /\ ready' = (ready \ {id}) \cup {c \in children : indegree[c] = 1}
            /\ UNCHANGED deps

\* One turn of the loop: ready.pop_first(), and its dependents wait for one check less.
PopReady ==
    \E id \in ready :
        LET children == {c \in Ids : id \in deps[c]}
        IN  /\ \A c \in ready : id <= c
            /\ ordered' = Append(ordered, id)
            /\ indegree' = [c \in Ids |-> IF c \in children THEN indegree[c] - 1 ELSE indegree[c]]
            /\ ready' = (ready \ {id}) \cup {c \in children : indegree[c] = 1}
            /\ UNCHANGED deps

Ordered == ready = {} /\ Len(ordered) = Cardinality(Ids)

\* The checks DependencyCycle names.
Blamed == {c \in Ids : indegree[c] > 0}

-----------------------------------------------------------------------------
\* Every check comes after the checks it depends on, at whatever point the loop is.
DependenciesComeFirst ==
    \A i \in DOMAIN ordered : \A d \in deps[ordered[i]] :
        \E j \in 1..(i - 1) : ordered[j] = d
=============================================================================
