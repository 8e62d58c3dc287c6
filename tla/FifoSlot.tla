------------------------------ MODULE FifoSlot -------------------------------
(***************************************************************************)
(* What the admission coordinator promises its callers, without files,     *)
(* locks, leases or scans: a single slot handed out in the order in which  *)
(* the processes joined.  A process may leave at any time, because it gave *)
(* up, released the slot or died.                                          *)
(***************************************************************************)
EXTENDS Naturals

CONSTANTS Proc, Number

VARIABLES
    stage,      \* "out", "waiting" or "holding"
    number      \* the place of a process in the order of arrival, 0 when out

Init ==
    /\ stage = [p \in Proc |-> "out"]
    /\ number = [p \in Proc |-> 0]

Join(p) ==
    /\ stage[p] = "out"
    /\ \E n \in Number :
         /\ \A q \in Proc : number[q] < n
         /\ number' = [number EXCEPT ![p] = n]
    /\ stage' = [stage EXCEPT ![p] = "waiting"]

Grant(p) ==
    /\ stage[p] = "waiting"
    /\ \A q \in Proc : stage[q] # "holding"
    /\ \A q \in Proc : stage[q] = "waiting" => number[p] <= number[q]
    /\ stage' = [stage EXCEPT ![p] = "holding"]
    /\ UNCHANGED number

Leave(p) ==
    /\ stage[p] # "out"
    /\ stage' = [stage EXCEPT ![p] = "out"]
    /\ number' = [number EXCEPT ![p] = 0]

Next == \E p \in Proc : Join(p) \/ Grant(p) \/ Leave(p)

Spec == Init /\ [][Next]_<<stage, number>>
=============================================================================
