-------------------------- MODULE MCCachePromotion --------------------------
(* CachePromotion with two plans: one of two cache entries, one of one.    *)
EXTENDS CachePromotion, TLC

CONSTANTS K1, K2, K3

MCKey == {K1, K2, K3}
MCPlan == {<<K1, K2>>, <<K3>>}
ProcSymmetry == Permutations(Proc)

\* A second fault and a fourth run are looked at with one process at work at a time.
Focus == (faults <= 1 /\ Len(made) <= 3) \/ (\E p \in Proc : pc[p] = "idle")
=============================================================================
