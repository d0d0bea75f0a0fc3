----------------------------- MODULE MCRollupFlow -----------------------------
(* Values for model-checking RollupFlow. *)
EXTENDS RollupFlow

TwoSequences == {1, 2}

OnePlans == [{1} -> 0 .. 3]
TwoPlans == [{1, 2} -> 0 .. 2]
AllPlans == OnePlans \cup TwoPlans

AllFaultSets == SUBSET FaultKinds
=============================================================================
