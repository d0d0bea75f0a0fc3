---------------------------- MODULE MCExclusiveJobs ----------------------------
(* Values for model-checking ExclusiveJobs. *)
EXTENDS ExclusiveJobs

CONSTANTS e1, e2, e3, n1

Three == {e1, e2, e3}
TwoAndOne == {e1, e2, n1}
Two == {e1, e2}

\* Everything may throw; everything but the wait for a turn; only what loses no
\* ticket.
Scenarios == {FaultKinds, {"execute", "release", "init"}, {"execute", "init"}}
WaitFaults == {{"wait"}}
=============================================================================
