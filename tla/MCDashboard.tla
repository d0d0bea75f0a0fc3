---------------------------- MODULE MCDashboard ----------------------------
(* Values for model-checking Dashboard. *)
EXTENDS Dashboard

CONSTANTS r1, r2

TwoRows == {r1, r2}
OnePresent == {r1}
RowOrNone == {r1, None}
AllFaults == FaultKinds
=============================================================================
