---------------------------- MODULE MCReportView ----------------------------
(* Values for model-checking ReportView. *)
EXTENDS ReportView

CONSTANTS v1, r1, k1, k2, bad

OneView == {v1}
OneReport == {r1}
TwoKeys == {k1, k2}
OneInvalid == {bad}
HomeOne == [r \in OneReport |-> k1]
CallersOne == OneView \cup (OneReport \X {"auto", "form"})
AllFaults == FaultKinds
=============================================================================
