--------------------------- MODULE MCQueueRunner ---------------------------
(* Values for model-checking QueueRunner. *)
EXTENDS QueueRunner

CONSTANTS i1, i2, i3, i4, i5

FourItems == {i1, i2, i3, i4}
FiveItems == {i1, i2, i3, i4, i5}
Diverted == {i1}
ReadFaults == {"list", "row"}
LateFaults == {"row", "restart", "retry"}
=============================================================================
