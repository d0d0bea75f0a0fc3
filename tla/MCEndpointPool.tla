---------------------------- MODULE MCEndpointPool ----------------------------
(* Values for model-checking EndpointPool. *)
EXTENDS EndpointPool

TwoEndpoints == {"p1", "p2"}
OneOrTwo == {{"p1"}, {"p1", "p2"}}
TwoWriters == {"w1", "w2"}
TwoAudits == {"t1", "t2"}
BothKinds == {"edw", "error"}
=============================================================================
