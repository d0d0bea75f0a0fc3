------------------------- MODULE MCQueueProcessor -------------------------
(* Values for model-checking QueueProcessor. *)
EXTENDS QueueProcessor

\* Items 1 and 2 share a discriminator.
TwoIds == {1, 2}
OneD == <<"d", "d">>
TwoHome == <<"ImmediateQueue", "ScheduledQueue">>

ThreeIds == {1, 2, 3}
TwoD == <<"d", "d", "e">>
ThreeHome == <<"ImmediateQueue", "ScheduledQueue", "ImmediateQueue">>

AllQueues == Queues

\* One of the two queues that items come from is off: they are listed alike.
ThreeQueues == Queues \ {"ScheduledQueue"}
OneHome == <<"ImmediateQueue", "ImmediateQueue">>

NoFaults == {}
ReleaseFaults == {"release"}
AllFaults == FaultKinds
=============================================================================
