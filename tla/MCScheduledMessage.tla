------------------------- MODULE MCScheduledMessage -------------------------
(* Instance for TLC: two saves of the message and two workers.             *)
EXTENDS ScheduledMessage

CONSTANTS w1, w2
MCJobs == 1 .. 2
MCWorkers == {w1, w2}
=============================================================================
