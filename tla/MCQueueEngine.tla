--------------------------- MODULE MCQueueEngine ---------------------------
(* TLC instances of QueueEngine.                                           *)
EXTENDS QueueEngine, TLC

\* Jobs are interchangeable names.
JobNames == Permutations(JobIds)
=============================================================================
