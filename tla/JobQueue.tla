------------------------------ MODULE JobQueue ------------------------------
(***************************************************************************)
(* What the job queue promises to producers and workers, whatever its      *)
(* heaps, timers and files look like.  A job is unknown, waiting, leased   *)
(* to one holder of a receipt, or dead; only the last receipt issued for a *)
(* job counts; and a restart may forget a job only if it was never in a    *)
(* snapshot, and may bring a finished one back (at least once, not exactly *)
(* once).                                                                  *)
(***************************************************************************)
EXTENDS Naturals

CONSTANTS JobIds

VARIABLES
  state,    \* each job: "unknown", "waiting", "leased" or "dead"
  receipt,  \* the receipt that is honoured for the job, or 0
  issued,   \* how many receipts were issued for it
  fate,     \* each job: "unused", "accepted" or "done"
  durable   \* jobs a snapshot has stored

vars == <<state, receipt, issued, fate, durable>>

Init ==
  /\ state = [j \in JobIds |-> "unknown"]
  /\ receipt = [j \in JobIds |-> 0] /\ issued = [j \in JobIds |-> 0]
  /\ fate = [j \in JobIds |-> "unused"]
  /\ durable = {}

\* A job becomes known, once.
Accept(j) ==
  /\ fate[j] = "unused" /\ state[j] = "unknown"
  /\ state' = [state EXCEPT ![j] = "waiting"]
  /\ fate' = [fate EXCEPT ![j] = "accepted"]
  /\ UNCHANGED <<receipt, issued, durable>>

\* A worker gets a waiting job under a receipt of its own.
Lease(j) ==
  /\ state[j] = "waiting"
  /\ state' = [state EXCEPT ![j] = "leased"]
  /\ issued' = [issued EXCEPT ![j] = @ + 1]
  /\ receipt' = [receipt EXCEPT ![j] = issued'[j]]
  /\ UNCHANGED <<fate, durable>>

\* The holder of receipt r reports success.
Finish(j, r) ==
  /\ state[j] = "leased" /\ receipt[j] = r
  /\ state' = [state EXCEPT ![j] = "unknown"]
  /\ receipt' = [receipt EXCEPT ![j] = 0]
  /\ fate' = [fate EXCEPT ![j] = "done"]
  /\ UNCHANGED <<issued, durable>>

\* The leases of J end without success: each job waits again or is dead.
GiveBack(J) ==
  /\ J # {} /\ \A j \in J : state[j] = "leased"
  /\ \E after \in [J -> {"waiting", "dead"}] :
       state' = [j \in JobIds |-> IF j \in J THEN after[j] ELSE state[j]]
  /\ receipt' = [j \in JobIds |-> IF j \in J THEN 0 ELSE receipt[j]]
  /\ UNCHANGED <<issued, fate, durable>>

\* An operator retries a dead letter, or deletes a job in any state.
Retry(j) ==
  /\ state[j] = "dead"
  /\ state' = [state EXCEPT ![j] = "waiting"]
  /\ UNCHANGED <<receipt, issued, fate, durable>>

Delete(j) ==
  /\ state[j] # "unknown"
  /\ state' = [state EXCEPT ![j] = "unknown"]
  /\ receipt' = [receipt EXCEPT ![j] = 0]
  /\ fate' = [fate EXCEPT ![j] = "done"]
  /\ UNCHANGED <<issued, durable>>

\* A snapshot is on disk.
Persist(J) ==
  /\ \A j \in J : state[j] # "unknown" \/ fate[j] = "done"
  /\ durable' = durable \cup J
  /\ UNCHANGED <<state, receipt, issued, fate>>

\* The process ended and what will be loaded is settled: no lease is left, a
\* job never stored is gone, and a stored one is there unless it was done.
Recover(J) ==
  /\ durable' = durable \cup J
  /\ state' \in [JobIds -> {"unknown", "waiting", "dead"}]
  /\ \A j \in JobIds :
       /\ j \notin durable' \/ fate[j] = "unused" => state'[j] = "unknown"
       /\ j \in durable' /\ fate[j] # "done" => state'[j] # "unknown"
  /\ receipt' = [j \in JobIds |-> 0]
  /\ UNCHANGED <<issued, fate>>

Next ==
  \/ \E j \in JobIds :
       Accept(j) \/ Lease(j) \/ Finish(j, receipt[j]) \/ Retry(j) \/ Delete(j)
  \/ \E J \in SUBSET JobIds : GiveBack(J) \/ Persist(J) \/ Recover(J)

Spec == Init /\ [][Next]_vars

-----------------------------------------------------------------------------
\* Every variable has its type.
TypeOK ==
  /\ state \in [JobIds -> {"unknown", "waiting", "leased", "dead"}]
  /\ receipt \in [JobIds -> Nat] /\ issued \in [JobIds -> Nat]
  /\ fate \in [JobIds -> {"unused", "accepted", "done"}]
  /\ durable \subseteq JobIds
=============================================================================
