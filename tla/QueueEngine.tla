---------------------------- MODULE QueueEngine ----------------------------
(***************************************************************************)
(* The job queue of packages/queue: QueueEngine with its DelayQueues and   *)
(* PriorityQueue, and the snapshot file it restarts from.                  *)
(*                                                                         *)
(* The engine runs on one event loop: a call is atomic up to its awaits,   *)
(* and only the snapshot write has one.  Time is a set of flags: an entry  *)
(* of a DelayQueue becomes due at some moment, and popExpired takes all    *)
(* the due ones.  Which of the ready jobs a poll returns (task types,      *)
(* priorities) is left open.                                               *)
(***************************************************************************)
EXTENDS Integers, FiniteSets

CONSTANTS
  JobIds,            \* uuids: one enqueue each
  DedupIds, NoDedup, \* deduplication ids
  AttemptLimits,     \* the maxAttempts callers ask for
  NoJob, NoImage,
  MaxRestarts,       \* bound: crashes and stops
  MaxInterventions   \* bound: changeVisibility, retryJob and deleteJob calls

ASSUME QueueAssumption ==
  /\ NoJob \notin JobIds /\ NoDedup \notin DedupIds
  /\ AttemptLimits \subseteq Int
  /\ MaxRestarts \in Nat /\ MaxInterventions \in Nat

VARIABLES
  \* memory
  jobs,                \* [status, attempts, maxAttempts, dedup, receipt]
  readyQueue,          \* how often each job is in the priority queue
  scheduledQueue,      \* each job: "out", "waiting" or "due"
  inflightQueue,       \* entries [job, receipt, due]
  deduplicationIndex,
  snapshotPromise,     \* the image a write in progress captured, or NoImage
  mode,                \* the process: "down", "running", "stopping"
  \* the snapshot file
  disk,
  \* history and bounds
  fate,                \* each job: "unused", "accepted", "done"
  leases,              \* how many receipts were issued for each job
  persisted,           \* jobs that were in some image on disk
  revived,             \* keys of dead letters that were retried or deleted
  restarts, interventions

memory  == <<jobs, readyQueue, scheduledQueue, inflightQueue, deduplicationIndex>>
storage == <<snapshotPromise, disk, mode, persisted, restarts>>
vars == <<memory, storage, fate, leases, revived, interventions>>

-----------------------------------------------------------------------------
Live == {"Ready", "Scheduled", "Inflight"}
Keys == DedupIds \cup {NoDedup}

Absent == [status |-> "Absent", attempts |-> 0, maxAttempts |-> 1,
           dedup |-> NoDedup, receipt |-> 0]

\* Math.min(Math.max(maxAttempts, 1), 1000)
Clamp(n) == IF n < 1 THEN 1 ELSE IF n > 1000 THEN 1000 ELSE n

\* The ways in which the engine updates a record.
Unleased(record, status) == [record EXCEPT !.status = status, !.receipt = 0]
Leased(record, receipt) ==
  [record EXCEPT !.status = "Inflight", !.attempts = @ + 1, !.receipt = receipt]
Revived(record) == [record EXCEPT !.status = "Ready", !.attempts = 0, !.receipt = 0]

NoneReady     == [j \in JobIds |-> 0]
NoneScheduled == [j \in JobIds |-> "out"]
NoKeys        == [k \in DedupIds |-> NoJob]

Init ==
  /\ jobs = [j \in JobIds |-> Absent]
  /\ readyQueue = NoneReady /\ scheduledQueue = NoneScheduled
  /\ inflightQueue = {} /\ deduplicationIndex = NoKeys
  /\ snapshotPromise = NoImage /\ disk = NoImage /\ mode = "down"
  /\ fate = [j \in JobIds |-> "unused"] /\ leases = [j \in JobIds |-> 0]
  /\ persisted = {} /\ revived = {}
  /\ restarts = 0 /\ interventions = 0

Up == mode # "down"
Intervene == interventions < MaxInterventions /\ interventions' = interventions + 1

\* (Mutant: the keys are kept.)
KeepKeys(J) == UNCHANGED deduplicationIndex

\* deduplicationIndex.delete(key) for the keys of J, whoever owns the entries
ReleaseKeys(J) ==
  deduplicationIndex' = [k \in DedupIds |->
    IF \E j \in J : k = jobs[j].dedup THEN NoJob ELSE deduplicationIndex[k]]

-----------------------------------------------------------------------------
(* Producers and the admin calls.                                          *)

\* (Mutant: the index is not consulted.)
NotRejected(key) == TRUE

\* No live job holds the key.
Admits(key) ==
  key \in DedupIds /\ deduplicationIndex[key] # NoJob
    => jobs[deduplicationIndex[key]].status \notin Live

NewJob(status, key, limit) ==
  [status |-> status, attempts |-> 0, maxAttempts |-> Clamp(limit),
   dedup |-> key, receipt |-> 0]

\* enqueue.  A rejected duplicate changes nothing.
Enqueue(j, key, limit) ==
  /\ Up /\ fate[j] = "unused" /\ Admits(key)
  /\ \E status \in {"Ready", "Scheduled"} :
       /\ jobs' = [jobs EXCEPT ![j] = NewJob(status, key, limit)]
       /\ readyQueue' = [readyQueue EXCEPT ![j] = IF status = "Ready" THEN @ + 1 ELSE @]
       /\ scheduledQueue' = [scheduledQueue EXCEPT
                               ![j] = IF status = "Scheduled" THEN "waiting" ELSE @]
  /\ deduplicationIndex' = [k \in DedupIds |-> IF k = key THEN j ELSE deduplicationIndex[k]]
  /\ fate' = [fate EXCEPT ![j] = "accepted"]
  /\ UNCHANGED <<inflightQueue, storage, leases, revived, interventions>>

\* retryJob
RetryJob(j) ==
  /\ Up /\ jobs[j].status = "DeadLetter" /\ Intervene
  /\ jobs' = [jobs EXCEPT ![j] = Revived(@)]
  /\ readyQueue' = [readyQueue EXCEPT ![j] = @ + 1]
  /\ revived' = revived \cup {jobs[j].dedup}
  /\ UNCHANGED <<scheduledQueue, inflightQueue, deduplicationIndex, storage, fate, leases>>

\* deleteJob
DeleteJob(j) ==
  /\ Up /\ jobs[j].status # "Absent" /\ Intervene
  /\ readyQueue' = [readyQueue EXCEPT
       ![j] = IF jobs[j].status = "Ready" /\ @ > 0 THEN @ - 1 ELSE @]
  /\ scheduledQueue' = [scheduledQueue EXCEPT
       ![j] = IF jobs[j].status = "Scheduled" THEN "out" ELSE @]
  /\ inflightQueue' = IF jobs[j].status = "Inflight"
       THEN {e \in inflightQueue : e.job # j \/ e.receipt # jobs[j].receipt}
       ELSE inflightQueue
  /\ ReleaseKeys({j})
  /\ jobs' = [jobs EXCEPT ![j] = Absent]
  /\ fate' = [fate EXCEPT ![j] = "done"]
  /\ revived' = IF jobs[j].status = "DeadLetter" THEN revived \cup {jobs[j].dedup} ELSE revived
  /\ UNCHANGED <<storage, leases>>

-----------------------------------------------------------------------------
(* Time and the scheduler.                                                 *)

\* The run time of a scheduled job comes.
RunAtComes(j) ==
  /\ scheduledQueue[j] = "waiting"
  /\ scheduledQueue' = [scheduledQueue EXCEPT ![j] = "due"]
  /\ UNCHANGED <<jobs, readyQueue, inflightQueue, deduplicationIndex, storage,
                 fate, leases, revived, interventions>>

\* The visibility deadline of a lease passes.
DeadlinePasses(e) ==
  /\ ~e.due
  /\ inflightQueue' = (inflightQueue \ {e}) \cup {[e EXCEPT !.due = TRUE]}
  /\ UNCHANGED <<jobs, readyQueue, scheduledQueue, deduplicationIndex, storage,
                 fate, leases, revived, interventions>>

\* scheduledQueue.popExpired
Due == {j \in JobIds : scheduledQueue[j] = "due"}
Promoted(j) == j \in Due /\ jobs[j].status = "Scheduled"

\* The job records and the ready queue after processScheduledJobs.
PromotedJobs  == [j \in JobIds |->
  IF Promoted(j) THEN [jobs[j] EXCEPT !.status = "Ready"] ELSE jobs[j]]
PromotedReady == [j \in JobIds |-> IF Promoted(j) THEN readyQueue[j] + 1 ELSE readyQueue[j]]
StillWaiting  == [j \in JobIds |-> IF j \in Due THEN "out" ELSE scheduledQueue[j]]

\* A tick of the scheduler loop, or the first thing a poll does.
ProcessScheduledJobs ==
  /\ Up /\ Due # {}
  /\ jobs' = PromotedJobs /\ readyQueue' = PromotedReady /\ scheduledQueue' = StillWaiting
  /\ UNCHANGED <<inflightQueue, deduplicationIndex, storage, fate, leases, revived, interventions>>

-----------------------------------------------------------------------------
(* Workers.                                                                *)

\* tryDequeueOne: processScheduledJobs, then a lease on a ready job.
TryDequeueOne(j) ==
  /\ Up /\ PromotedReady[j] > 0
  /\ LET receipt == leases[j] + 1
     IN  /\ jobs' = [PromotedJobs EXCEPT ![j] = Leased(@, receipt)]
         /\ inflightQueue' = inflightQueue \cup {[job |-> j, receipt |-> receipt, due |-> FALSE]}
         /\ leases' = [leases EXCEPT ![j] = receipt]
  /\ readyQueue' = [PromotedReady EXCEPT ![j] = @ - 1]
  /\ scheduledQueue' = StillWaiting
  /\ UNCHANGED <<deduplicationIndex, storage, fate, revived, interventions>>

\* findByReceipt: the record of job j shows receipt r.
FindByReceipt(j, r) == r # 0 /\ jobs[j].receipt = r

\* inflightQueue.removeByKey(receipt)
Removed(j, r) == {e \in inflightQueue : ~(e.job = j /\ e.receipt = r)}

\* ack.  An unknown receipt changes nothing.
Ack(j, r) ==
  /\ Up /\ FindByReceipt(j, r)
  /\ inflightQueue' = Removed(j, r)
  /\ jobs' = [jobs EXCEPT ![j] = Absent]
  /\ ReleaseKeys({j})
  /\ fate' = [fate EXCEPT ![j] = "done"]
  /\ UNCHANGED <<readyQueue, scheduledQueue, storage, leases, revived, interventions>>

\* (Mutant: one attempt too many.)
BuriedLater(J) == {j \in J : jobs[j].attempts > jobs[j].maxAttempts}

\* The jobs of J that have no attempt left.
Buried(J) == {j \in J : jobs[j].attempts >= jobs[j].maxAttempts}

\* (Mutant: the jobs to retry are not pushed to the delay queue.)
RescheduleUnpushed(J) == UNCHANGED scheduledQueue

Reschedule(J) ==
  scheduledQueue' = [j \in JobIds |-> IF j \in J THEN "waiting" ELSE scheduledQueue[j]]

\* The attempts of the jobs in J have failed: dead letters, which release
\* their keys, or another try after a backoff.
Fail(J) ==
  /\ jobs' = [j \in JobIds |->
       IF j \notin J THEN jobs[j]
       ELSE Unleased(jobs[j], IF j \in Buried(J) THEN "DeadLetter" ELSE "Scheduled")]
  /\ ReleaseKeys(Buried(J))
  /\ Reschedule(J \ Buried(J))

Nack(j, r) ==
  /\ Up /\ FindByReceipt(j, r)
  /\ inflightQueue' = Removed(j, r)
  /\ Fail({j})
  /\ UNCHANGED <<readyQueue, storage, fate, leases, revived, interventions>>

\* changeVisibility
ChangeVisibility(j, r) ==
  /\ Up /\ FindByReceipt(j, r) /\ jobs[j].status = "Inflight" /\ Intervene
  /\ inflightQueue' = Removed(j, r) \cup {[job |-> j, receipt |-> r, due |-> FALSE]}
  /\ UNCHANGED <<jobs, readyQueue, scheduledQueue, deduplicationIndex, storage,
                 fate, leases, revived>>

\* inflightQueue.popExpired, and the jobs whose lease that ends.  An entry
\* whose job has moved on is just popped.
Expired == {e \in inflightQueue : e.due}
TimedOut == {j \in JobIds :
  jobs[j].status = "Inflight" /\ \E e \in Expired : e.job = j /\ e.receipt = jobs[j].receipt}

\* A tick of the visibility loop.
ProcessVisibilityTimeouts ==
  /\ mode = "running" /\ Expired # {}
  /\ inflightQueue' = inflightQueue \ Expired
  /\ Fail(TimedOut)
  /\ UNCHANGED <<readyQueue, storage, fate, leases, revived, interventions>>

-----------------------------------------------------------------------------
(* Snapshots, crashes and restarts.                                        *)

Image == [jobs |-> jobs, index |-> deduplicationIndex]

\* saveSnapshot up to its first await.  (Bound: an image no restart can load
\* any more is not captured.)
CaptureSnapshot ==
  /\ mode = "running" /\ snapshotPromise = NoImage /\ restarts < MaxRestarts
  /\ snapshotPromise' = Image
  /\ UNCHANGED <<memory, disk, mode, persisted, restarts, fate, leases, revived, interventions>>

\* stop: ends the loops and saves a snapshot, or joins the write in progress.
Stop ==
  /\ mode = "running" /\ restarts < MaxRestarts
  /\ mode' = "stopping" /\ restarts' = restarts + 1
  /\ snapshotPromise' = IF snapshotPromise = NoImage THEN Image ELSE snapshotPromise
  /\ UNCHANGED <<memory, disk, persisted, fate, leases, revived, interventions>>

Forgotten ==
  /\ jobs' = [j \in JobIds |-> Absent]
  /\ readyQueue' = NoneReady /\ scheduledQueue' = NoneScheduled
  /\ inflightQueue' = {} /\ deduplicationIndex' = NoKeys

\* The file is renamed into place, or the write fails and is only logged.  A
\* stop that waited for it returns and the process exits.
FinishSnapshot ==
  /\ snapshotPromise # NoImage
  /\ \/ /\ disk' = snapshotPromise
        /\ persisted' = persisted \cup {j \in JobIds : snapshotPromise.jobs[j].status # "Absent"}
     \/ UNCHANGED <<disk, persisted>>
  /\ snapshotPromise' = NoImage
  /\ IF mode = "stopping" THEN mode' = "down" /\ Forgotten ELSE UNCHANGED <<mode, memory>>
  /\ UNCHANGED <<restarts, fate, leases, revived, interventions>>

\* The process dies: memory and a write in progress are gone.
Crash ==
  /\ Up /\ restarts < MaxRestarts
  /\ restarts' = restarts + 1 /\ mode' = "down" /\ snapshotPromise' = NoImage
  /\ Forgotten
  /\ UNCHANGED <<disk, persisted, fate, leases, revived, interventions>>

\* (Mutants: leases outlive the process that issued them, or are forgotten;
\* every job gets an attempt back.)
RestoredLease(record) ==
  IF record.status = "Inflight" THEN [record EXCEPT !.status = "Ready"] ELSE record
LeasesForgotten(record) == IF record.status = "Inflight" THEN Absent ELSE record

AttemptReturned(record) ==
  [record EXCEPT !.status = IF @ = "Inflight" THEN "Ready" ELSE @,
                 !.receipt = 0, !.attempts = @ - 1]

\* loadSnapshot of one record: a lease does not outlive the process.
Restored(record) ==
  IF record.status = "Inflight" THEN Unleased(record, "Ready") ELSE record

\* start
Start ==
  /\ mode = "down" /\ mode' = "running"
  /\ IF disk = NoImage THEN UNCHANGED memory
     ELSE LET loaded == [j \in JobIds |-> Restored(disk.jobs[j])]
          IN  /\ jobs' = loaded
              /\ readyQueue' = [j \in JobIds |-> IF loaded[j].status = "Ready" THEN 1 ELSE 0]
              /\ scheduledQueue' = [j \in JobIds |->
                                      IF loaded[j].status = "Scheduled" THEN "waiting" ELSE "out"]
              /\ inflightQueue' = {}
              /\ deduplicationIndex' = disk.index
  /\ UNCHANGED <<snapshotPromise, disk, persisted, restarts, fate, leases, revived, interventions>>

-----------------------------------------------------------------------------
JobStep(j) ==
  \/ \E key \in Keys, limit \in AttemptLimits : Enqueue(j, key, limit)
  \/ RetryJob(j) \/ DeleteJob(j) \/ RunAtComes(j) \/ TryDequeueOne(j)
  \/ \E r \in 1..leases[j] : Ack(j, r) \/ Nack(j, r) \/ ChangeVisibility(j, r)

Next ==
  \/ \E j \in JobIds : JobStep(j)
  \/ \E e \in inflightQueue : DeadlinePasses(e)
  \/ ProcessScheduledJobs \/ ProcessVisibilityTimeouts
  \/ CaptureSnapshot \/ FinishSnapshot \/ Stop \/ Crash \/ Start

Spec == Init /\ [][Next]_vars

\* Time passes, the timer loops tick, some worker polls, writes end and a
\* stopped process is started again.  No ack or nack is assumed.
Fairness ==
  /\ \A j \in JobIds : WF_vars(RunAtComes(j))
  /\ WF_vars(\E e \in inflightQueue : DeadlinePasses(e))
  /\ WF_vars(ProcessScheduledJobs) /\ WF_vars(ProcessVisibilityTimeouts)
  /\ WF_vars(\E j \in JobIds : TryDequeueOne(j))
  /\ WF_vars(FinishSnapshot) /\ WF_vars(Start)

FairSpec == Spec /\ Fairness

-----------------------------------------------------------------------------
(* Properties.                                                             *)

Statuses  == Live \cup {"Absent", "DeadLetter"}
JobRecord == [status : Statuses, attempts : Nat, maxAttempts : 1..1000,
              dedup : Keys, receipt : Nat]
Lease     == [job : JobIds, receipt : Nat, due : BOOLEAN]
Index     == [DedupIds -> JobIds \cup {NoJob}]
Images    == [jobs : [JobIds -> JobRecord], index : Index] \cup {NoImage}

\* Every variable has its type.
TypeOK ==
  /\ jobs \in [JobIds -> JobRecord]
  /\ readyQueue \in [JobIds -> Nat]
  /\ scheduledQueue \in [JobIds -> {"out", "waiting", "due"}]
  /\ inflightQueue \subseteq Lease
  /\ deduplicationIndex \in Index
  /\ snapshotPromise \in Images /\ disk \in Images
  /\ mode \in {"down", "running", "stopping"}
  /\ fate \in [JobIds -> {"unused", "accepted", "done"}]
  /\ leases \in [JobIds -> Nat]
  /\ persisted \subseteq JobIds
  /\ revived \subseteq Keys
  /\ restarts \in Nat /\ interventions \in Nat

\* A job is in the ready queue (once), in the delay queue or under a lease
\* exactly when its record says so.
RecordsMirrored ==
  \A j \in JobIds :
    /\ readyQueue[j] = IF jobs[j].status = "Ready" THEN 1 ELSE 0
    /\ scheduledQueue[j] # "out" <=> jobs[j].status = "Scheduled"
    /\ jobs[j].receipt # 0 <=> jobs[j].status = "Inflight"
    /\ jobs[j].status = "Inflight" => \E e \in inflightQueue : e.job = j

\* An inflight entry is the one valid lease of its job.
LeasesMirrored ==
  \A e \in inflightQueue :
    /\ e.receipt # 0 /\ jobs[e.job].receipt = e.receipt
    /\ \A f \in inflightQueue : f.job = e.job => f = e

\* No job is stranded, and none is queued twice: the three queues and the
\* records agree after every call, tick, crash and restart, so every live job
\* will be looked at again.
QueuesMirrorJobs == RecordsMirrored /\ LeasesMirrored

\* A key in the index belongs to the live job it names: no entry outlives its
\* job and turns away the next enqueue with the key.
KeySound(records, index) ==
  \A k \in DedupIds : index[k] # NoJob =>
    records[index[k]].dedup = k /\ records[index[k]].status \in Live
DedupIndexSound == KeySound(jobs, deduplicationIndex)

LiveWith(k) == {j \in JobIds : jobs[j].dedup = k /\ jobs[j].status \in Live}

\* Two live jobs share a key only if a dead letter with the key was retried
\* or deleted, however calls, failures and restarts interleave.
DedupUniqueUnlessRevived ==
  \A k \in DedupIds : Cardinality(LiveWith(k)) > 1 => k \in revived

\* A job is tried at most maxAttempts times, plus once per restart that
\* found it in flight.
AttemptsBounded == \A j \in JobIds : jobs[j].attempts <= jobs[j].maxAttempts + restarts

\* The only receipt honoured for a job is the last one issued, in whatever
\* life of the process: a late ack cannot remove a job leased again since.
HonoursLatestLease == \A j \in JobIds : jobs[j].receipt \in {0, leases[j]}

\* A job that once was in the snapshot file is known to the running engine
\* until it is acknowledged or deleted.
PersistedJobsSurvive ==
  mode = "running" =>
    \A j \in persisted : jobs[j].status = "Absent" => fate[j] = "done"

\* Every job is in the end acknowledged, deleted, lost to a crash, or a dead
\* letter, even if no worker ever answers.
QueueDrains == <>[](Up /\ \A j \in JobIds : jobs[j].status \notin Live)

\* The engine as its clients see it: its records, and while the process is
\* down those it will load.  Scheduled and ready jobs are both waiting.
Visible == IF Up THEN jobs
           ELSE IF disk = NoImage THEN [j \in JobIds |-> Absent]
           ELSE [j \in JobIds |-> Restored(disk.jobs[j])]

ClientState(record) ==
  CASE record.status = "Absent" -> "unknown"
    [] record.status \in {"Ready", "Scheduled"} -> "waiting"
    [] record.status = "Inflight" -> "leased"
    [] record.status = "DeadLetter" -> "dead"

Promise == INSTANCE JobQueue WITH
  state   <- [j \in JobIds |-> ClientState(Visible[j])],
  receipt <- [j \in JobIds |-> Visible[j].receipt],
  issued  <- leases,
  durable <- persisted

\* The engine, with its queues, its snapshots and its crashes, keeps the
\* promise of JobQueue: one lease at a time, no stored job forgotten before it is
\* done, and nothing unaccounted for between the end of one process and the
\* start of the next.
KeepsPromise == Promise!Spec
=============================================================================
