------------------------- MODULE QueueEngine_proofs -------------------------
(***************************************************************************)
(* The invariants of QueueEngine, for any jobs, keys, attempt limits and   *)
(* bounds, and that it implements JobQueue.                                *)
(***************************************************************************)
EXTENDS QueueEngine, FiniteSetTheorems, TLAPS

\* Clamp yields what enqueue accepts as maxAttempts.
LEMMA ClampType == \A n \in Int : Clamp(n) \in 1..1000
BY DEF Clamp

\* The statuses by name.
LEMMA StatusNames ==
  /\ "Absent" \in Statuses /\ "DeadLetter" \in Statuses
  /\ "Ready" \in Statuses /\ "Scheduled" \in Statuses /\ "Inflight" \in Statuses
BY DEF Statuses, Live

\* Records keep their type, and every update changes just the fields it names.
LEMMA UnleasedRecord ==
  ASSUME NEW r \in JobRecord, NEW s \in Statuses
  PROVE  /\ Unleased(r, s) \in JobRecord
         /\ Unleased(r, s).status = s /\ Unleased(r, s).receipt = 0
         /\ Unleased(r, s).attempts = r.attempts
         /\ Unleased(r, s).maxAttempts = r.maxAttempts /\ Unleased(r, s).dedup = r.dedup
BY ZenonT(60) DEF Unleased, JobRecord

LEMMA LeasedRecord ==
  ASSUME NEW r \in JobRecord, NEW n \in Nat
  PROVE  /\ Leased(r, n) \in JobRecord
         /\ Leased(r, n).status = "Inflight" /\ Leased(r, n).receipt = n
         /\ Leased(r, n).attempts = r.attempts + 1
         /\ Leased(r, n).maxAttempts = r.maxAttempts /\ Leased(r, n).dedup = r.dedup
<1>1. r.attempts + 1 \in Nat
  BY DEF JobRecord
<1>2. \A a \in Nat : [r EXCEPT !.status = "Inflight", !.attempts = a, !.receipt = n] \in JobRecord
  BY StatusNames, ZenonT(60) DEF JobRecord
<1>3. Leased(r, n) \in JobRecord
  BY <1>1, <1>2 DEF Leased
<1> QED BY <1>3, ZenonT(60) DEF Leased, JobRecord

LEMMA RevivedRecord ==
  ASSUME NEW r \in JobRecord
  PROVE  /\ Revived(r) \in JobRecord
         /\ Revived(r).status = "Ready" /\ Revived(r).receipt = 0 /\ Revived(r).attempts = 0
         /\ Revived(r).maxAttempts = r.maxAttempts /\ Revived(r).dedup = r.dedup
BY StatusNames, ZenonT(60) DEF Revived, JobRecord

LEMMA PromotedRecord ==
  ASSUME NEW r \in JobRecord, NEW s \in Statuses
  PROVE  LET p == [r EXCEPT !.status = s]
         IN  /\ p \in JobRecord
             /\ p.status = s /\ p.receipt = r.receipt /\ p.attempts = r.attempts
             /\ p.maxAttempts = r.maxAttempts /\ p.dedup = r.dedup
BY DEF JobRecord

\* What loadSnapshot makes of a record is a record.
LEMMA RestoredType == \A record \in JobRecord : Restored(record) \in JobRecord
BY UnleasedRecord, StatusNames DEF Restored

\* An absent job is a record.
LEMMA AbsentType == Absent \in JobRecord
BY StatusNames DEF Absent, JobRecord, Keys

\* The empty queues and the records of a process that has just begun.
LEMMA ForgottenType ==
  /\ NoneReady \in [JobIds -> Nat]
  /\ NoneScheduled \in [JobIds -> {"out", "waiting", "due"}]
  /\ NoKeys \in Index
  /\ [j \in JobIds |-> Absent] \in [JobIds -> JobRecord]
BY AbsentType DEF NoneReady, NoneScheduled, NoKeys, Index

\* processScheduledJobs keeps the types.
LEMMA PromotionType ==
  ASSUME TypeOK
  PROVE  /\ PromotedJobs \in [JobIds -> JobRecord]
         /\ PromotedReady \in [JobIds -> Nat]
         /\ StillWaiting \in [JobIds -> {"out", "waiting", "due"}]
<1>1. PromotedJobs \in [JobIds -> JobRecord]
  BY PromotedRecord, StatusNames DEF TypeOK, PromotedJobs
<1>2. PromotedReady \in [JobIds -> Nat]
  BY DEF TypeOK, PromotedReady
<1>3. StillWaiting \in [JobIds -> {"out", "waiting", "due"}]
  BY DEF TypeOK, StillWaiting
<1> QED BY <1>1, <1>2, <1>3

\* Deleting a key keeps the index typed.
LEMMA ReleaseKeyType ==
  ASSUME TypeOK, NEW J \in SUBSET JobIds, ReleaseKeys(J)
  PROVE  deduplicationIndex' \in Index
BY DEF TypeOK, ReleaseKeys, Index

\* A failed attempt keeps the types.
LEMMA FailType ==
  ASSUME TypeOK, NEW J \in SUBSET JobIds, Fail(J)
  PROVE  /\ jobs' \in [JobIds -> JobRecord]
         /\ scheduledQueue' \in [JobIds -> {"out", "waiting", "due"}]
         /\ deduplicationIndex' \in Index
<1>1. jobs' \in [JobIds -> JobRecord]
  BY UnleasedRecord, StatusNames DEF Fail, TypeOK
<1>2. scheduledQueue' \in [JobIds -> {"out", "waiting", "due"}]
  BY DEF Fail, Reschedule, TypeOK
<1>3. Buried(J) \in SUBSET JobIds
  BY DEF Buried
<1> QED BY <1>1, <1>2, <1>3, ReleaseKeyType DEF Fail

\* Type correctness of QueueEngine.
THEOREM TypeCorrect == Spec => []TypeOK
<1>1. Init => TypeOK
  BY ForgottenType DEF Init, TypeOK, Images
<1>2. TypeOK /\ [Next]_vars => TypeOK'
  <2> SUFFICES ASSUME TypeOK, [Next]_vars PROVE TypeOK'
    OBVIOUS
  <2> USE DEF storage, memory
  <2>0. \A j \in JobIds : jobs[j] \in JobRecord /\ jobs[j].receipt \in Nat /\ jobs[j].dedup \in Keys
    BY DEF TypeOK, JobRecord
  <2>1. ASSUME NEW j \in JobIds, NEW key \in Keys,
               NEW limit \in AttemptLimits, Enqueue(j, key, limit)
        PROVE  TypeOK'
    <3>1. Clamp(limit) \in 1..1000
      <4>1. limit \in Int
        BY QueueAssumption
      <4> QED BY <4>1, ClampType, ZenonT(60)
    <3>2. jobs' \in [JobIds -> JobRecord]
      <4>1. \A s \in Statuses : NewJob(s, key, limit) \in JobRecord
        BY <3>1 DEF NewJob, JobRecord
      <4> QED BY <2>1, <4>1, StatusNames DEF Enqueue, TypeOK
    <3>3. readyQueue' \in [JobIds -> Nat] /\ scheduledQueue' \in [JobIds -> {"out", "waiting", "due"}]
      BY <2>1 DEF Enqueue, TypeOK
    <3>4. deduplicationIndex' \in Index
      BY <2>1 DEF Enqueue, TypeOK, Index
    <3>5. fate' \in [JobIds -> {"unused", "accepted", "done"}]
      BY <2>1 DEF Enqueue, TypeOK
    <3> QED BY <2>1, <3>2, <3>3, <3>4, <3>5 DEF Enqueue, TypeOK
  <2>2. ASSUME NEW j \in JobIds, RetryJob(j) PROVE TypeOK'
    <3>1. jobs' \in [JobIds -> JobRecord]
      BY <2>2, RevivedRecord DEF RetryJob, TypeOK
    <3>2. readyQueue' \in [JobIds -> Nat] /\ revived' \subseteq Keys /\ interventions' \in Nat
      BY <2>2, <2>0 DEF RetryJob, Intervene, TypeOK
    <3> QED BY <2>2, <3>1, <3>2 DEF RetryJob, TypeOK
  <2>3. ASSUME NEW j \in JobIds, DeleteJob(j) PROVE TypeOK'
    <3>1. jobs' \in [JobIds -> JobRecord]
      BY <2>3, AbsentType DEF DeleteJob, TypeOK
    <3>2. readyQueue' \in [JobIds -> Nat] /\ scheduledQueue' \in [JobIds -> {"out", "waiting", "due"}]
      BY <2>3 DEF DeleteJob, TypeOK
    <3>3. deduplicationIndex' \in Index
      BY <2>3, ReleaseKeyType DEF DeleteJob
    <3>4. /\ inflightQueue' \subseteq Lease
          /\ fate' \in [JobIds -> {"unused", "accepted", "done"}]
          /\ revived' \subseteq Keys /\ interventions' \in Nat
      BY <2>3, <2>0 DEF DeleteJob, Intervene, TypeOK
    <3> QED BY <2>3, <3>1, <3>2, <3>3, <3>4 DEF DeleteJob, TypeOK
  <2>4. ASSUME NEW j \in JobIds, RunAtComes(j) PROVE TypeOK'
    BY <2>4 DEF RunAtComes, TypeOK
  <2>5. ASSUME NEW j \in JobIds, TryDequeueOne(j) PROVE TypeOK'
    <3>1. jobs' \in [JobIds -> JobRecord]
      <4>1. leases[j] + 1 \in Nat
        BY DEF TypeOK
      <4>2. PromotedJobs[j] \in JobRecord
        BY PromotionType
      <4>3. Leased(PromotedJobs[j], leases[j] + 1) \in JobRecord
        BY <4>1, <4>2, LeasedRecord
      <4>4. jobs' = [PromotedJobs EXCEPT ![j] = Leased(PromotedJobs[j], leases[j] + 1)]
        BY <2>5 DEF TryDequeueOne
      <4> QED BY <4>3, <4>4, PromotionType
    <3>2. readyQueue' \in [JobIds -> Nat] /\ scheduledQueue' \in [JobIds -> {"out", "waiting", "due"}]
      BY <2>5, PromotionType DEF TryDequeueOne
    <3>3. /\ inflightQueue' \subseteq Lease
          /\ leases' \in [JobIds -> Nat]
      <4>1. [job |-> j, receipt |-> leases[j] + 1, due |-> FALSE] \in Lease
        BY DEF TypeOK, Lease
      <4>2. inflightQueue' = inflightQueue \cup {[job |-> j, receipt |-> leases[j] + 1, due |-> FALSE]}
        BY <2>5 DEF TryDequeueOne
      <4>3. leases' = [leases EXCEPT ![j] = leases[j] + 1]
        BY <2>5 DEF TryDequeueOne, TypeOK
      <4>4. inflightQueue' \subseteq Lease
        BY <4>1, <4>2 DEF TypeOK
      <4>5. leases' \in [JobIds -> Nat]
        BY <4>3 DEF TypeOK
      <4> QED BY <4>4, <4>5
    <3> QED BY <2>5, <3>1, <3>2, <3>3 DEF TryDequeueOne, TypeOK
  <2>6. ASSUME NEW j \in JobIds, NEW r \in 1..leases[j], Ack(j, r) PROVE TypeOK'
    <3>1. jobs' \in [JobIds -> JobRecord]
      BY <2>6, AbsentType DEF Ack, TypeOK
    <3>2. deduplicationIndex' \in Index
      BY <2>6, ReleaseKeyType DEF Ack
    <3>3. inflightQueue' \subseteq Lease /\ fate' \in [JobIds -> {"unused", "accepted", "done"}]
      BY <2>6 DEF Ack, Removed, TypeOK
    <3> QED BY <2>6, <3>1, <3>2, <3>3 DEF Ack, TypeOK
  <2>7. ASSUME NEW j \in JobIds, NEW r \in 1..leases[j], Nack(j, r) PROVE TypeOK'
    BY <2>7, FailType DEF Nack, Removed, TypeOK
  <2>8. ASSUME NEW j \in JobIds, NEW r \in 1..leases[j], ChangeVisibility(j, r) PROVE TypeOK'
    <3>1. [job |-> j, receipt |-> r, due |-> FALSE] \in Lease
      BY DEF TypeOK, Lease
    <3>2. inflightQueue' \subseteq Lease
      BY <2>8, <3>1 DEF ChangeVisibility, Removed, TypeOK
    <3>3. interventions' \in Nat
      BY <2>8 DEF ChangeVisibility, Intervene, TypeOK
    <3> QED BY <2>8, <3>2, <3>3 DEF ChangeVisibility, TypeOK
  <2>9. ASSUME NEW e \in inflightQueue, DeadlinePasses(e) PROVE TypeOK'
    <3>1. [e EXCEPT !.due = TRUE] \in Lease
      BY DEF TypeOK, Lease
    <3> QED BY <2>9, <3>1 DEF DeadlinePasses, TypeOK
  <2>10. CASE ProcessVisibilityTimeouts
    <3>1. TimedOut \in SUBSET JobIds
      BY DEF TimedOut
    <3> QED BY <2>10, <3>1, FailType DEF ProcessVisibilityTimeouts, TypeOK
  <2>11. CASE ProcessScheduledJobs
    BY <2>11, PromotionType DEF ProcessScheduledJobs, TypeOK
  <2>12. CASE CaptureSnapshot
    BY <2>12 DEF CaptureSnapshot, Image, Images, TypeOK
  <2>13. CASE Stop
    BY <2>13 DEF Stop, Image, Images, TypeOK
  <2>14. CASE Crash
    BY <2>14, ForgottenType DEF Crash, Forgotten, Images, TypeOK
  <2>15. CASE FinishSnapshot
    <3>1. /\ disk' \in Images /\ persisted' \subseteq JobIds /\ snapshotPromise' \in Images
          /\ mode' \in {"down", "running", "stopping"}
      BY <2>15 DEF FinishSnapshot, Images, TypeOK
    <3>2. CASE mode = "stopping"
      BY <2>15, <3>1, <3>2, ForgottenType DEF FinishSnapshot, Forgotten, TypeOK
    <3>3. CASE mode # "stopping"
      BY <2>15, <3>1, <3>3 DEF FinishSnapshot, TypeOK
    <3> QED BY <3>2, <3>3
  <2>16. CASE Start
    <3>1. CASE disk = NoImage
      BY <2>16, <3>1 DEF Start, TypeOK
    <3>2. CASE disk # NoImage
      <4>1. disk.jobs \in [JobIds -> JobRecord] /\ disk.index \in Index
        BY <3>2 DEF TypeOK, Images
      <4>2. jobs' \in [JobIds -> JobRecord]
        BY <2>16, <3>2, <4>1, RestoredType DEF Start
      <4> QED BY <2>16, <3>2, <4>1, <4>2 DEF Start, TypeOK
    <3> QED BY <3>1, <3>2
  <2>17. CASE UNCHANGED vars
    BY <2>17 DEF vars, TypeOK
  <2> QED BY <2>1, <2>2, <2>3, <2>4, <2>5, <2>6, <2>7, <2>8, <2>9, <2>10, <2>11,
             <2>12, <2>13, <2>14, <2>15, <2>16, <2>17 DEF Next, JobStep
<1> QED BY <1>1, <1>2, PTL DEF Spec

-----------------------------------------------------------------------------
(* The inductive invariant: what the properties say of memory also holds   *)
(* of the images that a restart may load.                                  *)

\* A job nobody enqueued is nowhere.
FateSound == \A j \in JobIds : fate[j] = "unused" => jobs[j].status = "Absent"

ImageMarked(image) ==
  image # NoImage => \A j \in JobIds :
    /\ image.jobs[j].receipt # 0 <=> image.jobs[j].status = "Inflight"
    /\ fate[j] = "unused" => image.jobs[j].status = "Absent"

MirrorInv ==
  /\ RecordsMirrored /\ LeasesMirrored /\ FateSound
  /\ ImageMarked(snapshotPromise) /\ ImageMarked(disk)

\* A live job owns its key, unless a dead letter with the key was revived.
KeyOwned(records, index) ==
  \A j \in JobIds :
    records[j].status \in Live /\ records[j].dedup \in DedupIds \ revived
      => index[records[j].dedup] = j

ImageKeyed(image) ==
  image # NoImage => KeySound(image.jobs, image.index) /\ KeyOwned(image.jobs, image.index)

KeyInv ==
  /\ KeySound(jobs, deduplicationIndex) /\ KeyOwned(jobs, deduplicationIndex)
  /\ ImageKeyed(snapshotPromise) /\ ImageKeyed(disk)

\* A job that will be leased again has an attempt left, counting n restarts.
Tried(record, n) ==
  /\ record.attempts <= record.maxAttempts + n
  /\ record.status \in {"Ready", "Scheduled"} => record.attempts < record.maxAttempts + n

\* The job of a lease that a restart cut off gets one more attempt.
ImageTried(image, n) ==
  image # NoImage => \A j \in JobIds :
    /\ Tried(image.jobs[j], n)
    /\ mode # "running" => Tried(Restored(image.jobs[j]), n)

AttemptsInv ==
  /\ \A j \in JobIds : Tried(jobs[j], restarts)
  /\ ImageTried(snapshotPromise, restarts) /\ ImageTried(disk, restarts)

\* A job missing from an image, once it was in the file, is done.
Missing(records) == {j \in JobIds : records[j].status = "Absent"}
Done == {j \in JobIds : fate[j] = "done"}

DurableInv ==
  /\ mode = "running" => persisted \cap Missing(jobs) \subseteq Done
  /\ disk = NoImage => persisted = {}
  /\ disk # NoImage => persisted \cap Missing(disk.jobs) \subseteq Done
  /\ snapshotPromise # NoImage =>
       /\ mode # "down"
       /\ persisted \cap Missing(snapshotPromise.jobs) \subseteq Done
       /\ mode = "running" =>
            Missing(jobs) \subseteq Missing(snapshotPromise.jobs) \cup Done

-----------------------------------------------------------------------------
(* QueuesMirrorJobs                                                        *)

\* A record that was loaded carries no receipt, is not in flight, and is
\* absent only if it was absent in the image.
LEMMA RestoredRecord ==
  ASSUME NEW r \in JobRecord, r.receipt # 0 <=> r.status = "Inflight"
  PROVE  /\ Restored(r) \in JobRecord
         /\ Restored(r).receipt = 0 /\ Restored(r).status # "Inflight"
         /\ Restored(r).status = "Absent" <=> r.status = "Absent"
BY UnleasedRecord, StatusNames DEF Restored

\* processScheduledJobs, job by job.
LEMMA Promotion ==
  ASSUME TypeOK, RecordsMirrored, NEW j \in JobIds
  PROVE  /\ PromotedJobs[j].receipt = jobs[j].receipt
         /\ PromotedReady[j] = IF PromotedJobs[j].status = "Ready" THEN 1 ELSE 0
         /\ StillWaiting[j] # "out" <=> PromotedJobs[j].status = "Scheduled"
         /\ PromotedJobs[j].status = "Inflight" <=> jobs[j].status = "Inflight"
         /\ PromotedJobs[j].status = "Absent" <=> jobs[j].status = "Absent"
<1>1. jobs[j] \in JobRecord
  BY DEF TypeOK
<1>2. CASE Promoted(j)
  <2>1. PromotedJobs[j] = [jobs[j] EXCEPT !.status = "Ready"]
    BY <1>2 DEF PromotedJobs
  <2>2. PromotedReady[j] = readyQueue[j] + 1 /\ StillWaiting[j] = "out"
    BY <1>2 DEF PromotedReady, StillWaiting, Promoted
  <2> QED BY <1>1, <1>2, <2>1, <2>2, PromotedRecord, StatusNames DEF RecordsMirrored, Promoted
<1>3. CASE ~Promoted(j)
  <2>1. PromotedJobs[j] = jobs[j] /\ PromotedReady[j] = readyQueue[j]
    BY <1>3 DEF PromotedJobs, PromotedReady
  <2>2. StillWaiting[j] # "out" <=> scheduledQueue[j] # "out"
    BY <1>3 DEF RecordsMirrored, StillWaiting, Promoted, Due
  <2> QED BY <2>1, <2>2 DEF RecordsMirrored
<1> QED BY <1>2, <1>3

\* What a step that leaves fate and the images alone keeps of MirrorInv.
LEMMA ImagesKept ==
  ASSUME MirrorInv, UNCHANGED <<snapshotPromise, disk, fate>>
  PROVE  ImageMarked(snapshotPromise)' /\ ImageMarked(disk)'
BY DEF MirrorInv, ImageMarked

\* No step breaks MirrorInv: the producers and the admin calls.
LEMMA MirrorProducers ==
  ASSUME TypeOK, TypeOK', MirrorInv, NEW i \in JobIds,
         \/ \E key \in Keys, limit \in AttemptLimits : Enqueue(i, key, limit)
         \/ RetryJob(i) \/ DeleteJob(i) \/ RunAtComes(i)
  PROVE  MirrorInv'
<1> USE DEF storage
<1>0. /\ \A j \in JobIds : jobs[j] \in JobRecord
      /\ RecordsMirrored /\ LeasesMirrored /\ FateSound
      /\ \A e \in inflightQueue : e.job \in JobIds
  BY DEF TypeOK, MirrorInv, Lease
<1>1. ASSUME NEW key \in Keys, NEW limit \in AttemptLimits, Enqueue(i, key, limit)
      PROVE  MirrorInv'
  <2>1. PICK s \in {"Ready", "Scheduled"} :
          /\ jobs' = [jobs EXCEPT ![i] = NewJob(s, key, limit)]
          /\ readyQueue' = [readyQueue EXCEPT ![i] = IF s = "Ready" THEN @ + 1 ELSE @]
          /\ scheduledQueue' = [scheduledQueue EXCEPT ![i] = IF s = "Scheduled" THEN "waiting" ELSE @]
    BY <1>1 DEF Enqueue
  <2>2. jobs'[i].status = s /\ jobs'[i].receipt = 0 /\ \A j \in JobIds \ {i} : jobs'[j] = jobs[j]
    BY <2>1 DEF NewJob, TypeOK
  <2>3. jobs[i].status = "Absent" /\ inflightQueue' = inflightQueue
    BY <1>0, <1>1 DEF Enqueue, FateSound
  <2>4. RecordsMirrored'
    BY <1>0, <2>1, <2>2, <2>3 DEF RecordsMirrored, TypeOK
  <2>5. LeasesMirrored'
    BY <1>0, <2>2, <2>3 DEF LeasesMirrored, RecordsMirrored
  <2>6. fate' = [fate EXCEPT ![i] = "accepted"] /\ UNCHANGED <<snapshotPromise, disk>>
    BY <1>1 DEF Enqueue
  <2>7. FateSound' /\ ImageMarked(snapshotPromise)' /\ ImageMarked(disk)'
    BY <1>0, <2>2, <2>6 DEF MirrorInv, FateSound, ImageMarked, TypeOK
  <2> QED BY <2>4, <2>5, <2>7 DEF MirrorInv
<1>2. CASE RetryJob(i)
  <2>1. /\ jobs' = [jobs EXCEPT ![i] = Revived(jobs[i])] /\ jobs[i].status = "DeadLetter"
        /\ readyQueue' = [readyQueue EXCEPT ![i] = readyQueue[i] + 1]
        /\ UNCHANGED <<scheduledQueue, inflightQueue, snapshotPromise, disk, fate>>
    BY <1>2 DEF RetryJob
  <2>2. /\ jobs'[i].status = "Ready" /\ jobs'[i].receipt = 0
        /\ \A j \in JobIds \ {i} : jobs'[j] = jobs[j]
    BY <1>0, <2>1, RevivedRecord DEF TypeOK
  <2>3. RecordsMirrored'
    BY <1>0, <2>1, <2>2 DEF RecordsMirrored, TypeOK
  <2>4. LeasesMirrored' /\ FateSound'
    BY <1>0, <2>1, <2>2 DEF LeasesMirrored, RecordsMirrored, FateSound
  <2> QED BY <2>1, <2>3, <2>4, ImagesKept DEF MirrorInv
<1>3. CASE DeleteJob(i)
  <2>1. /\ jobs' = [jobs EXCEPT ![i] = Absent]
        /\ readyQueue' = [readyQueue EXCEPT
             ![i] = IF jobs[i].status = "Ready" /\ readyQueue[i] > 0 THEN readyQueue[i] - 1 ELSE readyQueue[i]]
        /\ scheduledQueue' = [scheduledQueue EXCEPT
             ![i] = IF jobs[i].status = "Scheduled" THEN "out" ELSE scheduledQueue[i]]
        /\ fate' = [fate EXCEPT ![i] = "done"] /\ UNCHANGED <<snapshotPromise, disk>>
    BY <1>3 DEF DeleteJob
  <2>2. /\ jobs'[i].status = "Absent" /\ jobs'[i].receipt = 0
        /\ \A j \in JobIds \ {i} : jobs'[j] = jobs[j]
    BY <2>1 DEF Absent, TypeOK
  <2>3. inflightQueue' = {e \in inflightQueue : e.job # i}
    <3>1. CASE jobs[i].status = "Inflight"
      BY <1>0, <1>3, <3>1 DEF DeleteJob, LeasesMirrored
    <3>2. CASE jobs[i].status # "Inflight"
      BY <1>0, <1>3, <3>2 DEF DeleteJob, LeasesMirrored, RecordsMirrored
    <3> QED BY <3>1, <3>2
  <2>4. RecordsMirrored'
    BY <1>0, <2>1, <2>2, <2>3 DEF RecordsMirrored, TypeOK
  <2>5. LeasesMirrored'
    BY <1>0, <2>2, <2>3 DEF LeasesMirrored
  <2>6. FateSound' /\ ImageMarked(snapshotPromise)' /\ ImageMarked(disk)'
    BY <1>0, <2>1, <2>2 DEF MirrorInv, FateSound, ImageMarked, TypeOK
  <2> QED BY <2>4, <2>5, <2>6 DEF MirrorInv
<1>4. CASE RunAtComes(i)
  <2>1. /\ scheduledQueue' = [scheduledQueue EXCEPT ![i] = "due"] /\ scheduledQueue[i] = "waiting"
        /\ UNCHANGED <<jobs, readyQueue, inflightQueue, snapshotPromise, disk, fate>>
    BY <1>4 DEF RunAtComes
  <2>2. RecordsMirrored' /\ LeasesMirrored' /\ FateSound'
    BY <1>0, <2>1 DEF RecordsMirrored, LeasesMirrored, FateSound, TypeOK
  <2> QED BY <2>1, <2>2, ImagesKept DEF MirrorInv
<1> QED BY <1>1, <1>2, <1>3, <1>4

\* What Fail does to the records and the delay queue.
LEMMA Failed ==
  ASSUME TypeOK, NEW J \in SUBSET JobIds, Fail(J), NEW j \in JobIds
  PROVE  /\ j \notin J => jobs'[j] = jobs[j] /\ scheduledQueue'[j] = scheduledQueue[j]
         /\ j \in Buried(J) => /\ jobs'[j] = Unleased(jobs[j], "DeadLetter")
                               /\ scheduledQueue'[j] = scheduledQueue[j]
         /\ j \in J \ Buried(J) => /\ jobs'[j] = Unleased(jobs[j], "Scheduled")
                                   /\ scheduledQueue'[j] = "waiting"
         /\ j \in J => /\ jobs'[j].receipt = 0 /\ jobs'[j].dedup = jobs[j].dedup
                       /\ j \in Buried(J) => jobs'[j].status = "DeadLetter"
                       /\ j \notin Buried(J) => jobs'[j].status = "Scheduled"
<1>0. jobs[j] \in JobRecord
  BY DEF TypeOK
<1>1. Buried(J) \subseteq J
  BY DEF Buried
<1>2. jobs'[j] = IF j \notin J THEN jobs[j]
                ELSE Unleased(jobs[j], IF j \in Buried(J) THEN "DeadLetter" ELSE "Scheduled")
  BY DEF Fail
<1>3. scheduledQueue'[j] = IF j \in J \ Buried(J) THEN "waiting" ELSE scheduledQueue[j]
  BY DEF Fail, Reschedule
<1>4. /\ Unleased(jobs[j], "DeadLetter").receipt = 0
      /\ Unleased(jobs[j], "DeadLetter").dedup = jobs[j].dedup
      /\ Unleased(jobs[j], "DeadLetter").status = "DeadLetter"
      /\ Unleased(jobs[j], "Scheduled").receipt = 0
      /\ Unleased(jobs[j], "Scheduled").dedup = jobs[j].dedup
      /\ Unleased(jobs[j], "Scheduled").status = "Scheduled"
  BY <1>0, UnleasedRecord, StatusNames
<1> QED BY <1>1, <1>2, <1>3, <1>4

\* An attempt of an inflight job that fails takes its lease with it.
LEMMA MirrorFailure ==
  ASSUME TypeOK, MirrorInv, NEW J \in SUBSET JobIds, Fail(J),
         \A j \in J : jobs[j].status = "Inflight",
         inflightQueue' = {e \in inflightQueue : e.job \notin J},
         UNCHANGED <<readyQueue, snapshotPromise, disk, fate>>
  PROVE  MirrorInv'
<1>0. RecordsMirrored /\ LeasesMirrored /\ FateSound /\ \A e \in inflightQueue : e.job \in JobIds
  BY DEF TypeOK, MirrorInv, Lease
<1>1. RecordsMirrored'
  BY <1>0, Failed DEF RecordsMirrored
<1>2. LeasesMirrored'
  BY <1>0, Failed DEF LeasesMirrored
<1>3. FateSound'
  BY <1>0, Failed DEF FateSound
<1> QED BY <1>1, <1>2, <1>3, ImagesKept DEF MirrorInv

\* The leases that expire are those of the jobs that time out.
LEMMA Expiry ==
  ASSUME TypeOK, MirrorInv
  PROVE  /\ TimedOut \in SUBSET JobIds
         /\ \A j \in TimedOut : jobs[j].status = "Inflight"
         /\ inflightQueue \ Expired = {e \in inflightQueue : e.job \notin TimedOut}
<1>0. RecordsMirrored /\ LeasesMirrored /\ \A e \in inflightQueue : e.job \in JobIds
  BY DEF TypeOK, MirrorInv, Lease
<1>1. \A e \in Expired : e.job \in TimedOut
  BY <1>0 DEF Expired, TimedOut, RecordsMirrored, LeasesMirrored
<1>2. \A e \in inflightQueue : e.job \in TimedOut => e \in Expired
  BY <1>0 DEF Expired, TimedOut, LeasesMirrored
<1> QED BY <1>1, <1>2 DEF TimedOut

\* No step breaks MirrorInv: the workers and the timer loops.
LEMMA MirrorWorkers ==
  ASSUME TypeOK, MirrorInv,
         \/ \E j \in JobIds : \/ TryDequeueOne(j)
                              \/ \E r \in 1..leases[j] :
                                   Ack(j, r) \/ Nack(j, r) \/ ChangeVisibility(j, r)
         \/ \E e \in inflightQueue : DeadlinePasses(e)
         \/ ProcessScheduledJobs \/ ProcessVisibilityTimeouts
  PROVE  MirrorInv'
<1> USE DEF storage
<1>0. /\ \A j \in JobIds : jobs[j] \in JobRecord
      /\ RecordsMirrored /\ LeasesMirrored /\ FateSound
      /\ \A e \in inflightQueue : e.job \in JobIds /\ e \in Lease
  BY DEF TypeOK, MirrorInv, Lease
<1>p. \A j \in JobIds : PromotedJobs[j] \in JobRecord
  BY PromotionType
<1>1. ASSUME NEW i \in JobIds, TryDequeueOne(i) PROVE MirrorInv'
  <2> DEFINE new == [job |-> i, receipt |-> leases[i] + 1, due |-> FALSE]
  <2>1. /\ jobs' = [PromotedJobs EXCEPT ![i] = Leased(PromotedJobs[i], leases[i] + 1)]
        /\ readyQueue' = [PromotedReady EXCEPT ![i] = PromotedReady[i] - 1]
        /\ scheduledQueue' = StillWaiting /\ PromotedReady[i] > 0
        /\ inflightQueue' = inflightQueue \cup {new}
        /\ UNCHANGED <<snapshotPromise, disk, fate>>
    BY <1>1 DEF TryDequeueOne
  <2>2. leases[i] + 1 \in Nat /\ leases[i] + 1 # 0
    BY DEF TypeOK
  <2>3. /\ jobs'[i].status = "Inflight" /\ jobs'[i].receipt = leases[i] + 1
        /\ \A j \in JobIds \ {i} : jobs'[j] = PromotedJobs[j]
    BY <1>p, <2>1, <2>2, LeasedRecord, PromotionType
  <2>4. PromotedJobs[i].status = "Ready" /\ PromotedReady[i] = 1
    BY <1>0, <2>1, Promotion
  <2>5. new.job = i /\ new.receipt = leases[i] + 1
    OBVIOUS
  <2>6. RecordsMirrored'
    <3> SUFFICES ASSUME NEW j \in JobIds
                 PROVE  /\ readyQueue'[j] = IF jobs'[j].status = "Ready" THEN 1 ELSE 0
                        /\ scheduledQueue'[j] # "out" <=> jobs'[j].status = "Scheduled"
                        /\ jobs'[j].receipt # 0 <=> jobs'[j].status = "Inflight"
                        /\ jobs'[j].status = "Inflight" => \E e \in inflightQueue' : e.job = j
      BY DEF RecordsMirrored
    <3>1. CASE j = i
      <4>1. readyQueue'[i] = 0
        BY <2>1, <2>4, PromotionType
      <4>2. StillWaiting[i] = "out"
        BY <1>0, <2>4, Promotion
      <4> QED BY <2>1, <2>2, <2>3, <2>5, <3>1, <4>1, <4>2
    <3>2. CASE j # i
      <4>1. readyQueue'[j] = PromotedReady[j]
        BY <2>1, <3>2, PromotionType
      <4>2. jobs'[j] = PromotedJobs[j]
        BY <2>3, <3>2
      <4> QED BY <1>0, <2>1, <4>1, <4>2, Promotion DEF RecordsMirrored
    <3> QED BY <3>1, <3>2
  <2>7. LeasesMirrored'
    <3>1. \A e \in inflightQueue : e.job # i
      BY <1>0, <2>4, Promotion DEF RecordsMirrored, LeasesMirrored
    <3>2. \A e \in inflightQueue : e.receipt # 0 /\ jobs'[e.job].receipt = e.receipt
      BY <1>0, <2>3, <3>1, Promotion DEF LeasesMirrored
    <3>3. new.receipt # 0 /\ jobs'[new.job].receipt = new.receipt
      BY <2>2, <2>3, <2>5
    <3>4. \A e, f \in inflightQueue' : f.job = e.job => f = e
      <4> SUFFICES ASSUME NEW e \in inflightQueue', NEW f \in inflightQueue', f.job = e.job
                   PROVE  f = e
        OBVIOUS
      <4>1. CASE e.job = i
        BY <2>1, <3>1, <4>1
      <4>2. CASE e.job # i
        BY <1>0, <2>1, <2>5, <4>2 DEF LeasesMirrored
      <4> QED BY <4>1, <4>2
    <3> HIDE DEF new
    <3> QED BY <2>1, <3>2, <3>3, <3>4 DEF LeasesMirrored
  <2>8. FateSound'
    BY <1>0, <2>1, <2>3, <2>4, Promotion DEF FateSound
  <2> QED BY <2>1, <2>6, <2>7, <2>8, ImagesKept DEF MirrorInv
<1>2. ASSUME NEW i \in JobIds, NEW r \in 1..leases[i], FindByReceipt(i, r)
      PROVE  jobs[i].status = "Inflight" /\ Removed(i, r) = {e \in inflightQueue : e.job # i}
  BY <1>0, <1>2 DEF FindByReceipt, Removed, RecordsMirrored, LeasesMirrored
<1>3. ASSUME NEW i \in JobIds, NEW r \in 1..leases[i], Ack(i, r) PROVE MirrorInv'
  <2>1. /\ jobs' = [jobs EXCEPT ![i] = Absent]
        /\ inflightQueue' = {e \in inflightQueue : e.job # i} /\ jobs[i].status = "Inflight"
        /\ fate' = [fate EXCEPT ![i] = "done"]
        /\ UNCHANGED <<readyQueue, scheduledQueue, snapshotPromise, disk>>
    BY <1>2, <1>3 DEF Ack
  <2>2. /\ jobs'[i].status = "Absent" /\ jobs'[i].receipt = 0
        /\ \A j \in JobIds \ {i} : jobs'[j] = jobs[j]
    BY <2>1 DEF Absent, TypeOK
  <2>3. RecordsMirrored'
    BY <1>0, <2>1, <2>2 DEF RecordsMirrored
  <2>4. LeasesMirrored'
    BY <1>0, <2>1, <2>2 DEF LeasesMirrored
  <2>5. FateSound' /\ ImageMarked(snapshotPromise)' /\ ImageMarked(disk)'
    BY <1>0, <2>1, <2>2 DEF MirrorInv, FateSound, ImageMarked, TypeOK
  <2> QED BY <2>3, <2>4, <2>5 DEF MirrorInv
<1>4. ASSUME NEW i \in JobIds, NEW r \in 1..leases[i], Nack(i, r) PROVE MirrorInv'
  <2>1. /\ {i} \in SUBSET JobIds /\ Fail({i}) /\ \A j \in {i} : jobs[j].status = "Inflight"
        /\ inflightQueue' = {e \in inflightQueue : e.job \notin {i}}
        /\ UNCHANGED <<readyQueue, snapshotPromise, disk, fate>>
    BY <1>2, <1>4 DEF Nack
  <2> QED BY <2>1, MirrorFailure
<1>5. ASSUME NEW i \in JobIds, NEW r \in 1..leases[i], ChangeVisibility(i, r) PROVE MirrorInv'
  <2> DEFINE new == [job |-> i, receipt |-> r, due |-> FALSE]
  <2>1. /\ inflightQueue' = {e \in inflightQueue : e.job # i} \cup {new}
        /\ jobs[i].status = "Inflight" /\ jobs[i].receipt = r /\ r # 0
        /\ UNCHANGED <<jobs, readyQueue, scheduledQueue, snapshotPromise, disk, fate>>
    BY <1>2, <1>5 DEF ChangeVisibility, FindByReceipt
  <2>2. new.job = i /\ new.receipt = r
    OBVIOUS
  <2>3. RecordsMirrored' /\ FateSound'
    BY <1>0, <2>1, <2>2 DEF RecordsMirrored, FateSound
  <2>4. LeasesMirrored'
    BY <1>0, <2>1, <2>2, ZenonT(60) DEF LeasesMirrored
  <2> QED BY <2>1, <2>3, <2>4, ImagesKept DEF MirrorInv
<1>6. ASSUME NEW e \in inflightQueue, DeadlinePasses(e) PROVE MirrorInv'
  <2> DEFINE late == [e EXCEPT !.due = TRUE]
  <2>1. /\ inflightQueue' = (inflightQueue \ {e}) \cup {late}
        /\ UNCHANGED <<jobs, readyQueue, scheduledQueue, snapshotPromise, disk, fate>>
    BY <1>6 DEF DeadlinePasses
  <2>2. late.job = e.job /\ late.receipt = e.receipt
    BY <1>0 DEF Lease
  <2>3. RecordsMirrored' /\ FateSound'
    BY <1>0, <2>1, <2>2 DEF RecordsMirrored, FateSound
  <2>4. LeasesMirrored'
    <3>1. \A f \in inflightQueue \ {e} : f.job # e.job
      BY <1>0 DEF LeasesMirrored
    <3>2. late.receipt # 0 /\ jobs[late.job].receipt = late.receipt
      BY <1>0, <2>2 DEF LeasesMirrored
    <3>3. late.job = e.job
      BY <2>2
    <3> HIDE DEF late
    <3> QED BY <1>0, <2>1, <3>1, <3>2, <3>3 DEF LeasesMirrored
  <2> QED BY <2>1, <2>3, <2>4, ImagesKept DEF MirrorInv
<1>7. CASE ProcessVisibilityTimeouts
  BY <1>7, Expiry, MirrorFailure DEF ProcessVisibilityTimeouts
<1>8. CASE ProcessScheduledJobs
  <2>1. /\ jobs' = PromotedJobs /\ readyQueue' = PromotedReady /\ scheduledQueue' = StillWaiting
        /\ UNCHANGED <<inflightQueue, snapshotPromise, disk, fate>>
    BY <1>8 DEF ProcessScheduledJobs
  <2>2. RecordsMirrored'
    BY <1>0, <2>1, Promotion DEF RecordsMirrored
  <2>3. LeasesMirrored' /\ FateSound'
    BY <1>0, <2>1, Promotion DEF LeasesMirrored, FateSound
  <2> QED BY <2>1, <2>2, <2>3, ImagesKept DEF MirrorInv
<1> QED BY <1>1, <1>3, <1>4, <1>5, <1>6, <1>7, <1>8
\* No step breaks MirrorInv: snapshots, crashes and restarts.
LEMMA MirrorRestarts ==
  ASSUME TypeOK, MirrorInv,
         CaptureSnapshot \/ FinishSnapshot \/ Stop \/ Crash \/ Start
  PROVE  MirrorInv'
<1> USE DEF memory
<1>0. RecordsMirrored /\ LeasesMirrored /\ FateSound
  BY DEF MirrorInv
<1>1. ASSUME Forgotten PROVE RecordsMirrored' /\ LeasesMirrored' /\ FateSound'
  BY <1>1 DEF Forgotten, NoneReady, NoneScheduled, Absent, RecordsMirrored, LeasesMirrored, FateSound
<1>2. ASSUME UNCHANGED memory, UNCHANGED fate PROVE RecordsMirrored' /\ LeasesMirrored' /\ FateSound'
  BY <1>0, <1>2 DEF RecordsMirrored, LeasesMirrored, FateSound
<1>3. ASSUME UNCHANGED fate,
             snapshotPromise' \in {snapshotPromise, NoImage, Image},
             disk' \in {disk, snapshotPromise}
      PROVE  ImageMarked(snapshotPromise)' /\ ImageMarked(disk)'
  BY <1>0, <1>3 DEF MirrorInv, ImageMarked, Image, RecordsMirrored, FateSound
<1>4. CASE CaptureSnapshot
  BY <1>2, <1>3, <1>4 DEF CaptureSnapshot, MirrorInv
<1>5. CASE FinishSnapshot
  <2>1. ImageMarked(snapshotPromise)' /\ ImageMarked(disk)'
    BY <1>3, <1>5 DEF FinishSnapshot
  <2>2. RecordsMirrored' /\ LeasesMirrored' /\ FateSound'
    BY <1>1, <1>2, <1>5 DEF FinishSnapshot
  <2> QED BY <2>1, <2>2 DEF MirrorInv
<1>6. CASE Stop
  BY <1>2, <1>3, <1>6 DEF Stop, MirrorInv
<1>7. CASE Crash
  BY <1>1, <1>3, <1>7 DEF Crash, MirrorInv
<1>8. CASE Start
  <2>1. ImageMarked(snapshotPromise)' /\ ImageMarked(disk)'
    BY <1>3, <1>8 DEF Start
  <2>2. CASE disk = NoImage
    BY <1>2, <1>8, <2>1, <2>2 DEF Start, MirrorInv
  <2>3. CASE disk # NoImage
    <3>1. \A j \in JobIds : /\ disk.jobs[j] \in JobRecord
                            /\ disk.jobs[j].receipt # 0 <=> disk.jobs[j].status = "Inflight"
                            /\ fate[j] = "unused" => disk.jobs[j].status = "Absent"
      BY <2>3 DEF TypeOK, Images, MirrorInv, ImageMarked
    <3>2. /\ jobs' = [j \in JobIds |-> Restored(disk.jobs[j])]
          /\ readyQueue' = [j \in JobIds |-> IF Restored(disk.jobs[j]).status = "Ready" THEN 1 ELSE 0]
          /\ scheduledQueue' = [j \in JobIds |->
               IF Restored(disk.jobs[j]).status = "Scheduled" THEN "waiting" ELSE "out"]
          /\ inflightQueue' = {} /\ fate' = fate
      BY <1>8, <2>3, Zenon DEF Start
    <3>3. RecordsMirrored'
      BY <3>1, <3>2, RestoredRecord DEF RecordsMirrored
    <3>4. LeasesMirrored' /\ FateSound'
      BY <3>1, <3>2, RestoredRecord DEF LeasesMirrored, FateSound
    <3> QED BY <2>1, <3>3, <3>4 DEF MirrorInv
  <2> QED BY <2>2, <2>3
<1> QED BY <1>4, <1>5, <1>6, <1>7, <1>8

\* MirrorInv is an invariant: what the images hold is what a restart needs.
THEOREM MirrorInvariant == Spec => []MirrorInv
<1>1. Init => MirrorInv
  BY DEF Init, MirrorInv, RecordsMirrored, LeasesMirrored, FateSound, ImageMarked,
         NoneReady, NoneScheduled, Absent
<1>2. TypeOK /\ TypeOK' /\ MirrorInv /\ [Next]_vars => MirrorInv'
  <2> SUFFICES ASSUME TypeOK, TypeOK', MirrorInv, [Next]_vars PROVE MirrorInv'
    OBVIOUS
  <2>1. CASE UNCHANGED vars
    BY <2>1 DEF vars, memory, storage, MirrorInv, RecordsMirrored, LeasesMirrored,
                FateSound, ImageMarked
  <2>2. CASE Next
    BY <2>2, MirrorProducers, MirrorWorkers, MirrorRestarts DEF Next, JobStep
  <2> QED BY <2>1, <2>2
<1> QED BY <1>1, <1>2, TypeCorrect, PTL DEF Spec

\* The three queues always mirror the records: no job is stranded or queued
\* twice, whatever the calls, ticks, crashes and restarts.
THEOREM QueuesAlwaysMirrorJobs == Spec => []QueuesMirrorJobs
<1>1. MirrorInv => QueuesMirrorJobs
  BY DEF MirrorInv, QueuesMirrorJobs
<1> QED BY <1>1, MirrorInvariant, PTL
-----------------------------------------------------------------------------
(* DedupIndexSound and DedupUniqueUnlessRevived                            *)

\* Reviving more keys keeps what is known of an image.
LEMMA ImagesStayKeyed ==
  ASSUME KeyInv, revived \subseteq revived', UNCHANGED <<snapshotPromise, disk>>
  PROVE  ImageKeyed(snapshotPromise)' /\ ImageKeyed(disk)'
BY DEF KeyInv, ImageKeyed, KeySound, KeyOwned

\* A step that leaves every job as live as it was keeps the keys.
LEMMA KeysKept ==
  ASSUME TypeOK, KeyInv, UNCHANGED <<deduplicationIndex, revived, snapshotPromise, disk>>,
         \A j \in JobIds : /\ jobs'[j].dedup = jobs[j].dedup
                           /\ jobs'[j].status \in Live <=> jobs[j].status \in Live
  PROVE  KeyInv'
<1>1. \A k \in DedupIds : deduplicationIndex[k] \in JobIds \cup {NoJob}
  BY DEF TypeOK, Index
<1>2. KeySound(jobs', deduplicationIndex') /\ KeyOwned(jobs, deduplicationIndex)'
  BY <1>1 DEF KeyInv, KeySound, KeyOwned
<1> QED BY <1>2, ImagesStayKeyed DEF KeyInv

\* A live job, or a dead letter whose key counts as revived, lets go of it.
LEMMA KeyReleased ==
  ASSUME TypeOK, KeyInv, NEW J \in SUBSET JobIds, ReleaseKeys(J),
         \A j \in J : jobs[j].status \in Live \/ jobs[j].dedup \in revived',
         \A j \in J : jobs'[j].status \notin Live,
         \A j \in JobIds \ J : /\ jobs'[j].dedup = jobs[j].dedup
                               /\ jobs'[j].status \in Live <=> jobs[j].status \in Live,
         revived \subseteq revived', UNCHANGED <<snapshotPromise, disk>>
  PROVE  KeyInv'
<1>1. \A k \in DedupIds :
        /\ deduplicationIndex[k] \in JobIds \cup {NoJob}
        /\ deduplicationIndex'[k] =
             IF \E j \in J : k = jobs[j].dedup THEN NoJob ELSE deduplicationIndex[k]
  BY DEF TypeOK, Index, ReleaseKeys
<1>2. KeySound(jobs', deduplicationIndex')
  BY <1>1 DEF KeyInv, KeySound
<1>3. KeyOwned(jobs, deduplicationIndex)'
  <2> SUFFICES ASSUME NEW j \in JobIds, jobs'[j].status \in Live,
                      jobs'[j].dedup \in DedupIds \ revived'
               PROVE  deduplicationIndex'[jobs'[j].dedup] = j
    BY DEF KeyOwned
  <2>0. j \notin J
    OBVIOUS
  <2>1. /\ jobs'[j].dedup = jobs[j].dedup /\ jobs[j].status \in Live
        /\ jobs[j].dedup \in DedupIds \ revived
    BY <2>0
  <2>2. deduplicationIndex[jobs[j].dedup] = j
    BY <2>1 DEF KeyInv, KeyOwned
  <2>3. \A i \in J : jobs[j].dedup # jobs[i].dedup
    BY <2>0, <2>1, <2>2 DEF KeyInv, KeyOwned
  <2> QED BY <1>1, <2>1, <2>2, <2>3
<1> QED BY <1>2, <1>3, ImagesStayKeyed DEF KeyInv

\* A failed attempt buries a job with its key or keeps both.
LEMMA KeyFailure ==
  ASSUME TypeOK, KeyInv, NEW J \in SUBSET JobIds, Fail(J),
         \A j \in J : jobs[j].status = "Inflight",
         UNCHANGED <<snapshotPromise, disk, revived>>
  PROVE  KeyInv'
<1>1. Buried(J) \in SUBSET JobIds /\ Buried(J) \subseteq J /\ ReleaseKeys(Buried(J))
  BY DEF Fail, Buried
<1>2. \A j \in Buried(J) : jobs'[j].status \notin Live /\ jobs[j].status \in Live
  BY <1>1, Failed DEF Live
<1>3. \A j \in JobIds \ Buried(J) : /\ jobs'[j].dedup = jobs[j].dedup
                                    /\ jobs'[j].status \in Live <=> jobs[j].status \in Live
  BY Failed DEF Live
<1> QED BY <1>1, <1>2, <1>3, KeyReleased

\* Promotion to the ready queue leaves jobs live and their keys alone.
LEMMA PromotionKeys ==
  ASSUME TypeOK, NEW j \in JobIds
  PROVE  /\ PromotedJobs[j].dedup = jobs[j].dedup
         /\ PromotedJobs[j].status \in Live <=> jobs[j].status \in Live
<1>1. jobs[j] \in JobRecord
  BY DEF TypeOK
<1>2. CASE Promoted(j)
  <2>1. PromotedJobs[j] = [jobs[j] EXCEPT !.status = "Ready"]
    BY <1>2 DEF PromotedJobs
  <2> QED BY <1>1, <1>2, <2>1, PromotedRecord, StatusNames DEF Promoted, Live
<1>3. CASE ~Promoted(j)
  BY <1>3 DEF PromotedJobs
<1> QED BY <1>2, <1>3

\* No step breaks KeyInv: the producers and the admin calls.
LEMMA KeyProducers ==
  ASSUME TypeOK, MirrorInv, KeyInv, NEW i \in JobIds,
         \/ \E key \in Keys, limit \in AttemptLimits : Enqueue(i, key, limit)
         \/ RetryJob(i) \/ DeleteJob(i) \/ RunAtComes(i)
  PROVE  KeyInv'
<1> USE DEF storage
<1>0. /\ \A j \in JobIds : jobs[j] \in JobRecord
      /\ \A k \in DedupIds : deduplicationIndex[k] \in JobIds \cup {NoJob}
  BY DEF TypeOK, Index
<1>1. ASSUME NEW key \in Keys, NEW limit \in AttemptLimits, Enqueue(i, key, limit)
      PROVE  KeyInv'
  <2>1. PICK s \in {"Ready", "Scheduled"} : jobs' = [jobs EXCEPT ![i] = NewJob(s, key, limit)]
    BY <1>1 DEF Enqueue
  <2>2. /\ jobs'[i].status = s /\ jobs'[i].dedup = key
        /\ \A j \in JobIds \ {i} : jobs'[j] = jobs[j]
    BY <2>1 DEF NewJob, TypeOK
  <2>3. jobs[i].status \notin Live
    BY <1>1 DEF Enqueue, MirrorInv, FateSound, Live
  <2>4. /\ \A k \in DedupIds : deduplicationIndex'[k] = IF k = key THEN i ELSE deduplicationIndex[k]
        /\ UNCHANGED <<snapshotPromise, disk, revived>>
    BY <1>1 DEF Enqueue
  <2>5. key \in DedupIds => deduplicationIndex[key] = NoJob
    BY <1>1 DEF Enqueue, Admits, KeyInv, KeySound
  <2>6. KeySound(jobs', deduplicationIndex')
    BY <1>0, <2>2, <2>3, <2>4 DEF KeyInv, KeySound, Live
  <2>7. KeyOwned(jobs, deduplicationIndex)'
    BY <1>0, <2>2, <2>4, <2>5, QueueAssumption DEF KeyInv, KeyOwned
  <2> QED BY <2>4, <2>6, <2>7, ImagesStayKeyed DEF KeyInv
<1>2. CASE RetryJob(i)
  <2>1. /\ jobs' = [jobs EXCEPT ![i] = Revived(jobs[i])] /\ jobs[i].status = "DeadLetter"
        /\ revived' = revived \cup {jobs[i].dedup}
        /\ UNCHANGED <<deduplicationIndex, snapshotPromise, disk>>
    BY <1>2 DEF RetryJob
  <2>2. /\ jobs'[i].dedup = jobs[i].dedup
        /\ \A j \in JobIds \ {i} : jobs'[j] = jobs[j]
    BY <1>0, <2>1, RevivedRecord DEF TypeOK
  <2>3. KeySound(jobs', deduplicationIndex')
    BY <1>0, <2>1, <2>2 DEF KeyInv, KeySound, Live
  <2>4. KeyOwned(jobs, deduplicationIndex)'
    BY <1>0, <2>1, <2>2 DEF KeyInv, KeyOwned
  <2> QED BY <2>1, <2>3, <2>4, ImagesStayKeyed DEF KeyInv
<1>3. CASE DeleteJob(i)
  <2>1. /\ jobs' = [jobs EXCEPT ![i] = Absent] /\ ReleaseKeys({i})
        /\ jobs[i].status # "Absent" /\ revived \subseteq revived'
        /\ jobs[i].status = "DeadLetter" => jobs[i].dedup \in revived'
        /\ UNCHANGED <<snapshotPromise, disk>>
    BY <1>3 DEF DeleteJob
  <2>2. jobs'[i].status \notin Live /\ \A j \in JobIds \ {i} : jobs'[j] = jobs[j]
    BY <2>1 DEF Absent, Live, TypeOK
  <2>3. jobs[i].status \in Live \/ jobs[i].status = "DeadLetter"
    BY <1>0, <2>1 DEF JobRecord, Statuses
  <2> QED BY <2>1, <2>2, <2>3, KeyReleased
<1>4. CASE RunAtComes(i)
  BY <1>4, KeysKept DEF RunAtComes
<1> QED BY <1>1, <1>2, <1>3, <1>4

\* No step breaks KeyInv: the workers and the timer loops.
LEMMA KeyWorkers ==
  ASSUME TypeOK, MirrorInv, KeyInv,
         \/ \E j \in JobIds : \/ TryDequeueOne(j)
                              \/ \E r \in 1..leases[j] :
                                   Ack(j, r) \/ Nack(j, r) \/ ChangeVisibility(j, r)
         \/ \E e \in inflightQueue : DeadlinePasses(e)
         \/ ProcessScheduledJobs \/ ProcessVisibilityTimeouts
  PROVE  KeyInv'
<1> USE DEF storage
<1>0. /\ \A j \in JobIds : jobs[j] \in JobRecord /\ PromotedJobs[j] \in JobRecord
      /\ RecordsMirrored /\ LeasesMirrored /\ \A e \in inflightQueue : e.job \in JobIds
  BY PromotionType DEF TypeOK, MirrorInv, Lease
<1>1. ASSUME NEW i \in JobIds, TryDequeueOne(i) PROVE KeyInv'
  <2>1. /\ jobs' = [PromotedJobs EXCEPT ![i] = Leased(PromotedJobs[i], leases[i] + 1)]
        /\ PromotedReady[i] > 0
        /\ UNCHANGED <<deduplicationIndex, snapshotPromise, disk, revived>>
    BY <1>1 DEF TryDequeueOne
  <2>2. leases[i] + 1 \in Nat
    BY DEF TypeOK
  <2>3. /\ jobs'[i].status = "Inflight" /\ jobs'[i].dedup = PromotedJobs[i].dedup
        /\ \A j \in JobIds \ {i} : jobs'[j] = PromotedJobs[j]
    BY <1>0, <2>1, <2>2, LeasedRecord, PromotionType
  <2>4. PromotedJobs[i].status = "Ready"
    BY <1>0, <2>1, Promotion
  <2>5. \A j \in JobIds : /\ jobs'[j].dedup = jobs[j].dedup
                          /\ jobs'[j].status \in Live <=> jobs[j].status \in Live
    BY <2>3, <2>4, PromotionKeys DEF Live
  <2> QED BY <2>1, <2>5, KeysKept
<1>2. ASSUME NEW i \in JobIds, NEW r \in 1..leases[i], FindByReceipt(i, r)
      PROVE  jobs[i].status = "Inflight"
  BY <1>0, <1>2 DEF FindByReceipt, RecordsMirrored
<1>3. ASSUME NEW i \in JobIds, NEW r \in 1..leases[i], Ack(i, r) PROVE KeyInv'
  <2>1. /\ jobs' = [jobs EXCEPT ![i] = Absent] /\ ReleaseKeys({i}) /\ jobs[i].status = "Inflight"
        /\ UNCHANGED <<snapshotPromise, disk, revived>>
    BY <1>2, <1>3 DEF Ack
  <2>2. jobs'[i].status \notin Live /\ \A j \in JobIds \ {i} : jobs'[j] = jobs[j]
    BY <2>1 DEF Absent, Live, TypeOK
  <2> QED BY <2>1, <2>2, KeyReleased DEF Live
<1>4. ASSUME NEW i \in JobIds, NEW r \in 1..leases[i], Nack(i, r) PROVE KeyInv'
  <2>1. {i} \in SUBSET JobIds /\ Fail({i}) /\ \A j \in {i} : jobs[j].status = "Inflight"
    BY <1>2, <1>4 DEF Nack
  <2> QED BY <1>4, <2>1, KeyFailure DEF Nack
<1>5. ASSUME NEW i \in JobIds, NEW r \in 1..leases[i], ChangeVisibility(i, r) PROVE KeyInv'
  BY <1>5, KeysKept DEF ChangeVisibility
<1>6. ASSUME NEW e \in inflightQueue, DeadlinePasses(e) PROVE KeyInv'
  BY <1>6, KeysKept DEF DeadlinePasses
<1>7. CASE ProcessVisibilityTimeouts
  BY <1>7, Expiry, KeyFailure DEF ProcessVisibilityTimeouts
<1>8. CASE ProcessScheduledJobs
  BY <1>8, PromotionKeys, KeysKept DEF ProcessScheduledJobs
<1> QED BY <1>1, <1>3, <1>4, <1>5, <1>6, <1>7, <1>8

\* No step breaks KeyInv: snapshots, crashes and restarts.
LEMMA KeyRestarts ==
  ASSUME TypeOK, MirrorInv, KeyInv,
         CaptureSnapshot \/ FinishSnapshot \/ Stop \/ Crash \/ Start
  PROVE  KeyInv'
<1> USE DEF memory
<1>1. ASSUME Forgotten
      PROVE  KeySound(jobs', deduplicationIndex') /\ KeyOwned(jobs, deduplicationIndex)'
  BY <1>1 DEF Forgotten, NoKeys, Absent, Live, KeySound, KeyOwned
<1>2. ASSUME UNCHANGED memory, UNCHANGED revived
      PROVE  KeySound(jobs', deduplicationIndex') /\ KeyOwned(jobs, deduplicationIndex)'
  BY <1>2 DEF KeyInv, KeySound, KeyOwned
<1>3. ASSUME UNCHANGED revived, snapshotPromise' \in {snapshotPromise, NoImage, Image},
             disk' \in {disk, snapshotPromise}
      PROVE  ImageKeyed(snapshotPromise)' /\ ImageKeyed(disk)'
  BY <1>3 DEF KeyInv, ImageKeyed, Image, KeySound, KeyOwned
<1>4. CASE CaptureSnapshot
  BY <1>2, <1>3, <1>4 DEF CaptureSnapshot, KeyInv
<1>5. CASE FinishSnapshot
  <2>1. ImageKeyed(snapshotPromise)' /\ ImageKeyed(disk)'
    BY <1>3, <1>5 DEF FinishSnapshot
  <2>2. KeySound(jobs', deduplicationIndex') /\ KeyOwned(jobs, deduplicationIndex)'
    BY <1>1, <1>2, <1>5 DEF FinishSnapshot
  <2> QED BY <2>1, <2>2 DEF KeyInv
<1>6. CASE Stop
  BY <1>2, <1>3, <1>6 DEF Stop, KeyInv
<1>7. CASE Crash
  BY <1>1, <1>3, <1>7 DEF Crash, KeyInv
<1>8. CASE Start
  <2>1. ImageKeyed(snapshotPromise)' /\ ImageKeyed(disk)'
    BY <1>3, <1>8 DEF Start
  <2>2. CASE disk = NoImage
    BY <1>2, <1>8, <2>1, <2>2 DEF Start, KeyInv
  <2>3. CASE disk # NoImage
    <3>1. /\ jobs' = [j \in JobIds |-> Restored(disk.jobs[j])] /\ deduplicationIndex' = disk.index
          /\ revived' = revived
      BY <1>8, <2>3, Zenon DEF Start
    <3>2. /\ \A k \in DedupIds : disk.index[k] \in JobIds \cup {NoJob}
          /\ \A j \in JobIds : disk.jobs[j] \in JobRecord
      BY <2>3 DEF TypeOK, Images, Index
    <3>3. \A j \in JobIds : /\ jobs'[j].dedup = disk.jobs[j].dedup
                            /\ jobs'[j].status \in Live <=> disk.jobs[j].status \in Live
      <4> SUFFICES ASSUME NEW j \in JobIds
                   PROVE  /\ Restored(disk.jobs[j]).dedup = disk.jobs[j].dedup
                          /\ Restored(disk.jobs[j]).status \in Live <=> disk.jobs[j].status \in Live
        BY <3>1
      <4>1. CASE disk.jobs[j].status = "Inflight"
        BY <3>2, <4>1, UnleasedRecord, StatusNames DEF Restored, Live
      <4>2. CASE disk.jobs[j].status # "Inflight"
        BY <4>2 DEF Restored
      <4> QED BY <4>1, <4>2
    <3>4. KeySound(jobs', deduplicationIndex')
      BY <2>3, <3>1, <3>2, <3>3 DEF KeyInv, ImageKeyed, KeySound
    <3>5. KeyOwned(jobs, deduplicationIndex)'
      BY <2>3, <3>1, <3>2, <3>3 DEF KeyInv, ImageKeyed, KeyOwned
    <3> QED BY <2>1, <3>4, <3>5 DEF KeyInv
  <2> QED BY <2>2, <2>3
<1> QED BY <1>4, <1>5, <1>6, <1>7, <1>8

\* KeyInv is an invariant.
THEOREM KeyInvariant == Spec => []KeyInv
<1>1. Init => KeyInv
  BY DEF Init, KeyInv, KeySound, KeyOwned, ImageKeyed, NoKeys, Absent, Live
<1>2. TypeOK /\ MirrorInv /\ KeyInv /\ [Next]_vars => KeyInv'
  <2> SUFFICES ASSUME TypeOK, MirrorInv, KeyInv, [Next]_vars PROVE KeyInv'
    OBVIOUS
  <2>1. CASE UNCHANGED vars
    BY <2>1 DEF vars, memory, storage, KeyInv, KeySound, KeyOwned, ImageKeyed
  <2>2. CASE Next
    BY <2>2, KeyProducers, KeyWorkers, KeyRestarts DEF Next, JobStep
  <2> QED BY <2>1, <2>2
<1> QED BY <1>1, <1>2, TypeCorrect, MirrorInvariant, PTL DEF Spec

\* An index entry always names a live job with that key.
THEOREM IndexAlwaysSound == Spec => []DedupIndexSound
<1>1. KeyInv => DedupIndexSound
  BY DEF KeyInv, DedupIndexSound
<1> QED BY <1>1, KeyInvariant, PTL

\* Deduplication works: unless a dead letter with the key was retried or
\* deleted, a key has at most one live job, through crashes and restarts.
THEOREM DedupWorks == Spec => []DedupUniqueUnlessRevived
<1>1. KeyInv => DedupUniqueUnlessRevived
  <2> SUFFICES ASSUME KeyInv, NEW k \in DedupIds, k \notin revived
               PROVE  ~(Cardinality(LiveWith(k)) > 1)
    BY DEF DedupUniqueUnlessRevived
  <2>1. LiveWith(k) = {} \/ LiveWith(k) = {deduplicationIndex[k]}
    BY DEF KeyInv, KeyOwned, LiveWith
  <2>2. Cardinality({}) = 0
    BY FS_EmptySet
  <2>3. Cardinality({deduplicationIndex[k]}) = 1
    BY FS_Singleton
  <2>4. Cardinality(LiveWith(k)) = 0 \/ Cardinality(LiveWith(k)) = 1
    BY <2>1, <2>2, <2>3
  <2> QED BY <2>4
<1> QED BY <1>1, KeyInvariant, PTL
-----------------------------------------------------------------------------
(* AttemptsBounded                                                         *)

\* The counts of a record.
LEMMA RecordCounts ==
  ASSUME NEW r \in JobRecord
  PROVE  r.attempts \in Int /\ r.maxAttempts \in Int /\ 0 < r.maxAttempts
BY DEF JobRecord

\* What Tried says of counts that are below the limit, or at zero.
LEMMA TriedBelow ==
  ASSUME NEW r, r.attempts \in Int, r.maxAttempts \in Int, NEW n \in Nat,
         r.attempts < r.maxAttempts
  PROVE  Tried(r, n)
<1>1. \A a, m \in Int : a < m => a <= m + n /\ a < m + n
  OBVIOUS
<1> QED BY <1>1 DEF Tried

\* A restart allows every job one more attempt.
LEMMA TriedGrows ==
  ASSUME NEW r \in JobRecord, NEW n \in Nat, Tried(r, n)
  PROVE  Tried(r, n + 1) /\ Tried(Restored(r), n + 1)
<1>1. r.attempts \in Nat /\ r.maxAttempts \in 1..1000
  BY DEF JobRecord
<1>2. Tried(r, n + 1)
  <2>1. r.attempts <= r.maxAttempts + (n + 1)
    BY <1>1, SMTT(30) DEF Tried
  <2>2. r.status \in {"Ready", "Scheduled"} => r.attempts < r.maxAttempts + (n + 1)
    BY <1>1, SMTT(30) DEF Tried
  <2> QED BY <2>1, <2>2 DEF Tried
<1>3. CASE r.status = "Inflight"
  <2>1. /\ Restored(r).attempts = r.attempts /\ Restored(r).maxAttempts = r.maxAttempts
    BY <1>3, UnleasedRecord, StatusNames DEF Restored
  <2> QED BY <1>1, <1>2, <2>1 DEF Tried
<1>4. CASE r.status # "Inflight"
  BY <1>2, <1>4 DEF Restored
<1> QED BY <1>2, <1>3, <1>4

\* A job that is failed was in flight; with attempts left it is scheduled.
LEMMA TriedFailure ==
  ASSUME TypeOK, AttemptsInv, NEW J \in SUBSET JobIds, Fail(J)
  PROVE  \A j \in JobIds : Tried(jobs'[j], restarts)
<1> SUFFICES ASSUME NEW j \in JobIds PROVE Tried(jobs'[j], restarts)
  OBVIOUS
<1>0. jobs[j] \in JobRecord /\ restarts \in Nat /\ Tried(jobs[j], restarts)
  BY DEF TypeOK, AttemptsInv
<1>1. CASE j \notin J
  BY <1>0, <1>1, Failed
<1>2. CASE j \in Buried(J)
  <2>1. Tried(Unleased(jobs[j], "DeadLetter"), restarts)
    BY <1>0, UnleasedRecord, StatusNames DEF Tried
  <2> QED BY <1>2, <2>1, Failed
<1>3. CASE j \in J \ Buried(J)
  <2>1. /\ Unleased(jobs[j], "Scheduled").attempts = jobs[j].attempts
        /\ Unleased(jobs[j], "Scheduled").maxAttempts = jobs[j].maxAttempts
    BY <1>0, UnleasedRecord, StatusNames
  <2>2. jobs[j].attempts \in Int /\ jobs[j].maxAttempts \in Int
    BY <1>0, RecordCounts, Zenon
  <2>3. jobs[j].attempts < jobs[j].maxAttempts
    BY <1>3, <2>2 DEF Buried
  <2>4. Tried(Unleased(jobs[j], "Scheduled"), restarts)
    BY <1>0, <2>1, <2>2, <2>3, TriedBelow
  <2> QED BY <1>3, <2>4, Failed
<1> QED BY <1>1, <1>2, <1>3

\* Promotion leaves the attempts alone and changes no other status.
LEMMA PromotionTried ==
  ASSUME TypeOK, AttemptsInv, NEW j \in JobIds
  PROVE  Tried(PromotedJobs[j], restarts)
<1>1. jobs[j] \in JobRecord /\ Tried(jobs[j], restarts)
  BY DEF TypeOK, AttemptsInv
<1>2. CASE Promoted(j)
  <2>1. PromotedJobs[j] = [jobs[j] EXCEPT !.status = "Ready"] /\ jobs[j].status = "Scheduled"
    BY <1>2 DEF PromotedJobs, Promoted
  <2> QED BY <1>1, <2>1, PromotedRecord, StatusNames DEF Tried
<1>3. CASE ~Promoted(j)
  BY <1>1, <1>3 DEF PromotedJobs
<1> QED BY <1>2, <1>3

\* No call and no tick breaks the bound in memory.
LEMMA TriedCalls ==
  ASSUME TypeOK, MirrorInv, AttemptsInv,
         \/ \E j \in JobIds : JobStep(j)
         \/ \E e \in inflightQueue : DeadlinePasses(e)
         \/ ProcessScheduledJobs \/ ProcessVisibilityTimeouts
  PROVE  AttemptsInv'
<1> USE DEF storage
<1>0. /\ \A j \in JobIds : jobs[j] \in JobRecord /\ PromotedJobs[j] \in JobRecord
      /\ restarts \in Nat /\ RecordsMirrored /\ \A e \in inflightQueue : e.job \in JobIds
      /\ \A j \in JobIds : Tried(jobs[j], restarts)
  BY PromotionType DEF TypeOK, MirrorInv, AttemptsInv, Lease
<1>1. ASSUME UNCHANGED <<snapshotPromise, disk, mode, restarts>>,
             \A j \in JobIds : Tried(jobs'[j], restarts)
      PROVE  AttemptsInv'
  BY <1>1 DEF AttemptsInv, ImageTried
<1>2. ASSUME NEW i \in JobIds, NEW key \in Keys, NEW limit \in AttemptLimits,
             Enqueue(i, key, limit)
      PROVE  AttemptsInv'
  <2>1. PICK s \in {"Ready", "Scheduled"} : jobs' = [jobs EXCEPT ![i] = NewJob(s, key, limit)]
    BY <1>2 DEF Enqueue
  <2>2. Clamp(limit) \in 1..1000
    <3>1. limit \in Int
      BY QueueAssumption
    <3> QED BY <3>1, ClampType, ZenonT(60)
  <2>3. Tried(NewJob(s, key, limit), restarts)
    BY <1>0, <2>2 DEF Tried, NewJob
  <2>4. \A j \in JobIds : Tried(jobs'[j], restarts)
    BY <1>0, <2>1, <2>3 DEF TypeOK
  <2> QED BY <1>1, <1>2, <2>4 DEF Enqueue
<1>3. ASSUME NEW i \in JobIds, RetryJob(i) PROVE AttemptsInv'
  <2>1. jobs' = [jobs EXCEPT ![i] = Revived(jobs[i])]
    BY <1>3 DEF RetryJob
  <2>5. Revived(jobs[i]).attempts = 0 /\ Revived(jobs[i]).maxAttempts = jobs[i].maxAttempts
    BY <1>0, RevivedRecord
  <2>3. Tried(Revived(jobs[i]), restarts)
    <3>1. 0 \in Int /\ jobs[i].maxAttempts \in Int /\ 0 < jobs[i].maxAttempts
      BY <1>0, RecordCounts, SMT
    <3> QED BY <1>0, <2>5, <3>1, TriedBelow, Zenon
  <2>4. \A j \in JobIds : Tried(jobs'[j], restarts)
    BY <1>0, <2>1, <2>3 DEF TypeOK
  <2> QED BY <1>1, <1>3, <2>4 DEF RetryJob
<1>4. ASSUME NEW i \in JobIds, jobs' = [jobs EXCEPT ![i] = Absent]
      PROVE  \A j \in JobIds : Tried(jobs'[j], restarts)
  <2>1. Tried(Absent, restarts)
    BY <1>0 DEF Tried, Absent
  <2> QED BY <1>0, <1>4, <2>1 DEF TypeOK
<1>5. ASSUME NEW i \in JobIds, DeleteJob(i) PROVE AttemptsInv'
  BY <1>1, <1>4, <1>5 DEF DeleteJob
<1>6. ASSUME NEW i \in JobIds, RunAtComes(i) PROVE AttemptsInv'
  BY <1>0, <1>1, <1>6 DEF RunAtComes
<1>7. ASSUME NEW i \in JobIds, TryDequeueOne(i) PROVE AttemptsInv'
  <2>1. /\ jobs' = [PromotedJobs EXCEPT ![i] = Leased(PromotedJobs[i], leases[i] + 1)]
        /\ PromotedReady[i] > 0
    BY <1>7 DEF TryDequeueOne
  <2>2. leases[i] + 1 \in Nat
    BY DEF TypeOK
  <2>3. PromotedJobs[i].status = "Ready" /\ Tried(PromotedJobs[i], restarts)
    BY <1>0, <2>1, Promotion, PromotionTried
  <2>7. LET x == Leased(PromotedJobs[i], leases[i] + 1)
        IN  /\ x.status = "Inflight" /\ x.attempts = PromotedJobs[i].attempts + 1
            /\ x.maxAttempts = PromotedJobs[i].maxAttempts
    BY <1>0, <2>2, LeasedRecord
  <2>8. PromotedJobs[i].attempts + 1 <= PromotedJobs[i].maxAttempts + restarts
    <3>1. \A a, m, n \in Int : a < m + n => a + 1 <= m + n
      OBVIOUS
    <3>2. PromotedJobs[i].attempts \in Int /\ PromotedJobs[i].maxAttempts \in Int
      BY <1>0, RecordCounts, Zenon
    <3>3. PromotedJobs[i].attempts < PromotedJobs[i].maxAttempts + restarts
      BY <2>3, Zenon DEF Tried
    <3> QED BY <1>0, <3>1, <3>2, <3>3
  <2>5. Tried(Leased(PromotedJobs[i], leases[i] + 1), restarts)
    BY <2>7, <2>8 DEF Tried
  <2>6. \A j \in JobIds : Tried(jobs'[j], restarts)
    BY <2>1, <2>5, PromotionType, PromotionTried
  <2> QED BY <1>1, <1>7, <2>6 DEF TryDequeueOne
<1>8. ASSUME NEW i \in JobIds, NEW r \in 1..leases[i], Ack(i, r) PROVE AttemptsInv'
  BY <1>1, <1>4, <1>8 DEF Ack
<1>9. ASSUME NEW i \in JobIds, NEW r \in 1..leases[i], Nack(i, r) PROVE AttemptsInv'
  <2>1. {i} \in SUBSET JobIds /\ Fail({i})
    BY <1>9 DEF Nack
  <2> QED BY <1>1, <1>9, <2>1, TriedFailure DEF Nack
<1>10. ASSUME NEW i \in JobIds, NEW r \in 1..leases[i], ChangeVisibility(i, r) PROVE AttemptsInv'
  BY <1>0, <1>1, <1>10 DEF ChangeVisibility
<1>11. ASSUME NEW e \in inflightQueue, DeadlinePasses(e) PROVE AttemptsInv'
  BY <1>0, <1>1, <1>11 DEF DeadlinePasses
<1>12. CASE ProcessVisibilityTimeouts
  BY <1>1, <1>12, Expiry, TriedFailure DEF ProcessVisibilityTimeouts
<1>13. CASE ProcessScheduledJobs
  BY <1>1, <1>13, PromotionTried DEF ProcessScheduledJobs
<1> QED BY <1>2, <1>3, <1>5, <1>6, <1>7, <1>8, <1>9, <1>10, <1>11, <1>12, <1>13
        DEF JobStep

\* No snapshot, crash or restart breaks it: each restart raises the bound.
LEMMA TriedRestarts ==
  ASSUME TypeOK, AttemptsInv,
         CaptureSnapshot \/ FinishSnapshot \/ Stop \/ Crash \/ Start
  PROVE  AttemptsInv'
<1> USE DEF memory
<1>0. /\ \A j \in JobIds : jobs[j] \in JobRecord /\ Tried(jobs[j], restarts)
      /\ restarts \in Nat
      /\ disk # NoImage => \A j \in JobIds : disk.jobs[j] \in JobRecord
      /\ snapshotPromise # NoImage => \A j \in JobIds : snapshotPromise.jobs[j] \in JobRecord
  BY DEF TypeOK, AttemptsInv, Images
<1>1. ASSUME Forgotten, restarts' \in Nat PROVE \A j \in JobIds : Tried(jobs'[j], restarts')
  BY <1>1 DEF Forgotten, Absent, Tried
<1>2. ASSUME restarts' = restarts + 1
      PROVE  /\ ImageTried(snapshotPromise, restarts') /\ ImageTried(disk, restarts')
             /\ \A j \in JobIds : Tried(jobs[j], restarts')
             /\ disk # NoImage => \A j \in JobIds : Tried(Restored(disk.jobs[j]), restarts')
             /\ snapshotPromise # NoImage =>
                  \A j \in JobIds : Tried(Restored(snapshotPromise.jobs[j]), restarts')
             /\ \A j \in JobIds : Tried(Restored(jobs[j]), restarts')
  BY <1>0, <1>2, TriedGrows DEF AttemptsInv, ImageTried
<1>3. CASE CaptureSnapshot
  BY <1>0, <1>3 DEF CaptureSnapshot, Image, AttemptsInv, ImageTried
<1>4. CASE FinishSnapshot
  <2>1. ImageTried(snapshotPromise, restarts)' /\ ImageTried(disk, restarts)'
    BY <1>4 DEF FinishSnapshot, AttemptsInv, ImageTried
  <2>2. \A j \in JobIds : Tried(jobs'[j], restarts')
    BY <1>0, <1>1, <1>4 DEF FinishSnapshot
  <2> QED BY <2>1, <2>2 DEF AttemptsInv
<1>5. CASE Stop
  BY <1>2, <1>5 DEF Stop, Image, AttemptsInv, ImageTried
<1>6. CASE Crash
  <2>1. \A j \in JobIds : Tried(jobs'[j], restarts')
    BY <1>0, <1>1, <1>6 DEF Crash
  <2>2. ImageTried(snapshotPromise, restarts)' /\ ImageTried(disk, restarts)'
    BY <1>2, <1>6 DEF Crash, ImageTried
  <2> QED BY <2>1, <2>2 DEF AttemptsInv
<1>7. CASE Start
  <2>1. ImageTried(snapshotPromise, restarts)' /\ ImageTried(disk, restarts)'
    BY <1>7 DEF Start, AttemptsInv, ImageTried
  <2>2. CASE disk = NoImage
    BY <1>0, <1>7, <2>1, <2>2 DEF Start, AttemptsInv
  <2>3. CASE disk # NoImage
    <3>1. jobs' = [j \in JobIds |-> Restored(disk.jobs[j])] /\ restarts' = restarts
      BY <1>7, <2>3, Zenon DEF Start
    <3>2. \A j \in JobIds : Tried(Restored(disk.jobs[j]), restarts)
      BY <1>7, <2>3 DEF Start, AttemptsInv, ImageTried
    <3> QED BY <2>1, <3>1, <3>2 DEF AttemptsInv
  <2> QED BY <2>2, <2>3
<1> QED BY <1>3, <1>4, <1>5, <1>6, <1>7

\* AttemptsInv is an invariant.
THEOREM AttemptsInvariant == Spec => []AttemptsInv
<1>1. Init => AttemptsInv
  BY QueueAssumption DEF Init, AttemptsInv, ImageTried, Tried, Absent
<1>2. TypeOK /\ MirrorInv /\ AttemptsInv /\ [Next]_vars => AttemptsInv'
  <2> SUFFICES ASSUME TypeOK, MirrorInv, AttemptsInv, [Next]_vars PROVE AttemptsInv'
    OBVIOUS
  <2>1. CASE UNCHANGED vars
    BY <2>1 DEF vars, memory, storage, AttemptsInv, ImageTried
  <2>2. CASE Next
    BY <2>2, TriedCalls, TriedRestarts DEF Next
  <2> QED BY <2>1, <2>2
<1> QED BY <1>1, <1>2, TypeCorrect, MirrorInvariant, PTL DEF Spec

\* A job is tried at most maxAttempts times, plus once per restart.
THEOREM AttemptsAlwaysBounded == Spec => []AttemptsBounded
<1>1. AttemptsInv => AttemptsBounded
  BY DEF AttemptsInv, Tried, AttemptsBounded
<1> QED BY <1>1, AttemptsInvariant, PTL
-----------------------------------------------------------------------------
(* HonoursLatestLease                                                      *)

\* Promotion and failure issue no receipt.
LEMMA LatestFailure ==
  ASSUME TypeOK, HonoursLatestLease, NEW J \in SUBSET JobIds, Fail(J)
  PROVE  \A j \in JobIds : jobs'[j].receipt \in {0, leases[j]}
BY Failed, Zenon DEF HonoursLatestLease

\* No call and no tick makes an old receipt valid.
LEMMA LatestCalls ==
  ASSUME TypeOK, MirrorInv, HonoursLatestLease,
         \/ \E j \in JobIds : JobStep(j)
         \/ \E e \in inflightQueue : DeadlinePasses(e)
         \/ ProcessScheduledJobs \/ ProcessVisibilityTimeouts
  PROVE  HonoursLatestLease'
<1>0. /\ \A j \in JobIds : jobs[j] \in JobRecord /\ jobs[j].receipt \in {0, leases[j]}
      /\ RecordsMirrored /\ \A e \in inflightQueue : e.job \in JobIds
  BY DEF TypeOK, MirrorInv, HonoursLatestLease, Lease
<1>1. ASSUME leases' = leases, \A j \in JobIds : jobs'[j].receipt \in {0, leases[j]}
      PROVE  HonoursLatestLease'
  BY <1>1 DEF HonoursLatestLease
<1>2. ASSUME NEW i \in JobIds, NEW x, x.receipt = 0, jobs' = [jobs EXCEPT ![i] = x]
      PROVE  \A j \in JobIds : jobs'[j].receipt \in {0, leases[j]}
  BY <1>0, <1>2 DEF TypeOK
<1>3. ASSUME NEW i \in JobIds, NEW key \in Keys, NEW limit \in AttemptLimits,
             Enqueue(i, key, limit)
      PROVE  HonoursLatestLease'
  <2>1. PICK s \in {"Ready", "Scheduled"} : jobs' = [jobs EXCEPT ![i] = NewJob(s, key, limit)]
    BY <1>3 DEF Enqueue
  <2>2. NewJob(s, key, limit).receipt = 0
    BY DEF NewJob
  <2>3. leases' = leases
    BY <1>3 DEF Enqueue
  <2> QED BY <1>1, <1>2, <2>1, <2>2, <2>3
<1>4. ASSUME NEW i \in JobIds, RetryJob(i) PROVE HonoursLatestLease'
  <2>1. jobs' = [jobs EXCEPT ![i] = Revived(jobs[i])] /\ leases' = leases
    BY <1>4 DEF RetryJob
  <2>2. Revived(jobs[i]).receipt = 0
    BY <1>0, RevivedRecord
  <2> QED BY <1>1, <1>2, <2>1, <2>2
<1>5. Absent.receipt = 0
  BY DEF Absent
<1>6. ASSUME NEW i \in JobIds, DeleteJob(i) PROVE HonoursLatestLease'
  <2>1. jobs' = [jobs EXCEPT ![i] = Absent] /\ leases' = leases
    BY <1>6 DEF DeleteJob
  <2> QED BY <1>1, <1>2, <1>5, <2>1
<1>7. ASSUME NEW i \in JobIds, RunAtComes(i) PROVE HonoursLatestLease'
  BY <1>0, <1>1, <1>7 DEF RunAtComes
<1>8. ASSUME NEW i \in JobIds, TryDequeueOne(i) PROVE HonoursLatestLease'
  <2>1. /\ jobs' = [PromotedJobs EXCEPT ![i] = Leased(PromotedJobs[i], leases[i] + 1)]
        /\ leases' = [leases EXCEPT ![i] = leases[i] + 1]
    BY <1>8 DEF TryDequeueOne
  <2>2. leases[i] + 1 \in Nat /\ PromotedJobs[i] \in JobRecord
    BY PromotionType DEF TypeOK
  <2>3. Leased(PromotedJobs[i], leases[i] + 1).receipt = leases[i] + 1
    BY <2>2, LeasedRecord
  <2>4. jobs'[i].receipt = leases'[i]
    BY <2>1, <2>3, PromotionType DEF TypeOK
  <2>5. ASSUME NEW j \in JobIds, j # i PROVE jobs'[j].receipt = jobs[j].receipt /\ leases'[j] = leases[j]
    BY <1>0, <2>1, <2>5, PromotionType, Promotion DEF TypeOK
  <2> QED BY <1>0, <2>4, <2>5 DEF HonoursLatestLease
<1>9. ASSUME NEW i \in JobIds, NEW r \in 1..leases[i], Ack(i, r) PROVE HonoursLatestLease'
  <2>1. jobs' = [jobs EXCEPT ![i] = Absent] /\ leases' = leases
    BY <1>9 DEF Ack
  <2> QED BY <1>1, <1>2, <1>5, <2>1
<1>10. ASSUME NEW i \in JobIds, NEW r \in 1..leases[i], Nack(i, r) PROVE HonoursLatestLease'
  <2>1. {i} \in SUBSET JobIds /\ Fail({i}) /\ leases' = leases
    BY <1>10 DEF Nack
  <2> QED BY <1>1, <2>1, LatestFailure
<1>11. ASSUME NEW i \in JobIds, NEW r \in 1..leases[i], ChangeVisibility(i, r)
       PROVE  HonoursLatestLease'
  BY <1>0, <1>1, <1>11 DEF ChangeVisibility
<1>12. ASSUME NEW e \in inflightQueue, DeadlinePasses(e) PROVE HonoursLatestLease'
  BY <1>0, <1>1, <1>12 DEF DeadlinePasses
<1>13. CASE ProcessVisibilityTimeouts
  BY <1>1, <1>13, Expiry, LatestFailure DEF ProcessVisibilityTimeouts
<1>14. CASE ProcessScheduledJobs
  BY <1>0, <1>1, <1>14, Promotion DEF ProcessScheduledJobs
<1> QED BY <1>3, <1>4, <1>6, <1>7, <1>8, <1>9, <1>10, <1>11, <1>12, <1>13, <1>14
        DEF JobStep

\* A restarted engine honours no receipt of its former life.
LEMMA LatestRestarts ==
  ASSUME TypeOK, MirrorInv, HonoursLatestLease,
         CaptureSnapshot \/ FinishSnapshot \/ Stop \/ Crash \/ Start
  PROVE  HonoursLatestLease'
<1>1. leases' = leases
  BY DEF CaptureSnapshot, FinishSnapshot, Stop, Crash, Start
<1>2. CASE jobs' = jobs
  BY <1>1, <1>2 DEF HonoursLatestLease
<1>3. CASE Forgotten
  BY <1>1, <1>3 DEF Forgotten, Absent, HonoursLatestLease
<1>4. CASE Start /\ disk # NoImage
  <2>1. jobs' = [j \in JobIds |-> Restored(disk.jobs[j])]
    BY <1>4, Zenon DEF Start
  <2>2. \A j \in JobIds : Restored(disk.jobs[j]).receipt = 0
    BY <1>4, RestoredRecord DEF MirrorInv, ImageMarked, TypeOK, Images
  <2> QED BY <1>1, <2>1, <2>2 DEF HonoursLatestLease
<1>5. jobs' = jobs \/ Forgotten \/ (Start /\ disk # NoImage)
  BY DEF CaptureSnapshot, FinishSnapshot, Stop, Crash, Start, memory
<1> QED BY <1>2, <1>3, <1>4, <1>5

\* The only receipt honoured for a job is the last one issued.
THEOREM OldLeasesAreRefused == Spec => []HonoursLatestLease
<1>1. Init => HonoursLatestLease
  BY DEF Init, HonoursLatestLease, Absent
<1>2. TypeOK /\ MirrorInv /\ HonoursLatestLease /\ [Next]_vars => HonoursLatestLease'
  <2> SUFFICES ASSUME TypeOK, MirrorInv, HonoursLatestLease, [Next]_vars
               PROVE  HonoursLatestLease'
    OBVIOUS
  <2>1. CASE UNCHANGED vars
    BY <2>1 DEF vars, memory, HonoursLatestLease
  <2>2. CASE Next
    BY <2>2, LatestCalls, LatestRestarts DEF Next
  <2> QED BY <2>1, <2>2
<1> QED BY <1>1, <1>2, TypeCorrect, MirrorInvariant, PTL DEF Spec
-----------------------------------------------------------------------------
(* PersistedJobsSurvive                                                    *)

\* No call and no tick loses a job that is not done.
LEMMA MissingCalls ==
  ASSUME TypeOK, MirrorInv,
         \/ \E j \in JobIds : JobStep(j)
         \/ \E e \in inflightQueue : DeadlinePasses(e)
         \/ ProcessScheduledJobs \/ ProcessVisibilityTimeouts
  PROVE  Done \subseteq Done' /\ Missing(jobs') \subseteq Missing(jobs) \cup Done'
<1>0. /\ \A j \in JobIds : jobs[j] \in JobRecord
      /\ FateSound /\ RecordsMirrored /\ \A e \in inflightQueue : e.job \in JobIds
  BY DEF TypeOK, MirrorInv, Lease
<1>1. ASSUME fate' = fate, \A j \in JobIds : jobs'[j].status = "Absent" => jobs[j].status = "Absent"
      PROVE  Done \subseteq Done' /\ Missing(jobs') \subseteq Missing(jobs) \cup Done'
  BY <1>1 DEF Done, Missing
<1>2. ASSUME NEW i \in JobIds, NEW x, x.status # "Absent", jobs' = [jobs EXCEPT ![i] = x]
      PROVE  \A j \in JobIds : jobs'[j].status = "Absent" => jobs[j].status = "Absent"
  BY <1>2 DEF TypeOK
<1>3. ASSUME NEW i \in JobIds, jobs' = [jobs EXCEPT ![i] = Absent],
             fate' = [fate EXCEPT ![i] = "done"]
      PROVE  Done \subseteq Done' /\ Missing(jobs') \subseteq Missing(jobs) \cup Done'
  BY <1>3 DEF Done, Missing, TypeOK
<1>4. ASSUME NEW J \in SUBSET JobIds, Fail(J)
      PROVE  \A j \in JobIds : jobs'[j].status = "Absent" => jobs[j].status = "Absent"
  BY <1>4, Failed
<1>5. ASSUME NEW i \in JobIds, NEW key \in Keys, NEW limit \in AttemptLimits,
             Enqueue(i, key, limit)
      PROVE  Done \subseteq Done' /\ Missing(jobs') \subseteq Missing(jobs) \cup Done'
  <2>1. PICK s \in {"Ready", "Scheduled"} : jobs' = [jobs EXCEPT ![i] = NewJob(s, key, limit)]
    BY <1>5 DEF Enqueue
  <2>2. NewJob(s, key, limit).status # "Absent"
    BY DEF NewJob
  <2>3. \A j \in JobIds : jobs'[j].status = "Absent" => jobs[j].status = "Absent"
    BY <1>2, <2>1, <2>2
  <2>4. fate' = [fate EXCEPT ![i] = "accepted"] /\ fate[i] = "unused"
    BY <1>5 DEF Enqueue
  <2>5. Done \subseteq Done'
    BY <2>4 DEF Done, TypeOK
  <2> QED BY <2>3, <2>5 DEF Missing
<1>6. ASSUME NEW i \in JobIds, RetryJob(i)
      PROVE  Done \subseteq Done' /\ Missing(jobs') \subseteq Missing(jobs) \cup Done'
  <2>1. jobs' = [jobs EXCEPT ![i] = Revived(jobs[i])] /\ fate' = fate
    BY <1>6 DEF RetryJob
  <2>2. Revived(jobs[i]).status # "Absent"
    BY <1>0, RevivedRecord
  <2> QED BY <1>1, <1>2, <2>1, <2>2
<1>7. ASSUME NEW i \in JobIds, DeleteJob(i)
      PROVE  Done \subseteq Done' /\ Missing(jobs') \subseteq Missing(jobs) \cup Done'
  BY <1>3, <1>7 DEF DeleteJob
<1>8. ASSUME NEW i \in JobIds, RunAtComes(i)
      PROVE  Done \subseteq Done' /\ Missing(jobs') \subseteq Missing(jobs) \cup Done'
  BY <1>1, <1>8 DEF RunAtComes
<1>9. ASSUME NEW i \in JobIds, TryDequeueOne(i)
      PROVE  Done \subseteq Done' /\ Missing(jobs') \subseteq Missing(jobs) \cup Done'
  <2>1. jobs' = [PromotedJobs EXCEPT ![i] = Leased(PromotedJobs[i], leases[i] + 1)] /\ fate' = fate
    BY <1>9 DEF TryDequeueOne
  <2>2. leases[i] + 1 \in Nat /\ PromotedJobs[i] \in JobRecord
    BY PromotionType DEF TypeOK
  <2>3. Leased(PromotedJobs[i], leases[i] + 1).status = "Inflight"
    BY <2>2, LeasedRecord
  <2>4. \A j \in JobIds : jobs'[j].status = "Absent" => jobs[j].status = "Absent"
    BY <1>0, <2>1, <2>3, PromotionType, Promotion
  <2> QED BY <1>1, <2>1, <2>4
<1>10. ASSUME NEW i \in JobIds, NEW r \in 1..leases[i], Ack(i, r)
       PROVE  Done \subseteq Done' /\ Missing(jobs') \subseteq Missing(jobs) \cup Done'
  BY <1>3, <1>10 DEF Ack
<1>11. ASSUME NEW i \in JobIds, NEW r \in 1..leases[i], Nack(i, r)
       PROVE  Done \subseteq Done' /\ Missing(jobs') \subseteq Missing(jobs) \cup Done'
  <2>1. {i} \in SUBSET JobIds /\ Fail({i}) /\ fate' = fate
    BY <1>11 DEF Nack
  <2> QED BY <1>1, <1>4, <2>1
<1>12. ASSUME NEW i \in JobIds, NEW r \in 1..leases[i], ChangeVisibility(i, r)
       PROVE  Done \subseteq Done' /\ Missing(jobs') \subseteq Missing(jobs) \cup Done'
  BY <1>1, <1>12 DEF ChangeVisibility
<1>13. ASSUME NEW e \in inflightQueue, DeadlinePasses(e)
       PROVE  Done \subseteq Done' /\ Missing(jobs') \subseteq Missing(jobs) \cup Done'
  BY <1>1, <1>13 DEF DeadlinePasses
<1>14. CASE ProcessVisibilityTimeouts
  BY <1>1, <1>4, <1>14, Expiry DEF ProcessVisibilityTimeouts
<1>15. CASE ProcessScheduledJobs
  BY <1>0, <1>1, <1>15, Promotion DEF ProcessScheduledJobs
<1> QED BY <1>5, <1>6, <1>7, <1>8, <1>9, <1>10, <1>11, <1>12, <1>13, <1>14, <1>15
        DEF JobStep

\* The calls and ticks leave the files and the process alone.
LEMMA CallsKeepStorage ==
  ASSUME \/ \E j \in JobIds : JobStep(j)
         \/ \E e \in inflightQueue : DeadlinePasses(e)
         \/ ProcessScheduledJobs \/ ProcessVisibilityTimeouts
  PROVE  UNCHANGED storage
BY DEF JobStep, Enqueue, RetryJob, DeleteJob, RunAtComes, TryDequeueOne, Ack,
       Nack, ChangeVisibility, DeadlinePasses, ProcessVisibilityTimeouts, ProcessScheduledJobs

\* So they keep DurableInv.
LEMMA DurableCalls ==
  ASSUME DurableInv, UNCHANGED storage,
         Done \subseteq Done', Missing(jobs') \subseteq Missing(jobs) \cup Done'
  PROVE  DurableInv'
<1>1. UNCHANGED <<snapshotPromise, disk, mode, persisted>>
  BY DEF storage
<1>2. mode' = "running" => persisted' \cap Missing(jobs') \subseteq Done'
  BY <1>1 DEF DurableInv
<1>3. disk' # NoImage => persisted' \cap Missing(disk'.jobs) \subseteq Done'
  BY <1>1 DEF DurableInv, Missing
<1>4. snapshotPromise' # NoImage =>
        /\ mode' # "down"
        /\ persisted' \cap Missing(snapshotPromise'.jobs) \subseteq Done'
        /\ mode' = "running" =>
             Missing(jobs') \subseteq Missing(snapshotPromise'.jobs) \cup Done'
  BY <1>1 DEF DurableInv, Missing
<1> QED BY <1>1, <1>2, <1>3, <1>4 DEF DurableInv, Missing

\* Snapshots, crashes and restarts keep it.
LEMMA DurableRestarts ==
  ASSUME TypeOK, MirrorInv, DurableInv,
         CaptureSnapshot \/ FinishSnapshot \/ Stop \/ Crash \/ Start
  PROVE  DurableInv'
<1>0. fate' = fate /\ Done' = Done
  BY DEF CaptureSnapshot, FinishSnapshot, Stop, Crash, Start, Done
<1>1. CASE CaptureSnapshot
  BY <1>0, <1>1 DEF CaptureSnapshot, Image, DurableInv, Missing, memory
<1>2. CASE Stop
  BY <1>0, <1>2 DEF Stop, Image, DurableInv, Missing, memory
<1>3. CASE Crash
  BY <1>0, <1>3 DEF Crash, DurableInv, Missing
<1>4. CASE FinishSnapshot
  <2>1. CASE UNCHANGED <<disk, persisted>>
    BY <1>0, <1>4, <2>1 DEF FinishSnapshot, DurableInv, Missing, memory
  <2>2. CASE /\ disk' = snapshotPromise
             /\ persisted' = persisted \cup {j \in JobIds : snapshotPromise.jobs[j].status # "Absent"}
    <3>1. snapshotPromise # NoImage /\ snapshotPromise' = NoImage
      BY <1>4 DEF FinishSnapshot
    <3>2. disk' # NoImage /\ persisted' \cap Missing(disk'.jobs) \subseteq Done
      BY <2>2, <3>1 DEF DurableInv, Missing
    <3>3. mode' = "running" => persisted' \cap Missing(jobs') \subseteq Done
      <4>1. SUFFICES ASSUME mode' = "running" PROVE persisted' \cap Missing(jobs') \subseteq Done
        OBVIOUS
      <4>2. mode = "running" /\ jobs' = jobs
        BY <1>4, <4>1 DEF FinishSnapshot, memory, TypeOK
      <4>3. Missing(jobs) \subseteq Missing(snapshotPromise.jobs) \cup Done
        BY <3>1, <4>2 DEF DurableInv
      <4> QED BY <2>2, <3>1, <4>2, <4>3 DEF DurableInv, Missing
    <3> QED BY <1>0, <3>1, <3>2, <3>3 DEF DurableInv, Missing
  <2> QED BY <1>4, <2>1, <2>2 DEF FinishSnapshot
<1>5. CASE Start
  <2>1. /\ UNCHANGED <<snapshotPromise, disk, persisted>> /\ mode = "down" /\ mode' = "running"
        /\ snapshotPromise = NoImage
    BY <1>5 DEF Start, DurableInv
  <2>2. persisted \cap Missing(jobs') \subseteq Done
    <3>1. CASE disk = NoImage
      BY <3>1 DEF DurableInv
    <3>2. CASE disk # NoImage
      <4>1. jobs' = [j \in JobIds |-> Restored(disk.jobs[j])]
        BY <1>5, <3>2, Zenon DEF Start
      <4>2. \A j \in JobIds : Restored(disk.jobs[j]).status = "Absent" <=> disk.jobs[j].status = "Absent"
        BY <3>2, RestoredRecord DEF MirrorInv, ImageMarked, TypeOK, Images
      <4>3. Missing(jobs') = Missing(disk.jobs)
        BY <4>1, <4>2 DEF Missing
      <4> QED BY <3>2, <4>3 DEF DurableInv
    <3> QED BY <3>1, <3>2
  <2> QED BY <1>0, <2>1, <2>2 DEF DurableInv, Missing
<1> QED BY <1>1, <1>2, <1>3, <1>4, <1>5

\* What PersistedJobsSurvive rests on: a stored job is missing from memory, the
\* file or a write in progress only if it is done.
THEOREM DurableInvariant == Spec => []DurableInv
<1>1. Init => DurableInv
  BY DEF Init, DurableInv
<1>2. TypeOK /\ MirrorInv /\ DurableInv /\ [Next]_vars => DurableInv'
  <2> SUFFICES ASSUME TypeOK, MirrorInv, DurableInv, [Next]_vars PROVE DurableInv'
    OBVIOUS
  <2>1. CASE UNCHANGED vars
    BY <2>1 DEF vars, memory, storage, DurableInv, Missing, Done
  <2>2. CASE Next
    BY <2>2, MissingCalls, CallsKeepStorage, DurableCalls, DurableRestarts DEF Next
  <2> QED BY <2>1, <2>2
<1> QED BY <1>1, <1>2, TypeCorrect, MirrorInvariant, PTL DEF Spec

\* A job that once was in the snapshot file is known to the running engine
\* until it is acknowledged or deleted.
THEOREM PersistedJobsAlwaysSurvive == Spec => []PersistedJobsSurvive
<1>1. TypeOK /\ DurableInv => PersistedJobsSurvive
  BY DEF TypeOK, DurableInv, PersistedJobsSurvive, Missing, Done
<1> QED BY <1>1, TypeCorrect, DurableInvariant, PTL

-----------------------------------------------------------------------------
(* The engine keeps the promise of JobQueue: every behaviour of            *)
(* QueueEngine, seen through the records its clients see, is one of        *)
(* JobQueue.  Each call is one step of the promise or none; the timers,    *)
(* the capture of a snapshot and the start of a process are none; and the  *)
(* end of a process is its Recover step.                                   *)

\* The refinement mapping of Promise, by name.
ViewState   == [j \in JobIds |-> ClientState(Visible[j])]
ViewReceipt == [j \in JobIds |-> Visible[j].receipt]

\* A job in the file was counted as stored, and a process that is down
\* remembers no job.
LoadInv ==
  /\ disk # NoImage => JobIds \ Missing(disk.jobs) \subseteq persisted
  /\ mode = "down" => jobs = [j \in JobIds |-> Absent]

\* The file only ever holds jobs that were counted when it was written.
THEOREM LoadInvariant == Spec => []LoadInv
<1>1. Init => LoadInv
  BY DEF Init, LoadInv
<1>2. LoadInv /\ [Next]_vars => LoadInv'
  <2> SUFFICES ASSUME LoadInv, [Next]_vars PROVE LoadInv'
    OBVIOUS
  <2> USE DEF memory, storage
  <2>1. CASE UNCHANGED vars
    BY <2>1 DEF vars, LoadInv, Missing
  <2>2. ASSUME UNCHANGED <<disk, persisted>>, mode' # "down" \/ UNCHANGED <<jobs, mode>> \/ Forgotten
        PROVE  LoadInv'
    BY <2>2 DEF LoadInv, Missing, Forgotten
  <2>3. CASE \E j \in JobIds : JobStep(j)
    <3>1. \/ Up /\ UNCHANGED storage
          \/ UNCHANGED <<jobs, storage>>
      BY <2>3 DEF JobStep, Enqueue, RetryJob, DeleteJob, RunAtComes, TryDequeueOne, Ack,
                  Nack, ChangeVisibility
    <3> QED BY <2>2, <3>1 DEF Up
  <2>4. CASE \/ \E e \in inflightQueue : DeadlinePasses(e)
             \/ ProcessScheduledJobs \/ ProcessVisibilityTimeouts
    BY <2>2, <2>4 DEF DeadlinePasses, ProcessScheduledJobs, ProcessVisibilityTimeouts, Up
  <2>5. CASE CaptureSnapshot \/ Stop \/ Crash \/ Start
    BY <2>2, <2>5 DEF CaptureSnapshot, Stop, Crash, Start
  <2>6. CASE FinishSnapshot
    <3>1. CASE UNCHANGED <<disk, persisted>>
      BY <2>2, <2>6, <3>1 DEF FinishSnapshot
    <3>2. CASE /\ disk' = snapshotPromise
               /\ persisted' = persisted \cup {j \in JobIds : snapshotPromise.jobs[j].status # "Absent"}
      BY <2>6, <3>2 DEF FinishSnapshot, LoadInv, Missing, Forgotten
    <3> QED BY <2>6, <3>1, <3>2 DEF FinishSnapshot
  <2> QED BY <2>1, <2>3, <2>4, <2>5, <2>6 DEF Next
<1> QED BY <1>1, <1>2, PTL DEF Spec

-----------------------------------------------------------------------------
(* What clients see.                                                       *)

\* While the process is up, its memory.
LEMMA UpView ==
  /\ Up => ViewState = [j \in JobIds |-> ClientState(jobs[j])]
           /\ ViewReceipt = [j \in JobIds |-> jobs[j].receipt]
  /\ Up' => ViewState' = [j \in JobIds |-> ClientState(jobs'[j])]
            /\ ViewReceipt' = [j \in JobIds |-> jobs'[j].receipt]
BY DEF ViewState, ViewReceipt, Visible, Up

\* ClientState by status.
LEMMA ClientStates ==
  ASSUME NEW r
  PROVE  /\ r.status = "Absent" => ClientState(r) = "unknown"
         /\ r.status \in {"Ready", "Scheduled"} => ClientState(r) = "waiting"
         /\ r.status = "Inflight" => ClientState(r) = "leased"
         /\ r.status = "DeadLetter" => ClientState(r) = "dead"
BY DEF ClientState

\* A step that changes one record changes what clients see of that job.
LEMMA OneJobView ==
  ASSUME TypeOK, Up, Up', NEW i \in JobIds, NEW x, jobs' = [jobs EXCEPT ![i] = x]
  PROVE  /\ ViewState' = [ViewState EXCEPT ![i] = ClientState(x)]
         /\ ViewReceipt' = [ViewReceipt EXCEPT ![i] = x.receipt]
<1>1. \A j \in JobIds : jobs'[j] = IF j = i THEN x ELSE jobs[j]
  BY DEF TypeOK
<1> QED BY <1>1, UpView

\* A step that changes nothing of the view is none of the promise.
LEMMA Stutter ==
  ASSUME UNCHANGED <<ViewState, ViewReceipt, leases, fate, persisted>>
  PROVE  UNCHANGED Promise!vars
BY DEF Promise!vars, ViewState, ViewReceipt

-----------------------------------------------------------------------------
(* The steps of the promise.                                               *)

\* Each step of the promise in terms of the view.
LEMMA AcceptStep ==
  ASSUME NEW i \in JobIds, fate[i] = "unused", ViewState[i] = "unknown",
         ViewState' = [ViewState EXCEPT ![i] = "waiting"],
         fate' = [fate EXCEPT ![i] = "accepted"],
         UNCHANGED <<ViewReceipt, leases, persisted>>
  PROVE  Promise!Next
BY DEF Promise!Next, Promise!Accept, ViewState, ViewReceipt

LEMMA LeaseStep ==
  ASSUME NEW i \in JobIds, ViewState[i] = "waiting",
         ViewState' = [ViewState EXCEPT ![i] = "leased"],
         leases' = [leases EXCEPT ![i] = @ + 1],
         ViewReceipt' = [ViewReceipt EXCEPT ![i] = leases'[i]],
         UNCHANGED <<fate, persisted>>
  PROVE  Promise!Next
BY DEF Promise!Next, Promise!Lease, ViewState, ViewReceipt

LEMMA FinishStep ==
  ASSUME NEW i \in JobIds, ViewState[i] = "leased",
         ViewState' = [ViewState EXCEPT ![i] = "unknown"],
         ViewReceipt' = [ViewReceipt EXCEPT ![i] = 0],
         fate' = [fate EXCEPT ![i] = "done"],
         UNCHANGED <<leases, persisted>>
  PROVE  Promise!Next
BY DEF Promise!Next, Promise!Finish, ViewState, ViewReceipt

LEMMA RetryStep ==
  ASSUME NEW i \in JobIds, ViewState[i] = "dead",
         ViewState' = [ViewState EXCEPT ![i] = "waiting"],
         UNCHANGED <<ViewReceipt, leases, fate, persisted>>
  PROVE  Promise!Next
BY DEF Promise!Next, Promise!Retry, ViewState, ViewReceipt

LEMMA DeleteStep ==
  ASSUME NEW i \in JobIds, ViewState[i] # "unknown",
         ViewState' = [ViewState EXCEPT ![i] = "unknown"],
         ViewReceipt' = [ViewReceipt EXCEPT ![i] = 0],
         fate' = [fate EXCEPT ![i] = "done"],
         UNCHANGED <<leases, persisted>>
  PROVE  Promise!Next
BY DEF Promise!Next, Promise!Delete, ViewState, ViewReceipt

LEMMA GiveBackStep ==
  ASSUME NEW J \in SUBSET JobIds, J # {}, \A j \in J : ViewState[j] = "leased",
         NEW after \in [J -> {"waiting", "dead"}],
         ViewState' = [j \in JobIds |-> IF j \in J THEN after[j] ELSE ViewState[j]],
         ViewReceipt' = [j \in JobIds |-> IF j \in J THEN 0 ELSE ViewReceipt[j]],
         UNCHANGED <<leases, fate, persisted>>
  PROVE  Promise!Next
<1>1. Promise!GiveBack(J)
  BY DEF Promise!GiveBack, ViewState, ViewReceipt
<1> QED BY <1>1 DEF Promise!Next

LEMMA PersistStep ==
  ASSUME NEW J \in SUBSET JobIds,
         \A j \in J : ViewState[j] # "unknown" \/ fate[j] = "done",
         persisted' = persisted \cup J,
         UNCHANGED <<ViewState, ViewReceipt, leases, fate>>
  PROVE  Promise!Next
<1>1. Promise!Persist(J)
  BY DEF Promise!Persist, ViewState, ViewReceipt
<1> QED BY <1>1 DEF Promise!Next

LEMMA RecoverStep ==
  ASSUME NEW J \in SUBSET JobIds, persisted' = persisted \cup J,
         ViewState' \in [JobIds -> {"unknown", "waiting", "dead"}],
         \A j \in JobIds :
           /\ j \notin persisted' \/ fate[j] = "unused" => ViewState'[j] = "unknown"
           /\ j \in persisted' /\ fate[j] # "done" => ViewState'[j] # "unknown",
         ViewReceipt' = [j \in JobIds |-> 0],
         UNCHANGED <<leases, fate>>
  PROVE  Promise!Next
<1>1. Promise!Recover(J)
  BY DEF Promise!Recover, ViewState, ViewReceipt
<1> QED BY <1>1 DEF Promise!Next

-----------------------------------------------------------------------------
(* Every step of the engine is a step of the promise or none.              *)

\* The producers and the admin calls: Accept, Retry, Delete.
LEMMA ProducersRefine ==
  ASSUME TypeOK, MirrorInv, NEW i \in JobIds,
         \/ \E key \in Keys, limit \in AttemptLimits : Enqueue(i, key, limit)
         \/ RetryJob(i) \/ DeleteJob(i)
  PROVE  Promise!Next
<1>0. /\ jobs[i] \in JobRecord /\ Up /\ Up'
      /\ UNCHANGED <<leases, persisted>>
      /\ ViewState[i] = ClientState(jobs[i]) /\ ViewReceipt[i] = jobs[i].receipt
      /\ ViewReceipt \in [JobIds -> Nat]
  <2>1. Up /\ Up' /\ UNCHANGED <<leases, persisted>>
    BY DEF Enqueue, RetryJob, DeleteJob, Up, storage
  <2>2. \A j \in JobIds : jobs[j] \in JobRecord /\ jobs[j].receipt \in Nat
    BY DEF TypeOK, JobRecord
  <2> QED BY <2>1, <2>2, UpView
<1>1. ASSUME NEW key \in Keys, NEW limit \in AttemptLimits, Enqueue(i, key, limit)
      PROVE  Promise!Next
  <2>1. PICK s \in {"Ready", "Scheduled"} : jobs' = [jobs EXCEPT ![i] = NewJob(s, key, limit)]
    BY <1>1 DEF Enqueue
  <2>2. NewJob(s, key, limit).status = s /\ NewJob(s, key, limit).receipt = 0
    BY DEF NewJob
  <2>3. /\ fate[i] = "unused" /\ fate' = [fate EXCEPT ![i] = "accepted"]
        /\ jobs[i].status = "Absent" /\ jobs[i].receipt = 0
    BY <1>1 DEF Enqueue, MirrorInv, FateSound, RecordsMirrored
  <2>4. ViewState[i] = "unknown"
    BY <1>0, <2>3, ClientStates
  <2>5. ClientState(NewJob(s, key, limit)) = "waiting"
    BY <2>2, ClientStates
  <2>6. /\ ViewState' = [ViewState EXCEPT ![i] = ClientState(NewJob(s, key, limit))]
        /\ ViewReceipt' = [ViewReceipt EXCEPT ![i] = NewJob(s, key, limit).receipt]
    BY <1>0, <2>1, OneJobView
  <2>7. ViewReceipt' = ViewReceipt
    BY <1>0, <2>2, <2>3, <2>6
  <2> QED BY <1>0, <2>3, <2>4, <2>5, <2>6, <2>7, AcceptStep
<1>2. CASE RetryJob(i)
  <2>1. /\ jobs' = [jobs EXCEPT ![i] = Revived(jobs[i])] /\ fate' = fate
        /\ jobs[i].status = "DeadLetter" /\ jobs[i].receipt = 0
    BY <1>2 DEF RetryJob, MirrorInv, RecordsMirrored
  <2>2. ViewState[i] = "dead"
    BY <1>0, <2>1, ClientStates
  <2>3. Revived(jobs[i]).receipt = 0 /\ ClientState(Revived(jobs[i])) = "waiting"
    BY <1>0, RevivedRecord, ClientStates
  <2>4. /\ ViewState' = [ViewState EXCEPT ![i] = ClientState(Revived(jobs[i]))]
        /\ ViewReceipt' = [ViewReceipt EXCEPT ![i] = Revived(jobs[i]).receipt]
    BY <1>0, <2>1, OneJobView
  <2>5. ViewReceipt' = ViewReceipt
    BY <1>0, <2>1, <2>3, <2>4
  <2> QED BY <1>0, <2>1, <2>2, <2>3, <2>4, <2>5, RetryStep
<1>3. CASE DeleteJob(i)
  <2>1. /\ jobs' = [jobs EXCEPT ![i] = Absent] /\ fate' = [fate EXCEPT ![i] = "done"]
        /\ jobs[i].status # "Absent"
    BY <1>3 DEF DeleteJob
  <2>2. ViewState[i] # "unknown"
    BY <1>0, <2>1, ClientStates DEF JobRecord, Statuses, Live
  <2>3. Absent.receipt = 0 /\ ClientState(Absent) = "unknown"
    BY ClientStates DEF Absent
  <2>4. /\ ViewState' = [ViewState EXCEPT ![i] = ClientState(Absent)]
        /\ ViewReceipt' = [ViewReceipt EXCEPT ![i] = Absent.receipt]
    BY <1>0, <2>1, OneJobView
  <2> QED BY <1>0, <2>1, <2>2, <2>3, <2>4, DeleteStep
<1> QED BY <1>1, <1>2, <1>3

\* To clients a job that is promoted was waiting and is.
LEMMA PromotedClientState ==
  ASSUME TypeOK, NEW j \in JobIds
  PROVE  ClientState(PromotedJobs[j]) = ClientState(jobs[j])
<1>1. CASE Promoted(j)
  <2>1. jobs[j].status = "Scheduled" /\ PromotedJobs[j] = [jobs[j] EXCEPT !.status = "Ready"]
    BY <1>1 DEF Promoted, PromotedJobs
  <2>2. PromotedJobs[j].status = "Ready"
    BY <2>1, PromotedRecord, StatusNames DEF TypeOK
  <2> QED BY <2>1, <2>2, ClientStates
<1>2. CASE ~Promoted(j)
  BY <1>2 DEF PromotedJobs
<1> QED BY <1>1, <1>2

\* The workers and the visibility loop: Lease, Finish, GiveBack.
LEMMA LeasesRefine ==
  ASSUME TypeOK, MirrorInv, NEW i \in JobIds,
         TryDequeueOne(i) \/ \E r \in 1..leases[i] : Ack(i, r)
  PROVE  Promise!Next
<1>0. /\ Up /\ Up' /\ persisted' = persisted
      /\ \A j \in JobIds : ViewState[j] = ClientState(jobs[j])
      /\ DOMAIN ViewState = JobIds /\ DOMAIN ViewReceipt = JobIds
      /\ RecordsMirrored /\ \A j \in JobIds : jobs[j] \in JobRecord
  <2>1. Up /\ Up' /\ persisted' = persisted
    BY DEF TryDequeueOne, Ack, Up, storage
  <2> QED BY <2>1, UpView DEF MirrorInv, TypeOK
<1>1. CASE TryDequeueOne(i)
  <2>1. /\ jobs' = [PromotedJobs EXCEPT ![i] = Leased(PromotedJobs[i], leases[i] + 1)]
        /\ leases' = [leases EXCEPT ![i] = leases[i] + 1]
        /\ PromotedReady[i] > 0 /\ fate' = fate
    BY <1>1 DEF TryDequeueOne
  <2>2. leases[i] + 1 \in Nat /\ PromotedJobs[i] \in JobRecord
    BY PromotionType DEF TypeOK
  <2>3. /\ Leased(PromotedJobs[i], leases[i] + 1).status = "Inflight"
        /\ Leased(PromotedJobs[i], leases[i] + 1).receipt = leases[i] + 1
    BY <2>2, LeasedRecord
  <2>4. ViewState[i] = "waiting"
    <3>1. PromotedJobs[i].status = "Ready"
      BY <1>0, <2>1, Promotion
    <3>2. jobs[i].status \in {"Ready", "Scheduled"}
      BY <3>1 DEF PromotedJobs, Promoted
    <3> QED BY <1>0, <3>2, ClientStates
  <2>5. ASSUME NEW j \in JobIds
        PROVE  /\ ViewState'[j] = IF j = i THEN "leased" ELSE ViewState[j]
               /\ ViewReceipt'[j] = IF j = i THEN leases[i] + 1 ELSE ViewReceipt[j]
    <3>1. ViewState'[j] = ClientState(jobs'[j]) /\ ViewReceipt'[j] = jobs'[j].receipt
      BY <1>0, UpView
    <3>2. CASE j = i
      <4>1. jobs'[j] = Leased(PromotedJobs[i], leases[i] + 1)
        BY <2>1, <3>2, PromotionType
      <4> QED BY <2>3, <3>1, <3>2, <4>1, ClientStates
    <3>3. CASE j # i
      <4>1. jobs'[j] = PromotedJobs[j] /\ jobs'[j].receipt = jobs[j].receipt
        BY <1>0, <2>1, <3>3, PromotionType, Promotion
      <4>2. ClientState(PromotedJobs[j]) = ClientState(jobs[j])
        BY <1>0, PromotedClientState
      <4> QED BY <1>0, <3>1, <3>3, <4>1, <4>2, UpView
    <3> QED BY <3>2, <3>3
  <2>6. DOMAIN ViewState' = JobIds /\ DOMAIN ViewReceipt' = JobIds
    BY <1>0, UpView
  <2>7. /\ ViewState' = [ViewState EXCEPT ![i] = "leased"]
        /\ ViewReceipt' = [ViewReceipt EXCEPT ![i] = leases[i] + 1]
    BY <2>5, <2>6 DEF ViewState, ViewReceipt
  <2>8. leases'[i] = leases[i] + 1
    BY <2>1 DEF TypeOK
  <2> QED BY <1>0, <2>1, <2>4, <2>7, <2>8, LeaseStep
<1>2. ASSUME NEW r \in 1..leases[i], Ack(i, r) PROVE Promise!Next
  <2>1. /\ jobs' = [jobs EXCEPT ![i] = Absent] /\ fate' = [fate EXCEPT ![i] = "done"]
        /\ leases' = leases /\ jobs[i].receipt # 0
    BY <1>2 DEF Ack, FindByReceipt
  <2>2. ViewState[i] = "leased"
    BY <1>0, <2>1, ClientStates DEF RecordsMirrored
  <2>3. Absent.receipt = 0 /\ ClientState(Absent) = "unknown"
    BY ClientStates DEF Absent
  <2>4. /\ ViewState' = [ViewState EXCEPT ![i] = ClientState(Absent)]
        /\ ViewReceipt' = [ViewReceipt EXCEPT ![i] = Absent.receipt]
    BY <1>0, <2>1, OneJobView
  <2> QED BY <1>0, <2>1, <2>2, <2>3, <2>4, FinishStep
<1> QED BY <1>1, <1>2

\* Failed attempts end the leases of their jobs, and no other.
LEMMA FailureRefines ==
  ASSUME TypeOK, MirrorInv, Up, Up', NEW J \in SUBSET JobIds, J # {}, Fail(J),
         \A j \in J : jobs[j].status = "Inflight",
         UNCHANGED <<leases, fate, persisted>>
  PROVE  Promise!Next
<1> DEFINE after == [j \in J |-> IF j \in Buried(J) THEN "dead" ELSE "waiting"]
<1>1. after \in [J -> {"waiting", "dead"}]
  OBVIOUS
<1>2. \A j \in J : ViewState[j] = "leased"
  BY UpView, ClientStates
<1>3. ASSUME NEW j \in JobIds
      PROVE  /\ ViewState'[j] = IF j \in J THEN after[j] ELSE ViewState[j]
             /\ ViewReceipt'[j] = IF j \in J THEN 0 ELSE ViewReceipt[j]
  <2>1. ViewState'[j] = ClientState(jobs'[j]) /\ ViewReceipt'[j] = jobs'[j].receipt
    BY UpView
  <2>2. CASE j \in J
    BY <2>1, <2>2, Failed, ClientStates
  <2>3. CASE j \notin J
    <3>1. jobs'[j] = jobs[j]
      BY <2>3, Failed
    <3> QED BY <2>1, <2>3, <3>1, UpView
  <2> QED BY <2>2, <2>3
<1>4. /\ ViewState' = [j \in JobIds |-> IF j \in J THEN after[j] ELSE ViewState[j]]
      /\ ViewReceipt' = [j \in JobIds |-> IF j \in J THEN 0 ELSE ViewReceipt[j]]
  BY <1>3, UpView
<1> QED BY <1>1, <1>2, <1>4, GiveBackStep

\* The steps that clients do not see: timers, promotions, changed deadlines,
\* the capture of a snapshot, and the beginning of a stop.
LEMMA QuietSteps ==
  ASSUME TypeOK,
         \/ \E j \in JobIds : RunAtComes(j) \/ \E r \in 1..leases[j] : ChangeVisibility(j, r)
         \/ \E e \in inflightQueue : DeadlinePasses(e)
         \/ ProcessScheduledJobs \/ CaptureSnapshot \/ Stop
  PROVE  UNCHANGED Promise!vars
<1> USE DEF storage, memory
<1>1. CASE ProcessScheduledJobs
  <2>1. Up /\ Up' /\ jobs' = PromotedJobs /\ UNCHANGED <<leases, fate, persisted>>
    BY <1>1 DEF ProcessScheduledJobs, Up
  <2>2. \A j \in JobIds : jobs'[j].receipt = jobs[j].receipt
    <3>1. SUFFICES ASSUME NEW j \in JobIds PROVE PromotedJobs[j].receipt = jobs[j].receipt
      BY <2>1
    <3>2. jobs[j] \in JobRecord
      BY DEF TypeOK
    <3> QED BY <3>2, PromotedRecord, StatusNames DEF PromotedJobs
  <2> QED BY <2>1, <2>2, UpView, PromotedClientState, Stutter
<1>2. ASSUME UNCHANGED <<jobs, disk, leases, fate, persisted>>, Up <=> Up'
      PROVE  UNCHANGED Promise!vars
  <2>1. UNCHANGED <<ViewState, ViewReceipt>>
    BY <1>2 DEF ViewState, ViewReceipt, Visible, Up
  <2> QED BY <1>2, <2>1, Stutter
<1>3. CASE \/ \E j \in JobIds : RunAtComes(j) \/ \E r \in 1..leases[j] : ChangeVisibility(j, r)
           \/ \E e \in inflightQueue : DeadlinePasses(e)
           \/ CaptureSnapshot \/ Stop
  BY <1>2, <1>3 DEF RunAtComes, ChangeVisibility, DeadlinePasses, CaptureSnapshot, Stop, Up
<1> QED BY <1>1, <1>3

\* nack and the visibility loop: GiveBack.
LEMMA FailuresRefine ==
  ASSUME TypeOK, MirrorInv,
         \/ \E j \in JobIds : \E r \in 1..leases[j] : Nack(j, r)
         \/ ProcessVisibilityTimeouts
  PROVE  Promise!Next \/ UNCHANGED Promise!vars
<1> USE DEF storage
<1>1. ASSUME NEW j \in JobIds, NEW r \in 1..leases[j], Nack(j, r) PROVE Promise!Next
  <2>1. /\ Up /\ Up' /\ Fail({j}) /\ {j} \in SUBSET JobIds
        /\ jobs[j].receipt # 0 /\ UNCHANGED <<leases, fate, persisted>>
    BY <1>1 DEF Nack, FindByReceipt, Up
  <2>2. jobs[j].status = "Inflight"
    BY <2>1 DEF MirrorInv, RecordsMirrored
  <2> QED BY <2>1, <2>2, FailureRefines
<1>2. CASE ProcessVisibilityTimeouts
  <2>1. Up /\ Up' /\ Fail(TimedOut) /\ UNCHANGED <<leases, fate, persisted>>
    BY <1>2 DEF ProcessVisibilityTimeouts, Up
  <2>2. CASE TimedOut # {}
    BY <2>1, <2>2, Expiry, FailureRefines
  <2>3. CASE TimedOut = {}
    <3>1. \A j \in JobIds : jobs'[j] = jobs[j]
      BY <2>1, <2>3, Expiry, Failed
    <3>2. UNCHANGED <<ViewState, ViewReceipt>>
      BY <2>1, <3>1, UpView
    <3> QED BY <2>1, <3>2, Stutter
  <2> QED BY <2>2, <2>3
<1> QED BY <1>1, <1>2

\* The end of a process, with an image written or not: Recover.
LEMMA EndRefines ==
  ASSUME TypeOK', MirrorInv', DurableInv', LoadInv', mode' = "down",
         NEW J \in SUBSET JobIds, persisted' = persisted \cup J, UNCHANGED <<leases, fate>>
  PROVE  Promise!Next
<1>1. ASSUME NEW j \in JobIds
      PROVE  /\ ViewState'[j] \in {"unknown", "waiting", "dead"}
             /\ j \notin persisted' \/ fate[j] = "unused" => ViewState'[j] = "unknown"
             /\ j \in persisted' /\ fate[j] # "done" => ViewState'[j] # "unknown"
             /\ ViewReceipt'[j] = 0
  <2>1. CASE disk' = NoImage
    <3>1. ViewState'[j] = ClientState(Absent) /\ ViewReceipt'[j] = Absent.receipt
      BY <2>1 DEF ViewState, ViewReceipt, Visible, Up
    <3>2. persisted' = {}
      BY <2>1 DEF DurableInv
    <3> QED BY <3>1, <3>2, ClientStates DEF Absent
  <2>2. CASE disk' # NoImage
    <3> DEFINE r == disk'.jobs[j]
    <3>1. r \in JobRecord
      BY <2>2 DEF TypeOK, Images
    <3>2. /\ r.receipt # 0 <=> r.status = "Inflight"
          /\ fate[j] = "unused" => r.status = "Absent"
      BY <2>2 DEF MirrorInv, ImageMarked
    <3>3. /\ Restored(r) \in JobRecord
          /\ Restored(r).receipt = 0 /\ Restored(r).status # "Inflight"
          /\ Restored(r).status = "Absent" <=> r.status = "Absent"
      BY <3>1, <3>2, RestoredRecord
    <3>4. ViewState'[j] = ClientState(Restored(r)) /\ ViewReceipt'[j] = Restored(r).receipt
      BY <2>2 DEF ViewState, ViewReceipt, Visible, Up
    <3>5. /\ r.status # "Absent" => j \in persisted'
          /\ j \in persisted' /\ r.status = "Absent" => fate[j] = "done"
      BY <2>2 DEF LoadInv, DurableInv, Missing, Done
    <3>6. /\ ClientState(Restored(r)) = "unknown" <=> r.status = "Absent"
          /\ ClientState(Restored(r)) \in {"unknown", "waiting", "dead"}
      <4>1. Restored(r).status \in {"Absent", "Ready", "Scheduled", "DeadLetter"}
        BY <3>3 DEF JobRecord, Statuses, Live
      <4> QED BY <3>3, <4>1, ClientStates
    <3> HIDE DEF r
    <3> QED BY <3>2, <3>3, <3>4, <3>5, <3>6
  <2> QED BY <2>1, <2>2
<1>2. ViewState' \in [JobIds -> {"unknown", "waiting", "dead"}] /\ ViewReceipt' = [j \in JobIds |-> 0]
  BY <1>1 DEF ViewState, ViewReceipt
<1> QED BY <1>1, <1>2, RecoverStep

\* Snapshots, crashes and restarts: Persist, Recover.
LEMMA RestartsRefine ==
  ASSUME TypeOK, TypeOK', MirrorInv, MirrorInv', DurableInv, DurableInv', LoadInv, LoadInv',
         FinishSnapshot \/ Crash \/ Start
  PROVE  Promise!Next \/ UNCHANGED Promise!vars
<1>1. CASE FinishSnapshot
  <2> DEFINE stored == {j \in JobIds : snapshotPromise.jobs[j].status # "Absent"}
  <2>1. snapshotPromise # NoImage /\ UNCHANGED <<leases, fate>>
    BY <1>1 DEF FinishSnapshot
  <2>2. CASE mode = "stopping"
    <3>1. mode' = "down" /\ (persisted' = persisted \cup stored \/ persisted' = persisted \cup {})
      BY <1>1, <2>2 DEF FinishSnapshot
    <3>2. stored \in SUBSET JobIds /\ {} \in SUBSET JobIds
      OBVIOUS
    <3> QED BY <2>1, <3>1, <3>2, EndRefines
  <2>3. CASE mode # "stopping"
    <3>1. Up /\ Up' /\ jobs' = jobs /\ mode = "running"
      BY <1>1, <2>1, <2>3 DEF FinishSnapshot, DurableInv, memory, Up, TypeOK
    <3>2. UNCHANGED <<ViewState, ViewReceipt>>
      BY <3>1, UpView
    <3>3. CASE persisted' = persisted
      BY <2>1, <3>2, <3>3, Stutter
    <3>4. CASE persisted' = persisted \cup stored
      <4>1. ASSUME NEW j \in stored PROVE ViewState[j] # "unknown" \/ fate[j] = "done"
        <5>1. j \notin Missing(snapshotPromise.jobs)
          BY DEF Missing
        <5>2. j \notin Missing(jobs) \/ j \in Done
          BY <2>1, <3>1, <5>1 DEF DurableInv
        <5>3. CASE j \in Done
          BY <5>3 DEF Done
        <5>4. CASE jobs[j].status # "Absent"
          <6>1. jobs[j] \in JobRecord
            BY DEF TypeOK
          <6> QED BY <3>1, <5>4, <6>1, UpView, ClientStates DEF JobRecord, Statuses, Live
        <5> QED BY <5>2, <5>3, <5>4 DEF Missing
      <4> QED BY <2>1, <3>2, <3>4, <4>1, PersistStep
    <3> QED BY <1>1, <3>3, <3>4 DEF FinishSnapshot
  <2> QED BY <2>2, <2>3
<1>2. CASE Crash
  <2>1. /\ mode' = "down" /\ persisted' = persisted \cup {} /\ UNCHANGED <<leases, fate>>
        /\ {} \in SUBSET JobIds
    BY <1>2 DEF Crash
  <2> QED BY <2>1, EndRefines
<1>3. CASE Start
  <2>1. /\ mode = "down" /\ ~Up /\ Up' /\ UNCHANGED <<disk, leases, fate, persisted>>
    BY <1>3 DEF Start, Up
  <2>2. jobs' = Visible
    <3>1. CASE disk = NoImage
      BY <1>3, <2>1, <3>1 DEF Start, memory, LoadInv, Visible
    <3>2. CASE disk # NoImage
      <4>1. jobs' = [j \in JobIds |-> Restored(disk.jobs[j])]
        BY <1>3, <3>2, Zenon DEF Start
      <4> QED BY <2>1, <3>2, <4>1 DEF Visible
    <3> QED BY <3>1, <3>2
  <2>3. UNCHANGED <<ViewState, ViewReceipt>>
    BY <2>1, <2>2, UpView DEF ViewState, ViewReceipt
  <2> QED BY <2>1, <2>3, Stutter
<1> QED BY <1>1, <1>2, <1>3

\* The engine, with its queues, its snapshots and its crashes, keeps the promise
\* of JobQueue: the detailed specification implements the abstract one.
THEOREM Refinement == Spec => KeepsPromise
<1>1. Init => Promise!Init
  BY ClientStates DEF Init, Promise!Init, Visible, Up, Absent
<1>2. ASSUME TypeOK, TypeOK', MirrorInv, MirrorInv', DurableInv, DurableInv', LoadInv, LoadInv',
             [Next]_vars
      PROVE  [Promise!Next]_Promise!vars
  <2>1. CASE UNCHANGED vars
    <3>1. UNCHANGED <<ViewState, ViewReceipt, leases, fate, persisted>>
      BY <2>1 DEF vars, memory, storage, ViewState, ViewReceipt, Visible, Up
    <3> QED BY <3>1, Stutter
  <2>2. ASSUME NEW j \in JobIds, JobStep(j) PROVE [Promise!Next]_Promise!vars
    BY <1>2, <2>2, ProducersRefine, LeasesRefine, FailuresRefine, QuietSteps, Zenon DEF JobStep
  <2>3. CASE \/ \E e \in inflightQueue : DeadlinePasses(e)
             \/ ProcessScheduledJobs \/ CaptureSnapshot \/ Stop
    BY <1>2, <2>3, QuietSteps
  <2>4. CASE ProcessVisibilityTimeouts
    BY <1>2, <2>4, FailuresRefine
  <2>5. CASE FinishSnapshot \/ Crash \/ Start
    BY <1>2, <2>5, RestartsRefine
  <2> QED BY <1>2, <2>1, <2>2, <2>3, <2>4, <2>5 DEF Next
<1> QED BY <1>1, <1>2, TypeCorrect, MirrorInvariant, DurableInvariant, LoadInvariant,
           PTL DEF Spec, KeepsPromise, Promise!Spec
=============================================================================
