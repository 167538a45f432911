---------------------- MODULE ScheduledMessage_proofs -----------------------
(***************************************************************************)
(* Proofs about ScheduledMessage, and about the pipeline JobStream that it *)
(* extends: a job whose delivery was not late is held by one worker at     *)
(* most, and so its message is posted once, its row is true and its save   *)
(* is not forgotten.                                                       *)
(***************************************************************************)
EXTENDS ScheduledMessage, SequenceTheorems, TLAPS

In(s, x)     == \E i \in DOMAIN s : s[i] = x
Single(s, x) == \A i, k \in DOMAIN s : s[i] = x /\ s[k] = x => i = k

\* A worker holds one delivery of the job, waiting or running.
HoldsOne(w, j) == Single(inbox[w], j) /\ (task[w] = j => ~In(inbox[w], j))

\* The stream, its ack waits and the workers agree on a job that was not late:
\* whoever holds it is the only one, and the server waits for the answer.
CopyInv ==
  \A j \in Jobs :
    /\ \A w \in Workers : Holds(w, j) => stream[j] # "new"
    /\ j \notin late =>
         /\ \A w \in Workers : Holds(w, j) => j \in outstanding /\ stream[j] = "stored"
         /\ \A w, x \in Workers : Holds(w, j) /\ Holds(x, j) => w = x
         /\ \A w \in Workers : HoldsOne(w, j)

\* A save names its time, stores the row and publishes its job, in this order.
SaveInv ==
  /\ \A v \in Versions :
       /\ save[v] = "unused" <=> time[v] = None
       /\ save[v] = "unused" => sent[v] = 0
       /\ save[v] \in {"unused", "begun", "stored"} => stream[v] = "new"
       /\ save[v] = "done" => stream[v] # "new"
  /\ row # NoRow =>
       /\ row.status = "pending" => row.version # None
       /\ row.version # None => save[row.version] # "unused"

\* A worker that has read the row found the time of its job there.
WorkInv ==
  \A w \in Workers : step[w] # "read" =>
    /\ task[w] # None /\ seen[w] # None
    /\ time[seen[w]] = time[task[w]] /\ save[seen[w]] # "unused"

RowIs(v) == row # NoRow /\ row.version = v

\* The run that has posted a version is about to delete its row, or has.
PostInv ==
  \A v \in Versions : ~Excused(v) /\ sent[v] > 0 =>
    /\ sent[v] = 1
    /\ \/ stream[v] = "gone" /\ ~RowIs(v)
       \/ \E w \in Workers : task[w] = v /\ step[w] = "delete"

\* No job of a row that waits is dropped.
PendInv ==
  \A v \in Versions : RowIs(v) /\ row.status = "pending" /\ stream[v] = "gone" => Excused(v)

RunInv == CopyInv /\ SaveInv /\ WorkInv /\ PostInv /\ PendInv

-----------------------------------------------------------------------------
(* Type correctness.                                                       *)

LEMMA Constants ==
  /\ None \notin Jobs /\ MaxDeliver \in Nat /\ MaxDeliver > 0 /\ Concurrency \in Nat
  /\ MaxTroubles \in Nat
  /\ \A v \in Jobs : v \in Nat /\ v > 0 /\ \A t \in 1..v : t \in Jobs
BY StreamAssumption, ScheduleAssumption

LEMMA TroubleType == ASSUME TypeOK, Trouble PROVE troubles' \in 0..MaxTroubles
BY Constants DEF TypeOK, StreamTypeOK, Trouble

LEMMA StopType ==
  ASSUME TypeOK, NEW w \in Workers
  PROVE  /\ [inbox EXCEPT ![w] = <<>>] \in [Workers -> Seq(Jobs)]
         /\ \A x \in Workers : Len([inbox EXCEPT ![w] = <<>>][x]) <= Concurrency
<1>1. <<>> \in Seq(Jobs) /\ Len(<<>>) <= Concurrency
  BY Constants
<1> QED BY <1>1 DEF TypeOK, StreamTypeOK

\* The jobs as they pass through the stream.
LEMMA StreamTypes ==
  ASSUME TypeOK,
         \/ StreamStep
         \/ \E w \in Workers : WorkerDies(w)
         \/ \E w \in Workers : Take(w) /\ UNCHANGED <<stream, deliveries, outstanding, running, troubles, late>>
         \/ \E w \in Workers : (TaskSucceeds(w) \/ TaskFails(w)) /\ troubles' \in 0..MaxTroubles
  PROVE  StreamTypeOK'
<1>1. ASSUME NEW w \in Workers, NEW j \in Jobs, Deliver(w, j) PROVE StreamTypeOK'
  <2>1. /\ deliveries[j] \in Nat /\ deliveries[j] < MaxDeliver /\ inbox[w] \in Seq(Jobs)
        /\ Len(inbox[w]) < Concurrency /\ Len(inbox[w]) \in Nat
    BY <1>1, Constants DEF Deliver, Deliverable, TypeOK, StreamTypeOK
  <2>2. deliveries' \in [Jobs -> 0..MaxDeliver]
    <3>1. deliveries[j] + 1 \in 0..MaxDeliver
      BY <2>1, Constants
    <3> QED BY <1>1, <3>1 DEF Deliver, TypeOK, StreamTypeOK
  <2>3. Append(inbox[w], j) \in Seq(Jobs) /\ Len(Append(inbox[w], j)) <= Concurrency
    BY <2>1, Constants
  <2>4. inbox' \in [Workers -> Seq(Jobs)] /\ \A x \in Workers : Len(inbox'[x]) <= Concurrency
    BY <1>1, <2>3 DEF Deliver, TypeOK, StreamTypeOK
  <2> QED BY <1>1, <2>2, <2>4 DEF Deliver, TypeOK, StreamTypeOK
<1>2. ASSUME NEW j \in Jobs, AckWaitEnds(j) PROVE StreamTypeOK'
  BY <1>2 DEF AckWaitEnds, TypeOK, StreamTypeOK
<1>3. ASSUME NEW w \in Workers, StopWorker(w) PROVE StreamTypeOK'
  <2>1. inbox' = [inbox EXCEPT ![w] = <<>>] /\ troubles' \in 0..MaxTroubles
    BY <1>3, TroubleType DEF StopWorker
  <2>2. inbox' \in [Workers -> Seq(Jobs)] /\ \A x \in Workers : Len(inbox'[x]) <= Concurrency
    BY <2>1, StopType
  <2> QED BY <1>3, <2>1, <2>2 DEF StopWorker, TypeOK, StreamTypeOK
<1>4. ASSUME NEW w \in Workers, StartWorker(w) PROVE StreamTypeOK'
  BY <1>4 DEF StartWorker, TypeOK, StreamTypeOK
<1>5. ASSUME NEW w \in Workers, WorkerDies(w) PROVE StreamTypeOK'
  <2>1. inbox' = [inbox EXCEPT ![w] = <<>>] /\ troubles' \in 0..MaxTroubles
    BY <1>5, TroubleType DEF WorkerDies, TypeOK, StreamTypeOK
  <2>2. inbox' \in [Workers -> Seq(Jobs)] /\ \A x \in Workers : Len(inbox'[x]) <= Concurrency
    BY <2>1, StopType
  <2> QED BY <1>5, <2>1, <2>2 DEF WorkerDies, TypeOK, StreamTypeOK
<1>6. ASSUME NEW w \in Workers, Take(w),
             UNCHANGED <<stream, deliveries, outstanding, running, troubles, late>>
      PROVE  StreamTypeOK'
  <2>1. inbox[w] \in Seq(Jobs) /\ inbox[w] # <<>> /\ Len(inbox[w]) <= Concurrency
    BY <1>6 DEF Take, TypeOK, StreamTypeOK
  <2>2. Head(inbox[w]) \in Jobs /\ Tail(inbox[w]) \in Seq(Jobs) /\ Len(Tail(inbox[w])) <= Concurrency
    BY <2>1, Constants
  <2>3. inbox' \in [Workers -> Seq(Jobs)] /\ \A x \in Workers : Len(inbox'[x]) <= Concurrency
    BY <1>6, <2>2 DEF Take, TypeOK, StreamTypeOK
  <2>4. task' \in [Workers -> Jobs \cup {None}]
    BY <1>6, <2>2 DEF Take, TypeOK, StreamTypeOK
  <2> QED BY <1>6, <2>3, <2>4 DEF TypeOK, StreamTypeOK
<1>7. ASSUME NEW w \in Workers, TaskSucceeds(w), troubles' \in 0..MaxTroubles PROVE StreamTypeOK'
  <2>1. task[w] \in Jobs
    BY <1>7 DEF TaskSucceeds, TypeOK, StreamTypeOK
  <2>2. stream' \in [Jobs -> {"new", "stored", "gone"}] /\ outstanding' \subseteq Jobs /\ late' \subseteq Jobs
    BY <1>7, <2>1 DEF TaskSucceeds, Acknowledged, TypeOK, StreamTypeOK
  <2> QED BY <1>7, <2>2 DEF TaskSucceeds, TypeOK, StreamTypeOK
<1>8. ASSUME NEW w \in Workers, TaskFails(w), troubles' \in 0..MaxTroubles PROVE StreamTypeOK'
  BY <1>8 DEF TaskFails, TypeOK, StreamTypeOK
<1> QED BY <1>1, <1>2, <1>3, <1>4, <1>5, <1>6, <1>7, <1>8 DEF StreamStep

\* A task ends by returning, which leaves its worker ready for the next.
LEMMA ReturnTypes ==
  ASSUME TypeOK, NEW w \in Workers, Returns(w), troubles' \in 0..MaxTroubles
  PROVE  /\ StreamTypeOK' /\ step' \in [Workers -> {"read", "send", "delete", "invalid"}]
         /\ seen' \in [Workers -> Versions \cup {None}]
BY StreamTypes DEF Returns, Rewind, TypeOK

LEMMA GoTypes ==
  ASSUME TypeOK, NEW w \in Workers, NEW s \in {"read", "send", "delete", "invalid"}, Goes(w, s),
         troubles' \in 0..MaxTroubles
  PROVE  /\ StreamTypeOK' /\ step' \in [Workers -> {"read", "send", "delete", "invalid"}]
         /\ seen' \in [Workers -> Versions \cup {None}]
BY DEF Goes, workVars, TypeOK, StreamTypeOK

LEMMA TypeOfSaves ==
  ASSUME TypeOK, Cancel \/ \E v \in Versions : BeginSave(v) \/ Store(v) \/ Publish(v)
  PROVE  TypeOK'
<1> USE DEF streamVars, workVars, Versions, Statuses
<1>1. ASSUME NEW v \in Versions, BeginSave(v) PROVE TypeOK'
  <2>1. time' \in [Versions -> Versions \cup {None}]
    BY <1>1, Constants DEF BeginSave, TypeOK
  <2> QED BY <1>1, <2>1 DEF BeginSave, TypeOK, StreamTypeOK
<1>2. ASSUME NEW v \in Versions, Store(v) PROVE TypeOK'
  BY <1>2 DEF Store, TypeOK, StreamTypeOK
<1>3. ASSUME NEW v \in Versions, Publish(v) PROVE TypeOK'
  <2>1. troubles' \in 0..MaxTroubles
    BY <1>3, TroubleType DEF Publish, TypeOK, StreamTypeOK
  <2>2. stream \in [Jobs -> {"new", "stored", "gone"}] /\ (stream' = stream \/ Published(v))
    BY <1>3 DEF Publish, TypeOK, StreamTypeOK
  <2>3. stream' \in [Jobs -> {"new", "stored", "gone"}]
    BY <2>2 DEF Published
  <2>4. save' \in [Versions -> {"unused", "begun", "stored", "done", "failed"}]
    BY <1>3 DEF Publish, TypeOK
  <2>5. UNCHANGED <<deliveries, outstanding, inbox, task, running, late, row, time, step, seen, sent, cancel,
                    faulted>>
    BY <1>3 DEF Publish
  <2>6. StreamTypeOK'
    BY <2>1, <2>3, <2>5 DEF TypeOK, StreamTypeOK
  <2> QED BY <2>4, <2>5, <2>6 DEF TypeOK
<1>4. CASE Cancel
  BY <1>4 DEF Cancel, TypeOK, StreamTypeOK
<1> QED BY <1>1, <1>2, <1>3, <1>4

LEMMA TypeOfRuns ==
  ASSUME TypeOK, SaveInv, WorkInv, Stream \/ \E w \in Workers : Working(w) \/ Dies(w)
  PROVE  TypeOK'
<1> USE DEF api
<1>0. troubles \in 0..MaxTroubles /\ \A w \in Workers : seen[w] \in Versions \cup {None}
  BY DEF TypeOK, StreamTypeOK
<1>1. CASE Stream
  BY <1>1, StreamTypes DEF Stream, TypeOK
<1>2. ASSUME NEW w \in Workers, Dies(w) PROVE TypeOK'
  <2>1. StreamTypeOK'
    BY <1>2, StreamTypes DEF Dies
  <2> QED BY <1>2, <2>1 DEF Dies, Rewind, TypeOK
<1>3. ASSUME NEW w \in Workers, Execute(w) PROVE TypeOK'
  <2>1. StreamTypeOK'
    BY <1>3, StreamTypes DEF Execute
  <2> QED BY <1>3, <2>1 DEF Execute, TypeOK
<1>4. ASSUME NEW w \in Workers, ReadRow(w) PROVE TypeOK'
  <2>1. troubles' \in 0..MaxTroubles
    BY <1>0, <1>4, TroubleType DEF ReadRow, streamVars
  <2>2. CASE (TaskSucceeds(w) \/ TaskFails(w)) /\ UNCHANGED <<step, seen>>
    <3>1. StreamTypeOK'
      BY <2>1, <2>2, StreamTypes
    <3> QED BY <1>4, <2>2, <3>1 DEF ReadRow, TypeOK
  <2>3. CASE /\ StillWanted(task[w]) /\ seen' = [seen EXCEPT ![w] = row.version]
             /\ step' = [step EXCEPT ![w] = "send"] /\ UNCHANGED streamVars
    <3>1. row.version \in Versions \cup {None}
      BY <2>3 DEF StillWanted, TypeOK
    <3>2. seen' \in [Workers -> Versions \cup {None}]
      BY <2>3, <3>1 DEF TypeOK
    <3>3. step' \in [Workers -> {"read", "send", "delete", "invalid"}]
      BY <2>3 DEF TypeOK
    <3>4. StreamTypeOK'
      BY <2>3 DEF streamVars, workVars, TypeOK, StreamTypeOK
    <3> QED BY <1>4, <3>2, <3>3, <3>4 DEF ReadRow, TypeOK
  <2> QED BY <1>4, <2>2, <2>3 DEF ReadRow
<1>5. ASSUME NEW w \in Workers, WriteFails(w), seen[w] # None
      PROVE  troubles' \in 0..MaxTroubles /\ faulted' \subseteq Versions
  BY <1>0, <1>5, TroubleType DEF WriteFails, TypeOK
<1>6. ASSUME NEW w \in Workers, step[w] # "read" PROVE seen[w] \in Versions
  BY <1>0, <1>6 DEF WorkInv
<1>7. ASSUME NEW w \in Workers, SendMessage(w) PROVE TypeOK'
  <2>1. seen[w] \in Versions /\ seen[w] # None
    BY <1>6, <1>7 DEF SendMessage, AtStep, WorkInv
  <2>2. troubles' \in 0..MaxTroubles /\ faulted' \subseteq Versions
    BY <1>0, <1>5, <1>7, <2>1 DEF SendMessage, TypeOK
  <2>3. sent' \in [Versions -> Nat]
    BY <1>7, <2>1 DEF SendMessage, Posted, TypeOK
  <2>4. /\ StreamTypeOK' /\ step' \in [Workers -> {"read", "send", "delete", "invalid"}]
        /\ seen' \in [Workers -> Versions \cup {None}]
    BY <1>7, <2>2, GoTypes DEF SendMessage
  <2> QED BY <1>7, <2>2, <2>3, <2>4 DEF SendMessage, TypeOK
<1>8. ASSUME NEW w \in Workers, DeleteRow(w) PROVE TypeOK'
  <2>1. seen[w] \in Versions /\ seen[w] # None
    BY <1>6, <1>8 DEF DeleteRow, AtStep, WorkInv
  <2>2. troubles' \in 0..MaxTroubles /\ faulted' \subseteq Versions
    BY <1>0, <1>5, <1>8, <2>1 DEF DeleteRow, TypeOK
  <2>3. /\ StreamTypeOK' /\ step' \in [Workers -> {"read", "send", "delete", "invalid"}]
        /\ seen' \in [Workers -> Versions \cup {None}]
    BY <1>8, <2>2, GoTypes, ReturnTypes DEF DeleteRow
  <2>4. row' \in {row, NoRow}
    BY <1>8 DEF DeleteRow
  <2> QED BY <1>8, <2>2, <2>3, <2>4 DEF DeleteRow, TypeOK
<1>9. ASSUME NEW w \in Workers, MarkInvalid(w) PROVE TypeOK'
  <2>1. seen[w] \in Versions /\ seen[w] # None
    BY <1>6, <1>9 DEF MarkInvalid, AtStep, WorkInv
  <2>2. troubles' \in 0..MaxTroubles /\ faulted' \subseteq Versions
    BY <1>0, <1>5, <1>9, <2>1 DEF MarkInvalid, TypeOK
  <2>3. /\ StreamTypeOK' /\ step' \in [Workers -> {"read", "send", "delete", "invalid"}]
        /\ seen' \in [Workers -> Versions \cup {None}]
    BY <1>9, <2>2, ReturnTypes DEF MarkInvalid
  <2>4. Patched(row) \in [version : Versions \cup {None}, status : Statuses]
    BY DEF Patched, Statuses, TypeOK
  <2>5. row' \in {row, Patched(row)}
    BY <1>9 DEF MarkInvalid
  <2> QED BY <1>9, <2>2, <2>3, <2>4, <2>5 DEF MarkInvalid, TypeOK
<1> QED BY <1>1, <1>2, <1>3, <1>4, <1>7, <1>8, <1>9 DEF Working

-----------------------------------------------------------------------------
(* A job that was not late is held once.                                   *)

LEMMA InAppend ==
  ASSUME NEW s \in Seq(Jobs), NEW j
  PROVE  /\ In(Append(s, j), j)
         /\ \A x : x # j => (In(Append(s, j), x) <=> In(s, x)) /\ (Single(s, x) => Single(Append(s, j), x))
         /\ ~In(s, j) => Single(Append(s, j), j)
<1>1. /\ DOMAIN s = 1..Len(s) /\ Len(s) \in Nat /\ DOMAIN Append(s, j) = 1..(Len(s) + 1)
      /\ Append(s, j)[Len(s) + 1] = j /\ \A i \in 1..Len(s) : Append(s, j)[i] = s[i]
  OBVIOUS
<1> DEFINE t == Append(s, j)
<1> HIDE DEF t
<1>2. /\ \A i \in DOMAIN t : (i \in DOMAIN s /\ t[i] = s[i]) \/ (i = Len(s) + 1 /\ t[i] = j)
      /\ \A i \in DOMAIN s : i \in DOMAIN t /\ t[i] = s[i]
      /\ Len(s) + 1 \in DOMAIN t /\ t[Len(s) + 1] = j
  BY <1>1 DEF t
<1>3. In(t, j)
  BY <1>2 DEF In
<1>4. ASSUME NEW x, x # j PROVE (In(t, x) <=> In(s, x)) /\ (Single(s, x) => Single(t, x))
  BY <1>2, <1>4 DEF In, Single
<1>5. ~In(s, j) => Single(t, j)
  BY <1>2 DEF In, Single
<1> QED BY <1>3, <1>4, <1>5 DEF t

LEMMA InTail ==
  ASSUME NEW s \in Seq(Jobs), s # <<>>
  PROVE  /\ In(s, Head(s)) /\ (Single(s, Head(s)) => ~In(Tail(s), Head(s)))
         /\ \A x : (In(Tail(s), x) => In(s, x)) /\ (Single(s, x) => Single(Tail(s), x))
<1>1. /\ DOMAIN Tail(s) = 1..(Len(s) - 1) /\ DOMAIN s = 1..Len(s) /\ Len(s) \in Nat
      /\ \A i \in 1..(Len(s) - 1) : Tail(s)[i] = s[i + 1]
      /\ 1 \in DOMAIN s /\ Head(s) = s[1]
  OBVIOUS
<1>2. \A i \in DOMAIN Tail(s) : i + 1 \in DOMAIN s /\ s[i + 1] = Tail(s)[i] /\ i + 1 # 1 /\ i \in Int
  BY <1>1
<1>3. In(s, Head(s)) /\ (Single(s, Head(s)) => ~In(Tail(s), Head(s)))
  BY <1>1, <1>2 DEF In, Single
<1>4. ASSUME NEW x PROVE In(Tail(s), x) => In(s, x)
  BY <1>2 DEF In
<1>5. ASSUME NEW x, Single(s, x) PROVE Single(Tail(s), x)
  <2> SUFFICES ASSUME NEW i \in DOMAIN Tail(s), NEW k \in DOMAIN Tail(s), Tail(s)[i] = x, Tail(s)[k] = x
               PROVE  i = k
    BY DEF Single
  <2>1. i + 1 = k + 1
    BY <1>2, <1>5 DEF Single
  <2> QED BY <1>2, <2>1
<1> QED BY <1>3, <1>4, <1>5

LEMMA HoldsIn ==
  ASSUME NEW w, NEW j
  PROVE  (Holds(w, j) <=> task[w] = j \/ In(inbox[w], j))
         /\ (Holds(w, j)' <=> task'[w] = j \/ In(inbox'[w], j))
BY DEF Holds, In

\* Nobody holds a job who did not hold it.
LEMMA CopyShrink ==
  ASSUME CopyInv, late \subseteq late',
         \A w \in Workers, j \in Jobs :
           /\ Holds(w, j)' => Holds(w, j) /\ stream'[j] # "new"
           /\ j \notin late' /\ Holds(w, j)' => j \in outstanding' /\ stream'[j] = "stored"
           /\ HoldsOne(w, j) => HoldsOne(w, j)'
  PROVE  CopyInv'
<1> SUFFICES ASSUME NEW j \in Jobs
             PROVE  /\ \A w \in Workers : Holds(w, j)' => stream'[j] # "new"
                    /\ j \notin late' =>
                         /\ \A w \in Workers : Holds(w, j)' => j \in outstanding' /\ stream'[j] = "stored"
                         /\ \A w, x \in Workers : Holds(w, j)' /\ Holds(x, j)' => w = x
                         /\ \A w \in Workers : HoldsOne(w, j)'
  BY DEF CopyInv
<1>1. j \notin late' => j \notin late
  OBVIOUS
<1> QED BY <1>1 DEF CopyInv

LEMMA CopyDeliver ==
  ASSUME TypeOK, CopyInv, NEW v \in Workers, NEW k \in Jobs, Deliver(v, k)
  PROVE  CopyInv'
<1>1. /\ stream[k] = "stored" /\ k \notin outstanding /\ outstanding' = outstanding \cup {k}
      /\ UNCHANGED <<stream, task, late>> /\ inbox[v] \in Seq(Jobs) /\ v \in DOMAIN inbox
      /\ inbox' = [inbox EXCEPT ![v] = Append(@, k)]
  BY DEF Deliver, Deliverable, TypeOK, StreamTypeOK
<1>2. inbox'[v] = Append(inbox[v], k) /\ \A w \in Workers : w # v => inbox'[w] = inbox[w]
  BY <1>1 DEF TypeOK, StreamTypeOK
<1>3. ASSUME NEW w \in Workers, NEW j \in Jobs, w # v \/ j # k
      PROVE  (Holds(w, j)' <=> Holds(w, j)) /\ (HoldsOne(w, j) => HoldsOne(w, j)')
  <2>1. (In(inbox'[w], j) <=> In(inbox[w], j)) /\ (Single(inbox[w], j) => Single(inbox'[w], j))
    <3>1. CASE w # v
      BY <1>2, <3>1
    <3>2. CASE w = v /\ j # k
      BY <1>1, <1>2, <3>2, InAppend
    <3> QED BY <1>3, <3>1, <3>2
  <2>2. task'[w] = task[w]
    BY <1>1
  <2> QED BY <2>1, <2>2, HoldsIn DEF HoldsOne
<1>4. ASSUME k \notin late, NEW w \in Workers PROVE ~Holds(w, k)
  BY <1>1, <1>4 DEF CopyInv
<1>5. k \notin late => HoldsOne(v, k)'
  <2> SUFFICES ASSUME k \notin late PROVE HoldsOne(v, k)'
    OBVIOUS
  <2>1. task[v] # k /\ ~In(inbox[v], k)
    BY <1>4, HoldsIn
  <2>2. Single(inbox'[v], k)
    BY <1>1, <1>2, <2>1, InAppend
  <2> QED BY <1>1, <2>1, <2>2 DEF HoldsOne
<1> SUFFICES ASSUME NEW j \in Jobs
             PROVE  /\ \A w \in Workers : Holds(w, j)' => stream'[j] # "new"
                    /\ j \notin late' =>
                         /\ \A w \in Workers : Holds(w, j)' => j \in outstanding' /\ stream'[j] = "stored"
                         /\ \A w, x \in Workers : Holds(w, j)' /\ Holds(x, j)' => w = x
                         /\ \A w \in Workers : HoldsOne(w, j)'
  BY DEF CopyInv
<1>6. CASE j # k
  BY <1>1, <1>3, <1>6 DEF CopyInv
<1>7. CASE j = k
  <2>1. ASSUME k \notin late PROVE \A w \in Workers : (Holds(w, k)' => w = v) /\ HoldsOne(w, k)'
    BY <1>3, <1>4, <1>5, <2>1 DEF CopyInv
  <2> QED BY <1>1, <1>7, <2>1
<1> QED BY <1>6, <1>7

\* What the workers and the server do with jobs that are held.
LEMMA CopyStream ==
  ASSUME TypeOK, CopyInv,
         \/ StreamStep
         \/ \E w \in Workers : WorkerDies(w) \/ TaskSucceeds(w) \/ TaskFails(w)
         \/ \E w \in Workers : Take(w) /\ UNCHANGED <<stream, outstanding, late>>
  PROVE  CopyInv'
<1>0. /\ inbox \in [Workers -> Seq(Jobs)] /\ task \in [Workers -> Jobs \cup {None}]
      /\ stream \in [Jobs -> {"new", "stored", "gone"}] /\ None \notin Jobs
  BY Constants DEF TypeOK, StreamTypeOK
<1>1. ASSUME UNCHANGED <<inbox, task>>, NEW w, NEW j
      PROVE  (Holds(w, j)' <=> Holds(w, j)) /\ (HoldsOne(w, j)' <=> HoldsOne(w, j))
  BY <1>1 DEF Holds, HoldsOne
\* A worker puts down what it holds, or some of it.
<1>2. ASSUME NEW v \in Workers, inbox' = [inbox EXCEPT ![v] = <<>>] \/ inbox' = inbox,
             task' = task \/ task' = [task EXCEPT ![v] = None],
             NEW w \in Workers, NEW j \in Jobs
      PROVE  /\ Holds(w, j)' => Holds(w, j)
             /\ w # v => (Holds(w, j)' <=> Holds(w, j))
             /\ HoldsOne(w, j) => HoldsOne(w, j)'
  <2>1. ~In(<<>>, j) /\ Single(<<>>, j)
    BY DEF In, Single
  <2>2. (inbox'[w] = inbox[w] \/ inbox'[w] = <<>>) /\ (w # v => inbox'[w] = inbox[w])
    BY <1>0, <1>2
  <2>3. (task'[w] = task[w] \/ task'[w] # j) /\ (w # v => task'[w] = task[w])
    BY <1>0, <1>2
  <2> QED BY <2>1, <2>2, <2>3, HoldsIn DEF HoldsOne
<1>3. ASSUME NEW v \in Workers, NEW j \in Jobs, Deliver(v, j) PROVE CopyInv'
  BY <1>3, CopyDeliver
<1>4. ASSUME NEW k \in Jobs, AckWaitEnds(k) PROVE CopyInv'
  <2>1. UNCHANGED <<inbox, task, stream>> /\ late' = late \cup {k} /\ outstanding' = outstanding \ {k}
    BY <1>4 DEF AckWaitEnds
  <2>2. \A w \in Workers, j \in Jobs :
           /\ Holds(w, j)' => Holds(w, j) /\ stream'[j] # "new"
           /\ j \notin late' /\ Holds(w, j)' => j \in outstanding' /\ stream'[j] = "stored"
           /\ HoldsOne(w, j) => HoldsOne(w, j)'
    BY <1>1, <2>1 DEF CopyInv
  <2> QED BY <2>1, <2>2, CopyShrink
<1>5. ASSUME NEW v \in Workers, StartWorker(v) PROVE CopyInv'
  <2>1. UNCHANGED <<inbox, task, stream, late, outstanding>>
    BY <1>5 DEF StartWorker
  <2> QED BY <1>1, <2>1 DEF CopyInv
<1>6. ASSUME NEW v \in Workers, StopWorker(v) \/ WorkerDies(v) PROVE CopyInv'
  <2>1. /\ UNCHANGED <<stream, outstanding>> /\ inbox' = [inbox EXCEPT ![v] = <<>>] /\ late \subseteq late'
        /\ task' = task \/ task' = [task EXCEPT ![v] = None]
    BY <1>6 DEF StopWorker, WorkerDies
  <2>2. \A w \in Workers, j \in Jobs :
           /\ Holds(w, j)' => Holds(w, j) /\ stream'[j] # "new"
           /\ j \notin late' /\ Holds(w, j)' => j \in outstanding' /\ stream'[j] = "stored"
           /\ HoldsOne(w, j) => HoldsOne(w, j)'
    BY <1>2, <2>1 DEF CopyInv
  <2> QED BY <2>1, <2>2, CopyShrink
<1>7. ASSUME NEW v \in Workers, TaskSucceeds(v) \/ TaskFails(v) PROVE CopyInv'
  <2>0. PICK k \in Jobs : k = task[v]
    BY <1>0, <1>7 DEF TaskSucceeds, TaskFails
  <2>1. inbox' = inbox /\ task' = [task EXCEPT ![v] = None]
    BY <1>7 DEF TaskSucceeds, TaskFails
  <2>2. /\ late \subseteq late'
        /\ \A j \in Jobs : j # k => stream'[j] = stream[j] /\ (j \in outstanding' <=> j \in outstanding)
        /\ stream'[k] = stream[k] \/ stream'[k] = "gone"
    BY <1>0, <1>7, <2>0 DEF TaskSucceeds, TaskFails, Acknowledged
  <2>3. Holds(v, k)
    BY <2>0 DEF Holds
  <2>4. ASSUME k \notin late' PROVE \A w \in Workers : ~Holds(w, k)'
    <3>1. HoldsOne(v, k) /\ \A w \in Workers : Holds(w, k) => w = v
      BY <2>1, <2>2, <2>3, <2>4 DEF CopyInv
    <3>2. task'[v] # k /\ ~In(inbox'[v], k)
      BY <1>0, <2>0, <2>1, <3>1 DEF HoldsOne
    <3>3. \A w \in Workers : Holds(w, k)' => Holds(w, k)
      BY <1>2, <2>1
    <3> QED BY <3>1, <3>2, <3>3, HoldsIn
  <2>5. stream[k] # "new"
    BY <2>1, <2>3 DEF CopyInv
  <2>6. ASSUME NEW w \in Workers, NEW j \in Jobs
        PROVE  /\ Holds(w, j)' => Holds(w, j) /\ stream'[j] # "new"
               /\ j \notin late' /\ Holds(w, j)' => j \in outstanding' /\ stream'[j] = "stored"
               /\ HoldsOne(w, j) => HoldsOne(w, j)'
    <3>1. (Holds(w, j)' => Holds(w, j)) /\ (HoldsOne(w, j) => HoldsOne(w, j)')
      BY <1>2, <2>1
    <3>2. CASE j = k
      BY <2>2, <2>4, <2>5, <3>1, <3>2
    <3>3. CASE j # k
      BY <2>2, <3>1, <3>3 DEF CopyInv
    <3> QED BY <3>1, <3>2, <3>3
  <2> QED BY <2>2, <2>6, CopyShrink
<1>8. ASSUME NEW v \in Workers, Take(v), UNCHANGED <<stream, outstanding, late>> PROVE CopyInv'
  <2>1. /\ inbox[v] \in Seq(Jobs) /\ inbox[v] # <<>> /\ task[v] = None
        /\ task' = [task EXCEPT ![v] = Head(inbox[v])] /\ inbox' = [inbox EXCEPT ![v] = Tail(@)]
    BY <1>0, <1>8 DEF Take
  <2>2. ASSUME NEW w \in Workers, NEW j \in Jobs
        PROVE  (Holds(w, j)' => Holds(w, j)) /\ (HoldsOne(w, j) => HoldsOne(w, j)')
    <3>1. CASE w # v
      <4>1. task'[w] = task[w] /\ inbox'[w] = inbox[w]
        BY <1>0, <2>1, <3>1
      <4> QED BY <4>1, HoldsIn DEF HoldsOne
    <3>2. CASE w = v
      <4>1. task'[w] = Head(inbox[w]) /\ inbox'[w] = Tail(inbox[w])
        BY <1>0, <2>1, <3>2
      <4>2. /\ In(inbox[w], Head(inbox[w]))
            /\ Single(inbox[w], Head(inbox[w])) => ~In(Tail(inbox[w]), Head(inbox[w]))
            /\ In(Tail(inbox[w]), j) => In(inbox[w], j)
            /\ Single(inbox[w], j) => Single(Tail(inbox[w]), j)
        BY <2>1, <3>2, InTail
      <4> QED BY <4>1, <4>2, HoldsIn DEF HoldsOne
    <3> QED BY <3>1, <3>2
  <2>3. \A w \in Workers, j \in Jobs :
           /\ Holds(w, j)' => Holds(w, j) /\ stream'[j] # "new"
           /\ j \notin late' /\ Holds(w, j)' => j \in outstanding' /\ stream'[j] = "stored"
           /\ HoldsOne(w, j) => HoldsOne(w, j)'
    BY <1>8, <2>2 DEF CopyInv
  <2> QED BY <1>8, <2>3, CopyShrink
<1> QED BY <1>3, <1>4, <1>5, <1>6, <1>7, <1>8 DEF StreamStep

-----------------------------------------------------------------------------
(* The steps, for the saves and for the runs.                              *)

\* Which job a worker runs for a version that no other save shares a time with.
LEMMA OwnJob ==
  ASSUME TypeOK, RunInv, NEW w \in Workers, step[w] # "read"
  PROVE  /\ task[w] \in Jobs /\ seen[w] \in Versions /\ Holds(w, task[w])
         /\ \A v \in Versions : seen[w] = v \/ task[w] = v => Excused(v) \/ (seen[w] = v /\ task[w] = v)
<1>1. /\ task[w] # None /\ seen[w] # None /\ time[seen[w]] = time[task[w]]
  BY DEF RunInv, WorkInv
<1>2. task[w] \in Jobs /\ seen[w] \in Versions
  BY <1>1 DEF TypeOK, StreamTypeOK
<1> QED BY <1>1, <1>2 DEF Holds, Excused, SharesTime, Versions

\* An excuse stays one.
LEMMA StillExcused ==
  ASSUME late \subseteq late', faulted \subseteq faulted', NEW v, Excused(v),
         SharesTime(v) => SharesTime(v)'
  PROVE  Excused(v)'
BY DEF Excused

LEMMA SameTimes ==
  ASSUME time' = time, late \subseteq late', faulted \subseteq faulted', NEW v, Excused(v)
  PROVE  Excused(v)'
BY DEF Excused, SharesTime

LEMMA SaveSteps ==
  ASSUME TypeOK, RunInv, Cancel \/ \E v \in Versions : BeginSave(v) \/ Store(v) \/ Publish(v)
  PROVE  RunInv'
<1> USE DEF streamVars, workVars
<1>1. ASSUME NEW v \in Versions, BeginSave(v) PROVE RunInv'
  <2>1. /\ save[v] = "unused" /\ save' = [save EXCEPT ![v] = "begun"]
        /\ UNCHANGED <<stream, outstanding, inbox, task, late, row, step, seen, sent, faulted>>
    BY <1>1 DEF BeginSave
  <2>2. PICK t \in 1..v : time' = [time EXCEPT ![v] = t]
    BY <1>1 DEF BeginSave
  <2>3. t \in Versions /\ t # None
    BY <2>2, Constants DEF Versions
  <2>4. /\ time'[v] # None /\ save'[v] = "begun" /\ time[v] = None /\ sent[v] = 0
        /\ \A u \in Versions : u # v => time'[u] = time[u] /\ save'[u] = save[u]
    BY <2>1, <2>2, <2>3 DEF TypeOK, RunInv, SaveInv
  <2>5. CopyInv'
    BY <2>1 DEF RunInv, CopyInv, Holds, HoldsOne
  <2>6. SaveInv'
    <3>1. \A u \in Versions :
            /\ save'[u] = "unused" <=> time'[u] = None
            /\ save'[u] = "unused" => sent'[u] = 0
            /\ save'[u] \in {"unused", "begun", "stored"} => stream'[u] = "new"
            /\ save'[u] = "done" => stream'[u] # "new"
      BY <2>1, <2>4 DEF RunInv, SaveInv
    <3>2. row # NoRow => /\ row.status = "pending" => row.version # None
                         /\ row.version # None => save'[row.version] # "unused"
      <4>1. row # NoRow /\ row.version # None => row.version \in Versions
        BY DEF TypeOK
      <4> QED BY <2>1, <2>4, <4>1 DEF RunInv, SaveInv
    <3> QED BY <2>1, <3>1, <3>2 DEF SaveInv
  <2>7. WorkInv'
    <3> SUFFICES ASSUME NEW w \in Workers, step[w] # "read"
                 PROVE  /\ task[w] # None /\ seen[w] # None
                        /\ time'[seen[w]] = time'[task[w]] /\ save'[seen[w]] # "unused"
      BY <2>1 DEF WorkInv
    <3>1. /\ task[w] \in Jobs /\ seen[w] \in Versions /\ Holds(w, task[w])
          /\ task[w] # None /\ seen[w] # None
          /\ time[seen[w]] = time[task[w]] /\ save[seen[w]] # "unused"
      BY OwnJob DEF RunInv, WorkInv
    <3>2. stream[task[w]] # "new" /\ stream[v] = "new"
      BY <2>1, <3>1 DEF RunInv, CopyInv, SaveInv
    <3>3. task[w] # v /\ seen[w] # v
      BY <2>1, <3>1, <3>2
    <3> QED BY <2>4, <3>1, <3>3 DEF Versions
  <2>8. ASSUME NEW u \in Versions, u # v, Excused(u), time[u] # None PROVE Excused(u)'
    <3>1. ASSUME SharesTime(u) PROVE SharesTime(u)'
      <4>1. PICK x \in Versions \ {u} : time[x] = time[u]
        BY <3>1 DEF SharesTime
      <4>2. x # v
        BY <2>4, <2>8, <4>1
      <4> QED BY <2>4, <2>8, <4>1, <4>2 DEF SharesTime
    <3> QED BY <2>1, <2>8, <3>1, StillExcused
  <2>9. \A u \in Versions : sent[u] > 0 => u # v /\ time[u] # None
    BY <2>4 DEF TypeOK, RunInv, SaveInv
  <2>10. PostInv'
    BY <2>1, <2>8, <2>9 DEF RunInv, PostInv, RowIs
  <2>11. \A u \in Versions : stream[u] = "gone" => u # v /\ time[u] # None
    BY <2>1 DEF RunInv, SaveInv
  <2>12. PendInv'
    BY <2>1, <2>8, <2>11 DEF RunInv, PendInv, RowIs
  <2> QED BY <2>5, <2>6, <2>7, <2>10, <2>12 DEF RunInv
<1>2. ASSUME NEW v \in Versions, Store(v) PROVE RunInv'
  <2> DEFINE r == [version |-> v, status |-> "pending"]
  <2>1. /\ save[v] = "begun" /\ row' = r /\ save' = [save EXCEPT ![v] = "stored"]
        /\ UNCHANGED <<stream, outstanding, inbox, task, late, time, step, seen, sent, faulted>>
    BY <1>2 DEF Store
  <2>2. r.version = v /\ r.status = "pending" /\ v # None
    BY Constants DEF Versions
  <2> HIDE DEF r
  <2>3. save'[v] = "stored" /\ \A u \in Versions : u # v => save'[u] = save[u]
    BY <2>1 DEF TypeOK
  <2>4. stream[v] = "new"
    BY <2>1 DEF RunInv, SaveInv
  <2>5. CopyInv'
    BY <2>1 DEF RunInv, CopyInv, Holds, HoldsOne
  <2>6. SaveInv'
    <3>1. \A u \in Versions :
            /\ save'[u] = "unused" <=> time[u] = None
            /\ save'[u] = "unused" => sent[u] = 0
            /\ save'[u] \in {"unused", "begun", "stored"} => stream[u] = "new"
            /\ save'[u] = "done" => stream[u] # "new"
      BY <2>1, <2>3 DEF RunInv, SaveInv
    <3> QED BY <2>1, <2>2, <2>3, <3>1 DEF SaveInv
  <2>7. WorkInv'
    <3>1. \A w \in Workers : step[w] # "read" => save'[seen[w]] # "unused"
      BY <2>3, OwnJob DEF RunInv, WorkInv
    <3> QED BY <2>1, <3>1 DEF RunInv, WorkInv
  <2>8. \A u : Excused(u)' <=> Excused(u)
    BY <2>1 DEF Excused, SharesTime
  <2>9. \A u \in Versions : stream[u] = "gone" => u # v /\ ~RowIs(u)'
    BY <2>1, <2>2, <2>4 DEF RowIs
  <2>10. PostInv'
    BY <2>1, <2>8, <2>9 DEF RunInv, PostInv
  <2>11. PendInv'
    BY <2>1, <2>9 DEF PendInv
  <2> QED BY <2>5, <2>6, <2>7, <2>10, <2>11 DEF RunInv
<1>3. ASSUME NEW v \in Versions, Publish(v) PROVE RunInv'
  <2>1. /\ save[v] = "stored"
        /\ \/ stream' = [stream EXCEPT ![v] = "stored"] /\ save' = [save EXCEPT ![v] = "done"]
           \/ /\ stream' = stream \/ stream' = [stream EXCEPT ![v] = "stored"]
              /\ save' = [save EXCEPT ![v] = "failed"]
        /\ UNCHANGED <<outstanding, inbox, task, late, row, time, step, seen, sent, faulted>>
    BY <1>3 DEF Publish, Published
  <2>2. /\ \A u \in Versions : u # v => stream'[u] = stream[u] /\ save'[u] = save[u]
        /\ stream[v] = "new" /\ save'[v] \in {"done", "failed"} /\ stream'[v] \in {"new", "stored"}
        /\ save'[v] = "done" => stream'[v] = "stored"
    BY <2>1 DEF RunInv, SaveInv, TypeOK, StreamTypeOK, Versions
  <2>3. \A w \in Workers : ~Holds(w, v)
    BY <2>2 DEF RunInv, CopyInv, Versions
  <2>4. CopyInv'
    BY <2>1, <2>2, <2>3 DEF RunInv, CopyInv, Holds, HoldsOne, Versions
  <2>5. SaveInv'
    <3>1. \A u \in Versions :
            /\ save'[u] = "unused" <=> time[u] = None
            /\ save'[u] = "unused" => sent[u] = 0
            /\ save'[u] \in {"unused", "begun", "stored"} => stream'[u] = "new"
            /\ save'[u] = "done" => stream'[u] # "new"
      BY <2>1, <2>2 DEF RunInv, SaveInv
    <3>2. row # NoRow => /\ row.status = "pending" => row.version # None
                         /\ row.version # None => save'[row.version] # "unused"
      <4>1. row # NoRow /\ row.version # None => row.version \in Versions
        BY DEF TypeOK
      <4> QED BY <2>2, <4>1 DEF RunInv, SaveInv
    <3> QED BY <2>1, <3>1, <3>2 DEF SaveInv
  <2>6. WorkInv'
    <3>1. \A w \in Workers : step[w] # "read" => save'[seen[w]] # "unused"
      BY <2>2, OwnJob DEF RunInv, WorkInv
    <3> QED BY <2>1, <3>1 DEF RunInv, WorkInv
  <2>7. \A u : (Excused(u)' <=> Excused(u)) /\ (RowIs(u)' <=> RowIs(u))
    BY <2>1 DEF Excused, SharesTime, RowIs
  <2>8. \A u \in Versions : stream'[u] = "gone" <=> stream[u] = "gone"
    BY <2>2
  <2>9. PostInv'
    BY <2>1, <2>7, <2>8 DEF RunInv, PostInv
  <2>10. PendInv'
    BY <2>1, <2>7, <2>8 DEF RunInv, PendInv
  <2> QED BY <2>4, <2>5, <2>6, <2>9, <2>10 DEF RunInv
<1>4. CASE Cancel
  <2>1. /\ row' = NoRow
        /\ UNCHANGED <<stream, outstanding, inbox, task, late, time, save, step, seen, sent, faulted>>
    BY <1>4 DEF Cancel
  <2>2. CopyInv' /\ WorkInv' /\ SaveInv'
    BY <2>1 DEF RunInv, CopyInv, Holds, HoldsOne, WorkInv, SaveInv
  <2>3. \A u : (Excused(u)' <=> Excused(u)) /\ ~RowIs(u)'
    BY <2>1 DEF Excused, SharesTime, RowIs
  <2>4. PostInv' /\ PendInv'
    BY <2>1, <2>3 DEF RunInv, PostInv, PendInv
  <2> QED BY <2>2, <2>4 DEF RunInv
<1> QED BY <1>1, <1>2, <1>3, <1>4

\* What a run does to the row and the stream: it deletes or marks the one, and
\* drops jobs that are in the other.
RunOnly ==
  /\ time' = time /\ save' = save /\ late \subseteq late' /\ faulted \subseteq faulted'
  /\ row' \in {row, NoRow, Patched(row)}
  /\ \A v \in Versions : stream'[v] = stream[v] \/ (stream[v] # "new" /\ stream'[v] = "gone")

LEMMA RowKept ==
  ASSUME RunOnly, NEW v \in Versions, RowIs(v)'
  PROVE  RowIs(v) /\ (row'.status = "pending" => row' = row)
<1>1. v # None
  BY Constants DEF Versions
<1>2. CASE row' = row
  BY <1>2 DEF RowIs
<1>3. CASE row' = Patched(row)
  BY <1>1, <1>3 DEF RowIs, Patched
<1> QED BY <1>2, <1>3 DEF RunOnly, RowIs

LEMMA SaveKept ==
  ASSUME TypeOK, SaveInv, RunOnly, \A v \in Versions : save[v] = "unused" => sent'[v] = sent[v]
  PROVE  SaveInv'
<1>1. \A v \in Versions :
        /\ save'[v] = "unused" <=> time'[v] = None
        /\ save'[v] = "unused" => sent'[v] = 0
        /\ save'[v] \in {"unused", "begun", "stored"} => stream'[v] = "new"
        /\ save'[v] = "done" => stream'[v] # "new"
  BY DEF SaveInv, RunOnly
<1>2. row' # NoRow => /\ row'.status = "pending" => row'.version # None
                      /\ row'.version # None => save'[row'.version] # "unused"
  <2>1. CASE row' = row
    BY <2>1 DEF SaveInv, RunOnly
  <2>2. CASE row' = Patched(row)
    BY <2>2 DEF SaveInv, RunOnly, Patched
  <2> QED BY <2>1, <2>2 DEF RunOnly
<1> QED BY <1>1, <1>2 DEF SaveInv

LEMMA PendKept ==
  ASSUME PendInv, RunOnly,
         \A v \in Versions : stream'[v] # stream[v] /\ RowIs(v) /\ row' = row /\ row.status = "pending" =>
                               Excused(v)'
  PROVE  PendInv'
<1> SUFFICES ASSUME NEW v \in Versions, RowIs(v)', row'.status = "pending", stream'[v] = "gone"
             PROVE  Excused(v)'
  BY DEF PendInv
<1>1. RowIs(v) /\ row' = row
  BY RowKept
<1>2. CASE stream'[v] = stream[v]
  BY <1>1, <1>2, SameTimes DEF PendInv, RunOnly
<1> QED BY <1>1, <1>2

LEMMA PostKept ==
  ASSUME PostInv, RunOnly, sent' = sent,
         \A v \in Versions, w \in Workers : ~Excused(v)' /\ task[w] = v /\ step[w] = "delete" =>
           \/ task'[w] = v /\ step'[w] = "delete"
           \/ stream'[v] = "gone" /\ row' = NoRow
  PROVE  PostInv'
<1> SUFFICES ASSUME NEW v \in Versions, ~Excused(v)', sent[v] > 0
             PROVE  /\ sent[v] = 1
                    /\ \/ stream'[v] = "gone" /\ ~RowIs(v)'
                       \/ \E w \in Workers : task'[w] = v /\ step'[w] = "delete"
  BY DEF PostInv
<1>1. ~Excused(v)
  BY SameTimes DEF RunOnly
<1>2. CASE stream[v] = "gone" /\ ~RowIs(v)
  <2>1. stream'[v] = "gone" /\ ~RowIs(v)'
    BY <1>2, RowKept DEF RunOnly
  <2> QED BY <1>1, <2>1 DEF PostInv
<1>3. ASSUME NEW w \in Workers, task[w] = v, step[w] = "delete"
      PROVE  \/ stream'[v] = "gone" /\ ~RowIs(v)'
             \/ \E x \in Workers : task'[x] = v /\ step'[x] = "delete"
  BY <1>3 DEF RowIs
<1> QED BY <1>1, <1>2, <1>3 DEF PostInv

\* A run returns: its job is dropped, or the answer was lost.
LEMMA ReturnKept ==
  ASSUME TypeOK, RunInv, NEW w \in Workers, TaskSucceeds(w)
  PROVE  /\ task[w] \in Jobs /\ task' = [task EXCEPT ![w] = None] /\ late \subseteq late'
         /\ \A v \in Versions : stream'[v] = stream[v] \/ (stream[v] # "new" /\ stream'[v] = "gone" /\ v = task[w])
         /\ task[w] \notin late' => stream'[task[w]] = "gone"
<1>1. task[w] \in Jobs /\ task' = [task EXCEPT ![w] = None]
  BY DEF TaskSucceeds, TypeOK, StreamTypeOK
<1>2. stream[task[w]] # "new"
  BY <1>1 DEF Holds, RunInv, CopyInv
<1>3. CASE stream' = [stream EXCEPT ![task[w]] = "gone"] /\ late' = late
  BY <1>1, <1>2, <1>3 DEF TypeOK, StreamTypeOK, Versions
<1>4. CASE late' = late \cup {task[w]} /\ stream' = stream
  BY <1>1, <1>4
<1> QED BY <1>3, <1>4 DEF TaskSucceeds, Acknowledged

LEMMA RunSteps ==
  ASSUME TypeOK, RunInv, Stream \/ \E w \in Workers : Working(w) \/ Dies(w)
  PROVE  RunInv'
<1> USE DEF api
<1>0. /\ task \in [Workers -> Jobs \cup {None}]
      /\ step \in [Workers -> {"read", "send", "delete", "invalid"}]
      /\ seen \in [Workers -> Versions \cup {None}]
      /\ sent \in [Versions -> Nat] /\ CopyInv /\ SaveInv /\ WorkInv /\ PostInv /\ PendInv
      /\ \A w \in Workers : task[w] = None => step[w] = "read"
  BY DEF TypeOK, StreamTypeOK, RunInv, WorkInv
<1>1. CASE Stream
  <2>1. /\ UNCHANGED <<stream, time, save, cancel, row, step, seen, sent, faulted>>
        /\ late \subseteq late' /\ task' = task
    <3>1. UNCHANGED <<time, save, cancel, row, step, seen, sent, faulted>>
      BY <1>1 DEF Stream
    <3>2. UNCHANGED <<stream, task>> /\ late \subseteq late'
      BY <1>1 DEF Stream, StreamStep, Deliver, AckWaitEnds, StopWorker, StartWorker
    <3> QED BY <3>1, <3>2
  <2>2. RunOnly
    BY <2>1 DEF RunOnly
  <2>3. CopyInv'
    BY <1>0, <1>1, CopyStream DEF Stream
  <2>4. SaveInv' /\ PendInv' /\ PostInv'
    BY <1>0, <2>1, <2>2, SaveKept, PendKept, PostKept
  <2>5. WorkInv'
    BY <1>0, <2>1 DEF WorkInv
  <2> QED BY <2>3, <2>4, <2>5 DEF RunInv
<1>2. ASSUME NEW w \in Workers, Dies(w) PROVE RunInv'
  <2>1. /\ UNCHANGED <<stream, time, save, row, sent, faulted>>
        /\ late' = late \cup {j \in Jobs : Holds(w, j)}
        /\ task' = [task EXCEPT ![w] = None] /\ step' = [step EXCEPT ![w] = "read"]
        /\ seen' = [seen EXCEPT ![w] = None]
    BY <1>2 DEF Dies, WorkerDies, Rewind
  <2>2. RunOnly
    BY <2>1 DEF RunOnly
  <2>3. CopyInv'
    BY <1>0, <1>2, CopyStream DEF Dies
  <2>4. SaveInv' /\ PendInv'
    BY <1>0, <2>1, <2>2, SaveKept, PendKept
  <2>5. PostInv'
    <3>1. ASSUME NEW v \in Versions, task[w] = v PROVE Excused(v)'
      BY <2>1, <3>1 DEF Versions, Holds, Excused
    <3>2. \A x \in Workers : x # w => task'[x] = task[x] /\ step'[x] = step[x]
      BY <1>0, <2>1
    <3> QED BY <1>0, <2>1, <2>2, <3>1, <3>2, PostKept
  <2>6. WorkInv'
    BY <1>0, <2>1 DEF WorkInv
  <2> QED BY <2>3, <2>4, <2>5, <2>6 DEF RunInv
<1>3. ASSUME NEW w \in Workers, Execute(w) PROVE RunInv'
  <2>1. /\ UNCHANGED <<stream, outstanding, late, time, save, row, step, seen, sent, faulted>>
        /\ Take(w) /\ task[w] = None /\ task' = [task EXCEPT ![w] = Head(inbox[w])]
    BY <1>3 DEF Execute, Take
  <2>2. RunOnly
    BY <2>1 DEF RunOnly
  <2>3. CopyInv'
    BY <1>0, <2>1, CopyStream
  <2>4. SaveInv' /\ PendInv'
    BY <1>0, <2>1, <2>2, SaveKept, PendKept
  <2>5. \A x \in Workers : step[x] # "read" => task'[x] = task[x]
    BY <1>0, <2>1
  <2>6. PostInv'
    BY <1>0, <2>1, <2>2, <2>5, PostKept
  <2>7. WorkInv'
    BY <1>0, <2>1, <2>5 DEF WorkInv
  <2> QED BY <2>3, <2>4, <2>6, <2>7 DEF RunInv
<1>4. ASSUME NEW w \in Workers, ReadRow(w) PROVE RunInv'
  <2>1. step[w] = "read" /\ task[w] # None /\ UNCHANGED <<time, save, row, sent, faulted>>
    BY <1>4 DEF ReadRow, AtStep
  <2>2. CASE ~StillWanted(task[w]) /\ TaskSucceeds(w) /\ UNCHANGED <<step, seen>>
    <3>1. /\ task[w] \in Jobs /\ task' = [task EXCEPT ![w] = None] /\ late \subseteq late'
          /\ \A v \in Versions : \/ stream'[v] = stream[v]
                                 \/ stream[v] # "new" /\ stream'[v] = "gone" /\ v = task[w]
      BY <2>2, ReturnKept
    <3>2. RunOnly
      BY <2>1, <3>1 DEF RunOnly
    <3>3. CopyInv'
      BY <1>0, <2>2, CopyStream
    <3>4. ASSUME NEW v \in Versions, stream'[v] # stream[v], RowIs(v), row.status = "pending" PROVE FALSE
      <4>1. v = task[w]
        BY <3>1, <3>4
      <4> QED BY <2>2, <3>4, <4>1 DEF StillWanted, RowIs
    <3>5. SaveInv' /\ PendInv'
      BY <1>0, <2>1, <3>2, <3>4, SaveKept, PendKept
    <3>6. \A x \in Workers : step[x] # "read" => task'[x] = task[x]
      BY <1>0, <2>1, <3>1
    <3>7. PostInv'
      BY <1>0, <2>1, <2>2, <3>2, <3>6, PostKept
    <3>8. WorkInv'
      BY <1>0, <2>1, <2>2, <3>6 DEF WorkInv
    <3> QED BY <3>3, <3>5, <3>7, <3>8 DEF RunInv
  <2>3. CASE /\ StillWanted(task[w]) /\ seen' = [seen EXCEPT ![w] = row.version]
             /\ step' = [step EXCEPT ![w] = "send"] /\ UNCHANGED streamVars
    <3>1. UNCHANGED <<stream, outstanding, inbox, task, late>>
      BY <2>3 DEF streamVars, workVars
    <3>2. RunOnly
      BY <2>1, <3>1 DEF RunOnly
    <3>3. CopyInv'
      BY <1>0, <3>1 DEF CopyInv, Holds, HoldsOne
    <3>4. SaveInv' /\ PendInv'
      BY <1>0, <2>1, <3>1, <3>2, SaveKept, PendKept
    <3>5. \A x \in Workers : x # w => step'[x] = step[x] /\ seen'[x] = seen[x]
      BY <1>0, <2>3
    <3>6. PostInv'
      BY <1>0, <2>1, <3>1, <3>2, <3>5, PostKept
    <3>7. /\ seen'[w] = row.version /\ row.version # None
          /\ time[row.version] = time[task[w]] /\ save[row.version] # "unused"
      BY <1>0, <2>3 DEF StillWanted, SaveInv
    <3>8. WorkInv'
      BY <1>0, <2>1, <3>1, <3>5, <3>7 DEF WorkInv
    <3> QED BY <3>3, <3>4, <3>6, <3>8 DEF RunInv
  <2>4. CASE TaskFails(w) /\ UNCHANGED <<step, seen>>
    <3>1. UNCHANGED <<stream, late>> /\ task' = [task EXCEPT ![w] = None]
      BY <2>4 DEF TaskFails
    <3>2. RunOnly
      BY <2>1, <3>1 DEF RunOnly
    <3>3. CopyInv'
      BY <1>0, <2>4, CopyStream
    <3>4. SaveInv' /\ PendInv'
      BY <1>0, <2>1, <3>1, <3>2, SaveKept, PendKept
    <3>5. \A x \in Workers : step[x] # "read" => task'[x] = task[x]
      BY <1>0, <2>1, <3>1
    <3>6. PostInv'
      BY <1>0, <2>1, <2>4, <3>2, <3>5, PostKept
    <3>7. WorkInv'
      BY <1>0, <2>1, <2>4, <3>5 DEF WorkInv
    <3> QED BY <3>3, <3>4, <3>6, <3>7 DEF RunInv
  <2> QED BY <1>4, <2>2, <2>3, <2>4 DEF ReadRow
\* A write of a run fails: the version it read is excused.
<1>5. ASSUME RunOnly, NEW w \in Workers, step[w] # "read", seen[w] \in faulted',
             NEW v \in Versions, task[w] = v
      PROVE  Excused(v)'
  <2>1. Excused(v) \/ seen[w] = v
    BY <1>5, OwnJob
  <2>2. Excused(v) => Excused(v)'
    BY <1>5, SameTimes DEF RunOnly
  <2> QED BY <1>5, <2>1, <2>2 DEF Excused
\* A run goes on to its next step.
<1>6. ASSUME NEW w \in Workers, NEW s, step[w] # "read", Goes(w, s), UNCHANGED <<time, save>>
      PROVE  /\ CopyInv' /\ WorkInv' /\ UNCHANGED <<stream, late, task>>
             /\ \A x \in Workers : x # w => step'[x] = step[x]
             /\ step'[w] = s
  <2>1. /\ UNCHANGED <<stream, outstanding, inbox, task, late, seen>> /\ step' = [step EXCEPT ![w] = s]
    BY <1>6 DEF Goes, workVars
  <2>2. step'[w] = s /\ \A x \in Workers : x # w => step'[x] = step[x]
    BY <1>0, <2>1
  <2>3. CopyInv'
    BY <1>0, <2>1 DEF CopyInv, Holds, HoldsOne
  <2>4. WorkInv'
    BY <1>0, <1>6, <2>1, <2>2 DEF WorkInv
  <2> QED BY <2>1, <2>2, <2>3, <2>4
\* A run returns.
<1>7. ASSUME NEW w \in Workers, Returns(w), UNCHANGED <<time, save>>
      PROVE  /\ CopyInv' /\ WorkInv'
             /\ \A x \in Workers : x # w => step'[x] = step[x] /\ task'[x] = task[x]
  <2>1. /\ seen' = [seen EXCEPT ![w] = None] /\ step' = [step EXCEPT ![w] = "read"]
        /\ task' = [task EXCEPT ![w] = None]
    BY <1>7, ReturnKept DEF Returns, Rewind
  <2>2. \A x \in Workers : x # w => step'[x] = step[x] /\ task'[x] = task[x] /\ seen'[x] = seen[x]
    BY <1>0, <2>1
  <2>3. step'[w] = "read"
    BY <1>0, <2>1
  <2>4. WorkInv'
    BY <1>0, <1>7, <2>2, <2>3 DEF WorkInv
  <2>5. CopyInv'
    BY <1>0, <1>7, CopyStream DEF Returns
  <2> QED BY <2>2, <2>4, <2>5
<1>8. ASSUME NEW w \in Workers, SendMessage(w) PROVE RunInv'
  <2>1. /\ step[w] = "send" /\ UNCHANGED <<time, save, row>>
        /\ \E s \in {"delete", "invalid"} : Goes(w, s)
    BY <1>8 DEF SendMessage, AtStep
  <2>2. faulted \subseteq faulted'
    BY <1>8 DEF SendMessage, WriteFails
  <2>3. /\ CopyInv' /\ WorkInv' /\ UNCHANGED <<stream, late, task>>
        /\ \A x \in Workers : x # w => step'[x] = step[x]
    BY <1>6, <2>1
  <2>4. RunOnly
    BY <2>1, <2>2, <2>3 DEF RunOnly
  <2>5. /\ task[w] \in Jobs /\ seen[w] \in Versions /\ Holds(w, task[w]) /\ save[seen[w]] # "unused"
    BY <1>0, <2>1, OwnJob DEF WorkInv
  <2>6. CASE sent' = sent
    <3>1. SaveInv' /\ PendInv'
      BY <1>0, <2>3, <2>4, <2>6, SaveKept, PendKept
    <3>2. PostInv'
      BY <1>0, <2>1, <2>3, <2>4, <2>6, PostKept
    <3> QED BY <2>3, <3>1, <3>2 DEF RunInv
  <2>7. CASE sent' = Posted(w) /\ (Goes(w, "delete") \/ WriteFails(w))
    <3>1. sent'[seen[w]] = sent[seen[w]] + 1 /\ \A v \in Versions : v # seen[w] => sent'[v] = sent[v]
      BY <1>0, <2>5, <2>7 DEF Posted
    <3>2. SaveInv' /\ PendInv'
      BY <1>0, <2>3, <2>4, <2>5, <3>1, SaveKept, PendKept
    <3>3. ASSUME NEW v \in Versions, ~Excused(v)', sent'[v] > 0
          PROVE  /\ sent'[v] = 1
                 /\ \/ stream'[v] = "gone" /\ ~RowIs(v)'
                    \/ \E x \in Workers : task'[x] = v /\ step'[x] = "delete"
      <4>1. ~Excused(v)
        BY <2>4, <3>3, SameTimes DEF RunOnly
      <4>2. RowIs(v)' <=> RowIs(v)
        BY <2>1 DEF RowIs
      <4>3. CASE v # seen[w]
        <5>1. sent[v] > 0 /\ sent'[v] = sent[v]
          BY <3>1, <3>3, <4>3
        <5>2. \A x \in Workers : step[x] = "delete" => step'[x] = "delete"
          BY <2>1, <2>3
        <5> QED BY <1>0, <2>3, <4>1, <4>2, <5>1, <5>2 DEF PostInv
      <4>4. CASE v = seen[w]
        <5>1. task[w] = v
          BY <2>1, <4>1, <4>4, OwnJob
        <5>2. /\ stream[v] = "stored" /\ \A x \in Workers : task[x] = v => x = w
          BY <1>0, <2>5, <4>1, <5>1 DEF CopyInv, Excused, Holds, Versions
        <5>3. ~(sent[v] > 0)
          BY <1>0, <2>1, <4>1, <5>2 DEF PostInv
        <5>4. sent'[v] = 1
          BY <1>0, <3>1, <4>4, <5>3
        <5>5. ~WriteFails(w)
          BY <3>3, <4>4 DEF WriteFails, Excused
        <5>6. Goes(w, "delete")
          BY <2>7, <5>5
        <5>7. step'[w] = "delete" /\ task'[w] = v
          BY <1>6, <2>1, <2>3, <5>1, <5>6
        <5> QED BY <5>4, <5>7
      <4> QED BY <4>3, <4>4
    <3>4. PostInv'
      BY <3>3 DEF PostInv
    <3> QED BY <2>3, <3>2, <3>4 DEF RunInv
  <2> QED BY <1>8, <2>6, <2>7 DEF SendMessage
<1>9. ASSUME NEW w \in Workers, DeleteRow(w) PROVE RunInv'
  <2>1. step[w] = "delete" /\ UNCHANGED <<time, save, sent>> /\ late \subseteq late'
    <3>1. step[w] = "delete" /\ UNCHANGED <<time, save, sent>>
      BY <1>9 DEF DeleteRow, AtStep
    <3>2. Returns(w) => late \subseteq late'
      BY ReturnKept DEF Returns
    <3>3. Goes(w, "invalid") => late \subseteq late'
      BY DEF Goes, workVars
    <3> QED BY <1>9, <3>1, <3>2, <3>3 DEF DeleteRow
  <2>2. CASE row' = NoRow /\ Returns(w) /\ UNCHANGED faulted
    <3>1. /\ CopyInv' /\ WorkInv'
          /\ \A x \in Workers : x # w => step'[x] = step[x] /\ task'[x] = task[x]
      BY <1>7, <2>1, <2>2
    <3>2. /\ \A v \in Versions : stream'[v] = stream[v] \/ (stream[v] # "new" /\ stream'[v] = "gone")
          /\ task[w] \notin late' => stream'[task[w]] = "gone"
      BY <2>2, ReturnKept DEF Returns
    <3>3. RunOnly
      BY <2>1, <2>2, <3>2 DEF RunOnly
    <3>4. ~\E v : row' = row /\ RowIs(v)
      BY <2>2 DEF RowIs
    <3>5. SaveInv' /\ PendInv'
      BY <1>0, <2>1, <3>3, <3>4, SaveKept, PendKept
    <3>6. PostInv'
      BY <1>0, <2>1, <2>2, <3>1, <3>2, <3>3, PostKept DEF Excused
    <3> QED BY <3>1, <3>5, <3>6 DEF RunInv
  <2>3. CASE Goes(w, "invalid") /\ WriteFails(w) /\ UNCHANGED row
    <3>1. /\ CopyInv' /\ WorkInv' /\ UNCHANGED <<stream, late, task>>
          /\ \A x \in Workers : x # w => step'[x] = step[x]
      BY <1>6, <2>1, <2>3
    <3>2. RunOnly /\ seen[w] \in faulted'
      BY <2>1, <2>3, <3>1 DEF RunOnly, WriteFails
    <3>3. SaveInv' /\ PendInv'
      BY <1>0, <2>1, <3>1, <3>2, SaveKept, PendKept
    <3>4. PostInv'
      BY <1>0, <1>5, <2>1, <3>1, <3>2, PostKept
    <3> QED BY <3>1, <3>3, <3>4 DEF RunInv
  <2> QED BY <1>9, <2>2, <2>3 DEF DeleteRow
<1>10. ASSUME NEW w \in Workers, MarkInvalid(w) PROVE RunInv'
  <2>1. step[w] = "invalid" /\ UNCHANGED <<time, save, sent>> /\ Returns(w)
    BY <1>10 DEF MarkInvalid, AtStep
  <2>2. /\ CopyInv' /\ WorkInv'
        /\ \A x \in Workers : x # w => step'[x] = step[x] /\ task'[x] = task[x]
    BY <1>7, <2>1
  <2>3. /\ late \subseteq late'
        /\ \A v \in Versions : \/ stream'[v] = stream[v]
                               \/ stream[v] # "new" /\ stream'[v] = "gone" /\ v = task[w]
    BY <2>1, ReturnKept DEF Returns
  <2>4. /\ faulted \subseteq faulted'
        /\ row' = Patched(row) \/ (row' = row /\ seen[w] \in faulted')
    BY <1>10 DEF MarkInvalid, WriteFails
  <2>5. RunOnly
    BY <2>1, <2>3, <2>4 DEF RunOnly
  <2>6. ASSUME NEW v \in Versions, stream'[v] # stream[v], RowIs(v), row' = row, row.status = "pending"
        PROVE  Excused(v)'
    <3>1. v = task[w]
      BY <2>3, <2>6
    <3>2. row' # Patched(row)
      BY <2>6 DEF Patched
    <3> QED BY <1>5, <2>1, <2>4, <2>5, <2>6, <3>1, <3>2
  <2>7. SaveInv' /\ PendInv'
    BY <1>0, <2>1, <2>5, <2>6, SaveKept, PendKept
  <2>8. PostInv'
    BY <1>0, <2>1, <2>2, <2>5, PostKept
  <2> QED BY <2>2, <2>7, <2>8 DEF RunInv
<1> QED BY <1>1, <1>2, <1>3, <1>4, <1>8, <1>9, <1>10 DEF Working

-----------------------------------------------------------------------------
\* Every variable has its type, and the stream, the saves and the runs agree:
\* a job is held once unless it was late, and what was posted is about to be
\* deleted or is.
THEOREM RunInvariant == Spec => [](TypeOK /\ RunInv)
<1>1. Init => TypeOK /\ RunInv
  <2> SUFFICES ASSUME Init PROVE TypeOK /\ RunInv
    OBVIOUS
  <2>1. StreamTypeOK
    BY Constants DEF Init, StreamInit, StreamTypeOK
  <2>2. TypeOK
    BY <2>1 DEF Init, TypeOK
  <2>3. ASSUME NEW w \in Workers, NEW j \in Jobs PROVE ~Holds(w, j) /\ HoldsOne(w, j)
    <3>1. inbox[w] = <<>> /\ task[w] # j
      BY Constants DEF Init, StreamInit
    <3>2. ~In(<<>>, j) /\ Single(<<>>, j)
      BY DEF In, Single
    <3> QED BY <3>1, <3>2, HoldsIn DEF HoldsOne
  <2>4. CopyInv
    BY <2>3 DEF CopyInv
  <2>5. SaveInv /\ WorkInv
    BY DEF Init, StreamInit, SaveInv, WorkInv, Versions
  <2>6. PostInv /\ PendInv
    BY DEF Init, StreamInit, PostInv, PendInv, RowIs
  <2> QED BY <2>2, <2>4, <2>5, <2>6 DEF RunInv
<1>2. (TypeOK /\ RunInv) /\ [Next]_vars => (TypeOK /\ RunInv)'
  <2> SUFFICES ASSUME TypeOK, RunInv, [Next]_vars PROVE TypeOK' /\ RunInv'
    OBVIOUS
  <2>1. CASE UNCHANGED vars
    <3> USE <2>1 DEF vars, streamVars, workVars
    <3>1. TypeOK'
      BY DEF TypeOK, StreamTypeOK
    <3>2. CopyInv' /\ SaveInv' /\ WorkInv'
      BY DEF RunInv, CopyInv, Holds, HoldsOne, SaveInv, WorkInv
    <3>3. PostInv' /\ PendInv'
      BY DEF RunInv, PostInv, PendInv, Excused, SharesTime, RowIs
    <3> QED BY <3>1, <3>2, <3>3 DEF RunInv
  <2>2. CASE Next
    <3>1. TypeOK'
      BY <2>2, TypeOfSaves, TypeOfRuns DEF Next, RunInv
    <3>2. RunInv'
      BY <2>2, SaveSteps, RunSteps DEF Next
    <3> QED BY <3>1, <3>2
  <2> QED BY <2>1, <2>2
<1> QED BY <1>1, <1>2, PTL DEF Spec

\* Every variable has its type.
THEOREM TypeCorrect == Spec => []TypeOK
BY RunInvariant, PTL

\* Nothing is posted twice unless its ack wait ended or its worker went away,
\* a write of a run failed, or two saves asked for the same time.
THEOREM PostedAtMostOnce == Spec => []PostedOnce
<1>1. TypeOK /\ RunInv => PostedOnce
  <2> SUFFICES ASSUME TypeOK, RunInv, NEW v \in Versions, sent[v] > 1 PROVE Excused(v)
    BY DEF PostedOnce
  <2>1. sent[v] > 0 /\ sent[v] # 1
    BY DEF TypeOK
  <2> QED BY <2>1 DEF RunInv, PostInv
<1> QED BY <1>1, RunInvariant, PTL

\* A row that waits to be posted, and whose save was answered, has its job in
\* the stream.
THEOREM PendingAlwaysHasJob == Spec => []PendingHasJob
<1>1. TypeOK /\ RunInv => PendingHasJob
  <2> SUFFICES ASSUME TypeOK, RunInv, row # NoRow, row.status = "pending", save[row.version] = "done"
               PROVE  stream[row.version] = "stored" \/ Excused(row.version)
    BY DEF PendingHasJob
  <2>1. row.version \in Versions
    BY DEF TypeOK, RunInv, SaveInv
  <2>2. stream[row.version] \in {"stored", "gone"}
    BY <2>1 DEF TypeOK, StreamTypeOK, RunInv, SaveInv, Versions
  <2> QED BY <2>1, <2>2 DEF RunInv, PendInv, RowIs
<1> QED BY <1>1, RunInvariant, PTL

\* Once no run is under way, what the user still sees as pending or invalid
\* was not posted.
THEOREM RowAlwaysTellsTheTruth == Spec => []RowTellsTheTruth
<1>1. TypeOK /\ RunInv => RowTellsTheTruth
  <2> SUFFICES ASSUME TypeOK, RunInv, \A w \in Workers : task[w] = None,
                      row # NoRow, row.version # None, sent[row.version] > 0
               PROVE  Excused(row.version)
    BY DEF RowTellsTheTruth
  <2>1. row.version \in Versions
    BY DEF TypeOK
  <2>2. \A w \in Workers : task[w] # row.version
    BY <2>1, Constants DEF Versions
  <2> QED BY <2>1, <2>2 DEF RunInv, PostInv, RowIs
<1> QED BY <1>1, RunInvariant, PTL
=============================================================================
