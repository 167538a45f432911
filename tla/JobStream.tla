------------------------------ MODULE JobStream ------------------------------
(***************************************************************************)
(* The API's job pipeline: jobs are messages of the JetStream work queue   *)
(* JOBS, and every worker process pulls up to Concurrency of them through  *)
(* one durable consumer, but runs them one after the other.  The ack wait  *)
(* of a message runs from its delivery, so that it can end while the       *)
(* message is still behind a long task: the server then delivers the job   *)
(* again, and after MaxDeliver deliveries never again.  A worker learns of *)
(* neither, and an acknowledgement counts whichever delivery it answers.   *)
(*                                                                         *)
(* What a task does is up to the module that extends this one.             *)
(***************************************************************************)
EXTENDS Naturals, Sequences

CONSTANTS
  Jobs,         \* messages that may be published
  Workers,      \* worker processes
  None,         \* no job
  MaxDeliver,   \* MAX_DELIVER
  Concurrency,  \* max_messages of the pull, beside the one being run
  MaxTroubles   \* bound: workers stopped or killed, and calls that fail

ASSUME StreamAssumption ==
  /\ None \notin Jobs
  /\ MaxDeliver \in Nat \ {0} /\ Concurrency \in Nat \ {0} /\ MaxTroubles \in Nat

VARIABLES
  stream,       \* each job: "new", "stored" or "gone"
  deliveries,   \* how often the server has delivered it
  outstanding,  \* jobs whose ack wait is running
  inbox,        \* messages a worker has pulled and not looked at yet
  task,         \* the job a worker is running, or None
  running,      \* the worker's running flag: it takes new messages
  troubles,     \* stops, kills and failed calls so far
  late          \* history: jobs whose ack wait ended, or whose delivery was
                \* dropped with its worker
workVars == <<stream, deliveries, outstanding, inbox, task, running, late>>
streamVars == <<workVars, troubles>>

StreamInit ==
  /\ stream = [j \in Jobs |-> "new"]
  /\ deliveries = [j \in Jobs |-> 0]
  /\ outstanding = {}
  /\ inbox = [w \in Workers |-> <<>>]
  /\ task = [w \in Workers |-> None]
  /\ running = [w \in Workers |-> TRUE]
  /\ troubles = 0 /\ late = {}

Trouble == troubles < MaxTroubles /\ troubles' = troubles + 1

Deliverable(j) ==
  stream[j] = "stored" /\ j \notin outstanding /\ deliveries[j] < MaxDeliver

\* The jobs worker w holds, one entry per delivery.
Holds(w, j) == task[w] = j \/ \E i \in DOMAIN inbox[w] : inbox[w][i] = j

\* Nobody will ever run the job again, although it was not acknowledged.
Abandoned(j) ==
  /\ stream[j] = "stored" /\ ~Deliverable(j) /\ j \notin outstanding
  /\ \A w \in Workers : ~Holds(w, j)

-----------------------------------------------------------------------------
(* The server.                                                             *)

\* js.publish: the message is in the stream.
Published(j) == stream' = [stream EXCEPT ![j] = "stored"]

Deliver(w, j) ==
  /\ running[w] /\ Len(inbox[w]) < Concurrency
  /\ Deliverable(j)
  /\ deliveries' = [deliveries EXCEPT ![j] = @ + 1]
  /\ outstanding' = outstanding \cup {j}
  /\ inbox' = [inbox EXCEPT ![w] = Append(@, j)]
  /\ UNCHANGED <<stream, task, running, troubles, late>>

\* ACK_WAIT_MS after its delivery the job is not acknowledged.
AckWaitEnds(j) ==
  /\ j \in outstanding
  /\ outstanding' = outstanding \ {j}
  /\ late' = late \cup {j}
  /\ UNCHANGED <<stream, deliveries, inbox, task, running, troubles>>

-----------------------------------------------------------------------------
(* A worker process.                                                       *)

\* processMessages reaches the next message and processJob starts its task.
Take(w) ==
  /\ running[w] /\ task[w] = None /\ inbox[w] # <<>>
  /\ task' = [task EXCEPT ![w] = Head(inbox[w])]
  /\ inbox' = [inbox EXCEPT ![w] = Tail(@)]

\* msg.ack() reaches the server: the work queue drops the job.  A worker that
\* is shutting down may have lost its connection by then.
Acknowledged(w) ==
  \/ /\ stream' = [stream EXCEPT ![task[w]] = "gone"]
     /\ outstanding' = outstanding \ {task[w]}
     /\ late' = late
  \/ ~running[w] /\ late' = late \cup {task[w]} /\ UNCHANGED <<stream, outstanding>>

\* The task ended without an exception.
TaskSucceeds(w) ==
  /\ task[w] # None
  /\ Acknowledged(w)
  /\ task' = [task EXCEPT ![w] = None]
  /\ UNCHANGED <<deliveries, inbox, running>>

\* (Mutant: a task that threw is acknowledged.)
AcknowledgedAnyway(w) == TaskSucceeds(w)

\* The task threw: msg.nak(5000).  The server delivers it again later, if its
\* ack wait has not ended already.
TaskFails(w) ==
  /\ task[w] # None
  /\ outstanding' = outstanding \ {task[w]}
  /\ task' = [task EXCEPT ![w] = None]
  /\ UNCHANGED <<stream, deliveries, inbox, running, late>>

\* stop() closes the consumer: what was pulled is dropped, and the task under
\* way is not waited for.
StopWorker(w) ==
  /\ running[w] /\ Trouble
  /\ running' = [running EXCEPT ![w] = FALSE]
  /\ inbox' = [inbox EXCEPT ![w] = <<>>]
  /\ late' = late \cup {j \in Jobs : \E i \in DOMAIN inbox[w] : inbox[w][i] = j}
  /\ UNCHANGED <<stream, deliveries, outstanding, task>>

\* The process ends, at the end of the shutdown or by a crash.
WorkerDies(w) ==
  /\ IF running[w] THEN Trouble
                   ELSE task[w] # None /\ UNCHANGED troubles
  /\ running' = [running EXCEPT ![w] = FALSE]
  /\ inbox' = [inbox EXCEPT ![w] = <<>>]
  /\ task' = [task EXCEPT ![w] = None]
  /\ late' = late \cup {j \in Jobs : Holds(w, j)}
  /\ UNCHANGED <<stream, deliveries, outstanding>>

StartWorker(w) ==
  /\ ~running[w] /\ task[w] = None
  /\ running' = [running EXCEPT ![w] = TRUE]
  /\ UNCHANGED <<stream, deliveries, outstanding, inbox, task, troubles, late>>

\* The steps a task has no part in.
StreamStep ==
  \/ \E w \in Workers, j \in Jobs : Deliver(w, j)
  \/ \E j \in Jobs : AckWaitEnds(j)
  \/ \E w \in Workers : StopWorker(w) \/ StartWorker(w)

-----------------------------------------------------------------------------
StreamTypeOK ==
  /\ stream \in [Jobs -> {"new", "stored", "gone"}]
  /\ deliveries \in [Jobs -> 0 .. MaxDeliver]
  /\ outstanding \subseteq Jobs
  /\ inbox \in [Workers -> Seq(Jobs)]
  /\ \A w \in Workers : Len(inbox[w]) <= Concurrency
  /\ task \in [Workers -> Jobs \cup {None}]
  /\ running \in [Workers -> BOOLEAN]
  /\ troubles \in 0 .. MaxTroubles
  /\ late \subseteq Jobs
=============================================================================
