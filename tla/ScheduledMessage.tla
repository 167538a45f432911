-------------------------- MODULE ScheduledMessage --------------------------
(***************************************************************************)
(* One scheduled message, from the API that stores it to the worker that   *)
(* posts it.  The row in the database says what is to be posted and when;  *)
(* every save of it also publishes a job that names the time of that save, *)
(* and a job whose time is no longer the row's is stale.  Saving takes two *)
(* steps (the row, then the job), posting takes three (read the row, post, *)
(* delete the row), and nothing locks the row in between: saves, cancels   *)
(* and up to two runs of a job interleave, and each step can fail alone.   *)
(*                                                                         *)
(* The v-th save of the message publishes job v.  The pipeline below is    *)
(* JobStream; it hands a job to a worker at once, because the run_at that  *)
(* travels in the job's body is read by nobody.                            *)
(***************************************************************************)
EXTENDS JobStream

CONSTANTS
  NoRow       \* the row does not exist

ASSUME ScheduleAssumption ==
  /\ \A v \in Jobs : v \in Nat \ {0} /\ 1 .. v \subseteq Jobs

VARIABLES
  row,      \* NoRow, or what the row says: [version, status]
  time,     \* the time the v-th save asks for, or None before it
  save,     \* the v-th save: "unused", "begun", "stored", "done" or "failed"
  step,     \* each worker: the next step of ScheduledMessageExecutor.execute
  seen,     \* each worker: the version it has read, or None
  sent,     \* how often each version was posted in the channel
  cancel,   \* the DELETE request: "none", "clean" if no save was under way or
            \* followed, or "raced"
  faulted   \* history: versions one of whose writes failed at a worker

vars == <<streamVars, row, time, save, step, seen, sent, cancel, faulted>>

Versions == Jobs
Statuses == {"pending", "invalid"}
Saving(v) == save[v] \in {"begun", "stored"}

Init ==
  /\ StreamInit
  /\ row = NoRow
  /\ time = [v \in Versions |-> None]
  /\ save = [v \in Versions |-> "unused"]
  /\ step = [w \in Workers |-> "read"]
  /\ seen = [w \in Workers |-> None]
  /\ sent = [v \in Versions |-> 0]
  /\ cancel = "none" /\ faulted = {}

-----------------------------------------------------------------------------
(* The API.                                                                *)

\* POST, or PATCH of a row that exists, for a new time or for one an earlier
\* save asked for (times are numbered in the order they are first used).
BeginSave(v) ==
  /\ save[v] = "unused"
  /\ IF v = 1 THEN TRUE ELSE save[v - 1] # "unused" /\ row # NoRow
  /\ save' = [save EXCEPT ![v] = "begun"]
  /\ \E t \in 1 .. v : time' = [time EXCEPT ![v] = t]
  /\ cancel' = IF cancel = "clean" THEN "raced" ELSE cancel
  /\ UNCHANGED <<streamVars, row, step, seen, sent, faulted>>

\* upsertScheduledMessage writes every column: whatever was there is replaced.
Store(v) ==
  /\ save[v] = "begun"
  /\ row' = [version |-> v, status |-> "pending"]
  /\ save' = [save EXCEPT ![v] = "stored"]
  /\ UNCHANGED <<streamVars, time, step, seen, sent, cancel, faulted>>

\* scheduleWorker publishes the job; the answer may be lost with or without it.
Publish(v) ==
  /\ save[v] = "stored"
  /\ \/ Published(v) /\ save' = [save EXCEPT ![v] = "done"] /\ UNCHANGED troubles
     \/ /\ Trouble /\ save' = [save EXCEPT ![v] = "failed"]
        /\ Published(v) \/ UNCHANGED stream
  /\ UNCHANGED <<deliveries, outstanding, inbox, task, running, late>>
  /\ UNCHANGED <<row, time, step, seen, sent, cancel, faulted>>

Cancel ==
  /\ cancel = "none" /\ save[1] # "unused"
  /\ row' = NoRow
  /\ cancel' = IF \E v \in Versions : Saving(v) THEN "raced" ELSE "clean"
  /\ UNCHANGED <<streamVars, time, save, step, seen, sent, faulted>>

-----------------------------------------------------------------------------
(* The worker: ScheduledMessageExecutor.execute, one step per await that   *)
(* changes something or is followed by one that does.                      *)

api == <<time, save, cancel>>

\* (Mutant: the time a job names is not compared.)
PendingAtAnyTime(j) == row # NoRow /\ row.status = "pending"

\* The job is still what the row asks for.
StillWanted(j) ==
  /\ row # NoRow
  /\ row.status = "pending"
  /\ time[row.version] = time[j]

\* (Mutant: the patch of a row that is gone sets version 0.)
PatchedToZero(r) == [version |-> IF r = NoRow THEN 0 ELSE r.version, status |-> "invalid"]

\* What markInvalid leaves: it patches the row, and creates it if need be.
Patched(r) == [version |-> IF r = NoRow THEN None ELSE r.version, status |-> "invalid"]

Execute(w) ==
  /\ Take(w)
  /\ UNCHANGED <<stream, deliveries, outstanding, running, troubles, late>>
  /\ UNCHANGED <<api, row, step, seen, sent, faulted>>

AtStep(w, s) == task[w] # None /\ step[w] = s

\* getScheduledMessage: the job is stale and done with, or its row is read, or
\* a lookup throws and the job is given back.
ReadRow(w) ==
  /\ AtStep(w, "read")
  /\ \/ ~StillWanted(task[w]) /\ TaskSucceeds(w) /\ UNCHANGED <<step, seen, troubles>>
     \/ /\ StillWanted(task[w])
        /\ seen' = [seen EXCEPT ![w] = row.version]
        /\ step' = [step EXCEPT ![w] = "send"]
        /\ UNCHANGED streamVars
     \/ Trouble /\ TaskFails(w) /\ UNCHANGED <<step, seen>>
  /\ UNCHANGED <<api, row, sent, faulted>>

Posted(w) == [sent EXCEPT ![seen[w]] = @ + 1]
WriteFails(w) == Trouble /\ faulted' = faulted \cup {seen[w]}
Goes(w, s) == step' = [step EXCEPT ![w] = s] /\ UNCHANGED <<workVars, seen>>
Rewind(w) == step' = [step EXCEPT ![w] = "read"]
Returns(w) == TaskSucceeds(w) /\ seen' = [seen EXCEPT ![w] = None] /\ Rewind(w)

\* validateMessageCanBeSent and sendMessage: posted; refused (or the user is
\* gone); or an exception after the message was stored.
SendMessage(w) ==
  /\ AtStep(w, "send")
  /\ \/ sent' = Posted(w) /\ Goes(w, "delete") /\ UNCHANGED <<troubles, faulted>>
     \/ Goes(w, "invalid") /\ UNCHANGED <<sent, troubles, faulted>>
     \/ sent' = Posted(w) /\ Goes(w, "invalid") /\ WriteFails(w)
  /\ UNCHANGED <<api, row>>

\* (Mutant: the row is left behind.)
RowLeftBehind(w) ==
  AtStep(w, "delete") /\ Returns(w) /\ UNCHANGED <<api, sent, row, troubles, faulted>>

\* deleteScheduledMessage deletes the row, whatever version it has by now; if
\* that fails the catch clause reports the message as invalid.
DeleteRow(w) ==
  /\ AtStep(w, "delete")
  /\ \/ row' = NoRow /\ Returns(w) /\ UNCHANGED <<troubles, faulted>>
     \/ Goes(w, "invalid") /\ WriteFails(w) /\ UNCHANGED row
  /\ UNCHANGED <<api, sent>>

\* markInvalid, whose own failure is only logged.
MarkInvalid(w) ==
  /\ AtStep(w, "invalid")
  /\ Returns(w)
  /\ \/ row' = Patched(row) /\ UNCHANGED <<troubles, faulted>>
     \/ WriteFails(w) /\ UNCHANGED row
  /\ UNCHANGED <<api, sent>>

Dies(w) ==
  /\ WorkerDies(w)
  /\ seen' = [seen EXCEPT ![w] = None] /\ Rewind(w)
  /\ UNCHANGED <<api, row, sent, faulted>>

-----------------------------------------------------------------------------
Working(w) == Execute(w) \/ ReadRow(w) \/ SendMessage(w) \/ DeleteRow(w) \/ MarkInvalid(w)

Stream == StreamStep /\ UNCHANGED <<api, row, step, seen, sent, faulted>>

Next ==
  \/ \E v \in Versions : BeginSave(v) \/ Store(v) \/ Publish(v)
  \/ Cancel
  \/ \E w \in Workers : Working(w) \/ Dies(w)
  \/ Stream

Spec == Init /\ [][Next]_vars

\* A request that began is carried through, the server delivers what it may
\* and ends ack waits, a running worker goes on and a stopped one is restarted.
Delivering(j) == (\E w \in Workers : Deliver(w, j)) /\ Stream
AckTimer(j) == AckWaitEnds(j) /\ Stream
Restart(w) == StartWorker(w) /\ Stream

FairSpec ==
  /\ Spec
  /\ \A v \in Versions : WF_vars(Store(v) \/ Publish(v))
  /\ \A j \in Jobs : WF_vars(Delivering(j)) /\ WF_vars(AckTimer(j))
  /\ \A w \in Workers : WF_vars(Working(w)) /\ WF_vars(Restart(w))

-----------------------------------------------------------------------------
(* Properties.                                                             *)

\* Every variable has its type.
TypeOK ==
  /\ StreamTypeOK
  /\ row \in {NoRow} \cup [version : Versions \cup {None}, status : Statuses]
  /\ time \in [Versions -> Versions \cup {None}]
  /\ save \in [Versions -> {"unused", "begun", "stored", "done", "failed"}]
  /\ step \in [Workers -> {"read", "send", "delete", "invalid"}]
  /\ seen \in [Workers -> Versions \cup {None}]
  /\ sent \in [Versions -> Nat]
  /\ cancel \in {"none", "clean", "raced"}
  /\ faulted \subseteq Versions

\* Two jobs name the same time: each passes for the other's.
SharesTime(v) == \E u \in Versions \ {v} : time[u] = time[v]

\* What may have run version v's job, or another one in its place, again.
Excused(v) == v \in late \/ v \in faulted \/ SharesTime(v)

\* A row that waits to be posted, and whose save was answered, has its job in
\* the stream: the job is published after the row is there and given up only
\* by a run that found the row changed (ScheduledMessageService 165-166 against
\* the early returns of ScheduledMessageExecutor 62-83).
PendingHasJob ==
  row # NoRow /\ row.status = "pending" /\ save[row.version] = "done"
    => stream[row.version] = "stored" \/ Excused(row.version)

\* Nothing is posted twice unless its ack wait ended or its worker went away,
\* a write of a run failed, or two saves asked for the same time.
PostedOnce == \A v \in Versions : sent[v] > 1 => Excused(v)

\* Once no run is under way, what the user still sees as pending or invalid
\* was not posted, with the same three exceptions.
RowTellsTheTruth ==
  /\ \A w \in Workers : task[w] = None
  /\ row # NoRow /\ row.version # None
  /\ sent[row.version] > 0
  => Excused(row.version)

\* A save that was answered is settled: posted, refused, replaced or cancelled,
\* unless every delivery of its job was used up or a run's writes failed.
SavedIsSettled ==
  \A v \in Versions :
    save[v] = "done" /\ row = [version |-> v, status |-> "pending"]
      ~> row # [version |-> v, status |-> "pending"] \/ Abandoned(v) \/ v \in faulted

\* "The message will not be delivered if cancelled": once a cancel is answered
\* and no save is under way or follows, nothing is posted any more.
CancelledIsNotDelivered == [][cancel = "clean" => sent' = sent]_vars
=============================================================================
