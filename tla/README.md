# Formal models of rdchat

TLA+ modules, TLC configurations and TLAPS proofs for the parts of this
repository whose correctness depends on the order of events: the gateway's
resumable sessions, how they get their process and their guilds, the job queue
and its cron scheduler, and the API's scheduled messages. Paths below are
relative to the repository root unless they name a module.

## 1. The system and its parts

| Part | Where | State it keeps | Operations | What makes it correct |
|---|---|---|---|---|
| Client socket | `fluxer_app/src/lib/GatewaySocket.tsx` | connection state, session id, last sequence number, heartbeat and reconnect timers | connect, disconnect, handle a frame, heartbeat, resume or identify, recover in the foreground | its sequence number covers only what it has applied; it always comes back |
| WebSocket handler | `fluxer_gateway/src/gateway/gateway_handler.erl` | one process per connection: session pid and its monitor, heartbeat deadline | client frames by opcode, messages from the session, `'DOWN'` of the session | frames in order; a client is told when its session is gone |
| Session | `fluxer_gateway/src/session/session.erl`, `session_dispatch.erl`, `session_monitor.erl`, `session_ready.erl` | seq, ack_seq, buffer, socket pid and monitor, ready, guilds, presence, calls | dispatch, heartbeat_ack, resume, terminate, `'DOWN'`, resume_timeout, readiness | nothing unacknowledged is lost; a resume leaves no gap; abandoned sessions end |
| Session connections | `session_connection.erl` | guild connect attempts in flight, retries, presence pid | connect to presence, guilds and calls, with timeouts and backoff | the retries never break off; a late answer does no harm; what the client holds of a guild is what the guild is |
| Session manager | `session_manager.erl`, `session_manager_shard.erl`, `telemetry/process_registry.erl` | shard pids, in a map and in a table; identifies in flight, session id to pid | start, lookup, proxy calls, restart a shard, register a session | one live process per session id; every call is answered; no session outlives its client for ever |
| Guilds | `fluxer_gateway/src/guild/` | members, sessions and their admission queue, availability, subscriptions, voice states | admit a session, dispatch, permissions, become unavailable | events reach exactly the sessions allowed to see them |
| Voice and calls | `fluxer_gateway/src/guild/voice/`, `call/` | pending joins, voice states | join, confirm, move, disconnect | no ghost voice state |
| Presence | `fluxer_gateway/src/presence/` | sessions of a user, status, subscriptions | session connect, update, `'DOWN'` | the published status follows the sessions |
| Push | `fluxer_gateway/src/push/` | caches of settings and subscriptions | deliver a notification | none beyond the cache |
| Queue engine | `packages/queue/src/engine/` | job records, ready heap, two delay queues, deduplication index, snapshot file | enqueue, dequeue, ack, nack, changeVisibility, retryJob, deleteJob, timers, snapshot, start, stop | no job lost or stranded, leases exclusive, attempts bounded, keys unique |
| Cron scheduler | `packages/queue/src/cron/CronScheduler.tsx` | schedules, next and last run, snapshot | upsert, delete, tick, start, stop | each due run is enqueued, once; the file is whole and current |
| API jobs | `packages/api/src/worker/` (`WorkerRunner`, `JetStreamWorkerQueue`) | the JetStream work queue, one durable consumer; the messages a worker pulled | publish, pull, run, acknowledge, give back, stop | a job is run at least once |
| Scheduled messages | `packages/api/src/channel/services/ScheduledMessageService.tsx`, `worker/executors/ScheduledMessageExecutor.tsx` | one row per message, one job per save | create, update, cancel, post, mark invalid | what is pending has its job; posted once; not posted after a cancel |
| Worker runtime | `packages/worker/src/runtime/` | worker loops, abort signal | poll, run a task, complete, fail, stop | (no deployed process uses it) |
| Caches, locks, coalescer | `packages/cache/`, `packages/kv_client/` | keys with expiry, locks | get, set, acquireLock, releaseLock | a lock has one holder |
| Rate limiter, snowflake, limits | `packages/rate_limit/`, `packages/snowflake/`, `packages/limits/` | counters | check, next, resolve | bounds hold, ids are unique |
| Relay and directory | `fluxer_relay/`, `fluxer_relay_directory/` | connection counts | forward frames | counts match connections |
| API, admin, media, S3, marketing, docs, desktop | `packages/api/`, `packages/media_proxy/`, ... | databases and files | request handlers | request by request; nothing a model checker adds to |
| Client stores | `fluxer_app/src/lib/ChannelMessages.tsx`, `MessageQueue.tsx`, `fluxer_app/src/stores/` | windows of messages, pending sends | apply events, load, send | the list is what the server holds |

How they interact. A client opens a WebSocket; Cowboy runs a handler process
for it, which sends HELLO. The client answers IDENTIFY or RESUME. On IDENTIFY
the handler asks the session manager, which starts a session process; handler
and session monitor each other. The session collects its guilds and presence
by casts, sends READY, and from then on turns dispatch casts from guilds into
numbered events, which it sends to the handler as Erlang messages; the handler
writes them to the socket. A guild is joined through a helper process, which
finds or starts the guild's process and casts a request to it; the guild puts
the session in an admission queue, lets a worker compute its state and answers
with a message that names the attempt. The client's heartbeats carry the last sequence
number it recorded, which the session takes as an acknowledgement. When the
socket goes, the session waits ten seconds for a resume. The queue engine lives
in one Node process: the HTTP handlers, the workers and the cron scheduler call
it on one event loop, three timers tick in it, and it writes its state to a
file from time to time. The API's own jobs go through NATS JetStream instead:
every API process publishes to one work queue and every worker process pulls
from it through one durable consumer.

What is hard to test there: two connections of one client at once (the old one
still draining), a session dying at any moment between two messages, events
dispatched while a resume is being replayed, timers that are never cancelled,
leases that expire just before their worker answers, a process that dies in
the middle of a snapshot, a supervisor that replaces a process that was only
slow, a connect answered after its timeout, a message cancelled while it is
being posted. `PROJECT.json` lists each such hazard at its line.

## 2. The modules

| Module | What it is |
|---|---|
| `GatewaySession` | client socket, handlers and session processes, with the network between them |
| `MCGatewaySession` | its TLC instances |
| `GatewaySession_proofs` | TLAPS proofs of its types and of the event buffer |
| `GatewaySession_client` | on top of them: how events are numbered, which connection is open, what may be under way on it |
| `GatewaySession_protocol` | on top of that: what the protocol promises the client |
| `JobQueue` | what a job queue promises, without heaps, timers or files |
| `QueueEngine` | the queue engine, its snapshot file and restarts; shown to implement `JobQueue` |
| `MCQueueEngine` | its TLC instances |
| `QueueEngine_proofs` | TLAPS proofs of the safety properties of `QueueEngine`, and that it implements `JobQueue` |
| `GuildConnect`, `MCGuildConnect` | one session, one guild process and the attempts to connect them |
| `GuildConnect_proofs` | TLAPS proofs of its types, of the retry chain, of connected sessions being served and of what the client holds |
| `SessionManager`, `MCSessionManager` | the manager, its shards, the register of names and the handlers that call them, for one session id |
| `SessionManager_proofs` | TLAPS proofs of its types and safety properties |
| `JobStream` | the API's job pipeline over JetStream, whatever the jobs do |
| `ScheduledMessage`, `MCScheduledMessage` | scheduled messages, on top of `JobStream` |
| `ScheduledMessage_proofs` | TLAPS proofs of its types and safety properties, and of what the pipeline gives them |
| `CronScheduler`, `MCCronScheduler` | the cron scheduler and its snapshot file |
| `CronScheduler_proofs` | TLAPS proofs of its types and safety properties |

### 2.1 GatewaySession

**State.** One group of variables for each of the four parts, named as in the
code: a session process (`alive`, `seq`, `ack_seq`, `buffer`, `socket_pid`,
`ready`, and the messages it will still receive: `timers` counts armed
`resume_timeout`s, `doomed` a `terminate_force` in its mailbox); a handler
process (`handler`, `session_pid`, `call`, `backpressure`); a connection
(`link`, `toClient`, `toServer`); the client (`connectionState`, `socket`,
`activeSessionId`, `lastSequenceNumber`, and its timers). Two history variables
serve the properties only: `log[s]`, every event a session has sent with the
number it was given and whether it was buffered, and `applied`, the events the
client has handed to its stores.

**Actions.** One for each message a process handles: `Dispatch`, `GuildLeave`,
`DispatchReady`, `SocketDown`, `ResumeTimeout`, `Terminate`, `ServeResume` for
the session; `HandleIdentify`, `HandleResume`, `FinishResume`,
`ResumeCallExits`, `HandleHeartbeat`, `HandlerSessionDown`, `HandlerCloses`,
`HandlerLinkDown` for the handler; `Reconnect`, `RecoverOnForeground`,
`Disconnect`, `ClientReceive` (with one disjunct per kind of frame),
`SendIdentify`, `SendHeartbeat` for the client; `Drop` for the network. A resume
takes three steps because `gen_server:call` does: the handler calls, the session
answers (and attaches the new socket), the handler writes the replay. A
heartbeat is one step: the call it makes changes the session and nothing else
can happen in the handler meanwhile, and its order against other session
messages is the same as if the call were made at once.

**Abstractions.** A handler's mailbox and the socket it feeds are one FIFO. A
name of a session or a connection may be used again once nobody mentions it,
which keeps the instance finite without losing runs. A monitor's `'DOWN'` is the
action that is enabled while the monitored process is dead. Which events a
session sends is left open: only their numbers and identities matter. Time is
not modelled: a timer may fire whenever it is armed, and `canResumeSession`,
which compares clocks, may go either way where it is asked: when the reconnect
timer fires (`Reconnect`, line 881), which clears the session, and again at HELLO
(`OnHello`, line 639; only with `LapseAtHello`), which does not. A replay is put
on the connection at once, but the client reads it frame by frame and `Drop` may
take what is left of it at any point.

**Left out.** Token checks and the close 4004; the five-second timeouts of calls
to the session; heartbeats the server asks for (opcode 1 to the client);
asynchronous decompression (`getPreferredCompression` returns `none`); ignored
events, the reaction and presence buffers; the URL promise in `openSocket`; a
reconnect timer that stays armed in a connected client. `AlreadyAuthenticated`
is in the handler's code and in the model, but this client never provokes it.

**Switches.** `MaxGuildLeaves`, `ReadyTail`, `ForegroundRecovery` and
`LapseAtHello` switch on four behaviours of the code that break a promise of its
documentation (see 4). The runs that check the promises have them off, so that
they say what holds otherwise; `gateway_server`, the run of the server's own
invariants, has all four on, and `gateway_guild_leave` the first.

### 2.2 QueueEngine

**State.** `jobs` (the record map), `readyQueue` (how often each job is in the
heap: a second entry would be a bug the model can show), `scheduledQueue` and
`inflightQueue` (the delay queues, with a flag for entries that are due),
`deduplicationIndex`, `snapshotPromise` (the image a write in progress holds),
`disk`, and the process `mode`. Histories: `fate`, `leases` (receipts issued),
`persisted`, `revived`.

**Actions.** One per call: `Enqueue`, `TryDequeueOne`, `Ack`, `Nack`,
`ChangeVisibility`, `RetryJob`, `DeleteJob`; one per timer tick:
`ProcessScheduledJobs` and `ProcessVisibilityTimeouts`, each taking everything
that is due; `RunAtComes` and `DeadlinePasses` for time; `CaptureSnapshot` and
`FinishSnapshot` for the two halves of `saveSnapshot`, `Stop`, `Crash`, `Start`.
The engine runs on one event loop, so a call is atomic up to its first `await`;
only the snapshot has one that matters. `dequeue` is a loop of `tryDequeueOne`
that may sleep between rounds; each round is an action.

**Abstractions.** No clock: an entry is due at some moment. Any ready job may be
the one a poll gets, so filters, priorities and the heap are over-approximated.
A call with an unknown receipt or a duplicate key changes nothing and is a
stutter. A snapshot that cannot be read back is not modelled, nor `resetState`,
which only tests call. While `stop` waits for the file the process still serves
calls: nothing in the code refuses them.

**The abstract specification.** `JobQueue` says what producers and workers may
rely on: a job is unknown, waiting, leased to the holder of one receipt, or
dead; only the last receipt counts; a restart may forget a job only if no
snapshot ever held it, and may bring a finished one back, so that the queue
delivers at least once. `KeepsPromise` is `JobQueue`'s specification under the
mapping `ClientState(Visible[j])`: while the process is up a job is what its
record says (ready and scheduled jobs are both waiting), and while it is down
it is what the file would be loaded as. A crash is therefore `Recover`, loading
the file afterwards is invisible, and a snapshot reaching the disk is
`Persist`. Timer ticks that fail several leases at once are one `GiveBack`.

### 2.3 GuildConnect

**State.** The session's `guilds[G]` (`entry`: undefined, cached as unavailable,
or the guild process it is connected to), `guild_connect_inflight[G]`
(`inflight`), `presence_pid` being there, READY being due and what was collected
for it; the messages and timers under way, each tagged with its attempt number
as in the code; the guild's process, its availability, and its entry for the
session (`admitted`, `admission`, `queued`, `workers`). `view` is what the
client's GuildStore includes of the guild's events.

**Actions.** `GuildConnect`, `HelperResult`, `GuildConnectTimeout`,
`ReceiveFromGuild` (a connect result, an event, a forced leave, a `'DOWN'`),
`ReceiveNotice`, `PresenceConnected` and `PrematureReadiness` for the session;
`Lookup` for the helper process that runs `do_guild_connect`;
`SessionConnectAsync`, `StartWorker`, `WorkerDone`, `Dispatch`,
`BecomesUnavailable`, `BecomesAvailable`, `GuildStops`, `GuildStarts` for the
guild; joins, leaves and a crowd of other connects for the environment.

**Abstractions.** Messages of one sender stay in order, timers and helpers are
bags. An event is its number, a guild's state the number of events it includes.
Attempt numbers above the limit are one number. `MaxDeferredAttempt` and
`MaxRetryAttempts` are the code's limits made smaller. A timer that ends an
attempt still under way counts as a disturbance, a timer whose request was lost
does not.

**Left out.** The presence process going down again, and a presence connect that
fails; calls; the guild's own membership checks; permissions, member lists,
subscriptions and voice.

### 2.4 SessionManager

**State.** The manager (its `known` shard, the `table` that handlers read, calls
it has queued and the one it is forwarding); the processes it has started for
one shard index, each with its mailbox (`inbox`), pending identify (`fetching`,
`froms`), rate-limit window, `entry` for the session id and a session it has
started and not registered yet (`starting`); the session processes with the
shard they are linked to and their `socket`; the register of names; the
handlers. `Starter` identifies, the `Resumers` look the session up.

**Actions.** `CallShard`, `CallExits`, `CallTimesOut`, `Resume`,
`HandlerSessionDown`, `HandlerCloses` for handlers; `ForwardCall`,
`ForwardCallExits`, `ManagerShardDown`, `ManagerCrashes`, `ManagerStarts`;
`HandleCall`, `CompleteIdentifyFetch`, `Register`, `ShardSessionDown`,
`WindowPasses`, `OtherIdentify`, `ShardCrashes`, `ShardParentExits`; and the
ends of a session. Starting a session and registering it are two steps, because
another shard may register the same name between them; stopping the process
that lost the name is a third.

**Abstractions.** One session id and one shard index. A `gen_server:call` is a
request in a mailbox and an answer that counts only while the caller waits: a
caller that timed out leaves its request behind. `forward_call` treats a shard
that is slow as one that is dead, so that a shard and its replacement can both
be working for the same id; nothing stops the first one. `sync_shard_table`
empties the table and fills it again, for a shard of any index; who reads it in
between goes through the manager, so a call may go that way at any time, whatever
the table holds once it is filled. The window of a
session whose client is gone is one step (`SessionAbandoned`).

**Left out.** Hot code upgrades, counts, other shard indexes, tokens, and what
the RPC to fetch the session's data returns beyond success or failure.

### 2.5 JobStream and ScheduledMessage

`JobStream` is the pipeline: `stream` and `deliveries` on the server,
`outstanding` ack waits, the messages each worker has pulled (`inbox`), the one
it runs (`task`), its `running` flag. Messages are pulled ahead and run one after
the other, and the ack wait runs from delivery, so it may end while a message is
still queued behind a long task. Delivery, the end of an ack wait, taking,
acknowledging, giving back, stopping, dying and restarting are its steps.

`ScheduledMessage` extends it with the API's requests and the executor. A save
is three steps (`BeginSave`, `Store`, `Publish`); a run reads the row, posts,
and deletes the row, or marks it invalid (`ReadRow`, `SendMessage`, `DeleteRow`,
`MarkInvalid`), and any of the writes may fail, which the code's catch clause
turns into `MarkInvalid`. `time[v]` is the time the v-th save asked for: the
executor compares times, not versions, and two saves may name the same time.

**Abstractions.** The body of a job is its number. Validation of the message and
of the user is a refusal that may happen. Left out: `msg.term()` of malformed
messages, creating the stream and the consumer, and `MAX_AGE`. `run_at` does not
delay a job in the model because nothing in the code reads it (see 4).

### 2.6 CronScheduler

**State.** `schedules` and `nextRun` (per id), the tick loop (`tick`, `wake`,
`visited`, and `current`, the schedule object an awaited enqueue will write its
next run to, or none once a change has replaced it), `dirty` for
`operationsSinceSnapshot > 0`, and the file system: the temporary and the final
name, the files under them and their content. Two savers, the snapshot loop
and `stop()`, run `saveSnapshot` without knowing of each other.

**Actions.** `Start`, `Stop`, `Exit`, `Crash`; `Upsert` and `Delete`; `TimerFires`,
`CallEnqueue`, `EnqueueReturns`, `EnqueueThrows`, `TickEnds`; `LoopSaves`,
`Writing` (open and truncate, then write), `Rename`, `SaveFails`; `ClockTicks`.
Each `await` of the code is a boundary between two actions. A `Map` iteration
also visits entries added during it: a schedule deleted and added again is
visited again, one merely replaced is not.

**Abstractions.** A definition of a schedule is the set of instants its cron
expression is due at (none when it is disabled) and the rest of it, its payload:
an upsert of another payload alone is a change too. Schedules may be changed as
long as the process runs, while `stop()` is awaited and after it as well; such a
change is `missed`, as one made during a save is, because no later save need
write it. `lastRunMs` decides nothing. Starting again in the process that
stopped is not modelled, only in a new one. Of two saves writing one file, the
later may leave a tail of the other (`Torn`).

## 3. The runs

| Run | Checks | Instance | Shows |
|---|---|---|---|
| `gateway_protocol` | `SequenceIsCumulative`, `AckSafe`, `ResumeIsComplete`, `ResumeNeverRefused`, `ReorderConfinedToReplay` | 2 sessions, 3 connections, buffer 2, 3 events, 2 faults; 1.0 million states | a resume leaves no gap, acknowledgements never outrun the client, reordering stays inside a replay |
| `gateway_server` | `TypeOK`, `BufferInv` | 2 sessions, 2 connections, buffer 1, all switches on; 0.8 million states | the buffer is exactly the unacknowledged events, whatever the client sends |
| `gateway_liveness` | `ClientRecovers`, `AbandonedSessionStops` | buffer 1, 1 event, 2 faults; 0.13 million states | the client comes back, abandoned sessions end |
| `queue_engine` | `TypeOK`, `QueuesMirrorJobs`, `DedupIndexSound`, `DedupUniqueUnlessRevived`, `AttemptsBounded`, `HonoursLatestLease`, `PersistedJobsSurvive` | 2 jobs, 1 key, maxAttempts 2, 1 restart, 1 intervention; 2.0 million states | the queues and records agree, no stale receipt, no persisted job lost |
| `queue_liveness` | `QueueDrains`, `KeepsPromise` | the same without interventions; 0.46 million states | the engine implements `JobQueue`; every job ends, even if no worker answers |
| `guild_connect` | `TypeOK`, `NeverGivesUp`, `ConnectedIsServed`, `MissesOnlySkipped`, `ClientAgrees`, `EndsUpConnected` | retry limit 2, 2 events, 2 disturbances; 0.37 million states | the retry chain never breaks, a session that believes it is connected is served, and the client's copy of the guild agrees with it |
| `session_manager` | `TypeOK`, `NoStraySession`, `AttachedIsRegistered`, `EveryCallEnds`, `NobodyIsLeftBehind`, `ShardsRecover` | 2 handlers, 3 shard processes, 3 session processes, 2 disturbances; 76 thousand states | one registered process for an id, every call answered, no orphan |
| `scheduled_message` | `TypeOK`, `PendingHasJob`, `PostedOnce`, `RowTellsTheTruth`, `SavedIsSettled` | 2 saves, 2 workers, 2 deliveries, 1 failure; 0.53 million states | what is pending has its job, what was posted was posted once and is not shown as pending, with the exceptions named |
| `cron_scheduler` | `TypeOK`, `OncePerInstant`, `FileIsWhole`, `CleanMeansSaved`, `DueRunsEventually` | 2 schedules, 3 definitions, 4 instants, 2 changes, 1 failure; 0.69 million states | no run is enqueued twice, none that is due stalls, the file is whole and current |
| `gateway_guild_leave`, `scheduled_cancel`, `cron_stop` | one promise of a document or a test each | the passing run's, or what the counterexample needs | the promise is broken, see 4 |

**Bounds.** Two sessions are what it takes for a session to die and another to
take its client; three connections for a second drop while the first connection
is still draining, which is when a replayed event can be replayed again or a
stale RESUME be served. A buffer of two and three events let the buffer overflow,
be trimmed in part and be replayed in part. `MaxFaults` bounds what the
environment does to the system: drops, client timeouts, overflows, terminations
and refusals; two of them give drop-then-drop and drop-then-death. In the queue,
two jobs with one key are the smallest conflict; two attempts let a job fail,
come back and be buried; one restart with the write of an image cut anywhere
gives every pair of an image and the memory after it. `MaxInterventions` bounds
admin calls and lease extensions. `KeepsPromise` also holds on the instance of
`queue_engine`, interventions included, where the two together take too long
for one run. The proofs in 5 need none of these bounds.

For a guild, two disturbances give every pair of a crash, a failed or timed out
attempt, a change of availability, a join, a leave and a crowd; with a retry
limit of two an attempt is retried, used up and started over, so that a late
timer or result meets a later attempt of its own number. Two events tell an
event that was computed into a state from one that was sent. For the manager,
two disturbances cover a slow shard that is replaced and then dies, or whose
caller gives up; three shard processes are as many as two disturbances can make.
With three disturbances and four shards (1.0 million states) the invariants hold as
well. A scheduled message needs two saves for a job to be stale, two workers for
two runs of one job, two deliveries for a redelivery, and one failure is enough
to separate any write from the next. The scheduler's clock runs to 3 with
pauses of at most 2, so a timer may fire early, on time or late; two schedules
with one change each are the smallest case of a walk that meets a change. Of its
three definitions one is due twice, and the other two differ in their payload only.

**Symmetry.** Names of sessions, connections and jobs are interchangeable; the
safety runs of the gateway protocol and the queue engine use it, no other run
does.

**Fairness.** For the gateway: a process reads its mailbox, a monitor fires, an
armed timer fires, a client that lost its socket opens another, and frames that
arrived are read. These are guarantees of the Erlang runtime and of the timers
in `GatewaySocket`. Nothing is assumed of dispatches, heartbeats or faults, and
where an action has an alternative that counts as a fault, only the other
alternative is fair. `GuildConnect` and `SessionManager` assume the same of their
processes, and that helper processes end (their calls and HTTP requests have
timeouts), that a guild being started comes up, that other guilds' connects
end, and that the supervisor restarts the manager. The presence process may
never answer, and no call is assumed to time out. For the queue: time passes,
the loops tick, some worker polls now and then, a write of the snapshot ends,
and a stopped process is started again. No worker is assumed to answer. For
scheduled messages: a request that has begun is carried through, JetStream
delivers what it may and ends ack waits, and workers go on and are restarted.
For the cron scheduler: the clock, the timers, awaited calls, and the service
being started; nothing is assumed of changes.

**Deadlock.** `CHECK_DEADLOCK` is off where the system comes to rest within the
bounds: in the queue when every job is done, for a guild and a session id when
all is connected or closed and the disturbances are used up, for a scheduled
message when both saves are settled, and for the scheduler when its clock has
reached its last instant.

Every property of a passing run has a mutant in `PROJECT.json`: a change of one
definition, of the kind a slip in the code would make, that makes TLC find it
violated. They stand next to the definitions they change, marked "(Mutant: ...)".

## 4. Where the code and its documents disagree

### With a run

1. `session.erl:301` (`gateway_guild_leave`): `guild_leave` drops the state
   `handle_dispatch` returned. The GUILD_DELETE takes a number that the next
   event takes again, and is not in the buffer; a resume misses it.
2. `ScheduledMessageExecutor.tsx:101` (`scheduled_cancel`): a cancel answered
   between the read of the row and the post does not keep the message from
   being posted, as the controller's description says it does.
3. `CronScheduler.tsx:355` (`cron_stop`): `stop()` and the snapshot loop may save
   at once through one temporary file; when `stop()` has returned the file may
   be torn or hold the older image.

### Seen while modelling

Each is in the model, or follows from what it leaves out; the properties are
worded so that they say what holds nevertheless.

Sessions. A bot's guild events after READY are numbered and sent, not buffered
(`session_ready.erl:181`): a drop loses them and the resume claims success
(`ReadyTail`). The client asks twice whether its session can be resumed: the
reconnect timer clears a session that cannot (`GatewaySocket.tsx:881`), HELLO
only identifies (639). When the window lapses between the two, or ahead of a
connection that foreground or network recovery opens without asking, the new
session inherits the old number: its heartbeats acknowledge events the client
has not seen, and a RESUME is refused or incomplete (`LapseAtHello`:
`SequenceIsCumulative`, `AckSafe`, `ResumeIsComplete` and `ResumeNeverRefused`
are then false). Foreground and network recovery carry a number over without any
lapse as well: a client whose session was invalidated identifies while still
`Connected`, records the numbers of events that come before READY (490), and
when that connection is lost the recovery skips the timer that would have
forgotten them (`ForegroundRecovery`: `SequenceIsCumulative` and `AckSafe` are
then false). Events are sent before READY (`session_dispatch.erl:63`), which the
docs call the first event.

Guild connections. What reaches a session between the collection of a guild's
state and READY is overwritten by READY in the client; a forced leave or a
guild's end before READY leaves the collected state in it (`early`). Events
between the start of a connect worker and its end reach neither the state nor
the session (`skipped`). Attempt numbers start over, so an old worker's result or a stale
thirty-second timer can pass for a later attempt's (`overtaken`); a worker that
fails connects the session all the same. A session whose connect is pending when
the guild becomes available again is not told (`guild_availability.erl:160`). A plain
`guild_leave` that arrives while the session is connecting is ignored
(`session.erl:305`). A presence connect that times out is not retried
(`session_connection.erl:144`).

The manager. `forward_call` does not stop a shard it takes for dead, and what that
shard holds is no longer counted or found through the manager; the new one
starts with an empty rate-limit window. A lookup that times out is answered as a
session that does not exist. When the manager ends, its table, its shards and
all their sessions end with it.

The queue. `retryJob` does not take the deduplication key back
(`QueueEngine.tsx:391`): two live jobs with one key. A job on its last attempt
when the process stopped is leased again after a restart (`QueueEngine.tsx:718`).

Scheduled messages. `run_at`, `maxAttempts` and `priority` travel in a job and
are read by nobody (`WorkerRunner`), so a scheduled message is posted as soon as
a worker is free, whatever `fluxer_docs/resources/users.mdx:715` says of its time.
An update that races a post is deleted with the row; an update that races a
cancel brings the row back, and a `markInvalid` after a cancel creates a row of
its own. A crash between posting and deleting posts twice. A job whose ack waits
all end behind long tasks is never run. If publishing fails the row stays
pending for ever, and messages expire in the stream after seven days while the
API accepts times thirty days ahead.

The scheduler. An upsert does not set the tick timer anew, so it may be a minute
late; a schedule that comes due during a tick waits for the next one; several
instants that passed at once are one run; an enqueue that fails skips its run,
and so do runs that were due while the service was down.
`operationsSinceSnapshot` is set to zero after the awaits of a save, so that
changes made during it are not saved until the next change (`missed`). A tick
that is waiting goes on enqueuing after `stop()`.

## 5. What is proved

Every safety property that a passing run checks (of `queue_engine`,
`guild_connect`, `session_manager`, `scheduled_message`, `cron_scheduler`,
`gateway_server` and `gateway_protocol`), and the refinement `KeepsPromise`, are
theorems. What is assumed of the constants is the assumption each module names
(`QueueAssumption` and the others): that bounds are naturals, that null values
are not among the values they stand beside, that a file cut off in the middle is
not an image. TLC evaluates each on every run. Otherwise the constants have any
value, with one exception: the theorems about the client's part of the gateway
protocol assume `SwitchesOff`, as their run does.

Most properties are not inductive: each comes from an invariant that says more.
A proof has one step per action; what several actions share is a lemma. TLC
checked each invariant on the instance of its run before it was proved.

### Queue engine

| Theorem | Property | Inductive invariant |
|---|---|---|
| `TypeCorrect` | `TypeOK` | itself |
| `QueuesAlwaysMirrorJobs` | `QueuesMirrorJobs` | `MirrorInv` (theorem `MirrorInvariant`) |
| `IndexAlwaysSound`, `DedupWorks` | `DedupIndexSound`, `DedupUniqueUnlessRevived` | `KeyInv` (theorem `KeyInvariant`) |
| `AttemptsAlwaysBounded` | `AttemptsBounded` | `AttemptsInv` |
| `OldLeasesAreRefused` | `HonoursLatestLease` | itself, with `MirrorInv` |
| `PersistedJobsAlwaysSurvive` | `PersistedJobsSurvive` | `DurableInv` (theorem `DurableInvariant`) |
| `Refinement` | `KeepsPromise` | `LoadInv`, with `MirrorInv` and `DurableInv` |

A property speaks of the memory of the running engine, but a restart replaces
that memory by an image, so whatever is to hold after a restart must be known of
the image on disk and of the one being written. `MirrorInv` adds that an image's
receipts belong to inflight records and that it knows no job that was never
enqueued. `KeyInv` adds the converse of the index being sound: a live job whose
key was never revived owns its entry, in memory and in both images. `AttemptsInv`
adds that a job that waits for a lease has an attempt left, counting restarts,
and that loading an image while the process is stopping or down keeps that.
`DurableInv` says which jobs an image may be missing: only those that are done.
Lemmas state once what the updates of a record (`Unleased`, `Leased`, `Revived`,
`Restored`), a promotion (`Promotion`), a failure (`Failed`), an expiry
(`Expiry`) and the release of keys (`KeyReleased`) do.

The refinement's proof maps each action to one step of `JobQueue` or to a
stutter. `LoadInv` is what the end of a process needs: every job in the file was
counted as stored, so what `Recover` may forget is exactly what the file lacks.

### Gateway session

| Theorem | Property | Inductive invariant |
|---|---|---|
| `TypeCorrect` | `TypeOK` | itself |
| `BufferAlwaysSound` | `BufferInv` | `BufferIndInv` (theorem `BufferIndInvariant`) |
| `CumulativeNumber` | `SequenceIsCumulative` | `NumberInv`, `GoodInv` (theorem `GoodInvariant`) |
| `SafeAcknowledgement` | `AckSafe` | the same |
| `CompleteResume` | `ResumeIsComplete` | `LinkInv` (theorem `LinkInvariant`), `GoodInv` |
| `AcceptedResume` | `ResumeNeverRefused` | `GoodInv` |
| `ConfinedReorder` | `ReorderConfinedToReplay` | `GoodInv` |

`BufferInv` is about running sessions; `BufferIndInv` adds that a stopped one
leaves no buffer, which the next session of that name starts from, and the
types: a heartbeat's number comes off the wire, so what a session trims is only
known to be a suffix of its buffer because every frame in flight is typed.
`EventsAfterProperties` is the lemma of that suffix, `DispatchedBuffer`,
`UnbufferedEvents` and `AcknowledgedBuffer` say what the three ways to change
seq, buffer and log do, and the steps that change none of them share one lemma.
These two theorems are about the server: they hold with every switch on.

The other five are about a client, a handler and a session at once, at the ends of
two queues. They assume `SwitchesOff` (`MaxGuildLeaves = 0`, `ReadyTail = 0`, no
`ForegroundRecovery`, no `LapseAtHello`): with one of those behaviours on, some of
them are false (section 4). That each of the five needs all four off is not
claimed. Everything else is arbitrary: how many sessions and connections
there are, the buffer's limit, how many events, losses and crashes.
They are read off five invariants, each proved with the help of those before it:

- `NumberInv`: an event's number is its place in the log, and a session that
  stops leaves no number to the next one of its name.
- `LinkInv`: only the client's present socket is open; a close is the last frame.
- `ShapeInv`: which frames and calls may be under way at once. A connection is
  about one session; its handler identifies, asks, replays or serves; a client
  waiting for HELLO or after an invalid session hears of no session; a connected
  one has no replay to come. This is what makes the client's one
  `lastSequenceNumber` belong to the session its frames are about.
- `FactInv`: what a frame or call says of a session is true of its log. A
  session that somebody names in order to resume it has sent READY, its only event
  that is not buffered.
- `GoodInv`: every number said of a session (by the client to itself, in a
  RESUME or heartbeat under way, in `ack_seq`) counts events that
  the client has applied. And of an event it has not applied: it is in the queue
  before RESUMED, or in the replay that a handler is about to write, or after
  both. That splits into `CallGood`, `FrameGap`, `SessionGap` and `Ordered`.

`BufferInv` joins them where a RESUME is taken: what the session replays is what
is buffered and not acknowledged, so with `ack_seq` good it is all that is missing.

### Guild connections

| Theorem | Property | Inductive invariant |
|---|---|---|
| `TypeCorrect` | `TypeOK` | with `LifeInv` (theorem `TypeInvariant`) |
| `TheChainNeverBreaks` | `NeverGivesUp` | its two conjuncts, `FlightInv` and `TryingInv` |
| `ConnectedAlwaysServed` | `ConnectedIsServed` | `AdmissionInv`, `ServedInv` (theorem `ServedInvariant`) |
| `ClientMissesOnlySkipped` | `MissesOnlySkipped` | `MissInv` (theorem `MissInvariant`) |
| `ClientAlwaysAgrees` | `ClientAgrees` | `IdleInv` (theorem `IdleInvariant`), `AgreeInv` (theorem `AgreeInvariant`) |

`LifeInv` bounds the guild's processes by the disturbances: each but the first
follows the end of another. The three properties about a connected session
are about moments when nothing is on its way, so their invariants say the same of
every message on its way. `ServedInv`: whoever holds a process for connected
is served by it, or has a message coming that says otherwise, and a result in the
mailbox will hold when it is read. `MissInv`: for each state and event in the
mailbox, and for each state a worker is computing, what it will lack once
what stands before and after it has been applied was skipped. `AgreeInv`: the
collected state, the results and the workers' computations agree with the
guild's availability, or a change of it stands behind them in the mailbox.

### Session manager

| Theorem | Property | Inductive invariant |
|---|---|---|
| `TypeCorrect` | `TypeOK` | with `InOrder` (theorem `OrderInvariant`) |
| `NeverAStraySession` | `NoStraySession` | itself |
| `AttachedAlwaysRegistered` | `AttachedIsRegistered` | `ReferInv` (theorem `ReferInvariant`) |

`InOrder` says that processes are numbered in the order they start, so that
nobody refers to the next one yet. A handler is told of a session long after a
shard found it: `ReferInv` says of the shards' tables, the handlers and the
register that they name the registered session or one that has ended, and that a
session being registered is one shard's and does not have the name yet.

### Scheduled messages

| Theorem | Property | Inductive invariant |
|---|---|---|
| `TypeCorrect` | `TypeOK` | with `RunInv` (theorem `RunInvariant`) |
| `PostedAtMostOnce` | `PostedOnce` | `RunInv` |
| `PendingAlwaysHasJob` | `PendingHasJob` | `RunInv` |
| `RowAlwaysTellsTheTruth` | `RowTellsTheTruth` | `RunInv` |

`RunInv` has five parts. `CopyInv` is about the pipeline alone: a job that was
never late is held by one worker at most, once, and the server waits for
its answer. `SaveInv` is the order of a save's steps; `WorkInv` what a run knows
of the row it has read; `PostInv` that a version was posted by a run that is
about to delete its row or has; `PendInv` that the job of a row that waits is
not dropped. The exceptions (`Excused`) are those of the properties. How often a
version is posted in all, late deliveries included, is bounded by a sum over
every delivery; the type of `sent` therefore has no bound.

### Cron scheduler

| Theorem | Property | Inductive invariant |
|---|---|---|
| `TypeCorrect` | `TypeOK` | with `SaverInv` (theorem `SaversInvariant`) |
| `RunsOncePerInstant` | `OncePerInstant` | with `WalkInv` |
| `FileAlwaysWhole` | `FileIsWhole` | `FileInv` (theorem `FilesInvariant`) |
| `CleanAlwaysSaved` | `CleanMeansSaved` | `CleanInv` |

`WalkInv`: a schedule object is held only while its enqueue is awaited, and no
run is enqueued before its instant. `SaverInv` is the life of a save, and who may
save in which phase of the process. `FileInv` says of the two names, of the files
under them and of the one being written what keeps `start()` from reading a torn
file while saves do not overlap. `CleanMeansSaved` speaks of moments between
saves; `CleanInv` is about every moment, and says that the image under way is
the schedules as long as no change has missed it.

### Only model-checked

- Liveness, which the prover cannot do: `QueueDrains`, `ClientRecovers`,
  `AbandonedSessionStops`, `EndsUpConnected`, `EveryCallEnds`,
  `NobodyIsLeftBehind`, `ShardsRecover`, `SavedIsSettled`, `DueRunsEventually`.

## 6. Plan

In this order.

1. For each theorem of `GatewaySession_protocol`, which of the four switches
   it needs off, and the theorems with the others on.
2. The presence process, with the sessions it knows and their departure; the
   steps of `openSocket` and the reconnect timer that stays armed.
3. `PriorityQueue` as a function, checked against sorting; the rate limiter's
   step; cache locks; voice joins.

### Not modelled

The worker runtime of `packages/worker` is used by no deployed process: the
API's workers run `WorkerRunner` of `packages/api`, which is modelled. The bulk
of the repository is outside the reach of these methods: the client's user
interface, the API's request handlers over Cassandra, the OpenAPI and markdown
converters and the media pipeline keep no state of their own between requests,
or none whose order of changes another component depends on. Voice, presence
and push notifications are left for lack of room, not of interest; `PROJECT.json`
names each part and the reason.
