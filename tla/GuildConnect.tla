---------------------------- MODULE GuildConnect ----------------------------
(***************************************************************************)
(* How one session gets and keeps its connection to one guild process:     *)
(* session_connection, session_ready and session_monitor on the session's  *)
(* side, the admission queue of guild.erl and guild_availability on the    *)
(* guild's side, and the processes that run do_guild_connect in between.   *)
(*                                                                         *)
(* Messages of one sender arrive in order (inbox, notices); timers and     *)
(* helper processes are bags, since nothing orders them.  Time is not      *)
(* modelled: a timer may fire at any moment after it was armed.            *)
(***************************************************************************)
EXTENDS Naturals, Sequences

CONSTANTS
  MaxRetryAttempts,   \* ?MAX_RETRY_ATTEMPTS
  MaxDeferredAttempt, \* the cap of retry_timeout_without_penalty
  Undefined, Cached, \* guilds[G] of a session that is not connected
  None,
  MaxEvents,          \* bound: events the guild dispatches
  MaxDisturbances     \* bound: crashes, failures, transitions, joins and leaves

ASSUME GuildConnectAssumption ==
  /\ {MaxRetryAttempts, MaxDeferredAttempt, MaxEvents, MaxDisturbances} \subseteq Nat
  /\ MaxDeferredAttempt <= MaxRetryAttempts
  /\ {Undefined, Cached, None} \cap Nat = {} /\ Undefined # Cached

\* Attempt numbers grow without limit only while a guild is cached as
\* unavailable; those above the limit are one (bound).
Attempts == 0..(MaxRetryAttempts + 1)
After(a) == IF a > MaxRetryAttempts THEN a ELSE a + 1

\* The processes a guild has been, by number.
Lives == 1..(MaxDisturbances + 1)

VARIABLES
  \* the session
  entry,      \* guilds[G]: Undefined, Cached or the life it is connected to
  inflight,   \* guild_connect_inflight[G], or None
  ready,      \* READY is still to be sent
  presence,   \* presence_pid is set
  collected,  \* the guild state collected for READY (what it includes), or None
  premature,  \* the premature_readiness timer is armed
  crowded,    \* eight other guilds of the session are being connected
  \* messages
  connects,   \* bag of {guild_connect, G, A}
  timeouts,   \* bag of {guild_connect_timeout, G, A}
  helpers,    \* bag of do_guild_connect processes and their results
  requests,   \* bag of {session_connect_async, A} to the guild
  inbox,      \* from the guild to the session
  notices,    \* {guild_join, G} and {guild_leave, G} to the session
  \* the guild
  life,       \* the number of the guild's latest process
  guild,      \* that process: "down", "starting", "up"
  unavailable,\* the guild is unavailable to this user; also the cache
  admitted,   \* the session's entry: "none", "pending", "connected"
  admission,  \* session_connect_pending: the attempt, or None
  queued,     \* the attempt in session_connect_queue, or None
  workers,    \* running workers [attempt, snap, unavailable, old]
  events,     \* how many events the guild has dispatched
  \* what the client holds
  present,    \* the guild is in its GuildStore
  view,       \* the events its state of the guild includes
  \* history and bounds
  left,       \* the session dropped the guild on a guild_leave
  skipped,    \* events dispatched while the guild held the session back
  early,      \* something about the guild was dispatched before READY
  overtaken,  \* see WorkerDone and BecomesAvailable
  disturbances

session  == <<entry, inflight, ready, presence, collected, premature, crowded>>
messages == <<connects, timeouts, helpers, requests, inbox, notices>>
process  == <<life, guild, unavailable, admitted, admission, queued, workers, events>>
client   == <<present, view>>
history  == <<left, skipped, early, overtaken>>
vars == <<session, messages, process, client, history, disturbances>>

-----------------------------------------------------------------------------
Outcomes == {"lookup", "cached", "deferred", "failed"}
Put(bag, x)  == [bag EXCEPT ![x] = @ + 1]
Take(bag, x) == [bag EXCEPT ![x] = @ - 1]

Connected == entry \in Lives
Disturb == disturbances < MaxDisturbances /\ disturbances' = disturbances + 1

Init ==
  /\ entry = Undefined /\ inflight = None /\ ready = TRUE /\ presence = FALSE
  /\ collected = None /\ premature = TRUE /\ crowded = FALSE
  /\ connects = [a \in Attempts |-> IF a = 0 THEN 1 ELSE 0]
  /\ timeouts = [a \in Attempts |-> 0] /\ requests = [a \in Attempts |-> 0]
  /\ helpers = [h \in Attempts \X Outcomes |-> 0]
  /\ inbox = <<>> /\ notices = <<>>
  /\ life \in {0, 1} /\ guild = (IF life = 1 THEN "up" ELSE "down") /\ unavailable \in BOOLEAN
  /\ admitted = "none" /\ admission = None /\ queued = None /\ workers = {} /\ events = 0
  /\ present = FALSE /\ view = {}
  /\ left = FALSE /\ skipped = {} /\ early = FALSE /\ overtaken = FALSE
  /\ disturbances = 0

-----------------------------------------------------------------------------
(* READY and what the client is told.                                      *)

\* dispatch_ready_data: the client's store becomes what was collected.
SendReady(snap) ==
  /\ ready' = FALSE /\ collected' = None
  /\ present' = (snap # None)
  /\ view' = IF snap = None THEN {} ELSE 1..snap

\* check_readiness: presence is there and so is an entry for every guild.
CheckReadiness(hasPresence, hasEntry, snap) ==
  IF ready /\ hasPresence /\ hasEntry THEN SendReady(snap)
  ELSE collected' = snap /\ UNCHANGED <<ready, client>>

\* (Mutant: the events are numbered from zero.)
TellFromZero(isPresent, snap) ==
  /\ present' = isPresent /\ view' = IF isPresent THEN 0..snap ELSE {}
  /\ early' = (early \/ ready)

\* A guild_create (with the state after snap events) or guild_delete event.
TellClient(isPresent, snap) ==
  /\ present' = isPresent /\ view' = IF isPresent THEN 1..snap ELSE {}
  /\ early' = (early \/ ready)

\* process_guild_state.  A state that says "unavailable" adds nothing to the
\* client's store.
ProcessGuildState(isUnavailable, snap) ==
  IF ready
  THEN /\ CheckReadiness(presence, TRUE, IF isUnavailable THEN collected ELSE snap)
       /\ UNCHANGED early
  ELSE TellClient(~isUnavailable, snap) /\ UNCHANGED <<ready, collected>>

\* The presence process answered session_connect.
PresenceConnected ==
  /\ ~presence /\ presence' = TRUE
  /\ UNCHANGED <<entry, early>> /\ CheckReadiness(TRUE, entry # Undefined, collected)
  /\ UNCHANGED <<inflight, premature, crowded, messages, process, left, skipped, overtaken,
                 disturbances>>

\* premature_readiness, three seconds after the start.
PrematureReadiness ==
  /\ premature /\ premature' = FALSE
  /\ IF ready THEN SendReady(collected) ELSE UNCHANGED <<ready, collected, client>>
  /\ UNCHANGED <<entry, inflight, presence, crowded, messages, process, history, disturbances>>

-----------------------------------------------------------------------------
(* The session: connect attempts.                                          *)

\* maybe_spawn_guild_connect, when the rest of the messages are bag.
SpawnConnect(a, bag) ==
  CASE inflight # None            -> connects' = bag /\ UNCHANGED <<inflight, helpers>>
    [] inflight = None /\ crowded -> connects' = Put(bag, a) /\ UNCHANGED <<inflight, helpers>>
    [] OTHER -> /\ connects' = bag /\ inflight' = a
                /\ helpers' = Put(helpers, <<a, "lookup">>)

\* {guild_connect, G, A}: handle_guild_connect
GuildConnect(a) ==
  /\ connects[a] > 0
  /\ LET bag == Take(connects, a)
     IN  \/ Connected /\ connects' = bag /\ UNCHANGED <<entry, inflight, helpers>>
         \/ /\ entry = Cached /\ unavailable
            /\ connects' = Put(bag, After(a)) /\ UNCHANGED <<entry, inflight, helpers>>
         \/ entry = Cached /\ ~unavailable /\ entry' = Undefined /\ SpawnConnect(0, bag)
         \/ entry = Undefined /\ SpawnConnect(a, bag) /\ UNCHANGED entry
  /\ UNCHANGED <<ready, presence, collected, premature, crowded, timeouts, requests, inbox,
                 notices, process, client, history, disturbances>>

\* do_guild_connect: the lookup, the cache, the cast and the timer, or an
\* error for the session.
Lookup(a) ==
  /\ helpers[<<a, "lookup">>] > 0
  /\ LET Report(outcome) == helpers' = Put(Take(helpers, <<a, "lookup">>), <<a, outcome>>)
     IN  \/ /\ guild = "up" /\ ~unavailable
            /\ helpers' = Take(helpers, <<a, "lookup">>)
            /\ requests' = Put(requests, a) /\ timeouts' = Put(timeouts, a)
            /\ UNCHANGED <<guild, disturbances>>
         \/ /\ guild = "up" /\ unavailable /\ Report("cached")
            /\ UNCHANGED <<guild, requests, timeouts, disturbances>>
         \/ /\ guild # "up" /\ guild' = "starting" /\ Report("deferred")
            /\ UNCHANGED <<requests, timeouts, disturbances>>
         \/ /\ Disturb /\ \E outcome \in {"deferred", "failed"} : Report(outcome)
            /\ UNCHANGED <<guild, requests, timeouts>>
  /\ UNCHANGED <<session, connects, inbox, notices, life, unavailable, admitted, admission, queued,
                 workers, events, client, history>>

\* (Mutant: an attempt that fails is not tried again.)
NoRetry(a) == IF a < MaxRetryAttempts THEN connects ELSE Put(connects, 0)

\* retry_or_fail: another attempt, or from the beginning after a minute.
RetryOrFail(a) == Put(connects, IF a < MaxRetryAttempts THEN a + 1 ELSE 0)

\* A result or a timeout counts only for the attempt in flight.
Current(a) == inflight = a

\* An error, or the answer of the cache: handle_guild_connect_result
HelperResult(a, outcome) ==
  /\ outcome # "lookup" /\ helpers[<<a, outcome>>] > 0
  /\ helpers' = Take(helpers, <<a, outcome>>)
  /\ IF ~Current(a) THEN UNCHANGED <<entry, inflight, connects, ready, collected, client>>
     ELSE /\ inflight' = None
          /\ CASE outcome = "cached" ->
                    /\ entry' = Cached /\ connects' = Put(connects, After(a))
                    /\ IF entry = Cached THEN UNCHANGED <<ready, collected, client>>
                       ELSE CheckReadiness(presence, TRUE, collected)
               [] outcome = "deferred" ->
                    /\ connects' = Put(connects, IF a < MaxDeferredAttempt THEN a + 1
                                                 ELSE MaxDeferredAttempt)
                    /\ UNCHANGED <<entry, ready, collected, client>>
               [] outcome = "failed" ->
                    connects' = RetryOrFail(a) /\ UNCHANGED <<entry, ready, collected, client>>
  /\ UNCHANGED <<presence, premature, crowded, timeouts, requests, inbox, notices, process,
                 history, disturbances>>

\* Somebody is working on attempt a, or its result is on its way.
Underway(a) ==
  \/ requests[a] > 0 \/ queued = a \/ \E worker \in workers : worker.attempt = a
  \/ \E outcome \in Outcomes : helpers[<<a, outcome>>] > 0
  \/ \E i \in DOMAIN inbox : inbox[i].type = "result" /\ inbox[i].attempt = a

\* {guild_connect_timeout, G, A}.  The timer is not cancelled by a result.
\* (Bound: it ends an attempt that is under way only as a disturbance.)
GuildConnectTimeout(a) ==
  /\ timeouts[a] > 0 /\ timeouts' = Take(timeouts, a)
  /\ IF Current(a) THEN inflight' = None /\ connects' = RetryOrFail(a)
     ELSE UNCHANGED <<inflight, connects>>
  /\ IF Current(a) /\ Underway(a) THEN Disturb ELSE UNCHANGED disturbances
  /\ UNCHANGED <<entry, ready, presence, collected, premature, crowded, helpers, requests, inbox,
                 notices, process, client, history>>

-----------------------------------------------------------------------------
(* The session: messages of the guild and of the presence process.         *)

Down(n, reason) == [type |-> "down", life |-> n, reason |-> reason]

\* (Mutant: a process that is already dead goes unnoticed.)
Unmonitored(n, messagesLeft) == messagesLeft

\* monitor(process, GuildPid): the signal comes at once from a dead process.
Monitored(n, messagesLeft) ==
  IF n = life /\ guild = "up" THEN messagesLeft ELSE Append(messagesLeft, Down(n, "noproc"))

\* The messages without the one at position i.
Without(i, messagesLeft) ==
  [k \in 1..(Len(messagesLeft) - 1) |->
     IF k < i THEN messagesLeft[k] ELSE messagesLeft[k + 1]]

\* demonitor(Ref, [flush]): without the one signal of the monitor, if it is
\* there already.
Flushed(n, messagesLeft) ==
  LET signals == {i \in DOMAIN messagesLeft :
                    messagesLeft[i].type = "down" /\ messagesLeft[i].life = n}
  IN  IF signals = {} THEN messagesLeft ELSE Without(CHOOSE i \in signals : TRUE, messagesLeft)

\* {guild_connect_result, G, A, Result} from the guild
ConnectResult(msg, rest) ==
  /\ IF ~Current(msg.attempt)
     THEN inbox' = rest /\ UNCHANGED <<entry, inflight, connects, ready, collected, client, early>>
     ELSE /\ inflight' = None
          /\ CASE msg.result = "error" ->
                    /\ connects' = RetryOrFail(msg.attempt) /\ inbox' = rest
                    /\ UNCHANGED <<entry, ready, collected, client, early>>
               [] msg.result # "error" /\ Connected ->
                    inbox' = rest /\ UNCHANGED <<entry, connects, ready, collected, client, early>>
               [] OTHER ->
                    /\ entry' = msg.life /\ inbox' = Monitored(msg.life, rest)
                    /\ ProcessGuildState(msg.result = "unavailable", msg.snap)
                    /\ UNCHANGED connects
  /\ UNCHANGED <<notices, left, skipped, overtaken>>

\* {dispatch, Event, Data}: an event, or the guild_create of a guild that has
\* become available.
GuildEvent(msg, rest) ==
  /\ inbox' = rest
  /\ IF msg.create THEN TellClient(TRUE, msg.event)
     ELSE /\ early' = (early \/ ready)
          /\ view' = IF present THEN view \cup {msg.event} ELSE view
          /\ UNCHANGED present
  /\ UNCHANGED <<entry, inflight, connects, ready, collected, notices, left, skipped, overtaken>>

\* {guild_leave, G, forced_unavailable}
ForcedLeave(rest) ==
  /\ inbox' = IF Connected THEN Flushed(entry, rest) ELSE rest
  /\ entry' = Cached /\ connects' = Put(connects, 0)
  /\ TellClient(FALSE, 0)
  /\ UNCHANGED <<inflight, ready, collected, notices, left, skipped, overtaken>>

\* handle_guild_down.  A killed guild makes the session leave.
GuildDown(msg, rest) ==
  /\ inbox' = rest
  /\ CASE entry # msg.life ->
            UNCHANGED <<entry, connects, notices, client, early>>
       [] entry = msg.life /\ msg.reason = "killed" ->
            notices' = Append(notices, "leave") /\ UNCHANGED <<entry, connects, client, early>>
       [] OTHER ->
            /\ entry' = Undefined /\ connects' = Put(connects, 0)
            /\ TellClient(FALSE, 0) /\ UNCHANGED notices
  /\ UNCHANGED <<inflight, ready, collected, left, skipped, overtaken>>

ReceiveFromGuild ==
  /\ inbox # <<>>
  /\ LET msg == Head(inbox)
     IN  CASE msg.type = "result" -> ConnectResult(msg, Tail(inbox))
           [] msg.type = "event"  -> GuildEvent(msg, Tail(inbox))
           [] msg.type = "leave"  -> ForcedLeave(Tail(inbox))
           [] msg.type = "down"   -> GuildDown(msg, Tail(inbox))
  /\ UNCHANGED <<presence, premature, crowded, timeouts, helpers, requests, process, disturbances>>

\* handle_cast of guild_join and guild_leave.  A session that is not connected
\* ignores the leave.
ReceiveNotice ==
  /\ notices # <<>> /\ notices' = Tail(notices)
  /\ CASE Head(notices) = "join" ->
            /\ connects' = Put(connects, 0) /\ left' = FALSE
            /\ UNCHANGED <<entry, inbox, client, early>>
       [] Head(notices) = "leave" /\ Connected ->
            /\ entry' = Undefined /\ inbox' = Flushed(entry, inbox) /\ left' = TRUE
            /\ TellClient(FALSE, 0) /\ UNCHANGED connects
       [] OTHER -> UNCHANGED <<entry, inbox, connects, client, early, left>>
  /\ UNCHANGED <<inflight, ready, presence, collected, premature, crowded, timeouts, helpers,
                 requests, process, skipped, overtaken, disturbances>>

-----------------------------------------------------------------------------
(* The guild process.                                                      *)

\* Only an attempt with a higher number replaces one that is pending.
Supersedes(a) == admission = None \/ a > admission

\* enqueue_session_connect_async and ensure_pending_session_entry
SessionConnectAsync(a) ==
  /\ guild = "up" /\ requests[a] > 0 /\ requests' = Take(requests, a)
  /\ IF Supersedes(a)
     THEN /\ admission' = a /\ queued' = a /\ admitted' = "pending"
          /\ workers' = {[worker EXCEPT !.old = TRUE] : worker \in workers}
     ELSE UNCHANGED <<admission, queued, admitted, workers>>
  /\ UNCHANGED <<session, connects, timeouts, helpers, inbox, notices, life, guild, unavailable,
                 events, client, history, disturbances>>

\* start_session_connect_worker: the worker computes from the state of now.
\* (Workers busy with other sessions may make it wait.)
StartWorker ==
  /\ guild = "up" /\ queued # None /\ queued' = None
  /\ workers' = workers \cup {[attempt |-> queued, snap |-> events, unavailable |-> unavailable,
                                old |-> FALSE]}
  /\ UNCHANGED <<session, messages, life, guild, unavailable, admitted, admission, events,
                 client, history, disturbances>>

\* The worker of the attempt that is pending.
Awaited(worker) == admission = worker.attempt

\* session_connect_worker_done: finalize_session_connect_async.  An error
\* connects the session all the same.  Attempt numbers start over, so the
\* worker of an earlier admission can complete a later one (old, overtaken).
WorkerDone(worker) ==
  /\ guild = "up" /\ worker \in workers /\ workers' = workers \ {worker}
  /\ IF ~Awaited(worker) THEN UNCHANGED <<admission, admitted, inbox, overtaken, disturbances>>
     ELSE /\ admission' = None /\ admitted' = "connected"
          /\ overtaken' = (overtaken \/ worker.old)
          /\ \E result \in {"ok", "unavailable", "error"} :
               /\ IF result = "error" THEN Disturb
                  ELSE (result = "unavailable") = worker.unavailable /\ UNCHANGED disturbances
               /\ inbox' = Append(inbox, [type |-> "result", attempt |-> worker.attempt,
                            result |-> result, life |-> life, snap |-> worker.snap])
  /\ UNCHANGED <<session, connects, timeouts, helpers, requests, notices, life, guild, unavailable,
                 queued, events, client, left, skipped, early>>

\* (Mutant: a session is held back while a worker computes for it.)
NotComputing == admitted = "connected" /\ workers = {}

\* The sessions that are not pending receive what the guild dispatches.
Receives == admitted = "connected"

\* A guild event.
Dispatch ==
  /\ guild = "up" /\ events < MaxEvents /\ events' = events + 1
  /\ inbox' = IF Receives
              THEN Append(inbox, [type |-> "event", create |-> FALSE, event |-> events'])
              ELSE inbox
  /\ skipped' = IF admitted = "connected" THEN skipped ELSE skipped \cup {events'}
  /\ UNCHANGED <<session, connects, timeouts, helpers, requests, notices, life, guild, unavailable,
                 admitted, admission, queued, workers, client, left, early, overtaken,
                 disturbances>>

\* (Mutant: the admission goes on.)
AdmissionKept == UNCHANGED <<admission, queued>>

\* cleanup_connect_admission_for_session
CleanupAdmission == admission' = None /\ queued' = None

\* handle_unavailability_transition to unavailable: the session is removed.
BecomesUnavailable ==
  /\ guild = "up" /\ ~unavailable /\ Disturb /\ unavailable' = TRUE
  /\ IF admitted = "none" THEN UNCHANGED <<admitted, admission, queued, inbox>>
     ELSE /\ inbox' = Append(inbox, [type |-> "leave"])
          /\ admitted' = "none" /\ CleanupAdmission
  /\ UNCHANGED <<session, connects, timeouts, helpers, requests, notices, life, guild, workers,
                 events, client, history>>

\* ... and back: the sessions that are not pending get a guild_create.
BecomesAvailable ==
  /\ guild = "up" /\ unavailable /\ Disturb /\ unavailable' = FALSE
  /\ inbox' = IF admitted = "connected"
              THEN Append(inbox, [type |-> "event", create |-> TRUE, event |-> events])
              ELSE inbox
  /\ overtaken' = (overtaken \/ admitted = "pending")
  /\ UNCHANGED <<session, connects, timeouts, helpers, requests, notices, life, guild, admitted,
                 admission, queued, workers, events, client, left, skipped, early>>

\* The guild process ends, and its queue, workers and mailbox with it.
GuildStops ==
  /\ guild = "up" /\ Disturb /\ guild' = "down"
  /\ \E reason \in {"other", "killed"} :
       inbox' = IF entry = life THEN Append(inbox, Down(life, reason)) ELSE inbox
  /\ admitted' = "none" /\ admission' = None /\ queued' = None /\ workers' = {}
  /\ requests' = [a \in Attempts |-> 0]
  /\ UNCHANGED <<session, connects, timeouts, helpers, notices, life, unavailable, events, client,
                 history>>

\* guild_manager has started a process for the guild.
GuildStarts ==
  /\ guild = "starting" /\ guild' = "up" /\ life' = life + 1
  /\ UNCHANGED <<session, messages, unavailable, admitted, admission, queued, workers, events,
                 client, history, disturbances>>

-----------------------------------------------------------------------------
(* The environment.                                                        *)

\* The user joins or leaves the guild; the presence process tells its sessions.
Membership(notice) ==
  /\ presence /\ Disturb /\ notices' = Append(notices, notice)
  /\ UNCHANGED <<session, connects, timeouts, helpers, requests, inbox, process, client, history>>

\* Other guilds of the session take all slots, and give them back.
Crowd ==
  /\ ~crowded /\ Disturb /\ crowded' = TRUE
  /\ UNCHANGED <<entry, inflight, ready, presence, collected, premature, messages, process, client,
                 history>>
Uncrowd ==
  /\ crowded /\ crowded' = FALSE
  /\ UNCHANGED <<entry, inflight, ready, presence, collected, premature, messages, process, client,
                 history, disturbances>>

-----------------------------------------------------------------------------
Next ==
  \/ PresenceConnected \/ PrematureReadiness
  \/ \E a \in Attempts :
       \/ GuildConnect(a) \/ Lookup(a) \/ GuildConnectTimeout(a) \/ SessionConnectAsync(a)
       \/ \E outcome \in Outcomes : HelperResult(a, outcome)
  \/ ReceiveFromGuild \/ ReceiveNotice
  \/ StartWorker \/ \E worker \in workers : WorkerDone(worker)
  \/ Dispatch \/ BecomesUnavailable \/ BecomesAvailable \/ GuildStops \/ GuildStarts
  \/ Membership("join") \/ Membership("leave") \/ Crowd \/ Uncrowd

Spec == Init /\ [][Next]_vars

\* Messages are handled, timers fire, processes end, a guild that is started
\* comes up and the other guilds' attempts end.
Fairness ==
  /\ \A a \in Attempts :
       /\ WF_vars(GuildConnect(a)) /\ WF_vars(Lookup(a))
       /\ WF_vars(GuildConnectTimeout(a)) /\ WF_vars(SessionConnectAsync(a))
       /\ \A outcome \in Outcomes : WF_vars(HelperResult(a, outcome))
  /\ WF_vars(ReceiveFromGuild) /\ WF_vars(ReceiveNotice) /\ WF_vars(PrematureReadiness)
  /\ WF_vars(StartWorker) /\ WF_vars(\E worker \in workers : WorkerDone(worker))
  /\ WF_vars(GuildStarts) /\ WF_vars(Uncrowd)

FairSpec == Spec /\ Fairness

-----------------------------------------------------------------------------
(* Properties.                                                             *)

FromGuild ==
       [type : {"result"}, attempt : Attempts, result : {"ok", "unavailable", "error"},
        life : Lives, snap : 0..MaxEvents]
  \cup [type : {"event"}, create : {TRUE}, event : 0..MaxEvents]
  \cup [type : {"event"}, create : {FALSE}, event : 1..MaxEvents]
  \cup [type : {"leave"}]
  \cup [type : {"down"}, life : Lives, reason : {"other", "killed", "noproc"}]

\* Every variable has its type.
TypeOK ==
  /\ entry \in {Undefined, Cached} \cup Lives
  /\ inflight \in Attempts \cup {None}
  /\ collected \in (0..MaxEvents) \cup {None}
  /\ {ready, presence, premature, crowded, unavailable, present} \subseteq BOOLEAN
  /\ {left, early, overtaken} \subseteq BOOLEAN
  /\ {connects, timeouts, requests} \subseteq [Attempts -> Nat]
  /\ helpers \in [Attempts \X Outcomes -> Nat]
  /\ inbox \in Seq(FromGuild) /\ notices \in Seq({"join", "leave"})
  /\ life \in Lives \cup {0} /\ guild \in {"down", "starting", "up"}
  /\ admitted \in {"none", "pending", "connected"}
  /\ {admission, queued} \subseteq Attempts \cup {None}
  /\ workers \subseteq [attempt : Attempts, snap : 0..MaxEvents, unavailable : BOOLEAN,
                  old : BOOLEAN]
  /\ events \in 0..MaxEvents /\ view \subseteq 1..MaxEvents /\ skipped \subseteq 1..MaxEvents
  /\ disturbances \in 0..MaxDisturbances

\* Something will end the attempt in flight.
WillEnd(a) ==
  \/ timeouts[a] > 0
  \/ \E outcome \in Outcomes : helpers[<<a, outcome>>] > 0

\* The retry chain never breaks: a session that has not left the guild is
\* connected, or has a connect message to come or an attempt in flight that
\* will end, whatever crashes, late timeouts and lost requests there were.
NeverGivesUp ==
  /\ inflight # None => WillEnd(inflight)
  /\ Connected \/ left \/ inflight # None \/ \E a \in Attempts : connects[a] > 0

Quiet ==
  /\ inbox = <<>> /\ notices = <<>> /\ workers = {} /\ queued = None
  /\ \A a \in Attempts : requests[a] = 0 /\ connects[a] = 0
  /\ inflight = None
  /\ \A h \in DOMAIN helpers : helpers[h] = 0

\* A session that believes it is connected is connected: when nothing is on
\* its way, the guild's latest process is up and sends it events.
ConnectedIsServed ==
  Quiet /\ Connected => entry = life /\ guild = "up" /\ admitted = "connected"

\* The client's state of a guild misses an event only if the guild dispatched
\* it while the session was not admitted (exceptions: it went out before
\* READY, or the admission was overtaken).
MissesOnlySkipped ==
  Quiet /\ Connected /\ present /\ ~early /\ ~overtaken => 1..events \subseteq view \cup skipped

\* When nothing is on its way, a guild that the session is connected to is in
\* the client's store unless it is unavailable (exceptions: something was told
\* before READY, or the admission was overtaken).
ClientAgrees ==
  Quiet /\ Connected /\ ~ready /\ ~early /\ ~overtaken => present = ~unavailable

\* In the end the session has left the guild, or is connected and served, or
\* the guild stays unavailable.
EndsUpConnected ==
  <>[](left \/ unavailable \/ (entry = life /\ guild = "up" /\ admitted = "connected"))
=============================================================================
