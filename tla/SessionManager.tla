--------------------------- MODULE SessionManager ---------------------------
(***************************************************************************)
(* How a session id gets its process: session_manager, the processes it    *)
(* starts for one shard index one after another, the table handlers read   *)
(* the shard's pid from, and the register of names (process_registry).     *)
(* One session id is followed: Starter is the handler that identifies with *)
(* it, the Resumers look it up later.                                      *)
(*                                                                         *)
(* A gen_server call is a request in the inbox of the callee and an answer *)
(* that counts only while the caller still waits for it.                   *)
(***************************************************************************)
EXTENDS Naturals, FiniteSets

CONSTANTS
  Starter, Resumers, \* handlers
  MaxShards,         \* bound: processes the manager starts for the index
  MaxSessions,       \* bound: session processes started for the id
  MaxDisturbances    \* bound: crashes, timeouts, ends, closes, other identifies

ASSUME ManagerAssumption ==
  /\ Starter \notin Resumers
  /\ {MaxShards, MaxSessions, MaxDisturbances} \subseteq Nat /\ MaxShards > 0

Handlers == {Starter} \cup Resumers
Shards == 1..MaxShards
Pids == 1..MaxSessions

VARIABLES
  \* the manager
  manager,    \* the number of its process, and
  managerUp,  \* whether it runs
  known,      \* the pid in its map of shards
  queue,      \* the callers of the proxy_calls in its mailbox
  forwarding, \* [caller, shard, last]: the call forward_call waits in, or {}
  table,      \* the pid in the shard table, 0 if there is none
  \* the shards, by pid
  shard,      \* "none", "up" or "down"
  owner,      \* the manager that started it
  inbox,      \* requests [caller, via]
  fetching,   \* an identify of the id is pending
  froms,      \* ... and who waits for it
  attempts,   \* an identify in the window of the rate limit
  entry,      \* sessions[id], 0 if there is none
  starting,   \* a session started and not registered yet, 0 if there is none
  \* the sessions of the id, by pid
  alive,      \* "none", "alive" or "dead"
  parent,     \* the shard that started it
  socket,     \* its socket_pid
  registered, \* the process registered under the session's name, or 0
  \* the handlers
  phase,      \* what a handler is doing
  target,     \* the shard a direct call went to
  sessionPid, \* the session it was given
  disturbances

managerVars == <<manager, managerUp, known, queue, forwarding, table>>
shardVars   == <<shard, owner, inbox, fetching, froms, attempts, entry, starting>>
sessionVars == <<alive, parent, socket, registered>>
handlerVars == <<phase, target, sessionPid>>
vars == <<managerVars, shardVars, sessionVars, handlerVars, disturbances>>

Via == {"direct", "manager"}
Requests == [caller : Handlers, via : Via]
Disturb == disturbances < MaxDisturbances /\ disturbances' = disturbances + 1

Init ==
  /\ manager = 1 /\ managerUp = TRUE /\ known = 1 /\ queue = {} /\ forwarding = {} /\ table = 1
  /\ shard = [n \in Shards |-> IF n = 1 THEN "up" ELSE "none"]
  /\ owner = [n \in Shards |-> IF n = 1 THEN 1 ELSE 0]
  /\ inbox = [n \in Shards |-> {}]
  /\ fetching = [n \in Shards |-> FALSE] /\ froms = [n \in Shards |-> {}]
  /\ attempts = [n \in Shards |-> FALSE]
  /\ entry = [n \in Shards |-> 0] /\ starting = [n \in Shards |-> 0]
  /\ alive = [p \in Pids |-> "none"] /\ parent = [p \in Pids |-> 1]
  /\ socket = [p \in Pids |-> Starter] /\ registered = 0
  /\ phase = [h \in Handlers |-> "idle"] /\ target = [h \in Handlers |-> 0]
  /\ sessionPid = [h \in Handlers |-> 0]
  /\ disturbances = 0

-----------------------------------------------------------------------------
(* The handlers.                                                           *)

Success(p) == [pid |-> p, error |-> "none"]
Error(reason) == [pid |-> 0, error |-> reason]

\* What a handler does with an answer: start_session, handle_resume
PhaseAfter(h, answer) ==
  CASE answer.error = "none" -> IF h = Starter THEN "attached" ELSE "resuming"
    [] answer.error = "identify_rate_limited" -> "refused"
    [] answer.error \in {"failed", "not_found"} -> IF h = Starter THEN "closed" ELSE "missing"

\* The handlers H get an answer.
Answer(H, answer) ==
  /\ phase' = [h \in Handlers |-> IF h \in H THEN PhaseAfter(h, answer) ELSE phase[h]]
  /\ sessionPid' = [h \in Handlers |-> IF h \in H THEN answer.pid ELSE sessionPid[h]]

\* call_via_manager
CallViaManager(h) ==
  IF managerUp
  THEN /\ queue' = queue \cup {h} /\ phase' = [phase EXCEPT ![h] = "manager"]
       /\ UNCHANGED sessionPid
  ELSE Answer({h}, Error("failed")) /\ UNCHANGED queue

\* session_manager:start of an IDENTIFY, lookup of a RESUME: call_shard.  The
\* manager empties the table and fills it again whenever it replaces a shard,
\* of this index or another (sync_shard_table): who reads it meanwhile finds no
\* shard in it, though there is one.
CallShard(h) ==
  /\ phase[h] = "idle"
  /\ h # Starter => \E p \in Pids : alive[p] # "none"
  /\ \/ /\ table # 0 /\ shard[table] = "up"
        /\ phase' = [phase EXCEPT ![h] = "direct"] /\ target' = [target EXCEPT ![h] = table]
        /\ inbox' = [inbox EXCEPT ![table] = @ \cup {[caller |-> h, via |-> "direct"]}]
        /\ UNCHANGED <<queue, sessionPid>>
     \/ CallViaManager(h) /\ UNCHANGED <<target, inbox>>
  /\ UNCHANGED <<manager, managerUp, known, forwarding, table, shard, owner, fetching, froms,
                 attempts, entry, starting, sessionVars, disturbances>>

\* The shard died under the call.
CallExits(h) ==
  /\ phase[h] = "direct" /\ shard[target[h]] = "down"
  /\ CallViaManager(h)
  /\ UNCHANGED <<manager, managerUp, known, forwarding, table, shardVars, sessionVars, target,
                 disturbances>>

\* {error, timeout}; the request stays where it is.
CallTimesOut(h) ==
  /\ phase[h] \in {"direct", "manager"} /\ Disturb /\ Answer({h}, Error("failed"))
  /\ UNCHANGED <<managerVars, shardVars, sessionVars, target>>

\* handle_resume_with_session: the call exits if the session is gone.
Resume(h) ==
  /\ phase[h] = "resuming"
  /\ IF alive[sessionPid[h]] = "alive"
     THEN /\ socket' = [socket EXCEPT ![sessionPid[h]] = h]
          /\ phase' = [phase EXCEPT ![h] = "attached"]
     ELSE phase' = [phase EXCEPT ![h] = "closed"] /\ UNCHANGED socket
  /\ UNCHANGED <<managerVars, shardVars, alive, parent, registered, target, sessionPid,
                 disturbances>>

\* 'DOWN' of the session: invalid_session.
HandlerSessionDown(h) ==
  /\ phase[h] = "attached" /\ alive[sessionPid[h]] = "dead"
  /\ phase' = [phase EXCEPT ![h] = "missing"]
  /\ UNCHANGED <<managerVars, shardVars, sessionVars, target, sessionPid, disturbances>>

\* The connection ends.
HandlerCloses(h) ==
  /\ phase[h] \in {"attached", "missing", "refused"} /\ Disturb
  /\ phase' = [phase EXCEPT ![h] = "closed"]
  /\ UNCHANGED <<managerVars, shardVars, sessionVars, target, sessionPid>>

-----------------------------------------------------------------------------
(* The manager.                                                            *)

Started == {n \in Shards : shard[n] # "none"}
NextShard == Cardinality(Started) + 1

\* (Mutant: the table is not told.)
OnlyInTheMap(n) == known' = n /\ UNCHANGED table

\* (Mutant: map and table lose the shard.)
Emptied(n) == known' = 0 /\ table' = 0

\* start_shards, restart_shard: the map and the table have the new pid.  What
\* is read in the midst of it is in CallShard.
Synced(n) == known' = n /\ table' = n

\* A shard is started.  The one it replaces is not stopped.
StartShard(n, m) ==
  /\ n \in Shards
  /\ shard' = [shard EXCEPT ![n] = "up"] /\ owner' = [owner EXCEPT ![n] = m]
  /\ Synced(n)

SentTo(n, h) == inbox' = [inbox EXCEPT ![n] = @ \cup {[caller |-> h, via |-> "manager"]}]

\* {proxy_call, ...}: forward_call, up to its first call
ForwardCall(h) ==
  /\ managerUp /\ forwarding = {} /\ h \in queue /\ queue' = queue \ {h}
  /\ IF shard[known] = "up" THEN UNCHANGED <<shard, owner, known, table>> ELSE StartShard(NextShard, manager)
  /\ SentTo(known', h)
  /\ forwarding' = {[caller |-> h, shard |-> known', last |-> FALSE]}
  /\ UNCHANGED <<manager, managerUp, fetching, froms, attempts, entry, starting, sessionVars,
                 handlerVars, disturbances>>

\* The call of forward_call exits: the shard died, or it is merely slow.  It is
\* replaced and asked once more.
ForwardCallExits ==
  \E call \in forwarding :
    /\ managerUp /\ UNCHANGED <<manager, managerUp, queue>>
    /\ \/ shard[call.shard] = "down" /\ UNCHANGED disturbances
       \/ shard[call.shard] = "up" /\ Disturb
    /\ IF call.last
       THEN /\ forwarding' = {}
            /\ Answer({call.caller} \cap {h \in Handlers : phase[h] = "manager"}, Error("failed"))
            /\ UNCHANGED <<known, table, shard, owner, inbox>>
       ELSE /\ StartShard(NextShard, manager) /\ SentTo(NextShard, call.caller)
            /\ forwarding' = {[caller |-> call.caller, shard |-> NextShard, last |-> TRUE]}
            /\ UNCHANGED <<phase, sessionPid>>
    /\ UNCHANGED <<fetching, froms, attempts, entry, starting, sessionVars, target>>

\* 'DOWN' and 'EXIT' of the shard in the map.
ManagerShardDown ==
  /\ managerUp /\ forwarding = {} /\ shard[known] = "down"
  /\ StartShard(NextShard, manager)
  /\ UNCHANGED <<manager, managerUp, queue, forwarding, inbox, fetching, froms, attempts, entry, starting,
                 sessionVars, handlerVars, disturbances>>

\* The manager dies: the table goes with it, and whoever waits for it is told.
ManagerCrashes ==
  /\ managerUp /\ Disturb /\ managerUp' = FALSE /\ table' = 0
  /\ queue' = {} /\ forwarding' = {}
  /\ Answer({h \in Handlers : phase[h] = "manager"}, Error("failed"))
  /\ UNCHANGED <<manager, known, shardVars, sessionVars, target>>

\* The supervisor starts it again.
ManagerStarts ==
  /\ ~managerUp /\ managerUp' = TRUE /\ manager' = manager + 1
  /\ StartShard(NextShard, manager + 1)
  /\ UNCHANGED <<queue, forwarding, inbox, fetching, froms, attempts, entry, starting, sessionVars,
                 handlerVars, disturbances>>

-----------------------------------------------------------------------------
(* A shard.                                                                *)

Idle(n) == shard[n] = "up" /\ starting[n] = 0

\* The shard answers the requests R: whoever still waits for it takes it.
Reply(n, R, answer) ==
  LET Waits(call) == call.shard = n /\ [caller |-> call.caller, via |-> "manager"] \in R
      ByManager   == {call \in forwarding : Waits(call)}
      Directly    == {h \in Handlers : /\ phase[h] = "direct" /\ target[h] = n
                                       /\ [caller |-> h, via |-> "direct"] \in R}
  IN  /\ forwarding' = forwarding \ ByManager
      /\ Answer(Directly \cup {h \in Handlers : /\ phase[h] = "manager"
                                                /\ \E call \in ByManager : call.caller = h},
                answer)

NoReply == UNCHANGED <<forwarding, phase, sessionPid>>

\* identify_rate_limited
RateLimited(n, r) == Reply(n, {r}, Error("identify_rate_limited")) /\ UNCHANGED <<fetching, froms>>

\* {start, Request, SocketPid} with no session of the id in sight.
HandleIdentify(n, r) ==
  IF fetching[n]
  THEN /\ froms' = [froms EXCEPT ![n] = @ \cup {r}] /\ NoReply
       /\ UNCHANGED <<fetching, attempts>>
  ELSE IF attempts[n] THEN RateLimited(n, r) /\ UNCHANGED attempts
  ELSE /\ attempts' \in {attempts, [attempts EXCEPT ![n] = TRUE]} \* if the limit is enabled
       /\ fetching' = [fetching EXCEPT ![n] = TRUE] /\ froms' = [froms EXCEPT ![n] = {r}]
       /\ NoReply

\* {start, ...} and {lookup, ...}: handle_call
HandleCall(n, r) ==
  /\ Idle(n) /\ r \in inbox[n] /\ inbox' = [inbox EXCEPT ![n] = @ \ {r}]
  /\ LET found == IF entry[n] # 0 THEN entry[n] ELSE registered
     IN  IF found # 0
         THEN /\ entry' = [entry EXCEPT ![n] = found] /\ Reply(n, {r}, Success(found))
              /\ UNCHANGED <<fetching, froms, attempts>>
         ELSE /\ UNCHANGED entry
              /\ IF r.caller = Starter THEN HandleIdentify(n, r)
                 ELSE Reply(n, {r}, Error("not_found")) /\ UNCHANGED <<fetching, froms, attempts>>
  /\ UNCHANGED <<manager, managerUp, known, queue, table, shard, owner, starting, sessionVars, target,
                 disturbances>>

\* (Mutant: an identify that failed is dropped.)
NobodyTold(n) == NoReply

\* reply_to_waiters of an identify that failed.
TellWaiters(n) == Reply(n, froms[n], Error("failed"))

Created == {p \in Pids : alive[p] # "none"}

\* The worker sent {identify_fetch_result, ...}, or its 'DOWN' came: the
\* identify fails, finds a process, or starts one (up to session:start_link).
CompleteIdentifyFetch(n) ==
  /\ Idle(n) /\ fetching[n] /\ fetching' = [fetching EXCEPT ![n] = FALSE]
  /\ \/ /\ Disturb /\ TellWaiters(n) /\ froms' = [froms EXCEPT ![n] = {}]
        /\ UNCHANGED <<entry, starting, alive, parent, socket>>
     \/ /\ registered # 0 /\ entry' = [entry EXCEPT ![n] = registered]
        /\ Reply(n, froms[n], Success(registered)) /\ froms' = [froms EXCEPT ![n] = {}]
        /\ UNCHANGED <<starting, alive, parent, socket, disturbances>>
     \/ /\ registered = 0 /\ Cardinality(Created) < MaxSessions
        /\ LET p == Cardinality(Created) + 1
           IN  /\ starting' = [starting EXCEPT ![n] = p]
               /\ alive' = [alive EXCEPT ![p] = "alive"] /\ parent' = [parent EXCEPT ![p] = n]
               /\ socket' = [socket EXCEPT ![p] = Starter]
        /\ NoReply /\ UNCHANGED <<froms, entry, disturbances>>
  /\ UNCHANGED <<manager, managerUp, known, queue, table, shard, owner, inbox, attempts, registered,
                 target>>

\* The identify ends with the process found, if there is one.
Finish(n, found) ==
  /\ starting' = [starting EXCEPT ![n] = 0] /\ froms' = [froms EXCEPT ![n] = {}]
  /\ entry' = [entry EXCEPT ![n] = found]
  /\ Reply(n, froms[n], IF found = 0 THEN Error("failed") ELSE Success(found))

\* (Mutant: the process that lost is left running.)
NotStopped(n) == UNCHANGED alive /\ Finish(n, registered)

\* force_stop_process
ForceStop(n) ==
  /\ alive' = [alive EXCEPT ![starting[n]] = "dead"]
  /\ NoReply /\ UNCHANGED <<starting, froms, entry>>

\* (Mutant: the name is taken over.)
NameNotYet(p) == registered # p

\* register/2 succeeds.
NameFree(p) == registered = 0

\* start_session_process, register_and_monitor: the process gets the name, or
\* it is stopped and the one that has the name then takes its place.
Register(n) ==
  LET p == starting[n]
  IN  /\ shard[n] = "up" /\ p # 0
      /\ \/ alive[p] = "alive" /\ NameFree(p) /\ registered' = p /\ Finish(n, p) /\ UNCHANGED alive
         \/ alive[p] = "alive" /\ ~NameFree(p) /\ ForceStop(n) /\ UNCHANGED registered
         \/ alive[p] = "dead" /\ Finish(n, registered) /\ UNCHANGED <<alive, registered>>
      /\ UNCHANGED <<manager, managerUp, known, queue, table, shard, owner, inbox, fetching, attempts,
                     parent, socket, target,
                 disturbances>>

\* 'DOWN' of the session: cleanup_on_down
ShardSessionDown(n) ==
  /\ Idle(n) /\ entry[n] # 0 /\ alive[entry[n]] = "dead"
  /\ entry' = [entry EXCEPT ![n] = 0]
  /\ UNCHANGED <<managerVars, shard, owner, inbox, fetching, froms, attempts, starting, sessionVars,
                 handlerVars, disturbances>>

\* The window of the rate limit passes; another session identifies here.
WindowPasses(n) ==
  /\ attempts[n] /\ attempts' = [attempts EXCEPT ![n] = FALSE]
  /\ UNCHANGED <<managerVars, shard, owner, inbox, fetching, froms, entry, starting, sessionVars,
                 handlerVars, disturbances>>
OtherIdentify(n) ==
  /\ Idle(n) /\ n = table /\ ~attempts[n] /\ Disturb /\ attempts' = [attempts EXCEPT ![n] = TRUE]
  /\ UNCHANGED <<managerVars, shard, owner, inbox, fetching, froms, entry, starting, sessionVars,
                 handlerVars>>

ShardDies(n) ==
  /\ shard' = [shard EXCEPT ![n] = "down"] /\ inbox' = [inbox EXCEPT ![n] = {}]
  /\ fetching' = [fetching EXCEPT ![n] = FALSE] /\ froms' = [froms EXCEPT ![n] = {}]
  /\ attempts' = [attempts EXCEPT ![n] = FALSE]
  /\ entry' = [entry EXCEPT ![n] = 0] /\ starting' = [starting EXCEPT ![n] = 0]
  /\ UNCHANGED <<managerVars, owner, sessionVars, handlerVars>>

ShardCrashes(n) == shard[n] = "up" /\ Disturb /\ ShardDies(n)

\* The manager that started it is gone.
ShardParentExits(n) ==
  /\ Idle(n) /\ (owner[n] # manager \/ ~managerUp)
  /\ ShardDies(n) /\ UNCHANGED disturbances

-----------------------------------------------------------------------------
(* A session process.                                                      *)

SessionDies(p) ==
  /\ alive[p] = "alive" /\ alive' = [alive EXCEPT ![p] = "dead"]
  /\ registered' = IF registered = p THEN 0 ELSE registered
  /\ UNCHANGED <<managerVars, shardVars, parent, socket, handlerVars>>

\* It is terminated, or crashes.
SessionEnds(p) == Disturb /\ SessionDies(p)

\* 'EXIT' of the shard that started it.
SessionParentExits(p) == shard[parent[p]] = "down" /\ SessionDies(p) /\ UNCHANGED disturbances

\* (Mutant: only the handler of a session that was answered is watched.)
WasAttached(p) == phase[socket[p]] = "closed" /\ sessionPid[socket[p]] = p

\* monitor(process, SocketPid) also reports a handler that is already gone.
SocketGone(p) == phase[socket[p]] = "closed"

\* resume_timeout
SessionAbandoned(p) == SocketGone(p) /\ SessionDies(p) /\ UNCHANGED disturbances

-----------------------------------------------------------------------------
Next ==
  \/ \E h \in Handlers :
       \/ CallShard(h) \/ CallExits(h) \/ CallTimesOut(h) \/ Resume(h)
       \/ HandlerSessionDown(h) \/ HandlerCloses(h) \/ ForwardCall(h)
  \/ ForwardCallExits \/ ManagerShardDown \/ ManagerCrashes \/ ManagerStarts
  \/ \E n \in Shards :
       \/ \E r \in Requests : HandleCall(n, r)
       \/ CompleteIdentifyFetch(n) \/ Register(n) \/ ShardSessionDown(n)
       \/ WindowPasses(n) \/ OtherIdentify(n) \/ ShardCrashes(n) \/ ShardParentExits(n)
  \/ \E p \in Pids : SessionEnds(p) \/ SessionParentExits(p) \/ SessionAbandoned(p)

Spec == Init /\ [][Next]_vars

HandlerRuns == \E h \in Handlers : CallExits(h) \/ Resume(h) \/ HandlerSessionDown(h)
ManagerRuns ==
  \/ \E h \in Handlers : ForwardCall(h)
  \/ ForwardCallExits \/ ManagerShardDown \/ ManagerStarts
ShardRuns ==
  \E n \in Shards :
    \/ \E r \in Requests : HandleCall(n, r)
    \/ CompleteIdentifyFetch(n) \/ Register(n) \/ ShardSessionDown(n) \/ ShardParentExits(n)
SessionRuns == \E p \in Pids : SessionParentExits(p) \/ SessionAbandoned(p)

\* Processes read their mailboxes and learn of the processes they watch, the
\* supervisor restarts the manager, and a fetch ends (its HTTP client has
\* timeouts).  No call is assumed to time out.
Fairness == WF_vars(HandlerRuns) /\ WF_vars(ManagerRuns) /\ WF_vars(ShardRuns) /\ WF_vars(SessionRuns)

FairSpec == Spec /\ Fairness

-----------------------------------------------------------------------------
(* Properties.                                                             *)

Phases == {"idle", "direct", "manager", "resuming", "attached", "missing", "refused", "closed"}

\* Every variable has its type.
TypeOK ==
  /\ manager \in Nat /\ managerUp \in BOOLEAN
  /\ known \in Shards /\ table \in Shards \cup {0} /\ queue \subseteq Handlers
  /\ forwarding \subseteq [caller : Handlers, shard : Shards, last : BOOLEAN]
  /\ shard \in [Shards -> {"none", "up", "down"}] /\ owner \in [Shards -> Nat]
  /\ inbox \in [Shards -> SUBSET Requests] /\ froms \in [Shards -> SUBSET Requests]
  /\ fetching \in [Shards -> BOOLEAN] /\ attempts \in [Shards -> BOOLEAN]
  /\ entry \in [Shards -> Pids \cup {0}] /\ starting \in [Shards -> Pids \cup {0}]
  /\ alive \in [Pids -> {"none", "alive", "dead"}] /\ parent \in [Pids -> Shards]
  /\ socket \in [Pids -> Handlers] /\ registered \in Pids \cup {0}
  /\ phase \in [Handlers -> Phases] /\ target \in [Handlers -> Shards \cup {0}]
  /\ sessionPid \in [Handlers -> Pids \cup {0}] /\ disturbances \in 0..MaxDisturbances

\* However many shards work on an identify at once, a session that runs is the
\* one that has the name, unless its shard is still registering it or is gone.
NoStraySession ==
  \A p \in Pids : alive[p] = "alive" =>
    p = registered \/ starting[parent[p]] = p \/ shard[parent[p]] = "down"

\* A handler that serves a running session serves the one that lookups find.
AttachedIsRegistered ==
  \A h \in Handlers :
    phase[h] = "attached" /\ alive[sessionPid[h]] = "alive" => sessionPid[h] = registered

\* Every start and lookup gets an answer, whatever dies meanwhile.
EveryCallEnds ==
  \A h \in Handlers : phase[h] \in {"direct", "manager"} ~> phase[h] \notin {"direct", "manager"}

\* A session whose client is gone, or gave up before it was started, ends.
NobodyIsLeftBehind == <>[](\A p \in Pids : alive[p] = "alive" => ~ phase[socket[p]] = "closed")

\* In the end handlers find a shard that works, and it is the manager's.
ShardsRecover == <>[](table # 0 /\ shard[table] = "up" /\ known = table)
=============================================================================
