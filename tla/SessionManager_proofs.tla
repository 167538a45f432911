------------------------ MODULE SessionManager_proofs -----------------------
(***************************************************************************)
(* The safety properties of SessionManager, for any handlers and any       *)
(* number of shards, sessions and disturbances.                            *)
(***************************************************************************)
EXTENDS SessionManager, FiniteSetTheorems, TLAPS

-----------------------------------------------------------------------------
(* The inductive invariants.                                               *)

\* Processes are numbered in the order they start, so a new one is nobody's.
InOrder ==
  /\ \E k \in 0 .. MaxShards : Started = 1 .. k
  /\ \E k \in 0 .. MaxSessions : Created = 1 .. k

\* Whoever refers to session p refers to a process that was created, and if it
\* runs to the one that has the name.
RefersTo(p, states, name) ==
  /\ p \in Pids /\ states[p] # "none"
  /\ states[p] = "alive" => p = name

\* The tables of the shards and the handlers, which are told of a session long
\* after it was found.  A session that is being registered is one shard's and
\* does not have the name yet.
ReferInv ==
  /\ registered # 0 => alive[registered] = "alive"
  /\ \A n \in Shards : entry[n] # 0 => RefersTo(entry[n], alive, registered)
  /\ \A h \in Handlers :
       phase[h] \in {"attached", "resuming"} => RefersTo(sessionPid[h], alive, registered)
  /\ \A n \in Shards : starting[n] # 0 =>
       /\ alive[starting[n]] # "none" /\ starting[n] # registered
       /\ \A m \in Shards : starting[m] = starting[n] => m = n

-----------------------------------------------------------------------------
(* Numbers and answers.                                                    *)

\* The constants as the proofs use them.
LEMMA Numbers ==
  /\ MaxShards \in Nat /\ MaxSessions \in Nat /\ MaxDisturbances \in Nat /\ 1 \in Shards
  /\ Shards \subseteq Nat \ {0} /\ Pids \subseteq Nat \ {0}
  /\ Starter \in Handlers
BY ManagerAssumption DEF Shards, Pids, Handlers

\* The next shard and the next session are new.
LEMMA FreshShard ==
  ASSUME InOrder
  PROVE  /\ NextShard \in Nat \ {0} /\ NextShard \notin Started
         /\ Started \cup {NextShard} = 1 .. NextShard
<1>1. PICK k \in 0 .. MaxShards : Started = 1 .. k
  BY DEF InOrder
<1>2. k \in Nat
  BY Numbers
<1>3. Cardinality(1 .. k) = k
  BY <1>2, FS_Interval
<1> QED BY <1>1, <1>2, <1>3 DEF NextShard

LEMMA FreshSession ==
  ASSUME InOrder
  PROVE  /\ Cardinality(Created) \in Nat /\ Cardinality(Created) + 1 \notin Created
         /\ Created \cup {Cardinality(Created) + 1} = 1 .. (Cardinality(Created) + 1)
<1>1. PICK k \in 0 .. MaxSessions : Created = 1 .. k
  BY DEF InOrder
<1>2. k \in Nat
  BY Numbers
<1>3. Cardinality(1 .. k) = k
  BY <1>2, FS_Interval
<1> QED BY <1>1, <1>2, <1>3

\* The answers.
Answers == [pid : Pids \cup {0}, error : {"none", "identify_rate_limited", "failed", "not_found"}]

LEMMA AnswerTypes ==
  /\ \A p \in Pids : Success(p) \in Answers /\ Success(p).pid = p /\ Success(p).error = "none"
  /\ \A reason \in {"identify_rate_limited", "failed", "not_found"} :
       Error(reason) \in Answers /\ Error(reason).error = reason
BY DEF Success, Error, Answers

\* What a handler does next depends on the answer alone.
LEMMA PhasesAfter ==
  ASSUME NEW h \in Handlers, NEW answer \in Answers
  PROVE  /\ PhaseAfter(h, answer) \in Phases
         /\ PhaseAfter(h, answer) \in {"attached", "resuming"} => answer.error = "none"
BY DEF PhaseAfter, Phases, Answers

\* Answered handlers keep the types.
LEMMA AnswerType ==
  ASSUME TypeOK, NEW H, NEW answer \in Answers, Answer(H, answer)
  PROVE  phase' \in [Handlers -> Phases] /\ sessionPid' \in [Handlers -> Pids \cup {0}]
<1>1. phase' \in [Handlers -> Phases]
  BY PhasesAfter DEF Answer, TypeOK
<1>2. sessionPid' \in [Handlers -> Pids \cup {0}]
  BY DEF Answer, Answers, TypeOK
<1> QED BY <1>1, <1>2

LEMMA ReplyType ==
  ASSUME TypeOK, NEW n, NEW R, NEW answer \in Answers, Reply(n, R, answer)
  PROVE  /\ phase' \in [Handlers -> Phases] /\ sessionPid' \in [Handlers -> Pids \cup {0}]
         /\ forwarding' \subseteq [caller : Handlers, shard : Shards, last : BOOLEAN]
<1>1. PICK H : Answer(H, answer)
  BY DEF Reply
<1>2. forwarding' \subseteq forwarding
  BY DEF Reply
<1> QED BY <1>1, <1>2, AnswerType DEF TypeOK

\* A call to the manager keeps the types.
LEMMA CallType ==
  ASSUME TypeOK, NEW h \in Handlers, CallViaManager(h)
  PROVE  /\ queue' \subseteq Handlers
         /\ phase' \in [Handlers -> Phases] /\ sessionPid' \in [Handlers -> Pids \cup {0}]
<1>1. CASE managerUp
  BY <1>1 DEF CallViaManager, TypeOK, Phases
<1>2. CASE ~managerUp
  BY <1>2, AnswerType, AnswerTypes DEF CallViaManager, TypeOK
<1> QED BY <1>1, <1>2

\* So does a shard that is started.
LEMMA StartType ==
  ASSUME TypeOK, NEW n, NEW m \in Nat, StartShard(n, m)
  PROVE  /\ n \in Shards
         /\ shard' \in [Shards -> {"none", "up", "down"}] /\ owner' \in [Shards -> Nat]
         /\ known' \in Shards /\ table' \in Shards \cup {0}
BY DEF StartShard, Synced, TypeOK

LEMMA SentType ==
  ASSUME TypeOK, NEW n \in Shards, NEW h \in Handlers, SentTo(n, h)
  PROVE  inbox' \in [Shards -> SUBSET Requests]
<1>1. [caller |-> h, via |-> "manager"] \in Requests
  BY DEF Requests, Via
<1> QED BY <1>1 DEF SentTo, TypeOK

\* A disturbance is counted.
LEMMA DisturbType == ASSUME TypeOK, Disturb PROVE disturbances' \in 0 .. MaxDisturbances
BY Numbers DEF TypeOK, Disturb

-----------------------------------------------------------------------------
(* Type correctness.                                                       *)

\* The handlers.
LEMMA TypeOfHandlers ==
  ASSUME TypeOK, NEW h \in Handlers,
         \/ CallShard(h) \/ CallExits(h) \/ CallTimesOut(h) \/ Resume(h)
         \/ HandlerSessionDown(h) \/ HandlerCloses(h)
  PROVE  TypeOK'
<1> USE DEF managerVars, shardVars, sessionVars, handlerVars
<1>1. CASE CallShard(h)
  <2>1. [caller |-> h, via |-> "direct"] \in Requests
    BY DEF Requests, Via
  <2>2. CASE /\ table # 0 /\ shard[table] = "up"
             /\ phase' = [phase EXCEPT ![h] = "direct"] /\ target' = [target EXCEPT ![h] = table]
             /\ inbox' = [inbox EXCEPT ![table] = @ \cup {[caller |-> h, via |-> "direct"]}]
             /\ UNCHANGED <<queue, sessionPid>>
    <3>1. table \in Shards
      BY <2>2 DEF TypeOK
    <3>2. inbox' \in [Shards -> SUBSET Requests] /\ target' \in [Handlers -> Shards \cup {0}]
      BY <2>1, <2>2, <3>1 DEF TypeOK
    <3>3. phase' \in [Handlers -> Phases]
      BY <2>2 DEF TypeOK, Phases
    <3> QED BY <1>1, <2>2, <3>2, <3>3 DEF CallShard, TypeOK
  <2>3. CASE CallViaManager(h) /\ UNCHANGED <<target, inbox>>
    BY <1>1, <2>3, CallType DEF CallShard, TypeOK
  <2> QED BY <1>1, <2>2, <2>3 DEF CallShard
<1>2. CASE CallExits(h)
  BY <1>2, CallType DEF CallExits, TypeOK
<1>3. CASE CallTimesOut(h)
  <2>1. Answer({h}, Error("failed")) /\ Disturb
    BY <1>3 DEF CallTimesOut
  <2> QED BY <1>3, <2>1, AnswerType, AnswerTypes, DisturbType DEF CallTimesOut, TypeOK
<1>4. CASE Resume(h)
  <2>1. phase' \in [Handlers -> Phases] /\ socket' \in [Pids -> Handlers]
    BY <1>4 DEF Resume, TypeOK, Phases
  <2> QED BY <1>4, <2>1 DEF Resume, TypeOK
<1>5. CASE HandlerSessionDown(h)
  BY <1>5 DEF HandlerSessionDown, TypeOK, Phases
<1>6. CASE HandlerCloses(h)
  BY <1>6, DisturbType DEF HandlerCloses, TypeOK, Phases
<1> QED BY <1>1, <1>2, <1>3, <1>4, <1>5, <1>6

\* The manager.
LEMMA TypeOfManager ==
  ASSUME TypeOK,
         \/ \E h \in Handlers : ForwardCall(h)
         \/ ForwardCallExits \/ ManagerShardDown \/ ManagerCrashes \/ ManagerStarts
  PROVE  TypeOK'
<1> USE DEF managerVars, shardVars, sessionVars, handlerVars
<1>1. ASSUME NEW h \in Handlers, ForwardCall(h) PROVE TypeOK'
  <2>1. /\ shard' \in [Shards -> {"none", "up", "down"}] /\ owner' \in [Shards -> Nat]
        /\ known' \in Shards /\ table' \in Shards \cup {0}
    <3>1. CASE shard[known] = "up"
      BY <1>1, <3>1 DEF ForwardCall, TypeOK
    <3>2. CASE shard[known] # "up"
      <4>1. StartShard(NextShard, manager) /\ manager \in Nat
        BY <1>1, <3>2 DEF ForwardCall, TypeOK
      <4> QED BY <4>1, StartType
    <3> QED BY <3>1, <3>2
  <2>2. inbox' \in [Shards -> SUBSET Requests]
    <3>1. SentTo(known', h)
      BY <1>1 DEF ForwardCall
    <3> QED BY <2>1, <3>1, SentType
  <2>3. /\ queue' \subseteq Handlers
        /\ forwarding' \subseteq [caller : Handlers, shard : Shards, last : BOOLEAN]
    BY <1>1, <2>1 DEF ForwardCall, TypeOK
  <2> QED BY <1>1, <2>1, <2>2, <2>3 DEF ForwardCall, TypeOK
<1>2. CASE ForwardCallExits
  <2>1. PICK call \in forwarding :
          /\ UNCHANGED <<manager, managerUp, queue>>
          /\ \/ shard[call.shard] = "down" /\ UNCHANGED disturbances
             \/ shard[call.shard] = "up" /\ Disturb
          /\ IF call.last
             THEN /\ forwarding' = {}
                  /\ Answer({call.caller} \cap {h \in Handlers : phase[h] = "manager"}, Error("failed"))
                  /\ UNCHANGED <<known, table, shard, owner, inbox>>
             ELSE /\ StartShard(NextShard, manager) /\ SentTo(NextShard, call.caller)
                  /\ forwarding' = {[caller |-> call.caller, shard |-> NextShard, last |-> TRUE]}
                  /\ UNCHANGED <<phase, sessionPid>>
          /\ UNCHANGED <<fetching, froms, attempts, entry, starting, sessionVars, target>>
    BY <1>2 DEF ForwardCallExits
  <2>2. call.caller \in Handlers /\ manager \in Nat
    BY DEF TypeOK
  <2>3. disturbances' \in 0 .. MaxDisturbances
    BY <2>1, DisturbType DEF TypeOK
  <2>4. CASE call.last
    <3>1. phase' \in [Handlers -> Phases] /\ sessionPid' \in [Handlers -> Pids \cup {0}]
      BY <2>1, <2>4, AnswerType, AnswerTypes
    <3> QED BY <2>1, <2>3, <2>4, <3>1 DEF TypeOK
  <2>5. CASE ~call.last
    <3>1. StartShard(NextShard, manager) /\ SentTo(NextShard, call.caller)
      BY <2>1, <2>5
    <3>2. /\ NextShard \in Shards
          /\ shard' \in [Shards -> {"none", "up", "down"}] /\ owner' \in [Shards -> Nat]
          /\ known' \in Shards /\ table' \in Shards \cup {0}
      BY <2>2, <3>1, StartType
    <3>3. inbox' \in [Shards -> SUBSET Requests]
      BY <2>2, <3>1, <3>2, SentType
    <3>4. forwarding' \subseteq [caller : Handlers, shard : Shards, last : BOOLEAN]
      <4>1. [caller |-> call.caller, shard |-> NextShard, last |-> TRUE]
              \in [caller : Handlers, shard : Shards, last : BOOLEAN]
        BY <2>2, <3>2
      <4> QED BY <2>1, <2>5, <4>1
    <3> QED BY <2>1, <2>3, <2>5, <3>2, <3>3, <3>4 DEF TypeOK
  <2> QED BY <2>4, <2>5
<1>3. CASE ManagerShardDown
  <2>1. StartShard(NextShard, manager) /\ manager \in Nat
    BY <1>3 DEF ManagerShardDown, TypeOK
  <2> QED BY <1>3, <2>1, StartType DEF ManagerShardDown, TypeOK
<1>4. CASE ManagerCrashes
  <2>1. phase' \in [Handlers -> Phases] /\ sessionPid' \in [Handlers -> Pids \cup {0}]
    BY <1>4, AnswerType, AnswerTypes DEF ManagerCrashes
  <2> QED BY <1>4, <2>1, DisturbType DEF ManagerCrashes, TypeOK
<1>5. CASE ManagerStarts
  <2>1. StartShard(NextShard, manager + 1) /\ manager + 1 \in Nat
    BY <1>5 DEF ManagerStarts, TypeOK
  <2> QED BY <1>5, <2>1, StartType DEF ManagerStarts, TypeOK
<1> QED BY <1>1, <1>2, <1>3, <1>4, <1>5

\* The shards.
LEMMA TypeOfShards ==
  ASSUME TypeOK, InOrder, NEW n \in Shards,
         \/ \E r \in Requests : HandleCall(n, r)
         \/ CompleteIdentifyFetch(n) \/ Register(n) \/ ShardSessionDown(n)
         \/ WindowPasses(n) \/ OtherIdentify(n) \/ ShardCrashes(n) \/ ShardParentExits(n)
  PROVE  TypeOK'
<1> USE DEF managerVars, shardVars, sessionVars, handlerVars
<1>0. registered \in Pids \cup {0} /\ entry[n] \in Pids \cup {0} /\ starting[n] \in Pids \cup {0}
  BY DEF TypeOK
<1>1. ASSUME NEW r \in Requests, HandleCall(n, r) PROVE TypeOK'
  <2> DEFINE found == IF entry[n] # 0 THEN entry[n] ELSE registered
  <2>1. inbox' \in [Shards -> SUBSET Requests]
    BY <1>1 DEF HandleCall, TypeOK
  <2>2. CASE found # 0
    <3>1. entry' = [entry EXCEPT ![n] = found] /\ Reply(n, {r}, Success(found))
          /\ UNCHANGED <<fetching, froms, attempts>>
      BY <1>1, <2>2, Zenon DEF HandleCall
    <3>2. found \in Pids
      BY <1>0, <2>2
    <3>3. Success(found) \in Answers
      BY <3>2, AnswerTypes
    <3>4. entry' \in [Shards -> Pids \cup {0}]
      BY <3>1, <3>2 DEF TypeOK
    <3> HIDE DEF found
    <3> QED BY <1>1, <2>1, <3>1, <3>3, <3>4, ReplyType DEF HandleCall, TypeOK
  <2>3. CASE found = 0
    <3>1. entry' = entry
          /\ IF r.caller = Starter THEN HandleIdentify(n, r)
             ELSE Reply(n, {r}, Error("not_found")) /\ UNCHANGED <<fetching, froms, attempts>>
      BY <1>1, <2>3, Zenon DEF HandleCall
    <3>2. /\ fetching' \in [Shards -> BOOLEAN] /\ froms' \in [Shards -> SUBSET Requests]
          /\ attempts' \in [Shards -> BOOLEAN]
          /\ phase' \in [Handlers -> Phases] /\ sessionPid' \in [Handlers -> Pids \cup {0}]
          /\ forwarding' \subseteq [caller : Handlers, shard : Shards, last : BOOLEAN]
      <4>1. CASE r.caller # Starter
        BY <3>1, <4>1, ReplyType, AnswerTypes DEF TypeOK
      <4>2. CASE r.caller = Starter
        <5>1. HandleIdentify(n, r)
          BY <3>1, <4>2
        <5>2. CASE fetching[n]
          BY <5>1, <5>2 DEF HandleIdentify, NoReply, TypeOK
        <5>3. CASE ~fetching[n] /\ attempts[n]
          <6>1. /\ Reply(n, {r}, Error("identify_rate_limited"))
                /\ UNCHANGED <<fetching, froms, attempts>>
            BY <5>1, <5>3 DEF HandleIdentify, RateLimited
          <6> QED BY <6>1, ReplyType, AnswerTypes DEF TypeOK
        <5>4. CASE ~fetching[n] /\ ~attempts[n]
          <6>1. /\ attempts' = attempts \/ attempts' = [attempts EXCEPT ![n] = TRUE]
                /\ fetching' = [fetching EXCEPT ![n] = TRUE] /\ froms' = [froms EXCEPT ![n] = {r}]
                /\ NoReply
            BY <5>1, <5>4 DEF HandleIdentify
          <6>2. attempts' \in [Shards -> BOOLEAN]
            BY <6>1 DEF TypeOK
          <6>3. fetching' \in [Shards -> BOOLEAN] /\ froms' \in [Shards -> SUBSET Requests]
            BY <6>1 DEF TypeOK
          <6>4. UNCHANGED <<phase, sessionPid, forwarding>>
            BY <6>1 DEF NoReply
          <6> QED BY <6>2, <6>3, <6>4 DEF TypeOK
        <5> QED BY <5>2, <5>3, <5>4
      <4> QED BY <4>1, <4>2
    <3> QED BY <1>1, <2>1, <3>1, <3>2 DEF HandleCall, TypeOK
  <2> QED BY <2>2, <2>3
<1>2. CASE CompleteIdentifyFetch(n)
  <2>1. CASE /\ Disturb /\ TellWaiters(n) /\ froms' = [froms EXCEPT ![n] = {}]
             /\ UNCHANGED <<entry, starting, alive, parent, socket>>
    <3>1. Reply(n, froms[n], Error("failed"))
      BY <2>1 DEF TellWaiters
    <3> QED BY <1>2, <2>1, <3>1, ReplyType, AnswerTypes, DisturbType DEF CompleteIdentifyFetch, TypeOK
  <2>2. CASE /\ registered # 0 /\ entry' = [entry EXCEPT ![n] = registered]
             /\ Reply(n, froms[n], Success(registered)) /\ froms' = [froms EXCEPT ![n] = {}]
             /\ UNCHANGED <<starting, alive, parent, socket, disturbances>>
    <3>1. registered \in Pids /\ Success(registered) \in Answers
      BY <1>0, <2>2, AnswerTypes
    <3>2. /\ phase' \in [Handlers -> Phases] /\ sessionPid' \in [Handlers -> Pids \cup {0}]
          /\ forwarding' \subseteq [caller : Handlers, shard : Shards, last : BOOLEAN]
      BY <2>2, <3>1, ReplyType
    <3> QED BY <1>2, <2>2, <3>1, <3>2 DEF CompleteIdentifyFetch, TypeOK
  <2>3. CASE /\ registered = 0 /\ Cardinality(Created) < MaxSessions
             /\ LET p == Cardinality(Created) + 1
                IN  /\ starting' = [starting EXCEPT ![n] = p]
                    /\ alive' = [alive EXCEPT ![p] = "alive"] /\ parent' = [parent EXCEPT ![p] = n]
                    /\ socket' = [socket EXCEPT ![p] = Starter]
             /\ NoReply /\ UNCHANGED <<froms, entry, disturbances>>
    <3>1. Cardinality(Created) + 1 \in Pids
      BY <2>3, FreshSession, Numbers DEF Pids
    <3> QED BY <1>2, <2>3, <3>1, Numbers DEF CompleteIdentifyFetch, NoReply, TypeOK
  <2> QED BY <1>2, <2>1, <2>2, <2>3 DEF CompleteIdentifyFetch
<1>3. ASSUME NEW found \in Pids \cup {0}, Finish(n, found)
      PROVE  /\ starting' \in [Shards -> Pids \cup {0}] /\ entry' \in [Shards -> Pids \cup {0}]
             /\ froms' \in [Shards -> SUBSET Requests]
             /\ phase' \in [Handlers -> Phases] /\ sessionPid' \in [Handlers -> Pids \cup {0}]
             /\ forwarding' \subseteq [caller : Handlers, shard : Shards, last : BOOLEAN]
  <2>1. (IF found = 0 THEN Error("failed") ELSE Success(found)) \in Answers
    BY AnswerTypes
  <2> QED BY <1>3, <2>1, ReplyType DEF Finish, TypeOK
<1>4. CASE Register(n)
  <2>1. starting[n] \in Pids
    BY <1>0, <1>4 DEF Register
  <2>2. \/ registered' = starting[n] /\ Finish(n, starting[n]) /\ UNCHANGED alive
        \/ ForceStop(n) /\ UNCHANGED registered
        \/ Finish(n, registered) /\ UNCHANGED <<alive, registered>>
    BY <1>4, Zenon DEF Register
  <2>3. /\ starting' \in [Shards -> Pids \cup {0}] /\ entry' \in [Shards -> Pids \cup {0}]
        /\ froms' \in [Shards -> SUBSET Requests]
        /\ phase' \in [Handlers -> Phases] /\ sessionPid' \in [Handlers -> Pids \cup {0}]
        /\ forwarding' \subseteq [caller : Handlers, shard : Shards, last : BOOLEAN]
        /\ alive' \in [Pids -> {"none", "alive", "dead"}] /\ registered' \in Pids \cup {0}
    <3>1. CASE registered' = starting[n] /\ Finish(n, starting[n]) /\ UNCHANGED alive
      BY <1>0, <1>3, <3>1 DEF TypeOK
    <3>2. CASE ForceStop(n) /\ UNCHANGED registered
      BY <3>2 DEF ForceStop, NoReply, TypeOK
    <3>3. CASE Finish(n, registered) /\ UNCHANGED <<alive, registered>>
      BY <1>0, <1>3, <3>3 DEF TypeOK
    <3> QED BY <2>2, <3>1, <3>2, <3>3
  <2> QED BY <1>4, <2>3, Zenon DEF Register, TypeOK
<1>5. CASE ShardSessionDown(n)
  BY <1>5 DEF ShardSessionDown, TypeOK
<1>6. CASE WindowPasses(n)
  BY <1>6 DEF WindowPasses, TypeOK
<1>7. CASE OtherIdentify(n)
  BY <1>7, DisturbType DEF OtherIdentify, TypeOK
<1>8. ASSUME ShardDies(n), disturbances' \in 0 .. MaxDisturbances PROVE TypeOK'
  BY <1>8 DEF ShardDies, TypeOK
<1>9. CASE ShardCrashes(n)
  BY <1>8, <1>9, DisturbType DEF ShardCrashes
<1>10. CASE ShardParentExits(n)
  BY <1>8, <1>10 DEF ShardParentExits, TypeOK
<1> QED BY <1>1, <1>2, <1>4, <1>5, <1>6, <1>7, <1>9, <1>10

\* The session processes.
LEMMA TypeOfSessions ==
  ASSUME TypeOK, NEW p \in Pids,
         SessionEnds(p) \/ SessionParentExits(p) \/ SessionAbandoned(p)
  PROVE  TypeOK'
<1> USE DEF managerVars, shardVars, sessionVars, handlerVars
<1>1. SessionDies(p) /\ disturbances' \in 0 .. MaxDisturbances
  BY DisturbType DEF SessionEnds, SessionParentExits, SessionAbandoned, TypeOK
<1> QED BY <1>1 DEF SessionDies, TypeOK

-----------------------------------------------------------------------------
(* InOrder                                                                 *)

\* What a step does to the numbers: it starts the next shard, creates the next
\* session, or lets a process end.
LEMMA OrderKept ==
  ASSUME TypeOK, InOrder,
         \/ Started' = Started
         \/ NextShard \in Shards /\ Started' = Started \cup {NextShard},
         \/ Created' = Created
         \/ /\ Cardinality(Created) < MaxSessions
            /\ Created' = Created \cup {Cardinality(Created) + 1}
  PROVE  InOrder'
<1>1. \E k \in 0 .. MaxShards : Started' = 1 .. k
  <2>1. CASE Started' = Started
    BY <2>1 DEF InOrder
  <2>2. CASE NextShard \in Shards /\ Started' = Started \cup {NextShard}
    <3>1. NextShard \in 0 .. MaxShards /\ Started' = 1 .. NextShard
      BY <2>2, FreshShard, Numbers DEF Shards
    <3> QED BY <3>1
  <2> QED BY <2>1, <2>2
<1>2. \E k \in 0 .. MaxSessions : Created' = 1 .. k
  <2>1. CASE Created' = Created
    BY <2>1 DEF InOrder
  <2>2. CASE /\ Cardinality(Created) < MaxSessions
             /\ Created' = Created \cup {Cardinality(Created) + 1}
    <3>1. /\ Cardinality(Created) + 1 \in 0 .. MaxSessions
          /\ Created' = 1 .. (Cardinality(Created) + 1)
      BY <2>2, FreshSession, Numbers
    <3> QED BY <3>1
  <2> QED BY <2>1, <2>2
<1> QED BY <1>1, <1>2 DEF InOrder

LEMMA StartedNext ==
  ASSUME TypeOK, NEW m, StartShard(NextShard, m)
  PROVE  NextShard \in Shards /\ Started' = Started \cup {NextShard}
<1>1. NextShard \in Shards /\ shard' = [shard EXCEPT ![NextShard] = "up"]
  BY DEF StartShard
<1>2. \A n \in Shards : shard'[n] = IF n = NextShard THEN "up" ELSE shard[n]
  BY <1>1 DEF TypeOK
<1> HIDE DEF NextShard
<1>3. Started' = {n \in Shards : shard'[n] # "none"} /\ Started = {n \in Shards : shard[n] # "none"}
  BY DEF Started
<1> QED BY <1>1, <1>2, <1>3

\* Handlers start and end no process, and the manager starts shards alone.
LEMMA HandlersLeave ==
  ASSUME NEW h \in Handlers,
         \/ CallShard(h) \/ CallExits(h) \/ CallTimesOut(h) \/ Resume(h)
         \/ HandlerSessionDown(h) \/ HandlerCloses(h)
  PROVE  UNCHANGED <<shard, entry, starting, alive, parent, registered>>
BY DEF CallShard, CallExits, CallTimesOut, Resume, HandlerSessionDown, HandlerCloses,
       managerVars, shardVars, sessionVars

LEMMA ManagerLeaves ==
  ASSUME \/ \E h \in Handlers : ForwardCall(h)
         \/ ForwardCallExits \/ ManagerShardDown \/ ManagerCrashes \/ ManagerStarts
  PROVE  /\ UNCHANGED <<entry, starting, alive, parent, registered>>
         /\ shard' = shard \/ \E m : StartShard(NextShard, m)
BY DEF ForwardCall, ForwardCallExits, ManagerShardDown, ManagerCrashes, ManagerStarts,
       shardVars, sessionVars

\* What a shard does to the processes.
LEMMA ShardsDo ==
  ASSUME TypeOK, NEW n \in Shards,
         \/ \E r \in Requests : HandleCall(n, r)
         \/ CompleteIdentifyFetch(n) \/ Register(n) \/ ShardSessionDown(n)
         \/ WindowPasses(n) \/ OtherIdentify(n) \/ ShardCrashes(n) \/ ShardParentExits(n)
  PROVE  /\ shard' = shard \/ (shard[n] = "up" /\ shard' = [shard EXCEPT ![n] = "down"])
         /\ \/ alive' = alive
            \/ \E p \in Pids : alive[p] # "none" /\ alive' = [alive EXCEPT ![p] = "dead"]
            \/ /\ Cardinality(Created) < MaxSessions
               /\ alive' = [alive EXCEPT ![Cardinality(Created) + 1] = "alive"]
<1> USE DEF shardVars, sessionVars
<1>1. CASE \/ \E r \in Requests : HandleCall(n, r)
           \/ ShardSessionDown(n) \/ WindowPasses(n) \/ OtherIdentify(n)
  BY <1>1 DEF HandleCall, ShardSessionDown, WindowPasses, OtherIdentify
<1>2. CASE CompleteIdentifyFetch(n)
  BY <1>2 DEF CompleteIdentifyFetch
<1>3. CASE Register(n)
  <2>1. starting[n] \in Pids /\ shard' = shard
    BY <1>3 DEF Register, TypeOK
  <2>2. alive' = alive \/ (alive[starting[n]] = "alive" /\ ForceStop(n))
    BY <1>3 DEF Register
  <2> QED BY <2>1, <2>2 DEF ForceStop
<1>4. CASE ShardCrashes(n) \/ ShardParentExits(n)
  BY <1>4 DEF ShardCrashes, ShardParentExits, ShardDies, Idle
<1> QED BY <1>1, <1>2, <1>3, <1>4

\* No step upsets the numbering.
LEMMA OrderStep ==
  ASSUME TypeOK, TypeOK', InOrder, Next
  PROVE  InOrder'
<1>1. ASSUME UNCHANGED shard PROVE Started' = Started
  BY <1>1 DEF Started
<1>2. ASSUME UNCHANGED alive PROVE Created' = Created
  BY <1>2 DEF Created
<1>3. ASSUME NEW h \in Handlers,
             \/ CallShard(h) \/ CallExits(h) \/ CallTimesOut(h) \/ Resume(h)
             \/ HandlerSessionDown(h) \/ HandlerCloses(h)
      PROVE  InOrder'
  BY <1>1, <1>2, <1>3, HandlersLeave, OrderKept
<1>4. CASE \/ \E h \in Handlers : ForwardCall(h)
           \/ ForwardCallExits \/ ManagerShardDown \/ ManagerCrashes \/ ManagerStarts
  BY <1>1, <1>2, <1>4, ManagerLeaves, StartedNext, OrderKept
<1>5. ASSUME NEW p \in Pids, alive[p] # "none", alive' = [alive EXCEPT ![p] = "dead"]
      PROVE  Created' = Created
  BY <1>5 DEF Created, TypeOK
<1>6. ASSUME NEW n \in Shards,
             \/ \E r \in Requests : HandleCall(n, r)
             \/ CompleteIdentifyFetch(n) \/ Register(n) \/ ShardSessionDown(n)
             \/ WindowPasses(n) \/ OtherIdentify(n) \/ ShardCrashes(n) \/ ShardParentExits(n)
      PROVE  InOrder'
  <2>1. Started' = Started
    BY <1>1, <1>6, ShardsDo DEF Started, TypeOK
  <2>2. CASE /\ Cardinality(Created) < MaxSessions
             /\ alive' = [alive EXCEPT ![Cardinality(Created) + 1] = "alive"]
    <3>1. Cardinality(Created) + 1 \in Pids
      BY <2>2, FreshSession, Numbers DEF Pids
    <3>2. \A p \in Pids : alive'[p] = IF p = Cardinality(Created) + 1 THEN "alive" ELSE alive[p]
      BY <2>2 DEF TypeOK
    <3>3. Created' = {p \in Pids : alive'[p] # "none"} /\ Created = {p \in Pids : alive[p] # "none"}
      BY DEF Created
    <3>4. Created' = Created \cup {Cardinality(Created) + 1}
      BY <3>1, <3>2, <3>3
    <3> QED BY <2>1, <2>2, <3>4, OrderKept
  <2> QED BY <1>2, <1>5, <1>6, <2>1, <2>2, ShardsDo, OrderKept
<1>7. ASSUME NEW p \in Pids, SessionEnds(p) \/ SessionParentExits(p) \/ SessionAbandoned(p)
      PROVE  InOrder'
  <2>1. alive[p] = "alive" /\ alive' = [alive EXCEPT ![p] = "dead"] /\ shard' = shard
    BY <1>7 DEF SessionEnds, SessionParentExits, SessionAbandoned, SessionDies, shardVars
  <2> QED BY <1>1, <1>5, <2>1, OrderKept
<1> QED BY <1>3, <1>4, <1>6, <1>7 DEF Next

\* The types and the numbering, together.
THEOREM OrderInvariant == Spec => [](TypeOK /\ InOrder)
<1>1. Init => TypeOK /\ InOrder
  <2> SUFFICES ASSUME Init PROVE TypeOK /\ InOrder
    OBVIOUS
  <2>1. TypeOK
    BY Numbers DEF Init, TypeOK, Phases
  <2>2. Started = 1 .. 1 /\ Created = 1 .. 0
    BY Numbers DEF Init, Started, Created
  <2> QED BY <2>1, <2>2, Numbers DEF InOrder, Shards
<1>2. (TypeOK /\ InOrder) /\ [Next]_vars => (TypeOK /\ InOrder)'
  <2> SUFFICES ASSUME TypeOK, InOrder, [Next]_vars PROVE TypeOK' /\ InOrder'
    OBVIOUS
  <2>1. CASE UNCHANGED vars
    BY <2>1 DEF vars, managerVars, shardVars, sessionVars, handlerVars, TypeOK, InOrder, Started, Created
  <2>2. CASE Next
    <3>1. TypeOK'
      BY <2>2, TypeOfHandlers, TypeOfManager, TypeOfShards, TypeOfSessions DEF Next
    <3> QED BY <2>2, <3>1, OrderStep
  <2> QED BY <2>1, <2>2
<1> QED BY <1>1, <1>2, PTL DEF Spec

\* Every variable of the session manager keeps its type.
THEOREM TypeCorrect == Spec => []TypeOK
BY OrderInvariant, PTL

-----------------------------------------------------------------------------
(* NoStraySession                                                          *)

\* A process that is created is registered by its shard or stopped, whoever
\* dies meanwhile and however many shards are at it.
LEMMA StrayStep ==
  ASSUME TypeOK, InOrder, NoStraySession, Next
  PROVE  NoStraySession'
<1> USE DEF managerVars, shardVars, sessionVars
<1>0. /\ \A p \in Pids : p # 0 /\ parent[p] \in Shards
      /\ \A n \in Shards : starting[n] \in Pids \cup {0}
  BY Numbers DEF TypeOK
<1>1. ASSUME NEW h \in Handlers,
             \/ CallShard(h) \/ CallExits(h) \/ CallTimesOut(h) \/ Resume(h)
             \/ HandlerSessionDown(h) \/ HandlerCloses(h)
      PROVE  NoStraySession'
  BY <1>1, HandlersLeave DEF NoStraySession
<1>2. CASE \/ \E h \in Handlers : ForwardCall(h)
           \/ ForwardCallExits \/ ManagerShardDown \/ ManagerCrashes \/ ManagerStarts
  <2>1. UNCHANGED <<starting, alive, parent, registered>>
    BY <1>2, ManagerLeaves
  <2>2. \A n \in Shards : shard[n] = "down" => shard'[n] = "down"
    <3>1. CASE shard' = shard
      BY <3>1
    <3>2. ASSUME NEW m, StartShard(NextShard, m) PROVE \A n \in Shards : shard[n] = "down" => shard'[n] = "down"
      <4>1. NextShard \notin Started /\ shard' = [shard EXCEPT ![NextShard] = "up"]
        BY <3>2, FreshShard DEF StartShard
      <4> HIDE DEF NextShard
      <4> QED BY <4>1 DEF Started, TypeOK
    <3> QED BY <1>2, <3>1, <3>2, ManagerLeaves
  <2> QED BY <1>0, <2>1, <2>2 DEF NoStraySession
<1>3. ASSUME NEW n \in Shards,
             (\E r \in Requests : HandleCall(n, r)) \/ ShardSessionDown(n)
             \/ WindowPasses(n) \/ OtherIdentify(n)
      PROVE  NoStraySession'
  <2>1. UNCHANGED <<shard, starting, alive, parent, registered>>
    BY <1>3 DEF HandleCall, ShardSessionDown, WindowPasses, OtherIdentify
  <2> QED BY <2>1 DEF NoStraySession
<1>4. ASSUME NEW n \in Shards, CompleteIdentifyFetch(n) PROVE NoStraySession'
  <2>0. UNCHANGED <<shard, registered>> /\ starting[n] = 0
    BY <1>4 DEF CompleteIdentifyFetch, Idle
  <2>1. CASE UNCHANGED <<starting, alive, parent>>
    BY <2>0, <2>1 DEF NoStraySession
  <2>2. CASE /\ Cardinality(Created) < MaxSessions
             /\ LET p == Cardinality(Created) + 1
                IN  /\ starting' = [starting EXCEPT ![n] = p]
                    /\ alive' = [alive EXCEPT ![p] = "alive"] /\ parent' = [parent EXCEPT ![p] = n]
    <3> DEFINE c == Cardinality(Created) + 1
    <3>1. c \in Pids
      BY <2>2, FreshSession, Numbers DEF Pids
    <3>2. /\ starting' = [starting EXCEPT ![n] = c] /\ alive' = [alive EXCEPT ![c] = "alive"]
          /\ parent' = [parent EXCEPT ![c] = n]
      BY <2>2
    <3> HIDE DEF c
    <3>3. starting'[parent'[c]] = c
      BY <3>1, <3>2 DEF TypeOK
    <3>4. ASSUME NEW q \in Pids, q # c, alive'[q] = "alive"
          PROVE  q = registered' \/ starting'[parent'[q]] = q \/ shard'[parent'[q]] = "down"
      <4>1. alive[q] = "alive" /\ parent'[q] = parent[q]
        BY <3>1, <3>2, <3>4 DEF TypeOK
      <4>2. starting[parent[q]] = q => starting'[parent[q]] = q
        BY <1>0, <2>0, <3>2 DEF TypeOK
      <4> QED BY <2>0, <4>1, <4>2 DEF NoStraySession
    <3> QED BY <3>3, <3>4 DEF NoStraySession
  <2> QED BY <1>4, <2>1, <2>2 DEF CompleteIdentifyFetch
<1>5. ASSUME NEW n \in Shards, Register(n) PROVE NoStraySession'
  <2> DEFINE p == starting[n]
  <2>0. UNCHANGED <<shard, parent>> /\ p \in Pids /\ p # 0
    BY <1>0, <1>5 DEF Register
  <2>1. ASSUME starting' = [starting EXCEPT ![n] = 0], alive' = alive,
               (registered' = p /\ registered = 0) \/ (registered' = registered /\ alive[p] = "dead")
        PROVE  NoStraySession'
    <3>1. SUFFICES ASSUME NEW q \in Pids, alive[q] = "alive"
                   PROVE  q = registered' \/ starting'[parent[q]] = q \/ shard[parent[q]] = "down"
      BY <2>0, <2>1 DEF NoStraySession
    <3>2. CASE q = p
      BY <2>1, <3>1, <3>2
    <3>3. CASE q # p
      <4>1. starting[parent[q]] = q => starting'[parent[q]] = q
        BY <1>0, <2>1, <3>3 DEF TypeOK
      <4>2. q # 0
        BY <1>0
      <4> QED BY <2>1, <3>1, <4>1, <4>2 DEF NoStraySession
    <3> QED BY <3>2, <3>3
  <2>2. CASE alive[p] = "alive" /\ NameFree(p) /\ registered' = p /\ Finish(n, p) /\ UNCHANGED alive
    <3>1. starting' = [starting EXCEPT ![n] = 0] /\ alive' = alive
      BY <2>2 DEF Finish
    <3>2. registered' = p /\ registered = 0
      BY <2>2 DEF NameFree
    <3> HIDE DEF p, NoStraySession
    <3> QED BY <2>1, <3>1, <3>2
  <2>3. CASE ForceStop(n) /\ UNCHANGED registered
    <3>1. alive' = [alive EXCEPT ![p] = "dead"] /\ UNCHANGED <<starting, registered>>
      BY <2>3 DEF ForceStop
    <3>2. \A q \in Pids : alive'[q] = "alive" => alive[q] = "alive"
      BY <3>1 DEF TypeOK
    <3> QED BY <2>0, <3>1, <3>2 DEF NoStraySession
  <2>4. CASE alive[p] = "dead" /\ Finish(n, registered) /\ UNCHANGED <<alive, registered>>
    BY <2>1, <2>4 DEF Finish
  <2> QED BY <1>5, <2>2, <2>3, <2>4, Zenon DEF Register
<1>6. ASSUME NEW n \in Shards, ShardDies(n) PROVE NoStraySession'
  <2>1. /\ shard' = [shard EXCEPT ![n] = "down"] /\ starting' = [starting EXCEPT ![n] = 0]
        /\ UNCHANGED <<alive, parent, registered>>
    BY <1>6 DEF ShardDies
  <2> QED BY <1>0, <2>1 DEF NoStraySession, TypeOK
<1>7. ASSUME NEW n \in Shards, ShardCrashes(n) \/ ShardParentExits(n) PROVE NoStraySession'
  BY <1>6, <1>7 DEF ShardCrashes, ShardParentExits
<1>8. ASSUME NEW p \in Pids, SessionEnds(p) \/ SessionParentExits(p) \/ SessionAbandoned(p)
      PROVE  NoStraySession'
  <2>1. /\ alive' = [alive EXCEPT ![p] = "dead"] /\ UNCHANGED <<shard, starting, parent>>
        /\ registered' = IF registered = p THEN 0 ELSE registered
    BY <1>8 DEF SessionEnds, SessionParentExits, SessionAbandoned, SessionDies
  <2>2. \A q \in Pids : alive'[q] = "alive" => alive[q] = "alive" /\ q # p
    BY <2>1 DEF TypeOK
  <2> QED BY <2>1, <2>2 DEF NoStraySession
<1> QED BY <1>1, <1>2, <1>3, <1>4, <1>5, <1>7, <1>8 DEF Next

\* However many shards work on an identify at once, a session that runs is the
\* one that has the name, unless its shard is registering it or is gone.
THEOREM NeverAStraySession == Spec => []NoStraySession
<1>1. Init => NoStraySession
  BY DEF Init, NoStraySession
<1>2. (TypeOK /\ InOrder) /\ NoStraySession /\ [Next]_vars => NoStraySession'
  <2> SUFFICES ASSUME TypeOK, InOrder, NoStraySession, [Next]_vars PROVE NoStraySession'
    OBVIOUS
  <2>1. CASE UNCHANGED vars
    BY <2>1 DEF vars, shardVars, sessionVars, NoStraySession
  <2> QED BY <2>1, StrayStep
<1> QED BY <1>1, <1>2, OrderInvariant, PTL DEF Spec

-----------------------------------------------------------------------------
(* AttachedIsRegistered                                                    *)

\* An answer sends a handler to the session it names, and only a successful one
\* sends it to any.
LEMMA AnswerRefers ==
  ASSUME NEW H, NEW answer \in Answers, Answer(H, answer), NEW states, NEW name,
         answer.error = "none" => RefersTo(answer.pid, states, name),
         \A h \in Handlers :
           phase[h] \in {"attached", "resuming"} => RefersTo(sessionPid[h], states, name)
  PROVE  \A h \in Handlers :
           phase'[h] \in {"attached", "resuming"} => RefersTo(sessionPid'[h], states, name)
<1> SUFFICES ASSUME NEW h \in Handlers, phase'[h] \in {"attached", "resuming"}
             PROVE  RefersTo(sessionPid'[h], states, name)
  OBVIOUS
<1>1. CASE h \in H
  <2>1. phase'[h] = PhaseAfter(h, answer) /\ sessionPid'[h] = answer.pid
    BY <1>1 DEF Answer
  <2> QED BY <2>1, PhasesAfter
<1>2. CASE h \notin H
  BY <1>2 DEF Answer
<1> QED BY <1>1, <1>2

\* A reference stays good while names are given to nobody or to a new process.
LEMMA RefersStill ==
  ASSUME TypeOK, NEW p, RefersTo(p, alive, registered),
         \/ alive' = alive /\ registered' = registered
         \/ alive' = alive /\ registered = 0
         \/ /\ registered' = registered
            /\ \E q : alive[q] = "none" /\ alive' = [alive EXCEPT ![q] = "alive"]
         \/ \E q : /\ alive' = [alive EXCEPT ![q] = "dead"]
                   /\ registered' = registered \/ (registered = q /\ registered' = 0)
  PROVE  RefersTo(p, alive', registered')
<1>1. p \in Pids /\ p # 0 /\ alive[p] # "none" /\ (alive[p] = "alive" => p = registered)
  BY Numbers DEF RefersTo
<1>2. CASE alive' = alive /\ registered' = registered
  BY <1>1, <1>2 DEF RefersTo
<1>3. CASE alive' = alive /\ registered = 0
  BY <1>1, <1>3 DEF RefersTo
<1>4. ASSUME NEW q, registered' = registered, alive[q] = "none", alive' = [alive EXCEPT ![q] = "alive"]
      PROVE  RefersTo(p, alive', registered')
  BY <1>1, <1>4 DEF RefersTo, TypeOK
<1>5. ASSUME NEW q, alive' = [alive EXCEPT ![q] = "dead"],
             registered' = registered \/ (registered = q /\ registered' = 0)
      PROVE  RefersTo(p, alive', registered')
  BY <1>1, <1>5 DEF RefersTo, TypeOK
<1> QED BY <1>2, <1>3, <1>4, <1>5

\* A step that changes no process, no table and no name, but what handlers do.
LEMMA HandlersRefer ==
  ASSUME ReferInv, UNCHANGED <<entry, starting, alive, registered>>,
         \A h \in Handlers :
           phase'[h] \in {"attached", "resuming"} => RefersTo(sessionPid'[h], alive, registered)
  PROVE  ReferInv'
BY DEF ReferInv

\* No handler is sent to a session that another has replaced.
LEMMA ReferHandlers ==
  ASSUME TypeOK, ReferInv, NEW h \in Handlers,
         \/ CallShard(h) \/ CallExits(h) \/ CallTimesOut(h) \/ Resume(h)
         \/ HandlerSessionDown(h) \/ HandlerCloses(h)
  PROVE  ReferInv'
<1> USE DEF managerVars, shardVars, sessionVars, handlerVars
<1>1. UNCHANGED <<entry, starting, alive, registered>>
  BY HandlersLeave
<1>2. ASSUME NEW s, s \notin {"attached", "resuming"} \/ phase[h] \in {"attached", "resuming"},
             phase' = [phase EXCEPT ![h] = s], sessionPid' = sessionPid
      PROVE  ReferInv'
  <2>1. \A g \in Handlers :
          phase'[g] \in {"attached", "resuming"} => RefersTo(sessionPid'[g], alive, registered)
    BY <1>2 DEF ReferInv, TypeOK
  <2> QED BY <1>1, <2>1, HandlersRefer
<1>3. ASSUME Answer({h}, Error("failed")) PROVE ReferInv'
  <2>1. \A g \in Handlers :
          phase'[g] \in {"attached", "resuming"} => RefersTo(sessionPid'[g], alive, registered)
    BY <1>3, AnswerRefers, AnswerTypes DEF ReferInv
  <2> QED BY <1>1, <2>1, HandlersRefer
<1>4. ASSUME CallViaManager(h) PROVE ReferInv'
  BY <1>2, <1>3, <1>4 DEF CallViaManager
<1>5. CASE CallShard(h)
  BY <1>2, <1>4, <1>5 DEF CallShard
<1>6. CASE CallExits(h)
  BY <1>4, <1>6 DEF CallExits
<1>7. CASE CallTimesOut(h)
  BY <1>3, <1>7 DEF CallTimesOut
<1>8. CASE Resume(h)
  BY <1>2, <1>8 DEF Resume
<1>9. CASE HandlerSessionDown(h) \/ HandlerCloses(h)
  BY <1>2, <1>9 DEF HandlerSessionDown, HandlerCloses
<1> QED BY <1>5, <1>6, <1>7, <1>8, <1>9

LEMMA ReferManager ==
  ASSUME TypeOK, ReferInv,
         \/ \E h \in Handlers : ForwardCall(h)
         \/ ForwardCallExits \/ ManagerShardDown \/ ManagerCrashes \/ ManagerStarts
  PROVE  ReferInv'
<1>1. UNCHANGED <<entry, starting, alive, registered>>
  BY ManagerLeaves
<1>2. UNCHANGED <<phase, sessionPid>> \/ \E H : Answer(H, Error("failed"))
  BY DEF ForwardCall, ForwardCallExits, ManagerShardDown, ManagerCrashes, ManagerStarts, handlerVars
<1>3. \A h \in Handlers :
        phase'[h] \in {"attached", "resuming"} => RefersTo(sessionPid'[h], alive, registered)
  <2>1. CASE UNCHANGED <<phase, sessionPid>>
    BY <2>1 DEF ReferInv
  <2>2. ASSUME NEW H, Answer(H, Error("failed"))
        PROVE  \A h \in Handlers :
                 phase'[h] \in {"attached", "resuming"} => RefersTo(sessionPid'[h], alive, registered)
    BY <2>2, AnswerRefers, AnswerTypes DEF ReferInv
  <2> QED BY <1>2, <2>1, <2>2
<1> QED BY <1>1, <1>3, HandlersRefer

\* What a shard answers.
LEMMA ReplyRefers ==
  ASSUME ReferInv, NEW n, NEW R, NEW answer \in Answers, Reply(n, R, answer),
         NEW states, NEW name,
         \A p : RefersTo(p, alive, registered) => RefersTo(p, states, name),
         answer.error = "none" => RefersTo(answer.pid, states, name)
  PROVE  \A h \in Handlers :
           phase'[h] \in {"attached", "resuming"} => RefersTo(sessionPid'[h], states, name)
<1>1. PICK H : Answer(H, answer)
  BY DEF Reply
<1> QED BY <1>1, AnswerRefers DEF ReferInv

\* What a shard does to its own entry, when no process and no name changes.
LEMMA ReferEntry ==
  ASSUME TypeOK, ReferInv, NEW n \in Shards, NEW x,
         UNCHANGED <<alive, registered>>,
         entry' = entry \/ entry' = [entry EXCEPT ![n] = x],
         starting' = starting \/ starting' = [starting EXCEPT ![n] = 0],
         x # 0 => RefersTo(x, alive, registered),
         \A h \in Handlers :
           phase'[h] \in {"attached", "resuming"} => RefersTo(sessionPid'[h], alive, registered)
  PROVE  ReferInv'
<1>1. \A m \in Shards : entry'[m] # 0 => RefersTo(entry'[m], alive, registered)
  BY DEF ReferInv, TypeOK
<1>2. \A m \in Shards : starting'[m] # 0 => starting'[m] = starting[m]
  BY DEF TypeOK
<1> QED BY <1>1, <1>2 DEF ReferInv

\* A shard that answers, or does not.
LEMMA ReferCall ==
  ASSUME TypeOK, ReferInv, NEW n \in Shards, NEW r, HandleCall(n, r)
  PROVE  ReferInv'
<1> DEFINE found == IF entry[n] # 0 THEN entry[n] ELSE registered
<1>1. UNCHANGED <<alive, registered, starting>>
  BY DEF HandleCall, sessionVars
<1>2. entry[n] \in Pids \cup {0} /\ registered \in Pids \cup {0}
  BY DEF TypeOK
<1>3. CASE found # 0
  <2>1. entry' = [entry EXCEPT ![n] = found] /\ Reply(n, {r}, Success(found))
    BY <1>3, Zenon DEF HandleCall
  <2>2. RefersTo(found, alive, registered)
    BY <1>2, <1>3 DEF ReferInv, RefersTo
  <2>3. Success(found) \in Answers /\ Success(found).pid = found
    BY <2>2, AnswerTypes DEF RefersTo
  <2> HIDE DEF found
  <2>4. \A h \in Handlers :
          phase'[h] \in {"attached", "resuming"} => RefersTo(sessionPid'[h], alive, registered)
    BY <2>1, <2>2, <2>3, ReplyRefers
  <2> QED BY <1>1, <2>1, <2>2, <2>4, ReferEntry
<1>4. CASE found = 0
  <2>1. entry' = entry
    BY <1>4, Zenon DEF HandleCall
  <2>2. \/ UNCHANGED <<phase, sessionPid>>
        \/ \E reason \in {"identify_rate_limited", "not_found"} : Reply(n, {r}, Error(reason))
    BY <1>4 DEF HandleCall, HandleIdentify, RateLimited, NoReply
  <2>3. \A h \in Handlers :
          phase'[h] \in {"attached", "resuming"} => RefersTo(sessionPid'[h], alive, registered)
    <3>1. CASE UNCHANGED <<phase, sessionPid>>
      BY <3>1 DEF ReferInv
    <3>2. ASSUME NEW reason \in {"identify_rate_limited", "not_found"}, Reply(n, {r}, Error(reason))
          PROVE  \A h \in Handlers :
                   phase'[h] \in {"attached", "resuming"} => RefersTo(sessionPid'[h], alive, registered)
      BY <3>2, AnswerTypes, ReplyRefers
    <3> QED BY <2>2, <3>1, <3>2
  <2> QED BY <1>1, <2>1, <2>3, ReferEntry
<1> QED BY <1>3, <1>4

\* An identify that fails or finds a process, and one that starts a process:
\* nobody can have heard of that one yet.
LEMMA ReferFetch ==
  ASSUME TypeOK, InOrder, ReferInv, NEW n \in Shards, CompleteIdentifyFetch(n)
  PROVE  ReferInv'
<1>1. registered' = registered /\ starting[n] = 0
  BY DEF CompleteIdentifyFetch, Idle
<1>2. CASE /\ Reply(n, froms[n], Error("failed"))
           /\ UNCHANGED <<entry, starting, alive>>
  <2>1. \A h \in Handlers :
          phase'[h] \in {"attached", "resuming"} => RefersTo(sessionPid'[h], alive, registered)
    BY <1>2, AnswerTypes, ReplyRefers
  <2> QED BY <1>1, <1>2, <2>1, HandlersRefer
<1>3. CASE /\ registered # 0 /\ entry' = [entry EXCEPT ![n] = registered]
           /\ Reply(n, froms[n], Success(registered)) /\ UNCHANGED <<starting, alive>>
  <2>1. RefersTo(registered, alive, registered)
    BY <1>3 DEF ReferInv, RefersTo, TypeOK
  <2>2. Success(registered) \in Answers /\ Success(registered).pid = registered
    BY <2>1, AnswerTypes DEF RefersTo
  <2>3. \A h \in Handlers :
          phase'[h] \in {"attached", "resuming"} => RefersTo(sessionPid'[h], alive, registered)
    BY <1>3, <2>1, <2>2, ReplyRefers
  <2> QED BY <1>1, <1>3, <2>1, <2>3, ReferEntry
<1>4. CASE /\ registered = 0 /\ Cardinality(Created) < MaxSessions
           /\ LET p == Cardinality(Created) + 1
              IN  /\ starting' = [starting EXCEPT ![n] = p]
                  /\ alive' = [alive EXCEPT ![p] = "alive"]
           /\ UNCHANGED <<entry, phase, sessionPid>>
  <2> DEFINE c == Cardinality(Created) + 1
  <2>1. c \in Pids /\ c # 0 /\ alive[c] = "none"
    BY <1>4, FreshSession, Numbers DEF Pids, Created
  <2>2. starting' = [starting EXCEPT ![n] = c] /\ alive' = [alive EXCEPT ![c] = "alive"]
    BY <1>4
  <2> HIDE DEF c
  <2>3. \A p : RefersTo(p, alive, registered) => RefersTo(p, alive', registered')
    BY <1>1, <2>1, <2>2, RefersStill
  <2>4. \A m \in Shards : starting'[m] # 0 =>
          /\ alive'[starting'[m]] # "none" /\ starting'[m] # registered'
          /\ \A o \in Shards : starting'[o] = starting'[m] => o = m
    <3>1. \A m \in Shards : m # n => starting'[m] = starting[m] /\ starting[m] # c
      BY <2>1, <2>2 DEF ReferInv, TypeOK
    <3>2. starting'[n] = c /\ alive'[c] = "alive"
      BY <2>1, <2>2 DEF TypeOK
    <3>3. \A m \in Shards : starting[m] # 0 =>
            starting[m] \in Pids /\ alive[starting[m]] # "none" /\ starting[m] # registered
      BY DEF ReferInv, TypeOK
    <3>4. \A m \in Shards : starting[m] # 0 => alive'[starting[m]] # "none"
      BY <2>2, <3>3 DEF TypeOK
    <3> QED BY <1>1, <1>4, <2>1, <3>1, <3>2, <3>3, <3>4 DEF ReferInv
  <2> QED BY <1>1, <1>4, <2>3, <2>4 DEF ReferInv
<1> QED BY <1>2, <1>3, <1>4 DEF CompleteIdentifyFetch, TellWaiters, NoReply

\* The name goes to one process, and who loses is stopped before anybody hears
\* of it.
LEMMA ReferRegister ==
  ASSUME TypeOK, ReferInv, NEW n \in Shards, Register(n)
  PROVE  ReferInv'
<1> DEFINE p == starting[n]
<1>0. /\ p \in Pids /\ p # 0 /\ alive[p] # "none" /\ p # registered
      /\ \A m \in Shards : m # n => starting[m] # p
  BY DEF Register, ReferInv, TypeOK
<1>1. CASE alive[p] = "alive" /\ NameFree(p) /\ registered' = p /\ Finish(n, p) /\ UNCHANGED alive
  <2>1. /\ registered = 0 /\ registered' = p /\ alive' = alive /\ alive[p] = "alive"
        /\ starting' = [starting EXCEPT ![n] = 0] /\ entry' = [entry EXCEPT ![n] = p]
        /\ Reply(n, froms[n], Success(p))
    BY <1>0, <1>1 DEF NameFree, Finish
  <2> HIDE DEF p
  <2>2. \A q : RefersTo(q, alive, registered) => RefersTo(q, alive, p)
    BY <2>1, Numbers DEF RefersTo
  <2>3. RefersTo(p, alive, p)
    BY <1>0 DEF RefersTo
  <2>4. Success(p) \in Answers /\ Success(p).pid = p
    BY <1>0, AnswerTypes
  <2>5. \A h \in Handlers : phase'[h] \in {"attached", "resuming"} => RefersTo(sessionPid'[h], alive, p)
    BY <2>1, <2>2, <2>3, <2>4, ReplyRefers
  <2>6. \A m \in Shards : entry'[m] # 0 => RefersTo(entry'[m], alive, p)
    BY <2>1, <2>2, <2>3 DEF ReferInv, TypeOK
  <2>7. \A m \in Shards : starting'[m] # 0 => m # n /\ starting'[m] = starting[m]
    BY <2>1 DEF TypeOK
  <2> QED BY <1>0, <2>1, <2>5, <2>6, <2>7 DEF ReferInv
<1>2. CASE ForceStop(n) /\ UNCHANGED registered
  <2>1. /\ alive' = [alive EXCEPT ![p] = "dead"] /\ registered' = registered
        /\ UNCHANGED <<starting, entry, phase, sessionPid>>
    BY <1>2 DEF ForceStop, NoReply
  <2> HIDE DEF p
  <2>2. \A q : RefersTo(q, alive, registered) => RefersTo(q, alive', registered')
    BY <2>1, RefersStill
  <2>3. \A q \in Pids : alive[q] # "none" => alive'[q] # "none"
    BY <2>1 DEF TypeOK
  <2>4. registered # 0 => alive'[registered] = "alive"
    BY <1>0, <2>1 DEF ReferInv, TypeOK
  <2> QED BY <2>1, <2>2, <2>3, <2>4 DEF ReferInv, TypeOK
<1>3. CASE alive[p] = "dead" /\ Finish(n, registered) /\ UNCHANGED <<alive, registered>>
  <2>1. /\ starting' = [starting EXCEPT ![n] = 0] /\ entry' = [entry EXCEPT ![n] = registered]
    BY <1>3 DEF Finish
  <2>2. registered # 0 => RefersTo(registered, alive, registered)
    BY DEF ReferInv, RefersTo, TypeOK
  <2>3. \A h \in Handlers :
          phase'[h] \in {"attached", "resuming"} => RefersTo(sessionPid'[h], alive, registered)
    <3>1. CASE registered = 0
      <4>1. Reply(n, froms[n], Error("failed"))
        BY <1>3, <3>1 DEF Finish
      <4> QED BY <4>1, AnswerTypes, ReplyRefers
    <3>2. CASE registered # 0
      <4>1. Reply(n, froms[n], Success(registered))
        BY <1>3, <3>2 DEF Finish
      <4>2. Success(registered) \in Answers /\ Success(registered).pid = registered
        BY <2>2, <3>2, AnswerTypes DEF RefersTo
      <4> QED BY <2>2, <3>2, <4>1, <4>2, ReplyRefers
    <3> QED BY <3>1, <3>2
  <2> QED BY <1>3, <2>1, <2>2, <2>3, ReferEntry
<1> QED BY <1>1, <1>2, <1>3, Zenon DEF Register

LEMMA ReferShards ==
  ASSUME TypeOK, InOrder, ReferInv, NEW n \in Shards,
         \/ \E r \in Requests : HandleCall(n, r)
         \/ CompleteIdentifyFetch(n) \/ Register(n) \/ ShardSessionDown(n)
         \/ WindowPasses(n) \/ OtherIdentify(n) \/ ShardCrashes(n) \/ ShardParentExits(n)
  PROVE  ReferInv'
<1> USE DEF managerVars, shardVars, sessionVars, handlerVars
<1>1. ASSUME \/ ShardSessionDown(n) \/ WindowPasses(n) \/ OtherIdentify(n)
             \/ ShardCrashes(n) \/ ShardParentExits(n)
      PROVE  ReferInv'
  <2>1. /\ UNCHANGED <<alive, registered, phase, sessionPid>>
        /\ entry' = entry \/ entry' = [entry EXCEPT ![n] = 0]
        /\ starting' = starting \/ starting' = [starting EXCEPT ![n] = 0]
    BY <1>1 DEF ShardSessionDown, WindowPasses, OtherIdentify, ShardCrashes, ShardParentExits, ShardDies
  <2>2. \A h \in Handlers :
          phase'[h] \in {"attached", "resuming"} => RefersTo(sessionPid'[h], alive, registered)
    BY <2>1 DEF ReferInv
  <2> QED BY <2>1, <2>2, ReferEntry
<1> QED BY <1>1, ReferCall, ReferFetch, ReferRegister

\* A session that dies gives its name up with its life.
LEMMA ReferSessions ==
  ASSUME TypeOK, ReferInv, NEW p \in Pids,
         SessionEnds(p) \/ SessionParentExits(p) \/ SessionAbandoned(p)
  PROVE  ReferInv'
<1> USE DEF managerVars, shardVars, sessionVars, handlerVars
<1>1. /\ alive' = [alive EXCEPT ![p] = "dead"]
      /\ UNCHANGED <<entry, starting, phase, sessionPid>>
      /\ registered = p => registered' = 0
      /\ registered # p => registered' = registered
  BY DEF SessionEnds, SessionParentExits, SessionAbandoned, SessionDies
<1>2. \A q : RefersTo(q, alive, registered) => RefersTo(q, alive', registered')
  BY <1>1, RefersStill
<1>3. registered' # 0 => alive'[registered'] = "alive"
  BY <1>1 DEF ReferInv, TypeOK
<1>4. \A n \in Shards : starting[n] # 0 =>
        starting[n] \in Pids /\ alive'[starting[n]] # "none" /\ starting[n] # registered'
  BY <1>1 DEF ReferInv, TypeOK
<1> QED BY <1>1, <1>2, <1>3, <1>4 DEF ReferInv

\* Tables and handlers refer to the process that has the name, or to a dead one.
THEOREM ReferInvariant == Spec => []ReferInv
<1>1. Init => ReferInv
  BY DEF Init, ReferInv
<1>2. (TypeOK /\ InOrder) /\ ReferInv /\ [Next]_vars => ReferInv'
  <2> SUFFICES ASSUME TypeOK, InOrder, ReferInv, [Next]_vars PROVE ReferInv'
    OBVIOUS
  <2>1. CASE UNCHANGED vars
    BY <2>1 DEF vars, shardVars, sessionVars, handlerVars, ReferInv
  <2> QED BY <2>1, ReferHandlers, ReferManager, ReferShards, ReferSessions DEF Next
<1> QED BY <1>1, <1>2, OrderInvariant, PTL DEF Spec

\* A handler that serves a running session serves the one that lookups find,
\* whatever shards and managers were replaced in the meantime.
THEOREM AttachedAlwaysRegistered == Spec => []AttachedIsRegistered
<1>1. ReferInv => AttachedIsRegistered
  BY DEF ReferInv, RefersTo, AttachedIsRegistered
<1> QED BY <1>1, ReferInvariant, PTL
=============================================================================
