------------------------ MODULE GuildConnect_proofs -------------------------
(***************************************************************************)
(* Proofs about GuildConnect: every variable has its type, the chain of    *)
(* retries never breaks, a session that believes it is connected to a      *)
(* guild is, and its client holds what it should.                          *)
(***************************************************************************)
EXTENDS GuildConnect, SequenceTheorems, TLAPS

\* Every process but the first was started after one had stopped, which is a
\* disturbance.
LifeInv ==
  /\ life <= disturbances + 1
  /\ guild # "up" => life <= disturbances
  /\ guild = "up" => life # 0

\* The attempt that is pending is in the queue or with a worker.
AdmissionInv ==
  /\ admitted = "pending" <=> admission # None
  /\ admission # None =>
       queued = admission \/ \E worker \in workers : worker.attempt = admission

IsDown(msg, n) == msg.type = "down" /\ msg.life = n

\* The session of a result among the messages s is one that the process n
\* serves, if n is up and made the result, or word of the contrary comes after
\* the result.
ResultsHold(s, n, up, served) ==
  \A i \in DOMAIN s : s[i].type = "result" =>
    /\ s[i].life <= n
    /\ s[i].life = n /\ up => served \/ \E j \in DOMAIN s : j > i /\ s[j].type = "leave"

\* The session e is connected to will hear that it is not.
Word(s, e) == \E j \in DOMAIN s : s[j].type = "leave" \/ IsDown(s[j], e)

\* The guild serves the session, or has told it otherwise and the message is
\* on its way; and so for the connection that a result is about to make.
ServedInv ==
  /\ ResultsHold(inbox, life, guild = "up", admitted # "none")
  /\ Connected =>
       \/ entry = life /\ guild = "up" /\ admitted # "none"
       \/ Word(inbox, entry)
       \/ \E k \in DOMAIN notices : notices[k] = "leave"

-----------------------------------------------------------------------------
(* Numbers, bags and messages.                                             *)

LEMMA Numbers ==
  /\ MaxRetryAttempts \in Nat /\ MaxDeferredAttempt \in Nat
  /\ MaxEvents \in Nat /\ MaxDisturbances \in Nat
  /\ 0 \in Attempts /\ MaxDeferredAttempt \in Attempts
  /\ Attempts \subseteq Nat /\ None \notin Attempts
  /\ Lives \subseteq Nat /\ 0 \notin Lives /\ Undefined \notin Lives /\ Cached \notin Lives
  /\ Undefined # Cached
BY GuildConnectAssumption DEF Attempts, Lives

\* The attempt that follows an attempt.
LEMMA NextAttempt ==
  ASSUME NEW a \in Attempts
  PROVE  /\ After(a) \in Attempts
         /\ a < MaxRetryAttempts => a + 1 \in Attempts
         /\ a < MaxDeferredAttempt => a + 1 \in Attempts
BY GuildConnectAssumption DEF Attempts, After

LEMMA Bags ==
  ASSUME NEW S, NEW bag \in [S -> Nat], NEW x \in S
  PROVE  /\ Put(bag, x) \in [S -> Nat] /\ Put(bag, x)[x] > 0
         /\ \A y \in S : bag[y] > 0 => Put(bag, x)[y] > 0
         /\ bag[x] > 0 => Take(bag, x) \in [S -> Nat]
         /\ \A y \in S : y # x => Take(bag, x)[y] = bag[y]
BY DEF Put, Take

LEMMA HelperBags ==
  ASSUME NEW bag \in [Attempts \X Outcomes -> Nat], NEW a \in Attempts, NEW o \in Outcomes
  PROVE  /\ \A b \in Attempts, p \in Outcomes :
              /\ b # a => Take(bag, <<a, o>>)[<<b, p>>] = bag[<<b, p>>]
              /\ bag[<<b, p>>] > 0 => Put(bag, <<a, o>>)[<<b, p>>] > 0
         /\ Put(bag, <<a, o>>)[<<a, o>>] > 0
<1>1. <<a, o>> \in Attempts \X Outcomes
  OBVIOUS
<1> SUFFICES ASSUME NEW b \in Attempts, NEW p \in Outcomes
             PROVE  /\ b # a => Take(bag, <<a, o>>)[<<b, p>>] = bag[<<b, p>>]
                    /\ bag[<<b, p>>] > 0 => Put(bag, <<a, o>>)[<<b, p>>] > 0
                    /\ Put(bag, <<a, o>>)[<<a, o>>] > 0
  OBVIOUS
<1>2. <<b, p>> \in Attempts \X Outcomes /\ (b # a => <<b, p>> # <<a, o>>)
  OBVIOUS
<1> QED BY <1>1, <1>2, Bags

\* The first message, and what each kind of message carries.
LEMMA FirstMessage ==
  ASSUME TypeOK, inbox # <<>>
  PROVE  Head(inbox) \in FromGuild /\ Tail(inbox) \in Seq(FromGuild)
BY DEF TypeOK

LEMMA Kinds ==
  ASSUME NEW msg \in FromGuild
  PROVE  /\ msg.type \in {"result", "event", "leave", "down"}
         /\ msg.type = "result" =>
              /\ msg.attempt \in Attempts /\ msg.life \in Lives /\ msg.snap \in 0..MaxEvents
              /\ msg.result \in {"ok", "unavailable", "error"}
         /\ msg.type = "event" =>
              /\ msg.create \in BOOLEAN /\ msg.event \in 0..MaxEvents
              /\ ~msg.create => msg.event \in 1..MaxEvents
         /\ msg.type = "down" => msg.life \in Lives
<1>1. \/ msg \in [type : {"result"}, attempt : Attempts, result : {"ok", "unavailable", "error"},
                 life : Lives, snap : 0..MaxEvents]
      \/ msg \in [type : {"event"}, create : {TRUE}, event : 0..MaxEvents]
      \/ msg \in [type : {"event"}, create : {FALSE}, event : 1..MaxEvents]
      \/ msg \in [type : {"leave"}]
      \/ msg \in [type : {"down"}, life : Lives, reason : {"other", "killed", "noproc"}]
  BY DEF FromGuild
<1>2. \A e \in 1..MaxEvents : e \in 0..MaxEvents
  BY Numbers
<1>3. CASE msg \in [type : {"event"}, create : {FALSE}, event : 1..MaxEvents]
  <2>1. msg.type = "event" /\ msg.create = FALSE /\ msg.event \in 1..MaxEvents
    BY <1>3
  <2> QED BY <1>2, <2>1
<1>4. CASE msg \in [type : {"event"}, create : {TRUE}, event : 0..MaxEvents]
  <2>1. msg.type = "event" /\ msg.create = TRUE /\ msg.event \in 0..MaxEvents
    BY <1>4
  <2> QED BY <2>1
<1> QED BY <1>1, <1>3, <1>4

LEMMA Messages ==
  /\ \A a \in Attempts, r \in {"ok", "unavailable", "error"}, n \in Lives, s \in 0..MaxEvents :
       [type |-> "result", attempt |-> a, result |-> r, life |-> n, snap |-> s] \in FromGuild
  /\ \A e \in 0..MaxEvents : [type |-> "event", create |-> TRUE, event |-> e] \in FromGuild
  /\ \A e \in 1..MaxEvents : [type |-> "event", create |-> FALSE, event |-> e] \in FromGuild
  /\ [type |-> "leave"] \in FromGuild
  /\ \A n \in Lives, r \in {"other", "killed", "noproc"} : Down(n, r) \in FromGuild
BY DEF FromGuild, Down

\* What is flushed is a signal of the process, and nothing else changes.
LEMMA FlushedIs ==
  ASSUME NEW messagesLeft \in Seq(FromGuild), NEW n
  PROVE  \/ Flushed(n, messagesLeft) = messagesLeft
         \/ \E i \in DOMAIN messagesLeft :
              /\ IsDown(messagesLeft[i], n)
              /\ Flushed(n, messagesLeft) = Without(i, messagesLeft)
<1> DEFINE signals == {i \in DOMAIN messagesLeft : IsDown(messagesLeft[i], n)}
<1>1. CASE signals = {}
  BY <1>1 DEF Flushed, IsDown
<1>2. CASE signals # {}
  <2>1. (CHOOSE i \in signals : TRUE) \in signals
    BY <1>2
  <2>2. Flushed(n, messagesLeft) = Without(CHOOSE i \in signals : TRUE, messagesLeft)
    BY <1>2, Zenon DEF Flushed, IsDown
  <2> QED BY <2>1, <2>2
<1> QED BY <1>1, <1>2

LEMMA WithoutType ==
  ASSUME NEW S, NEW s \in Seq(S), NEW i \in DOMAIN s
  PROVE  /\ Without(i, s) \in Seq(S)
         /\ DOMAIN Without(i, s) = 1..(Len(s) - 1)
         /\ \A k \in 1..(Len(s) - 1) : Without(i, s)[k] = IF k < i THEN s[k] ELSE s[k + 1]
<1>1. Len(s) \in Nat /\ DOMAIN s = 1..Len(s) /\ Len(s) - 1 \in Nat
  OBVIOUS
<1>2. \A k \in 1..(Len(s) - 1) : (IF k < i THEN s[k] ELSE s[k + 1]) \in S
  BY <1>1
<1>3. Without(i, s) \in [1..(Len(s) - 1) -> S]
  BY <1>2 DEF Without
<1>4. Without(i, s) \in Seq(S)
  BY <1>1, <1>3, IsASeq
<1> QED BY <1>3, <1>4 DEF Without

LEMMA FlushedType ==
  ASSUME NEW messagesLeft \in Seq(FromGuild), NEW n
  PROVE  Flushed(n, messagesLeft) \in Seq(FromGuild)
BY FlushedIs, WithoutType

-----------------------------------------------------------------------------
(* Type correctness.                                                       *)

LEMMA DisturbType == ASSUME TypeOK, Disturb PROVE disturbances' \in 0..MaxDisturbances
BY Numbers DEF TypeOK, Disturb

LEMMA ReadyType ==
  ASSUME TypeOK, NEW snap \in (0..MaxEvents) \cup {None}, SendReady(snap)
  PROVE  /\ {ready', present'} \subseteq BOOLEAN /\ collected' \in (0..MaxEvents) \cup {None}
         /\ view' \subseteq 1..MaxEvents
<1>1. ready' = FALSE /\ present' \in BOOLEAN /\ collected' = None
  BY DEF SendReady
<1>2. view' \subseteq 1..MaxEvents
  <2>1. CASE snap = None
    BY <2>1 DEF SendReady
  <2>2. CASE snap # None
    <3>1. snap \in 0..MaxEvents /\ view' = 1..snap
      BY <2>2 DEF SendReady
    <3> QED BY <3>1, Numbers
  <2> QED BY <2>1, <2>2
<1> QED BY <1>1, <1>2

LEMMA CheckType ==
  ASSUME TypeOK, NEW p, NEW e, NEW snap \in (0..MaxEvents) \cup {None}, CheckReadiness(p, e, snap)
  PROVE  /\ {ready', present'} \subseteq BOOLEAN /\ collected' \in (0..MaxEvents) \cup {None}
         /\ view' \subseteq 1..MaxEvents
<1>1. CASE SendReady(snap)
  BY <1>1, ReadyType
<1>2. CASE collected' = snap /\ UNCHANGED <<ready, client>>
  BY <1>2 DEF TypeOK, client
<1> QED BY <1>1, <1>2 DEF CheckReadiness

LEMMA TellType ==
  ASSUME TypeOK, NEW p \in BOOLEAN, NEW snap \in 0..MaxEvents, TellClient(p, snap)
  PROVE  {present', early'} \subseteq BOOLEAN /\ view' \subseteq 1..MaxEvents
BY Numbers DEF TypeOK, TellClient

LEMMA StateType ==
  ASSUME TypeOK, NEW u \in BOOLEAN, NEW snap \in 0..MaxEvents, ProcessGuildState(u, snap)
  PROVE  /\ {ready', present', early'} \subseteq BOOLEAN /\ view' \subseteq 1..MaxEvents
         /\ collected' \in (0..MaxEvents) \cup {None}
<1>1. CASE ready
  <2>1. (IF u THEN collected ELSE snap) \in (0..MaxEvents) \cup {None}
    BY DEF TypeOK
  <2>2. CheckReadiness(presence, TRUE, IF u THEN collected ELSE snap) /\ UNCHANGED early
    BY <1>1 DEF ProcessGuildState
  <2> QED BY <2>1, <2>2, CheckType DEF TypeOK
<1>2. CASE ~ready
  BY <1>2, TellType DEF ProcessGuildState, TypeOK
<1> QED BY <1>1, <1>2

LEMMA SpawnType ==
  ASSUME TypeOK, NEW a \in Attempts, NEW bag \in [Attempts -> Nat], SpawnConnect(a, bag)
  PROVE  /\ connects' \in [Attempts -> Nat] /\ inflight' \in Attempts \cup {None}
         /\ helpers' \in [Attempts \X Outcomes -> Nat]
<1>1. CASE connects' = bag /\ UNCHANGED <<inflight, helpers>>
  BY <1>1 DEF TypeOK
<1>2. CASE connects' = Put(bag, a) /\ UNCHANGED <<inflight, helpers>>
  BY <1>2, Bags DEF TypeOK
<1>3. CASE connects' = bag /\ inflight' = a /\ helpers' = Put(helpers, <<a, "lookup">>)
  <2>1. <<a, "lookup">> \in Attempts \X Outcomes
    BY DEF Outcomes
  <2> QED BY <1>3, <2>1, Bags DEF TypeOK
<1> QED BY <1>1, <1>2, <1>3 DEF SpawnConnect

\* The steps of the session that no message of the guild causes.
LEMMA TypeOfAttempts ==
  ASSUME TypeOK, NEW a \in Attempts,
         \/ GuildConnect(a) \/ Lookup(a) \/ GuildConnectTimeout(a)
         \/ \E outcome \in Outcomes : HelperResult(a, outcome)
  PROVE  TypeOK'
<1> USE DEF session, messages, process, client, history
<1>0. {connects, timeouts, requests} \subseteq [Attempts -> Nat]
  BY DEF TypeOK
<1>1. CASE GuildConnect(a)
  <2>1. Take(connects, a) \in [Attempts -> Nat]
    BY <1>0, <1>1, Bags DEF GuildConnect
  <2>2. entry' \in {Undefined, Cached} \cup Lives
    BY <1>1 DEF GuildConnect, TypeOK
  <2>3. /\ connects' \in [Attempts -> Nat] /\ inflight' \in Attempts \cup {None}
        /\ helpers' \in [Attempts \X Outcomes -> Nat]
    <3>1. CASE connects' = Take(connects, a) /\ UNCHANGED <<inflight, helpers>>
      BY <2>1, <3>1 DEF TypeOK
    <3>2. CASE connects' = Put(Take(connects, a), After(a)) /\ UNCHANGED <<inflight, helpers>>
      BY <2>1, <3>2, NextAttempt, Bags DEF TypeOK
    <3>3. CASE \E b \in {0, a} : SpawnConnect(b, Take(connects, a))
      BY <2>1, <3>3, Numbers, SpawnType
    <3> QED BY <1>1, <3>1, <3>2, <3>3 DEF GuildConnect
  <2> QED BY <1>1, <2>2, <2>3 DEF GuildConnect, TypeOK
<1>2. CASE Lookup(a)
  <2>1. <<a, "lookup">> \in Attempts \X Outcomes /\ \A o \in Outcomes : <<a, o>> \in Attempts \X Outcomes
    BY DEF Outcomes
  <2>2. Take(helpers, <<a, "lookup">>) \in [Attempts \X Outcomes -> Nat]
    BY <1>2, <2>1, Bags DEF Lookup, TypeOK
  <2>3. \A o \in Outcomes : Put(Take(helpers, <<a, "lookup">>), <<a, o>>) \in [Attempts \X Outcomes -> Nat]
    BY <2>1, <2>2, Bags
  <2>4. Put(requests, a) \in [Attempts -> Nat] /\ Put(timeouts, a) \in [Attempts -> Nat]
    BY <1>0, Bags
  <2>5. helpers' \in [Attempts \X Outcomes -> Nat]
    BY <1>2, <2>2, <2>3 DEF Lookup, Outcomes
  <2>6. {requests', timeouts'} \subseteq [Attempts -> Nat] /\ guild' \in {"down", "starting", "up"}
    BY <1>0, <1>2, <2>4 DEF Lookup, TypeOK
  <2>7. disturbances' \in 0..MaxDisturbances
    BY <1>2, DisturbType DEF Lookup, TypeOK
  <2> QED BY <1>2, <2>5, <2>6, <2>7 DEF Lookup, TypeOK
<1>3. CASE GuildConnectTimeout(a)
  <2>1. Take(timeouts, a) \in [Attempts -> Nat]
    BY <1>0, <1>3, Bags DEF GuildConnectTimeout
  <2>2. RetryOrFail(a) \in [Attempts -> Nat]
    BY <1>0, Numbers, NextAttempt, Bags DEF RetryOrFail
  <2>3. disturbances' \in 0..MaxDisturbances
    BY <1>3, DisturbType DEF GuildConnectTimeout, TypeOK
  <2> QED BY <1>3, <2>1, <2>2, <2>3 DEF GuildConnectTimeout, TypeOK
<1>4. ASSUME NEW outcome \in Outcomes, HelperResult(a, outcome) PROVE TypeOK'
  <2>1. <<a, outcome>> \in Attempts \X Outcomes
    OBVIOUS
  <2>2. helpers' \in [Attempts \X Outcomes -> Nat]
    BY <1>4, <2>1, Bags DEF HelperResult, TypeOK
  <2>3. RetryOrFail(a) \in [Attempts -> Nat] /\ Put(connects, After(a)) \in [Attempts -> Nat]
    BY <1>0, Numbers, NextAttempt, Bags DEF RetryOrFail
  <2>4. Put(connects, IF a < MaxDeferredAttempt THEN a + 1 ELSE MaxDeferredAttempt) \in [Attempts -> Nat]
    BY <1>0, Numbers, NextAttempt, Bags
  <2>5. connects' \in [Attempts -> Nat]
    BY <1>0, <1>4, <2>3, <2>4 DEF HelperResult, Outcomes
  <2>6. inflight' \in Attempts \cup {None} /\ entry' \in {Undefined, Cached} \cup Lives
    BY <1>4 DEF HelperResult, Outcomes, TypeOK
  <2>7. UNCHANGED <<ready, collected, client>> \/ CheckReadiness(presence, TRUE, collected)
    BY <1>4 DEF HelperResult, Outcomes
  <2>8. /\ {ready', present'} \subseteq BOOLEAN /\ collected' \in (0..MaxEvents) \cup {None}
        /\ view' \subseteq 1..MaxEvents
    BY <2>7, CheckType DEF TypeOK
  <2> QED BY <1>4, <2>2, <2>5, <2>6, <2>8 DEF HelperResult, TypeOK
<1> QED BY <1>1, <1>2, <1>3, <1>4

\* The messages of the guild.
LEMMA TypeOfMessages ==
  ASSUME TypeOK, ReceiveFromGuild
  PROVE  TypeOK'
<1> USE DEF session, messages, process, client, history
<1> DEFINE msg == Head(inbox)  rest == Tail(inbox)
<1>1. msg \in FromGuild /\ rest \in Seq(FromGuild)
  BY FirstMessage DEF ReceiveFromGuild
<1>2. \A a \in Attempts : RetryOrFail(a) \in [Attempts -> Nat] /\ Put(connects, 0) \in [Attempts -> Nat]
  BY Numbers, NextAttempt, Bags DEF RetryOrFail, TypeOK
<1>3. 0 \in Attempts /\ 0 \in 0..MaxEvents
  BY Numbers
<1>4. UNCHANGED <<presence, premature, crowded, timeouts, helpers, requests, process, disturbances>>
  BY DEF ReceiveFromGuild
<1>5. \/ msg.type = "result" /\ ConnectResult(msg, rest)
      \/ msg.type = "event" /\ GuildEvent(msg, rest)
      \/ msg.type = "leave" /\ ForcedLeave(rest)
      \/ msg.type = "down" /\ GuildDown(msg, rest)
  BY <1>1, Kinds, Zenon DEF ReceiveFromGuild
<1> HIDE DEF msg, rest
<1>6. CASE msg.type = "result" /\ ConnectResult(msg, rest)
  <2>1. /\ msg.attempt \in Attempts /\ msg.life \in Lives /\ msg.snap \in 0..MaxEvents
    BY <1>1, <1>6, Kinds
  <2>2. Monitored(msg.life, rest) \in Seq(FromGuild)
    BY <1>1, <2>1, Messages DEF Monitored
  <2>3. \/ UNCHANGED <<ready, collected, client, early>>
        \/ ProcessGuildState(msg.result = "unavailable", msg.snap)
    BY <1>6 DEF ConnectResult
  <2>4. /\ {ready', present', early'} \subseteq BOOLEAN /\ view' \subseteq 1..MaxEvents
        /\ collected' \in (0..MaxEvents) \cup {None}
    BY <2>1, <2>3, StateType DEF TypeOK
  <2>5. /\ inbox' \in Seq(FromGuild) /\ inflight' \in Attempts \cup {None}
        /\ entry' \in {Undefined, Cached} \cup Lives /\ connects' \in [Attempts -> Nat]
    BY <1>1, <1>2, <1>6, <2>1, <2>2 DEF ConnectResult, TypeOK
  <2>6. UNCHANGED <<notices, left, skipped, overtaken>>
    BY <1>6 DEF ConnectResult
  <2> QED BY <1>4, <2>4, <2>5, <2>6 DEF TypeOK
<1>7. CASE msg.type = "event" /\ GuildEvent(msg, rest)
  <2>1. /\ inbox' = rest
        /\ UNCHANGED <<entry, inflight, connects, ready, collected, notices, left, skipped, overtaken>>
    BY <1>7 DEF GuildEvent
  <2>2. CASE msg.create
    <3>1. TellClient(TRUE, msg.event) /\ msg.event \in 0..MaxEvents
      BY <1>1, <1>7, <2>2, Kinds DEF GuildEvent
    <3>2. {present', early'} \subseteq BOOLEAN /\ view' \subseteq 1..MaxEvents
      BY <3>1, TellType
    <3> QED BY <1>1, <1>4, <2>1, <3>2 DEF TypeOK
  <2>3. CASE ~msg.create
    <3>1. /\ early' = (early \/ ready) /\ present' = present
          /\ view' = IF present THEN view \cup {msg.event} ELSE view
      BY <1>7, <2>3 DEF GuildEvent
    <3>2. msg.event \in 1..MaxEvents
      BY <1>1, <1>7, <2>3, Kinds
    <3>3. early' \in BOOLEAN /\ view' \subseteq 1..MaxEvents
      BY <3>1, <3>2 DEF TypeOK
    <3> QED BY <1>1, <1>4, <2>1, <3>1, <3>3 DEF TypeOK
  <2> QED BY <2>2, <2>3
<1>8. CASE msg.type = "leave" /\ ForcedLeave(rest)
  <2>1. TellClient(FALSE, 0) /\ UNCHANGED <<inflight, ready, collected, notices, left, skipped, overtaken>>
    BY <1>8 DEF ForcedLeave
  <2>2. inbox' \in Seq(FromGuild)
    BY <1>1, <1>8, FlushedType DEF ForcedLeave
  <2>3. entry' = Cached /\ connects' \in [Attempts -> Nat]
    BY <1>2, <1>3, <1>8 DEF ForcedLeave
  <2>4. {present', early'} \subseteq BOOLEAN /\ view' \subseteq 1..MaxEvents
    BY <1>3, <2>1, TellType
  <2> QED BY <1>4, <2>1, <2>2, <2>3, <2>4 DEF TypeOK
<1>9. CASE msg.type = "down" /\ GuildDown(msg, rest)
  <2>1. UNCHANGED <<client, early>> \/ TellClient(FALSE, 0)
    BY <1>9 DEF GuildDown
  <2>2. {present', early'} \subseteq BOOLEAN /\ view' \subseteq 1..MaxEvents
    BY <1>3, <2>1, TellType DEF TypeOK
  <2>3. /\ inbox' = rest /\ UNCHANGED <<inflight, ready, collected, left, skipped, overtaken>>
        /\ entry' \in {entry, Undefined} /\ connects' \in {connects, Put(connects, 0)}
        /\ notices' = notices \/ notices' = Append(notices, "leave")
    BY <1>9 DEF GuildDown
  <2>4. notices' \in Seq({"join", "leave"})
    <3>1. notices \in Seq({"join", "leave"}) /\ "leave" \in {"join", "leave"}
      BY DEF TypeOK
    <3>2. Append(notices, "leave") \in Seq({"join", "leave"})
      BY <3>1, AppendProperties
    <3> QED BY <2>3, <3>1, <3>2
  <2>5. entry' \in {Undefined, Cached} \cup Lives /\ connects' \in [Attempts -> Nat]
    BY <1>2, <1>3, <2>3 DEF TypeOK
  <2> QED BY <1>1, <1>4, <2>2, <2>3, <2>4, <2>5 DEF TypeOK
<1> QED BY <1>5, <1>6, <1>7, <1>8, <1>9

\* What else happens to the session.
LEMMA TypeOfSession ==
  ASSUME TypeOK,
         \/ PresenceConnected \/ PrematureReadiness \/ ReceiveNotice
         \/ \E notice \in {"join", "leave"} : Membership(notice)
         \/ Crowd \/ Uncrowd
  PROVE  TypeOK'
<1> USE DEF session, messages, process, client, history
<1>0. 0 \in Attempts /\ 0 \in 0..MaxEvents /\ Put(connects, 0) \in [Attempts -> Nat]
  <2>1. connects \in [Attempts -> Nat]
    BY DEF TypeOK
  <2>2. 0 \in Attempts /\ 0 \in 0..MaxEvents
    BY Numbers
  <2> QED BY <2>1, <2>2, Bags
<1>1. CASE PresenceConnected
  <2>1. CheckReadiness(TRUE, entry # Undefined, collected)
    BY <1>1 DEF PresenceConnected
  <2>2. /\ {ready', present'} \subseteq BOOLEAN /\ collected' \in (0..MaxEvents) \cup {None}
        /\ view' \subseteq 1..MaxEvents
    BY <2>1, CheckType DEF TypeOK
  <2> QED BY <1>1, <2>2 DEF PresenceConnected, TypeOK
<1>2. CASE PrematureReadiness
  <2>1. SendReady(collected) \/ UNCHANGED <<ready, collected, client>>
    BY <1>2 DEF PrematureReadiness
  <2>2. /\ {ready', present'} \subseteq BOOLEAN /\ collected' \in (0..MaxEvents) \cup {None}
        /\ view' \subseteq 1..MaxEvents
    BY <2>1, ReadyType DEF TypeOK
  <2> QED BY <1>2, <2>2 DEF PrematureReadiness, TypeOK
<1>3. CASE ReceiveNotice
  <2>1. notices' \in Seq({"join", "leave"})
    BY <1>3 DEF ReceiveNotice, TypeOK
  <2>2. entry' \in {entry, Undefined} /\ connects' \in {connects, Put(connects, 0)} /\ left' \in {left, TRUE, FALSE}
    BY <1>3 DEF ReceiveNotice
  <2>3. inbox' = inbox \/ inbox' = Flushed(entry, inbox)
    BY <1>3 DEF ReceiveNotice
  <2>4. inbox' \in Seq(FromGuild)
    BY <2>3, FlushedType DEF TypeOK
  <2>5. UNCHANGED <<client, early>> \/ TellClient(FALSE, 0)
    BY <1>3 DEF ReceiveNotice
  <2>6. {present', early'} \subseteq BOOLEAN /\ view' \subseteq 1..MaxEvents
    BY <1>0, <2>5, TellType DEF TypeOK
  <2>7. entry' \in {Undefined, Cached} \cup Lives /\ connects' \in [Attempts -> Nat] /\ left' \in BOOLEAN
    BY <1>0, <2>2 DEF TypeOK
  <2> QED BY <1>3, <2>1, <2>4, <2>6, <2>7 DEF ReceiveNotice, TypeOK
<1>4. ASSUME NEW notice \in {"join", "leave"}, Membership(notice) PROVE TypeOK'
  <2>1. notices' \in Seq({"join", "leave"})
    BY <1>4, AppendProperties DEF Membership, TypeOK
  <2> QED BY <1>4, <2>1, DisturbType DEF Membership, TypeOK
<1>5. CASE Crowd \/ Uncrowd
  BY <1>5, DisturbType DEF Crowd, Uncrowd, TypeOK
<1> QED BY <1>1, <1>2, <1>3, <1>4, <1>5

\* The guild.
LEMMA TypeOfGuild ==
  ASSUME TypeOK, LifeInv,
         \/ \E a \in Attempts : SessionConnectAsync(a)
         \/ StartWorker \/ \E worker \in workers : WorkerDone(worker)
         \/ Dispatch \/ BecomesUnavailable \/ BecomesAvailable \/ GuildStops \/ GuildStarts
  PROVE  TypeOK'
<1> USE DEF session, messages, process, client, history
<1> DEFINE Workers == [attempt : Attempts, snap : 0..MaxEvents, unavailable : BOOLEAN, old : BOOLEAN]
<1>0. guild = "up" => life \in Lives
  BY Numbers DEF LifeInv, Lives, TypeOK
<1>1. ASSUME NEW a \in Attempts, SessionConnectAsync(a) PROVE TypeOK'
  <2>1. requests' \in [Attempts -> Nat]
    BY <1>1, Bags DEF SessionConnectAsync, TypeOK
  <2>2. \A worker \in workers : [worker EXCEPT !.old = TRUE] \in Workers
    BY DEF TypeOK
  <2>3. /\ {admission', queued'} \subseteq Attempts \cup {None}
        /\ admitted' \in {"none", "pending", "connected"}
    BY <1>1 DEF SessionConnectAsync, TypeOK
  <2>4. workers' = workers \/ workers' = {[worker EXCEPT !.old = TRUE] : worker \in workers}
    BY <1>1 DEF SessionConnectAsync
  <2>5. workers' \subseteq Workers
    <3>1. workers \subseteq Workers
      BY DEF TypeOK
    <3> HIDE DEF Workers
    <3> QED BY <2>2, <2>4, <3>1
  <2> QED BY <1>1, <2>1, <2>3, <2>5 DEF SessionConnectAsync, TypeOK
<1>2. CASE StartWorker
  <2>1. [attempt |-> queued, snap |-> events, unavailable |-> unavailable, old |-> FALSE] \in Workers
    BY <1>2 DEF StartWorker, TypeOK
  <2>2. workers' \subseteq Workers
    BY <1>2, <2>1 DEF StartWorker, TypeOK
  <2> QED BY <1>2, <2>2 DEF StartWorker, TypeOK
<1>3. ASSUME NEW worker \in workers, WorkerDone(worker) PROVE TypeOK'
  <2>1. worker.attempt \in Attempts /\ worker.snap \in 0..MaxEvents /\ worker.old \in BOOLEAN
    BY DEF TypeOK
  <2>2. inbox' \in Seq(FromGuild)
    <3>1. CASE inbox' = inbox
      BY <3>1 DEF TypeOK
    <3>2. ASSUME NEW result \in {"ok", "unavailable", "error"},
                 inbox' = Append(inbox, [type |-> "result", attempt |-> worker.attempt,
                            result |-> result, life |-> life, snap |-> worker.snap])
          PROVE  inbox' \in Seq(FromGuild)
      <4>1. [type |-> "result", attempt |-> worker.attempt, result |-> result, life |-> life,
             snap |-> worker.snap] \in FromGuild
        BY <1>0, <1>3, <2>1, Messages DEF WorkerDone
      <4>2. inbox \in Seq(FromGuild)
        BY DEF TypeOK
      <4> QED BY <3>2, <4>1, <4>2, AppendProperties
    <3> QED BY <1>3, <3>1, <3>2, Zenon DEF WorkerDone
  <2>3. /\ workers' \subseteq workers /\ admission' \in {admission, None}
        /\ admitted' \in {admitted, "connected"} /\ overtaken' \in {overtaken, overtaken \/ worker.old}
    BY <1>3 DEF WorkerDone
  <2>4. disturbances' \in 0..MaxDisturbances
    BY <1>3, DisturbType DEF WorkerDone, TypeOK
  <2>5. overtaken' \in BOOLEAN
    BY <2>1, <2>3 DEF TypeOK
  <2>6. UNCHANGED <<session, connects, timeouts, helpers, requests, notices, life, guild, unavailable,
                    queued, events, client, left, skipped, early>>
    BY <1>3 DEF WorkerDone
  <2>7. /\ workers' \subseteq [attempt : Attempts, snap : 0..MaxEvents, unavailable : BOOLEAN, old : BOOLEAN]
        /\ admission' \in Attempts \cup {None} /\ admitted' \in {"none", "pending", "connected"}
    BY <2>3 DEF TypeOK
  <2> QED BY <2>2, <2>4, <2>5, <2>6, <2>7 DEF TypeOK
<1>4. CASE Dispatch
  <2>1. events' \in 1..MaxEvents /\ events' \in 0..MaxEvents
    BY <1>4, Numbers DEF Dispatch, TypeOK
  <2>2. inbox' \in Seq(FromGuild)
    <3>1. [type |-> "event", create |-> FALSE, event |-> events'] \in FromGuild
      BY <2>1, Messages
    <3>2. inbox \in Seq(FromGuild)
      BY DEF TypeOK
    <3>3. inbox' = inbox \/ inbox' = Append(inbox, [type |-> "event", create |-> FALSE, event |-> events'])
      BY <1>4 DEF Dispatch
    <3> QED BY <3>1, <3>2, <3>3, AppendProperties
  <2>3. skipped' \subseteq 1..MaxEvents
    BY <1>4, <2>1 DEF Dispatch, TypeOK
  <2> QED BY <1>4, <2>1, <2>2, <2>3 DEF Dispatch, TypeOK
<1>5. CASE BecomesUnavailable
  <2>1. inbox' \in Seq(FromGuild)
    <3>1. inbox \in Seq(FromGuild)
      BY DEF TypeOK
    <3>2. inbox' = inbox \/ inbox' = Append(inbox, [type |-> "leave"])
      BY <1>5 DEF BecomesUnavailable
    <3> QED BY <3>1, <3>2, Messages, AppendProperties
  <2> QED BY <1>5, <2>1, DisturbType DEF BecomesUnavailable, CleanupAdmission, TypeOK
<1>6. CASE BecomesAvailable
  <2>1. inbox' \in Seq(FromGuild)
    <3>1. [type |-> "event", create |-> TRUE, event |-> events] \in FromGuild
      BY Messages DEF TypeOK
    <3>2. inbox \in Seq(FromGuild)
      BY DEF TypeOK
    <3> QED BY <1>6, <3>1, <3>2, AppendProperties DEF BecomesAvailable
  <2>2. overtaken' \in BOOLEAN
    BY <1>6 DEF BecomesAvailable, TypeOK
  <2> QED BY <1>6, <2>1, <2>2, DisturbType DEF BecomesAvailable, TypeOK
<1>7. CASE GuildStops
  <2>1. inbox' \in Seq(FromGuild)
    <3>1. \A reason \in {"other", "killed"} : Down(life, reason) \in FromGuild
      BY <1>0, <1>7, Messages DEF GuildStops
    <3>2. inbox \in Seq(FromGuild)
      BY DEF TypeOK
    <3> QED BY <1>7, <3>1, <3>2, AppendProperties DEF GuildStops
  <2>2. [a \in Attempts |-> 0] \in [Attempts -> Nat]
    OBVIOUS
  <2>3. requests' \in [Attempts -> Nat]
    BY <1>7, <2>2 DEF GuildStops
  <2>4. /\ disturbances' \in 0..MaxDisturbances /\ guild' = "down" /\ admitted' = "none" /\ workers' = {}
        /\ admission' = None /\ queued' = None
    BY <1>7, DisturbType DEF GuildStops
  <2>5. UNCHANGED <<session, connects, timeouts, helpers, notices, life, unavailable, events, client, history>>
    BY <1>7 DEF GuildStops
  <2> QED BY <2>1, <2>3, <2>4, <2>5 DEF TypeOK
<1>8. CASE GuildStarts
  <2>1. life' \in Lives \cup {0}
    <3>1. life \in Nat /\ disturbances \in Nat /\ disturbances <= MaxDisturbances
      BY Numbers DEF TypeOK, Lives
    <3>2. life' = life + 1 /\ life <= disturbances
      BY <1>8 DEF GuildStarts, LifeInv
    <3> QED BY <3>1, <3>2, Numbers DEF Lives
  <2> QED BY <1>8, <2>1 DEF GuildStarts, TypeOK
<1> QED BY <1>1, <1>2, <1>3, <1>4, <1>5, <1>6, <1>7, <1>8

LEMMA TypeStep ==
  ASSUME TypeOK, LifeInv, Next
  PROVE  TypeOK'
BY TypeOfAttempts, TypeOfMessages, TypeOfSession, TypeOfGuild DEF Next

LEMMA LifeStep ==
  ASSUME TypeOK, LifeInv, Next
  PROVE  LifeInv'
<1> USE DEF session, messages, process, client, history
<1>0. life \in Nat /\ disturbances \in Nat /\ MaxDisturbances \in Nat
  BY Numbers DEF TypeOK, Lives
<1>1. CASE GuildStops
  BY <1>0, <1>1 DEF GuildStops, Disturb, LifeInv
<1>2. CASE GuildStarts
  BY <1>0, <1>2 DEF GuildStarts, LifeInv
<1>3. ASSUME life' = life, guild' = guild \/ (guild # "up" /\ guild' = "starting"),
             disturbances' = disturbances \/ disturbances' = disturbances + 1
      PROVE  LifeInv'
  BY <1>0, <1>3 DEF LifeInv
<1>4. CASE \/ PresenceConnected \/ PrematureReadiness \/ ReceiveFromGuild \/ ReceiveNotice \/ StartWorker
           \/ Dispatch \/ BecomesUnavailable \/ BecomesAvailable
           \/ Membership("join") \/ Membership("leave") \/ Crowd \/ Uncrowd
  BY <1>3, <1>4
  DEF PresenceConnected, PrematureReadiness, ReceiveFromGuild, ReceiveNotice, StartWorker, Dispatch,
      BecomesUnavailable, BecomesAvailable, Membership, Crowd, Uncrowd, Disturb
<1>5. ASSUME NEW worker \in workers, WorkerDone(worker) PROVE LifeInv'
  BY <1>3, <1>5 DEF WorkerDone, Disturb
<1>6. ASSUME NEW a \in Attempts, GuildConnect(a) \/ Lookup(a) \/ GuildConnectTimeout(a) \/ SessionConnectAsync(a)
      PROVE  LifeInv'
  BY <1>3, <1>6 DEF GuildConnect, Lookup, GuildConnectTimeout, SessionConnectAsync, Disturb
<1>7. ASSUME NEW a \in Attempts, NEW outcome \in Outcomes, HelperResult(a, outcome) PROVE LifeInv'
  BY <1>3, <1>7 DEF HelperResult
<1> QED BY <1>1, <1>2, <1>4, <1>5, <1>6, <1>7 DEF Next

\* Every variable has its type, and processes are no more than their stops.
THEOREM TypeInvariant == Spec => [](TypeOK /\ LifeInv)
<1>1. Init => TypeOK /\ LifeInv
  <2> SUFFICES ASSUME Init PROVE TypeOK /\ LifeInv
    OBVIOUS
  <2>1. /\ connects \in [Attempts -> Nat] /\ timeouts \in [Attempts -> Nat] /\ requests \in [Attempts -> Nat]
        /\ helpers \in [Attempts \X Outcomes -> Nat]
    BY DEF Init
  <2>2. life \in Lives \cup {0} /\ disturbances \in 0..MaxDisturbances /\ events \in 0..MaxEvents
    BY Numbers DEF Init, Lives
  <2>3. inbox \in Seq(FromGuild) /\ notices \in Seq({"join", "leave"})
    BY EmptySeq DEF Init
  <2>4. LifeInv
    BY DEF Init, LifeInv
  <2> QED BY <2>1, <2>2, <2>3, <2>4 DEF Init, TypeOK
<1>2. (TypeOK /\ LifeInv) /\ [Next]_vars => (TypeOK /\ LifeInv)'
  <2> SUFFICES ASSUME TypeOK, LifeInv, [Next]_vars PROVE (TypeOK /\ LifeInv)'
    OBVIOUS
  <2>1. CASE UNCHANGED vars
    BY <2>1 DEF vars, session, messages, process, client, history, TypeOK, LifeInv
  <2> QED BY <2>1, TypeStep, LifeStep
<1> QED BY <1>1, <1>2, PTL DEF Spec

\* Every variable has its type.
THEOREM TypeCorrect == Spec => []TypeOK
<1>1. TypeOK /\ LifeInv => TypeOK
  OBVIOUS
<1> QED BY <1>1, TypeInvariant, PTL

-----------------------------------------------------------------------------
(* NeverGivesUp                                                            *)

\* The two parts of the retry chain: an attempt in flight will end, and
\* something keeps the session trying.
FlightInv == inflight # None => WillEnd(inflight)
TryingInv == Connected \/ left \/ inflight # None \/ \E a \in Attempts : connects[a] > 0

\* Messages, timers and helpers that are there stay, if only one is taken.
LEMMA Flying ==
  ASSUME TypeOK, FlightInv, UNCHANGED <<inflight, timeouts, helpers>>
  PROVE  FlightInv'
BY DEF FlightInv, WillEnd

LEMMA Trying ==
  ASSUME TypeOK, TryingInv, UNCHANGED <<entry, left, inflight, connects>>
  PROVE  TryingInv'
BY DEF TryingInv, Connected

\* A new message keeps the session trying.
LEMMA PutTrying ==
  ASSUME NEW bag \in [Attempts -> Nat], NEW a \in Attempts, connects' = Put(bag, a)
  PROVE  TryingInv'
<1>1. connects'[a] > 0
  BY Bags
<1> QED BY <1>1 DEF TryingInv

LEMMA RetryTrying ==
  ASSUME TypeOK, NEW a \in Attempts, connects' = RetryOrFail(a)
  PROVE  TryingInv'
<1>1. connects \in [Attempts -> Nat] /\ 0 \in Attempts
  BY Numbers DEF TypeOK
<1> QED BY <1>1, NextAttempt, PutTrying DEF RetryOrFail

\* An attempt that starts is one that will end.
LEMMA SpawnTries ==
  ASSUME TypeOK, FlightInv, NEW a \in Attempts, NEW bag \in [Attempts -> Nat],
         SpawnConnect(a, bag), timeouts' = timeouts
  PROVE  FlightInv' /\ TryingInv'
<1>1. CASE inflight # None
  <2>1. UNCHANGED <<inflight, helpers>>
    BY <1>1 DEF SpawnConnect
  <2> QED BY <1>1, <2>1, Flying DEF TryingInv
<1>2. CASE inflight = None /\ crowded
  <2>1. connects' = Put(bag, a) /\ UNCHANGED <<inflight, helpers>>
    BY <1>2 DEF SpawnConnect
  <2> QED BY <2>1, Flying, PutTrying
<1>3. CASE inflight = None /\ ~crowded
  <2>1. inflight' = a /\ helpers' = Put(helpers, <<a, "lookup">>)
    BY <1>3 DEF SpawnConnect
  <2>2. <<a, "lookup">> \in Attempts \X Outcomes /\ helpers \in [Attempts \X Outcomes -> Nat]
    BY DEF Outcomes, TypeOK
  <2>3. helpers'[<<a, "lookup">>] > 0
    BY <2>1, <2>2, Bags
  <2> QED BY <2>1, <2>3, Numbers DEF FlightInv, TryingInv, WillEnd, Outcomes
<1> QED BY <1>1, <1>2, <1>3

LEMMA GivesUpConnect ==
  ASSUME TypeOK, FlightInv, TryingInv, NEW a \in Attempts, GuildConnect(a)
  PROVE  FlightInv' /\ TryingInv'
<1>1. Take(connects, a) \in [Attempts -> Nat] /\ 0 \in Attempts
  BY Numbers, Bags DEF GuildConnect, TypeOK
<1>2. timeouts' = timeouts
  BY DEF GuildConnect
<1>3. CASE Connected /\ UNCHANGED <<entry, inflight, helpers>>
  BY <1>2, <1>3, Flying DEF TryingInv, Connected
<1>4. CASE connects' = Put(Take(connects, a), After(a)) /\ UNCHANGED <<entry, inflight, helpers>>
  BY <1>1, <1>2, <1>4, Flying, PutTrying, NextAttempt
<1>5. CASE \E b \in {0, a} : SpawnConnect(b, Take(connects, a))
  BY <1>1, <1>2, <1>5, SpawnTries
<1> QED BY <1>3, <1>4, <1>5 DEF GuildConnect

\* The lookup arms the timer, or reports.
LEMMA GivesUpLookup ==
  ASSUME TypeOK, FlightInv, TryingInv, NEW a \in Attempts, Lookup(a)
  PROVE  FlightInv' /\ TryingInv'
<1>1. /\ UNCHANGED <<entry, left, inflight, connects>>
      /\ helpers \in [Attempts \X Outcomes -> Nat] /\ timeouts \in [Attempts -> Nat]
      /\ \A b \in Attempts, o \in Outcomes : <<b, o>> \in Attempts \X Outcomes
      /\ <<a, "lookup">> \in Attempts \X Outcomes /\ helpers[<<a, "lookup">>] > 0
  BY DEF Lookup, session, history, TypeOK, Outcomes
<1>2. TryingInv'
  BY <1>1, Trying
<1> DEFINE less == Take(helpers, <<a, "lookup">>)
<1>3. /\ less \in [Attempts \X Outcomes -> Nat]
      /\ \A b \in Attempts, o \in Outcomes : b # a => less[<<b, o>>] = helpers[<<b, o>>]
  <2>1. "lookup" \in Outcomes
    BY DEF Outcomes
  <2>2. less \in [Attempts \X Outcomes -> Nat]
    BY <1>1, Bags
  <2>3. \A b \in Attempts, o \in Outcomes : b # a => less[<<b, o>>] = helpers[<<b, o>>]
    <3>1. helpers \in [Attempts \X Outcomes -> Nat]
      BY <1>1
    <3> QED BY <2>1, <3>1, HelperBags
  <2> QED BY <2>2, <2>3
<1>4. \/ helpers' = less /\ timeouts' = Put(timeouts, a)
      \/ timeouts' = timeouts /\ \E o \in Outcomes : helpers' = Put(less, <<a, o>>)
  BY DEF Lookup, Outcomes
<1> HIDE DEF less
<1>5. CASE helpers' = less /\ timeouts' = Put(timeouts, a)
  <2>1. timeouts'[a] > 0 /\ \A b \in Attempts : timeouts[b] > 0 => timeouts'[b] > 0
    BY <1>1, <1>5, Bags
  <2>2. FlightInv'
    BY <1>1, <1>3, <1>5, <2>1 DEF FlightInv, WillEnd, TypeOK
  <2> QED BY <1>2, <2>2
<1>6. ASSUME NEW o \in Outcomes, timeouts' = timeouts, helpers' = Put(less, <<a, o>>)
      PROVE  FlightInv'
  <2>1. helpers'[<<a, o>>] > 0
    BY <1>3, <1>6, HelperBags
  <2>2. \A b \in Attempts, p \in Outcomes : less[<<b, p>>] > 0 => helpers'[<<b, p>>] > 0
    BY <1>3, <1>6, HelperBags
  <2>3. WillEnd(a)'
    BY <2>1 DEF WillEnd
  <2>4. ASSUME NEW b \in Attempts, b # a, WillEnd(b) PROVE WillEnd(b)'
    <3>1. \A p \in Outcomes : helpers[<<b, p>>] > 0 => helpers'[<<b, p>>] > 0
      BY <1>3, <2>2, <2>4
    <3> QED BY <1>6, <2>4, <3>1 DEF WillEnd
  <2>5. inflight' = inflight /\ (inflight = None \/ inflight \in Attempts)
    BY <1>1 DEF TypeOK
  <2> QED BY <2>3, <2>4, <2>5 DEF FlightInv
<1> QED BY <1>2, <1>4, <1>5, <1>6

\* A timeout or a result of another attempt leaves the one in flight alone.
LEMMA GivesUpTimeout ==
  ASSUME TypeOK, FlightInv, TryingInv, NEW a \in Attempts, GuildConnectTimeout(a)
  PROVE  FlightInv' /\ TryingInv'
<1>1. /\ UNCHANGED <<entry, left, helpers>> /\ timeouts' = Take(timeouts, a)
      /\ timeouts \in [Attempts -> Nat]
  BY DEF GuildConnectTimeout, process, history, TypeOK
<1>2. CASE Current(a)
  <2>1. inflight' = None /\ connects' = RetryOrFail(a)
    BY <1>2 DEF GuildConnectTimeout
  <2> QED BY <2>1, RetryTrying DEF FlightInv
<1>3. CASE ~Current(a)
  <2>1. UNCHANGED <<inflight, connects>> /\ inflight # a
    BY <1>3 DEF GuildConnectTimeout, Current
  <2>2. \A b \in Attempts : b # a => timeouts'[b] = timeouts[b]
    BY <1>1, Bags
  <2>3. FlightInv'
    BY <1>1, <2>1, <2>2 DEF FlightInv, WillEnd, TypeOK
  <2> QED BY <1>1, <2>1, <2>3, Trying
<1> QED BY <1>2, <1>3

LEMMA GivesUpResult ==
  ASSUME TypeOK, FlightInv, TryingInv, NEW a \in Attempts, NEW outcome \in Outcomes,
         HelperResult(a, outcome)
  PROVE  FlightInv' /\ TryingInv'
<1>1. /\ UNCHANGED <<left, timeouts>> /\ helpers' = Take(helpers, <<a, outcome>>)
      /\ helpers \in [Attempts \X Outcomes -> Nat] /\ connects \in [Attempts -> Nat]
      /\ <<a, outcome>> \in Attempts \X Outcomes /\ outcome # "lookup"
  BY DEF HelperResult, process, history, TypeOK
<1>2. CASE Current(a)
  <2>1. inflight' = None
    BY <1>2 DEF HelperResult
  <2>2. CASE outcome = "cached"
    <3>1. connects' = Put(connects, After(a))
      BY <1>2, <2>2 DEF HelperResult
    <3> QED BY <1>1, <2>1, <3>1, NextAttempt, PutTrying DEF FlightInv
  <2>3. CASE outcome = "deferred"
    <3>1. connects' = Put(connects, IF a < MaxDeferredAttempt THEN a + 1 ELSE MaxDeferredAttempt)
      BY <1>2, <2>3 DEF HelperResult
    <3>2. (IF a < MaxDeferredAttempt THEN a + 1 ELSE MaxDeferredAttempt) \in Attempts
      BY NextAttempt, Numbers
    <3> QED BY <1>1, <2>1, <3>1, <3>2, PutTrying DEF FlightInv
  <2>4. CASE outcome = "failed"
    <3>1. connects' = RetryOrFail(a)
      BY <1>2, <2>4 DEF HelperResult
    <3> QED BY <2>1, <3>1, RetryTrying DEF FlightInv
  <2> QED BY <1>1, <2>2, <2>3, <2>4 DEF Outcomes
<1>3. CASE ~Current(a)
  <2>1. UNCHANGED <<entry, inflight, connects>> /\ inflight # a
    BY <1>3 DEF HelperResult, Current
  <2>2. \A b \in Attempts, o \in Outcomes : b # a => helpers'[<<b, o>>] = helpers[<<b, o>>]
    BY <1>1, HelperBags
  <2>3. FlightInv'
    BY <1>1, <2>1, <2>2 DEF FlightInv, WillEnd, TypeOK
  <2> QED BY <1>1, <2>1, <2>3, Trying
<1> QED BY <1>2, <1>3

\* Every message that ends a connection or an attempt starts another, but for
\* the one that makes the session leave.
LEMMA GivesUpMessages ==
  ASSUME TypeOK, FlightInv, TryingInv, ReceiveFromGuild \/ ReceiveNotice
  PROVE  FlightInv' /\ TryingInv'
<1> USE DEF session, messages, process, client, history
<1>0. connects \in [Attempts -> Nat] /\ 0 \in Attempts
  BY Numbers DEF TypeOK
<1>1. CASE ReceiveNotice
  <2>1. UNCHANGED <<inflight, timeouts, helpers>>
    BY <1>1 DEF ReceiveNotice
  <2>2. \/ connects' = Put(connects, 0) \/ left' = TRUE
        \/ UNCHANGED <<entry, connects, left>>
    BY <1>1 DEF ReceiveNotice
  <2>3. TryingInv'
    BY <1>0, <2>1, <2>2, Trying, PutTrying DEF TryingInv
  <2> QED BY <2>1, <2>3, Flying
<1>2. CASE ReceiveFromGuild
  <2> DEFINE msg == Head(inbox)  rest == Tail(inbox)
  <2>0. msg \in FromGuild
    BY <1>2, FirstMessage DEF ReceiveFromGuild
  <2>1. UNCHANGED <<timeouts, helpers>>
    BY <1>2 DEF ReceiveFromGuild
  <2>2. \/ msg.type = "result" /\ ConnectResult(msg, rest)
        \/ msg.type = "event" /\ GuildEvent(msg, rest)
        \/ msg.type = "leave" /\ ForcedLeave(rest)
        \/ msg.type = "down" /\ GuildDown(msg, rest)
    BY <1>2, <2>0, Kinds, Zenon DEF ReceiveFromGuild
  <2> HIDE DEF msg, rest
  <2>3. CASE msg.type = "result" /\ ConnectResult(msg, rest)
    <3>1. msg.attempt \in Attempts /\ msg.life \in Lives
      BY <2>0, <2>3, Kinds
    <3>2. CASE ~Current(msg.attempt)
      <4>1. UNCHANGED <<entry, inflight, connects, left>>
        BY <2>3, <3>2 DEF ConnectResult
      <4> QED BY <2>1, <4>1, Flying, Trying
    <3>3. CASE Current(msg.attempt)
      <4>1. inflight' = None
        BY <2>3, <3>3 DEF ConnectResult
      <4>2. \/ connects' = RetryOrFail(msg.attempt)
            \/ Connected /\ entry' = entry
            \/ entry' = msg.life
        BY <2>3, <3>3 DEF ConnectResult
      <4>3. TryingInv'
        BY <3>1, <4>2, RetryTrying DEF TryingInv, Connected
      <4> QED BY <4>1, <4>3 DEF FlightInv
    <3> QED BY <3>2, <3>3
  <2>4. CASE msg.type = "event" /\ GuildEvent(msg, rest)
    <3>1. UNCHANGED <<entry, inflight, connects, left>>
      BY <2>4 DEF GuildEvent
    <3> QED BY <2>1, <3>1, Flying, Trying
  <2>5. CASE msg.type = "leave" /\ ForcedLeave(rest)
    <3>1. connects' = Put(connects, 0) /\ inflight' = inflight
      BY <2>5 DEF ForcedLeave
    <3> QED BY <1>0, <2>1, <3>1, Flying, PutTrying
  <2>6. CASE msg.type = "down" /\ GuildDown(msg, rest)
    <3>1. /\ inflight' = inflight /\ left' = left
          /\ connects' = Put(connects, 0) \/ UNCHANGED <<entry, connects>>
      BY <2>6 DEF GuildDown
    <3> QED BY <1>0, <2>1, <3>1, Flying, Trying, PutTrying
  <2> QED BY <2>2, <2>3, <2>4, <2>5, <2>6
<1> QED BY <1>1, <1>2

LEMMA GivesUpStep ==
  ASSUME TypeOK, FlightInv, TryingInv, Next
  PROVE  FlightInv' /\ TryingInv'
<1> USE DEF session, messages, process, client, history
<1>1. ASSUME UNCHANGED <<inflight, timeouts, helpers, entry, left, connects>>
      PROVE  FlightInv' /\ TryingInv'
  BY <1>1, Flying, Trying
<1>2. CASE \/ PresenceConnected \/ PrematureReadiness \/ StartWorker
           \/ Dispatch \/ BecomesUnavailable \/ BecomesAvailable \/ GuildStops \/ GuildStarts
           \/ Membership("join") \/ Membership("leave") \/ Crowd \/ Uncrowd
  BY <1>1, <1>2
  DEF PresenceConnected, PrematureReadiness, StartWorker, Dispatch, BecomesUnavailable,
      BecomesAvailable, GuildStops, GuildStarts, Membership, Crowd, Uncrowd
<1>3. ASSUME NEW worker \in workers, WorkerDone(worker) PROVE FlightInv' /\ TryingInv'
  BY <1>1, <1>3 DEF WorkerDone
<1>4. ASSUME NEW a \in Attempts, SessionConnectAsync(a) PROVE FlightInv' /\ TryingInv'
  BY <1>1, <1>4 DEF SessionConnectAsync
<1> QED BY <1>2, <1>3, <1>4, GivesUpConnect, GivesUpLookup, GivesUpTimeout, GivesUpResult,
           GivesUpMessages
        DEF Next

\* The retry chain never breaks: a session that has not left the guild is
\* connected, or has a connect message to come or an attempt in flight that
\* will end.
THEOREM TheChainNeverBreaks == Spec => []NeverGivesUp
<1>1. Init => FlightInv /\ TryingInv
  <2> SUFFICES ASSUME Init PROVE FlightInv /\ TryingInv
    OBVIOUS
  <2>1. 0 \in Attempts /\ connects[0] > 0
    BY Numbers DEF Init
  <2> QED BY <2>1 DEF Init, FlightInv, TryingInv
<1>2. TypeOK /\ FlightInv /\ TryingInv /\ [Next]_vars => FlightInv' /\ TryingInv'
  <2> SUFFICES ASSUME TypeOK, FlightInv, TryingInv, [Next]_vars PROVE FlightInv' /\ TryingInv'
    OBVIOUS
  <2>1. CASE UNCHANGED vars
    BY <2>1, Flying, Trying DEF vars, session, messages, history
  <2> QED BY <2>1, GivesUpStep
<1>3. FlightInv /\ TryingInv => NeverGivesUp
  BY DEF FlightInv, TryingInv, NeverGivesUp
<1> QED BY <1>1, <1>2, <1>3, TypeCorrect, PTL DEF Spec

-----------------------------------------------------------------------------
(* ConnectedIsServed                                                       *)

\* The admission queue loses no attempt that is pending.
LEMMA AdmissionStep ==
  ASSUME TypeOK, AdmissionInv, Next
  PROVE  AdmissionInv'
<1> USE DEF session, messages, process, client, history
<1>1. ASSUME UNCHANGED <<admitted, admission, queued, workers>> PROVE AdmissionInv'
  BY <1>1 DEF AdmissionInv
<1>2. CASE \/ PresenceConnected \/ PrematureReadiness \/ ReceiveFromGuild \/ ReceiveNotice
           \/ Dispatch \/ BecomesAvailable \/ GuildStarts
           \/ Membership("join") \/ Membership("leave") \/ Crowd \/ Uncrowd
  BY <1>1, <1>2
  DEF PresenceConnected, PrematureReadiness, ReceiveFromGuild, ReceiveNotice, Dispatch,
      BecomesAvailable, GuildStarts, Membership, Crowd, Uncrowd
<1>3. ASSUME NEW a \in Attempts, GuildConnect(a) \/ Lookup(a) \/ GuildConnectTimeout(a)
      PROVE  AdmissionInv'
  BY <1>1, <1>3 DEF GuildConnect, Lookup, GuildConnectTimeout
<1>4. ASSUME NEW a \in Attempts, NEW outcome \in Outcomes, HelperResult(a, outcome)
      PROVE  AdmissionInv'
  BY <1>1, <1>4 DEF HelperResult
<1>5. ASSUME NEW a \in Attempts, SessionConnectAsync(a) PROVE AdmissionInv'
  <2>1. CASE Supersedes(a)
    <3>1. admission' = a /\ queued' = a /\ admitted' = "pending"
      BY <1>5, <2>1 DEF SessionConnectAsync
    <3> QED BY <3>1, Numbers DEF AdmissionInv
  <2>2. CASE ~Supersedes(a)
    BY <1>1, <1>5, <2>2 DEF SessionConnectAsync
  <2> QED BY <2>1, <2>2
<1>6. CASE StartWorker
  <2> DEFINE w == [attempt |-> queued, snap |-> events, unavailable |-> unavailable, old |-> FALSE]
  <2>1. w.attempt = queued
    OBVIOUS
  <2>2. workers' = workers \cup {w} /\ UNCHANGED <<admitted, admission>>
    BY <1>6 DEF StartWorker
  <2> HIDE DEF w
  <2> QED BY <2>1, <2>2 DEF AdmissionInv
<1>7. ASSUME NEW worker \in workers, WorkerDone(worker) PROVE AdmissionInv'
  <2>1. workers' = workers \ {worker} /\ queued' = queued
    BY <1>7 DEF WorkerDone
  <2>2. CASE Awaited(worker)
    <3>1. admission' = None /\ admitted' = "connected"
      BY <1>7, <2>2 DEF WorkerDone
    <3> QED BY <3>1 DEF AdmissionInv
  <2>3. CASE ~Awaited(worker)
    <3>1. UNCHANGED <<admission, admitted>> /\ admission # worker.attempt
      BY <1>7, <2>3 DEF WorkerDone, Awaited
    <3> QED BY <2>1, <3>1 DEF AdmissionInv
  <2> QED BY <2>2, <2>3
<1>8. CASE BecomesUnavailable
  <2>1. \/ UNCHANGED <<admitted, admission, queued, workers>>
        \/ admitted' = "none" /\ admission' = None
    BY <1>8 DEF BecomesUnavailable, CleanupAdmission
  <2> QED BY <1>1, <2>1 DEF AdmissionInv
<1>9. CASE GuildStops
  BY <1>9 DEF GuildStops, AdmissionInv
<1> QED BY <1>2, <1>3, <1>4, <1>5, <1>6, <1>7, <1>8, <1>9 DEF Next

\* The results that are left when a message is taken, flushed or added.
LEMMA ResultsTail ==
  ASSUME NEW s \in Seq(FromGuild), s # <<>>, NEW n, NEW up, NEW served, ResultsHold(s, n, up, served)
  PROVE  ResultsHold(Tail(s), n, up, served)
<1>1. /\ DOMAIN Tail(s) = 1..(Len(s) - 1) /\ DOMAIN s = 1..Len(s) /\ Len(s) \in Nat
      /\ \A i \in 1..(Len(s) - 1) : Tail(s)[i] = s[i + 1]
  OBVIOUS
<1> SUFFICES ASSUME NEW i \in DOMAIN Tail(s), Tail(s)[i].type = "result"
             PROVE  /\ Tail(s)[i].life <= n
                    /\ Tail(s)[i].life = n /\ up =>
                         served \/ \E j \in DOMAIN Tail(s) : j > i /\ Tail(s)[j].type = "leave"
  BY DEF ResultsHold
<1>2. i + 1 \in DOMAIN s /\ s[i + 1] = Tail(s)[i]
  BY <1>1
<1>3. \A j \in DOMAIN s : j > i + 1 => j - 1 \in DOMAIN Tail(s) /\ j - 1 > i /\ Tail(s)[j - 1] = s[j]
  BY <1>1
<1>4. /\ s[i + 1].life <= n
      /\ s[i + 1].life = n /\ up => served \/ \E j \in DOMAIN s : j > i + 1 /\ s[j].type = "leave"
  BY <1>2 DEF ResultsHold
<1> QED BY <1>2, <1>3, <1>4

LEMMA ResultsWithout ==
  ASSUME NEW s \in Seq(FromGuild), NEW k \in DOMAIN s, s[k].type = "down",
         NEW n, NEW up, NEW served, ResultsHold(s, n, up, served)
  PROVE  ResultsHold(Without(k, s), n, up, served)
<1> DEFINE t == Without(k, s)
           at(i) == IF i < k THEN i ELSE i + 1
<1>1. /\ DOMAIN s = 1..Len(s) /\ Len(s) \in Nat /\ DOMAIN t = 1..(Len(s) - 1)
      /\ \A i \in 1..(Len(s) - 1) : t[i] = IF i < k THEN s[i] ELSE s[i + 1]
  BY WithoutType
<1> HIDE DEF t
<1>2. \A i \in DOMAIN t : at(i) \in DOMAIN s /\ t[i] = s[at(i)]
  BY <1>1
<1>3. \A i \in DOMAIN t, j \in DOMAIN s : j > at(i) /\ j # k =>
        \E m \in DOMAIN t : m > i /\ t[m] = s[j]
  <2> SUFFICES ASSUME NEW i \in DOMAIN t, NEW j \in DOMAIN s, j > at(i), j # k
               PROVE  \E m \in DOMAIN t : m > i /\ t[m] = s[j]
    OBVIOUS
  <2>1. CASE j < k
    <3>1. j \in DOMAIN t /\ j > i /\ t[j] = s[j]
      BY <1>1, <2>1
    <3> QED BY <3>1
  <2>2. CASE j > k
    <3>1. j - 1 \in DOMAIN t /\ j - 1 > i /\ t[j - 1] = s[j]
      BY <1>1, <2>2
    <3> QED BY <3>1
  <2> QED BY <1>1, <2>1, <2>2
<1> HIDE DEF at
<1> SUFFICES ASSUME NEW i \in DOMAIN t, t[i].type = "result"
             PROVE  /\ t[i].life <= n
                    /\ t[i].life = n /\ up =>
                         served \/ \E j \in DOMAIN t : j > i /\ t[j].type = "leave"
  BY DEF ResultsHold, t
<1>4. /\ s[at(i)].life <= n
      /\ s[at(i)].life = n /\ up => served \/ \E j \in DOMAIN s : j > at(i) /\ s[j].type = "leave"
  BY <1>2 DEF ResultsHold
<1> QED BY <1>2, <1>3, <1>4

LEMMA ResultsAppend ==
  ASSUME NEW s \in Seq(FromGuild), NEW msg \in FromGuild,
         NEW n, NEW up, NEW served, ResultsHold(s, n, up, served),
         msg.type = "result" => msg.life <= n /\ (msg.life = n /\ up => served)
  PROVE  ResultsHold(Append(s, msg), n, up, served)
<1>1. /\ DOMAIN s = 1..Len(s) /\ Len(s) \in Nat /\ DOMAIN Append(s, msg) = 1..(Len(s) + 1)
      /\ Append(s, msg)[Len(s) + 1] = msg
      /\ \A i \in 1..Len(s) : Append(s, msg)[i] = s[i]
  OBVIOUS
<1> DEFINE t == Append(s, msg)
<1> HIDE DEF t
<1>2. /\ \A i \in DOMAIN t : i \in DOMAIN s \/ t[i] = msg
      /\ \A i \in DOMAIN s : i \in DOMAIN t /\ t[i] = s[i]
  BY <1>1 DEF t
<1>3. ResultsHold(t, n, up, served)
  BY <1>2 DEF ResultsHold
<1> QED BY <1>3 DEF t

\* A session that is removed is told so after every result.
LEMMA ResultsLeave ==
  ASSUME NEW s \in Seq(FromGuild), NEW msg \in FromGuild, msg.type = "leave",
         NEW n, NEW up, NEW served, NEW now, ResultsHold(s, n, up, served)
  PROVE  ResultsHold(Append(s, msg), n, up, now)
<1>1. /\ DOMAIN s = 1..Len(s) /\ Len(s) \in Nat /\ DOMAIN Append(s, msg) = 1..(Len(s) + 1)
      /\ Append(s, msg)[Len(s) + 1] = msg
      /\ \A i \in 1..Len(s) : Append(s, msg)[i] = s[i]
  OBVIOUS
<1> DEFINE t == Append(s, msg)
<1> HIDE DEF t
<1>2. /\ \A i \in DOMAIN t : i \in DOMAIN s \/ t[i] = msg
      /\ \A i \in DOMAIN s : i \in DOMAIN t /\ t[i] = s[i] /\ Len(s) + 1 > i
      /\ Len(s) + 1 \in DOMAIN t /\ t[Len(s) + 1] = msg
  BY <1>1 DEF t
<1>3. ResultsHold(t, n, up, now)
  BY <1>2 DEF ResultsHold
<1> QED BY <1>3 DEF t

\* Word that is on its way stays, until it comes.
LEMMA WordTail ==
  ASSUME NEW s \in Seq(FromGuild), s # <<>>, NEW e, Word(s, e),
         Head(s).type # "leave", ~IsDown(Head(s), e)
  PROVE  Word(Tail(s), e)
<1>1. /\ DOMAIN Tail(s) = 1..(Len(s) - 1) /\ DOMAIN s = 1..Len(s) /\ Len(s) \in Nat
      /\ \A i \in 1..(Len(s) - 1) : Tail(s)[i] = s[i + 1] /\ Head(s) = s[1]
  OBVIOUS
<1>2. PICK j \in DOMAIN s : s[j].type = "leave" \/ IsDown(s[j], e)
  BY DEF Word
<1>3. j # 1
  BY <1>2 DEF IsDown
<1>4. j - 1 \in DOMAIN Tail(s) /\ Tail(s)[j - 1] = s[j]
  BY <1>1, <1>3
<1> QED BY <1>2, <1>4 DEF Word

LEMMA WordAppend ==
  ASSUME NEW s \in Seq(FromGuild), NEW msg, NEW e
  PROVE  /\ Word(s, e) => Word(Append(s, msg), e)
         /\ msg.type = "leave" \/ IsDown(msg, e) => Word(Append(s, msg), e)
<1>1. /\ DOMAIN s = 1..Len(s) /\ Len(s) \in Nat /\ DOMAIN Append(s, msg) = 1..(Len(s) + 1)
      /\ Append(s, msg)[Len(s) + 1] = msg
      /\ \A i \in 1..Len(s) : Append(s, msg)[i] = s[i]
  OBVIOUS
<1> DEFINE t == Append(s, msg)
<1> HIDE DEF t
<1>2. /\ \A i \in DOMAIN s : i \in DOMAIN t /\ t[i] = s[i]
      /\ Len(s) + 1 \in DOMAIN t /\ t[Len(s) + 1] = msg
  BY <1>1 DEF t
<1>3. (Word(s, e) => Word(t, e)) /\ (msg.type = "leave" \/ IsDown(msg, e) => Word(t, e))
  BY <1>2 DEF Word
<1> QED BY <1>3 DEF t

\* What the messages do to the session that they are about.
LEMMA ServedMessages ==
  ASSUME TypeOK, LifeInv, ServedInv, ReceiveFromGuild
  PROVE  ServedInv'
<1> USE DEF session, messages, process, client, history
<1> DEFINE msg == Head(inbox)  rest == Tail(inbox)
           up == guild = "up"  served == admitted # "none"
<1>1. /\ msg \in FromGuild /\ rest \in Seq(FromGuild)
      /\ inbox \in Seq(FromGuild) /\ inbox # <<>>
  BY FirstMessage DEF ReceiveFromGuild, TypeOK
<1>2. UNCHANGED <<life, guild, admitted>>
  BY DEF ReceiveFromGuild
<1>3. \/ msg.type = "result" /\ ConnectResult(msg, rest)
      \/ msg.type = "event" /\ GuildEvent(msg, rest)
      \/ msg.type = "leave" /\ ForcedLeave(rest)
      \/ msg.type = "down" /\ GuildDown(msg, rest)
  BY <1>1, Kinds, Zenon DEF ReceiveFromGuild
<1>4. ResultsHold(inbox, life, up, served)
  BY DEF ServedInv
<1>5. ResultsHold(rest, life, up, served)
  BY <1>1, <1>4, ResultsTail
<1>6. /\ Connected => entry \in Lives
      /\ Connected => \/ entry = life /\ up /\ served
                      \/ Word(inbox, entry)
                      \/ \E k \in DOMAIN notices : notices[k] = "leave"
  BY DEF ServedInv, Connected
<1>7. ASSUME ResultsHold(inbox', life, up, served),
             entry' \in Lives => \/ entry' = life /\ up /\ served
                                 \/ Word(inbox', entry')
                                 \/ \E k \in DOMAIN notices' : notices'[k] = "leave"
      PROVE  ServedInv'
  BY <1>2, <1>7 DEF ServedInv, Connected
<1>8. ASSUME UNCHANGED <<entry, notices>>, inbox' = rest,
             msg.type # "leave", Connected => ~IsDown(msg, entry)
      PROVE  ServedInv'
  <2>1. Connected /\ Word(inbox, entry) => Word(rest, entry)
    BY <1>1, <1>8, WordTail
  <2> HIDE DEF msg, rest, up, served
  <2> QED BY <1>5, <1>6, <1>7, <1>8, <2>1 DEF Connected
<1>9. 1 \in DOMAIN inbox /\ inbox[1] = msg
  BY <1>1
<1>10. \A j \in DOMAIN inbox : j > 1 => j - 1 \in DOMAIN rest /\ rest[j - 1] = inbox[j]
  BY <1>1
<1>11. \A n \in Lives, r \in {"other", "killed", "noproc"} :
         /\ Down(n, r) \in FromGuild /\ Down(n, r).type = "down" /\ IsDown(Down(n, r), n)
  BY Messages DEF Down, IsDown
<1> HIDE DEF msg, rest
<1>12. CASE msg.type = "result" /\ ConnectResult(msg, rest)
  <2>1. notices' = notices /\ msg.life \in Lives
    BY <1>1, <1>12, Kinds DEF ConnectResult
  <2>2. \/ inbox' = rest /\ entry' = entry
        \/ entry' = msg.life /\ inbox' = Monitored(msg.life, rest)
    BY <1>12 DEF ConnectResult
  <2>3. CASE inbox' = rest /\ entry' = entry
    BY <1>8, <1>12, <2>1, <2>3 DEF IsDown
  <2>4. CASE entry' = msg.life /\ inbox' = Monitored(msg.life, rest)
    <3>1. CASE msg.life = life /\ up
      <4>1. inbox' = rest
        BY <2>4, <3>1 DEF Monitored
      <4>2. served \/ \E j \in DOMAIN inbox : j > 1 /\ inbox[j].type = "leave"
        BY <1>4, <1>9, <1>12, <3>1 DEF ResultsHold
      <4>3. served \/ Word(rest, msg.life)
        BY <1>10, <4>2 DEF Word
      <4> HIDE DEF up, served
      <4> QED BY <1>5, <1>7, <2>4, <3>1, <4>1, <4>3
    <3>2. CASE ~(msg.life = life /\ up)
      <4>1. inbox' = Append(rest, Down(msg.life, "noproc"))
        BY <2>4, <3>2 DEF Monitored
      <4>2. Word(inbox', msg.life)
        BY <1>1, <1>11, <2>1, <4>1, WordAppend
      <4>3. ResultsHold(inbox', life, up, served)
        BY <1>1, <1>5, <1>11, <2>1, <4>1, ResultsAppend
      <4> HIDE DEF up, served
      <4> QED BY <1>7, <2>4, <4>2, <4>3
    <3> QED BY <3>1, <3>2
  <2> QED BY <2>2, <2>3, <2>4
<1>13. CASE msg.type = "event" /\ GuildEvent(msg, rest)
  BY <1>8, <1>13 DEF GuildEvent, IsDown
<1>14. CASE msg.type = "leave" /\ ForcedLeave(rest)
  <2>1. entry' = Cached /\ inbox' \in {rest, Flushed(entry, rest)}
    BY <1>14 DEF ForcedLeave
  <2>2. ResultsHold(inbox', life, up, served)
    BY <1>1, <1>5, <2>1, FlushedIs, ResultsWithout DEF IsDown
  <2> HIDE DEF up, served
  <2> QED BY <1>7, <2>1, <2>2, Numbers
<1>15. CASE msg.type = "down" /\ GuildDown(msg, rest)
  <2>1. inbox' = rest
    BY <1>15 DEF GuildDown
  <2>2. CASE entry # msg.life
    <3>1. UNCHANGED <<entry, notices>>
      BY <1>15, <2>2 DEF GuildDown
    <3> QED BY <1>8, <1>15, <2>1, <2>2, <3>1 DEF IsDown
  <2>3. CASE notices' = Append(notices, "leave")
    <3>1. Len(notices) + 1 \in DOMAIN notices' /\ notices'[Len(notices) + 1] = "leave"
      BY <2>3 DEF TypeOK
    <3> HIDE DEF up, served
    <3> QED BY <1>5, <1>7, <2>1, <3>1
  <2>4. CASE entry' = Undefined
    <3> HIDE DEF up, served
    <3> QED BY <1>5, <1>7, <2>1, <2>4, Numbers
  <2> QED BY <1>15, <2>2, <2>3, <2>4 DEF GuildDown
<1> QED BY <1>3, <1>12, <1>13, <1>14, <1>15

LEMMA ServedNotice ==
  ASSUME TypeOK, ServedInv, ReceiveNotice
  PROVE  ServedInv'
<1> USE DEF session, messages, process, client, history
<1> DEFINE up == guild = "up"  served == admitted # "none"
<1>1. /\ UNCHANGED <<life, guild, admitted>> /\ inbox \in Seq(FromGuild)
      /\ notices \in Seq({"join", "leave"}) /\ notices # <<>> /\ notices' = Tail(notices)
  BY DEF ReceiveNotice, TypeOK
<1>2. ResultsHold(inbox, life, up, served)
  BY DEF ServedInv
<1>3. ASSUME ResultsHold(inbox', life, up, served),
             entry' \in Lives => \/ entry' = life /\ up /\ served
                                 \/ Word(inbox', entry')
                                 \/ \E k \in DOMAIN notices' : notices'[k] = "leave"
      PROVE  ServedInv'
  BY <1>1, <1>3 DEF ServedInv, Connected
<1>4. CASE entry' = Undefined /\ inbox' = Flushed(entry, inbox)
  <2>1. ResultsHold(inbox', life, up, served)
    BY <1>1, <1>2, <1>4, FlushedIs, ResultsWithout DEF IsDown
  <2> HIDE DEF up, served
  <2> QED BY <1>3, <1>4, <2>1, Numbers
<1>5. CASE UNCHANGED <<entry, inbox>> /\ (Head(notices) = "leave" => ~Connected)
  <2>1. /\ 1 \in DOMAIN notices /\ notices[1] = Head(notices)
        /\ \A k \in DOMAIN notices :
             k # 1 => k - 1 \in DOMAIN Tail(notices) /\ Tail(notices)[k - 1] = notices[k]
    BY <1>1
  <2>2. Connected => \/ entry = life /\ up /\ served
                     \/ Word(inbox, entry)
                     \/ \E k \in DOMAIN notices : notices[k] = "leave"
    BY DEF ServedInv
  <2>3. Connected => \/ entry = life /\ up /\ served
                     \/ Word(inbox, entry)
                     \/ \E k \in DOMAIN notices' : notices'[k] = "leave"
    BY <1>1, <1>5, <2>1, <2>2
  <2> HIDE DEF up, served
  <2> QED BY <1>2, <1>3, <1>5, <2>3 DEF Connected
<1> QED BY <1>1, <1>4, <1>5 DEF ReceiveNotice

\* The guild's steps: it takes a session in before it answers, and tells it
\* when it is removed or the guild is gone.
LEMMA ServedGuild ==
  ASSUME TypeOK, LifeInv, ServedInv,
         \/ \E a \in Attempts : SessionConnectAsync(a)
         \/ StartWorker \/ \E worker \in workers : WorkerDone(worker)
         \/ Dispatch \/ BecomesUnavailable \/ BecomesAvailable \/ GuildStops \/ GuildStarts
  PROVE  ServedInv'
<1> USE DEF session, messages, process, client, history
<1> DEFINE up == guild = "up"  served == admitted # "none"
<1>1. /\ UNCHANGED <<entry, notices>> /\ inbox \in Seq(FromGuild)
      /\ life \in Nat /\ (up => life \in Lives)
  BY Numbers DEF TypeOK, LifeInv, Lives, SessionConnectAsync, StartWorker, WorkerDone, Dispatch,
                 BecomesUnavailable, BecomesAvailable, GuildStops, GuildStarts
<1>2. ResultsHold(inbox, life, up, served)
  BY DEF ServedInv
<1>3. Connected => \/ entry = life /\ up /\ served
                   \/ Word(inbox, entry)
                   \/ \E k \in DOMAIN notices : notices[k] = "leave"
  BY DEF ServedInv
<1>4. ASSUME UNCHANGED <<life, guild>>, served => admitted' # "none",
             inbox' = inbox \/ \E msg \in FromGuild :
               /\ inbox' = Append(inbox, msg)
               /\ msg.type = "result" => msg.life = life /\ admitted' # "none"
      PROVE  ServedInv'
  <2>1. ResultsHold(inbox, life, up, admitted' # "none")
    BY <1>2, <1>4 DEF ResultsHold
  <2>2. ResultsHold(inbox', life, up, admitted' # "none")
    <3>1. CASE inbox' = inbox
      BY <2>1, <3>1
    <3>2. ASSUME NEW msg \in FromGuild, inbox' = Append(inbox, msg),
                 msg.type = "result" => msg.life = life /\ admitted' # "none"
          PROVE  ResultsHold(inbox', life, up, admitted' # "none")
      <4> HIDE DEF up
      <4>1. msg.type = "result" => msg.life <= life /\ (msg.life = life /\ up => admitted' # "none")
        BY <1>1, <3>2
      <4> QED BY <1>1, <2>1, <3>2, <4>1, ResultsAppend
    <3> QED BY <1>4, <3>1, <3>2
  <2>3. Word(inbox, entry) => Word(inbox', entry)
    <3>1. ASSUME NEW msg \in FromGuild, inbox' = Append(inbox, msg)
          PROVE  Word(inbox, entry) => Word(inbox', entry)
      BY <1>1, <3>1, WordAppend
    <3> QED BY <1>4, <3>1
  <2> QED BY <1>1, <1>3, <1>4, <2>2, <2>3 DEF ServedInv, Connected
<1>5. ASSUME NEW a \in Attempts, SessionConnectAsync(a) PROVE ServedInv'
  BY <1>4, <1>5 DEF SessionConnectAsync
<1>6. CASE StartWorker
  BY <1>4, <1>6 DEF StartWorker
<1>7. ASSUME NEW worker \in workers, WorkerDone(worker) PROVE ServedInv'
  <2>1. UNCHANGED <<life, guild>> /\ life \in Lives
    BY <1>1, <1>7 DEF WorkerDone
  <2>2. worker.attempt \in Attempts /\ worker.snap \in 0..MaxEvents
    BY DEF TypeOK
  <2>3. CASE UNCHANGED <<admitted, inbox>>
    BY <1>4, <2>1, <2>3
  <2>4. ASSUME NEW result \in {"ok", "unavailable", "error"}, admitted' = "connected",
               inbox' = Append(inbox, [type |-> "result", attempt |-> worker.attempt,
                          result |-> result, life |-> life, snap |-> worker.snap])
        PROVE  ServedInv'
    <3> DEFINE m == [type |-> "result", attempt |-> worker.attempt, result |-> result, life |-> life,
                     snap |-> worker.snap]
    <3>1. m \in FromGuild /\ m.life = life
      BY <2>1, <2>2, Messages
    <3>2. inbox' = Append(inbox, m)
      BY <2>4
    <3> HIDE DEF m
    <3> QED BY <1>4, <2>1, <2>4, <3>1, <3>2
  <2> QED BY <1>7, <2>3, <2>4, Zenon DEF WorkerDone
<1>8. CASE Dispatch
  <2> DEFINE m == [type |-> "event", create |-> FALSE, event |-> events']
  <2>1. m \in FromGuild /\ m.type # "result"
    <3>1. events' \in 1..MaxEvents
      BY <1>8, Numbers DEF Dispatch, TypeOK
    <3> QED BY <3>1, Messages
  <2>2. UNCHANGED <<life, guild, admitted>> /\ inbox' \in {inbox, Append(inbox, m)}
    BY <1>8 DEF Dispatch
  <2> HIDE DEF m
  <2> QED BY <1>4, <2>1, <2>2
<1>9. CASE BecomesAvailable
  <2> DEFINE m == [type |-> "event", create |-> TRUE, event |-> events]
  <2>1. m \in FromGuild /\ m.type # "result"
    BY Messages DEF TypeOK
  <2>2. UNCHANGED <<life, guild, admitted>> /\ inbox' \in {inbox, Append(inbox, m)}
    BY <1>9 DEF BecomesAvailable
  <2> HIDE DEF m
  <2> QED BY <1>4, <2>1, <2>2
<1>10. CASE BecomesUnavailable
  <2> DEFINE m == [type |-> "leave"]
  <2>1. m \in FromGuild /\ m.type = "leave"
    BY Messages
  <2>2. UNCHANGED <<life, guild>>
    BY <1>10 DEF BecomesUnavailable
  <2>3. CASE UNCHANGED <<admitted, inbox>>
    BY <1>4, <2>2, <2>3
  <2>4. CASE inbox' = Append(inbox, m) /\ admitted' = "none"
    <3> HIDE DEF m
    <3>1. ResultsHold(inbox', life, up, admitted' # "none")
      BY <1>1, <1>2, <2>1, <2>4, ResultsLeave
    <3>2. Word(inbox', entry)
      BY <1>1, <2>1, <2>4, WordAppend
    <3> QED BY <1>1, <2>2, <3>1, <3>2 DEF ServedInv
  <2> QED BY <1>10, <2>3, <2>4 DEF BecomesUnavailable
<1>11. CASE GuildStops
  <2>1. PICK reason \in {"other", "killed"} :
          inbox' = IF entry = life THEN Append(inbox, Down(life, reason)) ELSE inbox
    BY <1>11 DEF GuildStops
  <2>2. life' = life /\ guild' # "up" /\ life \in Lives
    BY <1>1, <1>11 DEF GuildStops
  <2>3. /\ Down(life, reason) \in FromGuild /\ Down(life, reason).type = "down"
        /\ IsDown(Down(life, reason), life)
    BY <2>2, Messages DEF Down, IsDown
  <2>4. ResultsHold(inbox, life, guild' = "up", admitted' # "none")
    BY <1>2, <2>2 DEF ResultsHold
  <2>5. ResultsHold(inbox', life, guild' = "up", admitted' # "none")
    BY <1>1, <2>1, <2>3, <2>4, ResultsAppend
  <2>6. /\ Word(inbox, entry) => Word(inbox', entry)
        /\ entry = life => Word(inbox', entry)
    BY <1>1, <2>1, <2>3, WordAppend
  <2> QED BY <1>1, <1>3, <2>2, <2>5, <2>6 DEF ServedInv, Connected
<1>12. CASE GuildStarts
  <2>1. inbox' = inbox /\ life' = life + 1 /\ guild # "up"
    BY <1>12 DEF GuildStarts
  <2>2. \A i \in DOMAIN inbox : inbox[i].type = "result" => inbox[i].life \in Nat
    <3>1. \A i \in DOMAIN inbox : inbox[i] \in FromGuild
      BY <1>1
    <3> QED BY <3>1, Kinds, Numbers
  <2>3. ResultsHold(inbox, life + 1, guild' = "up", admitted' # "none")
    BY <1>1, <1>2, <2>2 DEF ResultsHold
  <2> QED BY <1>1, <1>3, <2>1, <2>3 DEF ServedInv, Connected
<1> QED BY <1>5, <1>6, <1>7, <1>8, <1>9, <1>10, <1>11, <1>12

LEMMA ServedStep ==
  ASSUME TypeOK, LifeInv, ServedInv, Next
  PROVE  ServedInv'
<1> USE DEF session, messages, process, client, history
<1>1. ASSUME UNCHANGED <<entry, inbox, notices, life, admitted>>,
             guild' = guild \/ (guild # "up" /\ guild' = "starting")
      PROVE  ServedInv'
  BY <1>1 DEF ServedInv, Connected, ResultsHold
<1>2. CASE PresenceConnected \/ PrematureReadiness \/ Crowd \/ Uncrowd
  BY <1>1, <1>2 DEF PresenceConnected, PrematureReadiness, Crowd, Uncrowd
<1>3. ASSUME NEW a \in Attempts, Lookup(a) \/ GuildConnectTimeout(a) PROVE ServedInv'
  BY <1>1, <1>3 DEF Lookup, GuildConnectTimeout
<1>4. ASSUME UNCHANGED <<inbox, notices, life, guild, admitted>>, entry' = entry \/ entry' \notin Lives
      PROVE  ServedInv'
  BY <1>4 DEF ServedInv, Connected
<1>5. ASSUME NEW a \in Attempts, GuildConnect(a) PROVE ServedInv'
  BY <1>4, <1>5, Numbers DEF GuildConnect
<1>6. ASSUME NEW a \in Attempts, NEW outcome \in Outcomes, HelperResult(a, outcome) PROVE ServedInv'
  <2>1. entry' \in {entry, Cached} /\ UNCHANGED <<inbox, notices, life, guild, admitted>>
    BY <1>6 DEF HelperResult, Outcomes
  <2> QED BY <1>4, <2>1, Numbers
<1>7. ASSUME NEW notice, Membership(notice) PROVE ServedInv'
  <2>1. notices \in Seq({"join", "leave"}) /\ notices' = Append(notices, notice)
        /\ UNCHANGED <<entry, inbox, life, guild, admitted>>
    BY <1>7 DEF Membership, TypeOK
  <2>2. \A k \in DOMAIN notices : k \in DOMAIN notices' /\ notices'[k] = notices[k]
    BY <2>1
  <2> QED BY <2>1, <2>2 DEF ServedInv, Connected
<1> QED BY <1>2, <1>3, <1>5, <1>6, <1>7, ServedMessages, ServedNotice, ServedGuild DEF Next

\* A session that is connected to a guild is served by its latest process, or
\* word of the contrary is on its way.
THEOREM ServedInvariant == Spec => [](AdmissionInv /\ ServedInv)
<1>1. Init => AdmissionInv /\ ServedInv
  BY Numbers DEF Init, AdmissionInv, ServedInv, ResultsHold, Connected
<1>2. (TypeOK /\ LifeInv) /\ (AdmissionInv /\ ServedInv) /\ [Next]_vars => (AdmissionInv /\ ServedInv)'
  <2> SUFFICES ASSUME TypeOK, LifeInv, AdmissionInv, ServedInv, [Next]_vars
               PROVE  AdmissionInv' /\ ServedInv'
    OBVIOUS
  <2>1. CASE UNCHANGED vars
    BY <2>1 DEF vars, session, messages, process, client, history, AdmissionInv, ServedInv, Connected
  <2> QED BY <2>1, AdmissionStep, ServedStep
<1> QED BY <1>1, <1>2, TypeInvariant, PTL DEF Spec

\* A session that believes it is connected is connected: when nothing is on
\* its way, the guild's latest process is up and sends it events.
THEOREM ConnectedAlwaysServed == Spec => []ConnectedIsServed
<1>1. TypeOK /\ AdmissionInv /\ ServedInv => ConnectedIsServed
  <2> SUFFICES ASSUME TypeOK, AdmissionInv, ServedInv, Quiet, Connected
               PROVE  entry = life /\ guild = "up" /\ admitted = "connected"
    BY DEF ConnectedIsServed
  <2>1. ~Word(inbox, entry) /\ ~\E k \in DOMAIN notices : notices[k] = "leave"
    BY DEF Quiet, Word
  <2>2. entry = life /\ guild = "up" /\ admitted # "none"
    BY <2>1 DEF ServedInv
  <2>3. admitted # "pending"
    BY DEF Quiet, AdmissionInv
  <2> QED BY <2>2, <2>3 DEF TypeOK
<1> QED BY <1>1, TypeCorrect, ServedInvariant, PTL

-----------------------------------------------------------------------------
(* What the client holds: it misses only events that were dispatched while *)
(* the guild held its session back, and has the guild in its store just    *)
(* when the guild is available.                                            *)

\* The messages after position i.
Following(s, i) == {s[j] : j \in {k \in DOMAIN s : k > i}}

IsCreate(msg) == msg.type = "event" /\ msg.create
IsPlain(msg)  == msg.type = "event" /\ ~msg.create

EventsOf(M) == {msg.event : msg \in {m \in M : IsPlain(m)}}

\* A client's state that includes the events S misses only the skipped ones
\* of the n events, once the messages M are read.
Whole(S, M, n, missed) == 1..n \subseteq S \cup missed \cup EventsOf(M)

\* The states that messages carry are, unless an old worker computed them.
InboxWhole(s, n, missed, late) ==
  \A i \in DOMAIN s :
    /\ IsCreate(s[i]) => Whole(1..s[i].event, Following(s, i), n, missed)
    /\ ~late /\ s[i].type = "result" => Whole(1..s[i].snap, Following(s, i), n, missed)

WorkersWhole ==
  ~overtaken => \A worker \in workers :
    ~worker.old /\ Awaited(worker) => Whole(1..worker.snap, {}, events, skipped)

\* What is collected for READY, and what the client's store holds.
ClientWhole ==
  /\ ~early /\ ~overtaken /\ ready /\ collected # None =>
       Whole(1..collected, Following(inbox, 0), events, skipped)
  /\ ~early /\ present => ~ready
  /\ ~early /\ ~overtaken /\ present => Whole(view, Following(inbox, 0), events, skipped)

MissInv == InboxWhole(inbox, events, skipped, overtaken) /\ WorkersWhole /\ ClientWhole

-----------------------------------------------------------------------------
(* The messages that follow.                                               *)

LEMMA FollowTail ==
  ASSUME NEW s \in Seq(FromGuild), s # <<>>
  PROVE  /\ \A i \in DOMAIN Tail(s) :
              i + 1 \in DOMAIN s /\ s[i + 1] = Tail(s)[i] /\ Following(Tail(s), i) = Following(s, i + 1)
         /\ 1 \in DOMAIN s /\ s[1] = Head(s) /\ Following(Tail(s), 0) = Following(s, 1)
         /\ Following(s, 0) = Following(s, 1) \cup {Head(s)}
<1>1. /\ DOMAIN Tail(s) = 1..(Len(s) - 1) /\ DOMAIN s = 1..Len(s) /\ Len(s) \in Nat
      /\ \A i \in 1..(Len(s) - 1) : Tail(s)[i] = s[i + 1] /\ Head(s) = s[1]
      /\ 1 \in DOMAIN s /\ s[1] = Head(s)
  OBVIOUS
<1>2. ASSUME NEW i \in 0..(Len(s) - 1) PROVE Following(Tail(s), i) = Following(s, i + 1)
  <2>1. \A x : x \in Following(Tail(s), i) => x \in Following(s, i + 1)
    <3> SUFFICES ASSUME NEW j \in DOMAIN Tail(s), j > i PROVE Tail(s)[j] \in Following(s, i + 1)
      BY DEF Following
    <3>1. j + 1 \in DOMAIN s /\ j + 1 > i + 1 /\ Tail(s)[j] = s[j + 1]
      BY <1>1
    <3> QED BY <3>1 DEF Following
  <2>2. \A x : x \in Following(s, i + 1) => x \in Following(Tail(s), i)
    <3> SUFFICES ASSUME NEW j \in DOMAIN s, j > i + 1 PROVE s[j] \in Following(Tail(s), i)
      BY DEF Following
    <3>1. j - 1 \in DOMAIN Tail(s) /\ j - 1 > i /\ Tail(s)[j - 1] = s[j]
      BY <1>1
    <3> QED BY <3>1 DEF Following
  <2> QED BY <2>1, <2>2
<1>3. Following(s, 0) = Following(s, 1) \cup {Head(s)}
  <2>1. \A j \in DOMAIN s : j > 0 /\ (j > 1 \/ j = 1)
    BY <1>1
  <2> QED BY <1>1, <2>1 DEF Following
<1>4. 0 \in 0..(Len(s) - 1) /\ \A i \in DOMAIN Tail(s) : i \in 0..(Len(s) - 1) /\ i + 1 \in DOMAIN s
  BY <1>1
<1>5. 0 + 1 = 1
  OBVIOUS
<1> QED BY <1>1, <1>2, <1>3, <1>4, <1>5

LEMMA FollowAppend ==
  ASSUME NEW s \in Seq(FromGuild), NEW msg
  PROVE  /\ \A i \in DOMAIN Append(s, msg) :
              \/ /\ i \in DOMAIN s /\ Append(s, msg)[i] = s[i]
                 /\ Following(Append(s, msg), i) = Following(s, i) \cup {msg}
              \/ Append(s, msg)[i] = msg /\ Following(Append(s, msg), i) = {}
         /\ Following(Append(s, msg), 0) = Following(s, 0) \cup {msg}
<1> DEFINE t == Append(s, msg)
<1>1. /\ DOMAIN s = 1..Len(s) /\ Len(s) \in Nat /\ DOMAIN t = 1..(Len(s) + 1)
      /\ t[Len(s) + 1] = msg /\ \A i \in 1..Len(s) : t[i] = s[i]
  OBVIOUS
<1> HIDE DEF t
<1>2. ASSUME NEW i \in 0..Len(s) PROVE Following(t, i) = Following(s, i) \cup {msg}
  <2>1. \A x : x \in Following(t, i) => x \in Following(s, i) \cup {msg}
    <3> SUFFICES ASSUME NEW j \in DOMAIN t, j > i PROVE t[j] \in Following(s, i) \cup {msg}
      BY DEF Following
    <3>1. (j \in DOMAIN s /\ t[j] = s[j]) \/ t[j] = msg
      BY <1>1
    <3> QED BY <3>1 DEF Following
  <2>2. \A j \in DOMAIN s : j \in DOMAIN t /\ t[j] = s[j]
    BY <1>1
  <2>3. Len(s) + 1 \in DOMAIN t /\ Len(s) + 1 > i /\ t[Len(s) + 1] = msg
    BY <1>1
  <2> QED BY <2>1, <2>2, <2>3 DEF Following
<1>3. Following(t, Len(s) + 1) = {}
  <2>1. \A k \in DOMAIN t : ~(k > Len(s) + 1)
    BY <1>1
  <2> QED BY <2>1 DEF Following
<1>4. \A i \in DOMAIN t : (i \in DOMAIN s /\ i \in 0..Len(s)) \/ i = Len(s) + 1
  BY <1>1
<1>5. 0 \in 0..Len(s)
  BY <1>1
<1>6. /\ \A i \in DOMAIN t :
           \/ i \in DOMAIN s /\ t[i] = s[i] /\ Following(t, i) = Following(s, i) \cup {msg}
           \/ t[i] = msg /\ Following(t, i) = {}
      /\ Following(t, 0) = Following(s, 0) \cup {msg}
  BY <1>1, <1>2, <1>3, <1>4, <1>5
<1> QED BY <1>6 DEF t

LEMMA FollowWithout ==
  ASSUME NEW s \in Seq(FromGuild), NEW k \in DOMAIN s
  PROVE  /\ \A i \in DOMAIN Without(k, s) : \E j \in DOMAIN s :
              /\ Without(k, s)[i] = s[j]
              /\ Following(s, j) \subseteq Following(Without(k, s), i) \cup {s[k]}
              /\ Following(Without(k, s), i) \subseteq Following(s, j)
         /\ Following(s, 0) \subseteq Following(Without(k, s), 0) \cup {s[k]}
         /\ Following(Without(k, s), 0) \subseteq Following(s, 0)
<1> DEFINE t == Without(k, s)
           at(i) == IF i < k THEN i ELSE i + 1
<1>1. /\ DOMAIN s = 1..Len(s) /\ Len(s) \in Nat /\ DOMAIN t = 1..(Len(s) - 1)
      /\ \A i \in 1..(Len(s) - 1) : t[i] = IF i < k THEN s[i] ELSE s[i + 1]
  BY WithoutType
<1> HIDE DEF t
<1>2. \A i \in DOMAIN t : at(i) \in DOMAIN s /\ t[i] = s[at(i)]
  BY <1>1
<1>3. ASSUME NEW i \in 0..(Len(s) - 1), NEW h \in 0..Len(s), h = at(i) \/ (h = 0 /\ i = 0)
      PROVE  /\ Following(s, h) \subseteq Following(t, i) \cup {s[k]}
             /\ Following(t, i) \subseteq Following(s, h)
  <2>1. ASSUME NEW j \in DOMAIN s, j > h PROVE s[j] \in Following(t, i) \cup {s[k]}
    <3>1. CASE j < k
      <4>1. j \in DOMAIN t /\ j > i /\ t[j] = s[j]
        BY <1>1, <1>3, <2>1, <3>1
      <4> QED BY <4>1 DEF Following
    <3>2. CASE j > k
      <4>1. j - 1 \in DOMAIN t /\ j - 1 > i /\ t[j - 1] = s[j]
        BY <1>1, <1>3, <2>1, <3>2
      <4> QED BY <4>1 DEF Following
    <3>3. CASE j = k
      BY <3>3
    <3> QED BY <1>1, <3>1, <3>2, <3>3
  <2>2. ASSUME NEW j \in DOMAIN t, j > i PROVE t[j] \in Following(s, h)
    <3>1. at(j) \in DOMAIN s /\ at(j) > h /\ t[j] = s[at(j)]
      BY <1>1, <1>2, <1>3, <2>2
    <3> QED BY <3>1 DEF Following
  <2> QED BY <2>1, <2>2 DEF Following
<1>4. /\ \A i \in DOMAIN t : i \in 0..(Len(s) - 1) /\ at(i) \in 0..Len(s)
      /\ 0 \in 0..(Len(s) - 1) /\ 0 \in 0..Len(s)
  BY <1>1, <1>2
<1> HIDE DEF at
<1>5. /\ \A i \in DOMAIN t :
           /\ Following(s, at(i)) \subseteq Following(t, i) \cup {s[k]}
           /\ Following(t, i) \subseteq Following(s, at(i))
      /\ Following(s, 0) \subseteq Following(t, 0) \cup {s[k]}
      /\ Following(t, 0) \subseteq Following(s, 0)
  BY <1>3, <1>4
<1> QED BY <1>2, <1>5 DEF t

-----------------------------------------------------------------------------
(* MissesOnlySkipped                                                       *)

\* Messages that bring no event change nothing; more of them do no harm.
LEMMA WholeMore ==
  ASSUME NEW S, NEW M, NEW N, NEW n, NEW missed, Whole(S, M, n, missed),
         \A m \in M : IsPlain(m) => m \in N
  PROVE  Whole(S, N, n, missed)
<1>1. EventsOf(M) \subseteq EventsOf(N)
  BY DEF EventsOf
<1> QED BY <1>1 DEF Whole

LEMMA WholeTail ==
  ASSUME NEW s \in Seq(FromGuild), s # <<>>, NEW n, NEW missed, NEW late, InboxWhole(s, n, missed, late)
  PROVE  InboxWhole(Tail(s), n, missed, late)
BY FollowTail DEF InboxWhole

LEMMA WholeWithout ==
  ASSUME NEW s \in Seq(FromGuild), NEW k \in DOMAIN s, s[k].type = "down",
         NEW n, NEW missed, NEW late, InboxWhole(s, n, missed, late)
  PROVE  InboxWhole(Without(k, s), n, missed, late)
<1>1. ASSUME NEW i \in DOMAIN Without(k, s)
      PROVE  /\ IsCreate(Without(k, s)[i]) =>
                  Whole(1..Without(k, s)[i].event, Following(Without(k, s), i), n, missed)
             /\ ~late /\ Without(k, s)[i].type = "result" =>
                  Whole(1..Without(k, s)[i].snap, Following(Without(k, s), i), n, missed)
  <2>1. PICK j \in DOMAIN s :
          /\ Without(k, s)[i] = s[j]
          /\ Following(s, j) \subseteq Following(Without(k, s), i) \cup {s[k]}
    BY FollowWithout
  <2>2. \A m \in Following(s, j) : IsPlain(m) => m \in Following(Without(k, s), i)
    BY <2>1 DEF IsPlain
  <2>3. \A S : Whole(S, Following(s, j), n, missed) => Whole(S, Following(Without(k, s), i), n, missed)
    BY <2>2, WholeMore
  <2> QED BY <2>1, <2>3 DEF InboxWhole
<1> QED BY <1>1 DEF InboxWhole

\* A message is added, and with it an event perhaps, or an event is skipped.
LEMMA WholeAppend ==
  ASSUME NEW s \in Seq(FromGuild), NEW msg, NEW n, NEW missed, NEW late, InboxWhole(s, n, missed, late),
         NEW n2, NEW missed2, NEW late2,
         1..n2 \subseteq (1..n) \cup missed2 \cup EventsOf({msg}), missed \subseteq missed2,
         late => late2,
         IsCreate(msg) => Whole(1..msg.event, {}, n2, missed2),
         ~late2 /\ msg.type = "result" => Whole(1..msg.snap, {}, n2, missed2)
  PROVE  InboxWhole(Append(s, msg), n2, missed2, late2)
<1>1. ASSUME NEW M, NEW S, Whole(S, M, n, missed) PROVE Whole(S, M \cup {msg}, n2, missed2)
  <2>1. EventsOf(M \cup {msg}) = EventsOf(M) \cup EventsOf({msg})
    BY DEF EventsOf
  <2> QED BY <1>1, <2>1 DEF Whole
<1> DEFINE t == Append(s, msg)
<1>2. \A i \in DOMAIN t :
        \/ i \in DOMAIN s /\ t[i] = s[i] /\ Following(t, i) = Following(s, i) \cup {msg}
        \/ t[i] = msg /\ Following(t, i) = {}
  BY FollowAppend
<1> HIDE DEF t
<1>3. ASSUME NEW i \in DOMAIN t
      PROVE  /\ IsCreate(t[i]) => Whole(1..t[i].event, Following(t, i), n2, missed2)
             /\ ~late2 /\ t[i].type = "result" => Whole(1..t[i].snap, Following(t, i), n2, missed2)
  <2>1. CASE i \in DOMAIN s /\ t[i] = s[i] /\ Following(t, i) = Following(s, i) \cup {msg}
    BY <1>1, <2>1 DEF InboxWhole
  <2>2. CASE t[i] = msg /\ Following(t, i) = {}
    BY <2>2
  <2> QED BY <1>2, <2>1, <2>2
<1> QED BY <1>3 DEF InboxWhole, t

\* The message brings nothing.
LEMMA WholeSignal ==
  ASSUME NEW s \in Seq(FromGuild), NEW msg, msg.type \in {"down", "leave"},
         NEW n, NEW missed, NEW late, InboxWhole(s, n, missed, late)
  PROVE  InboxWhole(Append(s, msg), n, missed, late)
<1>1. ~IsCreate(msg) /\ msg.type # "result" /\ 1..n \subseteq (1..n) \cup missed \cup EventsOf({msg})
  BY DEF IsCreate
<1>2. /\ missed \subseteq missed /\ (late => late)
      /\ IsCreate(msg) => Whole(1..msg.event, {}, n, missed)
      /\ ~late /\ msg.type = "result" => Whole(1..msg.snap, {}, n, missed)
  BY <1>1
<1> QED BY <1>1, <1>2, WholeAppend, Zenon

\* An event is skipped, or a result is not counted on any more.
LEMMA WholeSkip ==
  ASSUME NEW s, NEW n, NEW missed, NEW late, InboxWhole(s, n, missed, late),
         NEW n2, NEW missed2, NEW late2,
         1..n2 \subseteq (1..n) \cup missed2, missed \subseteq missed2, late => late2
  PROVE  InboxWhole(s, n2, missed2, late2)
<1>1. ASSUME NEW M, NEW S, Whole(S, M, n, missed) PROVE Whole(S, M, n2, missed2)
  BY <1>1 DEF Whole
<1> QED BY <1>1 DEF InboxWhole

\* The client is told: the state it is given must be whole.
LEMMA WholeTold ==
  ASSUME NEW p \in BOOLEAN, NEW n, TellClient(p, n), UNCHANGED <<ready, overtaken, events, skipped>>,
         ~early' /\ ~overtaken /\ p => Whole(1..n, Following(inbox', 0), events, skipped)
  PROVE  ClientWhole'
<1>1. /\ present' = p /\ early' = (early \/ ready) /\ (p => view' = 1..n)
      /\ ready' = ready /\ overtaken' = overtaken /\ events' = events /\ skipped' = skipped
  BY DEF TellClient
<1>2. ready => early'
  BY <1>1
<1>3. ~early' /\ ~overtaken' /\ present' => Whole(view', Following(inbox', 0), events', skipped')
  BY <1>1
<1> QED BY <1>1, <1>2, <1>3 DEF ClientWhole

\* READY is sent, or what is collected for it changes.
LEMMA WholeReady ==
  ASSUME NEW x, CheckReadiness(presence, TRUE, x) \/ CheckReadiness(TRUE, entry # Undefined, x) \/ SendReady(x),
         ready, ClientWhole, UNCHANGED <<early, overtaken, events, skipped>>,
         ~early /\ ~overtaken /\ x # None => Whole(1..x, Following(inbox', 0), events, skipped)
  PROVE  ClientWhole'
<1>1. CASE SendReady(x)
  <2>1. ready' = FALSE /\ present' = (x # None) /\ (x # None => view' = 1..x)
    BY <1>1 DEF SendReady
  <2> QED BY <2>1 DEF ClientWhole
<1>2. CASE collected' = x /\ UNCHANGED <<ready, client>>
  <2>1. collected' = x /\ ready' = ready /\ present' = present
    BY <1>2 DEF client
  <2> QED BY <2>1 DEF ClientWhole
<1> QED BY <1>1, <1>2 DEF CheckReadiness

\* The client is told nothing, and the events it has not read stay.
LEMMA WholeClient ==
  ASSUME ClientWhole, UNCHANGED <<early, ready, collected, present, view>>, overtaken => overtaken',
         \A S : Whole(S, Following(inbox, 0), events, skipped) =>
                  Whole(S, Following(inbox', 0), events', skipped')
  PROVE  ClientWhole'
BY DEF ClientWhole

\* The messages.
LEMMA WholeMessages ==
  ASSUME TypeOK, MissInv, ReceiveFromGuild
  PROVE  MissInv'
<1> USE DEF session, messages, process, client, history
<1> DEFINE msg == Head(inbox)  rest == Tail(inbox)
<1>1. /\ msg \in FromGuild /\ rest \in Seq(FromGuild)
      /\ inbox \in Seq(FromGuild) /\ inbox # <<>>
  BY FirstMessage DEF ReceiveFromGuild, TypeOK
<1>2. UNCHANGED <<presence, workers, admission, events>>
  BY DEF ReceiveFromGuild
<1>3. \/ msg.type = "result" /\ ConnectResult(msg, rest)
      \/ msg.type = "event" /\ GuildEvent(msg, rest)
      \/ msg.type = "leave" /\ ForcedLeave(rest)
      \/ msg.type = "down" /\ GuildDown(msg, rest)
  BY <1>1, Kinds, Zenon DEF ReceiveFromGuild
<1>4. InboxWhole(rest, events, skipped, overtaken)
  BY <1>1, WholeTail DEF MissInv
<1>5. /\ 1 \in DOMAIN inbox /\ inbox[1] = msg /\ Following(rest, 0) = Following(inbox, 1)
      /\ Following(inbox, 0) = Following(inbox, 1) \cup {msg}
  BY <1>1, FollowTail
<1> HIDE DEF msg, rest
<1>6. /\ IsCreate(msg) => Whole(1..msg.event, Following(rest, 0), events, skipped)
      /\ ~overtaken /\ msg.type = "result" => Whole(1..msg.snap, Following(rest, 0), events, skipped)
  BY <1>5 DEF MissInv, InboxWhole
<1>7. ASSUME msg.type # "event" PROVE \A S : Whole(S, Following(inbox, 0), events, skipped) =>
                                               Whole(S, Following(rest, 0), events, skipped)
  <2>1. \A m \in Following(inbox, 0) : IsPlain(m) => m \in Following(rest, 0)
    BY <1>5, <1>7 DEF IsPlain
  <2> QED BY <2>1, WholeMore
<1>8. ASSUME UNCHANGED <<skipped, overtaken>>, ClientWhole', InboxWhole(inbox', events, skipped, overtaken)
      PROVE  MissInv'
  BY <1>2, <1>8 DEF MissInv, WorkersWhole, Awaited
<1>9. CASE msg.type = "result" /\ ConnectResult(msg, rest)
  <2>1. UNCHANGED <<skipped, overtaken>> /\ msg.life \in Lives /\ msg.snap \in Nat
    BY <1>1, <1>9, Kinds, Numbers DEF ConnectResult
  <2>2. \/ inbox' = rest
        \/ inbox' = Append(rest, Down(msg.life, "noproc"))
    BY <1>9 DEF ConnectResult, Monitored
  <2> DEFINE d == Down(msg.life, "noproc")
  <2>3. d.type = "down" /\ ~IsCreate(d)
    BY DEF Down, IsCreate
  <2> HIDE DEF d
  <2>4. InboxWhole(Append(rest, d), events, skipped, overtaken)
    BY <1>1, <1>4, <2>3, WholeSignal
  <2>5. \A S : Whole(S, Following(rest, 0), events, skipped) => Whole(S, Following(inbox', 0), events, skipped)
    <3>1. Following(rest, 0) \subseteq Following(inbox', 0)
      <4>1. inbox' = rest \/ inbox' = Append(rest, d)
        BY <2>2 DEF d
      <4>2. Following(Append(rest, d), 0) = Following(rest, 0) \cup {d}
        BY <1>1, FollowAppend
      <4> QED BY <4>1, <4>2
    <3> QED BY <3>1, WholeMore
  <2>6. CASE UNCHANGED <<ready, collected, client, early>>
    <3>1. ClientWhole'
      BY <1>2, <1>7, <1>9, <2>1, <2>5, <2>6, WholeClient DEF MissInv
    <3> QED BY <1>4, <1>8, <2>1, <2>2, <2>4, <3>1 DEF d
  <2>7. CASE ProcessGuildState(msg.result = "unavailable", msg.snap)
    <3>1. CASE ready
      <4> DEFINE x == IF msg.result = "unavailable" THEN collected ELSE msg.snap
      <4>1. CheckReadiness(presence, TRUE, x) /\ UNCHANGED early
        BY <2>7, <3>1 DEF ProcessGuildState
      <4>2. ~early /\ ~overtaken /\ x # None => Whole(1..x, Following(inbox', 0), events, skipped)
        <5>1. CASE x = collected
          BY <1>7, <1>9, <2>5, <3>1, <5>1 DEF MissInv, ClientWhole
        <5>2. CASE x = msg.snap
          BY <1>6, <1>9, <2>5, <5>2
        <5> QED BY <5>1, <5>2
      <4> HIDE DEF x
      <4>3. ClientWhole'
        BY <1>2, <2>1, <3>1, <4>1, <4>2, WholeReady DEF MissInv
      <4> QED BY <1>4, <1>8, <2>1, <2>2, <2>4, <4>3 DEF d
    <3>2. CASE ~ready
      <4>1. TellClient(msg.result # "unavailable", msg.snap) /\ UNCHANGED <<ready, collected>>
        BY <2>7, <3>2 DEF ProcessGuildState
      <4>2. ~overtaken => Whole(1..msg.snap, Following(inbox', 0), events, skipped)
        BY <1>6, <1>9, <2>5
      <4>3. ClientWhole'
        BY <1>2, <2>1, <4>1, <4>2, WholeTold
      <4> QED BY <1>4, <1>8, <2>1, <2>2, <2>4, <4>3 DEF d
    <3> QED BY <3>1, <3>2
  <2> QED BY <1>9, <2>6, <2>7 DEF ConnectResult
<1>10. CASE msg.type = "event" /\ GuildEvent(msg, rest)
  <2>1. inbox' = rest /\ UNCHANGED <<ready, collected, skipped, overtaken>>
    BY <1>10 DEF GuildEvent
  <2>2. CASE msg.create
    <3>1. TellClient(TRUE, msg.event) /\ IsCreate(msg)
      BY <1>10, <2>2 DEF GuildEvent, IsCreate
    <3>2. ClientWhole'
      BY <1>2, <1>6, <2>1, <3>1, WholeTold
    <3> QED BY <1>4, <1>8, <2>1, <3>2
  <2>3. CASE ~msg.create
    <3>1. /\ early' = (early \/ ready) /\ present' = present
          /\ view' = IF present THEN view \cup {msg.event} ELSE view
      BY <1>10, <2>3 DEF GuildEvent
    <3>2. IsPlain(msg) /\ EventsOf(Following(inbox, 0)) \subseteq EventsOf(Following(rest, 0)) \cup {msg.event}
      BY <1>5, <1>10, <2>3 DEF IsPlain, EventsOf
    <3>3. ~early' /\ ~overtaken /\ present => Whole(view', Following(rest, 0), events, skipped)
      BY <3>1, <3>2 DEF MissInv, ClientWhole, Whole
    <3>4. ClientWhole'
      BY <1>2, <2>1, <3>1, <3>3 DEF ClientWhole
    <3> QED BY <1>4, <1>8, <2>1, <3>4
  <2> QED BY <2>2, <2>3
<1>11. ASSUME inbox' \in {rest, Flushed(entry, rest)} PROVE InboxWhole(inbox', events, skipped, overtaken)
  BY <1>1, <1>4, <1>11, FlushedIs, WholeWithout DEF IsDown
<1>12. ASSUME TellClient(FALSE, 0), UNCHANGED <<ready, skipped, overtaken>> PROVE ClientWhole'
  BY <1>2, <1>12, WholeTold
<1>13. CASE msg.type = "leave" /\ ForcedLeave(rest)
  BY <1>8, <1>11, <1>12, <1>13 DEF ForcedLeave
<1>14. CASE msg.type = "down" /\ GuildDown(msg, rest)
  <2>1. inbox' = rest /\ UNCHANGED <<ready, collected, skipped, overtaken>>
    BY <1>14 DEF GuildDown
  <2>2. CASE UNCHANGED <<client, early>>
    <3>1. ClientWhole'
      BY <1>2, <1>7, <1>14, <2>1, <2>2, WholeClient DEF MissInv
    <3> QED BY <1>4, <1>8, <2>1, <3>1
  <2>3. CASE TellClient(FALSE, 0)
    BY <1>4, <1>8, <1>12, <2>1, <2>3
  <2> QED BY <1>14, <2>2, <2>3 DEF GuildDown
<1> QED BY <1>3, <1>9, <1>10, <1>13, <1>14

\* What else happens to the session.
LEMMA WholeSession ==
  ASSUME TypeOK, MissInv,
         \/ PresenceConnected \/ PrematureReadiness \/ ReceiveNotice
         \/ \E a \in Attempts, outcome \in Outcomes : HelperResult(a, outcome)
  PROVE  MissInv'
<1> USE DEF session, messages, process, client, history
<1>1. ASSUME UNCHANGED <<inbox, workers, admission, events, skipped, overtaken>>, ClientWhole'
      PROVE  MissInv'
  BY <1>1 DEF MissInv, WorkersWhole, Awaited
<1>2. ASSUME UNCHANGED <<inbox, workers, admission, events, skipped, early, overtaken>>,
             \/ UNCHANGED <<ready, collected, client>>
             \/ ready /\ SendReady(collected)
             \/ CheckReadiness(presence, TRUE, collected)
             \/ CheckReadiness(TRUE, entry # Undefined, collected)
      PROVE  MissInv'
  <2>1. CASE UNCHANGED <<ready, collected, client>>
    BY <1>1, <1>2, <2>1, WholeClient DEF MissInv
  <2>2. CASE ready
    <3>1. ~early /\ ~overtaken /\ collected # None =>
            Whole(1..collected, Following(inbox', 0), events, skipped)
      BY <1>2, <2>2 DEF MissInv, ClientWhole
    <3>2. CASE UNCHANGED <<ready, collected, client>>
      BY <2>1, <3>2
    <3>3. CASE \/ SendReady(collected)
               \/ CheckReadiness(presence, TRUE, collected)
               \/ CheckReadiness(TRUE, entry # Undefined, collected)
      <4>1. ClientWhole'
        BY <1>2, <2>2, <3>1, <3>3, WholeReady DEF MissInv
      <4> QED BY <1>1, <1>2, <4>1
    <3> QED BY <1>2, <3>2, <3>3
  <2>3. CASE ~ready /\ ~UNCHANGED <<ready, collected, client>>
    <3>1. UNCHANGED <<ready, collected, client>>
      BY <1>2, <2>3 DEF CheckReadiness
    <3> QED BY <2>3, <3>1
  <2> QED BY <2>1, <2>2, <2>3
<1>3. CASE PresenceConnected
  BY <1>2, <1>3 DEF PresenceConnected
<1>4. CASE PrematureReadiness
  BY <1>2, <1>4 DEF PrematureReadiness
<1>5. ASSUME NEW a \in Attempts, NEW outcome \in Outcomes, HelperResult(a, outcome) PROVE MissInv'
  BY <1>2, <1>5 DEF HelperResult, Outcomes
<1>6. CASE ReceiveNotice
  <2>1. UNCHANGED <<workers, admission, events, skipped, overtaken, ready, collected>> /\ inbox \in Seq(FromGuild)
    BY <1>6 DEF ReceiveNotice, TypeOK
  <2>2. CASE UNCHANGED <<inbox, client, early>>
    BY <1>2, <2>1, <2>2
  <2>3. CASE inbox' = Flushed(entry, inbox) /\ TellClient(FALSE, 0)
    <3>1. InboxWhole(inbox', events, skipped, overtaken)
      BY <2>1, <2>3, FlushedIs, WholeWithout DEF IsDown, MissInv
    <3>2. ClientWhole'
      BY <2>1, <2>3, WholeTold
    <3> QED BY <2>1, <3>1, <3>2 DEF MissInv, WorkersWhole, Awaited
  <2> QED BY <1>6, <2>2, <2>3 DEF ReceiveNotice
<1> QED BY <1>3, <1>4, <1>5, <1>6

\* The guild: what a worker computes is whole until it is told, since the
\* session is held back meanwhile.
LEMMA WholeGuild ==
  ASSUME TypeOK, AdmissionInv, MissInv,
         \/ \E a \in Attempts : SessionConnectAsync(a)
         \/ StartWorker \/ \E worker \in workers : WorkerDone(worker)
         \/ Dispatch \/ BecomesUnavailable \/ BecomesAvailable \/ GuildStops
  PROVE  MissInv'
<1> USE DEF session, messages, process, client, history
<1>1. /\ UNCHANGED <<early, ready, collected, present, view>>
      /\ inbox \in Seq(FromGuild) /\ events \in Nat
      /\ InboxWhole(inbox, events, skipped, overtaken)
      /\ overtaken => overtaken'
  <2>1. inbox \in Seq(FromGuild) /\ events \in Nat /\ InboxWhole(inbox, events, skipped, overtaken)
    BY Numbers DEF TypeOK, MissInv
  <2>2. UNCHANGED <<early, ready, collected, present, view>>
    BY DEF SessionConnectAsync, StartWorker, WorkerDone, Dispatch, BecomesUnavailable, BecomesAvailable,
           GuildStops
  <2>3. overtaken => overtaken'
    <3>1. ASSUME NEW worker \in workers, WorkerDone(worker), overtaken PROVE overtaken'
      BY <3>1 DEF WorkerDone
    <3> QED BY <3>1 DEF SessionConnectAsync, StartWorker, Dispatch, BecomesUnavailable, BecomesAvailable,
                        GuildStops
  <2> QED BY <2>1, <2>2, <2>3
<1>2. ASSUME UNCHANGED <<events, skipped>>, WorkersWhole',
             inbox' = inbox \/ \E m : /\ inbox' = Append(inbox, m) /\ ~IsPlain(m)
                                      /\ IsCreate(m) => Whole(1..m.event, {}, events, skipped)
                                      /\ ~overtaken' /\ m.type = "result" => Whole(1..m.snap, {}, events, skipped)
      PROVE  MissInv'
  <2>1. CASE inbox' = inbox
    <3>1. InboxWhole(inbox', events, skipped, overtaken')
      BY <1>1, <2>1, WholeSkip
    <3>2. ClientWhole'
      BY <1>1, <1>2, <2>1, WholeClient DEF MissInv
    <3> QED BY <1>2, <3>1, <3>2 DEF MissInv
  <2>2. ASSUME NEW m, inbox' = Append(inbox, m),
               IsCreate(m) => Whole(1..m.event, {}, events, skipped),
               ~overtaken' /\ m.type = "result" => Whole(1..m.snap, {}, events, skipped)
        PROVE  MissInv'
    <3>1. 1..events \subseteq (1..events) \cup skipped \cup EventsOf({m}) /\ skipped \subseteq skipped
      OBVIOUS
    <3>2. InboxWhole(inbox', events, skipped, overtaken')
      <4>1. InboxWhole(Append(inbox, m), events, skipped, overtaken')
        BY <1>1, <2>2, <3>1, WholeAppend, Zenon
      <4> QED BY <2>2, <4>1
    <3>3. Following(inbox', 0) = Following(inbox, 0) \cup {m}
      BY <1>1, <2>2, FollowAppend
    <3>4. \A S : Whole(S, Following(inbox, 0), events, skipped) => Whole(S, Following(inbox', 0), events, skipped)
      BY <3>3, WholeMore
    <3>5. ClientWhole'
      BY <1>1, <1>2, <3>4, WholeClient DEF MissInv
    <3> QED BY <1>2, <3>2, <3>5 DEF MissInv
  <2> QED BY <1>2, <2>1, <2>2
<1>3. ASSUME NEW a \in Attempts, SessionConnectAsync(a) PROVE MissInv'
  <2>1. UNCHANGED <<events, skipped, overtaken, inbox>>
    BY <1>3 DEF SessionConnectAsync
  <2>2. WorkersWhole'
    <3>1. CASE UNCHANGED <<workers, admission>>
      BY <2>1, <3>1 DEF MissInv, WorkersWhole, Awaited
    <3>2. CASE workers' = {[worker EXCEPT !.old = TRUE] : worker \in workers}
      <4>1. \A worker \in workers : [worker EXCEPT !.old = TRUE].old = TRUE
        BY DEF TypeOK
      <4>2. \A worker \in workers' : worker.old = TRUE
        BY <3>2, <4>1
      <4> QED BY <4>2 DEF WorkersWhole
    <3> QED BY <1>3, <3>1, <3>2 DEF SessionConnectAsync
  <2> QED BY <1>2, <2>1, <2>2
<1>4. CASE StartWorker
  <2> DEFINE w == [attempt |-> queued, snap |-> events, unavailable |-> unavailable, old |-> FALSE]
  <2>1. UNCHANGED <<events, skipped, overtaken, inbox, admission>> /\ workers' = workers \cup {w}
    BY <1>4 DEF StartWorker
  <2>2. w.snap = events
    OBVIOUS
  <2> HIDE DEF w
  <2>3. WorkersWhole'
    BY <2>1, <2>2 DEF MissInv, WorkersWhole, Awaited, Whole
  <2> QED BY <1>2, <2>1, <2>3
<1>5. ASSUME NEW worker \in workers, WorkerDone(worker) PROVE MissInv'
  <2>1. UNCHANGED <<events, skipped>> /\ workers' = workers \ {worker}
    BY <1>5 DEF WorkerDone
  <2>2. CASE ~Awaited(worker)
    <3>1. UNCHANGED <<admission, inbox, overtaken>>
      BY <1>5, <2>2 DEF WorkerDone
    <3>2. WorkersWhole'
      BY <2>1, <3>1 DEF MissInv, WorkersWhole, Awaited
    <3> QED BY <1>2, <2>1, <3>1, <3>2
  <2>3. CASE Awaited(worker)
    <3>1. PICK result \in {"ok", "unavailable", "error"} :
            inbox' = Append(inbox, [type |-> "result", attempt |-> worker.attempt,
                       result |-> result, life |-> life, snap |-> worker.snap])
      BY <1>5, <2>3 DEF WorkerDone
    <3>2. overtaken' = (overtaken \/ worker.old) /\ admission' = None
      BY <1>5, <2>3 DEF WorkerDone
    <3>3. \A w \in workers' : w.attempt # None
      BY <2>1, Numbers DEF TypeOK
    <3>4. WorkersWhole'
      BY <3>2, <3>3 DEF WorkersWhole, Awaited
    <3> DEFINE m == [type |-> "result", attempt |-> worker.attempt, result |-> result, life |-> life,
                     snap |-> worker.snap]
    <3>5. m.type = "result" /\ m.snap = worker.snap /\ inbox' = Append(inbox, m)
      BY <3>1
    <3> HIDE DEF m
    <3>6. ~overtaken' => Whole(1..worker.snap, {}, events, skipped)
      BY <2>3, <3>2 DEF MissInv, WorkersWhole
    <3>7. ~IsCreate(m) /\ ~IsPlain(m)
      BY <3>5 DEF IsCreate, IsPlain
    <3> QED BY <1>2, <2>1, <3>4, <3>5, <3>6, <3>7
  <2> QED BY <2>2, <2>3
<1>6. CASE Dispatch
  <2>1. UNCHANGED <<overtaken, workers, admission, admitted>> /\ events' = events + 1
        /\ 1..events' = (1..events) \cup {events'}
    BY <1>1, <1>6 DEF Dispatch
  <2>2. CASE admitted = "connected"
    <3> DEFINE m == [type |-> "event", create |-> FALSE, event |-> events']
    <3>1. /\ inbox' = Append(inbox, m) /\ skipped' = skipped
          /\ m.type = "event" /\ IsPlain(m) /\ ~IsCreate(m) /\ m.event = events'
      BY <1>6, <2>2 DEF Dispatch, Receives, IsPlain, IsCreate
    <3> HIDE DEF m
    <3>2. EventsOf({m}) = {events'}
      BY <3>1 DEF EventsOf
    <3>3. InboxWhole(inbox', events', skipped, overtaken)
      <4>1. /\ 1..events' \subseteq (1..events) \cup skipped \cup EventsOf({m})
            /\ skipped \subseteq skipped /\ (overtaken => overtaken)
            /\ IsCreate(m) => Whole(1..m.event, {}, events', skipped)
            /\ ~overtaken /\ m.type = "result" => Whole(1..m.snap, {}, events', skipped)
        BY <2>1, <3>1, <3>2
      <4>2. InboxWhole(Append(inbox, m), events', skipped, overtaken)
        BY <1>1, <4>1, WholeAppend, Zenon
      <4> QED BY <3>1, <4>2
    <3>4. Following(inbox', 0) = Following(inbox, 0) \cup {m}
      BY <1>1, <3>1, FollowAppend
    <3>5. EventsOf(Following(inbox', 0)) = EventsOf(Following(inbox, 0)) \cup {events'}
      BY <3>1, <3>4 DEF EventsOf
    <3>6. \A S : Whole(S, Following(inbox, 0), events, skipped) => Whole(S, Following(inbox', 0), events', skipped)
      BY <2>1, <3>5 DEF Whole
    <3>7. ClientWhole'
      BY <1>1, <2>1, <3>1, <3>6, WholeClient DEF MissInv
    <3>8. \A w \in workers : ~Awaited(w)
      BY <2>2, Numbers DEF AdmissionInv, Awaited, TypeOK
    <3>9. WorkersWhole'
      BY <2>1, <3>8 DEF WorkersWhole, Awaited
    <3> QED BY <2>1, <3>1, <3>3, <3>7, <3>9 DEF MissInv
  <2>3. CASE admitted # "connected"
    <3>1. inbox' = inbox /\ skipped' = skipped \cup {events'}
      BY <1>6, <2>3 DEF Dispatch, Receives
    <3>2. InboxWhole(inbox, events', skipped', overtaken)
      BY <1>1, <2>1, <3>1, WholeSkip
    <3>3. \A S, M : Whole(S, M, events, skipped) => Whole(S, M, events', skipped')
      BY <2>1, <3>1 DEF Whole
    <3>4. ClientWhole'
      BY <1>1, <2>1, <3>1, <3>3, WholeClient DEF MissInv
    <3>5. WorkersWhole'
      BY <2>1, <3>3 DEF MissInv, WorkersWhole, Awaited
    <3> QED BY <2>1, <3>1, <3>2, <3>4, <3>5 DEF MissInv
  <2> QED BY <2>2, <2>3
<1>7. CASE BecomesUnavailable
  <2> DEFINE m == [type |-> "leave"]
  <2>1. /\ UNCHANGED <<events, skipped, overtaken, workers>>
        /\ inbox' = inbox \/ inbox' = Append(inbox, m)
        /\ admission' = None \/ admission' = admission
    BY <1>7 DEF BecomesUnavailable, CleanupAdmission
  <2>2. m.type = "leave" /\ ~IsPlain(m) /\ ~IsCreate(m)
    BY DEF IsPlain, IsCreate
  <2> HIDE DEF m
  <2>3. WorkersWhole'
    BY <2>1, Numbers DEF MissInv, WorkersWhole, Awaited, TypeOK
  <2> QED BY <1>2, <2>1, <2>2, <2>3
<1>8. CASE BecomesAvailable
  <2> DEFINE m == [type |-> "event", create |-> TRUE, event |-> events]
  <2>1. /\ UNCHANGED <<events, skipped, workers, admission>>
        /\ inbox' = inbox \/ inbox' = Append(inbox, m)
    BY <1>8 DEF BecomesAvailable
  <2>2. m.type = "event" /\ m.event = events /\ ~IsPlain(m)
    BY DEF IsPlain
  <2> HIDE DEF m
  <2>3. Whole(1..events, {}, events, skipped)
    BY DEF Whole
  <2>4. WorkersWhole'
    BY <1>1, <2>1 DEF MissInv, WorkersWhole, Awaited
  <2> QED BY <1>2, <2>1, <2>2, <2>3, <2>4
<1>9. CASE GuildStops
  <2>1. PICK reason \in {"other", "killed"} :
          inbox' = IF entry = life THEN Append(inbox, Down(life, reason)) ELSE inbox
    BY <1>9 DEF GuildStops
  <2>2. UNCHANGED <<events, skipped>> /\ WorkersWhole'
    BY <1>9 DEF GuildStops, WorkersWhole
  <2> DEFINE m == Down(life, reason)
  <2>3. m.type = "down" /\ ~IsPlain(m) /\ ~IsCreate(m)
    BY DEF Down, IsPlain, IsCreate
  <2>4. inbox' = inbox \/ inbox' = Append(inbox, m)
    BY <2>1
  <2> HIDE DEF m
  <2> QED BY <1>2, <2>2, <2>3, <2>4
<1> QED BY <1>3, <1>4, <1>5, <1>6, <1>7, <1>8, <1>9

LEMMA MissStep ==
  ASSUME TypeOK, AdmissionInv, MissInv, Next
  PROVE  MissInv'
<1> USE DEF session, messages, process, client, history
<1>1. ASSUME UNCHANGED <<inbox, workers, admission, events, skipped, early, overtaken, ready, collected,
                         present, view>>
      PROVE  MissInv'
  BY <1>1 DEF MissInv, WorkersWhole, Awaited, ClientWhole
<1>2. CASE GuildStarts \/ Crowd \/ Uncrowd \/ Membership("join") \/ Membership("leave")
  BY <1>1, <1>2 DEF GuildStarts, Crowd, Uncrowd, Membership
<1>3. ASSUME NEW a \in Attempts, GuildConnect(a) \/ Lookup(a) \/ GuildConnectTimeout(a) PROVE MissInv'
  BY <1>1, <1>3 DEF GuildConnect, Lookup, GuildConnectTimeout
<1> QED BY <1>2, <1>3, WholeMessages, WholeSession, WholeGuild DEF Next

\* What the client holds or is about to hold misses only events that were
\* dispatched while the guild held the session back.
THEOREM MissInvariant == Spec => []MissInv
<1>1. Init => MissInv
  BY DEF Init, MissInv, InboxWhole, WorkersWhole, ClientWhole
<1>2. TypeOK /\ AdmissionInv /\ MissInv /\ [Next]_vars => MissInv'
  <2> SUFFICES ASSUME TypeOK, AdmissionInv, MissInv, [Next]_vars PROVE MissInv'
    OBVIOUS
  <2>1. CASE UNCHANGED vars
    BY <2>1 DEF vars, session, messages, process, client, history, MissInv, WorkersWhole, Awaited, ClientWhole
  <2> QED BY <2>1, MissStep
<1>3. AdmissionInv /\ ServedInv => AdmissionInv
  OBVIOUS
<1> QED BY <1>1, <1>2, <1>3, TypeCorrect, ServedInvariant, PTL DEF Spec

\* The client's state of a guild misses an event only if the guild dispatched
\* it while the session was not admitted.
THEOREM ClientMissesOnlySkipped == Spec => []MissesOnlySkipped
<1>1. MissInv => MissesOnlySkipped
  <2> SUFFICES ASSUME MissInv, Quiet, present, ~early, ~overtaken PROVE 1..events \subseteq view \cup skipped
    BY DEF MissesOnlySkipped
  <2>1. Following(inbox, 0) = {}
    BY DEF Quiet, Following
  <2>2. EventsOf(Following(inbox, 0)) = {}
    BY <2>1 DEF EventsOf
  <2> QED BY <2>2 DEF MissInv, ClientWhole, Whole
<1> QED BY <1>1, MissInvariant, PTL

-----------------------------------------------------------------------------
(* ClientAgrees                                                            *)

\* A connected session has no attempt in flight.
IdleInv == Connected => inflight = None

Left(M) == \E m \in M : m.type = "leave"

\* Whoever believes that the guild is available or not is right, or the
\* messages M say that it is.
Told(M, now, available) == now <=> (~available /\ ~\E m \in M : IsCreate(m))

\* No word is on its way that ends the connection.
Settled(s, e, n) == ~Word(s, e) /\ ~\E k \in DOMAIN n : n[k] = "leave"

\* The results of process n, unless the session is removed after them.
InboxAgrees(s, n, now) ==
  \A i \in DOMAIN s :
    s[i].type = "result" /\ s[i].result # "error" /\ s[i].life = n /\ ~Left(Following(s, i))
    => Told(Following(s, i), now, s[i].result # "unavailable")

WorkersAgree ==
  ~overtaken => \A worker \in workers :
    ~worker.old /\ Awaited(worker) => (worker.unavailable <=> unavailable)

\* What the client's store has, or will have after READY.
Believes == IF ready THEN collected # None ELSE present

ClientTold ==
  ~early /\ ~overtaken /\ Connected /\ Settled(inbox, entry, notices) =>
    Told(Following(inbox, 0), unavailable, Believes)

\* A state that was collected for READY is that of the present connection.
CollectedInv == ~early /\ ready /\ ~Connected => collected = None

\* What is on its way from the guild agrees with it.
ResultsAgree == ~overtaken /\ guild = "up" => InboxAgrees(inbox, life, unavailable)

AgreeInv == CollectedInv /\ ResultsAgree /\ WorkersAgree /\ ClientTold

-----------------------------------------------------------------------------
LEMMA IdleStep ==
  ASSUME TypeOK, IdleInv, Next
  PROVE  IdleInv'
<1> USE DEF session, messages, process, client, history
<1>1. ASSUME UNCHANGED inflight \/ inflight' = None, entry' = entry \/ entry' \notin Lives PROVE IdleInv'
  BY <1>1 DEF IdleInv, Connected
<1>2. CASE \/ PresenceConnected \/ PrematureReadiness \/ ReceiveNotice \/ StartWorker
           \/ Dispatch \/ BecomesUnavailable \/ BecomesAvailable \/ GuildStops \/ GuildStarts
           \/ Membership("join") \/ Membership("leave") \/ Crowd \/ Uncrowd
  BY <1>1, <1>2, Numbers
  DEF PresenceConnected, PrematureReadiness, ReceiveNotice, StartWorker, Dispatch, BecomesUnavailable,
      BecomesAvailable, GuildStops, GuildStarts, Membership, Crowd, Uncrowd
<1>3. ASSUME NEW worker \in workers, WorkerDone(worker) PROVE IdleInv'
  BY <1>1, <1>3 DEF WorkerDone
<1>4. ASSUME NEW a \in Attempts, Lookup(a) \/ GuildConnectTimeout(a) \/ SessionConnectAsync(a)
      PROVE  IdleInv'
  BY <1>1, <1>4 DEF Lookup, GuildConnectTimeout, SessionConnectAsync
<1>5. ASSUME NEW a \in Attempts, GuildConnect(a) PROVE IdleInv'
  <2>1. (entry' = entry /\ inflight' = inflight) \/ entry' = Undefined
    BY <1>5 DEF GuildConnect
  <2> QED BY <1>1, <2>1, Numbers DEF IdleInv, Connected
<1>6. ASSUME NEW a \in Attempts, NEW outcome \in Outcomes, HelperResult(a, outcome) PROVE IdleInv'
  <2>1. inflight' \in {inflight, None} /\ entry' \in {entry, Cached}
    BY <1>6 DEF HelperResult, Outcomes
  <2> QED BY <1>1, <2>1, Numbers
<1>7. CASE ReceiveFromGuild
  <2> DEFINE msg == Head(inbox)  rest == Tail(inbox)
  <2>1. msg \in FromGuild
    BY <1>7, FirstMessage DEF ReceiveFromGuild
  <2>2. \/ ConnectResult(msg, rest)
        \/ GuildEvent(msg, rest) \/ ForcedLeave(rest) \/ GuildDown(msg, rest)
    BY <1>7, <2>1, Kinds, Zenon DEF ReceiveFromGuild
  <2> HIDE DEF msg, rest
  <2>3. CASE ConnectResult(msg, rest)
    <3>1. inflight' = None \/ (inflight' = inflight /\ entry' = entry)
      <4>1. CASE Current(msg.attempt)
        BY <2>3, <4>1 DEF ConnectResult
      <4>2. CASE ~Current(msg.attempt)
        BY <2>3, <4>2 DEF ConnectResult
      <4> QED BY <4>1, <4>2
    <3> QED BY <3>1 DEF IdleInv, Connected
  <2>4. CASE GuildEvent(msg, rest) \/ ForcedLeave(rest) \/ GuildDown(msg, rest)
    <3>1. inflight' = inflight /\ entry' \in {entry, Cached, Undefined}
      BY <2>4 DEF GuildEvent, ForcedLeave, GuildDown
    <3> QED BY <1>1, <3>1, Numbers
  <2> QED BY <2>2, <2>3, <2>4
<1> QED BY <1>2, <1>3, <1>4, <1>5, <1>6, <1>7 DEF Next

THEOREM IdleInvariant == Spec => []IdleInv
<1>1. Init => IdleInv
  BY Numbers DEF Init, IdleInv, Connected
<1>2. TypeOK /\ IdleInv /\ [Next]_vars => IdleInv'
  <2> SUFFICES ASSUME TypeOK, IdleInv, [Next]_vars PROVE IdleInv'
    OBVIOUS
  <2>1. CASE UNCHANGED vars
    BY <2>1 DEF vars, session, IdleInv, Connected
  <2> QED BY <2>1, IdleStep
<1> QED BY <1>1, <1>2, TypeCorrect, PTL DEF Spec

-----------------------------------------------------------------------------
LEMMA AgreesTail ==
  ASSUME NEW s \in Seq(FromGuild), s # <<>>, NEW n, NEW now, InboxAgrees(s, n, now)
  PROVE  InboxAgrees(Tail(s), n, now)
BY FollowTail DEF InboxAgrees

LEMMA AgreesWithout ==
  ASSUME NEW s \in Seq(FromGuild), NEW k \in DOMAIN s, s[k].type = "down",
         NEW n, NEW now, InboxAgrees(s, n, now)
  PROVE  InboxAgrees(Without(k, s), n, now)
<1> DEFINE t == Without(k, s)
<1>1. \A i \in DOMAIN t : \E j \in DOMAIN s :
        /\ t[i] = s[j]
        /\ Following(s, j) \subseteq Following(t, i) \cup {s[k]}
        /\ Following(t, i) \subseteq Following(s, j)
  BY FollowWithout
<1> HIDE DEF t
<1>2. ~IsCreate(s[k])
  BY DEF IsCreate
<1>3. ASSUME NEW i \in DOMAIN t, t[i].type = "result", t[i].result # "error", t[i].life = n,
             ~Left(Following(t, i))
      PROVE  Told(Following(t, i), now, t[i].result # "unavailable")
  <2>1. PICK j \in DOMAIN s :
          /\ t[i] = s[j]
          /\ Following(s, j) \subseteq Following(t, i) \cup {s[k]}
          /\ Following(t, i) \subseteq Following(s, j)
    BY <1>1
  <2>2. ~Left(Following(s, j))
    BY <1>3, <2>1 DEF Left
  <2>3. Told(Following(s, j), now, s[j].result # "unavailable")
    BY <1>3, <2>1, <2>2 DEF InboxAgrees
  <2>4. (\E m \in Following(s, j) : IsCreate(m)) <=> (\E m \in Following(t, i) : IsCreate(m))
    BY <1>2, <2>1
  <2> QED BY <2>1, <2>3, <2>4 DEF Told
<1> QED BY <1>3 DEF InboxAgrees, t

\* The messages that are added when the guild removes the session, becomes
\* available again, and otherwise.
LEMMA AgreesAppend ==
  ASSUME NEW s \in Seq(FromGuild), NEW m, NEW n, NEW now, InboxAgrees(s, n, now), NEW now2,
         \/ m.type = "leave"
         \/ IsCreate(m) /\ ~now2
         \/ /\ now2 <=> now /\ ~IsCreate(m)
            /\ m.type = "result" /\ m.result # "error" => (now <=> m.result = "unavailable")
  PROVE  InboxAgrees(Append(s, m), n, now2)
<1> DEFINE t == Append(s, m)
<1>1. \A i \in DOMAIN t :
        \/ i \in DOMAIN s /\ t[i] = s[i] /\ Following(t, i) = Following(s, i) \cup {m}
        \/ t[i] = m /\ Following(t, i) = {}
  BY FollowAppend
<1> HIDE DEF t
<1>2. ASSUME NEW i \in DOMAIN t, t[i].type = "result", t[i].result # "error", t[i].life = n,
             ~Left(Following(t, i))
      PROVE  Told(Following(t, i), now2, t[i].result # "unavailable")
  <2>1. CASE i \in DOMAIN s /\ t[i] = s[i] /\ Following(t, i) = Following(s, i) \cup {m}
    <3>1. ~Left(Following(s, i)) /\ m.type # "leave"
      BY <1>2, <2>1 DEF Left
    <3>2. Told(Following(s, i), now, t[i].result # "unavailable")
      BY <1>2, <2>1, <3>1 DEF InboxAgrees
    <3>3. (\E x \in Following(t, i) : IsCreate(x)) <=> (IsCreate(m) \/ \E x \in Following(s, i) : IsCreate(x))
      BY <2>1
    <3> QED BY <3>1, <3>2, <3>3 DEF Told
  <2>2. CASE t[i] = m /\ Following(t, i) = {}
    <3>1. (now2 <=> now) /\ (now <=> m.result = "unavailable")
      BY <1>2, <2>2 DEF IsCreate
    <3> QED BY <2>2, <3>1 DEF Told
  <2> QED BY <1>1, <2>1, <2>2
<1> QED BY <1>2 DEF InboxAgrees, t

\* The client is told nothing new, and the messages say what they said.
LEMMA ToldStill ==
  ASSUME ClientTold, early => early', overtaken => overtaken', Believes' <=> Believes,
         Connected' => entry' = entry /\ Connected,
         Connected' /\ Settled(inbox', entry, notices') => Settled(inbox, entry, notices),
         \/ /\ unavailable' = unavailable
            /\ (\E m \in Following(inbox', 0) : IsCreate(m)) <=> (\E m \in Following(inbox, 0) : IsCreate(m))
         \/ ~unavailable' /\ \E m \in Following(inbox', 0) : IsCreate(m)
  PROVE  ClientTold'
<1> SUFFICES ASSUME ~early', ~overtaken', Connected', Settled(inbox', entry', notices')
             PROVE  Told(Following(inbox', 0), unavailable', Believes')
  BY DEF ClientTold
<1>1. Told(Following(inbox, 0), unavailable, Believes)
  BY DEF ClientTold
<1> QED BY <1>1 DEF Told

\* READY is sent, or what is collected for it changes.
LEMMA BelievesReady ==
  ASSUME NEW x, ready,
         CheckReadiness(presence, TRUE, x) \/ CheckReadiness(TRUE, entry # Undefined, x) \/ SendReady(x)
  PROVE  (Believes' <=> x # None) /\ (ready' => collected' = x)
<1>1. CASE SendReady(x)
  <2>1. ready' = FALSE /\ present' = (x # None)
    BY <1>1 DEF SendReady
  <2> QED BY <2>1 DEF Believes
<1>2. CASE collected' = x /\ UNCHANGED <<ready, client>>
  BY <1>2 DEF Believes
<1> QED BY <1>1, <1>2 DEF CheckReadiness

\* Word that has not come yet stays on its way.
LEMMA SettledTail ==
  ASSUME NEW s \in Seq(FromGuild), s # <<>>, NEW e, NEW n, Settled(Tail(s), e, n),
         Head(s).type # "leave", ~IsDown(Head(s), e)
  PROVE  Settled(s, e, n)
BY WordTail DEF Settled

LEMMA SettledAppend ==
  ASSUME NEW s \in Seq(FromGuild), NEW m, NEW e, NEW n, Settled(Append(s, m), e, n)
  PROVE  Settled(s, e, n) /\ m.type # "leave" /\ ~IsDown(m, e)
BY WordAppend DEF Settled

\* A message that is added, or taken, and is no guild_create.
LEMMA CreatesAppend ==
  ASSUME NEW s \in Seq(FromGuild), NEW m, ~IsCreate(m)
  PROVE  (\E x \in Following(Append(s, m), 0) : IsCreate(x)) <=> (\E x \in Following(s, 0) : IsCreate(x))
<1>1. Following(Append(s, m), 0) = Following(s, 0) \cup {m}
  BY FollowAppend
<1> QED BY <1>1

\* The messages of the guild: the state that a result brings is what the guild
\* says of itself, unless a word that comes after it ends the connection.
LEMMA AgreeMessages ==
  ASSUME TypeOK, ServedInv, IdleInv, AgreeInv, ReceiveFromGuild
  PROVE  AgreeInv'
<1> USE DEF session, messages, process, client, history
<1> DEFINE msg == Head(inbox)  rest == Tail(inbox)  d == Down(msg.life, "noproc")
<1>1. /\ msg \in FromGuild /\ rest \in Seq(FromGuild)
      /\ inbox \in Seq(FromGuild) /\ inbox # <<>>
  BY FirstMessage DEF ReceiveFromGuild, TypeOK
<1>2. UNCHANGED <<presence, workers, admission, unavailable, life, guild>>
  BY DEF ReceiveFromGuild
<1>3. \/ msg.type = "result" /\ ConnectResult(msg, rest)
      \/ msg.type = "event" /\ GuildEvent(msg, rest)
      \/ msg.type = "leave" /\ ForcedLeave(rest)
      \/ msg.type = "down" /\ GuildDown(msg, rest)
  BY <1>1, Kinds, Zenon DEF ReceiveFromGuild
<1>4. UNCHANGED overtaken
  BY <1>3 DEF ConnectResult, GuildEvent, ForcedLeave, GuildDown
<1>5. /\ 1 \in DOMAIN inbox /\ inbox[1] = msg /\ Following(rest, 0) = Following(inbox, 1)
      /\ Following(inbox, 0) = Following(rest, 0) \cup {msg}
  BY <1>1, FollowTail
<1>6. ASSUME msg.type # "leave", NEW e, ~IsDown(msg, e), NEW n, Settled(rest, e, n)
      PROVE  Settled(inbox, e, n)
  BY <1>1, <1>6, SettledTail
<1>7. ~overtaken /\ guild = "up" => InboxAgrees(rest, life, unavailable)
  BY <1>1, AgreesTail DEF AgreeInv, ResultsAgree
<1>8. d.type = "down" /\ IsDown(d, msg.life) /\ ~IsCreate(d)
  BY DEF Down, IsDown, IsCreate
<1> HIDE DEF msg, rest, d
<1>9. ASSUME CollectedInv', ClientTold', inbox' \in {rest, Append(rest, d), Flushed(entry, rest)}
      PROVE  AgreeInv'
  <2>1. ~overtaken /\ guild = "up" => InboxAgrees(inbox', life, unavailable)
    <3> SUFFICES ASSUME ~overtaken, guild = "up" PROVE InboxAgrees(inbox', life, unavailable)
      OBVIOUS
    <3>1. InboxAgrees(rest, life, unavailable)
      BY <1>7
    <3>2. InboxAgrees(Append(rest, d), life, unavailable)
      BY <1>1, <1>8, <3>1, AgreesAppend
    <3>3. InboxAgrees(Flushed(entry, rest), life, unavailable)
      BY <1>1, <3>1, FlushedIs, AgreesWithout DEF IsDown
    <3> QED BY <1>9, <3>1, <3>2, <3>3
  <2> QED BY <1>2, <1>4, <1>9, <2>1 DEF AgreeInv, ResultsAgree, WorkersAgree, Awaited
<1>10. ASSUME UNCHANGED <<entry, notices, ready, collected, present>>, inbox' = rest, early => early',
              msg.type # "leave", Connected => ~IsDown(msg, entry), ~IsCreate(msg)
       PROVE  AgreeInv'
  <2>1. Believes' <=> Believes
    BY <1>10 DEF Believes
  <2>2. Connected => (Settled(rest, entry, notices) => Settled(inbox, entry, notices))
    BY <1>6, <1>10
  <2>3. (\E m \in Following(inbox', 0) : IsCreate(m)) <=> (\E m \in Following(inbox, 0) : IsCreate(m))
    BY <1>5, <1>10
  <2>4. ClientTold'
    BY <1>2, <1>4, <1>10, <2>1, <2>2, <2>3, ToldStill DEF AgreeInv, Connected
  <2>5. CollectedInv'
    BY <1>10 DEF AgreeInv, CollectedInv, Connected
  <2> QED BY <1>9, <1>10, <2>4, <2>5
<1>11. ASSUME entry' \notin Lives, inbox' \in {rest, Flushed(entry, rest)}, UNCHANGED ready,
              early' = (early \/ ready)
       PROVE  AgreeInv'
  BY <1>9, <1>11 DEF CollectedInv, ClientTold, Connected
<1>12. CASE msg.type = "result" /\ ConnectResult(msg, rest)
  <2>1. /\ msg.attempt \in Attempts /\ msg.life \in Lives /\ msg.snap \in Nat /\ msg.snap # None
        /\ notices' = notices
    BY <1>1, <1>12, Kinds, Numbers, GuildConnectAssumption DEF ConnectResult
  <2>2. ~IsCreate(msg) /\ (\A e : ~IsDown(msg, e))
    BY <1>12 DEF IsCreate, IsDown
  <2>3. CASE inbox' = rest /\ UNCHANGED <<entry, ready, collected, client, early>>
    BY <1>10, <1>12, <2>1, <2>2, <2>3
  <2>4. CASE /\ Current(msg.attempt) /\ msg.result # "error" /\ ~Connected
             /\ entry' = msg.life /\ inbox' = Monitored(msg.life, rest)
             /\ ProcessGuildState(msg.result = "unavailable", msg.snap)
    <3>1. CollectedInv'
      BY <2>1, <2>4 DEF CollectedInv, Connected
    <3>2. CASE msg.life = life /\ guild = "up"
      <4>1. inbox' = rest
        BY <2>4, <3>2 DEF Monitored
      <4>2. early => early'
        BY <2>4 DEF ProcessGuildState, TellClient
      <4>3. ASSUME ~early PROVE Believes' <=> msg.result # "unavailable"
        <5>1. CASE ready
          <6> DEFINE x == IF msg.result = "unavailable" THEN collected ELSE msg.snap
          <6>1. CheckReadiness(presence, TRUE, x)
            BY <2>4, <5>1 DEF ProcessGuildState
          <6>2. collected = None
            BY <2>4, <4>3, <5>1 DEF AgreeInv, CollectedInv
          <6>3. x # None <=> msg.result # "unavailable"
            BY <2>1, <6>2
          <6> HIDE DEF x
          <6> QED BY <5>1, <6>1, <6>3, BelievesReady
        <5>2. CASE ~ready
          <6>1. TellClient(msg.result # "unavailable", msg.snap) /\ ready' = ready
            BY <2>4, <5>2 DEF ProcessGuildState
          <6> QED BY <5>2, <6>1 DEF TellClient, Believes
        <5> QED BY <5>1, <5>2
      <4>4. ClientTold'
        <5> SUFFICES ASSUME ~early', ~overtaken', Settled(inbox', entry', notices')
                     PROVE  Told(Following(inbox', 0), unavailable', Believes')
          BY DEF ClientTold
        <5>1. ~Left(Following(rest, 0))
          BY <4>1 DEF Settled, Word, Left, Following
        <5>2. InboxAgrees(inbox, life, unavailable)
          BY <1>4, <3>2 DEF AgreeInv, ResultsAgree
        <5>3. Told(Following(rest, 0), unavailable, msg.result # "unavailable")
          BY <1>5, <1>12, <2>4, <3>2, <5>1, <5>2 DEF InboxAgrees
        <5> QED BY <1>2, <4>1, <4>2, <4>3, <5>3 DEF Told
      <4> QED BY <1>9, <3>1, <4>1, <4>4
    <3>3. CASE ~(msg.life = life /\ guild = "up")
      <4>1. inbox' = Append(rest, d)
        BY <2>4, <3>3 DEF Monitored, d
      <4>2. ~Settled(inbox', entry', notices')
        BY <1>1, <1>8, <2>4, <4>1, WordAppend DEF Settled
      <4>3. ClientTold'
        BY <4>2 DEF ClientTold
      <4> QED BY <1>9, <3>1, <4>1, <4>3
    <3> QED BY <3>2, <3>3
  <2>5. \/ inbox' = rest /\ UNCHANGED <<entry, ready, collected, client, early>>
        \/ /\ Current(msg.attempt) /\ msg.result # "error" /\ ~Connected
           /\ entry' = msg.life /\ inbox' = Monitored(msg.life, rest)
           /\ ProcessGuildState(msg.result = "unavailable", msg.snap)
    <3>1. CASE ~Current(msg.attempt)
      BY <1>12, <3>1, Zenon DEF ConnectResult
    <3>2. CASE Current(msg.attempt)
      BY <1>12, <3>2, Zenon DEF ConnectResult
    <3> QED BY <3>1, <3>2
  <2> QED BY <2>3, <2>4, <2>5
<1>13. CASE msg.type = "event" /\ GuildEvent(msg, rest)
  <2>1. inbox' = rest /\ UNCHANGED <<entry, notices, ready, collected>>
    BY <1>13 DEF GuildEvent
  <2>2. \A e : ~IsDown(msg, e)
    BY <1>13 DEF IsDown
  <2>3. CASE ~msg.create
    <3>1. present' = present /\ early' = (early \/ ready) /\ ~IsCreate(msg)
      BY <1>13, <2>3 DEF GuildEvent, IsCreate
    <3> QED BY <1>10, <1>13, <2>1, <2>2, <3>1
  <2>4. CASE msg.create
    <3>1. present' = TRUE /\ early' = (early \/ ready) /\ IsCreate(msg)
      BY <1>13, <2>4 DEF GuildEvent, IsCreate, TellClient
    <3>2. CollectedInv'
      BY <2>1, <3>1 DEF CollectedInv
    <3>3. ClientTold'
      <4> SUFFICES ASSUME ~early', ~overtaken', Connected', Settled(inbox', entry', notices')
                   PROVE  Told(Following(inbox', 0), unavailable', Believes')
        BY DEF ClientTold
      <4>1. ~early /\ ~ready /\ Believes' /\ ~overtaken /\ Connected
        BY <1>4, <2>1, <3>1 DEF Believes, Connected
      <4>2. Settled(inbox, entry, notices)
        BY <1>6, <1>13, <2>1, <2>2
      <4>3. Told(Following(inbox, 0), unavailable, Believes)
        BY <4>1, <4>2 DEF AgreeInv, ClientTold
      <4>4. ~unavailable
        BY <1>5, <3>1, <4>3 DEF Told, TypeOK
      <4> QED BY <1>2, <4>1, <4>4 DEF Told
    <3> QED BY <1>9, <2>1, <3>2, <3>3
  <2> QED BY <2>3, <2>4
<1>14. CASE msg.type = "leave" /\ ForcedLeave(rest)
  <2>1. /\ entry' = Cached /\ inbox' \in {rest, Flushed(entry, rest)} /\ ready' = ready
        /\ early' = (early \/ ready)
    BY <1>14 DEF ForcedLeave, TellClient
  <2> QED BY <1>11, <2>1, Numbers
<1>15. CASE msg.type = "down" /\ GuildDown(msg, rest)
  <2>1. inbox' = rest /\ UNCHANGED <<ready, collected>> /\ ~IsCreate(msg)
    BY <1>15 DEF GuildDown, IsCreate
  <2>2. CASE entry # msg.life /\ UNCHANGED <<entry, notices, client, early>>
    BY <1>10, <1>15, <2>1, <2>2 DEF IsDown
  <2>3. CASE notices' = Append(notices, "leave") /\ UNCHANGED <<entry, early>>
    <3>1. Len(notices) + 1 \in DOMAIN notices' /\ notices'[Len(notices) + 1] = "leave"
      BY <2>3 DEF TypeOK
    <3>2. ClientTold'
      BY <3>1 DEF ClientTold, Settled
    <3>3. CollectedInv'
      BY <2>1, <2>3 DEF AgreeInv, CollectedInv, Connected
    <3> QED BY <1>9, <2>1, <3>2, <3>3
  <2>4. CASE entry' = Undefined /\ TellClient(FALSE, 0)
    <3>1. early' = (early \/ ready)
      BY <2>4 DEF TellClient
    <3> QED BY <1>11, <2>1, <2>4, <3>1, Numbers
  <2>5. \/ entry # msg.life /\ UNCHANGED <<entry, notices, client, early>>
        \/ notices' = Append(notices, "leave") /\ UNCHANGED <<entry, early>>
        \/ entry' = Undefined /\ TellClient(FALSE, 0)
    BY <1>15, Zenon DEF GuildDown
  <2> QED BY <2>2, <2>3, <2>4, <2>5
<1> QED BY <1>3, <1>12, <1>13, <1>14, <1>15

\* What else happens to the session.
LEMMA AgreeSession ==
  ASSUME TypeOK, IdleInv, AgreeInv,
         \/ PresenceConnected \/ PrematureReadiness \/ ReceiveNotice \/ Crowd \/ Uncrowd
         \/ \E notice : Membership(notice)
         \/ \E a \in Attempts :
              \/ GuildConnect(a) \/ Lookup(a) \/ GuildConnectTimeout(a)
              \/ \E outcome \in Outcomes : HelperResult(a, outcome)
  PROVE  AgreeInv'
<1> USE DEF session, messages, process, client, history
<1>1. /\ inbox \in Seq(FromGuild) /\ notices \in Seq({"join", "leave"}) /\ Undefined \notin Lives
      /\ Cached \notin Lives /\ None \notin Attempts
  BY Numbers DEF TypeOK
<1>2. UNCHANGED <<workers, admission, unavailable, life, overtaken>> /\ (guild' = "up" => guild = "up")
  BY DEF PresenceConnected, PrematureReadiness, ReceiveNotice, Crowd, Uncrowd, Membership, GuildConnect,
         Lookup, GuildConnectTimeout, HelperResult
<1>3. WorkersAgree'
  BY <1>2 DEF AgreeInv, WorkersAgree, Awaited
<1>4. ASSUME inbox' = inbox PROVE ResultsAgree'
  BY <1>2, <1>4 DEF AgreeInv, ResultsAgree
<1>5. ASSUME inbox' = inbox, early' = early, Believes' <=> Believes,
             \/ entry' = entry /\ (Connected /\ Settled(inbox, entry, notices') => Settled(inbox, entry, notices))
             \/ entry' \notin Lives
      PROVE  ClientTold'
  <2>1. Connected' => entry' = entry /\ Connected
    BY <1>5 DEF Connected
  <2>2. Connected' /\ Settled(inbox', entry, notices') => Settled(inbox, entry, notices)
    BY <1>5, <2>1 DEF Connected
  <2> QED BY <1>2, <1>5, <2>1, <2>2, ToldStill DEF AgreeInv
<1>6. ASSUME UNCHANGED <<inbox, notices, early>>, ready' => ready, Believes' <=> Believes,
             ready' => collected' = collected,
             \/ entry' = entry
             \/ entry' \notin Lives /\ ~Connected
      PROVE  AgreeInv'
  <2>1. ClientTold'
    BY <1>5, <1>6
  <2>2. CollectedInv'
    BY <1>6 DEF AgreeInv, CollectedInv, Connected
  <2> QED BY <1>3, <1>4, <1>6, <2>1, <2>2 DEF AgreeInv
<1>7. ASSUME UNCHANGED <<ready, collected, present>> PROVE Believes' <=> Believes
  BY <1>7 DEF Believes
<1>8. ASSUME \/ ready /\ SendReady(collected)
             \/ CheckReadiness(presence, TRUE, collected)
             \/ CheckReadiness(TRUE, entry # Undefined, collected)
             \/ UNCHANGED <<ready, collected, present>>
      PROVE  (Believes' <=> Believes) /\ (ready' => ready /\ collected' = collected)
  <2>1. CASE UNCHANGED <<ready, collected, present>>
    BY <1>7, <2>1
  <2>2. CASE ~ready /\ ~UNCHANGED <<ready, collected, present>>
    BY <1>8, <2>2 DEF CheckReadiness
  <2>3. CASE ready /\ ~UNCHANGED <<ready, collected, present>>
    <3>1. (Believes' <=> collected # None) /\ (ready' => collected' = collected)
      BY <1>8, <2>3, BelievesReady
    <3> QED BY <2>3, <3>1 DEF Believes
  <2> QED BY <2>1, <2>2, <2>3
<1>9. CASE PresenceConnected
  <2>1. UNCHANGED <<inbox, notices, early, entry>> /\ CheckReadiness(TRUE, entry # Undefined, collected)
    BY <1>9 DEF PresenceConnected
  <2> QED BY <1>6, <1>8, <2>1
<1>10. CASE PrematureReadiness
  <2>1. /\ UNCHANGED <<inbox, notices, early, entry>>
        /\ (ready /\ SendReady(collected)) \/ UNCHANGED <<ready, collected, present>>
    BY <1>10 DEF PrematureReadiness
  <2> QED BY <1>6, <1>8, <2>1
<1>11. CASE Crowd \/ Uncrowd
  <2>1. UNCHANGED <<inbox, notices, early, entry, ready, collected, present>>
    BY <1>11 DEF Crowd, Uncrowd
  <2> QED BY <1>6, <1>7, <2>1
<1>12. ASSUME NEW notice, Membership(notice) PROVE AgreeInv'
  <2>1. UNCHANGED <<inbox, early, entry, ready, collected, present>> /\ notices' = Append(notices, notice)
    BY <1>12 DEF Membership
  <2>2. \A k \in DOMAIN notices : k \in DOMAIN notices' /\ notices'[k] = notices[k]
    BY <1>1, <2>1
  <2>3. Settled(inbox, entry, notices') => Settled(inbox, entry, notices)
    BY <2>2 DEF Settled
  <2>4. ClientTold'
    BY <1>5, <1>7, <2>1, <2>3
  <2>5. CollectedInv'
    BY <2>1 DEF AgreeInv, CollectedInv, Connected
  <2> QED BY <1>3, <1>4, <2>1, <2>4, <2>5 DEF AgreeInv
<1>13. ASSUME NEW a \in Attempts, Lookup(a) \/ GuildConnectTimeout(a) PROVE AgreeInv'
  <2>1. UNCHANGED <<inbox, notices, early, entry, ready, collected, present>>
    BY <1>13 DEF Lookup, GuildConnectTimeout
  <2> QED BY <1>6, <1>7, <2>1
<1>14. ASSUME NEW a \in Attempts, GuildConnect(a) PROVE AgreeInv'
  <2>1. /\ UNCHANGED <<inbox, notices, early, ready, collected, present>>
        /\ entry' = entry \/ (entry' = Undefined /\ entry = Cached)
    BY <1>14 DEF GuildConnect
  <2>2. \/ entry' = entry
        \/ entry' \notin Lives /\ ~Connected
    BY <1>1, <2>1 DEF Connected
  <2> QED BY <1>6, <1>7, <2>1, <2>2
<1>15. ASSUME NEW a \in Attempts, NEW outcome \in Outcomes, HelperResult(a, outcome) PROVE AgreeInv'
  <2>1. UNCHANGED <<inbox, notices, early>>
    BY <1>15 DEF HelperResult
  <2>2. CASE UNCHANGED <<entry, ready, collected, client>>
    BY <1>6, <1>7, <2>1, <2>2
  <2>3. CASE /\ Current(a) /\ entry' = Cached
             /\ CheckReadiness(presence, TRUE, collected) \/ UNCHANGED <<ready, collected, present>>
    <3>1. ~Connected
      BY <1>1, <2>3 DEF IdleInv, Current
    <3> QED BY <1>1, <1>6, <1>8, <2>1, <2>3, <3>1
  <2> QED BY <1>15, <2>2, <2>3 DEF HelperResult, Outcomes
<1>16. CASE ReceiveNotice
  <2>1. UNCHANGED <<ready, collected>> /\ notices # <<>> /\ notices' = Tail(notices)
    BY <1>16 DEF ReceiveNotice
  <2>2. CASE entry' = Undefined /\ inbox' = Flushed(entry, inbox) /\ TellClient(FALSE, 0)
    <3>1. early' = (early \/ ready)
      BY <2>2 DEF TellClient
    <3>2. CollectedInv' /\ ClientTold'
      BY <1>1, <2>1, <2>2, <3>1 DEF CollectedInv, ClientTold, Connected
    <3>3. ResultsAgree'
      BY <1>1, <1>2, <2>2, FlushedIs, AgreesWithout DEF IsDown, AgreeInv, ResultsAgree
    <3> QED BY <1>3, <3>2, <3>3 DEF AgreeInv
  <2>3. CASE UNCHANGED <<entry, inbox, client, early>> /\ (Head(notices) = "leave" => ~Connected)
    <3>1. /\ 1 \in DOMAIN notices /\ notices[1] = Head(notices)
          /\ \A k \in DOMAIN notices :
               k # 1 => k - 1 \in DOMAIN Tail(notices) /\ Tail(notices)[k - 1] = notices[k]
      BY <1>1, <2>1
    <3>2. Connected /\ Settled(inbox, entry, notices') => Settled(inbox, entry, notices)
      BY <2>1, <2>3, <3>1 DEF Settled
    <3>3. ClientTold'
      BY <1>5, <1>7, <2>1, <2>3, <3>2
    <3>4. CollectedInv'
      BY <2>1, <2>3 DEF AgreeInv, CollectedInv, Connected
    <3> QED BY <1>3, <1>4, <2>3, <3>3, <3>4 DEF AgreeInv
  <2> QED BY <1>1, <1>16, <2>2, <2>3 DEF ReceiveNotice
<1> QED BY <1>9, <1>10, <1>11, <1>12, <1>13, <1>14, <1>15, <1>16

\* The guild: it computes what it answers from the state of now, and tells the
\* session when that changes before the answer is read.
LEMMA AgreeGuild ==
  ASSUME TypeOK, AdmissionInv, ServedInv, AgreeInv,
         \/ \E a \in Attempts : SessionConnectAsync(a)
         \/ StartWorker \/ \E worker \in workers : WorkerDone(worker)
         \/ Dispatch \/ BecomesUnavailable \/ BecomesAvailable \/ GuildStops \/ GuildStarts
  PROVE  AgreeInv'
<1> USE DEF session, messages, process, client, history
<1>1. /\ UNCHANGED <<entry, notices, early, ready, collected, present>>
      /\ inbox \in Seq(FromGuild) /\ (Believes' <=> Believes) /\ (Connected' <=> Connected)
  <2>1. UNCHANGED <<entry, notices, early, ready, collected, present>>
    BY DEF SessionConnectAsync, StartWorker, WorkerDone, Dispatch, BecomesUnavailable, BecomesAvailable,
           GuildStops, GuildStarts
  <2> QED BY <2>1 DEF TypeOK, Believes, Connected
<1>2. overtaken => overtaken'
  <2>1. ASSUME NEW worker \in workers, WorkerDone(worker), overtaken PROVE overtaken'
    BY <2>1 DEF WorkerDone
  <2> QED BY <2>1 DEF SessionConnectAsync, StartWorker, Dispatch, BecomesUnavailable, BecomesAvailable,
                      GuildStops, GuildStarts
<1>3. CollectedInv'
  BY <1>1 DEF AgreeInv, CollectedInv
<1>4. ASSUME unavailable' = unavailable, inbox' = inbox \/ \E m : inbox' = Append(inbox, m) /\ ~IsCreate(m)
      PROVE  ClientTold'
  <2>1. CASE inbox' = inbox
    BY <1>1, <1>2, <1>4, <2>1, ToldStill DEF AgreeInv
  <2>2. ASSUME NEW m, inbox' = Append(inbox, m), ~IsCreate(m) PROVE ClientTold'
    <3>1. (\E x \in Following(inbox', 0) : IsCreate(x)) <=> (\E x \in Following(inbox, 0) : IsCreate(x))
      BY <1>1, <2>2, CreatesAppend
    <3>2. Settled(inbox', entry, notices') => Settled(inbox, entry, notices)
      BY <1>1, <2>2, SettledAppend
    <3> QED BY <1>1, <1>2, <1>4, <3>1, <3>2, ToldStill DEF AgreeInv
  <2> QED BY <1>4, <2>1, <2>2
<1>5. ASSUME UNCHANGED <<unavailable, life, guild>>,
             \/ inbox' = inbox
             \/ \E m : /\ inbox' = Append(inbox, m) /\ ~IsCreate(m)
                       /\ ~overtaken' /\ m.type = "result" /\ m.result # "error" =>
                            (unavailable <=> m.result = "unavailable")
      PROVE  ResultsAgree'
  <2> SUFFICES ASSUME ~overtaken', guild = "up" PROVE InboxAgrees(inbox', life, unavailable)
    BY <1>5 DEF ResultsAgree
  <2>1. InboxAgrees(inbox, life, unavailable)
    BY <1>2 DEF AgreeInv, ResultsAgree
  <2>2. ASSUME NEW m, inbox' = Append(inbox, m), ~IsCreate(m),
               m.type = "result" /\ m.result # "error" => (unavailable <=> m.result = "unavailable")
        PROVE  InboxAgrees(inbox', life, unavailable)
    <3>1. InboxAgrees(Append(inbox, m), life, unavailable)
      BY <1>1, <2>1, <2>2, AgreesAppend
    <3> QED BY <2>2, <3>1
  <2> QED BY <1>5, <2>1, <2>2
<1>6. ASSUME NEW a \in Attempts, SessionConnectAsync(a) PROVE AgreeInv'
  <2>1. UNCHANGED <<unavailable, life, guild, inbox, overtaken>>
    BY <1>6 DEF SessionConnectAsync
  <2>2. WorkersAgree'
    <3>1. CASE UNCHANGED <<workers, admission>>
      BY <2>1, <3>1 DEF AgreeInv, WorkersAgree, Awaited
    <3>2. CASE workers' = {[worker EXCEPT !.old = TRUE] : worker \in workers}
      <4>1. \A worker \in workers : [worker EXCEPT !.old = TRUE].old = TRUE
        BY DEF TypeOK
      <4>2. \A worker \in workers' : worker.old = TRUE
        BY <3>2, <4>1
      <4> QED BY <4>2 DEF WorkersAgree
    <3> QED BY <1>6, <3>1, <3>2 DEF SessionConnectAsync
  <2> QED BY <1>3, <1>4, <1>5, <2>1, <2>2 DEF AgreeInv
<1>7. CASE StartWorker
  <2> DEFINE w == [attempt |-> queued, snap |-> events, unavailable |-> unavailable, old |-> FALSE]
  <2>1. UNCHANGED <<unavailable, life, guild, inbox, overtaken, admission>> /\ workers' = workers \cup {w}
    BY <1>7 DEF StartWorker
  <2>2. w.unavailable = unavailable
    OBVIOUS
  <2> HIDE DEF w
  <2>3. WorkersAgree'
    BY <2>1, <2>2 DEF AgreeInv, WorkersAgree, Awaited
  <2> QED BY <1>3, <1>4, <1>5, <2>1, <2>3 DEF AgreeInv
<1>8. ASSUME NEW worker \in workers, WorkerDone(worker) PROVE AgreeInv'
  <2>1. UNCHANGED <<unavailable, life, guild>> /\ workers' = workers \ {worker}
    BY <1>8 DEF WorkerDone
  <2>2. CASE ~Awaited(worker)
    <3>1. UNCHANGED <<admission, inbox, overtaken>>
      BY <1>8, <2>2 DEF WorkerDone
    <3>2. WorkersAgree'
      BY <2>1, <3>1 DEF AgreeInv, WorkersAgree, Awaited
    <3> QED BY <1>3, <1>4, <1>5, <2>1, <3>1, <3>2 DEF AgreeInv
  <2>3. CASE Awaited(worker)
    <3>1. PICK result \in {"ok", "unavailable", "error"} :
            /\ result # "error" => (result = "unavailable") = worker.unavailable
            /\ inbox' = Append(inbox, [type |-> "result", attempt |-> worker.attempt,
                          result |-> result, life |-> life, snap |-> worker.snap])
      BY <1>8, <2>3 DEF WorkerDone
    <3>2. overtaken' = (overtaken \/ worker.old) /\ admission' = None
      BY <1>8, <2>3 DEF WorkerDone
    <3>3. \A w \in workers' : w.attempt # None
      BY <2>1, Numbers DEF TypeOK
    <3>4. WorkersAgree'
      BY <3>2, <3>3 DEF WorkersAgree, Awaited
    <3> DEFINE m == [type |-> "result", attempt |-> worker.attempt, result |-> result, life |-> life,
                     snap |-> worker.snap]
    <3>5. m.type = "result" /\ m.result = result /\ inbox' = Append(inbox, m)
      BY <3>1
    <3> HIDE DEF m
    <3>6. ~overtaken' => (worker.unavailable <=> unavailable)
      BY <2>3, <3>2 DEF AgreeInv, WorkersAgree
    <3>7. ~overtaken' /\ m.type = "result" /\ m.result # "error" => (unavailable <=> m.result = "unavailable")
      BY <3>1, <3>5, <3>6
    <3>8. ~IsCreate(m)
      BY <3>5 DEF IsCreate
    <3> QED BY <1>3, <1>4, <1>5, <2>1, <3>4, <3>5, <3>7, <3>8 DEF AgreeInv
  <2> QED BY <2>2, <2>3
<1>9. CASE Dispatch
  <2> DEFINE m == [type |-> "event", create |-> FALSE, event |-> events']
  <2>1. /\ UNCHANGED <<unavailable, life, guild, workers, admission, overtaken>>
        /\ inbox' = inbox \/ inbox' = Append(inbox, m)
    BY <1>9 DEF Dispatch
  <2>2. ~IsCreate(m) /\ m.type # "result"
    BY DEF IsCreate
  <2> HIDE DEF m
  <2>3. WorkersAgree'
    BY <2>1 DEF AgreeInv, WorkersAgree, Awaited
  <2> QED BY <1>3, <1>4, <1>5, <2>1, <2>2, <2>3 DEF AgreeInv
<1>10. \A w \in workers : w.attempt # None
  BY Numbers DEF TypeOK
\* Nobody is in the guild, so no answer of it is still to be believed.
<1>11. ASSUME admitted = "none", UNCHANGED <<workers, admission, inbox, life, guild>>, guild = "up" PROVE AgreeInv'
  <2>1. admission = None
    BY <1>11 DEF AdmissionInv
  <2>2. WorkersAgree'
    BY <1>10, <1>11, <2>1 DEF WorkersAgree, Awaited
  <2>3. ASSUME NEW i \in DOMAIN inbox, inbox[i].type = "result", inbox[i].life = life
        PROVE  Left(Following(inbox, i))
    <3>1. \E j \in DOMAIN inbox : j > i /\ inbox[j].type = "leave"
      BY <1>11, <2>3 DEF ServedInv, ResultsHold
    <3> QED BY <3>1 DEF Left, Following
  <2>4. ResultsAgree'
    BY <1>11, <2>3 DEF ResultsAgree, InboxAgrees
  <2>5. ClientTold'
    BY <1>1, <1>11 DEF ServedInv, ClientTold, Settled
  <2> QED BY <1>3, <2>2, <2>4, <2>5 DEF AgreeInv
<1>12. CASE BecomesUnavailable
  <2> DEFINE m == [type |-> "leave"]
  <2>1. UNCHANGED <<life, guild, workers, overtaken>> /\ guild = "up"
    BY <1>12 DEF BecomesUnavailable
  <2>2. CASE admitted = "none"
    BY <1>11, <1>12, <2>1, <2>2 DEF BecomesUnavailable
  <2>3. CASE admitted # "none"
    <3>1. inbox' = Append(inbox, m) /\ admission' = None /\ m.type = "leave"
      BY <1>12, <2>3 DEF BecomesUnavailable, CleanupAdmission
    <3> HIDE DEF m
    <3>2. WorkersAgree'
      BY <1>10, <2>1, <3>1 DEF WorkersAgree, Awaited
    <3>3. ClientTold'
      BY <1>1, <3>1, SettledAppend DEF ClientTold
    <3>4. ASSUME ~overtaken PROVE InboxAgrees(inbox', life, unavailable')
      <4>1. InboxAgrees(inbox, life, unavailable)
        BY <2>1, <3>4 DEF AgreeInv, ResultsAgree
      <4>2. InboxAgrees(Append(inbox, m), life, unavailable')
        BY <1>1, <3>1, <4>1, AgreesAppend
      <4> QED BY <3>1, <4>2
    <3> QED BY <1>3, <2>1, <3>2, <3>3, <3>4 DEF AgreeInv, ResultsAgree
  <2> QED BY <2>2, <2>3
<1>13. CASE BecomesAvailable
  <2> DEFINE m == [type |-> "event", create |-> TRUE, event |-> events]
  <2>1. UNCHANGED <<life, guild, workers, admission>> /\ guild = "up" /\ ~unavailable'
    BY <1>13 DEF BecomesAvailable
  <2>2. CASE admitted = "none"
    BY <1>11, <1>13, <2>1, <2>2 DEF BecomesAvailable
  <2>3. CASE admitted = "pending"
    <3>1. overtaken'
      BY <1>13, <2>3 DEF BecomesAvailable
    <3> QED BY <1>3, <3>1 DEF AgreeInv, ResultsAgree, WorkersAgree, ClientTold
  <2>4. CASE admitted = "connected"
    <3>1. inbox' = Append(inbox, m) /\ IsCreate(m) /\ (~overtaken' => ~overtaken)
      BY <1>2, <1>13, <2>4 DEF BecomesAvailable, IsCreate
    <3> HIDE DEF m
    <3>2. WorkersAgree'
      BY <1>10, <2>1, <2>4 DEF AdmissionInv, WorkersAgree, Awaited
    <3>3. m \in Following(inbox', 0)
      BY <1>1, <3>1, FollowAppend
    <3>4. Settled(inbox', entry, notices') => Settled(inbox, entry, notices)
      BY <1>1, <3>1, SettledAppend
    <3>5. ClientTold'
      BY <1>1, <1>2, <2>1, <3>1, <3>3, <3>4, ToldStill DEF AgreeInv
    <3>6. ASSUME ~overtaken PROVE InboxAgrees(inbox', life, unavailable')
      <4>1. InboxAgrees(inbox, life, unavailable)
        BY <2>1, <3>6 DEF AgreeInv, ResultsAgree
      <4>2. InboxAgrees(Append(inbox, m), life, unavailable')
        BY <1>1, <2>1, <3>1, <4>1, AgreesAppend
      <4> QED BY <3>1, <4>2
    <3> QED BY <1>3, <2>1, <3>1, <3>2, <3>5, <3>6 DEF AgreeInv, ResultsAgree
  <2> QED BY <2>2, <2>3, <2>4 DEF TypeOK
<1>14. CASE GuildStops
  <2>1. PICK reason \in {"other", "killed"} :
          inbox' = IF entry = life THEN Append(inbox, Down(life, reason)) ELSE inbox
    BY <1>14 DEF GuildStops
  <2>2. guild' # "up" /\ workers' = {}
    BY <1>14 DEF GuildStops
  <2>3. Connected => ~Settled(inbox', entry, notices)
    <3>1. CASE entry = life
      <4>1. IsDown(Down(life, reason), entry)
        BY <3>1 DEF IsDown, Down
      <4> QED BY <1>1, <2>1, <3>1, <4>1, SettledAppend
    <3>2. CASE entry # life
      BY <2>1, <3>2 DEF ServedInv, Settled
    <3> QED BY <3>1, <3>2
  <2>4. ClientTold'
    BY <1>1, <2>3 DEF ClientTold
  <2> QED BY <1>3, <2>2, <2>4 DEF AgreeInv, ResultsAgree, WorkersAgree
<1>15. CASE GuildStarts
  <2>1. UNCHANGED <<inbox, unavailable, workers, admission, overtaken>> /\ life' = life + 1
    BY <1>15 DEF GuildStarts
  <2>2. ASSUME NEW i \in DOMAIN inbox, inbox[i].type = "result" PROVE inbox[i].life # life'
    <3>1. inbox[i] \in FromGuild /\ life \in Nat
      BY <1>1, Numbers DEF TypeOK
    <3>2. inbox[i].life \in Nat /\ inbox[i].life <= life
      BY <2>2, <3>1, Kinds, Numbers DEF ServedInv, ResultsHold
    <3> QED BY <2>1, <3>1, <3>2
  <2>3. ResultsAgree'
    BY <2>1, <2>2 DEF ResultsAgree, InboxAgrees
  <2>4. WorkersAgree'
    BY <2>1 DEF AgreeInv, WorkersAgree, Awaited
  <2> QED BY <1>3, <1>4, <2>1, <2>3, <2>4 DEF AgreeInv
<1> QED BY <1>6, <1>7, <1>8, <1>9, <1>12, <1>13, <1>14, <1>15

\* What the client holds of the guild, or will hold once it has read what is
\* on its way, agrees with the guild.
THEOREM AgreeInvariant == Spec => []AgreeInv
<1>1. Init => AgreeInv
  <2>1. Init => CollectedInv
    BY DEF Init, CollectedInv
  <2>2. Init => ResultsAgree /\ WorkersAgree
    BY DEF Init, ResultsAgree, WorkersAgree, InboxAgrees
  <2>3. Init => ClientTold
    BY Numbers DEF Init, ClientTold, Connected
  <2> QED BY <2>1, <2>2, <2>3 DEF AgreeInv
<1>2. /\ TypeOK /\ (AdmissionInv /\ ServedInv) /\ IdleInv /\ AgreeInv /\ [Next]_vars
      => AgreeInv'
  <2> SUFFICES ASSUME TypeOK, AdmissionInv, ServedInv, IdleInv, AgreeInv, [Next]_vars PROVE AgreeInv'
    OBVIOUS
  <2>1. CASE UNCHANGED vars
    BY <2>1 DEF vars, session, messages, process, client, history, AgreeInv, CollectedInv, ResultsAgree,
                WorkersAgree, Awaited, ClientTold, Connected, Believes
  <2> QED BY <2>1, AgreeMessages, AgreeSession, AgreeGuild DEF Next
<1> QED BY <1>1, <1>2, TypeCorrect, ServedInvariant, IdleInvariant, PTL DEF Spec

\* When nothing is on its way, a guild that the session is connected to is in
\* the client's store unless it is unavailable.
THEOREM ClientAlwaysAgrees == Spec => []ClientAgrees
<1>1. TypeOK /\ AgreeInv => ClientAgrees
  <2> SUFFICES ASSUME TypeOK, AgreeInv, Quiet, Connected, ~ready, ~early, ~overtaken
               PROVE  present = ~unavailable
    BY DEF ClientAgrees
  <2>1. Settled(inbox, entry, notices) /\ Following(inbox, 0) = {}
    BY DEF Quiet, Settled, Word, Following
  <2>2. Told({}, unavailable, present)
    BY <2>1 DEF AgreeInv, ClientTold, Believes
  <2> QED BY <2>2 DEF Told, TypeOK
<1> QED BY <1>1, TypeCorrect, AgreeInvariant, PTL
=============================================================================
