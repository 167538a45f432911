----------------------- MODULE GatewaySession_protocol -----------------------
(***************************************************************************)
(* Proofs of what the resumable session protocol promises its client: its  *)
(* number is cumulative, acknowledgements are safe, a resume is accepted   *)
(* and leaves no gap, and only a replay reorders events.                   *)
(***************************************************************************)
EXTENDS GatewaySession_client

-----------------------------------------------------------------------------
(* What is said of a session is true of its log.                           *)

OnClient(c, f) == \E i \in DOMAIN toClient[c] : toClient[c][i] = f
OnServer(c, f) == \E i \in DOMAIN toServer[c] : toServer[c][i] = f
OnWire(c, f)   == OnClient(c, f) \/ OnServer(c, f)

\* The client has applied the first n events of session s.
Good(n, s) == n <= Len(log[s]) /\ 1..n \subseteq applied[s]

\* Session s sent its READY, and the client got it.
Known(s) == ~ready[s] /\ \A id \in 1..Len(log[s]) : log[s][id].kept \/ id \in applied[s]

\* An event carries its place in the log as its number; who has resumed a
\* session, or asks to, knows it; READY is the one event that was not kept.
FrameFact(f) ==
  /\ f.op \in EventOps => f.s = f.id /\ f.id \in 1..Len(log[f.sid])
  /\ f.op = "resumed" => Known(f.sid) /\ f.id <= Len(log[f.sid])
  /\ f.op = "resume" => Known(f.sid)
  /\ f.op = "ready" => ~ready[f.sid] /\ \A id \in 1..Len(log[f.sid]) : log[f.sid][id].kept \/ id = f.id

CallFact(done) ==
  /\ done.op # "none" => Known(done.sid)
  /\ done.op = "replay" =>
       /\ done.upto <= Len(log[done.sid])
       /\ \A i \in 1..Len(done.missed) :
            done.missed[i].seq = done.missed[i].id /\ done.missed[i].id \in 1..Len(log[done.sid])

FactInv ==
  /\ \A c \in Conns : (\A f \in FrameType : OnWire(c, f) => FrameFact(f)) /\ CallFact(call[c])
  /\ \A s \in Sessions : activeSessionId = s => Known(s)

\* A frame of a connection: its type, and the session it names.
LEMMA WireFrame ==
  ASSUME TypeOK, NEW c \in Conns, ConnShape(c), NEW f, OnWire(c, f)
  PROVE  /\ f \in FrameType
         /\ f.op \in NamingOps => f.sid \in Sessions /\ Named(c, f.sid)
         /\ f.op \notin NamingOps => f.sid = NoSession
<1>1. toClient[c] \in Seq(FrameType) /\ toServer[c] \in Seq(FrameType)
  BY DEF TypeOK, WireTypeOK
<1>2. CASE OnClient(c, f)
  <2>1. PICK i \in DOMAIN toClient[c] : toClient[c][i] = f
    BY <1>2 DEF OnClient
  <2>2. f \in FrameType
    BY <1>1, <2>1, ElementOfSeq, LenProperties
  <2>3. f.sid = NoSession <=> f.op \notin NamingOps
    BY <2>1 DEF ConnShape, QueueOK
  <2>4. Named(c, f.sid)
    BY <2>1 DEF Named, Mentions
  <2> QED BY <2>2, <2>3, <2>4, FrameFields DEF SessionOrNone
<1>3. CASE OnServer(c, f)
  <2>1. PICK i \in DOMAIN toServer[c] : toServer[c][i] = f
    BY <1>3 DEF OnServer
  <2>2. f \in FrameType
    BY <1>1, <2>1, ElementOfSeq, LenProperties
  <2>3. f.sid = NoSession <=> f.op \notin NamingOps
    BY <2>1 DEF ConnShape, QueueOK
  <2>4. Named(c, f.sid)
    BY <2>1 DEF Named, Refers, Mentions
  <2> QED BY <2>2, <2>3, <2>4, FrameFields DEF SessionOrNone
<1> QED BY <1>2, <1>3 DEF OnWire

\* A frame that names no session says nothing of one.
LEMMA PlainFact ==
  ASSUME NEW f, f.op \notin NamingOps
  PROVE  FrameFact(f)
BY DEF FrameFact, NamingOps, EventOps

-----------------------------------------------------------------------------
(* A session's log grows; once READY is out, by events that are kept.      *)

Grown(s) ==
  /\ Len(log[s]) <= Len(log'[s]) /\ \A id \in 1..Len(log[s]) : log'[s][id] = log[s][id]
  /\ applied[s] \subseteq applied'[s]
  /\ ready'[s] => ready[s]
  /\ ~ready[s] => \A id \in 1..Len(log'[s]) : id \in 1..Len(log[s]) \/ log'[s][id].kept

\* A session whose log is unchanged grows, too.
LEMMA UnchangedGrows ==
  ASSUME TypeOK, NEW s \in Sessions, log'[s] = log[s], applied[s] \subseteq applied'[s], ready'[s] => ready[s]
  PROVE  Grown(s)
BY SessionValues DEF Grown

\* A session that sends an event grows by it.
LEMMA SendsGrows ==
  ASSUME TypeOK, NumberInv, NEW s \in Sessions, NEW op \in EventOps, Sends(s, op)
  PROVE  /\ \A r \in Sessions : Grown(r)
         /\ Len(log'[s]) = Len(log[s]) + 1 /\ seq[s] = Len(log[s])
         /\ \A id \in 1..Len(log[s]) : log'[s][id] = log[s][id]
         /\ op = "ready" => ~ready'[s] /\ \A id \in 1..Len(log[s]) : log[s][id].kept
<1> USE DEF client
<1>1. SessionNumbers(s) /\ alive[s] /\ (op = "event") \in BOOLEAN
  BY DEF Sends, NumberInv
<1>2. Logs(s, op = "event") /\ UNCHANGED <<alive, ack_seq, socket_pid>>
  BY DEF Sends
<1>3. ready'[s] <=> ready[s] /\ op = "event"
  BY DEF Sends, TypeOK, SessionTypeOK
<1>4. /\ Len(log'[s]) = Len(log[s]) + 1
      /\ log'[s][Len(log[s]) + 1] = [s |-> seq[s] + 1, kept |-> (op = "event")]
      /\ \A id \in 1..Len(log[s]) : log'[s][id] = log[s][id]
  BY <1>1, <1>2, <1>3, LoggedNumbers
<1>5. log'[s][Len(log[s]) + 1].kept = (op = "event") /\ Len(log[s]) \in Nat
  BY <1>4, SessionValues
<1>6. op = "ready" => ready[s]
  BY DEF Sends
<1>7. ~ready[s] => op = "event"
  BY <1>6 DEF EventOps
<1>8. Grown(s)
  <2>1. applied' = applied
    BY DEF Sends
  <2>2. \A id \in 1..(Len(log[s]) + 1) : id \in 1..Len(log[s]) \/ id = Len(log[s]) + 1
    BY <1>5
  <2>3. ~ready[s] => \A id \in 1..Len(log'[s]) : id \in 1..Len(log[s]) \/ log'[s][id].kept
    BY <1>4, <1>5, <1>7, <2>2
  <2> QED BY <1>3, <1>4, <1>5, <2>1, <2>3 DEF Grown
<1>9. ASSUME NEW r \in Sessions, r # s PROVE Grown(r)
  <2>1. log'[r] = log[r] /\ applied'[r] = applied[r] /\ ready'[r] = ready[r]
    BY <1>9 DEF Sends, Logs, TypeOK, SessionTypeOK
  <2> QED BY <2>1, UnchangedGrows
<1>10. seq[s] = Len(log[s]) /\ (op = "ready" => ~ready'[s] /\ \A id \in 1..Len(log[s]) : log[s][id].kept)
  BY <1>1, <1>3, <1>6 DEF SessionNumbers
<1> QED BY <1>4, <1>8, <1>9, <1>10

\* Every session grows in every step, but the one that the step starts.
LEMMA StepGrows ==
  ASSUME TypeOK, SwitchesOff, NumberInv, [Next]_vars, NEW r \in Sessions, ~\E c \in Conns : Starts(c, r)
  PROVE  Grown(r)
<1> USE DEF TypeOK, SessionTypeOK, sessions, client
<1>0. TypeOK
  OBVIOUS
<1>1. CASE log'[r] = log[r] /\ applied[r] \subseteq applied'[r] /\ (ready'[r] => ready[r])
  BY <1>0, <1>1, UnchangedGrows
<1>2. CASE Still
  BY <1>1, <1>2 DEF Still
<1>3. ASSUME NEW s \in Sessions, SessionKind(s) PROVE Grown(r)
  <2>1. ASSUME NEW op \in EventOps, Sends(s, op) PROVE Grown(r)
    BY <1>0, <2>1, SendsGrows
  <2>2. CASE Ends(s) \/ Detaches(s) \/ \E c \in Conns : ServeResume(s, c)
    <3>1. log'[r] = log[r] /\ applied' = applied /\ (ready'[r] => ready[r])
      BY <2>2 DEF Ends, Stop, Detaches, ServeResume, clientVars
    <3> QED BY <1>1, <3>1
  <2> QED BY <1>3, <2>1, <2>2 DEF SessionKind
<1>4. ASSUME NEW c \in Conns, HandlerKind(c) PROVE Grown(r)
  <2>1. ASSUME NEW s \in Sessions, Starts(c, s) PROVE Grown(r)
    <3>1. s # r
      BY <2>1
    <3>2. log'[r] = log[r] /\ applied'[r] = applied[r] /\ ready'[r] = ready[r]
      BY <2>1, <3>1 DEF Starts, StartSession, ClientTypeOK
    <3> QED BY <1>1, <3>2
  <2>2. CASE ~\E s \in Sessions : Starts(c, s)
    <3>1. log' = log /\ applied' = applied /\ ready' = ready
      BY <1>4, <2>2 DEF HandlerKind, Closes, Refuses, Calls, Finishes, Acknowledges, HandlerSessionDown,
                        Drop, sessionVars, clientVars
    <3> QED BY <1>1, <3>1
  <2> QED BY <2>1, <2>2
<1>5. CASE ClientKind
  <2>1. log' = log /\ ready' = ready
    BY <1>5 DEF ClientKind, Reconnect, Disconnect, ClientReceive, SendIdentify, SendHeartbeat, sessionVars
  <2>2. applied[r] \subseteq applied'[r]
    <3>1. CASE ClientReceive
      <4> DEFINE frame == Head(toClient[socket])
      <4>1. CASE UNCHANGED applied
        BY <4>1
      <4>2. CASE applied' = [applied EXCEPT ![frame.sid] = @ \cup {frame.id}]
        <5>1. applied \in [Sessions -> SUBSET Nat]
          BY DEF ClientTypeOK
        <5> HIDE DEF frame
        <5> QED BY <4>2, <5>1
      <4> QED BY <3>1, <4>1, <4>2 DEF ClientReceive, OnHello, OnDispatch, OnHeartbeatAck, OnInvalidSession, OnClose
    <3>2. CASE ~ClientReceive
      BY <1>5, <3>2 DEF ClientKind, Reconnect, Disconnect, SendIdentify, SendHeartbeat
    <3> QED BY <3>1, <3>2
  <2> QED BY <1>1, <2>1, <2>2
<1> QED BY <1>0, <1>2, <1>3, <1>4, <1>5, StepKind

\* What was true of a session stays true as it grows.
LEMMA GoodGrows ==
  ASSUME TypeOK, NEW s \in Sessions, Grown(s), NEW n \in Nat, Good(n, s),  TypeOK'
  PROVE  Good(n, s)'
<1>1. Len(log[s]) \in Nat /\ Len(log'[s]) \in Nat
  BY SessionValues, LenProperties DEF TypeOK, SessionTypeOK
<1> QED BY <1>1 DEF Good, Grown

\* A session that is known stays known.
LEMMA KnownGrows ==
  ASSUME NEW s \in Sessions, Grown(s), Known(s)
  PROVE  Known(s)'
BY DEF Known, Grown

\* A fact about a frame stays true.
LEMMA FrameGrows ==
  ASSUME TypeOK, TypeOK', NEW f \in FrameType, f.op \in NamingOps => f.sid \in Sessions /\ Grown(f.sid), FrameFact(f)
  PROVE  FrameFact(f)'
<1>1. CASE f.op \notin NamingOps
  BY <1>1 DEF FrameFact, NamingOps, EventOps
<1>2. CASE f.op \in NamingOps
  <2>1. Len(log[f.sid]) \in Nat /\ Len(log'[f.sid]) \in Nat /\ f.id \in Nat
    BY <1>2, SessionValues, LenProperties, FrameFields DEF TypeOK, SessionTypeOK
  <2>2. f.op \in EventOps => (f.s = f.id /\ f.id \in 1..Len(log[f.sid]))'
    BY <1>2, <2>1 DEF FrameFact, Grown
  <2>3. Known(f.sid) => Known(f.sid)'
    BY <1>2, KnownGrows
  <2>4. f.op = "resumed" => Known(f.sid)' /\ f.id <= Len(log'[f.sid])
    BY <1>2, <2>1, <2>3 DEF FrameFact, Grown
  <2>5. f.op = "ready" => ~ready'[f.sid] /\ \A id \in 1..Len(log'[f.sid]) : log'[f.sid][id].kept \/ id = f.id
    BY <1>2 DEF FrameFact, Grown
  <2> QED BY <2>2, <2>3, <2>4, <2>5 DEF FrameFact
<1> QED BY <1>1, <1>2

\* A fact about a call stays true.
LEMMA CallGrows ==
  ASSUME TypeOK, TypeOK', NEW done \in CallType, done.op # "none" => done.sid \in Sessions /\ Grown(done.sid),
         CallFact(done)
  PROVE  CallFact(done)'
<1>1. CASE done.op = "none"
  BY <1>1 DEF CallFact
<1>2. CASE done.op # "none"
  <2>1. /\ Len(log[done.sid]) \in Nat /\ Len(log'[done.sid]) \in Nat /\ done.upto \in Nat
        /\ \A i \in 1..Len(done.missed) : done.missed[i].id \in Nat
    BY <1>2, SessionValues, LenProperties, EventFields DEF TypeOK, SessionTypeOK, CallType
  <2>2. Known(done.sid)'
    BY <1>2, KnownGrows DEF CallFact
  <2> QED BY <1>2, <2>1, <2>2 DEF CallFact, Grown
<1> QED BY <1>1, <1>2
-----------------------------------------------------------------------------
(* What a step puts on the wires.                                          *)

\* A frame to the client was there before or was written.
LEMMA WroteFrames ==
  ASSUME TypeOK, NEW c \in ConnOrNone, NEW new \in Seq(FrameType), Wrote(c, new), NEW d \in Conns, NEW f, OnClient(d, f)'
  PROVE  OnClient(d, f) \/ (d = c /\ link[c] /\ \E k \in DOMAIN new : new[k] = f)
<1>1. toClient[d] \in Seq(FrameType)
  BY DEF TypeOK, WireTypeOK
<1>2. CASE d = c /\ link[d]
  <2>1. toClient'[d] = toClient[d] \o new
    BY <1>2 DEF Wrote
  <2>2. PICK i \in DOMAIN (toClient[d] \o new) : (toClient[d] \o new)[i] = f
    BY <2>1 DEF OnClient
  <2>3. \A j \in DOMAIN toClient[d] : (toClient[d] \o new)[j] = toClient[d][j]
    BY <1>1, ConcatFrames
  <2>4. \A k \in DOMAIN new : (toClient[d] \o new)[Len(toClient[d]) + k] = new[k]
    BY <1>1, ConcatFrames
  <2>5. i \in DOMAIN toClient[d] \/ \E k \in DOMAIN new : i = Len(toClient[d]) + k
    BY <1>1, ConcatFrames
  <2>6. OnClient(d, f) \/ \E k \in DOMAIN new : new[k] = f
    BY <2>2, <2>3, <2>4, <2>5 DEF OnClient
  <2> QED BY <1>2, <2>6
<1>3. CASE ~(d = c /\ link[d])
  BY <1>3 DEF Wrote, OnClient
<1> QED BY <1>2, <1>3

\* A frame that is written alone.
LEMMA WroteFrame ==
  ASSUME TypeOK, NEW c \in Conns, NEW g, <<g>> \in Seq(FrameType), toClient' = Put(c, <<g>>),
         NEW d \in Conns, NEW f, OnClient(d, f)'
  PROVE  OnClient(d, f) \/ f = g
<1> DEFINE new == <<g>>
<1>1. c \in ConnOrNone /\ DOMAIN new = {1} /\ new[1] = g /\ new \in Seq(FrameType) /\ toClient' = Put(c, new)
  BY DEF ConnOrNone
<1> HIDE DEF new
<1>2. Wrote(c, new)
  BY <1>1, PutWrites
<1>3. OnClient(d, f) \/ \E k \in DOMAIN new : new[k] = f
  BY <1>1, <1>2, WroteFrames
<1> QED BY <1>1, <1>3

\* Receives adds no frame for a handler to read.
LEMMA ReceivedFrames ==
  ASSUME TypeOK, NEW c \in Conns, NEW op, Receives(c, op), NEW d \in Conns, NEW f, OnServer(d, f)'
  PROVE  OnServer(d, f)
<1>1. /\ toServer[c] # <<>> /\ toServer[c] \in Seq(FrameType) /\ toServer'[c] = Tail(toServer[c])
      /\ \A b \in Conns : b # c => toServer'[b] = toServer[b]
  BY DEF Receives, TypeOK, WireTypeOK
<1>2. \A i \in DOMAIN Tail(toServer[c]) : i + 1 \in DOMAIN toServer[c] /\ Tail(toServer[c])[i] = toServer[c][i + 1]
  BY <1>1, TailFrames
<1> QED BY <1>1, <1>2 DEF OnServer

\* A frame for a handler was there before or was sent.
LEMMA SentFrames ==
  ASSUME TypeOK, NEW c \in Conns, NEW g \in FrameType, Sent(c, g), NEW d \in Conns, NEW f, OnServer(d, f)'
  PROVE  OnServer(d, f) \/ (d = c /\ f = g)
<1>1. CASE d = c /\ link[c]
  <2>1. toServer[c] \in Seq(FrameType) /\ toServer'[c] = Append(toServer[c], g)
    BY <1>1 DEF Sent, TypeOK, WireTypeOK
  <2>2. /\ Len(toServer[c]) \in Nat /\ Len(toServer'[c]) = Len(toServer[c]) + 1
        /\ toServer'[c][Len(toServer[c]) + 1] = g
        /\ \A i \in 1..Len(toServer[c]) : toServer'[c][i] = toServer[c][i]
        /\ DOMAIN toServer'[c] = 1..(Len(toServer[c]) + 1) /\ DOMAIN toServer[c] = 1..Len(toServer[c])
    BY <2>1, AppendProperties, LenProperties
  <2>3. \A i \in 1..(Len(toServer[c]) + 1) : i \in 1..Len(toServer[c]) \/ i = Len(toServer[c]) + 1
    BY <2>2
  <2> QED BY <1>1, <2>2, <2>3 DEF OnServer
<1>2. CASE ~(d = c /\ link[c])
  BY <1>2 DEF Sent, OnServer
<1> QED BY <1>1, <1>2

\* Only sessions, and the handlers that replay, send frames that name one.
LEMMA HandlerWire ==
  ASSUME TypeOK, NEW c \in Conns, HandlerKind(c), ~Finishes(c), NEW d \in Conns, NEW f, OnWire(d, f)'
  PROVE  OnWire(d, f) \/ f.op \notin NamingOps
<1> USE DEF NamingOps
<1>1. CASE Closes(c)
  <2>1. PICK code \in Nat : HandlerEnds(c) /\ toClient' = Put(c, <<Close(code)>>)
    BY <1>1 DEF Closes, CloseWith
  <2>2. <<Close(code)>> \in Seq(FrameType) /\ Close(code).op = "close"
    BY AnswerFrames
  <2>3. OnClient(d, f)' => OnClient(d, f) \/ f.op = "close"
    BY <2>1, <2>2, WroteFrame
  <2>4. OnServer(d, f)' => OnServer(d, f)
    BY <2>1 DEF HandlerEnds, OnServer, TypeOK, WireTypeOK
  <2> QED BY <2>3, <2>4 DEF OnWire
<1>2. CASE Refuses(c)
  <2>1. <<InvalidSession>> \in Seq(FrameType) /\ InvalidSession.op = "invalid_session"
    BY AnswerFrames
  <2>2. OnClient(d, f)' => OnClient(d, f) \/ f.op = "invalid_session"
    BY <1>2, <2>1, WroteFrame DEF Refuses
  <2>3. OnServer(d, f)' => OnServer(d, f)
    BY <1>2, ReceivedFrames DEF Refuses
  <2> QED BY <2>2, <2>3 DEF OnWire
<1>3. CASE Calls(c)
  <2>1. OnServer(d, f)' => OnServer(d, f)
    BY <1>3, ReceivedFrames DEF Calls
  <2>2. OnClient(d, f)' => OnClient(d, f)
    BY <1>3 DEF Calls, OnClient
  <2> QED BY <2>1, <2>2 DEF OnWire
<1>4. CASE Acknowledges(c)
  <2>1. <<HeartbeatAck>> \in Seq(FrameType) /\ HeartbeatAck.op = "heartbeat_ack"
    BY AnswerFrames
  <2>2. OnClient(d, f)' => OnClient(d, f) \/ f.op = "heartbeat_ack"
    BY <1>4, <2>1, WroteFrame DEF Acknowledges
  <2>3. OnServer(d, f)' => OnServer(d, f)
    BY <1>4, ReceivedFrames DEF Acknowledges
  <2> QED BY <2>2, <2>3 DEF OnWire
<1>5. CASE HandlerSessionDown(c)
  <2>1. <<InvalidSession>> \in Seq(FrameType) /\ InvalidSession.op = "invalid_session"
    BY AnswerFrames
  <2>2. OnClient(d, f)' => OnClient(d, f) \/ f.op = "invalid_session"
    BY <1>5, <2>1, WroteFrame DEF HandlerSessionDown, SessionDownFrames
  <2>3. OnServer(d, f)' => OnServer(d, f)
    BY <1>5 DEF HandlerSessionDown, OnServer
  <2> QED BY <2>2, <2>3 DEF OnWire
<1>6. CASE Drop(c)
  <2>1. <<Close(AbnormalClosure)>>[1].op = "close" /\ DOMAIN <<Close(AbnormalClosure)>> = {1}
    BY AnswerFrames DEF AbnormalClosure
  <2>2. PICK n \in 0..Len(toServer[c]) : toServer' = [toServer EXCEPT ![c] = SubSeq(@, 1, n)]
    BY <1>6 DEF Drop
  <2>3. OnClient(d, f)' => OnClient(d, f) \/ f.op = "close"
    <3>1. CASE d = c
      <4>1. toClient'[d] = <<Close(AbnormalClosure)>>
        BY <1>6, <3>1 DEF Drop, TypeOK, WireTypeOK
      <4> QED BY <2>1, <4>1 DEF OnClient
    <3>2. CASE d # c
      BY <1>6, <3>2 DEF Drop, OnClient, TypeOK, WireTypeOK
    <3> QED BY <3>1, <3>2
  <2>4. OnServer(d, f)' => OnServer(d, f)
    <3>1. CASE d = c
      <4>1. toServer[c] \in Seq(FrameType) /\ toServer'[c] = SubSeq(toServer[c], 1, n)
        BY <2>2 DEF TypeOK, WireTypeOK
      <4>2. \A i \in 1..n : i \in DOMAIN toServer[c] /\ SubSeq(toServer[c], 1, n)[i] = toServer[c][i]
        <5>1. Len(toServer[c]) \in Nat /\ DOMAIN toServer[c] = 1..Len(toServer[c])
          BY <4>1, LenProperties
        <5> QED BY <4>1, <5>1
      <4>3. DOMAIN SubSeq(toServer[c], 1, n) = 1..n
        BY <4>1
      <4> QED BY <3>1, <4>1, <4>2, <4>3 DEF OnServer
    <3>2. CASE d # c
      BY <2>2, <3>2 DEF OnServer, TypeOK, WireTypeOK
    <3> QED BY <3>1, <3>2
  <2> QED BY <2>3, <2>4 DEF OnWire
<1>7. ASSUME NEW s \in Sessions, Starts(c, s) PROVE OnWire(d, f)
  <2>1. OnServer(d, f)' => OnServer(d, f)
    BY <1>7, ReceivedFrames DEF Starts
  <2>2. OnClient(d, f)' => OnClient(d, f)
    BY <1>7 DEF Starts, OnClient
  <2> QED BY <2>1, <2>2 DEF OnWire
<1> QED BY <1>1, <1>2, <1>3, <1>4, <1>5, <1>6, <1>7 DEF HandlerKind

\* The client names a session in a RESUME only.
LEMMA ClientWire ==
  ASSUME TypeOK, SwitchesOff, LinkInv, ClientKind, NEW d \in Conns, NEW f, OnWire(d, f)'
  PROVE  \/ OnWire(d, f) \/ f.op \notin NamingOps
         \/ /\ f = Resume(activeSessionId, lastSequenceNumber) /\ activeSessionId # NoSession
            /\ ClientReceive /\ OnHello(Head(toClient[socket])) /\ d = socket
<1> USE DEF NamingOps
<1>1. ASSUME NEW c \in Conns, Reconnect(c) PROVE OnWire(d, f) \/ f.op \notin NamingOps
  <2>1. toClient'[c] = <<Hello>> /\ (d # c => toClient'[d] = <<>>) /\ toServer' = toServer
    BY <1>1, ReconnectOpens
  <2>2. <<Hello>>[1].op = "hello" /\ DOMAIN <<Hello>> = {1} /\ DOMAIN <<>> = {}
    BY AnswerFrames
  <2>3. OnClient(d, f)' => f.op = "hello"
    BY <2>1, <2>2 DEF OnClient
  <2> QED BY <2>1, <2>3 DEF OnWire, OnServer
<1>2. CASE Disconnect
  <2>1. (d = socket => toClient'[d] = <<>>) /\ (d # socket => toClient'[d] = toClient[d]) /\ toServer' = toServer
    BY <1>2 DEF Disconnect, TypeOK, WireTypeOK
  <2>2. DOMAIN <<>> = {}
    OBVIOUS
  <2>3. OnClient(d, f)' => OnClient(d, f)
    BY <2>1, <2>2 DEF OnClient
  <2> QED BY <2>1, <2>3 DEF OnWire, OnServer
<1>3. Identify \in FrameType /\ Identify.op = "identify"
  BY PlainFrames, FrameProperties DEF Identify, Frame
<1>4. CASE ClientReceive
  <2>1. /\ socket \in Conns /\ toClient[socket] \in Seq(FrameType) /\ toClient[socket] # <<>>
        /\ toClient'[socket] = Tail(toClient[socket])
        /\ \A b \in Conns : b # socket => toClient'[b] = toClient[b]
    BY <1>4, ReceiveReads
  <2>2. \A i \in DOMAIN Tail(toClient[socket]) :
          i + 1 \in DOMAIN toClient[socket] /\ Tail(toClient[socket])[i] = toClient[socket][i + 1]
    BY <2>1, TailFrames
  <2>3. OnClient(d, f)' => OnClient(d, f)
    <3>1. CASE d = socket
      <4>1. OnClient(d, f)' => \E i \in DOMAIN Tail(toClient[socket]) : Tail(toClient[socket])[i] = f
        BY <2>1, <3>1 DEF OnClient
      <4> QED BY <2>2, <3>1, <4>1 DEF OnClient
    <3>2. CASE d # socket
      BY <2>1, <3>2 DEF OnClient
    <3> QED BY <3>1, <3>2
  <2>4. CASE OnHello(Head(toClient[socket]))
    <3>1. Resume(activeSessionId, lastSequenceNumber) \in FrameType
      <4>1. activeSessionId \in SessionOrNone /\ lastSequenceNumber \in Nat
        BY DEF TypeOK, ClientTypeOK
      <4> QED BY <4>1, PlainFrames DEF Resume, Frame
    <3>2. \/ activeSessionId # NoSession /\ Sent(socket, Resume(activeSessionId, lastSequenceNumber))
          \/ Sent(socket, Identify)
      BY <2>1, <2>4, SendAppends DEF OnHello
    <3>3. CASE Sent(socket, Identify)
      <4>1. OnServer(d, f)' => OnServer(d, f) \/ f = Identify
        BY <1>3, <2>1, <3>3, SentFrames
      <4> QED BY <1>3, <2>3, <4>1 DEF OnWire
    <3>4. CASE activeSessionId # NoSession /\ Sent(socket, Resume(activeSessionId, lastSequenceNumber))
      <4> DEFINE g == Resume(activeSessionId, lastSequenceNumber)
      <4>1. OnServer(d, f)' => OnServer(d, f) \/ (d = socket /\ f = g)
        <5> HIDE DEF g
        <5>1. g \in FrameType /\ Sent(socket, g)
          BY <3>1, <3>4 DEF g
        <5> QED BY <2>1, <5>1, SentFrames
      <4> QED BY <1>4, <2>3, <2>4, <3>4, <4>1 DEF OnWire
    <3> QED BY <3>2, <3>3, <3>4
  <2>5. CASE ~OnHello(Head(toClient[socket]))
    <3>1. toServer' = toServer
      BY <1>4, <2>5 DEF ClientReceive, OnDispatch, OnHeartbeatAck, OnInvalidSession, OnClose
    <3> QED BY <2>3, <3>1 DEF OnWire, OnServer
  <2> QED BY <2>4, <2>5
<1>5. CASE SendIdentify
  <2>1. socket \in Conns /\ Sent(socket, Identify) /\ toClient' = toClient
    BY <1>5, ClientSocket, SendAppends DEF SendIdentify
  <2>2. OnServer(d, f)' => OnServer(d, f) \/ f = Identify
    BY <1>3, <2>1, SentFrames
  <2> QED BY <1>3, <2>1, <2>2 DEF OnWire, OnClient
<1>6. CASE SendHeartbeat
  <2> DEFINE g == Heartbeat(lastSequenceNumber)
  <2>1. g \in FrameType /\ g.op = "heartbeat"
    BY PlainFrames DEF Heartbeat, Frame, TypeOK, ClientTypeOK
  <2>2. CASE socket = NoConn
    <3>1. UNCHANGED <<toServer, toClient>>
      BY <1>6, <2>2, SessionAssumption DEF SendHeartbeat, Send, TypeOK, WireTypeOK
    <3> QED BY <3>1 DEF OnWire, OnClient, OnServer
  <2>3. CASE socket # NoConn
    <3>1. socket \in Conns /\ Sent(socket, g) /\ toClient' = toClient
      BY <1>6, <2>3, ClientSocket, SendAppends DEF SendHeartbeat
    <3> HIDE DEF g
    <3>2. OnServer(d, f)' => OnServer(d, f) \/ f = g
      BY <2>1, <3>1, SentFrames
    <3> QED BY <2>1, <3>1, <3>2 DEF OnWire, OnClient
  <2> QED BY <2>2, <2>3
<1> QED BY <1>1, <1>2, <1>4, <1>5, <1>6 DEF ClientKind
-----------------------------------------------------------------------------
(* The facts are kept by every step.                                       *)

\* Whoever is spoken of grows.
LEMMA NamedGrows ==
  ASSUME TypeOK, SwitchesOff, NumberInv, LinkInv, ShapeInv, [Next]_vars
  PROVE  \A s \in Sessions : activeSessionId = s \/ (\E c \in Conns : Named(c, s)) => Grown(s)
<1> SUFFICES ASSUME NEW s \in Sessions, activeSessionId = s \/ (\E c \in Conns : Named(c, s)) PROVE Grown(s)
  OBVIOUS
<1>1. ASSUME NEW c \in Conns, Starts(c, s) PROVE FALSE
  BY <1>1, StartsShape
<1> QED BY <1>1, StepGrows

\* The facts about a frame that was there before.
LEMMA WireFact ==
  ASSUME TypeOK, TypeOK', ShapeInv, FactInv, NEW c \in Conns, NEW f, OnWire(c, f),
         \A s \in Sessions : Named(c, s) => Grown(s)
  PROVE  FrameFact(f)'
<1>1. f \in FrameType /\ (f.op \in NamingOps => f.sid \in Sessions /\ Named(c, f.sid))
  BY WireFrame DEF ShapeInv
<1>2. FrameFact(f)
  BY <1>1 DEF FactInv
<1> QED BY <1>1, <1>2, FrameGrows

\* The session of a call.
LEMMA CallSession ==
  ASSUME TypeOK, NEW c \in Conns, ConnShape(c)
  PROVE  /\ call[c] \in CallType
         /\ call[c].op # "none" => call[c].sid \in Sessions /\ Named(c, call[c].sid)
BY DEF TypeOK, HandlerTypeOK, ConnShape, CallType, SessionOrNone, Named, Refers

\* The facts about a call that goes on.
LEMMA SameCallFact ==
  ASSUME TypeOK, TypeOK', ShapeInv, FactInv, NEW c \in Conns, call'[c] = call[c],
         \A s \in Sessions : Named(c, s) => Grown(s)
  PROVE  CallFact(call[c])'
<1>1. PICK done : done = call[c]
  OBVIOUS
<1>2. done \in CallType /\ (done.op # "none" => done.sid \in Sessions /\ Named(c, done.sid)) /\ CallFact(done)
  BY <1>1, CallSession DEF ShapeInv, FactInv
<1>3. CallFact(done)'
  BY <1>2, CallGrows
<1> QED BY <1>1, <1>3

\* What a session would replay are events of its log, under their places.
LEMMA MissedFact ==
  ASSUME TypeOK, NumberInv, BufferInv, NEW s \in Sessions, alive[s], NEW n \in Nat
  PROVE  LET missed == EventsAfter(buffer[s], n)
         IN  /\ missed \in Seq(Event)
             /\ \A i \in 1..Len(missed) : missed[i].seq = missed[i].id /\ missed[i].id \in 1..Len(log[s])
             /\ \A id \in 1..Len(log[s]) :
                  log[s][id].kept /\ id > n /\ id > ack_seq[s] => \E i \in 1..Len(missed) : missed[i].id = id
<1> DEFINE b == buffer[s]
           missed == EventsAfter(b, n)
<1>1. /\ b \in Seq(Event) /\ Len(b) \in Nat /\ log[s] \in Seq(LogEntry) /\ Len(log[s]) \in Nat
      /\ \A i \in 1..Len(b) : b[i] \in Event /\ b[i].seq \in Nat /\ b[i].id \in Nat
      /\ ack_seq[s] \in Nat
  BY SessionValues
<1>2. PICK k \in 0..Len(b) :
        /\ missed \in Seq(Event) /\ Len(missed) = Len(b) - k
        /\ \A i \in 1..(Len(b) - k) : missed[i] = b[i + k]
        /\ \A i \in 1..k : b[i].seq <= n
  BY <1>1, EventsAfterProperties
<1>3. \A i \in 1..Len(b) : b[i].id \in 1..Len(log[s]) /\ b[i].seq = b[i].id
  <2> TAKE i \in 1..Len(b)
  <2>1. b[i].id \in 1..Len(log[s]) /\ log[s][b[i].id] = [s |-> b[i].seq, kept |-> TRUE]
    BY DEF BufferInv, BufferSound
  <2>2. log[s][b[i].id].s = b[i].id
    BY <2>1 DEF NumberInv, SessionNumbers
  <2> QED BY <2>1, <2>2
<1> HIDE DEF missed
<1>4. \A i \in 1..Len(missed) : missed[i].seq = missed[i].id /\ missed[i].id \in 1..Len(log[s])
  <2> TAKE i \in 1..Len(missed)
  <2>1. i + k \in 1..Len(b) /\ missed[i] = b[i + k]
    BY <1>1, <1>2
  <2> QED BY <1>3, <2>1
<1>5. ASSUME NEW id \in 1..Len(log[s]), log[s][id].kept, id > n, id > ack_seq[s]
      PROVE  \E i \in 1..Len(missed) : missed[i].id = id
  <2>1. log[s][id].s = id
    BY <1>1, <1>5 DEF NumberInv, SessionNumbers
  <2>2. PICK j \in 1..Len(b) : b[j] = [seq |-> id, id |-> id]
    BY <1>5, <2>1 DEF BufferInv, BufferComplete
  <2>3. b[j].seq = id /\ b[j].id = id
    BY <2>2
  <2>4. ~(j \in 1..k)
    BY <1>1, <1>2, <1>5, <2>3
  <2>5. j - k \in 1..Len(missed) /\ (j - k) + k = j
    BY <1>1, <1>2, <2>4
  <2>6. missed[j - k] = b[j]
    BY <1>2, <2>5
  <2> QED BY <2>3, <2>5, <2>6
<1> QED BY <1>2, <1>4, <1>5 DEF missed

\* What the call that ServeResume answers becomes.
LEMMA ServedCall ==
  ASSUME TypeOK, NEW s \in Sessions, NEW c \in Conns, ServeResume(s, c)
  PROVE  /\ alive[s] /\ call[c].op = "resume" /\ call[c].sid = s /\ call[c].s \in Nat
         /\ call'[c].sid = s /\ call'[c].s = call[c].s
         /\ \A d \in Conns : d # c => call'[d] = call[d]
         /\ \/ call[c].s > seq[s] /\ call'[c].op = "invalid_seq" /\ UNCHANGED socket_pid
            \/ /\ call[c].s <= seq[s] /\ call'[c].op = "replay" /\ call'[c].upto = Len(log[s])
               /\ call'[c].missed = EventsAfter(buffer[s], call[c].s)
               /\ socket_pid' = [socket_pid EXCEPT ![s] = c]
<1>1. call \in [Conns -> CallType] /\ call[c] \in CallType
  BY DEF TypeOK, HandlerTypeOK
<1>2. call[c].s \in Nat /\ alive[s] /\ call[c].op = "resume" /\ call[c].sid = s
  BY <1>1 DEF CallType, ServeResume
<1>3. CASE /\ call[c].s > seq[s]
           /\ call' = [call EXCEPT ![c].op = "invalid_seq"]
           /\ UNCHANGED socket_pid
  <2>1. call'[c] = [call[c] EXCEPT !.op = "invalid_seq"] /\ \A d \in Conns : d # c => call'[d] = call[d]
    BY <1>1, <1>3
  <2>2. call'[c].op = "invalid_seq" /\ call'[c].sid = call[c].sid /\ call'[c].s = call[c].s
    BY <1>1, <2>1 DEF CallType
  <2> QED BY <1>2, <1>3, <2>1, <2>2
<1> DEFINE missed == EventsAfter(buffer[s], call[c].s)
           upto   == Len(log[s])
<1>4. CASE /\ call[c].s <= seq[s]
           /\ call' = [call EXCEPT ![c] = [@ EXCEPT !.op = "replay", !.missed = missed, !.upto = upto]]
           /\ socket_pid' = [socket_pid EXCEPT ![s] = c]
  <2> HIDE DEF missed, upto
  <2>1. /\ call'[c] = [call[c] EXCEPT !.op = "replay", !.missed = missed, !.upto = upto]
        /\ \A d \in Conns : d # c => call'[d] = call[d]
    BY <1>1, <1>4
  <2>2. /\ call'[c].op = "replay" /\ call'[c].sid = call[c].sid /\ call'[c].s = call[c].s
        /\ call'[c].missed = missed /\ call'[c].upto = upto
    BY <1>1, <2>1 DEF CallType
  <2> QED BY <1>2, <1>4, <2>1, <2>2 DEF missed, upto
<1> QED BY <1>3, <1>4 DEF ServeResume

\* What the call that Calls makes is.
LEMMA CalledCall ==
  ASSUME TypeOK, NEW c \in Conns, ConnShape(c), Calls(c)
  PROVE  LET f == toServer[c][1]
         IN  /\ f \in FrameType /\ f.op = "resume" /\ OnServer(c, f)
             /\ f.sid \in Sessions /\ Mentions(toServer[c], f.sid)
             /\ call'[c].op = "resume" /\ call'[c].sid = f.sid /\ call'[c].s = f.s
             /\ \A d \in Conns : d # c => call'[d] = call[d]
<1> DEFINE f == toServer[c][1]
<1>1. /\ call[c].op = "none" /\ 1 \in DOMAIN toServer[c] /\ Head(toServer[c]) = f
      /\ f \in FrameType /\ f.op = "resume" /\ f.sid \in Sessions /\ Mentions(toServer[c], f.sid)
  BY ReadQueue DEF Calls
<1>2. OnServer(c, f)
  BY <1>1 DEF OnServer
<1>3. /\ call'[c] = [NoCall EXCEPT !.op = "resume", !.sid = f.sid, !.s = f.s]
      /\ \A d \in Conns : d # c => call'[d] = call[d]
  BY <1>1 DEF Calls, TypeOK, HandlerTypeOK
<1> HIDE DEF f
<1>4. call'[c].op = "resume" /\ call'[c].sid = f.sid /\ call'[c].s = f.s
  BY <1>3 DEF NoCall
<1> QED BY <1>1, <1>2, <1>3, <1>4 DEF f

\* The facts about frames after a step of a session.
LEMMA SessionFrameFacts ==
  ASSUME TypeOK, TypeOK', NumberInv, LinkInv, ShapeInv, FactInv, NEW s \in Sessions, SessionKind(s),
         \A r \in Sessions : (\E c \in Conns : Named(c, r)) => Grown(r), NEW d \in Conns, NEW f, OnWire(d, f)'
  PROVE  FrameFact(f)'
<1> USE DEF conns
<1>1. CASE OnWire(d, f)
  BY <1>1, WireFact
<1>2. ASSUME NEW op \in EventOps, Sends(s, op), ~OnWire(d, f) PROVE FrameFact(f)'
  <2> DEFINE g == Frame(op, s, seq[s] + 1, Len(log[s]) + 1)
  <2>1. /\ <<g>> \in Seq(FrameType) /\ DOMAIN <<g>> = {1} /\ <<g>>[1] = g
        /\ g.op = op /\ g.sid = s /\ g.s = seq[s] + 1 /\ g.id = Len(log[s]) + 1
        /\ socket_pid[s] \in ConnOrNone /\ Wrote(socket_pid[s], <<g>>)
    BY <1>2, SendsWrites
  <2> DEFINE new == <<g>>
  <2>2. f = g
    <3> HIDE DEF g
    <3>1. /\ new \in Seq(FrameType) /\ DOMAIN new = {1} /\ new[1] = g /\ Wrote(socket_pid[s], new)
          /\ socket_pid[s] \in ConnOrNone
      BY <2>1
    <3> HIDE DEF new
    <3>2. OnClient(d, f)' => OnClient(d, f) \/ f = g
      BY <3>1, WroteFrames
    <3>3. OnServer(d, f)' => OnServer(d, f)
      BY <1>2 DEF Sends, OnServer
    <3> QED BY <1>2, <3>2, <3>3 DEF OnWire
  <2>3. /\ Len(log'[s]) = Len(log[s]) + 1 /\ seq[s] = Len(log[s]) /\ Len(log[s]) \in Nat
        /\ \A id \in 1..Len(log[s]) : log'[s][id] = log[s][id]
        /\ op = "ready" => ~ready'[s] /\ \A id \in 1..Len(log[s]) : log[s][id].kept
    BY <1>2, SendsGrows, SessionValues
  <2> HIDE DEF g
  <2>4. f.op = op /\ f.sid = s /\ f.s = Len(log[s]) + 1 /\ f.id = Len(log[s]) + 1
    BY <2>1, <2>2, <2>3
  <2>5. op = "ready" => \A id \in 1..Len(log'[s]) : log'[s][id].kept \/ id = Len(log[s]) + 1
    <3>1. \A id \in 1..(Len(log[s]) + 1) : id \in 1..Len(log[s]) \/ id = Len(log[s]) + 1
      BY <2>3
    <3> QED BY <2>3, <3>1
  <2>6. op # "resumed" /\ op # "resume"
    BY DEF EventOps
  <2> QED BY <2>3, <2>4, <2>5, <2>6 DEF FrameFact
<1>3. CASE ~\E op \in EventOps : Sends(s, op)
  <2>1. UNCHANGED <<toClient, toServer>>
    BY <1>3 DEF SessionKind, Ends, Detaches, ServeResume, wireVars
  <2> QED BY <1>1, <2>1 DEF OnWire, OnClient, OnServer
<1> QED BY <1>1, <1>2, <1>3

\* The facts about frames after a step of a handler.
LEMMA HandlerFrameFacts ==
  ASSUME TypeOK, TypeOK', ShapeInv, FactInv, NEW c \in Conns, HandlerKind(c),
         \A r \in Sessions : (\E d \in Conns : Named(d, r)) => Grown(r), NEW d \in Conns, NEW f, OnWire(d, f)'
  PROVE  FrameFact(f)'
<1>1. CASE OnWire(d, f)
  BY <1>1, WireFact
<1>2. CASE ~OnWire(d, f) /\ ~Finishes(c)
  <2>1. f.op \notin NamingOps
    BY <1>2, HandlerWire
  <2> QED BY <2>1 DEF FrameFact, NamingOps, EventOps
<1>3. CASE ~OnWire(d, f) /\ Finishes(c)
  <2>1. PICK done : done = call[c]
    OBVIOUS
  <2>2. /\ done \in CallType /\ done.op = "replay" /\ done.sid \in Sessions /\ Named(c, done.sid) /\ CallFact(done)
        /\ toClient' = Put(c, ReplayFrames(done)) /\ toServer' = toServer
    BY <1>3, <2>1, CallSession DEF Finishes, ShapeInv, FactInv
  <2> DEFINE new == ReplayFrames(done)
             n == Len(done.missed)
  <2>3. new \in Seq(FrameType) /\ n \in Nat /\ DOMAIN new = 1..(n + 1)
    BY <2>2, ReplayedFrames
  <2>4. \A i \in 1..n : /\ new[i].op = "event" /\ new[i].sid = done.sid
                        /\ new[i].s = done.missed[i].seq /\ new[i].id = done.missed[i].id
    BY <2>2, ReplayedFrames
  <2>5. new[n + 1].op = "resumed" /\ new[n + 1].sid = done.sid /\ new[n + 1].id = done.upto
    BY <2>2, ReplayedFrames
  <2>6. Wrote(c, new) /\ c \in ConnOrNone
    BY <2>2, <2>3, PutWrites DEF ConnOrNone
  <2> HIDE DEF new, n
  <2>7. PICK k \in DOMAIN new : new[k] = f
    <3>1. OnClient(d, f)'
      BY <1>3, <2>2 DEF OnWire, OnServer
    <3> QED BY <1>3, <2>3, <2>6, <3>1, WroteFrames DEF OnWire
  <2>8. k \in 1..n \/ k = n + 1
    BY <2>3
  <2>9. f \in FrameType
    BY <2>3, <2>7, ElementOfSeq, LenProperties
  <2>10. FrameFact(f)
    <3>1. CASE k \in 1..n
      BY <2>2, <2>4, <2>7, <3>1 DEF FrameFact, CallFact, EventOps, n
    <3>2. CASE k = n + 1
      BY <2>2, <2>5, <2>7, <3>2 DEF FrameFact, CallFact, EventOps
    <3> QED BY <2>8, <3>1, <3>2
  <2>11. f.sid \in Sessions /\ Grown(f.sid)
    BY <2>2, <2>4, <2>5, <2>7, <2>8
  <2> QED BY <2>9, <2>10, <2>11, FrameGrows
<1> QED BY <1>1, <1>2, <1>3

\* The facts about frames after a step of the client.
LEMMA ClientFrameFacts ==
  ASSUME TypeOK, TypeOK', SwitchesOff, LinkInv, ShapeInv, FactInv, ClientKind,
         \A r \in Sessions : activeSessionId = r \/ (\E d \in Conns : Named(d, r)) => Grown(r),
         NEW d \in Conns, NEW f, OnWire(d, f)'
  PROVE  FrameFact(f)'
<1>1. CASE OnWire(d, f)
  BY <1>1, WireFact
<1>2. CASE f.op \notin NamingOps
  BY <1>2 DEF FrameFact, NamingOps, EventOps
<1>3. CASE f = Resume(activeSessionId, lastSequenceNumber) /\ activeSessionId # NoSession
  <2>1. activeSessionId \in Sessions /\ lastSequenceNumber \in Nat
    BY <1>3 DEF TypeOK, ClientTypeOK, SessionOrNone
  <2>2. f \in FrameType /\ f.op = "resume" /\ f.sid = activeSessionId
    BY <1>3, <2>1, PlainFrames DEF Resume, Frame, SessionOrNone
  <2>3. PICK s \in Sessions : s = activeSessionId
    BY <2>1
  <2>4. f.sid = s /\ Known(s) /\ Grown(s)
    BY <2>2, <2>3 DEF FactInv
  <2>5. FrameFact(f)
    BY <2>2, <2>4 DEF FrameFact, EventOps
  <2> QED BY <2>2, <2>4, <2>5, FrameGrows
<1> QED BY <1>1, <1>2, <1>3, ClientWire

\* Which steps change a call.
LEMMA CallChanges ==
  ASSUME TypeOK, SwitchesOff, [Next]_vars, NEW c \in Conns
  PROVE  call'[c] = call[c] \/ call'[c] = NoCall \/ Calls(c) \/ \E s \in Sessions : ServeResume(s, c)
<1> USE DEF conns, TypeOK, HandlerTypeOK
<1>1. ASSUME NEW s \in Sessions, SessionKind(s) PROVE call'[c] = call[c] \/ ServeResume(s, c)
  <2>1. ASSUME NEW d \in Conns, ServeResume(s, d), d # c PROVE call'[c] = call[c]
    BY <2>1, ServedCall
  <2> QED BY <1>1, <2>1 DEF SessionKind, Sends, Ends, Detaches
<1>2. ASSUME NEW d \in Conns, HandlerKind(d) PROVE call'[c] = call[c] \/ call'[c] = NoCall \/ Calls(c)
  BY <1>2 DEF HandlerKind, Closes, CloseWith, HandlerEnds, Refuses, Calls, Finishes, Acknowledges,
              HandlerSessionDown, Drop, Starts, handlerVars
<1>3. ClientKind => call' = call
  BY DEF ClientKind, Reconnect, Disconnect, ClientReceive, SendIdentify, SendHeartbeat, handlerVars
<1>4. Still => call' = call
  BY DEF Still
<1> QED BY <1>1, <1>2, <1>3, <1>4, StepKind

\* The facts about calls after any step.
LEMMA CallFacts ==
  ASSUME TypeOK, TypeOK', SwitchesOff, NumberInv, LinkInv, ShapeInv, BufferInv, FactInv, [Next]_vars,
         \A r \in Sessions : (\E d \in Conns : Named(d, r)) => Grown(r), NEW c \in Conns
  PROVE  CallFact(call[c])'
<1> USE DEF conns
<1>1. CASE call'[c] = call[c]
  BY <1>1, SameCallFact
<1>2. CASE call'[c] = NoCall
  BY <1>2 DEF CallFact, NoCall
<1>3. CASE Calls(c)
  <2>1. PICK f : f = toServer[c][1]
    OBVIOUS
  <2>2. f.op = "resume" /\ OnServer(c, f) /\ f.sid \in Sessions /\ Mentions(toServer[c], f.sid)
    BY <1>3, <2>1, CalledCall DEF ShapeInv
  <2>3. call'[c].op = "resume" /\ call'[c].sid = f.sid
    BY <1>3, <2>1, CalledCall DEF ShapeInv
  <2>4. Named(c, f.sid)
    BY <2>2 DEF Named, Refers
  <2>5. FrameFact(f)'
    BY <2>2, WireFact DEF OnWire
  <2>6. Known(f.sid)'
    BY <2>2, <2>5 DEF FrameFact
  <2> QED BY <2>3, <2>6 DEF CallFact
<1>4. ASSUME NEW s \in Sessions, ServeResume(s, c) PROVE CallFact(call[c])'
  <2>1. /\ alive[s] /\ call[c].op = "resume" /\ call[c].sid = s /\ call[c].s \in Nat
        /\ call'[c].sid = s
    BY <1>4, ServedCall
  <2>2. \/ call'[c].op = "invalid_seq"
        \/ /\ call'[c].op = "replay" /\ call'[c].upto = Len(log[s])
           /\ call'[c].missed = EventsAfter(buffer[s], call[c].s)
    BY <1>4, ServedCall
  <2>3. log' = log /\ Len(log[s]) \in Nat
    BY <1>4, SessionValues DEF ServeResume
  <2>4. Known(s)'
    <3>1. Named(c, s) /\ CallFact(call[c])
      BY <2>1 DEF Named, Refers, FactInv
    <3>2. Known(s)
      BY <2>1, <3>1 DEF CallFact
    <3> QED BY <3>1, <3>2, KnownGrows
  <2>5. CASE call'[c].op = "invalid_seq"
    BY <2>1, <2>4, <2>5 DEF CallFact
  <2>6. CASE call'[c].op = "replay"
    <3> DEFINE missed == EventsAfter(buffer[s], call[c].s)
    <3>1. \A i \in 1..Len(missed) : missed[i].seq = missed[i].id /\ missed[i].id \in 1..Len(log[s])
      BY <2>1, MissedFact
    <3> HIDE DEF missed
    <3>2. call'[c].missed = missed /\ call'[c].upto = Len(log[s])
      BY <2>2, <2>6 DEF missed
    <3> QED BY <2>1, <2>3, <2>4, <3>1, <3>2 DEF CallFact
  <2> QED BY <2>2, <2>5, <2>6
<1>5. call'[c] = call[c] \/ call'[c] = NoCall \/ Calls(c) \/ \E s \in Sessions : ServeResume(s, c)
  BY CallChanges
<1> QED BY <1>1, <1>2, <1>3, <1>4, <1>5

\* The session the client takes for its own has sent READY, and it got it.
LEMMA ActiveFacts ==
  ASSUME TypeOK, TypeOK', SwitchesOff, LinkInv, ShapeInv, FactInv, [Next]_vars, NEW s \in Sessions,
         activeSessionId' = s, activeSessionId = s \/ (\E d \in Conns : Named(d, s)) => Grown(s)
  PROVE  Known(s)'
<1>1. CASE activeSessionId = s
  BY <1>1, KnownGrows DEF FactInv
<1>2. CASE activeSessionId # s
  <2>1. s # NoSession
    BY SessionAssumption
  <2>2. /\ ClientReceive /\ OnDispatch(Head(toClient[socket]))
        /\ Head(toClient[socket]).op = "ready" /\ Head(toClient[socket]).sid = s
    <3>1. ClientKind
      <4>1. Still => activeSessionId' = activeSessionId
        BY DEF Still, client
      <4>2. \A r \in Sessions : SessionKind(r) => activeSessionId' = activeSessionId
        BY DEF SessionKind, Sends, Ends, Detaches, ServeResume, client, clientVars
      <4>3. \A c \in Conns : HandlerKind(c) => activeSessionId' = activeSessionId
        BY DEF HandlerKind, Closes, Refuses, Calls, Finishes, Acknowledges, HandlerSessionDown, Drop, Starts,
               client, clientVars
      <4> QED BY <1>2, <4>1, <4>2, <4>3, StepKind
    <3>2. ClientReceive
      BY <1>2, <2>1, <3>1 DEF ClientKind, Reconnect, ClearSession, Disconnect, SendIdentify, SendHeartbeat
    <3> QED BY <1>2, <2>1, <3>2 DEF ClientReceive, OnHello, OnDispatch, OnHeartbeatAck, OnInvalidSession, OnClose,
                                    ClearSession
  <2>3. PICK f : f = toClient[socket][1]
    OBVIOUS
  <2>4. /\ socket \in Conns /\ ConnShape(socket) /\ Head(toClient[socket]) = f
        /\ OnClient(socket, f) /\ f.op = "ready" /\ f.sid = s
    BY <2>2, <2>3, TakenQueue DEF OnClient
  <2>5. f \in FrameType /\ FrameFact(f)
    BY <2>4, WireFrame DEF OnWire, FactInv
  <2>6. ~ready[s] /\ \A id \in 1..Len(log[s]) : log[s][id].kept \/ id = f.id
    BY <2>4, <2>5 DEF FrameFact
  <2>7. applied' = [applied EXCEPT ![f.sid] = @ \cup {f.id}] /\ UNCHANGED <<log, ready>>
    BY <2>2, <2>4 DEF OnDispatch, ClientReceive, sessionVars
  <2>8. f.id \in applied'[s]
    BY <2>4, <2>7 DEF TypeOK, ClientTypeOK
  <2> QED BY <2>6, <2>7, <2>8 DEF Known
<1> QED BY <1>1, <1>2

\* No step breaks FactInv.
LEMMA FactStep ==
  ASSUME TypeOK, TypeOK', SwitchesOff, NumberInv, LinkInv, ShapeInv, BufferInv, FactInv, [Next]_vars
  PROVE  FactInv'
<1>1. \A s \in Sessions : activeSessionId = s \/ (\E c \in Conns : Named(c, s)) => Grown(s)
  BY NamedGrows
<1>2. ASSUME NEW c \in Conns, NEW f \in FrameType, OnWire(c, f)' PROVE FrameFact(f)'
  <2>1. CASE Still
    <3>1. OnWire(c, f)
      BY <1>2, <2>1 DEF Still, conns, OnWire, OnClient, OnServer
    <3> QED BY <1>1, <3>1, WireFact
  <2> QED BY <1>1, <1>2, <2>1, StepKind, SessionFrameFacts, HandlerFrameFacts, ClientFrameFacts
<1>3. \A c \in Conns : CallFact(call[c])'
  BY <1>1, CallFacts
<1>4. \A s \in Sessions : activeSessionId' = s => Known(s)'
  BY <1>1, ActiveFacts
<1> QED BY <1>2, <1>3, <1>4 DEF FactInv

\* What a frame, a call or the client says of a session is true of its log: events
\* carry their places as numbers, and a session that somebody names for a resume
\* has sent the one event that is not buffered.
THEOREM FactInvariant == ASSUME SwitchesOff PROVE Spec => []FactInv
<1>1. Init => FactInv
  <2> SUFFICES ASSUME Init PROVE FactInv
    OBVIOUS
  <2>1. \A c \in Conns : toClient[c] = <<>> /\ toServer[c] = <<>> /\ call[c] = NoCall
    BY DEF Init
  <2>2. DOMAIN <<>> = {}
    OBVIOUS
  <2>3. \A c \in Conns, f \in FrameType : ~OnWire(c, f)
    BY <2>1, <2>2 DEF OnWire, OnClient, OnServer
  <2>4. CallFact(NoCall)
    BY DEF CallFact, NoCall
  <2>5. \A s \in Sessions : activeSessionId # s
    BY SessionAssumption DEF Init
  <2> QED BY <2>1, <2>3, <2>4, <2>5 DEF FactInv
<1>2. TypeOK /\ TypeOK' /\ NumberInv /\ LinkInv /\ ShapeInv /\ BufferInv /\ FactInv /\ [Next]_vars => FactInv'
  BY FactStep
<1> QED BY <1>1, <1>2, TypeCorrect, NumberInvariant, LinkInvariant, ShapeInvariant, BufferAlwaysSound, PTL DEF Spec

-----------------------------------------------------------------------------
(* What has been said of the sequence numbers is good.                     *)

\* Event id of session s has been applied, or is among the first n frames of q.
Reaches(s, id, q, n) ==
  id \in applied[s] \/ \E k \in DOMAIN q : k <= n /\ q[k].op \in EventOps /\ q[k].sid = s /\ q[k].id = id

\* A replay may still follow the i-th frame.
Late(c, i) == call[c].op = "replay" \/ \E k \in DOMAIN toClient[c] : k >= i /\ toClient[c][k].op = "resumed"

\* A call names a number the client stands by, and what it brings is the rest.
CallGood(done) ==
  /\ done.op # "none" => done.op # "invalid_seq" /\ Good(done.s, done.sid)
  /\ done.op = "replay" =>
       \A id \in 1..done.upto : id \in applied[done.sid] \/ \E i \in 1..Len(done.missed) : done.missed[i].id = id

\* RESUMED, and an event that no replay can follow, come after all before them.
FrameGap(c, i) ==
  LET f == toClient[c][i]
  IN  f.op = "resumed" \/ (f.op \in EventOps /\ ~Late(c, i)) =>
        \A id \in 1..f.id : Reaches(f.sid, id, toClient[c], i)

\* What the session of an open connection has logged is on its way.
SessionGap(c, s) ==
  socket_pid[s] = c /\ link[c] =>
    \A id \in 1..Len(log[s]) :
      \/ Reaches(s, id, toClient[c], Len(toClient[c]))
      \/ call[c].op = "replay" /\ id <= call[c].upto

\* An event that overtook another is followed by RESUMED.
Ordered(c) ==
  \A i, j \in DOMAIN toClient[c] :
    LET a == toClient[c][i]
        b == toClient[c][j]
    IN  i < j /\ a.op \in EventOps /\ b.op \in EventOps /\ a.sid = b.sid /\ a.s > b.s
          => \E k \in DOMAIN toClient[c] : k >= j /\ toClient[c][k].op = "resumed"

GapOK(c) ==
  /\ \A i \in DOMAIN toClient[c] : FrameGap(c, i)
  /\ \A s \in Sessions : SessionGap(c, s)
  /\ Ordered(c)

GoodInv ==
  /\ \A c \in Conns :
       /\ CallGood(call[c]) /\ GapOK(c)
       /\ \A f \in FrameType, s \in Sessions :
            OnServer(c, f) /\ f.op # "identify" /\ Refers(c, s) => Good(f.s, s)
       /\ c = socket => \A s \in Sessions : Named(c, s) => Good(lastSequenceNumber, s)
  /\ \A s \in Sessions : alive[s] => Good(ack_seq[s], s)
  /\ \A s \in Sessions : activeSessionId = s => Good(lastSequenceNumber, s)

-----------------------------------------------------------------------------
(* Queues: what still reaches the client.                                  *)

\* An event that reaches the client still does when frames are added,
LEMMA LongerReaches ==
  ASSUME NEW q \in Seq(FrameType), NEW new \in Seq(FrameType), NEW t, t = q \o new,
         NEW s \in Sessions, applied[s] \subseteq applied'[s], NEW id, NEW n \in Nat, NEW m \in Nat, n <= m,
         Reaches(s, id, q, n)
  PROVE  Reaches(s, id, t, m)'
<1>1. \A k \in DOMAIN q : k \in Nat /\ k \in DOMAIN t /\ t[k] = q[k]
  BY ConcatFrames
<1>2. \A k \in DOMAIN q : k <= n => k <= m
  BY <1>1
<1> QED BY <1>1, <1>2 DEF Reaches

\* when the queue is left,
LEMMA SameReaches ==
  ASSUME NEW q \in Seq(FrameType), NEW s \in Sessions, applied[s] \subseteq applied'[s], NEW id, NEW n, Reaches(s, id, q, n)
  PROVE  Reaches(s, id, q, n)'
BY DEF Reaches

\* and when the client takes a frame and applies it.
LEMMA TailReaches ==
  ASSUME NEW q \in Seq(FrameType), q # <<>>, NEW t, t = Tail(q), NEW s \in Sessions,
         applied[s] \subseteq applied'[s], q[1].op \in EventOps /\ q[1].sid = s => q[1].id \in applied'[s],
         NEW id, NEW n \in Nat, Reaches(s, id, q, n + 1)
  PROVE  Reaches(s, id, t, n)'
<1>1. \A k \in DOMAIN q : k \in Nat /\ (k = 1 \/ (k > 1 /\ k - 1 \in DOMAIN t /\ q[k] = t[k - 1]))
  BY TailFrames
<1>2. CASE id \in applied[s]
  BY <1>2 DEF Reaches
<1>3. ASSUME NEW k \in DOMAIN q, k <= n + 1, q[k].op \in EventOps, q[k].sid = s, q[k].id = id
      PROVE  Reaches(s, id, t, n)'
  <2>1. CASE k = 1
    BY <1>3, <2>1 DEF Reaches
  <2>2. CASE k # 1
    <3>1. k - 1 \in DOMAIN t /\ q[k] = t[k - 1] /\ k - 1 <= n
      BY <1>1, <1>3, <2>2
    <3> QED BY <1>3, <3>1 DEF Reaches
  <2> QED BY <2>1, <2>2
<1> QED BY <1>2, <1>3 DEF Reaches

\* A frame that is not of a session leaves no gap.
LEMMA EmptiedGap ==
  ASSUME NEW c \in Conns, \A i \in DOMAIN toClient'[c] : toClient'[c][i].op \notin SessionOps,
         \A s \in Sessions : ~(socket_pid'[s] = c /\ link'[c])
  PROVE  GapOK(c)'
<1>1. \A i \in DOMAIN toClient'[c] : toClient'[c][i].op # "resumed" /\ toClient'[c][i].op \notin EventOps
  BY DEF SessionOps, EventOps
<1>2. \A i \in DOMAIN toClient'[c] : FrameGap(c, i)'
  BY <1>1 DEF FrameGap
<1>3. \A s \in Sessions : SessionGap(c, s)'
  BY DEF SessionGap
<1>4. Ordered(c)'
  BY <1>1 DEF Ordered
<1> QED BY <1>2, <1>3, <1>4 DEF GapOK

\* A queue that got no frame of a session, on a connection whose call, if it is
\* to bring a replay, still is.
LEMMA PlainGap ==
  ASSUME TypeOK, TypeOK', NEW c \in Conns, ConnShape(c), GapOK(c), NEW new \in Seq(FrameType),
         \A k \in DOMAIN new : new[k].op \notin SessionOps,
         toClient'[c] = toClient[c] \/ toClient'[c] = toClient[c] \o new,
         call[c].op = "replay" => call'[c].op = "replay" /\ call'[c].upto = call[c].upto,
         \A s \in Sessions : Named(c, s) \/ socket_pid[s] = c => applied[s] \subseteq applied'[s],
         \A s \in Sessions : socket_pid'[s] = c /\ link'[c] =>
           \/ socket_pid[s] = c /\ link[c] /\ log'[s] = log[s]
           \/ call'[c].op = "replay" /\ call'[c].upto = Len(log'[s])
           \/ Len(log'[s]) = 0
  PROVE  GapOK(c)'
<1>1. PICK q, t : q = toClient[c] /\ t = toClient'[c]
  OBVIOUS
<1>2. q \in Seq(FrameType) /\ t \in Seq(FrameType) /\ (t = q \/ t = q \o new)
  BY <1>1 DEF TypeOK, WireTypeOK
<1>3. /\ \A i \in DOMAIN q : i \in DOMAIN t /\ t[i] = q[i] /\ i \in Nat
      /\ \A i \in DOMAIN t : i \in DOMAIN q \/ t[i].op \notin SessionOps
      /\ Len(q) \in Nat /\ Len(t) \in Nat /\ Len(q) <= Len(t)
  <2>1. DOMAIN q = 1..Len(q) /\ Len(q) \in Nat /\ Len(t) \in Nat
    BY <1>2, LenProperties
  <2>2. CASE t = q
    BY <2>1, <2>2
  <2>3. CASE t = q \o new
    <3>1. Len(t) = Len(q) + Len(new) /\ Len(new) \in Nat
      BY <1>2, <2>3, ExtendedFrames
    <3>2. \A i \in DOMAIN q : i \in DOMAIN t /\ t[i] = q[i]
      BY <1>2, <2>3, ExtendedFrames
    <3>3. \A k \in DOMAIN new : t[Len(q) + k] = new[k]
      BY <1>2, <2>3, ExtendedFrames
    <3>4. \A i \in DOMAIN (q \o new) : i \in DOMAIN q \/ \E k \in DOMAIN new : i = Len(q) + k
      BY <1>2, ConcatFrames
    <3> QED BY <2>1, <2>3, <3>1, <3>2, <3>3, <3>4
  <2> QED BY <1>2, <2>2, <2>3
<1>4. \A s \in Sessions, n \in Nat : \A id :
        Reaches(s, id, q, n) /\ (Named(c, s) \/ socket_pid[s] = c) =>
          Reaches(s, id, t, n)' /\ (n = Len(q) => Reaches(s, id, t, Len(t))')
  <2> SUFFICES ASSUME NEW s \in Sessions, NEW id, NEW n \in Nat, Reaches(s, id, q, n), Named(c, s) \/ socket_pid[s] = c
               PROVE  Reaches(s, id, t, n)' /\ (n = Len(q) => Reaches(s, id, t, Len(t))')
    OBVIOUS
  <2>1. applied[s] \subseteq applied'[s]
    OBVIOUS
  <2>2. CASE t = q
    <3>1. Reaches(s, id, q, n)'
      BY <1>2, <2>1, SameReaches
    <3> QED BY <2>2, <3>1
  <2>3. CASE t = q \o new
    <3>0. n <= n
      OBVIOUS
    <3>1. Reaches(s, id, t, n)'
      BY <1>2, <2>1, <2>3, <3>0, LongerReaches
    <3>2. n = Len(q) => Reaches(s, id, t, Len(t))'
      BY <1>2, <1>3, <2>1, <2>3, LongerReaches
    <3> QED BY <3>1, <3>2
  <2> QED BY <1>2, <2>2, <2>3
<1>5. ASSUME NEW i \in DOMAIN t PROVE FrameGap(c, i)'
  <2>1. CASE i \notin DOMAIN q
    BY <1>1, <1>3, <1>5, <2>1 DEF FrameGap, SessionOps, EventOps
  <2>2. CASE i \in DOMAIN q
    <3>1. PICK f : f = q[i]
      OBVIOUS
    <3>2. t[i] = f /\ i \in Nat /\ FrameGap(c, i)
      BY <1>1, <1>3, <2>2, <3>1 DEF GapOK
    <3>3. OnWire(c, f)
      BY <1>1, <2>2, <3>1 DEF OnWire, OnClient
    <3>4. Late(c, i) => Late(c, i)'
      BY <1>1, <1>3 DEF Late
    <3>5. CASE f.op \in NamingOps
      <4>1. f.sid \in Sessions /\ Named(c, f.sid)
        BY <3>3, <3>5, WireFrame
      <4>2. f.op = "resumed" \/ (f.op \in EventOps /\ ~Late(c, i)) => \A id \in 1..f.id : Reaches(f.sid, id, q, i)
        BY <1>1, <3>1, <3>2 DEF FrameGap
      <4>3. \A id : Reaches(f.sid, id, q, i) => Reaches(f.sid, id, t, i)'
        BY <1>4, <3>2, <4>1
      <4> QED BY <1>1, <3>2, <3>4, <4>2, <4>3 DEF FrameGap
    <3>6. CASE f.op \notin NamingOps
      <4>1. f.op # "resumed" /\ f.op \notin EventOps
        BY <3>6 DEF NamingOps, EventOps
      <4> QED BY <1>1, <3>2, <4>1 DEF FrameGap
    <3> QED BY <3>5, <3>6
  <2> QED BY <2>1, <2>2
<1>6. ASSUME NEW s \in Sessions PROVE SessionGap(c, s)'
  <2>1. CASE socket_pid[s] = c /\ link[c] /\ log'[s] = log[s]
    <3>1. \A id \in 1..Len(log[s]) : Reaches(s, id, q, Len(q)) \/ (call[c].op = "replay" /\ id <= call[c].upto)
      BY <1>1, <2>1 DEF GapOK, SessionGap
    <3>2. \A id : Reaches(s, id, q, Len(q)) => Reaches(s, id, t, Len(t))'
      BY <1>3, <1>4, <2>1
    <3> QED BY <1>1, <2>1, <3>1, <3>2 DEF SessionGap
  <2>2. CASE call'[c].op = "replay" /\ call'[c].upto = Len(log'[s])
    <3>1. Len(log'[s]) \in Nat
      BY LenProperties DEF TypeOK, SessionTypeOK
    <3> QED BY <2>2, <3>1 DEF SessionGap
  <2>3. CASE ~(socket_pid'[s] = c /\ link'[c])
    BY <2>3 DEF SessionGap
  <2>4. CASE Len(log'[s]) = 0
    BY <2>4 DEF SessionGap
  <2> QED BY <2>1, <2>2, <2>3, <2>4
<1>7. Ordered(c)'
  <2> SUFFICES ASSUME NEW i \in DOMAIN t, NEW j \in DOMAIN t, i < j, t[i].op \in EventOps, t[j].op \in EventOps,
                      t[i].sid = t[j].sid, t[i].s > t[j].s
               PROVE  \E k \in DOMAIN t : k >= j /\ t[k].op = "resumed"
    BY <1>1 DEF Ordered
  <2>1. i \in DOMAIN q /\ j \in DOMAIN q /\ t[i] = q[i] /\ t[j] = q[j]
    BY <1>3 DEF SessionOps, EventOps
  <2>2. \E k \in DOMAIN q : k >= j /\ q[k].op = "resumed"
    BY <1>1, <2>1 DEF GapOK, Ordered
  <2> QED BY <1>3, <2>2
<1> QED BY <1>1, <1>5, <1>6, <1>7 DEF GapOK

\* A session's new event comes after all it has logged.
LEMMA SendsGap ==
  ASSUME TypeOK, TypeOK', NumberInv, LinkInv, ShapeInv, FactInv, GoodInv, NEW s \in Sessions, NEW op \in EventOps,
         Sends(s, op), NEW c \in Conns, socket_pid[s] = c, link[c]
  PROVE  GapOK(c)'
<1> USE DEF conns, client
<1> DEFINE g == Frame(op, s, seq[s] + 1, Len(log[s]) + 1)
<1>1. /\ <<g>> \in Seq(FrameType) /\ DOMAIN <<g>> = {1} /\ <<g>>[1] = g
      /\ g.op = op /\ g.sid = s /\ g.s = seq[s] + 1 /\ g.id = Len(log[s]) + 1
      /\ Wrote(c, <<g>>)
  BY SendsWrites
<1>2. /\ Len(log'[s]) = Len(log[s]) + 1 /\ seq[s] = Len(log[s]) /\ Len(log[s]) \in Nat
      /\ \A r \in Sessions : r # s => log'[r] = log[r]
  <2>1. /\ Len(log'[s]) = Len(log[s]) + 1 /\ seq[s] = Len(log[s])
    BY SendsGrows
  <2>2. \A r \in Sessions : r # s => log'[r] = log[r]
    BY DEF Sends, Logs, TypeOK, SessionTypeOK
  <2> QED BY <2>1, <2>2, SessionValues
<1> HIDE DEF g
<1>3. PICK q, t : q = toClient[c] /\ t = toClient'[c]
  OBVIOUS
<1>4. q \in Seq(FrameType) /\ t = q \o <<g>>
  BY <1>1, <1>3 DEF TypeOK, WireTypeOK, Wrote
<1> DEFINE n == Len(q)
<1>5. /\ n \in Nat /\ DOMAIN q = 1..n /\ Len(t) = n + 1 /\ DOMAIN t = 1..(n + 1)
      /\ \A i \in 1..n : t[i] = q[i]
      /\ t[n + 1] = g
  <2> DEFINE new == <<g>>
  <2>1. new \in Seq(FrameType) /\ DOMAIN new = {1} /\ new[1] = g /\ Len(new) = 1
    BY <1>1
  <2> HIDE DEF new
  <2>2. t = q \o new
    BY <1>4 DEF new
  <2>3. Len(t) = Len(q) + Len(new) /\ Len(q) \in Nat /\ DOMAIN q = 1..Len(q) /\ t \in Seq(FrameType)
    BY <1>4, <2>1, <2>2, ExtendedFrames
  <2>4. \A i \in DOMAIN q : t[i] = q[i]
    BY <1>4, <2>1, <2>2, ExtendedFrames
  <2>5. \A k \in DOMAIN new : t[Len(q) + k] = new[k]
    BY <1>4, <2>1, <2>2, ExtendedFrames
  <2>6. DOMAIN t = 1..Len(t)
    BY <2>3, LenProperties
  <2> QED BY <2>1, <2>3, <2>4, <2>5, <2>6
<1>6. UNCHANGED <<applied, call, link, socket_pid>> /\ op # "resumed"
  BY DEF Sends, EventOps
<1> HIDE DEF n
<1>7. \A r \in Sessions : \A id : \A m \in Nat : Reaches(r, id, q, m) => Reaches(r, id, t, m)' /\ (m = n => Reaches(r, id, t, n + 1)')
  <2> SUFFICES ASSUME NEW r \in Sessions, NEW id, NEW m \in Nat, Reaches(r, id, q, m)
               PROVE  Reaches(r, id, t, m)' /\ (m = n => Reaches(r, id, t, n + 1)')
    OBVIOUS
  <2>1. applied[r] \subseteq applied'[r] /\ m <= m /\ (m = n => m <= n + 1) /\ n + 1 \in Nat
    BY <1>5, <1>6
  <2>2. Reaches(r, id, t, m)'
    BY <1>1, <1>4, <2>1, LongerReaches
  <2>3. m = n => Reaches(r, id, t, n + 1)'
    BY <1>1, <1>4, <2>1, LongerReaches
  <2> QED BY <2>2, <2>3
<1>8. PICK new : new = Len(log[s]) + 1
  OBVIOUS
<1>81. Reaches(s, new, t, n + 1)'
  <2>1. n + 1 \in DOMAIN t /\ n + 1 <= n + 1 /\ t[n + 1].op \in EventOps /\ t[n + 1].sid = s /\ t[n + 1].id = new
    BY <1>1, <1>5, <1>8
  <2> QED BY <2>1 DEF Reaches
<1>9. GapOK(c) /\ ConnShape(c)
  BY DEF GoodInv, ShapeInv
<1>10. ASSUME NEW r \in Sessions, NEW id \in 1..Len(log'[r]), socket_pid[r] = c
       PROVE  Reaches(r, id, t, n + 1)' \/ (call[c].op = "replay" /\ id <= call[c].upto)
  <2>1. CASE id \in 1..Len(log[r])
    <3>1. Reaches(r, id, q, n) \/ (call[c].op = "replay" /\ id <= call[c].upto)
      BY <1>3, <1>9, <1>10, <2>1 DEF GapOK, SessionGap, n
    <3> QED BY <1>5, <1>7, <3>1
  <2>2. CASE id \notin 1..Len(log[r])
    <3>1. r = s /\ id = new
      BY <1>2, <1>8, <1>10, <2>2
    <3> QED BY <1>81, <3>1
  <2> QED BY <2>1, <2>2
<1>11. ASSUME NEW i \in DOMAIN t PROVE FrameGap(c, i)'
  <2>1. CASE i \in 1..n
    <3>1. PICK f : f = q[i]
      OBVIOUS
    <3>2. t[i] = f /\ i \in Nat /\ FrameGap(c, i) /\ i \in DOMAIN q
      BY <1>3, <1>5, <1>9, <2>1, <3>1 DEF GapOK
    <3>3. OnWire(c, f)
      BY <1>3, <3>1, <3>2 DEF OnWire, OnClient
    <3>4. Late(c, i) => Late(c, i)'
      BY <1>3, <1>5, <1>6 DEF Late
    <3>5. CASE f.op \in NamingOps
      <4>1. f.sid \in Sessions
        BY <1>9, <3>3, <3>5, WireFrame
      <4>2. f.op = "resumed" \/ (f.op \in EventOps /\ ~Late(c, i)) => \A id \in 1..f.id : Reaches(f.sid, id, q, i)
        BY <1>3, <3>1, <3>2 DEF FrameGap
      <4>3. \A id : Reaches(f.sid, id, q, i) => Reaches(f.sid, id, t, i)'
        BY <1>7, <3>2, <4>1
      <4> QED BY <1>3, <3>2, <3>4, <4>2, <4>3 DEF FrameGap
    <3>6. CASE f.op \notin NamingOps
      <4>1. f.op # "resumed" /\ f.op \notin EventOps
        BY <3>6 DEF NamingOps, EventOps
      <4> QED BY <1>3, <3>2, <4>1 DEF FrameGap
    <3> QED BY <3>5, <3>6
  <2>2. CASE i = n + 1
    <3>1. ~Late(c, i)' => call[c].op # "replay"
      BY <1>6 DEF Late
    <3>2. call[c].op # "replay" => \A id \in 1..Len(log'[s]) : Reaches(s, id, t, n + 1)'
      BY <1>10
    <3>3. t[i] = g /\ g.op # "resumed" /\ g.sid = s /\ g.id = Len(log'[s])
      BY <1>1, <1>2, <1>5, <1>6, <2>2
    <3> QED BY <1>3, <2>2, <3>1, <3>2, <3>3 DEF FrameGap
  <2> QED BY <1>5, <1>11, <2>1, <2>2
<1>12. \A r \in Sessions : SessionGap(c, r)'
  <2> SUFFICES ASSUME NEW r \in Sessions, socket_pid'[r] = c PROVE SessionGap(c, r)'
    BY DEF SessionGap
  <2>1. socket_pid[r] = c
    BY <1>6
  <2>2. \A id \in 1..Len(log'[r]) : Reaches(r, id, t, n + 1)' \/ (call[c].op = "replay" /\ id <= call[c].upto)
    BY <1>10, <2>1
  <2>3. Len(t) = n + 1 /\ call' = call
    BY <1>5, <1>6
  <2> QED BY <1>3, <2>2, <2>3 DEF SessionGap
<1>13. Ordered(c)'
  <2> SUFFICES ASSUME NEW i \in DOMAIN t, NEW j \in DOMAIN t, i < j, t[i].op \in EventOps, t[j].op \in EventOps,
                      t[i].sid = t[j].sid, t[i].s > t[j].s
               PROVE  \E k \in DOMAIN t : k >= j /\ t[k].op = "resumed"
    BY <1>3 DEF Ordered
  <2>1. i \in 1..n
    BY <1>5
  <2>2. CASE j \in 1..n
    <3>1. \E k \in DOMAIN q : k >= j /\ q[k].op = "resumed"
      BY <1>3, <1>5, <1>9, <2>1, <2>2 DEF GapOK, Ordered
    <3> QED BY <1>5, <3>1
  <2>3. CASE j = n + 1
    <3>1. PICK f : f = q[i]
      OBVIOUS
    <3>2. f = t[i] /\ OnWire(c, f) /\ f \in FrameType
      BY <1>3, <1>4, <1>5, <2>1, <3>1, ElementOfSeq DEF OnWire, OnClient, n
    <3>3. FrameFact(f) /\ f.sid = s
      BY <1>1, <1>5, <2>3, <3>2 DEF FactInv
    <3>4. f.s = f.id /\ f.id \in 1..Len(log[s])
      BY <3>2, <3>3 DEF FrameFact
    <3>5. t[j].s = Len(log[s]) + 1
      BY <1>1, <1>2, <1>5, <2>3
    <3> QED BY <1>2, <3>2, <3>4, <3>5
  <2> QED BY <1>5, <2>2, <2>3
<1> QED BY <1>3, <1>11, <1>12, <1>13 DEF GapOK
\* The replay, and RESUMED after it, close every gap.
LEMMA FinishesGap ==
  ASSUME TypeOK, TypeOK', LinkInv, ShapeInv, GoodInv, NEW c \in Conns, Finishes(c)
  PROVE  GapOK(c)'
<1> USE DEF client, sessions
<1>1. PICK done : done = call[c]
  OBVIOUS
<1>2. PICK new : new = ReplayFrames(done)
  OBVIOUS
<1>3. /\ done \in CallType /\ new \in Seq(FrameType) /\ Len(done.missed) \in Nat
      /\ handler[c] /\ done.op = "replay" /\ Wrote(c, new)
      /\ UNCHANGED <<applied, log, link, socket_pid>> /\ done.upto \in Nat
  <2>1. done \in CallType
    BY <1>1, CallSession DEF ShapeInv
  <2>2. new \in Seq(FrameType) /\ Len(done.missed) \in Nat
    BY <1>2, <2>1, ReplayedFrames
  <2>3. toClient' = Put(c, new)
    BY <1>1, <1>2 DEF Finishes
  <2>4. Wrote(c, new)
    BY <2>2, <2>3, PutWrites
  <2>5. done.upto \in Nat
    BY <2>1 DEF CallType
  <2>6. handler[c] /\ done.op = "replay" /\ UNCHANGED <<applied, log, link, socket_pid>>
    BY <1>1 DEF Finishes
  <2> QED BY <2>1, <2>2, <2>4, <2>5, <2>6
<1>4. GapOK(c) /\ ConnShape(c) /\ CallGood(done) /\ LinkOK(c) /\ InCall(c)
  <2>1. GapOK(c) /\ CallGood(call[c])
    BY DEF GoodInv
  <2>2. ConnShape(c) /\ LinkOK(c)
    BY DEF ShapeInv, LinkInv
  <2>3. InCall(c)
    BY <1>1, <1>3 DEF InCall
  <2> QED BY <1>1, <2>1, <2>2, <2>3
<1>5. CASE ~link[c]
  <2>1. toClient'[c] = toClient[c]
    BY <1>3, <1>5 DEF Wrote
  <2>2. \A i \in DOMAIN toClient[c] : toClient[c][i].op = "close"
    BY <1>3, <1>4, <1>5 DEF LinkOK
  <2>3. \A i \in DOMAIN toClient'[c] : toClient'[c][i].op \notin SessionOps
    BY <2>1, <2>2 DEF SessionOps
  <2> QED BY <1>3, <1>5, <2>3, EmptiedGap
<1>6. CASE link[c]
  <2>1. PICK q, t : q = toClient[c] /\ t = toClient'[c]
    OBVIOUS
  <2>2. q \in Seq(FrameType) /\ t = q \o new
    BY <1>3, <1>6, <2>1 DEF TypeOK, WireTypeOK, Wrote
  <2>3. PICK n, m : n = Len(q) /\ m = Len(done.missed)
    OBVIOUS
  <2>4. /\ n \in Nat /\ m \in Nat /\ DOMAIN q = 1..n /\ DOMAIN t = 1..(n + m + 1) /\ Len(t) = n + m + 1
        /\ \A i \in 1..n : t[i] = q[i]
    <3>0. DOMAIN new = 1..(m + 1)
      BY <1>2, <1>3, <2>3, ReplayedFrames
    <3>1. n \in Nat /\ DOMAIN q = 1..n
      BY <1>3, <2>2, <2>3, ExtendedFrames
    <3>2. t \in Seq(FrameType) /\ Len(t) = n + Len(new) /\ DOMAIN new = 1..Len(new) /\ Len(new) \in Nat
      BY <1>3, <2>2, <2>3, ExtendedFrames
    <3>3. m \in Nat /\ Len(new) = m + 1
      BY <1>3, <2>3, <3>0, <3>2, LenProperties
    <3>4. DOMAIN t = 1..Len(t)
      BY <3>2, LenProperties
    <3>5. \A i \in DOMAIN q : t[i] = q[i]
      BY <1>3, <2>2, ExtendedFrames
    <3> QED BY <3>1, <3>2, <3>3, <3>4, <3>5
  <2>5. /\ \A k \in 1..m : LET f == t[n + k]
                           IN  f.op = "event" /\ f.sid = done.sid /\ f.id = done.missed[k].id
        /\ LET f == t[n + m + 1] IN f.op = "resumed" /\ f.sid = done.sid /\ f.id = done.upto
    <3>1. DOMAIN new = 1..(m + 1)
      BY <1>2, <1>3, <2>3, ReplayedFrames
    <3>2. \A k \in DOMAIN new : t[n + k] = new[k]
      BY <1>3, <2>2, <2>3, ExtendedFrames
    <3>3. \A k \in 1..m : new[k].op = "event" /\ new[k].sid = done.sid /\ new[k].id = done.missed[k].id
      BY <1>2, <1>3, <2>3, ReplayedFrames
    <3>4. new[m + 1].op = "resumed" /\ new[m + 1].sid = done.sid /\ new[m + 1].id = done.upto
      BY <1>2, <1>3, <2>3, ReplayedFrames
    <3>5. t[n + (m + 1)] = new[m + 1] /\ n + (m + 1) = n + m + 1
      <4>1. m + 1 \in 1..(m + 1) /\ n + (m + 1) = n + m + 1
        BY <2>4
      <4> QED BY <3>1, <3>2, <4>1
    <3>6. \A k \in 1..m : t[n + k] = new[k]
      <4>1. \A k \in 1..m : k \in 1..(m + 1)
        BY <2>4
      <4> QED BY <3>1, <3>2, <4>1
    <3> QED BY <3>3, <3>4, <3>5, <3>6
  <2>6. \A id \in 1..done.upto : Reaches(done.sid, id, t, n + m + 1)'
    <3> SUFFICES ASSUME NEW id \in 1..done.upto PROVE Reaches(done.sid, id, t, n + m + 1)'
      OBVIOUS
    <3>1. id \in applied[done.sid] \/ \E k \in 1..m : done.missed[k].id = id
      BY <1>3, <1>4, <2>3 DEF CallGood
    <3>2. CASE id \in applied[done.sid]
      BY <1>3, <3>2 DEF Reaches
    <3>3. ASSUME NEW k \in 1..m, done.missed[k].id = id PROVE Reaches(done.sid, id, t, n + m + 1)'
      <4>1. n + k \in DOMAIN t /\ n + k <= n + m + 1 /\ t[n + k].op \in EventOps /\ t[n + k].sid = done.sid /\ t[n + k].id = id
        BY <2>4, <2>5, <3>3 DEF EventOps
      <4> QED BY <4>1 DEF Reaches
    <3> QED BY <3>1, <3>2, <3>3
  <2>7. \A i \in DOMAIN t : Late(c, i)'
    <3>1. n + m + 1 \in DOMAIN t /\ t[n + m + 1].op = "resumed" /\ \A i \in DOMAIN t : n + m + 1 >= i
      BY <2>4, <2>5
    <3> QED BY <2>1, <3>1 DEF Late
  <2>8. ~Has(q, "resumed")
    BY <1>4, <2>1 DEF ConnShape, Phases, Answered
  <2>9. ASSUME NEW i \in DOMAIN t PROVE FrameGap(c, i)'
    <3>1. CASE t[i].op # "resumed"
      BY <2>1, <2>7, <3>1 DEF FrameGap
    <3>2. CASE t[i].op = "resumed"
      <4>1. i = n + m + 1
        <5>1. i \notin 1..n
          BY <2>4, <2>8, <3>2 DEF Has
        <5>2. i \in 1..(n + m) => \E k \in 1..m : i = n + k
          <6> SUFFICES ASSUME i \in 1..(n + m) PROVE i - n \in 1..m /\ i = n + (i - n)
            OBVIOUS
          <6> QED BY <2>4, <5>1
        <5>3. i \notin 1..(n + m)
          BY <2>5, <3>2, <5>2
        <5> QED BY <2>4, <5>3
      <4>2. t[i].sid = done.sid /\ t[i].id = done.upto
        BY <2>5, <4>1
      <4> QED BY <2>1, <2>6, <4>1, <4>2 DEF FrameGap
    <3> QED BY <3>1, <3>2
  <2>10. ASSUME NEW r \in Sessions PROVE SessionGap(c, r)'
    <3> SUFFICES ASSUME socket_pid[r] = c PROVE SessionGap(c, r)'
      BY <1>3 DEF SessionGap
    <3>1. r = done.sid
      <4>1. session_pid[c] = r \/ call[c].sid = r
        BY <1>3, <1>4 DEF ConnShape
      <4>2. session_pid[c] = NoSession /\ NoSession # r
        BY <1>4, SessionAssumption DEF ConnShape, Phases, Serves
      <4> QED BY <1>1, <4>1, <4>2
    <3>2. \A id \in 1..Len(log[r]) : Reaches(r, id, q, n) \/ id <= done.upto
      BY <1>1, <1>4, <1>6, <2>1, <2>3 DEF GapOK, SessionGap
    <3>3. n + m + 1 \in Nat /\ n <= n + m + 1
      BY <2>4
    <3>4. \A id : Reaches(r, id, q, n) => Reaches(r, id, t, n + m + 1)'
      <4> SUFFICES ASSUME NEW id, Reaches(r, id, q, n) PROVE Reaches(r, id, t, n + m + 1)'
        OBVIOUS
      <4> DEFINE l == n + m + 1
      <4>1. l \in Nat /\ n <= l /\ l = n + m + 1
        BY <3>3
      <4> HIDE DEF l
      <4>2. Reaches(r, id, t, l)'
        BY <1>3, <2>2, <2>4, <4>1, LongerReaches
      <4> QED BY <4>1, <4>2 DEF Reaches
    <3>5. \A id \in 1..Len(log[r]) : id <= done.upto => id \in 1..done.upto
      BY <1>3, SessionValues
    <3>6. \A id \in 1..Len(log[r]) : Reaches(r, id, t, n + m + 1)'
      BY <2>6, <3>1, <3>2, <3>4, <3>5
    <3> QED BY <1>3, <2>1, <2>4, <3>6 DEF SessionGap
  <2>11. Ordered(c)'
    <3>1. n + m + 1 \in DOMAIN t /\ t[n + m + 1].op = "resumed" /\ \A j \in DOMAIN t : n + m + 1 >= j
      BY <2>4, <2>5
    <3> QED BY <2>1, <3>1 DEF Ordered
  <2> QED BY <2>1, <2>9, <2>10, <2>11 DEF GapOK
<1> QED BY <1>5, <1>6
\* What the client reads it applies.
LEMMA TakenApplied ==
  ASSUME TypeOK, LinkInv, ShapeInv, ClientReceive
  PROVE  LET f == toClient[socket][1]
         IN  /\ \A s \in Sessions : applied[s] \subseteq applied'[s]
             /\ f.op \in EventOps => f.sid \in Sessions /\ f.id \in applied'[f.sid]
<1>1. /\ Head(toClient[socket]) = toClient[socket][1] /\ toClient[socket][1] \in FrameType
      /\ toClient[socket][1].sid = NoSession <=> toClient[socket][1].op \notin NamingOps
  BY TakenQueue
<1>2. PICK f : f = toClient[socket][1]
  OBVIOUS
<1>3. f \in FrameType /\ f.sid \in SessionOrNone /\ (f.op \in EventOps => f.sid \in Sessions)
  <2>1. f \in FrameType /\ f.sid \in SessionOrNone /\ (f.sid = NoSession <=> f.op \notin NamingOps)
    BY <1>1, <1>2, FrameFields
  <2>2. f.op \in EventOps => f.op \in NamingOps
    BY DEF EventOps, NamingOps
  <2> QED BY <2>1, <2>2 DEF SessionOrNone
<1>4. OnHello(f) \/ OnDispatch(f) \/ OnHeartbeatAck(f) \/ OnInvalidSession(f) \/ OnClose(f)
  BY <1>1, <1>2 DEF ClientReceive
<1>5. \/ applied' = applied /\ f.op \notin EventOps
      \/ f.op \in EventOps /\ applied' = [applied EXCEPT ![f.sid] = @ \cup {f.id}]
  <2>1. CASE OnDispatch(f)
    BY <2>1 DEF OnDispatch, EventOps
  <2>2. CASE ~OnDispatch(f)
    BY <1>4, <2>2 DEF OnHello, OnHeartbeatAck, OnInvalidSession, OnClose, EventOps
  <2> QED BY <2>1, <2>2
<1>6. applied \in [Sessions -> SUBSET Nat]
  BY DEF TypeOK, ClientTypeOK
<1> QED BY <1>2, <1>3, <1>5, <1>6

\* The client takes a frame: no gap opens in what is left.
LEMMA TakenGap ==
  ASSUME TypeOK, TypeOK', LinkInv, ShapeInv, GoodInv, ClientReceive
  PROVE  GapOK(socket)'
<1>1. PICK c : c = socket
  OBVIOUS
<1>2. PICK q, t : q = toClient[c] /\ t = toClient'[c]
  OBVIOUS
<1>3. /\ c \in Conns /\ socket' = c /\ q \in Seq(FrameType) /\ q # <<>> /\ t = Tail(q)
      /\ UNCHANGED <<log, socket_pid, call, link>>
  BY <1>1, <1>2, ReceiveReads DEF sessionVars
<1>4. GapOK(c)
  BY <1>3 DEF GoodInv
<1>5. /\ \A i \in DOMAIN t : i \in Nat /\ i + 1 \in DOMAIN q /\ t[i] = q[i + 1]
      /\ \A i \in DOMAIN q : i \in Nat /\ (i = 1 \/ (i > 1 /\ i - 1 \in DOMAIN t /\ q[i] = t[i - 1]))
      /\ Len(q) \in Nat /\ Len(t) \in Nat /\ Len(q) = Len(t) + 1
  <2>1. \A i \in DOMAIN t : i \in Nat /\ i + 1 \in DOMAIN q /\ t[i] = q[i + 1]
    BY <1>3, TailFrames
  <2>2. \A i \in DOMAIN q : i = 1 \/ (i > 1 /\ i - 1 \in DOMAIN t /\ q[i] = t[i - 1])
    BY <1>3, TailFrames
  <2>3. DOMAIN q = 1..Len(q) /\ Len(q) \in Nat /\ Len(t) = Len(q) - 1
    BY <1>3, TailFrames
  <2>4. t \in Seq(FrameType)
    BY <1>3, TailFrames
  <2>5. Len(t) \in Nat
    BY <2>4, LenProperties
  <2> QED BY <2>1, <2>2, <2>3, <2>5
<1>6. \A s \in Sessions, n \in Nat : \A id : Reaches(s, id, q, n + 1) => Reaches(s, id, t, n)'
  <2> SUFFICES ASSUME NEW s \in Sessions, NEW n \in Nat, NEW id, Reaches(s, id, q, n + 1)
               PROVE  Reaches(s, id, t, n)'
    OBVIOUS
  <2>1. applied[s] \subseteq applied'[s]
    BY TakenApplied
  <2>2. q[1].op \in EventOps => q[1].id \in applied'[q[1].sid]
    BY <1>1, <1>2, TakenApplied
  <2>3. q[1].op \in EventOps /\ q[1].sid = s => q[1].id \in applied'[s]
    BY <2>2
  <2> QED BY <1>3, <2>1, <2>3, TailReaches
<1>7. \A i \in DOMAIN t : Late(c, i + 1) => Late(c, i)'
  <2> SUFFICES ASSUME NEW i \in DOMAIN t, Late(c, i + 1) PROVE Late(c, i)'
    OBVIOUS
  <2>1. CASE call[c].op = "replay"
    BY <1>3, <2>1 DEF Late
  <2>2. ASSUME NEW k \in DOMAIN q, k >= i + 1, q[k].op = "resumed" PROVE Late(c, i)'
    <3>1. k - 1 \in DOMAIN t /\ k - 1 >= i /\ t[k - 1].op = "resumed"
      BY <1>5, <2>2
    <3> QED BY <1>2, <3>1 DEF Late
  <2> QED BY <1>2, <2>1, <2>2 DEF Late
<1>8. ASSUME NEW i \in DOMAIN t PROVE FrameGap(c, i)'
  <2>1. PICK f : f = t[i]
    OBVIOUS
  <2>2. i \in Nat /\ i + 1 \in DOMAIN q /\ q[i + 1] = f
    BY <1>5, <2>1
  <2>3. f.op = "resumed" \/ (f.op \in EventOps /\ ~Late(c, i + 1)) => \A id \in 1..f.id : Reaches(f.sid, id, q, i + 1)
    BY <1>2, <1>4, <2>2 DEF GapOK, FrameGap
  <2>4. CASE f.op \in NamingOps
    <3>1. OnWire(c, f)
      BY <1>2, <2>2 DEF OnWire, OnClient
    <3>2. f.sid \in Sessions
      BY <1>3, <2>4, <3>1, WireFrame DEF ShapeInv
    <3>3. \A id : Reaches(f.sid, id, q, i + 1) => Reaches(f.sid, id, t, i)'
      BY <1>6, <2>2, <3>2
    <3> QED BY <1>2, <1>7, <2>1, <2>3, <3>3 DEF FrameGap
  <2>5. CASE f.op \notin NamingOps
    <3>1. f.op # "resumed" /\ f.op \notin EventOps
      BY <2>5 DEF NamingOps, EventOps
    <3> QED BY <1>2, <2>1, <3>1 DEF FrameGap
  <2> QED BY <2>4, <2>5
<1>9. ASSUME NEW s \in Sessions PROVE SessionGap(c, s)'
  <2> SUFFICES ASSUME socket_pid[s] = c, link[c] PROVE SessionGap(c, s)'
    BY <1>3 DEF SessionGap
  <2>1. PICK n : n = Len(t)
    OBVIOUS
  <2>2. n \in Nat /\ Len(q) = n + 1
    BY <1>5, <2>1
  <2>3. \A id \in 1..Len(log[s]) : Reaches(s, id, q, n + 1) \/ (call[c].op = "replay" /\ id <= call[c].upto)
    BY <1>2, <1>4, <2>2 DEF GapOK, SessionGap
  <2>4. \A id : Reaches(s, id, q, n + 1) => Reaches(s, id, t, n)'
    BY <1>6, <2>2
  <2> QED BY <1>2, <1>3, <2>1, <2>3, <2>4 DEF SessionGap
<1>10. Ordered(c)'
  <2> SUFFICES ASSUME NEW i \in DOMAIN t, NEW j \in DOMAIN t, i < j, t[i].op \in EventOps, t[j].op \in EventOps,
                      t[i].sid = t[j].sid, t[i].s > t[j].s
               PROVE  \E k \in DOMAIN t : k >= j /\ t[k].op = "resumed"
    BY <1>2 DEF Ordered
  <2>1. /\ i + 1 \in DOMAIN q /\ j + 1 \in DOMAIN q /\ t[i] = q[i + 1] /\ t[j] = q[j + 1]
        /\ i + 1 < j + 1 /\ j \in Nat
    BY <1>5
  <2>2. PICK k \in DOMAIN q : k >= j + 1 /\ q[k].op = "resumed"
    BY <1>2, <1>4, <2>1 DEF GapOK, Ordered
  <2>3. k - 1 \in DOMAIN t /\ k - 1 >= j /\ t[k - 1].op = "resumed"
    BY <1>5, <2>1, <2>2
  <2> QED BY <2>3
<1>11. GapOK(c)'
  BY <1>2, <1>8, <1>9, <1>10 DEF GapOK
<1> QED BY <1>1, <1>3, <1>11
\* A connection the step does not write to.
LEMMA QuietGap ==
  ASSUME TypeOK, TypeOK', ShapeInv, GoodInv, NEW c \in Conns,
         toClient'[c] = toClient[c], call'[c] = call[c] \/ call[c].op # "replay", link'[c] => link[c],
         \A s \in Sessions : socket_pid'[s] = c => socket_pid[s] = c /\ log'[s] = log[s],
         \A s \in Sessions : Named(c, s) \/ socket_pid[s] = c => applied[s] \subseteq applied'[s]
  PROVE  GapOK(c)'
<1> DEFINE new == <<>>
<1>1. new \in Seq(FrameType) /\ \A k \in DOMAIN new : new[k].op \notin SessionOps
  OBVIOUS
<1> HIDE DEF new
<1>2. ConnShape(c) /\ GapOK(c)
  BY DEF ShapeInv, GoodInv
<1>3. call[c].op = "replay" => call'[c].op = "replay" /\ call'[c].upto = call[c].upto
  OBVIOUS
<1> QED BY <1>1, <1>2, <1>3, PlainGap

\* A connection that an answer without a name may be written to.
LEMMA AnswerGap ==
  ASSUME TypeOK, TypeOK', ShapeInv, GoodInv, NEW c \in Conns,
         NEW d \in Conns, NEW g, <<g>> \in Seq(FrameType), g.op \notin SessionOps, toClient' = Put(d, <<g>>),
         call'[c] = call[c] \/ call[c].op # "replay", link'[c] => link[c],
         UNCHANGED <<socket_pid, log, applied>>
  PROVE  GapOK(c)'
<1> DEFINE new == <<g>>
<1>1. new \in Seq(FrameType) /\ \A k \in DOMAIN new : new[k].op \notin SessionOps
  OBVIOUS
<1>2. Wrote(d, new)
  BY PutWrites
<1> HIDE DEF new
<1>3. ConnShape(c) /\ GapOK(c)
  BY DEF ShapeInv, GoodInv
<1>4. call[c].op = "replay" => call'[c].op = "replay" /\ call'[c].upto = call[c].upto
  OBVIOUS
<1>5. toClient'[c] = toClient[c] \/ toClient'[c] = toClient[c] \o new
  BY <1>2 DEF Wrote
<1>6. \A s \in Sessions : socket_pid'[s] = c /\ link'[c] => socket_pid[s] = c /\ link[c] /\ log'[s] = log[s]
  OBVIOUS
<1>7. \A s \in Sessions : Named(c, s) \/ socket_pid[s] = c => applied[s] \subseteq applied'[s]
  OBVIOUS
<1> QED BY <1>1, <1>3, <1>4, <1>5, <1>6, <1>7, PlainGap

\* The session answers a resume: what it has logged is what is to be replayed.
LEMMA ServedGap ==
  ASSUME TypeOK, TypeOK', ShapeInv, GoodInv, NEW s \in Sessions, NEW d \in Conns, ServeResume(s, d), NEW c \in Conns
  PROVE  GapOK(c)'
<1>1. UNCHANGED <<log, link, toClient, applied>>
  BY DEF ServeResume, wireVars, clientVars
<1>2. CASE c # d
  <2>1. call'[c] = call[c]
    BY <1>2, ServedCall
  <2>2. \A r \in Sessions : socket_pid'[r] = c => socket_pid[r] = c
    <3>1. UNCHANGED socket_pid \/ socket_pid' = [socket_pid EXCEPT ![s] = d]
      BY ServedCall
    <3> QED BY <1>2, <3>1 DEF TypeOK, SessionTypeOK
  <2> QED BY <1>1, <2>1, <2>2, QuietGap
<1>3. CASE c = d
  <2>1. call[c].op = "resume"
    BY <1>3, ServedCall
  <2>2. CASE UNCHANGED socket_pid
    BY <1>1, <2>1, <2>2, QuietGap
  <2>3. CASE call'[c].op = "replay" /\ call'[c].upto = Len(log[s]) /\ socket_pid' = [socket_pid EXCEPT ![s] = c]
    <3> DEFINE new == <<>>
    <3>1. new \in Seq(FrameType) /\ \A k \in DOMAIN new : new[k].op \notin SessionOps
      OBVIOUS
    <3> HIDE DEF new
    <3>2. ConnShape(c) /\ GapOK(c)
      BY DEF ShapeInv, GoodInv
    <3>3. \A r \in Sessions : socket_pid'[r] = c /\ link'[c] =>
            \/ socket_pid[r] = c /\ link[c] /\ log'[r] = log[r]
            \/ call'[c].op = "replay" /\ call'[c].upto = Len(log'[r])
      BY <1>1, <2>3 DEF TypeOK, SessionTypeOK
    <3>4. \A r \in Sessions : Named(c, r) \/ socket_pid[r] = c => applied[r] \subseteq applied'[r]
      BY <1>1
    <3>5. toClient'[c] = toClient[c]
      BY <1>1
    <3>6. call[c].op = "replay" => call'[c].op = "replay" /\ call'[c].upto = call[c].upto
      BY <2>1
    <3> QED BY <3>1, <3>2, <3>3, <3>4, <3>5, <3>6, PlainGap
  <2> QED BY <1>3, <2>2, <2>3, ServedCall
<1> QED BY <1>2, <1>3

\* The gaps after a step of a session.
LEMMA SessionGaps ==
  ASSUME TypeOK, TypeOK', NumberInv, LinkInv, ShapeInv, FactInv, GoodInv, NEW s \in Sessions, SessionKind(s),
         NEW c \in Conns
  PROVE  GapOK(c)'
<1> USE DEF conns, client
<1>1. ASSUME NEW op \in EventOps, Sends(s, op) PROVE GapOK(c)'
  <2>1. CASE socket_pid[s] = c /\ link[c]
    BY <1>1, <2>1, SendsGap
  <2>2. CASE ~(socket_pid[s] = c /\ link[c])
    <3> DEFINE g == Frame(op, s, seq[s] + 1, Len(log[s]) + 1)
    <3>1. Wrote(socket_pid[s], <<g>>)
      BY <1>1, SendsWrites
    <3>2. toClient'[c] = toClient[c]
      BY <2>2, <3>1 DEF Wrote
    <3>3. UNCHANGED <<call, link, socket_pid, applied>>
      BY <1>1 DEF Sends
    <3>4. \A r \in Sessions : r # s => log'[r] = log[r]
      BY <1>1 DEF Sends, Logs, TypeOK, SessionTypeOK
    <3>5. CASE ~link[c]
      <4> DEFINE new == <<>>
      <4>1. new \in Seq(FrameType) /\ \A k \in DOMAIN new : new[k].op \notin SessionOps
        OBVIOUS
      <4> HIDE DEF new
      <4>2. ConnShape(c) /\ GapOK(c)
        BY DEF ShapeInv, GoodInv
      <4> QED BY <3>2, <3>3, <3>5, <4>1, <4>2, PlainGap
    <3>6. CASE socket_pid[s] # c
      <4>1. \A r \in Sessions : socket_pid'[r] = c => socket_pid[r] = c /\ log'[r] = log[r]
        BY <3>3, <3>4, <3>6
      <4> QED BY <3>2, <3>3, <4>1, QuietGap
    <3> QED BY <2>2, <3>5, <3>6
  <2> QED BY <2>1, <2>2
<1>2. ASSUME Ends(s) PROVE GapOK(c)'
  <2>1. UNCHANGED <<log, call, link, toClient, applied>> /\ socket_pid' = [socket_pid EXCEPT ![s] = NoConn]
    BY <1>2 DEF Ends, Stop
  <2>2. \A r \in Sessions : socket_pid'[r] = c => socket_pid[r] = c
    BY <2>1, SessionAssumption DEF TypeOK, SessionTypeOK
  <2> QED BY <2>1, <2>2, QuietGap
<1>3. ASSUME Detaches(s) PROVE GapOK(c)'
  <2>1. UNCHANGED <<log, call, link, toClient, applied>> /\ socket_pid' = [socket_pid EXCEPT ![s] = NoConn]
    BY <1>3 DEF Detaches
  <2>2. \A r \in Sessions : socket_pid'[r] = c => socket_pid[r] = c
    BY <2>1, SessionAssumption DEF TypeOK, SessionTypeOK
  <2> QED BY <2>1, <2>2, QuietGap
<1>4. ASSUME NEW d \in Conns, ServeResume(s, d) PROVE GapOK(c)'
  BY <1>4, ServedGap
<1> QED BY <1>1, <1>2, <1>3, <1>4 DEF SessionKind
\* A new session has logged nothing.
LEMMA StartsGap ==
  ASSUME TypeOK, TypeOK', NumberInv, ShapeInv, GoodInv, NEW d \in Conns, NEW s \in Sessions, Starts(d, s),
         NEW c \in Conns
  PROVE  GapOK(c)'
<1> DEFINE new == <<>>
<1>1. new \in Seq(FrameType) /\ \A k \in DOMAIN new : new[k].op \notin SessionOps
  OBVIOUS
<1> HIDE DEF new
<1>2. ConnShape(c) /\ GapOK(c)
  BY DEF ShapeInv, GoodInv
<1>3. /\ ~alive[s] /\ ~SessionMentioned(s) /\ UNCHANGED <<call, link, toClient>>
      /\ socket_pid' = [socket_pid EXCEPT ![s] = d]
      /\ log' = [log EXCEPT ![s] = <<>>] /\ applied' = [applied EXCEPT ![s] = {}]
  BY DEF Starts, StartSession
<1>4. ~Named(c, s) /\ socket_pid[s] = NoConn /\ c # NoConn
  BY <1>3, NotMentioned, SessionAssumption DEF NumberInv, SessionNumbers
<1>5. \A r \in Sessions : r # s => socket_pid'[r] = socket_pid[r] /\ log'[r] = log[r] /\ applied'[r] = applied[r]
  BY <1>3 DEF TypeOK, SessionTypeOK, ClientTypeOK
<1>6. Len(log'[s]) = 0
  BY <1>3 DEF TypeOK, SessionTypeOK
<1>7. \A r \in Sessions : Named(c, r) \/ socket_pid[r] = c => applied[r] \subseteq applied'[r]
  BY <1>4, <1>5
<1>8. \A r \in Sessions : socket_pid'[r] = c /\ link'[c] =>
        (socket_pid[r] = c /\ link[c] /\ log'[r] = log[r]) \/ Len(log'[r]) = 0
  BY <1>3, <1>5, <1>6
<1>9. call[c].op = "replay" => call'[c].op = "replay" /\ call'[c].upto = call[c].upto
  BY <1>3
<1>10. toClient'[c] = toClient[c]
  BY <1>3
<1> QED BY <1>1, <1>2, <1>7, <1>8, <1>9, <1>10, PlainGap

\* A handler that ends.
LEMMA ClosesGap ==
  ASSUME TypeOK, TypeOK', ShapeInv, GoodInv, NEW d \in Conns, Closes(d), NEW c \in Conns
  PROVE  GapOK(c)'
<1>1. PICK code \in Nat : CloseWith(d, code)
  BY DEF Closes
<1>2. PICK g : g = Close(code)
  OBVIOUS
<1>3. <<g>> \in Seq(FrameType) /\ g.op \notin SessionOps
  <2>1. <<Close(code)>> \in Seq(FrameType) /\ <<Close(code)>>[1].op = "close"
    BY AnswerFrames
  <2> QED BY <1>2, <2>1 DEF SessionOps
<1>4. toClient' = Put(d, <<g>>)
  BY <1>1, <1>2 DEF CloseWith
<1>5. UNCHANGED <<socket_pid, log, applied>> /\ call[d].op # "replay"
  BY DEF Closes, sessions, client
<1>6. call' = [call EXCEPT ![d] = NoCall] /\ link' = [link EXCEPT ![d] = FALSE]
  BY <1>1 DEF CloseWith, HandlerEnds
<1>7. (call'[c] = call[c] \/ call[c].op # "replay") /\ (link'[c] => link[c])
  BY <1>5, <1>6 DEF TypeOK, HandlerTypeOK, WireTypeOK
<1> QED BY <1>3, <1>4, <1>5, <1>7, AnswerGap

\* A connection that the network loses.
LEMMA DropGap ==
  ASSUME TypeOK, TypeOK', ShapeInv, GoodInv, NEW d \in Conns, Drop(d), NEW c \in Conns
  PROVE  GapOK(c)'
<1>1. /\ link' = [link EXCEPT ![d] = FALSE]
      /\ toClient' = [toClient EXCEPT ![d] = <<Close(AbnormalClosure)>>]
      /\ UNCHANGED <<socket_pid, log, call, applied>>
  BY DEF Drop, sessionVars, handlerVars, clientVars
<1>2. CASE c = d
  <2>1. toClient'[c] = <<Close(AbnormalClosure)>> /\ ~link'[c]
    BY <1>1, <1>2 DEF TypeOK, WireTypeOK
  <2>2. Close(AbnormalClosure).op \notin SessionOps
    BY DEF Close, Frame, SessionOps
  <2>3. \A i \in DOMAIN toClient'[c] : toClient'[c][i].op \notin SessionOps
    BY <2>1, <2>2
  <2> QED BY <2>1, <2>3, EmptiedGap
<1>3. CASE c # d
  <2>1. toClient'[c] = toClient[c] /\ link'[c] = link[c]
    BY <1>1, <1>3 DEF TypeOK, WireTypeOK
  <2> QED BY <1>1, <2>1, QuietGap
<1> QED BY <1>2, <1>3

\* The gaps after a step of a handler.
LEMMA HandlerGaps ==
  ASSUME TypeOK, TypeOK', NumberInv, LinkInv, ShapeInv, GoodInv, NEW d \in Conns, HandlerKind(d), NEW c \in Conns
  PROVE  GapOK(c)'
<1> USE DEF sessions, client
<1>1. <<InvalidSession>> \in Seq(FrameType) /\ InvalidSession.op \notin SessionOps
  BY AnswerFrames DEF SessionOps
<1>2. <<HeartbeatAck>> \in Seq(FrameType) /\ HeartbeatAck.op \notin SessionOps
  BY AnswerFrames DEF SessionOps
<1>3. CASE Closes(d)
  BY <1>3, ClosesGap
<1>4. CASE Refuses(d)
  <2>1. toClient' = Put(d, <<InvalidSession>>) /\ UNCHANGED <<socket_pid, log, applied, call, link>>
    BY <1>4 DEF Refuses
  <2> QED BY <1>1, <2>1, AnswerGap
<1>5. CASE Calls(d)
  <2>1. UNCHANGED <<socket_pid, log, applied, link, toClient>>
    BY <1>5 DEF Calls
  <2>2. call'[c] = call[c] \/ call[c].op # "replay"
    <3>1. call[d].op = "none"
      BY <1>5 DEF Calls, Receives
    <3>2. c # d => call'[c] = call[c]
      BY <1>5 DEF Calls, TypeOK, HandlerTypeOK
    <3> QED BY <3>1, <3>2
  <2> QED BY <2>1, <2>2, QuietGap
<1>6. CASE Finishes(d)
  <2>1. CASE c = d
    BY <1>6, <2>1, FinishesGap
  <2>2. CASE c # d
    <3>1. UNCHANGED <<socket_pid, log, applied, link>>
      BY <1>6 DEF Finishes
    <3>2. toClient'[c] = toClient[c] /\ call'[c] = call[c]
      BY <1>6, <2>2 DEF Finishes, Put, TypeOK, HandlerTypeOK, WireTypeOK
    <3> QED BY <3>1, <3>2, QuietGap
  <2> QED BY <2>1, <2>2
<1>7. CASE Acknowledges(d)
  <2>1. toClient' = Put(d, <<HeartbeatAck>>) /\ UNCHANGED <<socket_pid, log, applied, call, link>>
    BY <1>7 DEF Acknowledges
  <2> QED BY <1>2, <2>1, AnswerGap
<1>8. CASE HandlerSessionDown(d)
  <2>1. toClient' = Put(d, <<InvalidSession>>) /\ UNCHANGED <<socket_pid, log, applied, call, link>>
    BY <1>8 DEF HandlerSessionDown, SessionDownFrames, sessionVars, clientVars
  <2> QED BY <1>1, <2>1, AnswerGap
<1>9. CASE Drop(d)
  BY <1>9, DropGap
<1>10. ASSUME NEW s \in Sessions, Starts(d, s) PROVE GapOK(c)'
  BY <1>10, StartsGap
<1> QED BY <1>3, <1>4, <1>5, <1>6, <1>7, <1>8, <1>9, <1>10 DEF HandlerKind

\* The gaps after a step of the client.
LEMMA ClientGaps ==
  ASSUME TypeOK, TypeOK', LinkInv, ShapeInv, GoodInv, ClientKind, NEW c \in Conns
  PROVE  GapOK(c)'
<1>1. ASSUME NEW d \in Conns, Reconnect(d) PROVE GapOK(c)'
  <2>1. socket_pid' = socket_pid
    BY <1>1, ReconnectOpens DEF sessionVars
  <2>2. CASE c = d
    <3>1. toClient'[c] = <<Hello>> /\ \A s \in Sessions : socket_pid[s] # c
      BY <1>1, <2>2, ReconnectOpens
    <3>2. Hello.op \notin SessionOps
      BY DEF Hello, Frame, SessionOps
    <3>3. \A i \in DOMAIN toClient'[c] : toClient'[c][i].op \notin SessionOps
      BY <3>1, <3>2
    <3> QED BY <2>1, <3>1, <3>3, EmptiedGap
  <2>3. CASE c # d
    <3>1. toClient'[c] = <<>> /\ ~link'[c]
      BY <1>1, <2>3, ReconnectOpens
    <3> QED BY <3>1, EmptiedGap
  <2> QED BY <2>2, <2>3
<1>2. ASSUME Disconnect PROVE GapOK(c)'
  <2>1. /\ link' = [link EXCEPT ![socket] = FALSE] /\ toClient' = [toClient EXCEPT ![socket] = <<>>]
        /\ UNCHANGED <<socket_pid, log, call, applied>>
    BY <1>2 DEF Disconnect, sessionVars, handlerVars
  <2>2. CASE c = socket
    <3>1. toClient'[c] = <<>> /\ ~link'[c]
      BY <2>1, <2>2 DEF TypeOK, WireTypeOK
    <3> QED BY <3>1, EmptiedGap
  <2>3. CASE c # socket
    <3>1. toClient'[c] = toClient[c] /\ link'[c] = link[c]
      BY <2>1, <2>3 DEF TypeOK, WireTypeOK
    <3> QED BY <2>1, <3>1, QuietGap
  <2> QED BY <2>2, <2>3
<1>3. ASSUME ClientReceive PROVE GapOK(c)'
  <2>1. CASE c = socket
    <3>1. socket' = socket
      BY <1>3, ReceiveReads
    <3>2. GapOK(socket)'
      BY <1>3, TakenGap
    <3> QED BY <2>1, <3>1, <3>2
  <2>2. CASE c # socket
    <3>1. toClient'[c] = toClient[c] /\ UNCHANGED <<sessionVars, call, link>>
      BY <1>3, <2>2, ReceiveReads
    <3>2. \A s \in Sessions : applied[s] \subseteq applied'[s]
      BY <1>3, TakenApplied
    <3> QED BY <3>1, <3>2, QuietGap DEF sessionVars
  <2> QED BY <2>1, <2>2
<1>4. ASSUME SendIdentify \/ SendHeartbeat PROVE GapOK(c)'
  <2>1. UNCHANGED <<toClient, call, link, socket_pid, log, applied>>
    BY <1>4 DEF SendIdentify, SendHeartbeat, sessionVars, handlerVars
  <2> QED BY <2>1, QuietGap
<1> QED BY <1>1, <1>2, <1>3, <1>4 DEF ClientKind

\* No step opens a gap.
LEMMA GapStep ==
  ASSUME TypeOK, TypeOK', SwitchesOff, NumberInv, LinkInv, ShapeInv, FactInv, GoodInv, [Next]_vars, NEW c \in Conns
  PROVE  GapOK(c)'
<1>1. CASE Still
  <2>1. UNCHANGED <<toClient, call, link, socket_pid, log, applied>>
    BY <1>1 DEF Still, sessions, conns, client
  <2> QED BY <2>1, QuietGap
<1>2. CASE ClientKind
  BY <1>2, ClientGaps
<1>3. ASSUME NEW s \in Sessions, SessionKind(s) PROVE GapOK(c)'
  BY <1>3, SessionGaps
<1>4. ASSUME NEW d \in Conns, HandlerKind(d) PROVE GapOK(c)'
  BY <1>4, HandlerGaps
<1> QED BY <1>1, <1>2, <1>3, <1>4, StepKind
-----------------------------------------------------------------------------
(* Calls: the number a RESUME names.                                       *)

\* A call that goes on.
LEMMA SameCallGood ==
  ASSUME TypeOK, TypeOK', ShapeInv, NEW done \in CallType, CallGood(done),
         done.op # "none" => done.sid \in Sessions /\ Grown(done.sid)
  PROVE  CallGood(done)'
<1> SUFFICES ASSUME done.op # "none" PROVE CallGood(done)'
  BY DEF CallGood
<1>1. done.s \in Nat /\ done.op # "invalid_seq" /\ Good(done.s, done.sid)
  BY DEF CallGood, CallType
<1>2. Good(done.s, done.sid)'
  BY <1>1, GoodGrows
<1>3. applied[done.sid] \subseteq applied'[done.sid]
  BY DEF Grown
<1> QED BY <1>1, <1>2, <1>3 DEF CallGood

\* The session has every event that the client says it applied, and the rest
\* of those it logged are in its buffer.
LEMMA ServedGood ==
  ASSUME TypeOK, TypeOK', NumberInv, ShapeInv, BufferInv, FactInv, GoodInv,
         NEW s \in Sessions, NEW c \in Conns, ServeResume(s, c)
  PROVE  CallGood(call[c])'
<1>1. PICK done : done = call'[c]
  OBVIOUS
<1>2. PICK n : n = call[c].s
  OBVIOUS
<1>3. /\ alive[s] /\ call[c].op = "resume" /\ call[c].sid = s /\ n \in Nat
      /\ done.sid = s /\ done.s = n
  BY <1>1, <1>2, ServedCall
<1>4. UNCHANGED <<log, applied>>
  BY DEF ServeResume, clientVars
<1>5. Good(n, s) /\ Good(ack_seq[s], s) /\ Known(s)
  <2>1. CallGood(call[c]) /\ CallFact(call[c])
    BY DEF GoodInv, FactInv
  <2> QED BY <1>2, <1>3, <2>1 DEF CallGood, CallFact, GoodInv
<1>6. seq[s] = Len(log[s]) /\ ack_seq[s] \in Nat /\ Len(log[s]) \in Nat
  BY <1>3, SessionValues DEF NumberInv, SessionNumbers
<1>7. n <= seq[s]
  BY <1>5, <1>6 DEF Good
<1>8. done.op = "replay" /\ done.upto = Len(log[s]) /\ done.missed = EventsAfter(buffer[s], n)
  BY <1>1, <1>2, <1>3, <1>6, <1>7, ServedCall
<1>9. \A id \in 1..Len(log[s]) : id \in applied[s] \/ \E i \in 1..Len(done.missed) : done.missed[i].id = id
  <2> DEFINE missed == EventsAfter(buffer[s], n)
  <2>1. \A id \in 1..Len(log[s]) :
          log[s][id].kept /\ id > n /\ id > ack_seq[s] => \E i \in 1..Len(missed) : missed[i].id = id
    BY <1>3, MissedFact
  <2> HIDE DEF missed
  <2> SUFFICES ASSUME NEW id \in 1..Len(log[s])
               PROVE  id \in applied[s] \/ \E i \in 1..Len(missed) : missed[i].id = id
    BY <1>8 DEF missed
  <2>2. CASE id <= n
    BY <1>3, <1>5, <1>6, <2>2 DEF Good
  <2>3. CASE id <= ack_seq[s]
    BY <1>5, <1>6, <2>3 DEF Good
  <2>4. CASE ~log[s][id].kept
    BY <1>5, <2>4 DEF Known
  <2>5. CASE id > n /\ id > ack_seq[s] /\ log[s][id].kept
    BY <2>1, <2>5
  <2> QED BY <1>3, <1>6, <2>2, <2>3, <2>4, <2>5
<1>10. Good(n, s)'
  BY <1>4, <1>5 DEF Good
<1>11. CallGood(done)'
  BY <1>3, <1>4, <1>8, <1>9, <1>10 DEF CallGood
<1> QED BY <1>1, <1>11

\* Calls after any step.
LEMMA CallGoodStep ==
  ASSUME TypeOK, TypeOK', SwitchesOff, NumberInv, LinkInv, ShapeInv, BufferInv, FactInv, GoodInv, [Next]_vars,
         NEW c \in Conns
  PROVE  CallGood(call[c])'
<1>0. ConnShape(c) /\ CallGood(call[c])
  BY DEF ShapeInv, GoodInv
<1>1. CASE call'[c] = call[c]
  <2>1. PICK done : done = call[c]
    OBVIOUS
  <2>2. done \in CallType /\ CallGood(done) /\ (done.op # "none" => done.sid \in Sessions /\ Grown(done.sid))
    BY <1>0, <2>1, CallSession, NamedGrows
  <2>3. CallGood(done)'
    BY <2>2, SameCallGood
  <2> QED BY <1>1, <2>1, <2>3
<1>2. CASE call'[c] = NoCall
  BY <1>2 DEF CallGood, NoCall
<1>3. CASE Calls(c)
  <2>1. PICK f : f = toServer[c][1]
    OBVIOUS
  <2>2. f \in FrameType /\ f.op = "resume" /\ OnServer(c, f) /\ f.sid \in Sessions /\ Mentions(toServer[c], f.sid)
    BY <1>0, <1>3, <2>1, CalledCall
  <2>3. call'[c].op = "resume" /\ call'[c].sid = f.sid /\ call'[c].s = f.s
    BY <1>0, <1>3, <2>1, CalledCall
  <2>4. Good(f.s, f.sid)
    BY <2>2 DEF GoodInv, Refers
  <2>5. UNCHANGED <<log, applied>>
    BY <1>3 DEF Calls, sessions, client
  <2>6. Good(f.s, f.sid)'
    BY <2>4, <2>5 DEF Good
  <2> QED BY <2>3, <2>6 DEF CallGood
<1>4. ASSUME NEW s \in Sessions, ServeResume(s, c) PROVE CallGood(call[c])'
  BY <1>4, ServedGood
<1> QED BY <1>1, <1>2, <1>3, <1>4, CallChanges
-----------------------------------------------------------------------------
(* The client's number and the acknowledgements.                           *)

\* Zero events have been applied.
LEMMA ZeroGood ==
  ASSUME TypeOK', NEW s \in Sessions
  PROVE  Good(0, s)'
<1>1. Len(log'[s]) \in Nat
  BY LenProperties DEF TypeOK, SessionTypeOK
<1> QED BY <1>1 DEF Good

\* A number that the client records: no replay is on its way.
LEMMA RecordedGood ==
  ASSUME TypeOK, TypeOK', LinkInv, ShapeInv, FactInv, GoodInv, ClientReceive, connectionState = "Connected",
         NEW f, f = toClient[socket][1], f.op \in SessionOps
  PROVE  f.sid \in Sessions /\ Named(socket, f.sid) /\ f.s \in Nat /\ Good(f.s, f.sid)'
<1>1. PICK c : c = socket
  OBVIOUS
<1>2. PICK q : q = toClient[c]
  OBVIOUS
<1>3. /\ c \in Conns /\ q \in Seq(FrameType) /\ f = q[1] /\ 1 \in DOMAIN q /\ log' = log
      /\ f \in FrameType /\ ConnShape(c) /\ Attends(c) /\ OnWire(c, f) /\ Has(q, f.op)
  <2>1. c \in Conns /\ q \in Seq(FrameType) /\ log' = log
    BY <1>1, <1>2, ReceiveReads DEF sessionVars
  <2>2. 1 \in DOMAIN q /\ f \in FrameType /\ ConnShape(c) /\ Attends(c) /\ Has(q, f.op)
    BY <1>1, <1>2, TakenQueue
  <2>3. OnWire(c, f)
    BY <1>1, <1>2, <2>2 DEF OnWire, OnClient
  <2> QED BY <1>1, <1>2, <2>1, <2>2, <2>3
<1>4. f.sid \in Sessions /\ Named(c, f.sid) /\ f.s \in Nat
  <2>1. f.op \in NamingOps
    BY DEF SessionOps, NamingOps
  <2> QED BY <1>3, <2>1, WireFrame, FrameFields
<1>5. ~Has(q, "resumed") /\ call[c].op = "none"
  BY <1>2, <1>3 DEF Attends, InCall
<1>6. f.op \in EventOps /\ ~Late(c, 1)
  BY <1>2, <1>3, <1>5 DEF Has, Late, SessionOps, EventOps
<1>7. f.s = f.id /\ f.id \in 1..Len(log[f.sid])
  BY <1>3, <1>6 DEF FactInv, FrameFact
<1>8. \A id \in 1..f.id : Reaches(f.sid, id, q, 1)
  BY <1>2, <1>3, <1>6 DEF GoodInv, GapOK, FrameGap
<1>9. applied[f.sid] \subseteq applied'[f.sid] /\ f.id \in applied'[f.sid]
  BY <1>1, <1>2, <1>3, <1>4, <1>6, TakenApplied
<1>10. \A id \in 1..f.id : id \in applied'[f.sid]
  <2> SUFFICES ASSUME NEW id \in 1..f.id PROVE id \in applied'[f.sid]
    OBVIOUS
  <2>1. CASE id \in applied[f.sid]
    BY <1>9, <2>1
  <2>2. ASSUME NEW k \in DOMAIN q, k <= 1, q[k].id = id PROVE id \in applied'[f.sid]
    <3>1. k = 1
      <4>1. DOMAIN q = 1..Len(q)
        BY <1>3, LenProperties
      <4> QED BY <2>2, <4>1
    <3> QED BY <1>3, <1>9, <2>2, <3>1
  <2> QED BY <1>8, <2>1, <2>2 DEF Reaches
<1>11. Len(log[f.sid]) \in Nat
  BY <1>4, SessionValues
<1>12. Good(f.s, f.sid)'
  BY <1>3, <1>4, <1>7, <1>10, <1>11 DEF Good
<1> QED BY <1>1, <1>4, <1>12

\* The number the client has after a frame is good for the session it takes for
\* its own, and for one it is to hear of.
LEMMA TakenNumber ==
  ASSUME TypeOK, TypeOK', SwitchesOff, LinkInv, ShapeInv, FactInv, GoodInv, ClientReceive, NEW s \in Sessions,
         activeSessionId' = s \/ Named(socket, s)',
         activeSessionId = s \/ Named(socket, s) => Grown(s)
  PROVE  Good(lastSequenceNumber, s)'
<1>1. PICK f : f = toClient[socket][1]
  OBVIOUS
<1>2. /\ Head(toClient[socket]) = f /\ socket \in Conns /\ ConnShape(socket) /\ Attends(socket)
      /\ OnWire(socket, f) /\ lastSequenceNumber \in Nat /\ f \in FrameType
  <2>1. Head(toClient[socket]) = f /\ socket \in Conns /\ ConnShape(socket) /\ Attends(socket) /\ 1 \in DOMAIN toClient[socket]
    BY <1>1, TakenQueue
  <2>2. OnWire(socket, f)
    BY <1>1, <2>1 DEF OnWire, OnClient
  <2>3. f \in FrameType
    BY <1>1, TakenQueue
  <2> QED BY <2>1, <2>2, <2>3 DEF TypeOK, ClientTypeOK
<1>3. s # NoSession
  BY SessionAssumption
<1>4. ASSUME lastSequenceNumber' = lastSequenceNumber, activeSessionId = s \/ Named(socket, s)
      PROVE  Good(lastSequenceNumber, s)'
  <2>1. PICK n : n = lastSequenceNumber
    OBVIOUS
  <2>2. Good(n, s) /\ n \in Nat /\ Grown(s)
    BY <1>2, <1>4, <2>1 DEF GoodInv
  <2>3. Good(n, s)'
    BY <2>2, GoodGrows
  <2> QED BY <1>4, <2>1, <2>3
<1>5. ASSUME lastSequenceNumber' = 0 PROVE Good(lastSequenceNumber, s)'
  BY <1>5, ZeroGood
<1>6. CASE OnHello(f)
  <2>1. lastSequenceNumber' = lastSequenceNumber /\ activeSessionId' = activeSessionId
    BY <1>6 DEF OnHello
  <2>2. activeSessionId = s
    BY <1>2, <1>6, <2>1, HelloShape
  <2> QED BY <1>4, <2>1, <2>2
<1>7. CASE OnDispatch(f)
  <2>1. toServer' = toServer /\ lastSequenceNumber' = Recorded(f)
    BY <1>7 DEF OnDispatch
  <2>2. Named(socket, s)' => Named(socket, s)
    BY <2>1, TakenShape
  <2>3. f.op \in SessionOps /\ f.op \in NamingOps
    BY <1>7 DEF OnDispatch, SessionOps, NamingOps
  <2>4. f.sid \in Sessions /\ Named(socket, f.sid)
    BY <1>2, <2>3, WireFrame
  <2>5. activeSessionId' = s => activeSessionId = s \/ f.sid = s
    BY <1>7 DEF OnDispatch
  <2>6. activeSessionId = s \/ Named(socket, s)
    BY <2>2, <2>4, <2>5
  <2>7. f.sid = s
    <3>1. Named(socket, s) => f.sid = s
      BY <1>2, <2>4 DEF ConnShape
    <3>2. activeSessionId \in {f.sid, NoSession}
      BY <1>2, <2>4 DEF Attends
    <3> QED BY <1>3, <2>6, <3>1, <3>2
  <2>8. CASE lastSequenceNumber' = lastSequenceNumber
    BY <1>4, <2>6, <2>8
  <2>9. CASE connectionState = "Connected" /\ lastSequenceNumber' = f.s
    <3>1. Good(f.s, f.sid)'
      BY <1>1, <2>3, <2>9, RecordedGood
    <3> QED BY <2>7, <2>9, <3>1
  <2> QED BY <2>1, <2>8, <2>9 DEF Recorded
<1>8. CASE OnHeartbeatAck(f) \/ OnClose(f)
  <2>1. UNCHANGED <<toServer, lastSequenceNumber, activeSessionId>>
    BY <1>8 DEF OnHeartbeatAck, OnClose
  <2>2. Named(socket, s)' => Named(socket, s)
    BY <2>1, TakenShape
  <2> QED BY <1>4, <2>1, <2>2
<1>9. CASE OnInvalidSession(f)
  BY <1>5, <1>9 DEF OnInvalidSession, ClearSession
<1> QED BY <1>2, <1>6, <1>7, <1>8, <1>9 DEF ClientReceive
\* What a client says between the answers to HELLO.
LEMMA SpokenFrames ==
  ASSUME TypeOK, LinkInv, SendIdentify \/ SendHeartbeat, NEW d \in Conns, NEW f, OnServer(d, f)'
  PROVE  OnServer(d, f) \/ f = Identify \/ (f = Heartbeat(lastSequenceNumber) /\ d = socket)
<1>1. Identify \in FrameType /\ Heartbeat(lastSequenceNumber) \in FrameType
  BY PlainFrames DEF TypeOK, ClientTypeOK
<1>2. CASE SendIdentify
  <2>1. socket \in Conns /\ Sent(socket, Identify)
    BY <1>2, ClientSocket, SendAppends DEF SendIdentify
  <2> QED BY <1>1, <2>1, SentFrames
<1>3. CASE SendHeartbeat /\ socket # NoConn
  <2>1. socket \in Conns /\ Sent(socket, Heartbeat(lastSequenceNumber))
    BY <1>3, ClientSocket, SendAppends DEF SendHeartbeat
  <2> QED BY <1>1, <2>1, SentFrames
<1>4. CASE SendHeartbeat /\ socket = NoConn
  <2>1. UNCHANGED toServer
    BY <1>4, SessionAssumption DEF SendHeartbeat, Send, TypeOK, WireTypeOK
  <2> QED BY <2>1 DEF OnServer
<1> QED BY <1>2, <1>3, <1>4

\* They name no session.
LEMMA SpokenNames ==
  ASSUME TypeOK, LinkInv, SendIdentify \/ SendHeartbeat, NEW d \in Conns, NEW s \in Sessions, Mentions(toServer'[d], s)
  PROVE  Mentions(toServer[d], s)
<1>1. PICK i \in DOMAIN toServer'[d] : toServer'[d][i].sid = s
  BY DEF Mentions
<1>2. PICK f : f = toServer'[d][i]
  OBVIOUS
<1>3. OnServer(d, f)'
  BY <1>1, <1>2 DEF OnServer
<1>4. Identify.sid = NoSession /\ Heartbeat(lastSequenceNumber).sid = NoSession
  BY DEF Identify, Heartbeat, Frame
<1>5. OnServer(d, f)
  BY <1>1, <1>2, <1>3, <1>4, SpokenFrames, SessionAssumption
<1> QED BY <1>1, <1>2, <1>5 DEF Mentions, OnServer

\* A connection is about a session because it was before, or the session was
\* started for it, or the client resumes.
LEMMA RefersKept ==
  ASSUME TypeOK, SwitchesOff, LinkInv, ShapeInv, [Next]_vars, NEW c \in Conns, NEW s \in Sessions,
         ~(ClientReceive /\ OnHello(Head(toClient[socket]))), ~Starts(c, s), Refers(c, s)'
  PROVE  Refers(c, s)
<1> USE DEF conns, TypeOK, HandlerTypeOK
<1>0. ConnShape(c) /\ s # NoSession
  BY SessionAssumption DEF ShapeInv
<1>1. ASSUME session_pid'[c] = session_pid[c] \/ session_pid'[c] = NoSession \/ session_pid'[c] = call[c].sid,
             call'[c] = call[c] \/ call'[c] = NoCall \/ call'[c].sid = call[c].sid,
             Mentions(toServer'[c], s) => Mentions(toServer[c], s)
      PROVE  Refers(c, s)
  <2>1. NoCall.sid = NoSession
    BY DEF NoCall
  <2> QED BY <1>0, <1>1, <2>1 DEF Refers
<1>2. CASE Still
  BY <1>1, <1>2 DEF Still
<1>3. ASSUME NEW r \in Sessions, SessionKind(r) PROVE Refers(c, s)
  <2>1. session_pid' = session_pid /\ toServer' = toServer
    BY <1>3 DEF SessionKind, Sends, Ends, Detaches, ServeResume, wireVars
  <2>2. ASSUME NEW d \in Conns, ServeResume(r, d) PROVE call'[c] = call[c] \/ call'[c].sid = call[c].sid
    BY <2>2, ServedCall
  <2>3. call'[c] = call[c] \/ call'[c].sid = call[c].sid
    BY <1>3, <2>2 DEF SessionKind, Sends, Ends, Detaches
  <2> QED BY <1>1, <2>1, <2>3
<1>4. ASSUME NEW d \in Conns, HandlerKind(d) PROVE Refers(c, s)
  <2>1. ASSUME NEW op, Receives(d, op) PROVE Mentions(toServer'[c], s) => Mentions(toServer[c], s)
    <3>1. ConnShape(d)
      BY DEF ShapeInv
    <3>2. CASE c = d
      BY <2>1, <3>1, <3>2, ReadQueue
    <3>3. CASE c # d
      BY <2>1, <3>1, <3>3, ReadQueue
    <3> QED BY <3>2, <3>3
  <2>2. CASE Closes(d)
    <3>1. /\ session_pid' = [session_pid EXCEPT ![d] = NoSession] /\ call' = [call EXCEPT ![d] = NoCall]
          /\ toServer' = [toServer EXCEPT ![d] = <<>>]
      BY <2>2 DEF Closes, CloseWith, HandlerEnds
    <3>2. toServer'[c] = toServer[c] \/ toServer'[c] = <<>>
      BY <3>1 DEF WireTypeOK
    <3>3. DOMAIN <<>> = {}
      OBVIOUS
    <3>4. Mentions(toServer'[c], s) => Mentions(toServer[c], s)
      BY <3>2, <3>3 DEF Mentions
    <3> QED BY <1>1, <3>1, <3>4
  <2>3. CASE Refuses(d) \/ Acknowledges(d)
    <3>1. UNCHANGED <<session_pid, call>> /\ \E op : Receives(d, op)
      BY <2>3 DEF Refuses, Acknowledges
    <3> QED BY <1>1, <2>1, <3>1
  <2>4. CASE Calls(d)
    <3>1. session_pid' = session_pid /\ (Mentions(toServer'[c], s) => Mentions(toServer[c], s))
      BY <2>1, <2>4 DEF Calls
    <3>2. CASE c # d
      <4>1. call'[c] = call[c]
        BY <2>4, <3>2 DEF Calls
      <4> QED BY <1>1, <3>1, <4>1
    <3>3. CASE c = d
      <4>1. call'[c].sid = toServer[c][1].sid /\ Mentions(toServer[c], toServer[c][1].sid)
        BY <1>0, <2>4, <3>3, CalledCall
      <4> QED BY <3>1, <4>1 DEF Refers
    <3> QED BY <3>2, <3>3
  <2>5. CASE Finishes(d)
    <3>1. /\ session_pid' = [session_pid EXCEPT ![d] = call[d].sid] /\ call' = [call EXCEPT ![d] = NoCall]
          /\ toServer' = toServer
      BY <2>5 DEF Finishes
    <3> QED BY <1>1, <3>1
  <2>6. CASE HandlerSessionDown(d)
    <3>1. session_pid' = [session_pid EXCEPT ![d] = NoSession] /\ UNCHANGED <<call, toServer>>
      BY <2>6 DEF HandlerSessionDown
    <3> QED BY <1>1, <3>1
  <2>7. CASE Drop(d)
    <3>1. UNCHANGED <<session_pid, call>>
      BY <2>7 DEF Drop, handlerVars
    <3>2. PICK n \in 0..Len(toServer[d]) : toServer' = [toServer EXCEPT ![d] = SubSeq(@, 1, n)]
      BY <2>7 DEF Drop
    <3>3. PICK q : q = toServer[d]
      OBVIOUS
    <3>4. q \in Seq(FrameType) /\ QueueOK(q, ToServerOps)
      BY <3>3 DEF WireTypeOK, ShapeInv, ConnShape
    <3>5. PICK t : t = SubSeq(q, 1, n)
      OBVIOUS
    <3>6. Mentions(t, s) => Mentions(q, s)
      <4>1. n \in 0..Len(q)
        BY <3>2, <3>3
      <4> QED BY <3>4, <3>5, <4>1, PrefixQueue
    <3>8. toServer'[c] = toServer[c] \/ (c = d /\ toServer'[c] = t)
      BY <3>2, <3>3, <3>5 DEF WireTypeOK
    <3>7. Mentions(toServer'[c], s) => Mentions(toServer[c], s)
      BY <3>3, <3>6, <3>8
    <3> QED BY <1>1, <3>1, <3>7
  <2>8. ASSUME NEW r \in Sessions, Starts(d, r) PROVE Refers(c, s)
    <3>1. call' = call /\ session_pid' = [session_pid EXCEPT ![d] = r] /\ \E op : Receives(d, op)
      BY <2>8 DEF Starts, StartSession
    <3>2. Mentions(toServer'[c], s) => Mentions(toServer[c], s)
      BY <2>1, <3>1
    <3>3. CASE c = d
      <4>1. r # s /\ session_pid'[c] = r
        BY <2>8, <3>1, <3>3
      <4> QED BY <3>1, <3>2, <4>1 DEF Refers
    <3>4. CASE c # d
      <4>1. session_pid'[c] = session_pid[c]
        BY <3>1, <3>4
      <4> QED BY <1>1, <3>1, <3>2, <4>1
    <3> QED BY <3>3, <3>4
  <2> QED BY <1>4, <2>2, <2>3, <2>4, <2>5, <2>6, <2>7, <2>8 DEF HandlerKind
<1>5. CASE ClientKind
  <2>1. UNCHANGED <<session_pid, call>>
    BY <1>5 DEF ClientKind, Reconnect, Disconnect, ClientReceive, SendIdentify, SendHeartbeat, handlerVars
  <2>2. CASE SendIdentify \/ SendHeartbeat
    BY <1>1, <2>1, <2>2, SpokenNames
  <2>3. CASE ~(SendIdentify \/ SendHeartbeat)
    <3>1. toServer' = toServer
      BY <1>5, <2>3 DEF ClientKind, Reconnect, Disconnect, ClientReceive, OnDispatch, OnHeartbeatAck,
                        OnInvalidSession, OnClose
    <3> QED BY <1>1, <2>1, <3>1
  <2> QED BY <2>2, <2>3
<1> QED BY <1>2, <1>3, <1>4, <1>5, StepKind
\* What a handler is still to read names a number that is good.
LEMMA ServerGood ==
  ASSUME TypeOK, TypeOK', SwitchesOff, NumberInv, LinkInv, ShapeInv, ShapeInv', GoodInv, [Next]_vars,
         NEW c \in Conns, NEW f \in FrameType, NEW s \in Sessions, OnServer(c, f)', f.op # "identify", Refers(c, s)'
  PROVE  Good(f.s, s)'
<1>0. f.s \in Nat /\ ConnShape(c)
  BY FrameFields DEF ShapeInv
<1>1. CASE Starts(c, s)
  <2>1. Receives(c, "identify")
    BY <1>1 DEF Starts
  <2>2. /\ toServer[c] \in Seq(FrameType) /\ toServer[c] # <<>> /\ toServer[c][1].op = "identify"
        /\ toServer'[c] = Tail(toServer[c]) /\ 1 \in DOMAIN toServer[c]
    BY <1>0, <2>1, ReadQueue
  <2>3. PICK i \in DOMAIN Tail(toServer[c]) : Tail(toServer[c])[i] = f
    BY <2>2 DEF OnServer
  <2>4. i + 1 \in DOMAIN toServer[c] /\ 1 < i + 1 /\ toServer[c][i + 1] = f
    BY <2>2, <2>3, TailFrames
  <2>5. MayFollow(toServer[c][1], f)
    BY <1>0, <2>2, <2>4 DEF ConnShape, QueueOK
  <2>6. f.s = 0
    BY <2>2, <2>5 DEF MayFollow
  <2> QED BY <2>6, ZeroGood
<1>2. ASSUME OnServer(c, f), Refers(c, s) PROVE Good(f.s, s)'
  <2>1. Good(f.s, s) /\ Named(c, s)
    BY <1>2 DEF GoodInv, Named
  <2> QED BY <1>0, <2>1, NamedGrows, GoodGrows
<1>3. CASE ClientReceive /\ OnHello(Head(toClient[socket]))
  <2>1. CASE c # socket
    <3>1. toServer'[c] = toServer[c] /\ UNCHANGED <<session_pid, call>>
      <4>1. socket \in Conns
        BY <1>3, ReceiveReads
      <4> QED BY <1>3, <2>1, <4>1 DEF ClientReceive, OnHello, Send, handlerVars, TypeOK, WireTypeOK
    <3>2. OnServer(c, f) /\ Refers(c, s)
      BY <3>1 DEF OnServer, Refers
    <3> QED BY <1>2, <3>2
  <2>2. CASE c = socket
    <3>1. activeSessionId = s /\ lastSequenceNumber' = lastSequenceNumber
      <4>1. Named(socket, s)'
        <5>1. socket' = socket
          BY <1>3, ReceiveReads
        <5> QED BY <2>2, <5>1 DEF Named
      <4> QED BY <1>3, <4>1, HelloShape DEF OnHello
    <3>2. toServer[c] = <<>>
      <4>1. Phases(c) /\ Has(toClient[c], Head(toClient[c]).op)
        BY <1>3, <2>2, TakenQueue
      <4> QED BY <1>3, <2>2, <4>1 DEF OnHello, Phases
    <3>3. f = Identify \/ f = Resume(activeSessionId, lastSequenceNumber)
      <4>1. PICK g \in FrameType : Sent(c, g) /\ (g = Identify \/ g = Resume(activeSessionId, lastSequenceNumber))
        <5>1. Send(c, Identify) \/ Send(c, Resume(activeSessionId, lastSequenceNumber))
          BY <1>3, <2>2 DEF ClientReceive, OnHello
        <5>2. Identify \in FrameType /\ Resume(activeSessionId, lastSequenceNumber) \in FrameType
          BY PlainFrames DEF TypeOK, ClientTypeOK
        <5> QED BY <5>1, <5>2, SendAppends
      <4>2. OnServer(c, f) \/ f = g
        BY <4>1, SentFrames
      <4>3. ~OnServer(c, f)
        BY <3>2 DEF OnServer
      <4> QED BY <4>1, <4>2, <4>3
    <3>4. f.s = lastSequenceNumber
      BY <3>3 DEF Identify, Resume, Frame
    <3>5. Good(f.s, s)
      BY <3>1, <3>4 DEF GoodInv
    <3> QED BY <1>0, <3>1, <3>5, NamedGrows, GoodGrows
  <2> QED BY <2>1, <2>2
<1>4. CASE SendIdentify \/ SendHeartbeat
  <2>1. ~ClientReceive \/ ~OnHello(Head(toClient[socket]))
    <3>1. toClient' = toClient
      BY <1>4 DEF SendIdentify, SendHeartbeat
    <3>2. ClientReceive => toClient' # toClient
      <4> SUFFICES ASSUME ClientReceive, toClient' = toClient PROVE FALSE
        OBVIOUS
      <4>1. toClient[socket] = Tail(toClient[socket]) /\ toClient[socket] \in Seq(FrameType) /\ toClient[socket] # <<>>
        BY ReceiveReads
      <4>2. PICK q : q = toClient[socket]
        OBVIOUS
      <4>3. PICK t : t = Tail(q)
        OBVIOUS
      <4>4. q \in Seq(FrameType) /\ q # <<>> /\ t = q
        BY <4>1, <4>2, <4>3
      <4>5. Len(t) = Len(q) - 1 /\ Len(q) \in Nat
        BY <4>3, <4>4, TailFrames
      <4> QED BY <4>4, <4>5
    <3> QED BY <3>1, <3>2
  <2>2. ~Starts(c, s)
    <3>1. UNCHANGED alive
      BY <1>4 DEF SendIdentify, SendHeartbeat, sessionVars
    <3>2. Starts(c, s) => ~alive[s] /\ alive'[s]
      BY DEF Starts, StartSession, TypeOK, SessionTypeOK
    <3> QED BY <3>1, <3>2
  <2>3. Refers(c, s)
    BY <2>1, <2>2, RefersKept
  <2>4. CASE OnServer(c, f)
    BY <1>2, <2>3, <2>4
  <2>5. CASE f = Identify
    BY <2>5 DEF Identify, Frame
  <2>6. CASE f = Heartbeat(lastSequenceNumber) /\ c = socket
    <3>1. f.s = lastSequenceNumber /\ Named(c, s)
      BY <2>3, <2>6 DEF Heartbeat, Frame, Named
    <3>2. Good(f.s, s)
      BY <2>6, <3>1 DEF GoodInv
    <3> QED BY <1>0, <3>1, <3>2, NamedGrows, GoodGrows
  <2> QED BY <1>4, <2>4, <2>5, <2>6, SpokenFrames
<1>5. CASE ~Starts(c, s) /\ ~(ClientReceive /\ OnHello(Head(toClient[socket]))) /\ ~(SendIdentify \/ SendHeartbeat)
  <2>1. Refers(c, s)
    BY <1>5, RefersKept
  <2>2. OnServer(c, f)
    <3>1. CASE Still
      BY <3>1 DEF Still, conns, OnServer
    <3>2. ASSUME NEW r \in Sessions, SessionKind(r) PROVE OnServer(c, f)
      BY <3>2 DEF SessionKind, Sends, Ends, Detaches, ServeResume, conns, wireVars, OnServer
    <3>3. ASSUME NEW d \in Conns, HandlerKind(d) PROVE OnServer(c, f)
      <4>1. ASSUME NEW op, Receives(d, op) PROVE OnServer(c, f)
        BY <4>1, ReceivedFrames
      <4>2. CASE Closes(d)
        <5>1. toServer' = [toServer EXCEPT ![d] = <<>>]
          BY <4>2 DEF Closes, CloseWith, HandlerEnds
        <5>2. toServer'[c] = toServer[c] \/ toServer'[c] = <<>>
          BY <5>1 DEF TypeOK, WireTypeOK
        <5> QED BY <5>2 DEF OnServer
      <4>3. CASE Drop(d)
        <5>1. PICK n \in 0..Len(toServer[d]) : toServer' = [toServer EXCEPT ![d] = SubSeq(@, 1, n)]
          BY <4>3 DEF Drop
        <5>2. PICK q : q = toServer[d]
          OBVIOUS
        <5>3. PICK t : t = SubSeq(q, 1, n)
          OBVIOUS
        <5>4. q \in Seq(FrameType) /\ n \in 0..Len(q) /\ QueueOK(q, ToServerOps)
          BY <5>1, <5>2 DEF TypeOK, WireTypeOK, ShapeInv, ConnShape
        <5>5. \A i \in DOMAIN t : i \in DOMAIN q /\ t[i] = q[i]
          BY <5>3, <5>4, PrefixQueue
        <5>6. toServer'[c] = toServer[c] \/ (c = d /\ toServer'[c] = t)
          BY <5>1, <5>2, <5>3 DEF TypeOK, WireTypeOK
        <5> QED BY <5>2, <5>5, <5>6 DEF OnServer
      <4>4. CASE Finishes(d) \/ HandlerSessionDown(d)
        <5>1. toServer' = toServer
          BY <4>4 DEF Finishes, HandlerSessionDown
        <5> QED BY <5>1 DEF OnServer
      <4> QED BY <3>3, <4>1, <4>2, <4>3, <4>4 DEF HandlerKind, Refuses, Calls, Acknowledges, Starts
    <3>4. CASE ClientKind
      <4>1. toServer' = toServer
        BY <1>5, <3>4 DEF ClientKind, Reconnect, Disconnect, ClientReceive, OnDispatch, OnHeartbeatAck,
                          OnInvalidSession, OnClose
      <4> QED BY <4>1 DEF OnServer
    <3> QED BY <3>1, <3>2, <3>3, <3>4, StepKind
  <2> QED BY <1>2, <2>1, <2>2
<1> QED BY <1>1, <1>3, <1>4, <1>5
\* What a session takes for acknowledged has been applied.
LEMMA AckGood ==
  ASSUME TypeOK, TypeOK', SwitchesOff, NumberInv, ShapeInv, GoodInv, [Next]_vars,
         NEW s \in Sessions, alive'[s]
  PROVE  Good(ack_seq[s], s)'
<1> USE DEF TypeOK, SessionTypeOK
<1>1. ASSUME alive[s], ack_seq'[s] = ack_seq[s], ~\E c \in Conns : Starts(c, s) PROVE Good(ack_seq[s], s)'
  <2>1. PICK n : n = ack_seq[s]
    OBVIOUS
  <2>2. n \in Nat /\ Good(n, s) /\ Grown(s)
    BY <1>1, <2>1, StepGrows DEF GoodInv
  <2>3. Good(n, s)'
    BY <2>2, GoodGrows
  <2> QED BY <1>1, <2>1, <2>3
<1>2. ASSUME NEW c \in Conns, Starts(c, s) PROVE ~alive[s]
  BY <1>2 DEF Starts, StartSession
<1>3. ASSUME alive[s], ack_seq'[s] = ack_seq[s] PROVE Good(ack_seq[s], s)'
  BY <1>1, <1>2, <1>3
<1>4. CASE Still
  BY <1>3, <1>4 DEF Still, sessions
<1>5. ASSUME NEW r \in Sessions, SessionKind(r) PROVE Good(ack_seq[s], s)'
  <2>1. alive[s] /\ ack_seq'[s] = ack_seq[s]
    BY <1>5 DEF SessionKind, Sends, Ends, Stop, Detaches, ServeResume
  <2> QED BY <1>3, <2>1
<1>6. ASSUME NEW d \in Conns, HandlerKind(d) PROVE Good(ack_seq[s], s)'
  <2>1. CASE Acknowledges(d) /\ session_pid[d] = s /\ ack_seq' = [ack_seq EXCEPT ![s] = Head(toServer[d]).s]
    <3>1. PICK f : f = toServer[d][1]
      OBVIOUS
    <3>2. Receives(d, "heartbeat") /\ ConnShape(d)
      BY <2>1 DEF Acknowledges, ShapeInv
    <3>3. f \in FrameType /\ f.op = "heartbeat" /\ OnServer(d, f) /\ Head(toServer[d]) = f
      BY <3>1, <3>2, ReadQueue DEF OnServer
    <3>4. Good(f.s, s)
      BY <2>1, <3>3 DEF GoodInv, Refers
    <3>5. UNCHANGED <<log, applied>> /\ ack_seq'[s] = f.s
      BY <2>1, <3>3 DEF Acknowledges, client
    <3> QED BY <3>4, <3>5 DEF Good
  <2>2. ASSUME NEW r \in Sessions, Starts(d, r) PROVE Good(ack_seq[s], s)'
    <3>1. alive' = [alive EXCEPT ![r] = TRUE] /\ UNCHANGED ack_seq /\ ~alive[r]
      BY <2>2 DEF Starts, StartSession
    <3>2. CASE s = r
      <4>1. ack_seq'[s] = 0
        BY <3>1, <3>2 DEF NumberInv, SessionNumbers
      <4> QED BY <4>1, ZeroGood
    <3>3. CASE s # r
      BY <1>3, <3>1, <3>3
    <3> QED BY <3>2, <3>3
  <2>3. CASE Acknowledges(d) /\ ~(session_pid[d] = s /\ ack_seq' = [ack_seq EXCEPT ![s] = Head(toServer[d]).s])
    <3>1. UNCHANGED alive /\ ack_seq'[s] = ack_seq[s]
      BY <2>3 DEF Acknowledges
    <3> QED BY <1>3, <3>1
  <2>4. CASE ~Acknowledges(d) /\ ~\E r \in Sessions : Starts(d, r)
    <3>1. UNCHANGED <<alive, ack_seq>>
      BY <1>6, <2>4 DEF HandlerKind, Closes, Refuses, Calls, Finishes, HandlerSessionDown, Drop, sessions, sessionVars
    <3> QED BY <1>3, <3>1
  <2> QED BY <2>1, <2>2, <2>3, <2>4
<1>7. CASE ClientKind
  <2>1. UNCHANGED <<alive, ack_seq>>
    BY <1>7 DEF ClientKind, Reconnect, Disconnect, ClientReceive, SendIdentify, SendHeartbeat, sessionVars
  <2> QED BY <1>3, <2>1
<1> QED BY <1>4, <1>5, <1>6, <1>7, StepKind

\* The client's number is good for the session it takes for its own and for the
\* one its socket is about.
LEMMA NumberGood ==
  ASSUME TypeOK, TypeOK', SwitchesOff, NumberInv, LinkInv, ShapeInv, ShapeInv', FactInv, GoodInv, [Next]_vars,
         NEW s \in Sessions, activeSessionId' = s \/ (socket' \in Conns /\ Named(socket, s)')
  PROVE  Good(lastSequenceNumber, s)'
<1>0. s # NoSession /\ lastSequenceNumber \in Nat
  BY SessionAssumption DEF TypeOK, ClientTypeOK
<1>1. ASSUME activeSessionId = s \/ (socket \in Conns /\ Named(socket, s)), lastSequenceNumber' = lastSequenceNumber
      PROVE  Good(lastSequenceNumber, s)'
  <2>1. PICK n : n = lastSequenceNumber
    OBVIOUS
  <2>2. Good(n, s) /\ n \in Nat /\ Grown(s)
    BY <1>0, <1>1, <2>1, NamedGrows DEF GoodInv
  <2>3. Good(n, s)'
    BY <2>2, GoodGrows
  <2> QED BY <1>1, <2>1, <2>3
<1>2. CASE Still
  <2>1. UNCHANGED <<activeSessionId, lastSequenceNumber, socket, conns, toClient>>
    BY <1>2 DEF Still, client
  <2> QED BY <1>1, <2>1 DEF conns, Named, Refers
<1>3. ASSUME UNCHANGED <<activeSessionId, lastSequenceNumber, socket>>, \A d \in Conns : Kept(d)
      PROVE  Good(lastSequenceNumber, s)'
  <2>1. CASE activeSessionId = s
    BY <1>1, <1>3, <2>1
  <2>2. CASE activeSessionId # s
    <3>1. PICK c \in Conns : c = socket
      BY <1>3, <2>2
    <3>2. socket' = c /\ Named(c, s)'
      BY <1>3, <2>2, <3>1
    <3>3. Named(c, s)
      BY <1>3, <3>1, <3>2 DEF Kept, Calmer
    <3> QED BY <1>1, <1>3, <3>1, <3>3
  <2> QED BY <2>1, <2>2
<1>4. ASSUME NEW r \in Sessions, SessionKind(r) PROVE Good(lastSequenceNumber, s)'
  <2>1. UNCHANGED <<activeSessionId, lastSequenceNumber, socket>>
    BY <1>4 DEF SessionKind, Sends, Ends, Detaches, ServeResume, client, clientVars
  <2> QED BY <1>3, <1>4, <2>1, SessionShape
<1>5. ASSUME NEW d \in Conns, HandlerKind(d) PROVE Good(lastSequenceNumber, s)'
  <2>1. UNCHANGED <<activeSessionId, lastSequenceNumber, socket>>
    BY <1>5 DEF HandlerKind, Closes, Refuses, Calls, Finishes, Acknowledges, HandlerSessionDown, Drop, Starts,
               client, clientVars
  <2>2. CASE ~\E r \in Sessions : Starts(d, r)
    BY <1>3, <1>5, <2>1, <2>2, HandlerShape
  <2>3. ASSUME NEW r \in Sessions, Starts(d, r) PROVE Good(lastSequenceNumber, s)'
    <3>1. CASE activeSessionId = s
      BY <1>1, <2>1, <3>1
    <3>2. CASE activeSessionId # s
      <4>1. PICK c \in Conns : c = socket
        BY <2>1, <3>2
      <4>2. socket' = c /\ Named(c, s)'
        BY <2>1, <3>2, <4>1
      <4>3. CASE c # d
        <5>1. Kept(c)
          BY <2>3, <4>3, StartsShape
        <5>2. Named(c, s)
          BY <4>1, <4>2, <5>1 DEF Kept, Calmer
        <5> QED BY <1>1, <2>1, <4>1, <5>2
      <4>4. CASE c = d
        <5>1. ConnShape(c) /\ Receives(c, "identify") /\ Attends(c)
          BY <2>3, <4>1, <4>4 DEF Starts, ShapeInv
        <5>2. Identifies(c)
          BY <5>1, ReadQueue DEF Identifies
        <5>3. lastSequenceNumber' = 0
          BY <2>1, <5>1, <5>2 DEF Attends, Blank
        <5> QED BY <5>3, ZeroGood
      <4> QED BY <4>3, <4>4
    <3> QED BY <3>1, <3>2
  <2> QED BY <2>2, <2>3
<1>6. CASE ClientKind
  <2>1. ASSUME NEW c \in Conns, Reconnect(c) PROVE Good(lastSequenceNumber, s)'
    <3>1. socket' = c /\ ~Named(c, s)'
      BY <2>1, ReconnectOpens, ReconnectShape
    <3>2. activeSessionId' = s
      <4>1. Named(socket, s)' => Named(c, s)'
        BY <3>1 DEF Named, Refers
      <4> QED BY <3>1, <4>1
    <3>3. UNCHANGED <<activeSessionId, lastSequenceNumber>>
      BY <1>0, <2>1, <3>2, ReconnectOpens
    <3> QED BY <1>1, <3>2, <3>3
  <2>2. CASE Disconnect
    <3>1. UNCHANGED <<activeSessionId, lastSequenceNumber, socket>>
      BY <2>2 DEF Disconnect
    <3>2. Named(socket, s)' => Named(socket, s)
      BY <2>2, DisconnectShape
    <3> QED BY <1>1, <3>1, <3>2
  <2>3. CASE ClientReceive
    <3>1. activeSessionId = s \/ Named(socket, s) => Grown(s)
      <4>1. socket \in Conns
        BY <2>3, ReceiveReads
      <4> QED BY <4>1, NamedGrows
    <3>2. socket' = socket
      BY <2>3, ReceiveReads
    <3> QED BY <2>3, <3>1, TakenNumber
  <2>4. CASE SendIdentify \/ SendHeartbeat
    <3>1. UNCHANGED <<activeSessionId, lastSequenceNumber, socket, session_pid, call, toClient>>
      BY <2>4 DEF SendIdentify, SendHeartbeat, handlerVars
    <3>2. socket \in Conns /\ Named(socket, s)' => Named(socket, s)
      <4>1. socket \in Conns /\ Mentions(toServer'[socket], s) => Mentions(toServer[socket], s)
        BY <2>4, SpokenNames
      <4> QED BY <3>1, <4>1 DEF Named, Refers
    <3> QED BY <1>1, <3>1, <3>2
  <2> QED BY <1>6, <2>1, <2>2, <2>3, <2>4 DEF ClientKind
<1> QED BY <1>2, <1>4, <1>5, <1>6, StepKind

\* No step breaks GoodInv.
LEMMA GoodStep ==
  ASSUME TypeOK, TypeOK', SwitchesOff, NumberInv, LinkInv, ShapeInv, ShapeInv', BufferInv, FactInv, GoodInv, [Next]_vars
  PROVE  GoodInv'
<1>1. \A c \in Conns : CallGood(call[c])'
  BY CallGoodStep
<1>2. \A c \in Conns : GapOK(c)'
  BY GapStep
<1>3. \A c \in Conns : \A f \in FrameType, s \in Sessions : OnServer(c, f)' /\ f.op # "identify" /\ Refers(c, s)' => Good(f.s, s)'
  BY ServerGood
<1>4. ASSUME NEW c \in Conns, c = socket', NEW s \in Sessions, Named(c, s)' PROVE Good(lastSequenceNumber, s)'
  <2>1. Named(socket, s)'
    BY <1>4 DEF Named, Refers
  <2> QED BY <1>4, <2>1, NumberGood
<1>5. \A s \in Sessions : alive'[s] => Good(ack_seq[s], s)'
  BY AckGood
<1>6. \A s \in Sessions : activeSessionId' = s => Good(lastSequenceNumber, s)'
  BY NumberGood
<1> QED BY <1>1, <1>2, <1>3, <1>4, <1>5, <1>6 DEF GoodInv
\* GoodInv holds at first.
LEMMA GoodInit == ASSUME Init PROVE GoodInv
<1>1. \A c \in Conns : toClient[c] = <<>> /\ toServer[c] = <<>> /\ call[c] = NoCall /\ c # socket
  BY SessionAssumption DEF Init
<1>2. \A s \in Sessions : ~alive[s] /\ activeSessionId # s /\ \A c \in Conns : socket_pid[s] # c
  BY SessionAssumption DEF Init
<1>3. DOMAIN <<>> = {}
  OBVIOUS
<1>4. CallGood(NoCall)
  BY DEF CallGood, NoCall
<1>5. \A c \in Conns : GapOK(c)
  BY <1>1, <1>2, <1>3 DEF GapOK, SessionGap, Ordered
<1>6. \A c \in Conns, f \in FrameType : ~OnServer(c, f)
  BY <1>1, <1>3 DEF OnServer
<1> QED BY <1>1, <1>2, <1>4, <1>5, <1>6 DEF GoodInv

\* Every number that is said of a session (by the client to itself, in a RESUME
\* or a heartbeat, by the session in ack_seq) counts events the client applied,
\* and what it has not applied is on its way to it or will be replayed.
THEOREM GoodInvariant == ASSUME SwitchesOff PROVE Spec => []GoodInv
<1>1. Init => GoodInv
  BY GoodInit
<1>2. TypeOK /\ TypeOK' /\ NumberInv /\ LinkInv /\ ShapeInv /\ ShapeInv' /\ BufferInv /\ FactInv /\ GoodInv /\ [Next]_vars => GoodInv'
  BY GoodStep
<1> QED BY <1>1, <1>2, TypeCorrect, NumberInvariant, LinkInvariant, ShapeInvariant, FactInvariant, BufferAlwaysSound,
           PTL DEF Spec

-----------------------------------------------------------------------------
(* What the protocol promises.                                             *)

\* The client's sequence number is cumulative (GatewaySocket's
\* lastSequenceNumber): it has applied every event of its session up to it.
THEOREM CumulativeNumber == ASSUME SwitchesOff PROVE Spec => []SequenceIsCumulative
<1>1. TypeOK /\ NumberInv /\ GoodInv => SequenceIsCumulative
  <2> SUFFICES ASSUME TypeOK, NumberInv, GoodInv, NEW s \in Sessions, activeSessionId = s,
                      NEW id \in 1..Len(log[s]), log[s][id].s <= lastSequenceNumber
               PROVE  id \in applied[s]
    BY DEF SequenceIsCumulative, TypeOK, ClientTypeOK, SessionOrNone
  <2>1. log[s][id].s = id /\ Good(lastSequenceNumber, s)
    BY DEF NumberInv, SessionNumbers, GoodInv
  <2>2. lastSequenceNumber \in Nat /\ Len(log[s]) \in Nat
    BY SessionValues DEF TypeOK, ClientTypeOK
  <2> QED BY <2>1, <2>2 DEF Good
<1> QED BY <1>1, TypeCorrect, NumberInvariant, GoodInvariant, PTL

\* The session trims its buffer (session's heartbeat_ack) only of events that
\* the client has applied.
THEOREM SafeAcknowledgement == ASSUME SwitchesOff PROVE Spec => []AckSafe
<1>1. TypeOK /\ NumberInv /\ GoodInv => AckSafe
  <2> SUFFICES ASSUME TypeOK, NumberInv, GoodInv, NEW s \in Sessions, alive[s],
                      NEW id \in 1..Len(log[s]), log[s][id].s <= ack_seq[s]
               PROVE  id \in applied[s]
    BY DEF AckSafe
  <2>1. log[s][id].s = id /\ Good(ack_seq[s], s)
    BY DEF NumberInv, SessionNumbers, GoodInv
  <2>2. ack_seq[s] \in Nat /\ Len(log[s]) \in Nat
    BY SessionValues
  <2> QED BY <2>1, <2>2 DEF Good
<1> QED BY <1>1, TypeCorrect, NumberInvariant, GoodInvariant, PTL

\* When RESUMED is the client's next frame (handle_resume_success), it has
\* applied everything the session had logged when it took the resume.
THEOREM CompleteResume == ASSUME SwitchesOff PROVE Spec => []ResumeIsComplete
<1>1. TypeOK /\ LinkInv /\ GoodInv => ResumeIsComplete
  <2> SUFFICES ASSUME TypeOK, LinkInv, GoodInv, socket # NoConn, toClient[socket] # <<>>,
                      Head(toClient[socket]).op = "resumed"
               PROVE  1..Head(toClient[socket]).id \subseteq applied[Head(toClient[socket]).sid]
    BY DEF ResumeIsComplete
  <2>1. PICK c \in Conns : c = socket
    BY ClientSocket
  <2>2. PICK q : q = toClient[c]
    OBVIOUS
  <2>3. q \in Seq(FrameType) /\ Head(q) = q[1] /\ 1 \in DOMAIN q /\ DOMAIN q = 1..Len(q)
    BY <2>1, <2>2, TailFrames DEF TypeOK, WireTypeOK
  <2>4. \A id \in 1..q[1].id : Reaches(q[1].sid, id, q, 1)
    BY <2>1, <2>2, <2>3 DEF GoodInv, GapOK, FrameGap
  <2>5. \A k \in DOMAIN q : k <= 1 => q[k].op \notin EventOps
    <3>1. \A k \in DOMAIN q : k <= 1 => k = 1
      BY <2>3
    <3> QED BY <2>1, <2>2, <2>3, <3>1 DEF EventOps
  <2> QED BY <2>1, <2>2, <2>3, <2>4, <2>5 DEF Reaches
<1> QED BY <1>1, TypeCorrect, LinkInvariant, GoodInvariant, PTL

\* A session never answers a RESUME of this client with invalid_seq.
THEOREM AcceptedResume == ASSUME SwitchesOff PROVE Spec => []ResumeNeverRefused
<1>1. GoodInv => ResumeNeverRefused
  BY DEF GoodInv, CallGood, ResumeNeverRefused
<1> QED BY <1>1, GoodInvariant, PTL

\* An event that overtakes another on a connection (a dispatch between the
\* session's answer and the replay) is followed by RESUMED.
THEOREM ConfinedReorder == ASSUME SwitchesOff PROVE Spec => []ReorderConfinedToReplay
<1>1. TypeOK /\ GoodInv => ReorderConfinedToReplay
  <2> SUFFICES ASSUME TypeOK, GoodInv, NEW c \in Conns, NEW i \in 1..Len(toClient[c]), NEW j \in 1..Len(toClient[c]),
                      i < j, toClient[c][i].op = "event", toClient[c][j].op = "event",
                      toClient[c][i].sid = toClient[c][j].sid, toClient[c][i].s > toClient[c][j].s
               PROVE  \E k \in j..Len(toClient[c]) : toClient[c][k].op = "resumed"
    BY DEF ReorderConfinedToReplay
  <2>1. DOMAIN toClient[c] = 1..Len(toClient[c]) /\ Len(toClient[c]) \in Nat
    BY LenProperties DEF TypeOK, WireTypeOK
  <2>2. Ordered(c)
    BY DEF GoodInv, GapOK
  <2>3. PICK k \in DOMAIN toClient[c] : k >= j /\ toClient[c][k].op = "resumed"
    BY <2>1, <2>2 DEF Ordered, EventOps
  <2>4. k \in j..Len(toClient[c])
    BY <2>1, <2>3
  <2> QED BY <2>3, <2>4
<1> QED BY <1>1, TypeCorrect, GoodInvariant, PTL
==============================================================================
