------------------------ MODULE GatewaySession_client ------------------------
(***************************************************************************)
(* Proofs about the connections of GatewaySession, for any sessions,       *)
(* connections and buffer limit, and any number of events and faults: how  *)
(* a session numbers its events, which connection is open, and which       *)
(* frames and calls may be under way on it.                                *)
(***************************************************************************)
EXTENDS GatewaySession_proofs

\* The four behaviours of the code that break the promises are left out.
SwitchesOff == MaxGuildLeaves = 0 /\ ReadyTail = 0 /\ ~ForegroundRecovery /\ ~LapseAtHello

-----------------------------------------------------------------------------
(* Numbers: a session numbers its events one by one.                       *)

\* A session that runs has numbered every event it logged, in the order of the
\* log; one that does not has nothing left.  READY is the only event that is
\* not buffered.
SessionNumbers(s) ==
  /\ alive[s] => seq[s] = Len(log[s])
  /\ ~alive[s] => seq[s] = 0 /\ ack_seq[s] = 0 /\ socket_pid[s] = NoConn
  /\ \A id \in 1..Len(log[s]) : log[s][id].s = id
  /\ ready[s] => \A id \in 1..Len(log[s]) : log[s][id].kept

NumberInv == \A s \in Sessions : SessionNumbers(s)

\* The entry of a log that grew by one.
LEMMA LoggedEvent ==
  ASSUME NEW entries \in Seq(LogEntry), NEW e \in LogEntry
  PROVE  /\ Append(entries, e) \in Seq(LogEntry)
         /\ Len(Append(entries, e)) = Len(entries) + 1 /\ Len(entries) \in Nat
         /\ Append(entries, e)[Len(entries) + 1] = e
         /\ \A id \in 1..Len(entries) : Append(entries, e)[id] = entries[id]
BY AppendProperties, LenProperties

\* One more event in the log of a session, with the next number.
Logs(s, kept) ==
  /\ seq' = [seq EXCEPT ![s] = @ + 1]
  /\ log' = [log EXCEPT ![s] = Append(@, [s |-> seq[s] + 1, kept |-> kept])]

\* A session that logs one more event numbers it next.
LEMMA LoggedNumbers ==
  ASSUME TypeOK, NEW s \in Sessions, NEW kept \in BOOLEAN, SessionNumbers(s), alive[s],
         Logs(s, kept), UNCHANGED <<alive, ack_seq, socket_pid>>, ready'[s] => ready[s] /\ kept
  PROVE  /\ SessionNumbers(s)'
         /\ Len(log'[s]) = Len(log[s]) + 1 /\ log'[s][Len(log[s]) + 1] = [s |-> seq[s] + 1, kept |-> kept]
         /\ \A id \in 1..Len(log[s]) : log'[s][id] = log[s][id]
<1> DEFINE e == [s |-> seq[s] + 1, kept |-> kept]
<1>1. log[s] \in Seq(LogEntry) /\ seq[s] \in Nat /\ Len(log[s]) \in Nat
  BY SessionValues
<1>2. e \in LogEntry /\ e.s = seq[s] + 1 /\ e.kept = kept
  BY <1>1 DEF LogEntry
<1>3. log'[s] = Append(log[s], e) /\ seq'[s] = seq[s] + 1
  BY <1>1 DEF Logs, TypeOK, SessionTypeOK
<1> HIDE DEF e
<1>4. /\ Len(log'[s]) = Len(log[s]) + 1 /\ log'[s][Len(log[s]) + 1] = e
      /\ \A id \in 1..Len(log[s]) : log'[s][id] = log[s][id]
  BY <1>1, <1>2, <1>3, LoggedEvent
<1>5. /\ seq'[s] = Len(log'[s])
      /\ \A id \in 1..Len(log'[s]) : log'[s][id].s = id
  <2>1. seq[s] = Len(log[s]) /\ \A id \in 1..Len(log[s]) : log[s][id].s = id
    BY DEF SessionNumbers
  <2>2. \A id \in 1..(Len(log[s]) + 1) : id \in 1..Len(log[s]) \/ id = Len(log[s]) + 1
    BY <1>1
  <2> QED BY <1>1, <1>2, <1>3, <1>4, <2>1, <2>2
<1>6. ready'[s] => \A id \in 1..Len(log'[s]) : log'[s][id].kept
  <2> SUFFICES ASSUME ready'[s], NEW id \in 1..(Len(log[s]) + 1) PROVE log'[s][id].kept
    BY <1>4
  <2>1. id \in 1..Len(log[s]) \/ id = Len(log[s]) + 1
    BY <1>1
  <2> QED BY <1>2, <1>4, <2>1 DEF SessionNumbers
<1> QED BY <1>4, <1>5, <1>6 DEF SessionNumbers, e

\* A session nobody touches keeps its numbers.
LEMMA UntouchedNumbers ==
  ASSUME NEW s \in Sessions, SessionNumbers(s),
         alive'[s] = alive[s], seq'[s] = seq[s], ack_seq'[s] = ack_seq[s],
         socket_pid'[s] = socket_pid[s], log'[s] = log[s], ready'[s] = ready[s]
  PROVE  SessionNumbers(s)'
BY DEF SessionNumbers

\* A session that stops leaves no numbers behind.
LEMMA StoppedNumbers ==
  ASSUME TypeOK, NumberInv, NEW s \in Sessions, Stop(s), UNCHANGED log
  PROVE  NumberInv'
<1> SUFFICES ASSUME NEW r \in Sessions PROVE SessionNumbers(r)'
  BY DEF NumberInv
<1>1. CASE r = s
  BY <1>1 DEF Stop, SessionNumbers, NumberInv, TypeOK, SessionTypeOK
<1>2. CASE r # s
  BY <1>2, UntouchedNumbers DEF Stop, NumberInv, TypeOK, SessionTypeOK
<1> QED BY <1>1, <1>2

\* Numbers are the session's own business: the steps of the others change at
\* most a session they start, attach to or acknowledge to.
-----------------------------------------------------------------------------
(* The kinds of steps, without the timers and the bounds.                  *)

sessions == <<alive, seq, ack_seq, socket_pid, ready, log>>
conns    == <<handler, session_pid, call, link, toServer>>
client   == <<connectionState, socket, activeSessionId, lastSequenceNumber,
              heartbeatTimeout, invalidSessionTimeout, applied>>

EventOps   == {"ready", "event"}
SessionOps == {"ready", "event", "resumed"}

\* Nothing of the protocol changes.
Still == UNCHANGED <<sessions, conns, toClient, client>>

\* A session logs an event and sends it: READY, once, or a buffered event.
Sends(s, op) ==
  /\ op \in EventOps /\ alive[s] /\ (op = "ready" => ready[s])
  /\ Logs(s, op = "event")
  /\ ready' = [ready EXCEPT ![s] = @ /\ op = "event"]
  /\ SendToSocket(s, <<Frame(op, s, seq[s] + 1, Len(log[s]) + 1)>>)
  /\ UNCHANGED <<alive, ack_seq, socket_pid, conns, client>>

\* A session ends.
Ends(s) == Stop(s) /\ UNCHANGED <<log, conns, toClient, client>>

\* A session hears that its socket is gone.
Detaches(s) ==
  /\ alive[s] /\ socket_pid' = [socket_pid EXCEPT ![s] = NoConn]
  /\ UNCHANGED <<alive, seq, ack_seq, ready, log, conns, toClient, client>>

\* A handler ends, with or without a last word.
Closes(c) ==
  /\ handler[c] /\ call[c].op # "replay" /\ \E code \in Nat : CloseWith(c, code)
  /\ UNCHANGED <<sessions, client>>

\* A handler starts a session for an IDENTIFY.
Starts(c, s) ==
  /\ Receives(c, "identify") /\ session_pid[c] = NoSession /\ StartSession(c, s)
  /\ UNCHANGED <<handler, call, link, toClient, connectionState, socket,
                 activeSessionId, lastSequenceNumber, heartbeatTimeout,
                 invalidSessionTimeout>>

\* A handler refuses an IDENTIFY or a RESUME.
Refuses(c) ==
  /\ \E op \in {"identify", "resume"} : Receives(c, op)
  /\ session_pid[c] = NoSession \/ Head(toServer[c]).op = "resume"
  /\ toClient' = Put(c, <<InvalidSession>>)
  /\ UNCHANGED <<sessions, handler, session_pid, call, link, client>>

\* A handler takes a RESUME to its session.
Calls(c) ==
  /\ Receives(c, "resume")
  /\ LET frame == Head(toServer[c])
     IN  call' = [call EXCEPT ![c] =
                    [NoCall EXCEPT !.op = "resume", !.sid = frame.sid, !.s = frame.s]]
  /\ UNCHANGED <<sessions, handler, session_pid, link, toClient, client>>

\* A handler writes the replay of a resume.
Finishes(c) ==
  /\ handler[c] /\ call[c].op = "replay"
  /\ toClient' = Put(c, ReplayFrames(call[c]))
  /\ session_pid' = [session_pid EXCEPT ![c] = call[c].sid]
  /\ call' = [call EXCEPT ![c] = NoCall]
  /\ UNCHANGED <<sessions, handler, link, toServer, client>>

\* A handler answers a heartbeat that its session, if it has one, accepts.
Acknowledges(c) ==
  /\ Receives(c, "heartbeat")
  /\ toClient' = Put(c, <<HeartbeatAck>>)
  /\ \/ ack_seq' = ack_seq
     \/ /\ session_pid[c] # NoSession /\ alive[session_pid[c]]
        /\ ack_seq' = [ack_seq EXCEPT ![session_pid[c]] = Head(toServer[c]).s]
  /\ UNCHANGED <<alive, seq, socket_pid, ready, log, handler, session_pid, call, link, client>>

SessionKind(s) ==
  \/ \E op \in EventOps : Sends(s, op)
  \/ Ends(s) \/ Detaches(s) \/ \E c \in Conns : ServeResume(s, c)

HandlerKind(c) ==
  \/ Closes(c) \/ Refuses(c) \/ Calls(c) \/ Finishes(c) \/ Acknowledges(c)
  \/ HandlerSessionDown(c) \/ Drop(c) \/ \E s \in Sessions : Starts(c, s)

ClientKind ==
  \/ \E c \in Conns : Reconnect(c)
  \/ Disconnect \/ ClientReceive \/ SendIdentify \/ SendHeartbeat

\* The function with one argument is the tuple.
LEMMA OneTuple ==
  ASSUME NEW x
  PROVE  [i \in 1..1 |-> x] = <<x>>
OBVIOUS

\* The frames of one event are one frame.
LEMMA OneEvent ==
  ASSUME NEW s, NEW e \in Event
  PROVE  EventFrames(s, <<e>>) = <<Frame("event", s, e.seq, e.id)>>
<1>1. Len(<<e>>) = 1 /\ <<e>>[1] = e
  OBVIOUS
<1>2. EventFrames(s, <<e>>) = [i \in 1..1 |-> Frame("event", s, e.seq, e.id)]
  <2>1. \A i \in 1..1 : <<e>>[i] = e
    OBVIOUS
  <2> QED BY <1>1, <2>1 DEF EventFrames
<1> QED BY <1>2

\* do_handle_dispatch sends an event, or the session will end itself.
LEMMA DispatchKind ==
  ASSUME TypeOK, NEW s \in Sessions, Dispatch(s)
  PROVE  Still \/ Sends(s, "event")
<1> USE DEF sessions, conns, client, clientVars
<1> DEFINE new == [seq |-> seq[s] + 1, id |-> Len(log[s]) + 1]
<1>1. CASE ReportOverflow(s)
  BY <1>1 DEF Dispatch, ReportOverflow, Still
<1>2. CASE /\ seq' = [seq EXCEPT ![s] = new.seq]
           /\ buffer' = [buffer EXCEPT ![s] = Append(@, new)]
           /\ log' = [log EXCEPT ![s] = Append(@, [s |-> new.seq, kept |-> TRUE])]
           /\ SendToSocket(s, EventFrames(s, <<new>>))
           /\ UNCHANGED <<doomed, backpressure, bounds>>
  <2>0. new.seq = seq[s] + 1 /\ new.id = Len(log[s]) + 1
    OBVIOUS
  <2>1. new \in Event /\ new.seq = seq[s] + 1 /\ new.id = Len(log[s]) + 1
    <3>1. new \in Event
      BY NewEventType, Zenon DEF SessionTypeOK, TypeOK
    <3> QED BY <2>0, <3>1
  <2> HIDE DEF new
  <2>2. EventFrames(s, <<new>>) = <<Frame("event", s, seq[s] + 1, Len(log[s]) + 1)>>
    BY <2>1, OneEvent
  <2>3. Logs(s, "event" = "event")
    BY <1>2, <2>1 DEF Logs, TypeOK, SessionTypeOK
  <2>4. ready' = [ready EXCEPT ![s] = @ /\ "event" = "event"]
    BY DEF Dispatch, TypeOK, SessionTypeOK
  <2>5. SendToSocket(s, <<Frame("event", s, seq[s] + 1, Len(log[s]) + 1)>>)
    BY <1>2, <2>2
  <2> QED BY <2>3, <2>4, <2>5 DEF Sends, EventOps, Dispatch
<1> QED BY <1>1, <1>2 DEF Dispatch

\* READY is sent alone, or the session ends.
LEMMA DispatchReadyKind ==
  ASSUME TypeOK, SwitchesOff, NEW s \in Sessions, DispatchReady(s)
  PROVE  Ends(s) \/ Sends(s, "ready")
<1> USE DEF sessions, conns, client, clientVars, handlerVars
<1>1. CASE socket_pid[s] = NoConn /\ Stop(s) /\ UNCHANGED <<log, toClient>>
  BY <1>1 DEF DispatchReady, Ends
<1> DEFINE n == 1 + ReadyTail
           FrameAt(i) == Frame(IF i = 1 THEN "ready" ELSE "event", s, seq[s] + i, Len(log[s]) + i)
           frames == [i \in 1..n |-> FrameAt(i)]
           EntryAt(i) == [s |-> seq[s] + i, kept |-> FALSE]
           entries == [i \in 1..n |-> EntryAt(i)]
<1>2. CASE /\ seq' = [seq EXCEPT ![s] = @ + n]
           /\ log' = [log EXCEPT ![s] = @ \o entries]
           /\ SendToSocket(s, frames)
           /\ ready' = [ready EXCEPT ![s] = FALSE]
           /\ UNCHANGED <<alive, ack_seq, buffer, socket_pid, timers, doomed>>
  <2>1. n = 1 /\ log[s] \in Seq(LogEntry) /\ seq[s] \in Nat /\ Len(log[s]) \in Nat
    BY SessionValues DEF SwitchesOff
  <2>2. frames = <<Frame("ready", s, seq[s] + 1, Len(log[s]) + 1)>>
    <3>0. \A i \in 1..1 : FrameAt(i) = Frame("ready", s, seq[s] + 1, Len(log[s]) + 1)
      OBVIOUS
    <3> HIDE DEF FrameAt
    <3>1. frames = [i \in 1..1 |-> Frame("ready", s, seq[s] + 1, Len(log[s]) + 1)]
      BY <2>1, <3>0
    <3> QED BY <3>1, OneTuple, Zenon
  <2>3. entries = <<[s |-> seq[s] + 1, kept |-> FALSE]>>
    <3>0. \A i \in 1..1 : EntryAt(i) = [s |-> seq[s] + 1, kept |-> FALSE]
      OBVIOUS
    <3> HIDE DEF EntryAt
    <3>1. entries = [i \in 1..1 |-> [s |-> seq[s] + 1, kept |-> FALSE]]
      BY <2>1, <3>0
    <3> QED BY <3>1, OneTuple, Zenon
  <2>4. log[s] \o <<[s |-> seq[s] + 1, kept |-> FALSE]>> = Append(log[s], [s |-> seq[s] + 1, kept |-> FALSE])
    <3>1. [s |-> seq[s] + 1, kept |-> FALSE] \in LogEntry
      BY <2>1 DEF LogEntry
    <3> QED BY <2>1, <3>1, AppendIsConcat
  <2>5. Logs(s, "ready" = "event")
    <3>1. ("ready" = "event") = FALSE
      OBVIOUS
    <3>2. seq' = [seq EXCEPT ![s] = @ + 1]
      BY <1>2, <2>1
    <3>3. log' = [log EXCEPT ![s] = Append(@, [s |-> seq[s] + 1, kept |-> FALSE])]
      BY <1>2, <2>3, <2>4
    <3> QED BY <3>1, <3>2, <3>3 DEF Logs
  <2>6. ready' = [ready EXCEPT ![s] = @ /\ "ready" = "event"]
    BY <1>2 DEF TypeOK, SessionTypeOK
  <2>7. SendToSocket(s, <<Frame("ready", s, seq[s] + 1, Len(log[s]) + 1)>>)
    BY <1>2, <2>2
  <2> QED BY <1>2, <2>5, <2>6, <2>7 DEF Sends, EventOps, DispatchReady
<1> QED BY <1>1, <1>2 DEF DispatchReady

\* The kinds of a session's step.
LEMMA SessionStepKind ==
  ASSUME TypeOK, SwitchesOff, NEW s \in Sessions, SessionStep(s)
  PROVE  Still \/ SessionKind(s)
<1> USE DEF sessions, conns, client, clientVars, handlerVars, wireVars
<1>1. ~GuildLeave(s)
  BY DEF GuildLeave, SwitchesOff, TypeOK, ClientTypeOK
<1>2. CASE SocketDown(s)
  BY <1>2 DEF SocketDown, Detaches, SessionKind
<1>3. CASE ResumeTimeout(s)
  <2>1. CASE Stop(s)
    BY <1>3, <2>1 DEF ResumeTimeout, Ends, SessionKind
  <2>2. CASE ~Stop(s)
    BY <1>3, <2>2 DEF ResumeTimeout, Still
  <2> QED BY <2>1, <2>2
<1>4. CASE Terminate(s)
  BY <1>4 DEF Terminate, Ends, SessionKind
<1>5. CASE Dispatch(s)
  BY <1>5, DispatchKind DEF SessionKind, EventOps
<1>6. CASE DispatchReady(s)
  BY <1>6, DispatchReadyKind DEF SessionKind, EventOps
<1> QED BY <1>1, <1>2, <1>3, <1>4, <1>5, <1>6 DEF SessionStep, SessionKind

\* The kinds of a handler's step.
LEMMA HandlerStepKind ==
  ASSUME TypeOK, NEW c \in Conns, HandlerStep(c)
  PROVE  HandlerKind(c)
<1> USE DEF sessions, conns, client, sessionVars, clientVars, handlerVars, wireVars
<1>0. /\ UnknownError \in Nat /\ AlreadyAuthenticated \in Nat /\ InvalidSeq \in Nat
      /\ SessionTimeout \in Nat /\ AckBackpressure \in Nat /\ AbnormalClosure \in Nat
  BY DEF UnknownError, AlreadyAuthenticated, InvalidSeq, SessionTimeout, AckBackpressure,
         AbnormalClosure
<1>1. CASE HandleIdentify(c)
  <2>1. CASE /\ Receives(c, "identify") /\ session_pid[c] = NoSession
             /\ \E s \in Sessions : StartSession(c, s)
             /\ UNCHANGED <<handler, call, backpressure, link, toClient, bounds>>
    BY <1>1, <2>1 DEF HandleIdentify, HandlerKind, Starts
  <2>2. CASE /\ Receives(c, "identify") /\ session_pid[c] = NoSession
             /\ Fault
             /\ toClient' = Put(c, <<InvalidSession>>)
             /\ UNCHANGED <<sessionVars, handlerVars, link, applied>>
    BY <1>1, <2>2 DEF HandleIdentify, HandlerKind, Refuses
  <2>3. CASE /\ handler[c] /\ call[c].op = "none"
             /\ \E code \in Nat : CloseWith(c, code)
             /\ UNCHANGED <<sessionVars, applied>>
    BY <1>1, <2>3 DEF HandleIdentify, HandlerKind, Closes
  <2> QED BY <1>0, <1>1, <2>1, <2>2, <2>3 DEF HandleIdentify
<1>2. CASE HandleResume(c)
  BY <1>2 DEF HandleResume, HandlerKind, Calls, Refuses, Receives
<1>3. CASE FinishResume(c)
  BY <1>0, <1>3 DEF FinishResume, HandlerKind, Finishes, Closes
<1>4. CASE ResumeCallExits(c)
  BY <1>0, <1>4 DEF ResumeCallExits, HandlerKind, Closes
<1>5. CASE HandleHeartbeat(c)
  <2> DEFINE n == Head(toServer[c]).s
  <2>1. CASE /\ Receives(c, "heartbeat") /\ toClient' = Put(c, <<HeartbeatAck>>)
             /\ UNCHANGED <<handlerVars, link>>
             /\ \/ UNCHANGED <<ack_seq, buffer>>
                \/ /\ session_pid[c] # NoSession /\ alive[session_pid[c]]
                   /\ ack_seq' = [ack_seq EXCEPT ![session_pid[c]] = n]
    BY <1>5, <2>1 DEF HandleHeartbeat, HandlerKind, Acknowledges
  <2>2. CASE CloseWith(c, InvalidSeq) /\ UNCHANGED <<ack_seq, buffer>>
    BY <1>0, <1>5, <2>2 DEF HandleHeartbeat, HandlerKind, Closes
  <2> QED BY <1>5, <2>1, <2>2 DEF HandleHeartbeat
<1>6. CASE HandlerCloses(c)
  BY <1>0, <1>6 DEF HandlerCloses, HandlerKind, Closes
<1>7. CASE HandlerLinkDown(c)
  <2>1. toClient' = Put(c, <<Close(0)>>)
    BY <1>7 DEF HandlerLinkDown, Put, TypeOK, WireTypeOK
  <2> QED BY <1>7, <2>1 DEF HandlerLinkDown, HandlerKind, Closes, CloseWith
<1> QED BY <1>1, <1>2, <1>3, <1>4, <1>5, <1>6, <1>7 DEF HandlerStep, HandlerKind

\* Every step is of one of these kinds.
LEMMA StepKind ==
  ASSUME TypeOK, SwitchesOff, [Next]_vars
  PROVE  \/ Still \/ ClientKind
         \/ \E s \in Sessions : SessionKind(s)
         \/ \E c \in Conns : HandlerKind(c)
<1>1. CASE UNCHANGED vars
  BY <1>1 DEF vars, sessionVars, handlerVars, wireVars, clientVars, Still, sessions, conns, client
<1>2. CASE ClientStep
  BY <1>2 DEF ClientStep, ClientKind, RecoverOnForeground, SwitchesOff
<1>3. ASSUME NEW c \in Conns, Drop(c) PROVE HandlerKind(c)
  BY <1>3 DEF HandlerKind
<1> QED BY <1>1, <1>2, <1>3, SessionStepKind, HandlerStepKind DEF Next

-----------------------------------------------------------------------------
(* Numbers are changed by the session, and by those who start it, attach to it *)
(* or acknowledge to it.                                                   *)

\* No step breaks the numbering.
LEMMA NumberStep ==
  ASSUME TypeOK, SwitchesOff, NumberInv, [Next]_vars
  PROVE  NumberInv'
<1> USE DEF sessions, TypeOK, SessionTypeOK
<1>0. TypeOK
  OBVIOUS
<1>1. CASE UNCHANGED sessions
  BY <1>1, UntouchedNumbers DEF NumberInv
<1>2. ASSUME NEW s \in Sessions, SessionKind(s) PROVE NumberInv'
  <2>1. ASSUME NEW op \in EventOps, Sends(s, op) PROVE NumberInv'
    <3> SUFFICES ASSUME NEW r \in Sessions PROVE SessionNumbers(r)'
      BY DEF NumberInv
    <3>1. CASE r = s
      <4>1. SessionNumbers(s) /\ alive[s] /\ (op = "event") \in BOOLEAN
        BY <2>1 DEF Sends, NumberInv
      <4>2. Logs(s, op = "event") /\ UNCHANGED <<alive, ack_seq, socket_pid>>
        BY <2>1 DEF Sends
      <4>3. ready'[s] => ready[s] /\ op = "event"
        BY <2>1 DEF Sends
      <4> QED BY <1>0, <3>1, <4>1, <4>2, <4>3, LoggedNumbers
    <3>2. CASE r # s
      BY <2>1, <3>2, UntouchedNumbers DEF Sends, Logs, NumberInv
    <3> QED BY <3>1, <3>2
  <2>2. CASE Ends(s)
    BY <1>0, <2>2, StoppedNumbers DEF Ends
  <2>3. CASE Detaches(s)
    BY <2>3 DEF Detaches, NumberInv, SessionNumbers
  <2>4. ASSUME NEW c \in Conns, ServeResume(s, c) PROVE NumberInv'
    BY <2>4 DEF ServeResume, NumberInv, SessionNumbers
  <2> QED BY <1>2, <2>1, <2>2, <2>3, <2>4 DEF SessionKind
<1>3. ASSUME NEW c \in Conns, HandlerKind(c) PROVE NumberInv'
  <2>1. ASSUME NEW s \in Sessions, Starts(c, s) PROVE NumberInv'
    <3> SUFFICES ASSUME NEW r \in Sessions PROVE SessionNumbers(r)'
      BY DEF NumberInv
    <3>1. CASE r = s
      <4>1. ~alive[s] /\ seq[s] = 0 /\ ack_seq[s] = 0 /\ log'[s] = <<>> /\ seq'[s] = 0 /\ alive'[s]
        BY <2>1 DEF Starts, StartSession, NumberInv, SessionNumbers
      <4>2. Len(log'[s]) = 0 /\ 1..0 = {}
        BY <4>1
      <4> QED BY <3>1, <4>1, <4>2 DEF SessionNumbers
    <3>2. CASE r # s
      BY <2>1, <3>2, UntouchedNumbers DEF Starts, StartSession, NumberInv
    <3> QED BY <3>1, <3>2
  <2>2. CASE Acknowledges(c)
    <3>1. session_pid[c] # NoSession => session_pid[c] \in Sessions
      BY DEF HandlerTypeOK, SessionOrNone
    <3> QED BY <2>2, <3>1 DEF Acknowledges, NumberInv, SessionNumbers
  <2>3. CASE UNCHANGED sessions
    BY <1>1, <2>3
  <2>4. HandlerSessionDown(c) \/ Drop(c) => UNCHANGED sessions
    BY DEF HandlerSessionDown, Drop, sessionVars
  <2>5. Closes(c) \/ Refuses(c) \/ Calls(c) \/ Finishes(c) => UNCHANGED sessions
    BY DEF Closes, Refuses, Calls, Finishes
  <2> QED BY <1>3, <2>1, <2>2, <2>3, <2>4, <2>5 DEF HandlerKind
<1>4. CASE ClientKind
  <2>1. UNCHANGED sessions
    BY <1>4 DEF ClientKind, Reconnect, Disconnect, ClientReceive, SendIdentify, SendHeartbeat, sessionVars
  <2> QED BY <1>1, <2>1
<1>5. CASE Still
  BY <1>1, <1>5 DEF Still
<1> QED BY <1>0, <1>2, <1>3, <1>4, <1>5, StepKind

\* A running session has numbered its events one by one, as they are in the log,
\* and one that is to send READY has buffered all of them; a stopped session has
\* left no numbers for the next one of its name.
THEOREM NumberInvariant == ASSUME SwitchesOff PROVE Spec => []NumberInv
<1>1. Init => NumberInv
  <2> SUFFICES ASSUME Init, NEW s \in Sessions PROVE SessionNumbers(s)
    BY DEF NumberInv
  <2>1. ~alive[s] /\ ~ready[s] /\ seq[s] = 0 /\ ack_seq[s] = 0 /\ socket_pid[s] = NoConn /\ log[s] = <<>>
    BY DEF Init
  <2>2. Len(log[s]) = 0 /\ 1..0 = {}
    BY <2>1
  <2> QED BY <2>1, <2>2 DEF SessionNumbers
<1>2. TypeOK /\ NumberInv /\ [Next]_vars => NumberInv'
  BY NumberStep
<1> QED BY <1>1, <1>2, TypeCorrect, PTL DEF Spec

-----------------------------------------------------------------------------
(* What is written to a connection.                                        *)

\* The frames of q that follow one another and then those of new.
LEMMA ConcatFrames ==
  ASSUME NEW S, NEW q \in Seq(S), NEW new \in Seq(S)
  PROVE  /\ q \o new \in Seq(S)
         /\ \A i \in DOMAIN q : i \in DOMAIN (q \o new) /\ (q \o new)[i] = q[i]
         /\ \A k \in DOMAIN new : Len(q) + k \in DOMAIN (q \o new) /\ (q \o new)[Len(q) + k] = new[k]
         /\ \A i \in DOMAIN (q \o new) :
              \/ i \in DOMAIN q
              \/ \E k \in DOMAIN new : i = Len(q) + k
         /\ DOMAIN q = 1..Len(q) /\ Len(q) \in Nat
         /\ DOMAIN new = 1..Len(new) /\ Len(new) \in Nat
         /\ DOMAIN (q \o new) = 1..(Len(q) + Len(new)) /\ Len(q \o new) = Len(q) + Len(new)
<1>1. /\ Len(q) \in Nat /\ DOMAIN q = 1..Len(q) /\ Len(new) \in Nat /\ DOMAIN new = 1..Len(new)
  BY LenProperties
<1>2. /\ q \o new \in Seq(S) /\ Len(q \o new) = Len(q) + Len(new)
      /\ \A i \in 1..(Len(q) + Len(new)) :
           (q \o new)[i] = IF i <= Len(q) THEN q[i] ELSE new[i - Len(q)]
  BY ConcatProperties
<1>3. DOMAIN (q \o new) = 1..(Len(q) + Len(new))
  BY <1>2, LenProperties
<1> DEFINE t == q \o new
<1>4. \A i \in 1..Len(q) : i \in 1..(Len(q) + Len(new)) /\ i <= Len(q)
  BY <1>1
<1>5. \A k \in 1..Len(new) :
        Len(q) + k \in 1..(Len(q) + Len(new)) /\ ~(Len(q) + k <= Len(q)) /\ (Len(q) + k) - Len(q) = k
  BY <1>1
<1>6. \A i \in 1..(Len(q) + Len(new)) :
        i \in 1..Len(q) \/ \E k \in 1..Len(new) : i = Len(q) + k
  <2> TAKE i \in 1..(Len(q) + Len(new))
  <2>1. CASE i > Len(q)
    <3>1. i - Len(q) \in 1..Len(new) /\ i = Len(q) + (i - Len(q))
      BY <1>1, <2>1
    <3> QED BY <3>1
  <2> QED BY <1>1, <2>1
<1>7. \A i \in DOMAIN q : i \in DOMAIN (q \o new) /\ (q \o new)[i] = q[i]
  BY <1>1, <1>2, <1>3, <1>4
<1>8. \A k \in DOMAIN new : Len(q) + k \in DOMAIN (q \o new) /\ (q \o new)[Len(q) + k] = new[k]
  BY <1>1, <1>2, <1>3, <1>5
<1> QED BY <1>1, <1>2, <1>3, <1>6, <1>7, <1>8

\* The frames of a queue that was extended.
LEMMA ExtendedFrames ==
  ASSUME NEW q \in Seq(FrameType), NEW new \in Seq(FrameType), NEW t, t = q \o new
  PROVE  /\ t \in Seq(FrameType) /\ Len(t) = Len(q) + Len(new)
         /\ Len(q) \in Nat /\ DOMAIN q = 1..Len(q) /\ Len(new) \in Nat /\ DOMAIN new = 1..Len(new)
         /\ \A i \in DOMAIN q : i \in DOMAIN t /\ t[i] = q[i]
         /\ \A k \in DOMAIN new : Len(q) + k \in DOMAIN t /\ t[Len(q) + k] = new[k]
         /\ \A i \in DOMAIN t : i \in DOMAIN q \/ \E k \in DOMAIN new : i = Len(q) + k
BY ConcatFrames

\* The frames of q but the first.
LEMMA TailFrames ==
  ASSUME NEW S, NEW q \in Seq(S), q # <<>>
  PROVE  /\ Tail(q) \in Seq(S) /\ Head(q) = q[1] /\ 1 \in DOMAIN q /\ q[1] \in S
         /\ \A i \in DOMAIN Tail(q) : i \in Nat /\ i > 0 /\ i + 1 \in DOMAIN q /\ Tail(q)[i] = q[i + 1]
         /\ \A i \in DOMAIN q : i = 1 \/ (i > 1 /\ i - 1 \in DOMAIN Tail(q) /\ q[i] = Tail(q)[i - 1])
         /\ DOMAIN q = 1..Len(q) /\ Len(q) \in Nat /\ Len(Tail(q)) = Len(q) - 1
<1>1. Len(q) \in Nat /\ DOMAIN q = 1..Len(q) /\ Len(q) > 0
  BY LenProperties, EmptySeq
<1>2. /\ Tail(q) \in Seq(S) /\ Len(Tail(q)) = Len(q) - 1
      /\ \A i \in 1..(Len(q) - 1) : Tail(q)[i] = q[i + 1]
      /\ Head(q) = q[1]
  BY HeadTailProperties
<1>3. DOMAIN Tail(q) = 1..(Len(q) - 1)
  BY <1>2, LenProperties
<1>4. \A i \in 1..(Len(q) - 1) : i \in Nat /\ i > 0 /\ i + 1 \in 1..Len(q)
  BY <1>1
<1>5. \A i \in 1..Len(q) : i = 1 \/ (i > 1 /\ i - 1 \in 1..(Len(q) - 1) /\ (i - 1) + 1 = i)
  BY <1>1
<1>6. 1 \in DOMAIN q /\ q[1] \in S
  BY <1>1, ElementOfSeq
<1>7. \A i \in DOMAIN Tail(q) : i \in Nat /\ i > 0 /\ i + 1 \in DOMAIN q /\ Tail(q)[i] = q[i + 1]
  BY <1>1, <1>2, <1>3, <1>4
<1>8. \A i \in DOMAIN q : i = 1 \/ (i > 1 /\ i - 1 \in DOMAIN Tail(q) /\ q[i] = Tail(q)[i - 1])
  BY <1>1, <1>2, <1>3, <1>5
<1> QED BY <1>1, <1>2, <1>6, <1>7, <1>8

\* frames is what the step writes to the connection c, or nothing if its
\* WebSocket is closed; other connections get nothing.
Wrote(c, frames) ==
  \A d \in Conns : toClient'[d] = IF d = c /\ link[d] THEN toClient[d] \o frames ELSE toClient[d]

\* Put writes its frames to the one connection.
LEMMA PutWrites ==
  ASSUME TypeOK, NEW c \in Conns, NEW frames \in Seq(FrameType), toClient' = Put(c, frames)
  PROVE  Wrote(c, frames)
BY DEF Wrote, Put, TypeOK, WireTypeOK

\* A step that leaves the queues writes nothing.
LEMMA NothingWritten ==
  ASSUME TypeOK, toClient' = toClient
  PROVE  Wrote(NoConn, <<>>)
BY SessionAssumption DEF Wrote

\* The frames of a replay: the missed events, then RESUMED.
LEMMA ReplayedFrames ==
  ASSUME NEW done \in CallType
  PROVE  /\ ReplayFrames(done) \in Seq(FrameType)
         /\ Len(done.missed) \in Nat /\ DOMAIN ReplayFrames(done) = 1..(Len(done.missed) + 1)
         /\ \A i \in 1..Len(done.missed) :
              LET frame == ReplayFrames(done)[i]
              IN  /\ frame.op = "event" /\ frame.sid = done.sid
                  /\ frame.s = done.missed[i].seq /\ frame.id = done.missed[i].id
         /\ LET frame == ReplayFrames(done)[Len(done.missed) + 1]
            IN  frame.op = "resumed" /\ frame.sid = done.sid /\ frame.id = done.upto
<1>1. done.sid \in SessionOrNone /\ done.missed \in Seq(Event) /\ done.s \in Nat /\ done.upto \in Nat
  BY DEF CallType
<1>2. Len(done.missed) \in Nat
  BY <1>1, LenProperties
<1>3. EventFrames(done.sid, done.missed) \in Seq(FrameType)
  BY <1>1, EventFramesType
<1>4. Len(EventFrames(done.sid, done.missed)) = Len(done.missed)
  <2>1. EventFrames(done.sid, done.missed) \in [1..Len(done.missed) -> FrameType]
    BY <1>3, <1>2, LenProperties DEF EventFrames
  <2> QED BY <1>2, <2>1, IndexedSeq
<1>5. Frame("resumed", done.sid, done.s, done.upto) \in FrameType
  BY <1>1, FrameProperties DEF Op
<1>6. \A i \in 1..Len(done.missed) :
        EventFrames(done.sid, done.missed)[i] =
          Frame("event", done.sid, done.missed[i].seq, done.missed[i].id)
  BY DEF EventFrames
<1>7. /\ ReplayFrames(done) \in Seq(FrameType) /\ Len(ReplayFrames(done)) = Len(done.missed) + 1
      /\ ReplayFrames(done)[Len(done.missed) + 1] = Frame("resumed", done.sid, done.s, done.upto)
      /\ \A i \in 1..Len(done.missed) :
           ReplayFrames(done)[i] = EventFrames(done.sid, done.missed)[i]
  BY <1>3, <1>4, <1>5, AppendProperties DEF ReplayFrames
<1>8. DOMAIN ReplayFrames(done) = 1..(Len(done.missed) + 1)
  BY <1>7, LenProperties
<1>9. ASSUME NEW i \in 1..Len(done.missed)
      PROVE  LET frame == Frame("event", done.sid, done.missed[i].seq, done.missed[i].id)
             IN  /\ frame.op = "event" /\ frame.sid = done.sid
                 /\ frame.s = done.missed[i].seq /\ frame.id = done.missed[i].id
  <2>1. done.missed[i].seq \in Nat /\ done.missed[i].id \in Nat /\ "event" \in Op
    BY <1>1, EventFields DEF Op
  <2> QED BY <1>1, <2>1, FrameProperties
<1>10. LET frame == Frame("resumed", done.sid, done.s, done.upto)
       IN  frame.op = "resumed" /\ frame.sid = done.sid /\ frame.id = done.upto
  <2>1. "resumed" \in Op
    BY DEF Op
  <2> QED BY <1>1, <2>1, FrameProperties
<1> QED BY <1>2, <1>6, <1>7, <1>8, <1>9, <1>10

-----------------------------------------------------------------------------
(* Connections: only the client's present socket is open.                  *)

\* An open WebSocket is the client's, and its handler runs; a handler that
\* ended leaves nothing behind; a close is the last frame, and after the loss of
\* a connection there is no other.
LinkOK(c) ==
  /\ link[c] => c = socket /\ handler[c]
  /\ c # socket => toClient[c] = <<>>
  /\ ~handler[c] => session_pid[c] = NoSession /\ call[c] = NoCall /\ toServer[c] = <<>>
  /\ \A i \in DOMAIN toClient[c] :
       /\ toClient[c][i].op = "close" => i = Len(toClient[c]) /\ ~link[c]
       /\ toClient[c][i].op # "close" => link[c] \/ ~handler[c]

\* A client without a connection waits for nothing.
ClientRests ==
  /\ connectionState \in {"Disconnected", "Reconnecting"} =>
       /\ ~invalidSessionTimeout
       /\ socket # NoConn => ~link[socket] /\ toClient[socket] = <<>>
  /\ socket = NoConn => connectionState = "Disconnected"

LinkInv == (\A c \in Conns : LinkOK(c)) /\ ClientRests

\* A step that writes frames to a connection, none of them a close.
LEMMA LinkWritten ==
  ASSUME TypeOK, LinkInv, NEW c \in ConnOrNone, NEW frames \in Seq(FrameType), Wrote(c, frames),
         \A k \in DOMAIN frames : frames[k].op # "close",
         UNCHANGED <<link, handler, socket, connectionState>>,
         invalidSessionTimeout' => invalidSessionTimeout,
         \A d \in Conns : ~handler[d] =>
           UNCHANGED <<session_pid[d], call[d], toServer[d]>>
  PROVE  LinkInv'
<1>1. ASSUME NEW d \in Conns PROVE LinkOK(d)'
  <2>1. LinkOK(d)
    BY DEF LinkInv
  <2>2. CASE d = c /\ link[d]
    <3>1. toClient[d] \in Seq(FrameType)
      BY DEF TypeOK, WireTypeOK
    <3>2. toClient'[d] = toClient[d] \o frames
      BY <2>2 DEF Wrote
    <3>3. \A i \in DOMAIN toClient[d] : toClient[d][i].op # "close"
      BY <2>1, <2>2 DEF LinkOK
    <3>4. \A i \in DOMAIN toClient'[d] : toClient'[d][i].op # "close"
      BY <3>1, <3>2, <3>3, ConcatFrames
    <3> QED BY <2>1, <2>2, <3>4 DEF LinkOK
  <2>3. CASE ~(d = c /\ link[d])
    <3>1. toClient'[d] = toClient[d]
      BY <2>3 DEF Wrote
    <3> QED BY <2>1, <3>1 DEF LinkOK
  <2> QED BY <2>2, <2>3
<1>2. ClientRests'
  <2>1. socket # NoConn => socket \in Conns
    BY DEF TypeOK, ClientTypeOK, ConnOrNone
  <2>2. socket # NoConn /\ ~link[socket] => toClient'[socket] = toClient[socket]
    BY <2>1 DEF Wrote
  <2> QED BY <2>2 DEF LinkInv, ClientRests
<1> QED BY <1>1, <1>2 DEF LinkInv

\* A step that writes nothing.
LEMMA LinkUntouched ==
  ASSUME TypeOK, LinkInv, UNCHANGED <<toClient, link, handler, socket, connectionState>>,
         invalidSessionTimeout' => invalidSessionTimeout,
         \A d \in Conns : ~handler[d] =>
           UNCHANGED <<session_pid[d], call[d], toServer[d]>>
  PROVE  LinkInv'
BY DEF LinkInv, LinkOK, ClientRests

\* What a session sends goes to its connection.
LEMMA SendsWrites ==
  ASSUME TypeOK, LinkInv, NEW s \in Sessions, NEW op \in EventOps, Sends(s, op)
  PROVE  LET frame == Frame(op, s, seq[s] + 1, Len(log[s]) + 1)
         IN  /\ <<frame>> \in Seq(FrameType) /\ DOMAIN <<frame>> = {1} /\ <<frame>>[1] = frame
             /\ frame \in FrameType /\ frame.op = op /\ frame.sid = s
             /\ frame.s = seq[s] + 1 /\ frame.id = Len(log[s]) + 1
             /\ socket_pid[s] \in ConnOrNone /\ Wrote(socket_pid[s], <<frame>>)
<1> DEFINE frame == Frame(op, s, seq[s] + 1, Len(log[s]) + 1)
<1>1. seq[s] + 1 \in Nat /\ Len(log[s]) + 1 \in Nat /\ s \in SessionOrNone /\ op \in Op
  BY SessionValues DEF SessionOrNone, EventOps, Op
<1>2. /\ frame \in FrameType /\ frame.op = op /\ frame.sid = s
      /\ frame.s = seq[s] + 1 /\ frame.id = Len(log[s]) + 1
  BY <1>1, FrameProperties
<1> HIDE DEF frame
<1>3. <<frame>> \in Seq(FrameType) /\ DOMAIN <<frame>> = {1} /\ <<frame>>[1] = frame
  BY <1>2
<1>4. socket_pid[s] \in ConnOrNone
  BY DEF TypeOK, SessionTypeOK
<1>5. SendToSocket(s, <<frame>>)
  BY DEF Sends, frame
<1>6. CASE Runs(socket_pid[s])
  <2>1. socket_pid[s] \in Conns /\ toClient' = Put(socket_pid[s], <<frame>>)
    BY <1>4, <1>5, <1>6 DEF SendToSocket, Runs, ConnOrNone
  <2> QED BY <1>2, <1>3, <1>4, <2>1, PutWrites DEF frame
<1>7. CASE ~Runs(socket_pid[s])
  <2>1. toClient' = toClient
    BY <1>5, <1>7 DEF SendToSocket
  <2>2. \A d \in Conns : d = socket_pid[s] => ~link[d]
    BY <1>7, SessionAssumption DEF LinkInv, LinkOK, Runs
  <2>3. Wrote(socket_pid[s], <<frame>>)
    BY <2>1, <2>2 DEF Wrote
  <2> QED BY <1>2, <1>3, <1>4, <2>3 DEF frame
<1> QED BY <1>6, <1>7

\* Frames of one kind that handlers write.
LEMMA AnswerFrames ==
  /\ <<InvalidSession>> \in Seq(FrameType) /\ DOMAIN <<InvalidSession>> = {1}
  /\ <<InvalidSession>>[1].op = "invalid_session" /\ <<InvalidSession>>[1].sid = NoSession
  /\ <<HeartbeatAck>> \in Seq(FrameType) /\ DOMAIN <<HeartbeatAck>> = {1}
  /\ <<HeartbeatAck>>[1].op = "heartbeat_ack" /\ <<HeartbeatAck>>[1].sid = NoSession
  /\ \A code \in Nat :
       /\ <<Close(code)>> \in Seq(FrameType) /\ DOMAIN <<Close(code)>> = {1} /\ Len(<<Close(code)>>) = 1
       /\ <<Close(code)>>[1].op = "close" /\ <<Close(code)>>[1].sid = NoSession
  /\ <<Hello>> \in Seq(FrameType) /\ DOMAIN <<Hello>> = {1} /\ Len(<<Hello>>) = 1
  /\ <<Hello>>[1].op = "hello" /\ <<Hello>>[1].sid = NoSession
BY PlainFrames, FrameProperties
   DEF InvalidSession, HeartbeatAck, Close, Hello, Frame, Op, SessionOrNone

\* The links after a step of a session.
LEMMA LinkSession ==
  ASSUME TypeOK, LinkInv, NEW s \in Sessions, SessionKind(s)
  PROVE  LinkInv'
<1> USE DEF conns, client
<1>1. ASSUME NEW op \in EventOps, Sends(s, op) PROVE LinkInv'
  <2> DEFINE frame == Frame(op, s, seq[s] + 1, Len(log[s]) + 1)
  <2>1. /\ <<frame>> \in Seq(FrameType) /\ DOMAIN <<frame>> = {1} /\ <<frame>>[1] = frame
        /\ frame.op = op /\ socket_pid[s] \in ConnOrNone /\ Wrote(socket_pid[s], <<frame>>)
    BY <1>1, SendsWrites
  <2> HIDE DEF frame
  <2>2. \A k \in DOMAIN <<frame>> : <<frame>>[k].op # "close"
    BY <2>1 DEF EventOps
  <2> QED BY <1>1, <2>1, <2>2, LinkWritten DEF Sends
<1>2. CASE Ends(s)
  BY <1>2, LinkUntouched DEF Ends
<1>3. CASE Detaches(s)
  BY <1>3, LinkUntouched DEF Detaches
<1>4. ASSUME NEW c \in Conns, ServeResume(s, c) PROVE LinkInv'
  <2>1. handler[c]
    BY <1>4 DEF ServeResume, LinkInv, LinkOK, NoCall
  <2>2. \A d \in Conns : ~handler[d] => UNCHANGED <<session_pid[d], call[d], toServer[d]>>
    BY <1>4, <2>1 DEF ServeResume, wireVars, TypeOK, HandlerTypeOK
  <2> QED BY <1>4, <2>2, LinkUntouched DEF ServeResume, wireVars, clientVars
<1> QED BY <1>1, <1>2, <1>3, <1>4 DEF SessionKind

\* A handler that ends, saying so to its client if it can.
LEMMA LinkClosed ==
  ASSUME TypeOK, LinkInv, NEW c \in Conns, Closes(c)
  PROVE  LinkInv'
<1> USE DEF conns, client
<1>1. PICK code \in Nat : HandlerEnds(c) /\ toClient' = Put(c, <<Close(code)>>)
  BY DEF Closes, CloseWith
<1>2. /\ <<Close(code)>> \in Seq(FrameType) /\ DOMAIN <<Close(code)>> = {1} /\ Len(<<Close(code)>>) = 1
      /\ <<Close(code)>>[1].op = "close"
  BY AnswerFrames
<1>3. Wrote(c, <<Close(code)>>)
  BY <1>1, <1>2, PutWrites
<1> DEFINE new == <<Close(code)>>
<1> HIDE DEF new
<1>4. UNCHANGED client
  BY DEF Closes
<1>5. ASSUME NEW d \in Conns PROVE LinkOK(d)'
  <2>1. LinkOK(d)
    BY DEF LinkInv
  <2>2. CASE d = c
    <3>1. ~handler'[c] /\ ~link'[c] /\ session_pid'[c] = NoSession /\ call'[c] = NoCall /\ toServer'[c] = <<>>
      BY <1>1 DEF HandlerEnds, TypeOK, HandlerTypeOK, WireTypeOK
    <3>2. CASE link[c]
      <4>1. toClient[c] \in Seq(FrameType) /\ toClient'[c] = toClient[c] \o new
        BY <1>3, <3>2 DEF TypeOK, WireTypeOK, Wrote, new
      <4>2. \A i \in DOMAIN toClient'[c] : toClient'[c][i].op = "close" => i = Len(toClient'[c])
        <5>1. new \in Seq(FrameType) /\ DOMAIN new = {1} /\ Len(new) = 1
          BY <1>2 DEF new
        <5>2. \A i \in DOMAIN toClient[c] : toClient[c][i].op # "close"
          BY <2>1, <2>2, <3>2 DEF LinkOK
        <5>3. /\ \A i \in DOMAIN toClient'[c] :
                   \/ i \in DOMAIN toClient[c] /\ toClient'[c][i] = toClient[c][i]
                   \/ \E k \in DOMAIN new : i = Len(toClient[c]) + k
              /\ Len(toClient'[c]) = Len(toClient[c]) + Len(new)
          <6> DEFINE q == toClient[c]
                     t == toClient'[c]
          <6>1. q \in Seq(FrameType) /\ new \in Seq(FrameType) /\ t = q \o new
            BY <4>1, <5>1
          <6> HIDE DEF q, t
          <6>2. Len(t) = Len(q) + Len(new)
            BY <6>1, ExtendedFrames
          <6>3. \A i \in DOMAIN q : t[i] = q[i]
            BY <6>1, ExtendedFrames
          <6>4. \A i \in DOMAIN t : i \in DOMAIN q \/ \E k \in DOMAIN new : i = Len(q) + k
            BY <6>1, ExtendedFrames
          <6> QED BY <6>2, <6>3, <6>4 DEF q, t
        <5> QED BY <5>1, <5>2, <5>3
      <4> QED BY <1>4, <2>1, <2>2, <3>1, <3>2, <4>2 DEF LinkOK
    <3>3. CASE ~link[c]
      <4>1. toClient'[c] = toClient[c]
        BY <1>3, <3>3 DEF Wrote
      <4> QED BY <1>4, <2>1, <2>2, <3>1, <4>1 DEF LinkOK
    <3> QED BY <3>2, <3>3
  <2>3. CASE d # c
    <3>1. /\ toClient'[d] = toClient[d] /\ handler'[d] = handler[d] /\ link'[d] = link[d]
          /\ session_pid'[d] = session_pid[d] /\ call'[d] = call[d] /\ toServer'[d] = toServer[d]
      BY <1>1, <1>3, <2>3 DEF Wrote, HandlerEnds, TypeOK, HandlerTypeOK, WireTypeOK
    <3> QED BY <1>4, <2>1, <3>1 DEF LinkOK
  <2> QED BY <2>2, <2>3
<1>6. ClientRests'
  <2>1. socket # NoConn => socket \in Conns
    BY DEF TypeOK, ClientTypeOK, ConnOrNone
  <2>2. socket # NoConn /\ ~link[socket] => toClient'[socket] = toClient[socket] /\ ~link'[socket]
    BY <1>1, <1>3, <2>1 DEF Wrote, HandlerEnds, TypeOK, WireTypeOK
  <2> QED BY <1>4, <2>2 DEF LinkInv, ClientRests
<1> QED BY <1>5, <1>6 DEF LinkInv

\* The links after a step of a handler.
LEMMA LinkHandler ==
  ASSUME TypeOK, LinkInv, NEW c \in Conns, HandlerKind(c)
  PROVE  LinkInv'
<1> USE DEF conns, client
<1>1. CASE Closes(c)
  BY <1>1, LinkClosed
<1>2. CASE Refuses(c)
  <2>1. Wrote(c, <<InvalidSession>>) /\ \A k \in DOMAIN <<InvalidSession>> : <<InvalidSession>>[k].op # "close"
    BY <1>2, PutWrites, AnswerFrames DEF Refuses
  <2>2. \A d \in Conns : ~handler[d] => UNCHANGED <<session_pid[d], call[d], toServer[d]>>
    BY <1>2 DEF Refuses, Receives, TypeOK, WireTypeOK
  <2>3. c \in ConnOrNone /\ <<InvalidSession>> \in Seq(FrameType)
    BY AnswerFrames DEF ConnOrNone
  <2> QED BY <1>2, <2>1, <2>2, <2>3, LinkWritten DEF Refuses
<1>3. CASE Calls(c)
  <2>1. \A d \in Conns : ~handler[d] => UNCHANGED <<session_pid[d], call[d], toServer[d]>>
    BY <1>3 DEF Calls, Receives, TypeOK, WireTypeOK, HandlerTypeOK
  <2> QED BY <1>3, <2>1, LinkUntouched DEF Calls
<1>4. CASE Finishes(c)
  <2>1. call[c] \in CallType
    BY DEF TypeOK, HandlerTypeOK
  <2> DEFINE new == ReplayFrames(call[c])
  <2>2. new \in Seq(FrameType) /\ \A k \in DOMAIN new : new[k].op # "close"
    <3>1. \A k \in 1..(Len(call[c].missed) + 1) : k \in 1..Len(call[c].missed) \/ k = Len(call[c].missed) + 1
      BY <2>1, ReplayedFrames
    <3>2. \A k \in 1..Len(call[c].missed) : new[k].op = "event"
      BY <2>1, ReplayedFrames
    <3>3. new[Len(call[c].missed) + 1].op = "resumed"
      BY <2>1, ReplayedFrames
    <3>4. new \in Seq(FrameType) /\ DOMAIN new = 1..(Len(call[c].missed) + 1)
      BY <2>1, ReplayedFrames
    <3> HIDE DEF new
    <3> QED BY <3>1, <3>2, <3>3, <3>4
  <2>3. Wrote(c, new)
    BY <1>4, <2>2, PutWrites DEF Finishes
  <2> HIDE DEF new
  <2>4. \A d \in Conns : ~handler[d] => UNCHANGED <<session_pid[d], call[d], toServer[d]>>
    BY <1>4 DEF Finishes, TypeOK, HandlerTypeOK
  <2>5. c \in ConnOrNone
    BY DEF ConnOrNone
  <2> QED BY <1>4, <2>2, <2>3, <2>4, <2>5, LinkWritten DEF Finishes
<1>5. CASE Acknowledges(c)
  <2>1. Wrote(c, <<HeartbeatAck>>) /\ \A k \in DOMAIN <<HeartbeatAck>> : <<HeartbeatAck>>[k].op # "close"
    BY <1>5, PutWrites, AnswerFrames DEF Acknowledges
  <2>2. \A d \in Conns : ~handler[d] => UNCHANGED <<session_pid[d], call[d], toServer[d]>>
    BY <1>5 DEF Acknowledges, Receives, TypeOK, WireTypeOK
  <2>3. c \in ConnOrNone /\ <<HeartbeatAck>> \in Seq(FrameType)
    BY AnswerFrames DEF ConnOrNone
  <2> QED BY <1>5, <2>1, <2>2, <2>3, LinkWritten DEF Acknowledges
<1>6. CASE HandlerSessionDown(c)
  <2>1. Wrote(c, <<InvalidSession>>) /\ \A k \in DOMAIN <<InvalidSession>> : <<InvalidSession>>[k].op # "close"
    BY <1>6, PutWrites, AnswerFrames DEF HandlerSessionDown, SessionDownFrames
  <2>2. \A d \in Conns : ~handler[d] => UNCHANGED <<session_pid[d], call[d], toServer[d]>>
    BY <1>6 DEF HandlerSessionDown, TypeOK, HandlerTypeOK
  <2>3. c \in ConnOrNone /\ <<InvalidSession>> \in Seq(FrameType)
    BY AnswerFrames DEF ConnOrNone
  <2> QED BY <1>6, <2>1, <2>2, <2>3, LinkWritten DEF HandlerSessionDown, clientVars
<1>7. CASE Drop(c)
  <2>1. <<Close(AbnormalClosure)>>[1].op = "close" /\ DOMAIN <<Close(AbnormalClosure)>> = {1}
        /\ Len(<<Close(AbnormalClosure)>>) = 1
    BY AnswerFrames DEF AbnormalClosure
  <2>2. /\ toClient'[c] = <<Close(AbnormalClosure)>> /\ ~link'[c]
        /\ \A d \in Conns : d # c => toClient'[d] = toClient[d] /\ link'[d] = link[d] /\ toServer'[d] = toServer[d]
    BY <1>7 DEF Drop, TypeOK, WireTypeOK
  <2>3. UNCHANGED <<handler, session_pid, call, client>>
    BY <1>7 DEF Drop, handlerVars, clientVars
  <2>4. link[c]
    BY <1>7 DEF Drop
  <2>5. ASSUME NEW d \in Conns PROVE LinkOK(d)'
    <3>1. LinkOK(c) /\ LinkOK(d)
      BY DEF LinkInv
    <3>2. CASE d = c
      BY <2>1, <2>2, <2>3, <2>4, <3>1, <3>2 DEF LinkOK
    <3>3. CASE d # c
      BY <2>2, <2>3, <3>1, <3>3 DEF LinkOK
    <3> QED BY <3>2, <3>3
  <2>6. ClientRests'
    BY <2>2, <2>3, <2>4 DEF LinkInv, LinkOK, ClientRests
  <2> QED BY <2>5, <2>6 DEF LinkInv
<1>8. ASSUME NEW s \in Sessions, Starts(c, s) PROVE LinkInv'
  <2>1. \A d \in Conns : ~handler[d] => UNCHANGED <<session_pid[d], call[d], toServer[d]>>
    BY <1>8 DEF Starts, StartSession, Receives, TypeOK, WireTypeOK, HandlerTypeOK
  <2> QED BY <1>8, <2>1, LinkUntouched DEF Starts
<1> QED BY <1>1, <1>2, <1>3, <1>4, <1>5, <1>6, <1>7, <1>8 DEF HandlerKind

-----------------------------------------------------------------------------
(* The client's steps, connection by connection.                           *)

\* The client's socket is a connection, where it waits or receives.
LEMMA ClientSocket ==
  ASSUME TypeOK, LinkInv
  PROVE  /\ socket # NoConn => socket \in Conns
         /\ socket = NoConn => ~invalidSessionTimeout /\ connectionState = "Disconnected"
BY DEF TypeOK, ClientTypeOK, ConnOrNone, LinkInv, ClientRests

\* What a client sends is appended to the frames its handler has to read.
Sent(c, frame) ==
  /\ toServer'[c] = IF link[c] THEN Append(toServer[c], frame) ELSE toServer[c]
  /\ \A d \in Conns : d # c => toServer'[d] = toServer[d]

\* Send appends to what the handler of an open connection has to read.
LEMMA SendAppends ==
  ASSUME TypeOK, NEW c \in Conns, NEW frame, Send(c, frame)
  PROVE  Sent(c, frame)
BY DEF Send, Sent, TypeOK, WireTypeOK

\* What a reconnection leaves: one open socket, with HELLO on its way.
LEMMA ReconnectOpens ==
  ASSUME TypeOK, LinkInv, NEW c \in Conns, Reconnect(c)
  PROVE  /\ ~handler[c] /\ ~link[c] /\ c # socket /\ \A s \in Sessions : socket_pid[s] # c
         /\ session_pid[c] = NoSession /\ call[c] = NoCall /\ toServer[c] = <<>>
         /\ connectionState \in {"Disconnected", "Reconnecting"}
         /\ connectionState' = "Connecting" /\ socket' = c /\ handler'[c] /\ link'[c]
         /\ toClient'[c] = <<Hello>>
         /\ \A d \in Conns : d # c => ~link'[d] /\ handler'[d] = handler[d] /\ toClient'[d] = <<>>
         /\ UNCHANGED <<sessionVars, session_pid, call, toServer, heartbeatTimeout,
                        invalidSessionTimeout, applied>>
         /\ \/ activeSessionId # NoSession /\ UNCHANGED <<activeSessionId, lastSequenceNumber>>
            \/ activeSessionId' = NoSession /\ lastSequenceNumber' = 0
BY DEF Reconnect, OpenSocket, ConnFree, ClearSession, LinkInv, LinkOK, TypeOK, HandlerTypeOK, WireTypeOK

\* What a reception does to the queue it reads from.
LEMMA ReceiveReads ==
  ASSUME TypeOK, LinkInv, ClientReceive
  PROVE  /\ socket \in Conns /\ toClient[socket] \in Seq(FrameType) /\ toClient[socket] # <<>>
         /\ toClient'[socket] = Tail(toClient[socket])
         /\ \A d \in Conns : d # socket => toClient'[d] = toClient[d]
         /\ UNCHANGED <<sessionVars, handler, session_pid, call, link, socket>>
         /\ connectionState \in {"Connecting", "Connected"}
<1>1. socket \in Conns
  BY ClientSocket DEF ClientReceive
<1>2. connectionState \notin {"Disconnected", "Reconnecting"}
  BY DEF ClientReceive, LinkInv, ClientRests
<1> QED BY <1>1, <1>2 DEF ClientReceive, TypeOK, WireTypeOK, ClientTypeOK, handlerVars

\* The links after a step of the client.
LEMMA LinkClient ==
  ASSUME TypeOK, LinkInv, ClientKind
  PROVE  LinkInv'
<1> USE DEF sessionVars, handlerVars
<1>1. ASSUME NEW c \in Conns, Reconnect(c) PROVE LinkInv'
  <2>1. /\ ~handler[c] /\ session_pid[c] = NoSession /\ call[c] = NoCall /\ toServer[c] = <<>>
        /\ connectionState' = "Connecting" /\ socket' = c /\ handler'[c] /\ link'[c]
        /\ toClient'[c] = <<Hello>>
        /\ \A d \in Conns : d # c => ~link'[d] /\ handler'[d] = handler[d] /\ toClient'[d] = <<>>
        /\ UNCHANGED <<session_pid, call, toServer>>
    BY <1>1, ReconnectOpens
  <2>2. ASSUME NEW d \in Conns PROVE LinkOK(d)'
    <3>1. CASE d = c
      <4>1. <<Hello>>[1].op = "hello" /\ DOMAIN <<Hello>> = {1}
        BY AnswerFrames
      <4> QED BY <2>1, <3>1, <4>1 DEF LinkOK
    <3>2. CASE d # c
      <4>1. DOMAIN toClient'[d] = {}
        BY <2>1, <3>2
      <4> QED BY <2>1, <3>2, <4>1 DEF LinkInv, LinkOK
    <3> QED BY <3>1, <3>2
  <2>3. ClientRests'
    BY <2>1, SessionAssumption DEF ClientRests
  <2> QED BY <2>2, <2>3 DEF LinkInv
<1>2. CASE Disconnect
  <2>1. socket \in Conns
    BY <1>2, ClientSocket DEF Disconnect
  <2>2. /\ ~link'[socket] /\ toClient'[socket] = <<>> /\ ~invalidSessionTimeout'
        /\ \A d \in Conns : d # socket => link'[d] = link[d] /\ toClient'[d] = toClient[d]
        /\ UNCHANGED <<handler, session_pid, call, toServer, socket>>
    BY <1>2, <2>1 DEF Disconnect, TypeOK, WireTypeOK
  <2>3. ASSUME NEW d \in Conns PROVE LinkOK(d)'
    <3>1. CASE d = socket
      <4>1. DOMAIN toClient'[d] = {}
        BY <2>2, <3>1
      <4> QED BY <2>2, <3>1, <4>1 DEF LinkInv, LinkOK
    <3>2. CASE d # socket
      BY <2>2, <3>2 DEF LinkInv, LinkOK
    <3> QED BY <3>1, <3>2
  <2>4. ClientRests'
    BY <2>1, <2>2, SessionAssumption DEF ClientRests
  <2> QED BY <2>3, <2>4 DEF LinkInv
<1>3. CASE ClientReceive
  <2> DEFINE q == toClient[socket]
  <2>1. /\ socket \in Conns /\ q \in Seq(FrameType) /\ q # <<>> /\ toClient'[socket] = Tail(q)
        /\ \A d \in Conns : d # socket => toClient'[d] = toClient[d]
        /\ UNCHANGED <<handler, session_pid, call, link, socket>>
        /\ connectionState \in {"Connecting", "Connected"}
    BY <1>3, ReceiveReads
  <2>2. LinkOK(socket) /\ (link[socket] => handler[socket])
    BY <2>1 DEF LinkInv, LinkOK
  <2>3. \A d \in Conns : ~handler[d] => toServer'[d] = toServer[d]
    <3>1. CASE OnHello(Head(q))
      <4>1. \/ Sent(socket, Resume(activeSessionId, lastSequenceNumber))
            \/ Sent(socket, Identify)
        BY <2>1, <3>1, SendAppends DEF OnHello
      <4> QED BY <2>2, <4>1 DEF Sent
    <3>2. CASE UNCHANGED toServer
      BY <3>2
    <3> QED BY <1>3, <3>1, <3>2 DEF ClientReceive, OnDispatch, OnHeartbeatAck, OnInvalidSession, OnClose
  <2>4. /\ \A i \in DOMAIN Tail(q) : i + 1 \in DOMAIN q /\ Tail(q)[i] = q[i + 1] /\ i \in Nat
        /\ Len(q) \in Nat /\ Len(Tail(q)) = Len(q) - 1 /\ Tail(q) \in Seq(FrameType)
        /\ 1 \in DOMAIN q /\ Head(q) = q[1]
    BY <2>1, TailFrames
  <2>5. ASSUME NEW d \in Conns PROVE LinkOK(d)'
    <3>1. CASE d = socket
      <4>1. \A i \in DOMAIN q :
              /\ q[i].op = "close" => i = Len(q) /\ ~link[socket]
              /\ q[i].op # "close" => link[socket] \/ ~handler[socket]
        BY <2>2 DEF LinkOK
      <4>2. \A i \in DOMAIN Tail(q) :
              /\ Tail(q)[i].op = "close" => i = Len(Tail(q)) /\ ~link[socket]
              /\ Tail(q)[i].op # "close" => link[socket] \/ ~handler[socket]
        BY <2>4, <4>1
      <4> QED BY <2>1, <2>2, <2>3, <3>1, <4>2 DEF LinkOK
    <3>2. CASE d # socket
      BY <2>1, <2>3, <3>2 DEF LinkInv, LinkOK
    <3> QED BY <3>1, <3>2
  <2>6. ClientRests'
    <3>1. CASE OnClose(Head(q))
      <4>1. q[1].op = "close"
        BY <2>4, <3>1 DEF OnClose
      <4>2. Len(q) = 1 /\ ~link[socket]
        BY <2>2, <2>4, <4>1 DEF LinkOK
      <4>3. Tail(q) = <<>>
        BY <2>4, <4>2, EmptySeq
      <4> QED BY <2>1, <3>1, <4>2, <4>3, SessionAssumption DEF ClientRests, OnClose
    <3>2. CASE ~OnClose(Head(q))
      <4>1. connectionState' \in {connectionState, "Connected"}
        BY <1>3, <3>2 DEF ClientReceive, OnHello, OnDispatch, OnHeartbeatAck, OnInvalidSession
      <4> QED BY <2>1, <4>1, SessionAssumption DEF ClientRests
    <3> QED BY <3>1, <3>2
  <2> QED BY <2>5, <2>6 DEF LinkInv
<1>4. ASSUME NEW frame, Send(socket, frame), socket \in Conns,
             UNCHANGED <<handler, session_pid, call, link, toClient, connectionState, socket>>,
             invalidSessionTimeout' => invalidSessionTimeout
      PROVE  LinkInv'
  <2>1. \A d \in Conns : ~handler[d] => toServer'[d] = toServer[d]
    BY <1>4, SendAppends DEF Sent, LinkInv, LinkOK
  <2> QED BY <1>4, <2>1, LinkUntouched
<1>5. CASE SendIdentify
  <2>1. socket \in Conns
    BY <1>5, ClientSocket DEF SendIdentify
  <2> QED BY <1>4, <1>5, <2>1 DEF SendIdentify
<1>6. CASE SendHeartbeat
  <2>1. CASE socket = NoConn
    <3>1. UNCHANGED toServer
      BY <1>6, <2>1, SessionAssumption DEF SendHeartbeat, Send, TypeOK, WireTypeOK
    <3> QED BY <1>6, <3>1, LinkUntouched DEF SendHeartbeat
  <2>2. CASE socket # NoConn
    BY <1>4, <1>6, <2>2, ClientSocket DEF SendHeartbeat
  <2> QED BY <2>1, <2>2
<1> QED BY <1>1, <1>2, <1>3, <1>5, <1>6 DEF ClientKind

\* No step breaks LinkInv.
LEMMA LinkStep ==
  ASSUME TypeOK, SwitchesOff, LinkInv, [Next]_vars
  PROVE  LinkInv'
<1>1. CASE Still
  BY <1>1, LinkUntouched DEF Still, conns, client
<1> QED BY <1>1, LinkClient, LinkSession, LinkHandler, StepKind

\* Only the client's present socket is open, its handler runs, and a close is the
\* last frame a client gets; a handler that ended leaves nothing behind.
THEOREM LinkInvariant == ASSUME SwitchesOff PROVE Spec => []LinkInv
<1>1. Init => LinkInv
  <2> SUFFICES ASSUME Init PROVE LinkInv
    OBVIOUS
  <2>1. \A c \in Conns : toClient[c] = <<>> /\ DOMAIN toClient[c] = {}
    BY DEF Init
  <2> QED BY <2>1 DEF Init, LinkInv, LinkOK, ClientRests
<1>2. TypeOK /\ LinkInv /\ [Next]_vars => LinkInv'
  BY LinkStep
<1> QED BY <1>1, <1>2, TypeCorrect, PTL DEF Spec

-----------------------------------------------------------------------------
(* The shape of a connection: which frames are on their way, in which      *)
(* order, and which session they and the handler speak of.                 *)

ToClientOps == {"hello", "heartbeat_ack", "invalid_session", "close", "ready", "event", "resumed"}
ToServerOps == {"identify", "resume", "heartbeat"}
NamingOps   == {"ready", "event", "resumed", "resume"}

\* Frame b may come after frame a.
MayFollow(a, b) ==
  /\ b.op \notin {"hello", "resume"}
  /\ a.op = "hello" => b.op = "close"
  /\ a.op = "invalid_session" => b.op \in {"heartbeat_ack", "close"}
  /\ a.op \in {"ready", "resumed"} => b.op \notin {"ready", "resumed"}
  /\ a.op = "identify" => b.op = "heartbeat" /\ b.s = 0

QueueOK(q, ops) ==
  /\ \A i \in DOMAIN q : q[i].op \in ops /\ (q[i].sid = NoSession <=> q[i].op \notin NamingOps)
  /\ \A i, j \in DOMAIN q : i < j => MayFollow(q[i], q[j])

Has(q, op)     == \E i \in DOMAIN q : q[i].op = op
Mentions(q, s) == \E i \in DOMAIN q : q[i].sid = s

Serves(c)     == session_pid[c] # NoSession
InCall(c)     == call[c].op # "none"
Asks(c)       == Has(toServer[c], "resume")
Identifies(c) == Has(toServer[c], "identify")
Answered(c)   == Has(toClient[c], "ready") \/ Has(toClient[c], "resumed")

\* Connection c is about session s, for its handler or for the client, too.
Refers(c, s) == session_pid[c] = s \/ call[c].sid = s \/ Mentions(toServer[c], s)
Named(c, s)  == Refers(c, s) \/ Mentions(toClient[c], s)

\* A handler serves a session, asks one, or is still to be told which.
Phases(c) ==
  /\ InCall(c) => ~Serves(c) /\ ~Asks(c)
  /\ Asks(c) => ~Serves(c)
  /\ Identifies(c) => ~Serves(c) /\ ~InCall(c) /\ ~Asks(c)
  /\ Has(toClient[c], "invalid_session") =>
       ~Serves(c) /\ ~InCall(c) /\ ~Asks(c) /\ ~Identifies(c)
  /\ Has(toClient[c], "hello") => ~Serves(c) /\ ~InCall(c) /\ toServer[c] = <<>>
  /\ Answered(c) => ~InCall(c) /\ ~Asks(c)

\* A session that is still to send READY has not been resumed, nor will be.
Introduced(c) ==
  \A s \in Sessions : ready[s] =>
    /\ call[c].sid # s /\ ~Mentions(toServer[c], s)
    /\ \A i \in DOMAIN toClient[c] : toClient[c][i].sid = s => toClient[c][i].op = "event"

ConnShape(c) ==
  /\ QueueOK(toClient[c], ToClientOps) /\ QueueOK(toServer[c], ToServerOps)
  /\ call[c].op = "none" <=> call[c].sid = NoSession
  /\ Phases(c) /\ Introduced(c)
  /\ \A s \in Sessions : socket_pid[s] = c /\ handler[c] =>
       session_pid[c] = s \/ (call[c].op = "replay" /\ call[c].sid = s)
  /\ \A s, t \in Sessions : Named(c, s) /\ Named(c, t) => s = t

\* The client knows of no session, nor will it hear of one.
Blank(c) ==
  /\ activeSessionId = NoSession /\ lastSequenceNumber = 0
  /\ ~Serves(c) /\ ~InCall(c) /\ ~Asks(c)
  /\ \A i \in DOMAIN toClient[c] : toClient[c][i].op \in {"heartbeat_ack", "close"}

\* What the client makes of its socket c.
Attends(c) ==
  /\ invalidSessionTimeout => ~Identifies(c)
  /\ invalidSessionTimeout \/ Identifies(c) => Blank(c)
  /\ Has(toClient[c], "hello") =>
       /\ connectionState = "Connecting" /\ ~heartbeatTimeout
       /\ activeSessionId = NoSession => lastSequenceNumber = 0
  /\ connectionState = "Connected" => ~Has(toClient[c], "resumed") /\ ~InCall(c) /\ ~Asks(c)
  /\ \A s \in Sessions : Named(c, s) => activeSessionId \in {s, NoSession}

ShapeInv ==
  /\ \A c \in Conns : ConnShape(c) /\ (c = socket => Attends(c))
  /\ \A s \in Sessions : activeSessionId = s => ~ready[s]
  /\ connectionState \in {"Disconnected", "Reconnecting"} => ~heartbeatTimeout

\* Queues: what a queue without frames, with one, with its first frame taken,
\* cut off, and with frames added, contains.
LEMMA EmptyQueue ==
  ASSUME NEW ops
  PROVE  QueueOK(<<>>, ops) /\ (\A op : ~Has(<<>>, op)) /\ (\A s : ~Mentions(<<>>, s))
BY DEF QueueOK, Has, Mentions

\* A queue of one frame.
LEMMA OneFrame ==
  ASSUME NEW ops, NEW f, f.op \in ops, f.sid = NoSession <=> f.op \notin NamingOps
  PROVE  /\ QueueOK(<<f>>, ops)
         /\ \A op : Has(<<f>>, op) <=> f.op = op
         /\ \A s : Mentions(<<f>>, s) <=> f.sid = s
<1>1. DOMAIN <<f>> = {1} /\ <<f>>[1] = f
  OBVIOUS
<1>2. ~(1 < 1)
  OBVIOUS
<1> QED BY <1>1, <1>2 DEF QueueOK, Has, Mentions

\* A queue without its first frame.
LEMMA TailQueue ==
  ASSUME NEW ops, NEW q \in Seq(FrameType), q # <<>>, QueueOK(q, ops), NEW t, t = Tail(q)
  PROVE  /\ t \in Seq(FrameType) /\ QueueOK(t, ops)
         /\ Head(q) = q[1] /\ 1 \in DOMAIN q /\ q[1] \in FrameType /\ q[1].op \in ops
         /\ q[1].sid = NoSession <=> q[1].op \notin NamingOps
         /\ \A op : Has(t, op) => Has(q, op)
         /\ \A s : Mentions(t, s) => Mentions(q, s)
         /\ \A i \in DOMAIN t : MayFollow(q[1], t[i]) /\ i + 1 \in DOMAIN q /\ t[i] = q[i + 1]
         /\ \A op : Has(q, op) => q[1].op = op \/ Has(t, op)
<1>1. /\ t \in Seq(FrameType) /\ Head(q) = q[1] /\ 1 \in DOMAIN q /\ q[1] \in FrameType
      /\ \A i \in DOMAIN t : i \in Nat /\ i > 0 /\ i + 1 \in DOMAIN q /\ t[i] = q[i + 1]
      /\ \A i \in DOMAIN q : i = 1 \/ (i > 1 /\ i - 1 \in DOMAIN t /\ q[i] = t[i - 1])
  BY TailFrames
<1>2. \A i \in DOMAIN t : MayFollow(q[1], t[i])
  <2> SUFFICES ASSUME NEW i \in DOMAIN t PROVE MayFollow(q[1], t[i])
    OBVIOUS
  <2>1. 1 < i + 1 /\ i + 1 \in DOMAIN q /\ t[i] = q[i + 1]
    BY <1>1
  <2> QED BY <1>1, <2>1 DEF QueueOK
<1>3. QueueOK(t, ops)
  <2>1. \A i, j \in DOMAIN t : i < j => i + 1 < j + 1
    BY <1>1
  <2>2. \A i, j \in DOMAIN t : i < j => MayFollow(t[i], t[j])
    BY <1>1, <2>1 DEF QueueOK
  <2>3. \A i \in DOMAIN t : t[i].op \in ops /\ (t[i].sid = NoSession <=> t[i].op \notin NamingOps)
    BY <1>1 DEF QueueOK
  <2> QED BY <2>2, <2>3 DEF QueueOK
<1>4. \A op : Has(t, op) => Has(q, op)
  BY <1>1 DEF Has
<1>5. \A s : Mentions(t, s) => Mentions(q, s)
  BY <1>1 DEF Mentions
<1>6. \A op : Has(q, op) => q[1].op = op \/ Has(t, op)
  BY <1>1 DEF Has
<1>7. q[1].op \in ops /\ (q[1].sid = NoSession <=> q[1].op \notin NamingOps)
  BY <1>1 DEF QueueOK
<1> QED BY <1>1, <1>2, <1>3, <1>4, <1>5, <1>6, <1>7

\* A queue that is cut off.
LEMMA PrefixQueue ==
  ASSUME NEW ops, NEW q \in Seq(FrameType), QueueOK(q, ops), NEW n \in 0..Len(q),
         NEW t, t = SubSeq(q, 1, n)
  PROVE  /\ QueueOK(t, ops) /\ t \in Seq(FrameType)
         /\ \A i \in DOMAIN t : i \in DOMAIN q /\ t[i] = q[i]
         /\ \A op : Has(t, op) => Has(q, op)
         /\ \A s : Mentions(t, s) => Mentions(q, s)
<1>1. Len(q) \in Nat /\ DOMAIN q = 1..Len(q) /\ n \in Nat
  BY LenProperties
<1>2. \A i \in 1..n : i \in DOMAIN q /\ q[i] \in FrameType
  BY <1>1, ElementOfSeq
<1>3. t \in Seq(FrameType) /\ Len(t) = n /\ \A i \in 1..n : t[i] = q[i]
  <2>1. t = [i \in 1..n |-> q[i]]
    BY <1>1, <1>2
  <2> QED BY <1>1, <1>2, <2>1, IndexedSeq
<1>4. DOMAIN t = 1..n
  BY <1>3, LenProperties
<1>5. \A i \in DOMAIN t : i \in DOMAIN q /\ t[i] = q[i]
  BY <1>2, <1>3, <1>4
<1> QED BY <1>3, <1>5 DEF QueueOK, Has, Mentions

\* A queue and the frames that were added to it.
LEMMA LongerQueue ==
  ASSUME NEW ops, NEW q \in Seq(FrameType), NEW new \in Seq(FrameType), QueueOK(q, ops), QueueOK(new, ops),
         \A i \in DOMAIN q, k \in DOMAIN new : MayFollow(q[i], new[k]), NEW t, t = q \o new
  PROVE  /\ QueueOK(t, ops)
         /\ \A op : Has(t, op) <=> Has(q, op) \/ Has(new, op)
         /\ \A s : Mentions(t, s) <=> Mentions(q, s) \/ Mentions(new, s)
<1>1. /\ Len(q) \in Nat /\ DOMAIN q = 1..Len(q) /\ DOMAIN new = 1..Len(new) /\ Len(new) \in Nat
      /\ \A i \in DOMAIN q : i \in DOMAIN t /\ t[i] = q[i]
      /\ \A k \in DOMAIN new : Len(q) + k \in DOMAIN t /\ t[Len(q) + k] = new[k]
      /\ \A i \in DOMAIN t : i \in DOMAIN q \/ \E k \in DOMAIN new : i = Len(q) + k
  BY ConcatFrames
<1>2. \A i \in DOMAIN t : t[i].op \in ops /\ (t[i].sid = NoSession <=> t[i].op \notin NamingOps)
  BY <1>1 DEF QueueOK
<1>3. ASSUME NEW i \in DOMAIN t, NEW j \in DOMAIN t, i < j PROVE MayFollow(t[i], t[j])
  <2>1. CASE i \in DOMAIN q /\ j \in DOMAIN q
    BY <1>1, <1>3, <2>1 DEF QueueOK
  <2>2. ASSUME NEW k \in DOMAIN new, i \in DOMAIN q, j = Len(q) + k PROVE MayFollow(t[i], t[j])
    BY <1>1, <2>2
  <2>3. ASSUME NEW k \in DOMAIN new, NEW m \in DOMAIN new, i = Len(q) + k, j = Len(q) + m
        PROVE  MayFollow(t[i], t[j])
    <3>1. k < m
      BY <1>1, <1>3, <2>3
    <3> QED BY <1>1, <2>3, <3>1 DEF QueueOK
  <2>4. ~(\E k \in DOMAIN new : i = Len(q) + k /\ j \in DOMAIN q)
    BY <1>1, <1>3
  <2> QED BY <1>1, <2>1, <2>2, <2>3, <2>4
<1>4. QueueOK(t, ops)
  BY <1>2, <1>3 DEF QueueOK
<1>5. \A op : Has(t, op) <=> Has(q, op) \/ Has(new, op)
  <2> TAKE op
  <2>1. ASSUME NEW i \in DOMAIN t, t[i].op = op PROVE Has(q, op) \/ Has(new, op)
    <3>1. CASE i \in DOMAIN q
      BY <1>1, <2>1, <3>1 DEF Has
    <3>2. ASSUME NEW k \in DOMAIN new, i = Len(q) + k PROVE Has(new, op)
      <4>1. t[i] = new[k]
        BY <1>1, <3>2
      <4> QED BY <2>1, <4>1 DEF Has
    <3> QED BY <1>1, <2>1, <3>1, <3>2
  <2>2. ASSUME NEW i \in DOMAIN q, q[i].op = op PROVE Has(t, op)
    <3>1. i \in DOMAIN t /\ t[i] = q[i]
      BY <1>1, <2>2
    <3> QED BY <2>2, <3>1 DEF Has
  <2>3. ASSUME NEW k \in DOMAIN new, new[k].op = op PROVE Has(t, op)
    <3>1. Len(q) + k \in DOMAIN t /\ t[Len(q) + k] = new[k]
      BY <1>1, <2>3
    <3> QED BY <2>3, <3>1 DEF Has
  <2> QED BY <2>1, <2>2, <2>3 DEF Has
<1>6. \A s : Mentions(t, s) <=> Mentions(q, s) \/ Mentions(new, s)
  <2> TAKE s
  <2>1. ASSUME NEW i \in DOMAIN t, t[i].sid = s PROVE Mentions(q, s) \/ Mentions(new, s)
    <3>1. CASE i \in DOMAIN q
      BY <1>1, <2>1, <3>1 DEF Mentions
    <3>2. ASSUME NEW k \in DOMAIN new, i = Len(q) + k PROVE Mentions(new, s)
      <4>1. t[i] = new[k]
        BY <1>1, <3>2
      <4> QED BY <2>1, <4>1 DEF Mentions
    <3> QED BY <1>1, <2>1, <3>1, <3>2
  <2>2. ASSUME NEW i \in DOMAIN q, q[i].sid = s PROVE Mentions(t, s)
    <3>1. i \in DOMAIN t /\ t[i] = q[i]
      BY <1>1, <2>2
    <3> QED BY <2>2, <3>1 DEF Mentions
  <2>3. ASSUME NEW k \in DOMAIN new, new[k].sid = s PROVE Mentions(t, s)
    <3>1. Len(q) + k \in DOMAIN t /\ t[Len(q) + k] = new[k]
      BY <1>1, <2>3
    <3> QED BY <2>3, <3>1 DEF Mentions
  <2> QED BY <2>1, <2>2, <2>3 DEF Mentions
<1> QED BY <1>4, <1>5, <1>6

-----------------------------------------------------------------------------
(* The shape of the connections that a step of a session or a handler leaves *)

\* A step that leaves what the client makes of connection c.
Calmer(c) ==
  /\ Identifies(c)' => Identifies(c)
  /\ Asks(c)' => Asks(c)
  /\ InCall(c)' => InCall(c) \/ Asks(c)
  /\ Has(toClient'[c], "hello") => Has(toClient[c], "hello")
  /\ Has(toClient'[c], "resumed") => Has(toClient[c], "resumed") \/ InCall(c)
  /\ \A s \in Sessions : Named(c, s)' => Named(c, s)
  /\ (invalidSessionTimeout \/ Identifies(c)') /\ Blank(c) =>
       ~Serves(c)' /\ \A i \in DOMAIN toClient'[c] : toClient'[c][i].op \in {"heartbeat_ack", "close"}

Kept(c) == ConnShape(c)' /\ (c = socket => Calmer(c))

\* A connection that the step does not touch.
LEMMA UntouchedShape ==
  ASSUME NEW c \in Conns, ConnShape(c),
         toClient'[c] = toClient[c], toServer'[c] = toServer[c], call'[c] = call[c],
         session_pid'[c] = session_pid[c], handler'[c] => handler[c],
         \A s \in Sessions : socket_pid'[s] = c => socket_pid[s] = c,
         \A s \in Sessions : ready'[s] /\ Named(c, s) => ready[s]
  PROVE  Kept(c)
<1>1. Phases(c)'
  BY DEF ConnShape, Phases, InCall, Serves, Asks, Identifies, Answered
<1>2. \A s : Named(c, s)' <=> Named(c, s)
  BY DEF Named, Refers
<1>3. Introduced(c)'
  BY DEF ConnShape, Introduced, Named, Refers, Mentions
<1>4. Calmer(c)
  BY <1>2 DEF Calmer, Identifies, Asks, InCall, Serves, Blank
<1> QED BY <1>1, <1>2, <1>3, <1>4 DEF ConnShape, Kept

\* A queue that frames were written to.
LEMMA WrittenQueue ==
  ASSUME TypeOK, NEW c \in Conns, NEW new \in Seq(FrameType), Wrote(c, new),
         QueueOK(toClient[c], ToClientOps), QueueOK(new, ToClientOps),
         \A i \in DOMAIN toClient[c], k \in DOMAIN new : MayFollow(toClient[c][i], new[k])
  PROVE  /\ QueueOK(toClient'[c], ToClientOps)
         /\ \A op : Has(toClient'[c], op) => Has(toClient[c], op) \/ Has(new, op)
         /\ \A s : Mentions(toClient'[c], s) => Mentions(toClient[c], s) \/ Mentions(new, s)
         /\ \A i \in DOMAIN toClient'[c] :
              \/ \E j \in DOMAIN toClient[c] : toClient'[c][i] = toClient[c][j]
              \/ \E k \in DOMAIN new : toClient'[c][i] = new[k]
<1>1. toClient[c] \in Seq(FrameType)
  BY DEF TypeOK, WireTypeOK
<1>2. CASE link[c]
  <2>1. toClient'[c] = toClient[c] \o new
    BY <1>2 DEF Wrote
  <2>2. /\ QueueOK(toClient'[c], ToClientOps)
        /\ \A op : Has(toClient'[c], op) <=> Has(toClient[c], op) \/ Has(new, op)
        /\ \A s : Mentions(toClient'[c], s) <=> Mentions(toClient[c], s) \/ Mentions(new, s)
    BY <1>1, <2>1, LongerQueue
  <2>3. \A i \in DOMAIN (toClient[c] \o new) :
          \/ \E j \in DOMAIN toClient[c] : (toClient[c] \o new)[i] = toClient[c][j]
          \/ \E k \in DOMAIN new : (toClient[c] \o new)[i] = new[k]
    <3>1. \A i \in DOMAIN toClient[c] : (toClient[c] \o new)[i] = toClient[c][i]
      BY <1>1, ConcatFrames
    <3>2. ASSUME NEW k \in DOMAIN new
          PROVE  (toClient[c] \o new)[Len(toClient[c]) + k] = new[k]
      BY <1>1, ConcatFrames, SMTT(60)
    <3>3. \A i \in DOMAIN (toClient[c] \o new) :
            i \in DOMAIN toClient[c] \/ \E k \in DOMAIN new : i = Len(toClient[c]) + k
      BY <1>1, ConcatFrames
    <3> QED BY <3>1, <3>2, <3>3
  <2> QED BY <2>1, <2>2, <2>3
<1>3. CASE ~link[c]
  <2>1. toClient'[c] = toClient[c]
    BY <1>3 DEF Wrote
  <2> QED BY <2>1
<1> QED BY <1>2, <1>3

\* A session that sends an event to its connection.
LEMMA SendsShape ==
  ASSUME TypeOK, LinkInv, ShapeInv, NEW s \in Sessions, NEW op \in EventOps, Sends(s, op)
  PROVE  \A c \in Conns : Kept(c)
<1> USE DEF conns
<1> SUFFICES ASSUME NEW c \in Conns PROVE Kept(c)
  OBVIOUS
<1> DEFINE f == Frame(op, s, seq[s] + 1, Len(log[s]) + 1)
           q == toClient[c]
<1>1. /\ <<f>> \in Seq(FrameType) /\ DOMAIN <<f>> = {1} /\ <<f>>[1] = f
      /\ f.op = op /\ f.sid = s /\ Wrote(socket_pid[s], <<f>>)
  BY SendsWrites
<1> HIDE DEF f
<1>2. ConnShape(c) /\ LinkOK(c)
  BY DEF ShapeInv, LinkInv
<1>3. \A r \in Sessions : ready'[r] => ready[r] /\ (r = s => op = "event")
  BY DEF Sends, TypeOK, SessionTypeOK
<1>4. CASE socket_pid[s] # c \/ ~link[c]
  <2>1. toClient'[c] = toClient[c]
    BY <1>1, <1>4 DEF Wrote
  <2> QED BY <1>2, <1>3, <2>1, UntouchedShape DEF Sends
<1>5. CASE socket_pid[s] = c /\ link[c]
  <2>1. handler[c] /\ (session_pid[c] = s \/ (call[c].op = "replay" /\ call[c].sid = s)) /\ Named(c, s)
    BY <1>2, <1>5 DEF LinkOK, ConnShape, Named, Refers
  <2>2. op = "ready" => ready[s] /\ session_pid[c] = s
    BY <1>2, <2>1 DEF Sends, ConnShape, Introduced
  <2>3. \A i \in DOMAIN q : q[i].op \notin {"hello", "invalid_session", "identify"}
    <3>1. Serves(c) \/ InCall(c)
      BY <2>1, SessionAssumption DEF Serves, InCall
    <3> QED BY <1>2, <3>1 DEF ConnShape, Phases, Has, QueueOK, ToClientOps
  <2>4. op = "ready" => \A i \in DOMAIN q : q[i].op \notin {"ready", "resumed"}
    <3> SUFFICES ASSUME op = "ready", NEW i \in DOMAIN q, q[i].op \in {"ready", "resumed"} PROVE FALSE
      OBVIOUS
    <3>1. q[i] \in FrameType /\ q[i].sid # NoSession
      BY <1>2, ElementOfSeq, LenProperties DEF ConnShape, QueueOK, NamingOps, TypeOK, WireTypeOK
    <3>2. q[i].sid \in Sessions /\ Named(c, q[i].sid)
      BY <3>1, FrameFields DEF SessionOrNone, Named, Mentions
    <3>3. q[i].sid = s
      BY <1>2, <2>1, <3>2 DEF ConnShape
    <3> QED BY <1>2, <2>2, <3>3 DEF ConnShape, Introduced
  <2>5. \A i \in DOMAIN q, k \in DOMAIN <<f>> : MayFollow(q[i], <<f>>[k])
    BY <1>1, <2>3, <2>4 DEF MayFollow, EventOps
  <2>6. /\ QueueOK(<<f>>, ToClientOps) /\ (\A o : Has(<<f>>, o) <=> o = op)
        /\ \A r : Mentions(<<f>>, r) <=> r = s
    <3>1. f.op \in ToClientOps /\ f.op \in NamingOps /\ f.sid # NoSession
      BY <1>1, SessionAssumption DEF EventOps, ToClientOps, NamingOps
    <3> QED BY <1>1, <3>1, OneFrame
  <2>7. Wrote(c, <<f>>) /\ QueueOK(q, ToClientOps)
    BY <1>1, <1>2, <1>5 DEF ConnShape
  <2>8. QueueOK(toClient'[c], ToClientOps)
    BY <1>1, <2>5, <2>6, <2>7, WrittenQueue
  <2>9. \A o : Has(toClient'[c], o) => Has(q, o) \/ o = op
    BY <1>1, <2>5, <2>6, <2>7, WrittenQueue
  <2>10. \A r : Mentions(toClient'[c], r) => Mentions(q, r) \/ r = s
    BY <1>1, <2>5, <2>6, <2>7, WrittenQueue
  <2>11. \A i \in DOMAIN toClient'[c] : toClient'[c][i] = f \/ \E j \in DOMAIN q : toClient'[c][i] = q[j]
    <3>1. \A i \in DOMAIN toClient'[c] :
            \/ \E j \in DOMAIN q : toClient'[c][i] = q[j]
            \/ \E k \in DOMAIN <<f>> : toClient'[c][i] = <<f>>[k]
      BY <1>1, <2>5, <2>6, <2>7, WrittenQueue
    <3> QED BY <1>1, <3>1
  <2> HIDE DEF q
  <2>12. Phases(c)'
    <3>1. op # "hello" /\ op # "invalid_session" /\ op # "resumed"
      BY DEF EventOps
    <3>2. op = "ready" => ~InCall(c) /\ ~Asks(c)
      BY <1>2, <2>2, SessionAssumption DEF ConnShape, Phases, Serves
    <3>3. Phases(c)
      BY <1>2 DEF ConnShape
    <3>4. UNCHANGED <<call, toServer, session_pid>>
      BY DEF Sends
    <3> QED BY <2>9, <3>1, <3>2, <3>3, <3>4
            DEF Phases, InCall, Serves, Asks, Identifies, Answered, q
  <2>13. Introduced(c)'
    <3> SUFFICES ASSUME NEW r \in Sessions, ready'[r]
                 PROVE  /\ call'[c].sid # r /\ ~Mentions(toServer'[c], r)
                        /\ \A i \in DOMAIN toClient'[c] : toClient'[c][i].sid = r => toClient'[c][i].op = "event"
      BY DEF Introduced
    <3> QED BY <1>1, <1>2, <1>3, <2>11 DEF ConnShape, Introduced, Sends, q
  <2>14. \A r : Named(c, r)' => Named(c, r)
    BY <2>1, <2>10 DEF Named, Refers, Sends, q
  <2>15. Calmer(c)
    <3>1. ~Blank(c)
      BY <2>1, SessionAssumption DEF Blank, Serves, InCall
    <3>2. op # "hello" /\ op # "resumed"
      BY DEF EventOps
    <3> QED BY <2>9, <2>14, <3>1, <3>2 DEF Calmer, Identifies, Asks, InCall, Sends, q
  <2> QED BY <1>2, <2>8, <2>12, <2>13, <2>14, <2>15 DEF ConnShape, Sends, Kept
<1> QED BY <1>4, <1>5

\* An answer of the handler that names no session.
LEMMA AnsweredQueue ==
  ASSUME TypeOK, NEW c \in Conns, ConnShape(c), NEW f, <<f>> \in Seq(FrameType),
         f.op \in {"invalid_session", "heartbeat_ack"}, f.sid = NoSession, Wrote(c, <<f>>),
         ~Has(toClient[c], "hello"),
         f.op = "invalid_session" => ~Has(toClient[c], "invalid_session")
  PROVE  /\ QueueOK(toClient'[c], ToClientOps)
         /\ \A op : Has(toClient'[c], op) => Has(toClient[c], op) \/ op = f.op
         /\ \A s \in Sessions : Mentions(toClient'[c], s) => Mentions(toClient[c], s)
         /\ \A i \in DOMAIN toClient'[c] :
              toClient'[c][i] = f \/ \E j \in DOMAIN toClient[c] : toClient'[c][i] = toClient[c][j]
<1> DEFINE q == toClient[c]
<1>1. f.op \in ToClientOps /\ f.op \notin NamingOps
  BY DEF ToClientOps, NamingOps
<1>2. /\ QueueOK(<<f>>, ToClientOps)
      /\ \A op : Has(<<f>>, op) <=> f.op = op
      /\ \A s : Mentions(<<f>>, s) <=> f.sid = s
  BY <1>1, OneFrame
<1>3. DOMAIN <<f>> = {1} /\ <<f>>[1] = f
  OBVIOUS
<1>4. QueueOK(q, ToClientOps)
  BY DEF ConnShape
<1>5. \A i \in DOMAIN q : /\ q[i].op \notin {"hello", "identify"}
                          /\ f.op = "invalid_session" => q[i].op # "invalid_session"
  BY <1>4 DEF Has, QueueOK, ToClientOps
<1>6. \A i \in DOMAIN q, k \in DOMAIN <<f>> : MayFollow(q[i], <<f>>[k])
  BY <1>3, <1>5 DEF MayFollow
<1>7. QueueOK(toClient'[c], ToClientOps)
  BY <1>2, <1>4, <1>6, WrittenQueue
<1>8. \A op : Has(toClient'[c], op) => Has(toClient[c], op) \/ op = f.op
  <2>1. \A op : Has(toClient'[c], op) => Has(toClient[c], op) \/ Has(<<f>>, op)
    BY <1>2, <1>4, <1>6, WrittenQueue
  <2> QED BY <1>2, <2>1
<1>9. \A s \in Sessions : Mentions(toClient'[c], s) => Mentions(toClient[c], s)
  <2>1. \A s : Mentions(toClient'[c], s) => Mentions(toClient[c], s) \/ Mentions(<<f>>, s)
    BY <1>2, <1>4, <1>6, WrittenQueue
  <2> QED BY <1>2, <2>1, SessionAssumption
<1>10. \A i \in DOMAIN toClient'[c] :
         \/ \E j \in DOMAIN toClient[c] : toClient'[c][i] = toClient[c][j]
         \/ \E k \in DOMAIN <<f>> : toClient'[c][i] = <<f>>[k]
  BY <1>2, <1>4, <1>6, WrittenQueue
<1> QED BY <1>3, <1>7, <1>8, <1>9, <1>10

\* A handler that takes its next frame.
LEMMA ReadQueue ==
  ASSUME TypeOK, NEW c \in Conns, ConnShape(c), NEW op, Receives(c, op)
  PROVE  /\ handler[c] /\ call[c].op = "none" /\ toServer[c] # <<>> /\ toServer[c] \in Seq(FrameType)
         /\ Head(toServer[c]) = toServer[c][1] /\ 1 \in DOMAIN toServer[c]
         /\ toServer[c][1] \in FrameType /\ toServer[c][1].op = op
         /\ Has(toServer[c], op) /\ ~Has(toClient[c], "hello")
         /\ QueueOK(toServer'[c], ToServerOps) /\ toServer'[c] = Tail(toServer[c])
         /\ \A o : Has(toServer'[c], o) => Has(toServer[c], o)
         /\ \A s : Mentions(toServer'[c], s) => Mentions(toServer[c], s)
         /\ ~Has(toServer'[c], "resume")
         /\ op \in {"identify", "resume"} => ~Has(toServer'[c], "identify")
         /\ op = "resume" => toServer[c][1].sid \in Sessions /\ Mentions(toServer[c], toServer[c][1].sid)
         /\ \A d \in Conns : d # c => toServer'[d] = toServer[d]
<1> DEFINE q == toServer[c]
           t == toServer'[c]
<1>1. /\ q \in Seq(FrameType) /\ q # <<>> /\ QueueOK(q, ToServerOps) /\ t = Tail(q)
      /\ \A d \in Conns : d # c => toServer'[d] = toServer[d]
      /\ handler[c] /\ call[c].op = "none" /\ Head(q).op = op
  BY DEF Receives, ConnShape, TypeOK, WireTypeOK
<1>2. /\ Phases(c)
      /\ Has(toClient[c], "hello") => q = <<>>
  BY DEF ConnShape, Phases
<1> HIDE DEF q, t
<1>3. /\ t \in Seq(FrameType) /\ QueueOK(t, ToServerOps)
      /\ Head(q) = q[1] /\ 1 \in DOMAIN q /\ q[1] \in FrameType /\ q[1].op \in ToServerOps
      /\ q[1].sid = NoSession <=> q[1].op \notin NamingOps
  BY <1>1, TailQueue
<1>4. \A o : Has(t, o) => Has(q, o)
  BY <1>1, TailQueue
<1>5. \A s : Mentions(t, s) => Mentions(q, s)
  BY <1>1, TailQueue
<1>6. \A i \in DOMAIN t : MayFollow(q[1], t[i])
  BY <1>1, TailQueue
<1>7. ~Has(t, "resume") /\ (op = "identify" => ~Has(t, "identify"))
  BY <1>1, <1>3, <1>6 DEF Has, MayFollow
<1>8. Has(q, op)
  BY <1>1, <1>3 DEF Has
<1>9. op = "resume" => ~Has(t, "identify")
  BY <1>2, <1>4, <1>8 DEF Phases, Asks, Identifies, q
<1>10. op = "resume" => q[1].sid \in Sessions /\ Mentions(q, q[1].sid)
  BY <1>1, <1>3, FrameFields DEF NamingOps, SessionOrNone, Mentions
<1> QED BY <1>1, <1>2, <1>3, <1>4, <1>5, <1>7, <1>8, <1>9, <1>10 DEF q, t

\* The shape after a step of a session.
LEMMA SessionShape ==
  ASSUME TypeOK, LinkInv, ShapeInv, NEW s \in Sessions, SessionKind(s)
  PROVE  \A c \in Conns : Kept(c)
<1> USE DEF conns, TypeOK, SessionTypeOK
<1> SUFFICES ASSUME NEW c \in Conns PROVE Kept(c)
  OBVIOUS
<1>1. ConnShape(c)
  BY DEF ShapeInv
<1>2. ASSUME NEW op \in EventOps, Sends(s, op) PROVE Kept(c)
  BY <1>2, SendsShape
<1>3. CASE Ends(s)
  <2>1. \A r \in Sessions : /\ socket_pid'[r] = c => socket_pid[r] = c
                            /\ ready'[r] => ready[r]
    BY <1>3, SessionAssumption DEF Ends, Stop
  <2> QED BY <1>1, <1>3, <2>1, UntouchedShape DEF Ends
<1>4. CASE Detaches(s)
  <2>1. \A r \in Sessions : socket_pid'[r] = c => socket_pid[r] = c
    BY <1>4, SessionAssumption DEF Detaches
  <2> QED BY <1>1, <1>4, <2>1, UntouchedShape DEF Detaches
<1>5. ASSUME NEW d \in Conns, ServeResume(s, d) PROVE Kept(c)
  <2>1. UNCHANGED <<ready, handler, session_pid, toClient, toServer>>
    BY <1>5 DEF ServeResume, wireVars
  <2>2. CASE c # d
    <3>1. call'[c] = call[c] /\ \A r \in Sessions : socket_pid'[r] = c => socket_pid[r] = c
      BY <1>5, <2>2 DEF ServeResume, HandlerTypeOK
    <3> QED BY <1>1, <2>1, <3>1, UntouchedShape
  <2>3. CASE c = d
    <3>1. /\ call[c].op = "resume" /\ call[c].sid = s /\ call'[c].sid = s
          /\ call'[c].op \in {"invalid_seq", "replay"}
          /\ \/ UNCHANGED socket_pid
             \/ call'[c].op = "replay" /\ \A r \in Sessions : r # s => socket_pid'[r] = socket_pid[r]
      <4>1. call[c] \in CallType
        BY DEF HandlerTypeOK
      <4>2. call[c].sid = s /\ call[c].op = "resume"
        BY <1>5, <2>3 DEF ServeResume
      <4>3. CASE call' = [call EXCEPT ![c].op = "invalid_seq"] /\ UNCHANGED socket_pid
        <5>1. call'[c] = [call[c] EXCEPT !.op = "invalid_seq"]
          BY <4>3 DEF HandlerTypeOK
        <5>2. call'[c].op = "invalid_seq" /\ call'[c].sid = call[c].sid
          BY <4>1, <5>1 DEF CallType
        <5> QED BY <4>2, <4>3, <5>2
      <4>4. ASSUME NEW missed, NEW upto,
                   call' = [call EXCEPT ![c] = [@ EXCEPT !.op = "replay", !.missed = missed, !.upto = upto]],
                   socket_pid' = [socket_pid EXCEPT ![s] = c]
            PROVE  /\ call'[c].op = "replay" /\ call'[c].sid = call[c].sid
                   /\ \A r \in Sessions : r # s => socket_pid'[r] = socket_pid[r]
        <5>1. call'[c] = [call[c] EXCEPT !.op = "replay", !.missed = missed, !.upto = upto]
          BY <4>4 DEF HandlerTypeOK
        <5>2. call'[c].op = "replay" /\ call'[c].sid = call[c].sid
          BY <4>1, <5>1 DEF CallType
        <5> QED BY <4>4, <5>2
      <4>5. \/ call' = [call EXCEPT ![c].op = "invalid_seq"] /\ UNCHANGED socket_pid
            \/ \E missed, upto :
                 /\ call' = [call EXCEPT ![c] = [@ EXCEPT !.op = "replay", !.missed = missed, !.upto = upto]]
                 /\ socket_pid' = [socket_pid EXCEPT ![s] = c]
        BY <1>5, <2>3 DEF ServeResume
      <4> QED BY <4>2, <4>3, <4>4, <4>5
    <3>2. Phases(c)'
      BY <1>1, <2>1, <3>1 DEF ConnShape, Phases, InCall, Serves, Asks, Identifies, Answered
    <3>3. Introduced(c)'
      BY <1>1, <2>1, <3>1 DEF ConnShape, Introduced
    <3>4. \A r : Named(c, r)' <=> Named(c, r)
      BY <2>1, <3>1 DEF Named, Refers
    <3>5. \A r \in Sessions : socket_pid'[r] = c /\ handler'[c] =>
            session_pid'[c] = r \/ (call'[c].op = "replay" /\ call'[c].sid = r)
      BY <1>1, <2>1, <3>1 DEF ConnShape
    <3>6. s # NoSession
      BY SessionAssumption
    <3>7. Calmer(c)
      BY <2>1, <3>1, <3>4 DEF Calmer, Identifies, Asks, InCall, Serves, Blank
    <3> QED BY <1>1, <2>1, <3>1, <3>2, <3>3, <3>4, <3>5, <3>6, <3>7 DEF ConnShape, Kept
  <2> QED BY <2>2, <2>3
<1> QED BY <1>2, <1>3, <1>4, <1>5 DEF SessionKind

\* A handler that ends.
LEMMA ClosesShape ==
  ASSUME TypeOK, LinkInv, ShapeInv, NEW c \in Conns, Closes(c)
  PROVE  \A d \in Conns : Kept(d)
<1> USE DEF sessions, TypeOK, HandlerTypeOK, WireTypeOK
<1> DEFINE q == toClient[c]
<1>1. PICK code \in Nat : HandlerEnds(c) /\ toClient' = Put(c, <<Close(code)>>)
  BY DEF Closes, CloseWith
<1> DEFINE f == Close(code)
<1>2. <<f>> \in Seq(FrameType) /\ f.op = "close" /\ f.sid = NoSession /\ DOMAIN <<f>> = {1} /\ <<f>>[1] = f
  BY AnswerFrames
<1>3. Wrote(c, <<f>>)
  BY <1>1, <1>2, PutWrites
<1> HIDE DEF f
<1>4. ConnShape(c)
  BY DEF ShapeInv
<1>5. /\ ~handler'[c] /\ session_pid'[c] = NoSession /\ call'[c] = NoCall /\ toServer'[c] = <<>>
      /\ \A d \in Conns : d # c => UNCHANGED <<handler[d], session_pid[d], call[d], toServer[d], toClient[d]>>
  BY <1>1, <1>3 DEF HandlerEnds, Wrote
<1>6. UNCHANGED sessions
  BY DEF Closes
<1>7. QueueOK(<<f>>, ToClientOps) /\ (\A op : Has(<<f>>, op) <=> op = "close") /\ (\A s : Mentions(<<f>>, s) <=> s = NoSession)
  <2>1. f.op \in ToClientOps /\ f.op \notin NamingOps
    BY <1>2 DEF ToClientOps, NamingOps
  <2>2. QueueOK(<<f>>, ToClientOps)
    BY <1>2, <2>1, OneFrame
  <2>3. \A op : Has(<<f>>, op) <=> f.op = op
    BY <1>2, <2>1, OneFrame
  <2>4. \A s : Mentions(<<f>>, s) <=> f.sid = s
    BY <1>2, <2>1, OneFrame
  <2> QED BY <1>2, <2>2, <2>3, <2>4
<1>8. QueueOK(q, ToClientOps) /\ \A i \in DOMAIN q, k \in DOMAIN <<f>> : MayFollow(q[i], <<f>>[k])
  BY <1>2, <1>4 DEF ConnShape, QueueOK, ToClientOps, MayFollow
<1>9. QueueOK(toClient'[c], ToClientOps)
  BY <1>2, <1>3, <1>7, <1>8, WrittenQueue
<1>10. \A op : Has(toClient'[c], op) => Has(q, op) \/ op = "close"
  <2>1. \A op : Has(toClient'[c], op) => Has(q, op) \/ Has(<<f>>, op)
    BY <1>2, <1>3, <1>7, <1>8, WrittenQueue
  <2> QED BY <1>7, <2>1
<1>11. \A s : Mentions(toClient'[c], s) => Mentions(q, s) \/ s = NoSession
  <2>1. \A s : Mentions(toClient'[c], s) => Mentions(q, s) \/ Mentions(<<f>>, s)
    BY <1>2, <1>3, <1>7, <1>8, WrittenQueue
  <2> QED BY <1>7, <2>1
<1>12. \A i \in DOMAIN toClient'[c] : toClient'[c][i] = f \/ \E j \in DOMAIN q : toClient'[c][i] = q[j]
  <2>1. \A i \in DOMAIN toClient'[c] :
          \/ \E j \in DOMAIN q : toClient'[c][i] = q[j]
          \/ \E k \in DOMAIN <<f>> : toClient'[c][i] = <<f>>[k]
    BY <1>2, <1>3, <1>7, <1>8, WrittenQueue
  <2> QED BY <1>2, <2>1
<1>13. NoCall.op = "none" /\ NoCall.sid = NoSession
  BY DEF NoCall
<1>14. QueueOK(<<>>, ToServerOps) /\ (\A op : ~Has(<<>>, op)) /\ (\A s : ~Mentions(<<>>, s))
  BY EmptyQueue
<1> HIDE DEF q
<1>15. Phases(c)'
  BY <1>5, <1>13, <1>14 DEF Phases, Serves, InCall, Asks, Identifies, Answered
<1>16. Introduced(c)'
  <2> SUFFICES ASSUME NEW r \in Sessions, ready'[r]
               PROVE  /\ call'[c].sid # r /\ ~Mentions(toServer'[c], r)
                      /\ \A i \in DOMAIN toClient'[c] : toClient'[c][i].sid = r => toClient'[c][i].op = "event"
    BY DEF Introduced
  <2>1. ready[r] /\ r # NoSession
    BY <1>6, SessionAssumption
  <2>2. \A j \in DOMAIN q : q[j].sid = r => q[j].op = "event"
    BY <1>4, <2>1 DEF ConnShape, Introduced, q
  <2>3. call'[c].sid # r
    BY <1>5, <1>13, <2>1
  <2>4. ~Mentions(toServer'[c], r)
    BY <1>5, <1>14
  <2>5. \A i \in DOMAIN toClient'[c] : toClient'[c][i].sid = r => toClient'[c][i].op = "event"
    BY <1>2, <1>12, <2>1, <2>2
  <2> QED BY <2>3, <2>4, <2>5
<1>17. \A s : Named(c, s)' => s = NoSession \/ Mentions(q, s)
  BY <1>5, <1>11, <1>13, <1>14 DEF Named, Refers
<1>18. ConnShape(c)'
  <2>1. \A s, t \in Sessions : Named(c, s)' /\ Named(c, t)' => s = t
    BY <1>4, <1>17, SessionAssumption DEF ConnShape, Named, q
  <2> QED BY <1>5, <1>9, <1>13, <1>14, <1>15, <1>16, <2>1 DEF ConnShape
<1>19. ASSUME NEW d \in Conns, d # c PROVE Kept(d)
  <2>1. ConnShape(d)
    BY DEF ShapeInv
  <2> QED BY <1>5, <1>6, <1>19, <2>1, UntouchedShape
<1>20. Calmer(c)
  <2>1. \A s \in Sessions : Named(c, s)' => Named(c, s)
    BY <1>17, SessionAssumption DEF Named, q
  <2>2. Blank(c) => \A i \in DOMAIN toClient'[c] : toClient'[c][i].op \in {"heartbeat_ack", "close"}
    BY <1>2, <1>12 DEF Blank, q
  <2> QED BY <1>5, <1>10, <1>13, <1>14, <2>1, <2>2 DEF Calmer, Identifies, Asks, InCall, Serves, q
<1> QED BY <1>18, <1>19, <1>20 DEF Kept

\* An answer without a name, by a handler that may have read a frame.
LEMMA AnswersShape ==
  ASSUME TypeOK, LinkInv, ShapeInv, NEW c \in Conns, NEW f, <<f>> \in Seq(FrameType),
         f.op \in {"invalid_session", "heartbeat_ack"}, f.sid = NoSession, Wrote(c, <<f>>),
         ~Has(toClient[c], "hello"),
         f.op = "invalid_session" =>
           /\ ~Has(toClient[c], "invalid_session")
           /\ c = socket => ~invalidSessionTimeout \/ ~Blank(c)
           /\ session_pid'[c] = NoSession /\ call[c].op = "none"
           /\ ~Has(toServer'[c], "resume") /\ ~Has(toServer'[c], "identify"),
         UNCHANGED <<handler, call, socket_pid, ready>>,
         session_pid'[c] \in {session_pid[c], NoSession},
         \A s \in Sessions : socket_pid[s] = c /\ handler[c] =>
           session_pid'[c] = s \/ (call[c].op = "replay" /\ call[c].sid = s),
         QueueOK(toServer'[c], ToServerOps),
         \A o : Has(toServer'[c], o) => Has(toServer[c], o),
         \A s : Mentions(toServer'[c], s) => Mentions(toServer[c], s),
         \A d \in Conns : d # c => UNCHANGED <<session_pid[d], toServer[d]>>
  PROVE  \A d \in Conns : Kept(d)
<1> DEFINE q == toClient[c]
<1>1. ConnShape(c)
  BY DEF ShapeInv
<1>2. QueueOK(toClient'[c], ToClientOps)
  BY <1>1, AnsweredQueue
<1>3. \A op : Has(toClient'[c], op) => Has(toClient[c], op) \/ op = f.op
  BY <1>1, AnsweredQueue
<1>4. \A s \in Sessions : Mentions(toClient'[c], s) => Mentions(toClient[c], s)
  BY <1>1, AnsweredQueue
<1>5. \A i \in DOMAIN toClient'[c] : toClient'[c][i] = f \/ \E j \in DOMAIN q : toClient'[c][i] = q[j]
  BY <1>1, AnsweredQueue
<1> HIDE DEF q
<1>6. Phases(c)'
  <2>1. Phases(c)
    BY <1>1 DEF ConnShape
  <2> QED BY <1>3, <2>1 DEF Phases, Serves, InCall, Asks, Identifies, Answered
<1>7. Introduced(c)'
  <2> SUFFICES ASSUME NEW r \in Sessions, ready'[r]
               PROVE  /\ call'[c].sid # r /\ ~Mentions(toServer'[c], r)
                      /\ \A i \in DOMAIN toClient'[c] : toClient'[c][i].sid = r => toClient'[c][i].op = "event"
    BY DEF Introduced
  <2> QED BY <1>1, <1>5, SessionAssumption DEF ConnShape, Introduced, q
<1>8. \A s \in Sessions : Named(c, s)' => Named(c, s)
  BY <1>4, SessionAssumption DEF Named, Refers
<1>9. ConnShape(c)'
  BY <1>1, <1>2, <1>6, <1>7, <1>8 DEF ConnShape
<1>10. ASSUME NEW d \in Conns, d # c PROVE Kept(d)
  <2>1. ConnShape(d)
    BY DEF ShapeInv
  <2>2. toClient'[d] = toClient[d]
    BY <1>10 DEF Wrote
  <2> QED BY <1>10, <2>1, <2>2, UntouchedShape
<1>11. ASSUME c = socket PROVE Calmer(c)
  <2>1. (invalidSessionTimeout \/ Identifies(c)') /\ Blank(c) => f.op = "heartbeat_ack"
    BY <1>11 DEF Identifies
  <2>2. Blank(c) /\ f.op = "heartbeat_ack" =>
          \A i \in DOMAIN toClient'[c] : toClient'[c][i].op \in {"heartbeat_ack", "close"}
    BY <1>5 DEF Blank, q
  <2>3. Has(toClient'[c], "hello") => Has(toClient[c], "hello")
    BY <1>3
  <2>4. Has(toClient'[c], "resumed") => Has(toClient[c], "resumed")
    BY <1>3
  <2>5. Blank(c) => ~Serves(c)'
    BY DEF Blank, Serves
  <2> QED BY <1>8, <2>1, <2>2, <2>3, <2>4, <2>5 DEF Calmer, Identifies, Asks, InCall
<1> QED BY <1>9, <1>10, <1>11 DEF Kept

\* A handler that refuses an IDENTIFY or a RESUME.
LEMMA RefusesShape ==
  ASSUME TypeOK, LinkInv, ShapeInv, NEW c \in Conns, Refuses(c)
  PROVE  \A d \in Conns : Kept(d)
<1> USE DEF sessions
<1>1. PICK op \in {"identify", "resume"} : Receives(c, op)
  BY DEF Refuses
<1>2. ConnShape(c) /\ Phases(c)
  BY DEF ShapeInv, ConnShape
<1>3. /\ handler[c] /\ call[c].op = "none"
      /\ Has(toServer[c], op) /\ ~Has(toClient[c], "hello")
      /\ QueueOK(toServer'[c], ToServerOps)
      /\ ~Has(toServer'[c], "resume") /\ ~Has(toServer'[c], "identify")
  BY <1>1, <1>2, ReadQueue
<1>4. \A o : Has(toServer'[c], o) => Has(toServer[c], o)
  BY <1>1, <1>2, ReadQueue
<1>5. \A s : Mentions(toServer'[c], s) => Mentions(toServer[c], s)
  BY <1>1, <1>2, ReadQueue
<1>6. \A d \in Conns : d # c => toServer'[d] = toServer[d]
  BY <1>1, <1>2, ReadQueue
<1>7. <<InvalidSession>> \in Seq(FrameType) /\ InvalidSession.op = "invalid_session" /\ InvalidSession.sid = NoSession
  BY AnswerFrames
<1>8. Wrote(c, <<InvalidSession>>)
  BY <1>7, PutWrites DEF Refuses
<1>9. ~Has(toClient[c], "invalid_session") /\ session_pid[c] = NoSession
  BY <1>2, <1>3 DEF Phases, Asks, Identifies, Serves
<1>10. UNCHANGED <<handler, call, socket_pid, ready, session_pid>>
  BY DEF Refuses
<1>11. \A s \in Sessions : socket_pid[s] = c /\ handler[c] =>
         session_pid'[c] = s \/ (call[c].op = "replay" /\ call[c].sid = s)
  BY <1>2, <1>10 DEF ConnShape
<1>12. c = socket => ~invalidSessionTimeout \/ ~Blank(c)
  BY <1>3 DEF ShapeInv, Attends, Identifies, Blank, Asks
<1> QED BY <1>3, <1>4, <1>5, <1>6, <1>7, <1>8, <1>9, <1>10, <1>11, <1>12, AnswersShape

\* A handler that answers a heartbeat.
LEMMA AcknowledgesShape ==
  ASSUME TypeOK, LinkInv, ShapeInv, NEW c \in Conns, Acknowledges(c)
  PROVE  \A d \in Conns : Kept(d)
<1>1. Receives(c, "heartbeat")
  BY DEF Acknowledges
<1>2. ConnShape(c)
  BY DEF ShapeInv
<1>3. /\ handler[c] /\ call[c].op = "none"
      /\ ~Has(toClient[c], "hello")
      /\ QueueOK(toServer'[c], ToServerOps)
  BY <1>1, <1>2, ReadQueue
<1>4. \A o : Has(toServer'[c], o) => Has(toServer[c], o)
  BY <1>1, <1>2, ReadQueue
<1>5. \A s : Mentions(toServer'[c], s) => Mentions(toServer[c], s)
  BY <1>1, <1>2, ReadQueue
<1>6. \A d \in Conns : d # c => toServer'[d] = toServer[d]
  BY <1>1, <1>2, ReadQueue
<1>7. <<HeartbeatAck>> \in Seq(FrameType) /\ HeartbeatAck.op = "heartbeat_ack" /\ HeartbeatAck.sid = NoSession
  BY AnswerFrames
<1>8. Wrote(c, <<HeartbeatAck>>)
  BY <1>7, PutWrites DEF Acknowledges
<1>9. UNCHANGED <<handler, call, socket_pid, ready, session_pid>>
  BY DEF Acknowledges
<1>10. \A s \in Sessions : socket_pid[s] = c /\ handler[c] =>
         session_pid'[c] = s \/ (call[c].op = "replay" /\ call[c].sid = s)
  BY <1>2, <1>9 DEF ConnShape
<1> QED BY <1>3, <1>4, <1>5, <1>6, <1>7, <1>8, <1>9, <1>10, AnswersShape

\* A handler whose session is gone.
LEMMA SessionDownShape ==
  ASSUME TypeOK, NumberInv, LinkInv, ShapeInv, NEW c \in Conns, HandlerSessionDown(c)
  PROVE  \A d \in Conns : Kept(d)
<1>1. ConnShape(c) /\ Phases(c)
  BY DEF ShapeInv, ConnShape
<1>2. /\ handler[c] /\ call[c].op = "none" /\ Serves(c) /\ ~alive[session_pid[c]] /\ session_pid[c] \in Sessions
      /\ session_pid'[c] = NoSession /\ \A d \in Conns : d # c => session_pid'[d] = session_pid[d]
      /\ UNCHANGED <<handler, call, socket_pid, ready, toServer>>
  BY DEF HandlerSessionDown, sessionVars, Serves, TypeOK, HandlerTypeOK, SessionOrNone
<1>3. ~Has(toClient[c], "hello") /\ ~Has(toClient[c], "invalid_session")
      /\ ~Has(toServer[c], "resume") /\ ~Has(toServer[c], "identify")
  BY <1>1, <1>2 DEF Phases, Asks, Identifies
<1>4. <<InvalidSession>> \in Seq(FrameType) /\ InvalidSession.op = "invalid_session" /\ InvalidSession.sid = NoSession
  BY AnswerFrames
<1>5. Wrote(c, <<InvalidSession>>)
  BY <1>4, PutWrites DEF HandlerSessionDown, SessionDownFrames
<1>6. \A s \in Sessions : ~(socket_pid[s] = c)
  <2> SUFFICES ASSUME NEW s \in Sessions, socket_pid[s] = c PROVE FALSE
    OBVIOUS
  <2>1. session_pid[c] = s
    BY <1>1, <1>2 DEF ConnShape
  <2> QED BY <1>2, <2>1, SessionAssumption DEF NumberInv, SessionNumbers
<1>7. QueueOK(toServer'[c], ToServerOps)
  BY <1>1, <1>2 DEF ConnShape
<1>8. ~Blank(c)
  BY <1>2 DEF Blank
<1> QED BY <1>2, <1>3, <1>4, <1>5, <1>6, <1>7, <1>8, AnswersShape

\* A handler that takes a RESUME to its session.
LEMMA CallsShape ==
  ASSUME TypeOK, LinkInv, ShapeInv, NEW c \in Conns, Calls(c)
  PROVE  \A d \in Conns : Kept(d)
<1> USE DEF sessions
<1> DEFINE f == toServer[c][1]
<1>1. Receives(c, "resume")
  BY DEF Calls
<1>2. ConnShape(c) /\ Phases(c)
  BY DEF ShapeInv, ConnShape
<1>3. /\ handler[c] /\ call[c].op = "none" /\ f \in FrameType /\ Head(toServer[c]) = f
      /\ Has(toServer[c], "resume")
      /\ QueueOK(toServer'[c], ToServerOps)
      /\ ~Has(toServer'[c], "resume") /\ ~Has(toServer'[c], "identify")
      /\ f.sid \in Sessions /\ Mentions(toServer[c], f.sid)
  BY <1>1, <1>2, ReadQueue
<1>4. \A s : Mentions(toServer'[c], s) => Mentions(toServer[c], s)
  BY <1>1, <1>2, ReadQueue
<1>5. \A d \in Conns : d # c => toServer'[d] = toServer[d]
  BY <1>1, <1>2, ReadQueue
<1> HIDE DEF f
<1>6. /\ call'[c].op = "resume" /\ call'[c].sid = f.sid /\ call'[c].s = f.s
      /\ \A d \in Conns : d # c => call'[d] = call[d]
  <2>1. call'[c] = [NoCall EXCEPT !.op = "resume", !.sid = f.sid, !.s = f.s]
    BY <1>3 DEF Calls, TypeOK, HandlerTypeOK
  <2>2. call'[c].op = "resume" /\ call'[c].sid = f.sid /\ call'[c].s = f.s
    BY <2>1 DEF NoCall
  <2> QED BY <2>2 DEF Calls, TypeOK, HandlerTypeOK
<1>7. UNCHANGED <<handler, socket_pid, ready, session_pid, toClient>>
  BY DEF Calls
<1>8. ~Serves(c) /\ ~Answered(c) /\ ~Has(toClient[c], "hello") /\ ~Has(toClient[c], "invalid_session")
  BY <1>1, <1>2, <1>3, ReadQueue DEF Phases, Asks
<1>9. Phases(c)'
  BY <1>3, <1>6, <1>7, <1>8 DEF Phases, Serves, InCall, Asks, Identifies, Answered
<1>10. Introduced(c)'
  <2> SUFFICES ASSUME NEW r \in Sessions, ready'[r]
               PROVE  /\ call'[c].sid # r /\ ~Mentions(toServer'[c], r)
                      /\ \A i \in DOMAIN toClient'[c] : toClient'[c][i].sid = r => toClient'[c][i].op = "event"
    BY DEF Introduced
  <2>1. Introduced(c) /\ ready[r]
    BY <1>2, <1>7 DEF ConnShape
  <2>2. ~Mentions(toServer[c], r)
    BY <2>1 DEF Introduced
  <2>3. call'[c].sid # r /\ ~Mentions(toServer'[c], r)
    BY <1>3, <1>4, <1>6, <2>2
  <2> QED BY <1>7, <2>1, <2>3 DEF Introduced
<1>11. \A s \in Sessions : Named(c, s)' => Named(c, s)
  BY <1>3, <1>4, <1>6, <1>7 DEF Named, Refers
<1>12. ConnShape(c)'
  <2>1. call'[c].op = "none" <=> call'[c].sid = NoSession
    BY <1>3, <1>6, SessionAssumption
  <2>2. \A s \in Sessions : ~(socket_pid'[s] = c /\ handler'[c])
    BY <1>2, <1>3, <1>7, <1>8, SessionAssumption DEF ConnShape, Serves
  <2> QED BY <1>2, <1>3, <1>7, <1>9, <1>10, <1>11, <2>1, <2>2 DEF ConnShape
<1>13. ASSUME NEW d \in Conns, d # c PROVE Kept(d)
  <2>1. ConnShape(d)
    BY DEF ShapeInv
  <2> QED BY <1>5, <1>6, <1>7, <1>13, <2>1, UntouchedShape
<1>14. Calmer(c)
  <2>1. Asks(c) /\ ~Blank(c) /\ ~Asks(c)' /\ ~Identifies(c)'
    BY <1>3 DEF Asks, Identifies, Blank
  <2> QED BY <1>7, <1>11, <2>1 DEF Calmer
<1> QED BY <1>12, <1>13, <1>14 DEF Kept

\* A handler that writes the replay.
LEMMA FinishesShape ==
  ASSUME TypeOK, LinkInv, ShapeInv, NEW c \in Conns, Finishes(c)
  PROVE  \A d \in Conns : Kept(d)
<1> USE DEF sessions
<1> DEFINE new == ReplayFrames(call[c])
           q == toClient[c]
           s == call[c].sid
           n == Len(call[c].missed)
<1>1. ConnShape(c) /\ Phases(c) /\ InCall(c) /\ call[c].op = "replay" /\ call[c] \in CallType
  BY DEF ShapeInv, ConnShape, Finishes, InCall, TypeOK, HandlerTypeOK
<1>2. s \in Sessions
  BY <1>1 DEF ConnShape, CallType, SessionOrNone
<1>3. /\ new \in Seq(FrameType)
      /\ n \in Nat /\ DOMAIN new = 1..(n + 1)
  BY <1>1, ReplayedFrames
<1>4. \A k \in 1..n : new[k].op = "event" /\ new[k].sid = s
  BY <1>1, ReplayedFrames
<1>5. new[n + 1].op = "resumed" /\ new[n + 1].sid = s
  BY <1>1, ReplayedFrames
<1> HIDE DEF new, n, s
<1>6. \A k \in DOMAIN new : /\ k \in 1..n \/ k = n + 1
                            /\ new[k].op \in {"event", "resumed"} /\ new[k].sid = s
  BY <1>3, <1>4, <1>5
<1>7. QueueOK(new, ToClientOps)
  <2>1. \A k \in DOMAIN new : new[k].op \in ToClientOps /\ (new[k].sid = NoSession <=> new[k].op \notin NamingOps)
    BY <1>2, <1>6, SessionAssumption DEF ToClientOps, NamingOps
  <2>2. ASSUME NEW i \in DOMAIN new, NEW j \in DOMAIN new, i < j PROVE MayFollow(new[i], new[j])
    <3>1. i \in 1..n
      BY <1>3, <2>2
    <3> QED BY <1>4, <1>6, <3>1 DEF MayFollow
  <2> QED BY <2>1, <2>2 DEF QueueOK
<1>8. QueueOK(q, ToClientOps) /\ \A i \in DOMAIN q, k \in DOMAIN new : MayFollow(q[i], new[k])
  <2>1. \A i \in DOMAIN q : q[i].op \notin {"hello", "invalid_session", "ready", "resumed", "identify"}
    BY <1>1 DEF Phases, Answered, Has, ConnShape, QueueOK, ToClientOps
  <2> QED BY <1>1, <1>6, <2>1 DEF ConnShape, MayFollow
<1>9. Wrote(c, new)
  BY <1>3, PutWrites DEF Finishes, new
<1>10. QueueOK(toClient'[c], ToClientOps)
  BY <1>3, <1>7, <1>8, <1>9, WrittenQueue
<1>11. \A op : Has(toClient'[c], op) => Has(q, op) \/ op = "event" \/ op = "resumed"
  <2>1. \A op : Has(toClient'[c], op) => Has(q, op) \/ Has(new, op)
    BY <1>3, <1>7, <1>8, <1>9, WrittenQueue
  <2> QED BY <1>6, <2>1 DEF Has
<1>12. \A r : Mentions(toClient'[c], r) => Mentions(q, r) \/ r = s
  <2>1. \A r : Mentions(toClient'[c], r) => Mentions(q, r) \/ Mentions(new, r)
    BY <1>3, <1>7, <1>8, <1>9, WrittenQueue
  <2> QED BY <1>6, <2>1 DEF Mentions
<1>13. \A i \in DOMAIN toClient'[c] :
         \/ \E j \in DOMAIN q : toClient'[c][i] = q[j]
         \/ \E k \in DOMAIN new : toClient'[c][i] = new[k]
  BY <1>3, <1>7, <1>8, <1>9, WrittenQueue
<1>14. /\ session_pid'[c] = s /\ call'[c] = NoCall
       /\ \A d \in Conns : d # c => UNCHANGED <<session_pid[d], call[d], toClient[d]>>
       /\ UNCHANGED <<handler, toServer, socket_pid, ready>>
  BY <1>9 DEF Finishes, TypeOK, HandlerTypeOK, Wrote, s
<1>15. NoCall.op = "none" /\ NoCall.sid = NoSession
  BY DEF NoCall
<1>16. Named(c, s)
  BY DEF Named, Refers, s
<1> HIDE DEF q
<1>17. Phases(c)'
  BY <1>1, <1>11, <1>14, <1>15 DEF Phases, Serves, InCall, Asks, Identifies, Answered, q
<1>18. Introduced(c)'
  <2> SUFFICES ASSUME NEW r \in Sessions, ready'[r]
               PROVE  /\ call'[c].sid # r /\ ~Mentions(toServer'[c], r)
                      /\ \A i \in DOMAIN toClient'[c] : toClient'[c][i].sid = r => toClient'[c][i].op = "event"
    BY DEF Introduced
  <2>1. Introduced(c) /\ ready[r] /\ r # NoSession
    BY <1>1, <1>14, SessionAssumption DEF ConnShape
  <2>2. s # r /\ ~Mentions(toServer'[c], r) /\ \A j \in DOMAIN q : q[j].sid = r => q[j].op = "event"
    BY <1>14, <2>1 DEF Introduced, q, s
  <2> QED BY <1>6, <1>13, <1>14, <1>15, <2>1, <2>2
<1>19. \A r \in Sessions : Named(c, r)' => Named(c, r)
  BY <1>12, <1>14, <1>15, <1>16, SessionAssumption DEF Named, Refers, q
<1>20. ConnShape(c)'
  <2>1. \A r \in Sessions : socket_pid'[r] = c /\ handler'[c] => session_pid'[c] = r
    BY <1>1, <1>14, SessionAssumption DEF ConnShape, Phases, Serves, s
  <2> QED BY <1>1, <1>10, <1>14, <1>15, <1>17, <1>18, <1>19, <2>1 DEF ConnShape
<1>21. Calmer(c)
  <2>1. ~Blank(c)
    BY <1>1 DEF Blank
  <2>2. Has(toClient'[c], "hello") => Has(q, "hello")
    BY <1>11
  <2>3. ~InCall(c)'
    BY <1>14, <1>15 DEF InCall
  <2> QED BY <1>1, <1>14, <1>19, <2>1, <2>2, <2>3 DEF Calmer, Identifies, Asks, q
<1>22. ASSUME NEW d \in Conns, d # c PROVE Kept(d)
  <2>1. ConnShape(d)
    BY DEF ShapeInv
  <2> QED BY <1>14, <1>22, <2>1, UntouchedShape
<1> QED BY <1>20, <1>21, <1>22 DEF Kept

\* A connection that the network loses.
LEMMA DropShape ==
  ASSUME TypeOK, LinkInv, ShapeInv, NEW c \in Conns, Drop(c)
  PROVE  \A d \in Conns : Kept(d)
<1> DEFINE f == Close(AbnormalClosure)
<1>1. ConnShape(c)
  BY DEF ShapeInv
<1>2. f.op = "close" /\ f.sid = NoSession /\ DOMAIN <<f>> = {1} /\ <<f>>[1] = f
  BY AnswerFrames DEF AbnormalClosure
<1> HIDE DEF f
<1>3. f.op \in ToClientOps /\ f.op \notin NamingOps
  BY <1>2 DEF ToClientOps, NamingOps
<1>4. /\ toClient'[c] = <<f>> /\ UNCHANGED <<handler, session_pid, call, socket_pid, ready>>
      /\ \A d \in Conns : d # c => toClient'[d] = toClient[d] /\ toServer'[d] = toServer[d]
  BY DEF Drop, TypeOK, WireTypeOK, handlerVars, sessionVars, f
<1>5. QueueOK(toClient'[c], ToClientOps)
  BY <1>2, <1>3, <1>4, OneFrame
<1>6. \A op : Has(toClient'[c], op) => op = "close"
  BY <1>2, <1>4 DEF Has
<1>7. \A s : Mentions(toClient'[c], s) => s = NoSession
  BY <1>2, <1>4 DEF Mentions
<1>8. PICK n \in 0..Len(toServer[c]) : toServer'[c] = SubSeq(toServer[c], 1, n)
  BY DEF Drop, TypeOK, WireTypeOK
<1>9. toServer[c] \in Seq(FrameType) /\ QueueOK(toServer[c], ToServerOps)
  BY <1>1 DEF TypeOK, WireTypeOK, ConnShape
<1>10. QueueOK(toServer'[c], ToServerOps)
  BY <1>8, <1>9, PrefixQueue
<1>11. \A op : Has(toServer'[c], op) => Has(toServer[c], op)
  BY <1>8, <1>9, PrefixQueue
<1>12. \A s : Mentions(toServer'[c], s) => Mentions(toServer[c], s)
  BY <1>8, <1>9, PrefixQueue
<1>13. Phases(c)'
  BY <1>1, <1>4, <1>6, <1>11 DEF ConnShape, Phases, Serves, InCall, Asks, Identifies, Answered
<1>14. Introduced(c)'
  BY <1>1, <1>2, <1>4, <1>12, SessionAssumption DEF ConnShape, Introduced
<1>15. \A s \in Sessions : Named(c, s)' => Named(c, s)
  BY <1>4, <1>7, <1>12, SessionAssumption DEF Named, Refers
<1>16. ConnShape(c)'
  BY <1>1, <1>4, <1>5, <1>10, <1>13, <1>14, <1>15 DEF ConnShape
<1>17. Calmer(c)
  <2>1. \A i \in DOMAIN toClient'[c] : toClient'[c][i].op \in {"heartbeat_ack", "close"}
    BY <1>2, <1>4
  <2>2. ~Has(toClient'[c], "hello") /\ ~Has(toClient'[c], "resumed")
    BY <1>6
  <2> QED BY <1>4, <1>11, <1>15, <2>1, <2>2 DEF Calmer, Identifies, Asks, InCall, Serves, Blank
<1>18. ASSUME NEW d \in Conns, d # c PROVE Kept(d)
  <2>1. ConnShape(d)
    BY DEF ShapeInv
  <2> QED BY <1>4, <1>18, <2>1, UntouchedShape
<1> QED BY <1>16, <1>17, <1>18 DEF Kept

\* A name that nobody mentions is on no connection.
LEMMA NotMentioned ==
  ASSUME TypeOK, NEW s \in Sessions, ~SessionMentioned(s)
  PROVE  activeSessionId # s /\ \A c \in Conns : ~Named(c, s)
<1>1. \A c \in Conns : DOMAIN toClient[c] = 1..Len(toClient[c]) /\ DOMAIN toServer[c] = 1..Len(toServer[c])
  BY LenProperties DEF TypeOK, WireTypeOK
<1> QED BY <1>1 DEF SessionMentioned, Named, Refers, Mentions

\* A handler that starts a session: the one step after which the client's socket
\* may be about a session it was not about before.
LEMMA StartsShape ==
  ASSUME TypeOK, LinkInv, ShapeInv, NEW c \in Conns, NEW s \in Sessions, Starts(c, s)
  PROVE  /\ \A d \in Conns : ConnShape(d)' /\ (d # c => Kept(d))
         /\ c = socket => Attends(c)'
         /\ activeSessionId # s /\ \A d \in Conns : ~Named(d, s)
<1>1. Receives(c, "identify") /\ ConnShape(c) /\ Phases(c) /\ LinkOK(c)
  BY DEF Starts, ShapeInv, ConnShape, LinkInv
<1>2. /\ handler[c] /\ call[c].op = "none"
      /\ Has(toServer[c], "identify") /\ ~Has(toClient[c], "hello")
      /\ QueueOK(toServer'[c], ToServerOps)
      /\ ~Has(toServer'[c], "resume") /\ ~Has(toServer'[c], "identify")
  BY <1>1, ReadQueue
<1>3. \A r : Mentions(toServer'[c], r) => Mentions(toServer[c], r)
  BY <1>1, ReadQueue
<1>4. \A d \in Conns : d # c => toServer'[d] = toServer[d]
  BY <1>1, ReadQueue
<1>5. /\ ~SessionMentioned(s) /\ session_pid'[c] = s /\ socket_pid'[s] = c
      /\ \A r \in Sessions : r # s => socket_pid'[r] = socket_pid[r] /\ ready'[r] = ready[r]
      /\ \A d \in Conns : d # c => session_pid'[d] = session_pid[d]
      /\ UNCHANGED <<handler, call, toClient, connectionState, socket, activeSessionId,
                     lastSequenceNumber, heartbeatTimeout, invalidSessionTimeout>>
  BY DEF Starts, StartSession, TypeOK, HandlerTypeOK, SessionTypeOK
<1>6. activeSessionId # s /\ \A d \in Conns : ~Named(d, s)
  BY <1>5, NotMentioned
<1>7. /\ \A i \in DOMAIN toClient[c] : toClient[c][i].op \in {"heartbeat_ack", "close"}
      /\ c = socket => activeSessionId = NoSession /\ ~invalidSessionTimeout
  <2>1. CASE c = socket
    BY <1>2, <2>1 DEF ShapeInv, Attends, Identifies, Blank
  <2>2. CASE c # socket
    BY <1>1, <2>2 DEF LinkOK
  <2> QED BY <2>1, <2>2
<1>8. \A i \in DOMAIN toClient[c] : toClient[c][i].sid = NoSession
  BY <1>1, <1>7 DEF ConnShape, QueueOK, NamingOps
<1>9. ~Has(toClient[c], "invalid_session") /\ ~Has(toClient[c], "ready") /\ ~Has(toClient[c], "resumed")
  BY <1>7 DEF Has
<1>10. \A r \in Sessions : ~Named(c, r)
  <2>1. session_pid[c] = NoSession /\ call[c].sid = NoSession
    BY <1>1, <1>2 DEF ConnShape, Phases, Identifies, Serves
  <2>2. \A i \in DOMAIN toServer[c] : toServer[c][i].sid = NoSession
    BY <1>1, <1>2 DEF ConnShape, Phases, Identifies, Asks, Has, QueueOK, NamingOps, ToServerOps
  <2> QED BY <1>8, <2>1, <2>2, SessionAssumption DEF Named, Refers, Mentions
<1>11. \A r \in Sessions : Named(c, r)' => r = s
  BY <1>3, <1>5, <1>10 DEF Named, Refers
<1>12. Phases(c)'
  BY <1>2, <1>5, <1>9 DEF Phases, Serves, InCall, Asks, Identifies, Answered
<1>13. Introduced(c)'
  <2>1. \A r \in Sessions : call'[c].sid # r /\ ~Mentions(toServer'[c], r)
    BY <1>3, <1>5, <1>10 DEF Named, Refers
  <2> QED BY <1>5, <1>8, <2>1, SessionAssumption DEF Introduced
<1>14. ConnShape(c)'
  <2>1. \A r \in Sessions : r # s => ~(socket_pid'[r] = c /\ handler'[c])
    BY <1>1, <1>5, <1>10 DEF ConnShape, Named, Refers
  <2> QED BY <1>1, <1>2, <1>5, <1>11, <1>12, <1>13, <2>1 DEF ConnShape
<1>15. ASSUME c = socket PROVE Attends(c)'
  <2>1. ~Identifies(c)' /\ ~InCall(c)' /\ ~Asks(c)'
    BY <1>2, <1>5 DEF Identifies, InCall, Asks
  <2> QED BY <1>2, <1>5, <1>7, <1>9, <1>15, <2>1 DEF Attends
<1>16. ASSUME NEW d \in Conns, d # c PROVE Kept(d)
  <2>1. ConnShape(d)
    BY DEF ShapeInv
  <2>2. \A r \in Sessions : /\ socket_pid'[r] = d => socket_pid[r] = d
                            /\ ready'[r] /\ Named(d, r) => ready[r]
    BY <1>5, <1>6, <1>16
  <2> QED BY <1>4, <1>5, <1>16, <2>1, <2>2, UntouchedShape
<1> QED BY <1>6, <1>14, <1>15, <1>16 DEF Kept

\* The shape after a handler's other steps.
LEMMA HandlerShape ==
  ASSUME TypeOK, NumberInv, LinkInv, ShapeInv, NEW c \in Conns, HandlerKind(c),
         ~\E s \in Sessions : Starts(c, s)
  PROVE  \A d \in Conns : Kept(d)
BY ClosesShape, RefusesShape, CallsShape, FinishesShape, AcknowledgesShape, SessionDownShape, DropShape
   DEF HandlerKind

-----------------------------------------------------------------------------
(* The shape that the steps of sessions and handlers leave.                *)

\* What the client makes of a connection that got calmer, it still makes of it.
LEMMA AttendsKept ==
  ASSUME NEW c \in Conns, Attends(c), Calmer(c),
         UNCHANGED <<connectionState, activeSessionId, lastSequenceNumber, heartbeatTimeout,
                     invalidSessionTimeout>>
  PROVE  Attends(c)'
<1>1. invalidSessionTimeout' => ~Identifies(c)'
  BY DEF Attends, Calmer
<1>2. invalidSessionTimeout' \/ Identifies(c)' => Blank(c)'
  BY DEF Attends, Calmer, Blank, Serves, InCall, Asks
<1>3. Has(toClient'[c], "hello") =>
       /\ connectionState' = "Connecting" /\ ~heartbeatTimeout'
       /\ activeSessionId' = NoSession => lastSequenceNumber' = 0
  BY DEF Attends, Calmer
<1>4. connectionState' = "Connected" => ~Has(toClient'[c], "resumed") /\ ~InCall(c)' /\ ~Asks(c)'
  BY DEF Attends, Calmer
<1>5. \A s \in Sessions : Named(c, s)' => activeSessionId' \in {s, NoSession}
  BY DEF Attends, Calmer
<1> QED BY <1>1, <1>2, <1>3, <1>4, <1>5 DEF Attends

\* Connections that keep their shape keep ShapeInv.
LEMMA KeptShape ==
  ASSUME ShapeInv, \A d \in Conns : Kept(d), UNCHANGED client,
         \A s \in Sessions : ready'[s] => ready[s]
  PROVE  ShapeInv'
<1>1. \A c \in Conns : c = socket => Attends(c)'
  BY AttendsKept DEF Kept, ShapeInv, client
<1> QED BY <1>1 DEF ShapeInv, Kept, client

\* ShapeInv after a step of a session or a handler.
LEMMA ServerShape ==
  ASSUME TypeOK, NumberInv, LinkInv, ShapeInv,
         Still \/ (\E s \in Sessions : SessionKind(s)) \/ (\E c \in Conns : HandlerKind(c))
  PROVE  ShapeInv'
<1> USE DEF TypeOK, SessionTypeOK, sessions
<1>0. TypeOK
  OBVIOUS
<1>1. CASE Still
  <2>1. \A d \in Conns : Kept(d)
    <3> SUFFICES ASSUME NEW d \in Conns PROVE Kept(d)
      OBVIOUS
    <3>1. ConnShape(d)
      BY DEF ShapeInv
    <3> QED BY <1>1, <3>1, UntouchedShape DEF Still, conns
  <2> QED BY <1>1, <2>1, KeptShape DEF Still
<1>2. ASSUME NEW s \in Sessions, SessionKind(s) PROVE ShapeInv'
  <2>1. UNCHANGED client
    BY <1>2 DEF SessionKind, Sends, Ends, Detaches, ServeResume, clientVars, client
  <2>2. \A r \in Sessions : ready'[r] => ready[r]
    BY <1>2 DEF SessionKind, Sends, Ends, Stop, Detaches, ServeResume
  <2> QED BY <1>0, <1>2, <2>1, <2>2, SessionShape, KeptShape
<1>3. ASSUME NEW c \in Conns, HandlerKind(c), ~\E s \in Sessions : Starts(c, s) PROVE ShapeInv'
  <2>1. UNCHANGED client /\ UNCHANGED ready
    BY <1>3 DEF HandlerKind, Closes, Refuses, Calls, Finishes, Acknowledges, HandlerSessionDown, Drop,
                sessionVars, clientVars, client
  <2> QED BY <1>0, <1>3, <2>1, HandlerShape, KeptShape
<1>4. ASSUME NEW c \in Conns, NEW s \in Sessions, Starts(c, s) PROVE ShapeInv'
  <2>1. /\ \A d \in Conns : ConnShape(d)' /\ (d # c => Kept(d))
        /\ c = socket => Attends(c)'
        /\ activeSessionId # s
    BY <1>0, <1>4, StartsShape
  <2>2. /\ \A r \in Sessions : r # s => ready'[r] = ready[r]
        /\ UNCHANGED <<connectionState, socket, activeSessionId, lastSequenceNumber, heartbeatTimeout,
                       invalidSessionTimeout>>
    BY <1>4 DEF Starts, StartSession
  <2>3. \A d \in Conns : d = socket => Attends(d)'
    BY <2>1, <2>2, AttendsKept DEF Kept, ShapeInv
  <2> QED BY <2>1, <2>2, <2>3 DEF ShapeInv
<1> QED BY <1>1, <1>2, <1>3, <1>4

-----------------------------------------------------------------------------
(* The shape that the client's steps leave.                                *)

\* What the client sends to an open connection.
LEMMA SentQueue ==
  ASSUME TypeOK, NEW c \in Conns, NEW f \in FrameType, Sent(c, f), QueueOK(toServer[c], ToServerOps),
         f.op \in ToServerOps, f.sid = NoSession <=> f.op \notin NamingOps,
         \A i \in DOMAIN toServer[c] : MayFollow(toServer[c][i], f)
  PROVE  /\ QueueOK(toServer'[c], ToServerOps)
         /\ \A op : Has(toServer'[c], op) => Has(toServer[c], op) \/ (f.op = op /\ link[c])
         /\ \A s : Mentions(toServer'[c], s) => Mentions(toServer[c], s) \/ (f.sid = s /\ link[c])
<1> DEFINE q == toServer[c]
<1>1. CASE link[c]
  <2>1. q \in Seq(FrameType) /\ <<f>> \in Seq(FrameType) /\ DOMAIN <<f>> = {1} /\ <<f>>[1] = f
    BY DEF TypeOK, WireTypeOK
  <2>2. toServer'[c] = q \o <<f>>
    BY <1>1, <2>1, AppendIsConcat DEF Sent
  <2>3. QueueOK(<<f>>, ToServerOps)
    BY OneFrame
  <2>4. \A op : Has(<<f>>, op) <=> f.op = op
    BY OneFrame
  <2>5. \A s : Mentions(<<f>>, s) <=> f.sid = s
    BY OneFrame
  <2>6. \A i \in DOMAIN q, k \in DOMAIN <<f>> : MayFollow(q[i], <<f>>[k])
    BY <2>1
  <2>7. QueueOK(toServer'[c], ToServerOps)
    BY <2>1, <2>2, <2>3, <2>6, LongerQueue
  <2>8. \A op : Has(toServer'[c], op) <=> Has(q, op) \/ Has(<<f>>, op)
    BY <2>1, <2>2, <2>3, <2>6, LongerQueue
  <2>9. \A s : Mentions(toServer'[c], s) <=> Mentions(q, s) \/ Mentions(<<f>>, s)
    BY <2>1, <2>2, <2>3, <2>6, LongerQueue
  <2> QED BY <1>1, <2>4, <2>5, <2>7, <2>8, <2>9
<1>2. CASE ~link[c]
  BY <1>2 DEF Sent
<1> QED BY <1>1, <1>2

\* A connection whose frames to the client are thrown away.
LEMMA EmptiedShape ==
  ASSUME NEW c \in Conns, ConnShape(c), toClient'[c] = <<>>,
         UNCHANGED <<toServer[c], call[c], session_pid[c], handler[c], socket_pid, ready>>
  PROVE  ConnShape(c)' /\ \A s \in Sessions : Named(c, s)' => Named(c, s)
<1>1. QueueOK(<<>>, ToClientOps) /\ (\A op : ~Has(<<>>, op)) /\ (\A s : ~Mentions(<<>>, s)) /\ DOMAIN <<>> = {}
  BY EmptyQueue
<1>2. Phases(c)'
  BY <1>1 DEF ConnShape, Phases, Serves, InCall, Asks, Identifies, Answered
<1>3. Introduced(c)'
  BY <1>1 DEF ConnShape, Introduced
<1>4. \A s \in Sessions : Named(c, s)' => Named(c, s)
  BY <1>1 DEF Named, Refers
<1> QED BY <1>1, <1>2, <1>3, <1>4 DEF ConnShape

\* A new socket, which is about no session yet.
LEMMA ReconnectShape ==
  ASSUME TypeOK, LinkInv, ShapeInv, NEW c \in Conns, Reconnect(c)
  PROVE  ShapeInv' /\ \A s \in Sessions : ~Named(c, s)'
<1>1. /\ \A s \in Sessions : socket_pid[s] # c
      /\ session_pid[c] = NoSession /\ call[c] = NoCall /\ toServer[c] = <<>>
      /\ connectionState \in {"Disconnected", "Reconnecting"}
      /\ connectionState' = "Connecting" /\ socket' = c
      /\ toClient'[c] = <<Hello>>
      /\ \A d \in Conns : d # c => handler'[d] = handler[d] /\ toClient'[d] = <<>>
      /\ UNCHANGED <<sessionVars, session_pid, call, toServer, heartbeatTimeout, invalidSessionTimeout>>
      /\ \/ activeSessionId # NoSession /\ UNCHANGED <<activeSessionId, lastSequenceNumber>>
         \/ activeSessionId' = NoSession /\ lastSequenceNumber' = 0
  BY ReconnectOpens
<1>2. DOMAIN <<Hello>> = {1} /\ <<Hello>>[1] = Hello /\ Hello.op = "hello" /\ Hello.sid = NoSession
  BY AnswerFrames
<1>3. Hello.op \in ToClientOps /\ Hello.op \notin NamingOps
  BY <1>2 DEF ToClientOps, NamingOps
<1>4. QueueOK(toClient'[c], ToClientOps)
  BY <1>1, <1>2, <1>3, OneFrame
<1>5. \A op : Has(toClient'[c], op) => op = "hello"
  BY <1>1, <1>2 DEF Has
<1>6. \A s : Mentions(toClient'[c], s) => s = NoSession
  BY <1>1, <1>2 DEF Mentions
<1>7. QueueOK(<<>>, ToServerOps) /\ (\A op : ~Has(<<>>, op)) /\ (\A s : ~Mentions(<<>>, s))
  BY EmptyQueue
<1>8. NoCall.op = "none" /\ NoCall.sid = NoSession
  BY DEF NoCall
<1>9. /\ session_pid'[c] = NoSession /\ call'[c] = NoCall /\ toServer'[c] = <<>>
      /\ UNCHANGED <<socket_pid, ready>>
  BY <1>1 DEF sessionVars
<1>10. Phases(c)'
  BY <1>5, <1>7, <1>8, <1>9 DEF Phases, Serves, InCall, Asks, Identifies, Answered
<1>11. Introduced(c)'
  BY <1>1, <1>2, <1>7, <1>8, <1>9, SessionAssumption DEF Introduced
<1>12. \A s \in Sessions : ~Named(c, s)'
  BY <1>6, <1>7, <1>8, <1>9, SessionAssumption DEF Named, Refers
<1>13. ConnShape(c)'
  BY <1>1, <1>4, <1>7, <1>8, <1>9, <1>10, <1>11, <1>12 DEF ConnShape
<1>14. Attends(c)'
  <2>1. ~invalidSessionTimeout /\ ~heartbeatTimeout
    BY <1>1 DEF LinkInv, ClientRests, ShapeInv
  <2>2. ~Identifies(c)' /\ (activeSessionId' = NoSession => lastSequenceNumber' = 0)
    BY <1>1, <1>7, <1>9 DEF Identifies
  <2> QED BY <1>1, <1>12, <2>1, <2>2 DEF Attends
<1>15. \A d \in Conns : d # c => ConnShape(d)'
  <2> SUFFICES ASSUME NEW d \in Conns, d # c PROVE ConnShape(d)'
    OBVIOUS
  <2>1. ConnShape(d)
    BY DEF ShapeInv
  <2> QED BY <1>1, <1>9, <2>1, EmptiedShape
<1> QED BY <1>1, <1>9, <1>12, <1>13, <1>14, <1>15, SessionAssumption DEF ShapeInv

\* A socket that the client gives up.
LEMMA DisconnectShape ==
  ASSUME TypeOK, LinkInv, ShapeInv, Disconnect
  PROVE  ShapeInv' /\ \A s \in Sessions : Named(socket, s)' => Named(socket, s)
<1>1. socket \in Conns
  BY ClientSocket DEF Disconnect
<1>2. /\ toClient'[socket] = <<>> /\ ~invalidSessionTimeout' /\ ~heartbeatTimeout'
      /\ \A d \in Conns : d # socket => toClient'[d] = toClient[d]
      /\ connectionState' = "Reconnecting"
      /\ UNCHANGED <<handler, session_pid, call, toServer, socket, socket_pid, ready, activeSessionId,
                     lastSequenceNumber>>
  BY <1>1 DEF Disconnect, TypeOK, WireTypeOK, sessionVars, handlerVars
<1>3. ConnShape(socket)' /\ \A s \in Sessions : Named(socket, s)' => Named(socket, s)
  <2>1. ConnShape(socket)
    BY <1>1 DEF ShapeInv
  <2> QED BY <1>1, <1>2, <2>1, EmptiedShape
<1>4. ASSUME NEW d \in Conns, d # socket PROVE ConnShape(d)'
  <2>1. ConnShape(d)
    BY DEF ShapeInv
  <2>2. Kept(d)
    BY <1>2, <1>4, <2>1, UntouchedShape
  <2> QED BY <2>2 DEF Kept
<1>5. Attends(socket)'
  <2>1. Attends(socket)
    BY <1>1 DEF ShapeInv
  <2>2. (\A op : ~Has(toClient'[socket], op)) /\ DOMAIN toClient'[socket] = {}
    BY <1>2, EmptyQueue
  <2>3. Identifies(socket)' => Identifies(socket)
    BY <1>2 DEF Identifies
  <2>4. Blank(socket) => Blank(socket)'
    BY <1>2, <2>2 DEF Blank, Serves, InCall, Asks
  <2> QED BY <1>2, <1>3, <2>1, <2>2, <2>3, <2>4 DEF Attends
<1> QED BY <1>1, <1>2, <1>3, <1>4, <1>5 DEF ShapeInv

\* What is left of the queue once the client has taken its first frame.
LEMMA TakenQueue ==
  ASSUME TypeOK, LinkInv, ShapeInv, ClientReceive
  PROVE  /\ socket \in Conns /\ ConnShape(socket) /\ Phases(socket) /\ Introduced(socket) /\ Attends(socket)
         /\ Head(toClient[socket]) = toClient[socket][1] /\ 1 \in DOMAIN toClient[socket]
         /\ toClient[socket][1] \in FrameType /\ toClient[socket][1].op \in ToClientOps
         /\ toClient[socket][1].sid = NoSession <=> toClient[socket][1].op \notin NamingOps
         /\ Has(toClient[socket], toClient[socket][1].op) /\ Mentions(toClient[socket], toClient[socket][1].sid)
         /\ toClient'[socket] \in Seq(FrameType) /\ QueueOK(toClient'[socket], ToClientOps)
         /\ \A op : Has(toClient'[socket], op) => Has(toClient[socket], op)
         /\ \A s : Mentions(toClient'[socket], s) => Mentions(toClient[socket], s)
         /\ \A i \in DOMAIN toClient'[socket] :
              /\ MayFollow(toClient[socket][1], toClient'[socket][i])
              /\ i + 1 \in DOMAIN toClient[socket] /\ toClient'[socket][i] = toClient[socket][i + 1]
         /\ ~Has(toClient'[socket], "hello")
<1> DEFINE q == toClient[socket]
           t == toClient'[socket]
<1>1. socket \in Conns /\ q \in Seq(FrameType) /\ q # <<>> /\ t = Tail(q)
  BY ReceiveReads
<1>2. ConnShape(socket) /\ Phases(socket) /\ Introduced(socket) /\ Attends(socket)
  BY <1>1 DEF ShapeInv, ConnShape
<1>3. QueueOK(q, ToClientOps)
  BY <1>2 DEF ConnShape
<1> HIDE DEF q, t
<1>4. /\ t \in Seq(FrameType) /\ QueueOK(t, ToClientOps)
      /\ Head(q) = q[1] /\ 1 \in DOMAIN q /\ q[1] \in FrameType /\ q[1].op \in ToClientOps
      /\ q[1].sid = NoSession <=> q[1].op \notin NamingOps
  BY <1>1, <1>3, TailQueue
<1>5. \A op : Has(t, op) => Has(q, op)
  BY <1>1, <1>3, TailQueue
<1>6. \A s : Mentions(t, s) => Mentions(q, s)
  BY <1>1, <1>3, TailQueue
<1>7. \A i \in DOMAIN t : MayFollow(q[1], t[i]) /\ i + 1 \in DOMAIN q /\ t[i] = q[i + 1]
  BY <1>1, <1>3, TailQueue
<1>8. Has(q, q[1].op) /\ Mentions(q, q[1].sid)
  BY <1>4 DEF Has, Mentions
<1>9. ~Has(t, "hello")
  BY <1>7 DEF Has, MayFollow
<1> QED BY <1>1, <1>2, <1>4, <1>5, <1>6, <1>7, <1>8, <1>9 DEF q, t

\* A connection whose client took a frame and sent nothing.
LEMMA TakenShape ==
  ASSUME TypeOK, LinkInv, ShapeInv, ClientReceive, UNCHANGED toServer
  PROVE  /\ \A d \in Conns : ConnShape(d)'
         /\ \A s \in Sessions : Named(socket, s)' => Named(socket, s)
         /\ Blank(socket) => \A i \in DOMAIN toClient'[socket] : toClient'[socket][i].op \in {"heartbeat_ack", "close"}
<1>1. /\ \A d \in Conns : d # socket => toClient'[d] = toClient[d]
      /\ UNCHANGED <<sessionVars, handler, session_pid, call>>
  BY ReceiveReads
<1>2. /\ socket \in Conns /\ ConnShape(socket) /\ Phases(socket) /\ Introduced(socket)
      /\ QueueOK(toClient'[socket], ToClientOps)
  BY TakenQueue
<1>3. \A op : Has(toClient'[socket], op) => Has(toClient[socket], op)
  BY TakenQueue
<1>4. \A s : Mentions(toClient'[socket], s) => Mentions(toClient[socket], s)
  BY TakenQueue
<1>5. \A i \in DOMAIN toClient'[socket] :
        i + 1 \in DOMAIN toClient[socket] /\ toClient'[socket][i] = toClient[socket][i + 1]
  BY TakenQueue
<1>6. UNCHANGED <<socket_pid, ready>>
  BY <1>1 DEF sessionVars
<1> DEFINE c == socket
           t == toClient'[socket]
<1>7. /\ (InCall(c)' <=> InCall(c)) /\ (Serves(c)' <=> Serves(c)) /\ (Asks(c)' <=> Asks(c))
      /\ (Identifies(c)' <=> Identifies(c)) /\ (Answered(c)' => Answered(c))
  <2>1. socket' = socket
    BY ReceiveReads
  <2> QED BY <1>1, <1>3, <2>1 DEF Serves, InCall, Asks, Identifies, Answered
<1>8. /\ ConnShape(socket)' /\ \A s \in Sessions : Named(socket, s)' => Named(socket, s)
  <2>1. socket' = socket
    BY ReceiveReads
  <2>2. Phases(socket)'
    BY <1>2, <1>3, <1>7, <2>1 DEF Phases
  <2>3. Introduced(socket)'
    BY <1>1, <1>2, <1>5, <1>6, <2>1 DEF Introduced
  <2>4. \A s \in Sessions : Named(socket, s)' => Named(socket, s)
    BY <1>1, <1>4, <2>1 DEF Named, Refers
  <2> QED BY <1>1, <1>2, <1>6, <2>1, <2>2, <2>3, <2>4 DEF ConnShape
<1>9. ASSUME NEW d \in Conns, d # socket PROVE ConnShape(d)'
  <2>1. ConnShape(d)
    BY DEF ShapeInv
  <2>2. Kept(d)
    BY <1>1, <1>6, <1>9, <2>1, UntouchedShape
  <2> QED BY <2>2 DEF Kept
<1>10. \A d \in Conns : ConnShape(d)'
  <2> SUFFICES ASSUME NEW d \in Conns PROVE ConnShape(d)'
    OBVIOUS
  <2>1. CASE d = socket
    <3>1. socket' = socket
      BY ReceiveReads
    <3> QED BY <1>8, <2>1, <3>1
  <2> QED BY <1>9, <2>1
<1> QED BY <1>5, <1>8, <1>10 DEF Blank

\* The shape after a frame that the client does not answer.
LEMMA ReceiveShape ==
  ASSUME TypeOK, LinkInv, ShapeInv, SwitchesOff, ClientReceive, ~OnHello(Head(toClient[socket]))
  PROVE  ShapeInv'
<1> DEFINE c == socket
           f == toClient[socket][1]
           t == toClient'[socket]
<1>1. /\ socket \in Conns /\ ConnShape(socket) /\ Phases(socket) /\ Introduced(socket) /\ Attends(socket)
      /\ Head(toClient[socket]) = f /\ f \in FrameType
      /\ f.sid = NoSession <=> f.op \notin NamingOps
      /\ Has(toClient[socket], f.op) /\ Mentions(toClient[socket], f.sid)
      /\ ~Has(t, "hello")
  BY TakenQueue
<1>2. \A i \in DOMAIN t : MayFollow(f, t[i])
  BY TakenQueue
<1>3. \A op : Has(t, op) => Has(toClient[socket], op)
  BY TakenQueue
<1>4. /\ UNCHANGED <<sessionVars, handler, session_pid, call, socket>>
      /\ connectionState \in {"Connecting", "Connected"}
  BY ReceiveReads
<1>5. UNCHANGED toServer
  BY <1>1 DEF ClientReceive, OnDispatch, OnHeartbeatAck, OnInvalidSession, OnClose
<1>6. /\ \A d \in Conns : ConnShape(d)'
      /\ \A s \in Sessions : Named(socket, s)' => Named(socket, s)
      /\ Blank(socket) => \A i \in DOMAIN t : t[i].op \in {"heartbeat_ack", "close"}
  BY <1>5, TakenShape
<1>7. UNCHANGED <<ready>>
  BY <1>4 DEF sessionVars
<1>8. /\ (InCall(c)' <=> InCall(c)) /\ (Serves(c)' <=> Serves(c)) /\ (Asks(c)' <=> Asks(c))
      /\ (Identifies(c)' <=> Identifies(c))
  BY <1>4, <1>5 DEF Serves, InCall, Asks, Identifies
<1> HIDE DEF f
<1>9. CASE OnDispatch(f)
  <2>1. /\ f.op \in SessionOps /\ UNCHANGED <<heartbeatTimeout, invalidSessionTimeout>>
        /\ activeSessionId' = IF f.op = "ready" THEN f.sid ELSE activeSessionId
        /\ connectionState' = IF f.op = "event" THEN connectionState ELSE "Connected"
    BY <1>9 DEF OnDispatch, SessionOps
  <2>2. f.sid \in Sessions /\ Named(socket, f.sid)
    BY <1>1, <2>1, FrameFields DEF SessionOps, NamingOps, SessionOrNone, Named
  <2>3. ~Blank(socket) /\ ~invalidSessionTimeout /\ ~Identifies(socket)
    BY <1>1, <2>1 DEF Blank, Has, Attends, SessionOps
  <2>4. f.op # "event" => Answered(socket) /\ ~InCall(socket) /\ ~Asks(socket) /\ ~Has(t, "resumed")
    <3>1. f.op # "event" => Answered(socket)
      BY <1>1, <2>1 DEF Answered, SessionOps
    <3>2. f.op # "event" => \A i \in DOMAIN t : t[i].op # "resumed"
      BY <1>2, <2>1 DEF MayFollow, SessionOps
    <3> QED BY <1>1, <3>1, <3>2 DEF Phases, Has
  <2>5. Attends(socket)'
    <3>1. \A s \in Sessions : Named(socket, s)' => activeSessionId' \in {s, NoSession}
      BY <1>1, <1>6, <2>1, <2>2 DEF ConnShape, Attends
    <3>2. connectionState' = "Connected" => ~Has(toClient'[socket], "resumed") /\ ~InCall(socket)' /\ ~Asks(socket)'
      BY <1>1, <1>3, <1>8, <2>1, <2>4 DEF Attends
    <3>3. ~invalidSessionTimeout' /\ ~Identifies(socket)' /\ ~Has(toClient'[socket], "hello")
      BY <1>1, <1>8, <2>1, <2>3
    <3> QED BY <1>4, <3>1, <3>2, <3>3 DEF Attends
  <2>6. \A s \in Sessions : activeSessionId' = s => ~ready'[s]
    <3>1. f.op = "ready" => ~ready[f.sid]
      <4> SUFFICES ASSUME f.op = "ready", ready[f.sid] PROVE FALSE
        OBVIOUS
      <4>1. 1 \in DOMAIN toClient[socket] /\ toClient[socket][1] = f
        BY TakenQueue DEF f
      <4> QED BY <1>1, <2>2, <4>1 DEF Introduced
    <3> QED BY <1>7, <2>1, <3>1 DEF ShapeInv
  <2>7. connectionState' \in {"Connecting", "Connected"}
    BY <1>4, <2>1
  <2> QED BY <1>4, <1>6, <2>5, <2>6, <2>7 DEF ShapeInv
<1>10. CASE OnHeartbeatAck(f)
  <2>1. UNCHANGED <<connectionState, activeSessionId, lastSequenceNumber, heartbeatTimeout, invalidSessionTimeout>>
    BY <1>10 DEF OnHeartbeatAck
  <2>2. Blank(socket) => Blank(socket)'
    BY <1>4, <1>6, <1>8, <2>1 DEF Blank
  <2>3. Attends(socket)'
    BY <1>1, <1>3, <1>4, <1>6, <1>8, <2>1, <2>2 DEF Attends
  <2> QED BY <1>4, <1>6, <1>7, <2>1, <2>3 DEF ShapeInv
<1>11. CASE OnInvalidSession(f)
  <2>1. /\ f.op = "invalid_session" /\ UNCHANGED <<connectionState, heartbeatTimeout>> /\ invalidSessionTimeout'
        /\ activeSessionId' = NoSession /\ lastSequenceNumber' = 0
    BY <1>11 DEF OnInvalidSession, ClearSession
  <2>2. ~Serves(socket) /\ ~InCall(socket) /\ ~Asks(socket) /\ ~Identifies(socket)
    BY <1>1, <2>1 DEF Phases
  <2>3. \A i \in DOMAIN t : t[i].op \in {"heartbeat_ack", "close"}
    BY <1>2, <2>1 DEF MayFollow
  <2>4. Blank(socket)'
    BY <1>4, <1>8, <2>1, <2>2, <2>3 DEF Blank
  <2>5. Attends(socket)'
    BY <1>1, <1>3, <1>4, <1>8, <2>1, <2>2, <2>4 DEF Attends
  <2> QED BY <1>4, <1>6, <2>1, <2>5, SessionAssumption DEF ShapeInv
<1>12. CASE OnClose(f)
  <2>1. /\ connectionState' = "Reconnecting" /\ ~heartbeatTimeout' /\ ~invalidSessionTimeout'
        /\ UNCHANGED <<activeSessionId, lastSequenceNumber>>
    BY <1>12 DEF OnClose
  <2>2. Blank(socket) => Blank(socket)'
    BY <1>4, <1>6, <1>8, <2>1 DEF Blank
  <2>3. Attends(socket)'
    BY <1>1, <1>4, <1>6, <1>8, <2>1, <2>2 DEF Attends
  <2> QED BY <1>4, <1>6, <1>7, <2>1, <2>3 DEF ShapeInv
<1> QED BY <1>1, <1>9, <1>10, <1>11, <1>12 DEF ClientReceive

\* A frame that the client sends.
LEMMA SentShape ==
  ASSUME TypeOK, LinkInv, ShapeInv, socket \in Conns, NEW f \in FrameType, Sent(socket, f),
         f.op \in ToServerOps, f.sid = NoSession <=> f.op \notin NamingOps,
         f.op # "resume", \A i \in DOMAIN toServer[socket] : MayFollow(toServer[socket][i], f),
         ~Has(toClient[socket], "hello"), f.op = "identify" => Blank(socket),
         UNCHANGED <<handler, session_pid, call, toClient, socket, socket_pid, ready>>
  PROVE  /\ \A d \in Conns : ConnShape(d)'
         /\ \A s \in Sessions : Named(socket, s)' => Named(socket, s)
         /\ ~Asks(socket) => ~Asks(socket)'
         /\ Identifies(socket)' => Identifies(socket) \/ f.op = "identify"
<1> DEFINE c == socket
<1>1. ConnShape(c) /\ Phases(c) /\ Introduced(c) /\ QueueOK(toServer[c], ToServerOps)
  BY DEF ShapeInv, ConnShape
<1>2. QueueOK(toServer'[c], ToServerOps)
  BY <1>1, SentQueue
<1>3. \A op : Has(toServer'[c], op) => Has(toServer[c], op) \/ f.op = op
  BY <1>1, SentQueue
<1>4. \A s : Mentions(toServer'[c], s) => Mentions(toServer[c], s) \/ f.sid = s
  BY <1>1, SentQueue
<1>5. f.sid = NoSession
  BY DEF ToServerOps, NamingOps
<1>6. (Asks(c)' => Asks(c)) /\ (Identifies(c)' => Identifies(c) \/ f.op = "identify")
  BY <1>3 DEF Asks, Identifies
<1>7. Phases(c)'
  <2>1. /\ (InCall(c)' <=> InCall(c)) /\ (Serves(c)' <=> Serves(c)) /\ (Answered(c)' <=> Answered(c))
    BY DEF InCall, Serves, Answered
  <2>2. Blank(c) => ~Has(toClient[c], "invalid_session") /\ ~InCall(c) /\ ~Serves(c) /\ ~Asks(c)
    BY DEF Blank, Has
  <2> QED BY <1>1, <1>6, <2>1, <2>2 DEF Phases
<1>8. \A s \in Sessions : Mentions(toServer'[c], s) => Mentions(toServer[c], s)
  BY <1>4, <1>5, SessionAssumption
<1>9. Introduced(c)'
  BY <1>1, <1>8 DEF Introduced
<1>10. \A s \in Sessions : Named(c, s)' => Named(c, s)
  BY <1>8 DEF Named, Refers
<1>11. ConnShape(c)'
  BY <1>1, <1>2, <1>7, <1>9, <1>10 DEF ConnShape
<1>12. ASSUME NEW d \in Conns, d # c PROVE ConnShape(d)'
  <2>1. ConnShape(d)
    BY DEF ShapeInv
  <2>2. Kept(d)
    BY <1>12, <2>1, UntouchedShape DEF Sent
  <2> QED BY <2>2 DEF Kept
<1>13. \A d \in Conns : ConnShape(d)'
  <2> SUFFICES ASSUME NEW d \in Conns PROVE ConnShape(d)'
    OBVIOUS
  <2> QED BY <1>11, <1>12
<1> QED BY <1>6, <1>10, <1>13

\* The shape after a late IDENTIFY.
LEMMA SendIdentifyShape ==
  ASSUME TypeOK, LinkInv, ShapeInv, SendIdentify
  PROVE  ShapeInv'
<1>1. socket \in Conns /\ Sent(socket, Identify)
  BY ClientSocket, SendAppends DEF SendIdentify
<1>2. Attends(socket) /\ Blank(socket) /\ ~Identifies(socket)
  BY <1>1 DEF ShapeInv, Attends, SendIdentify
<1>3. ConnShape(socket) /\ \A i \in DOMAIN toServer[socket] : toServer[socket][i].op = "heartbeat"
  BY <1>1, <1>2 DEF ShapeInv, ConnShape, QueueOK, ToServerOps, Blank, Asks, Identifies, Has
<1>4. Identify \in FrameType /\ Identify.op = "identify" /\ Identify.sid = NoSession
  BY PlainFrames, FrameProperties DEF Identify, Frame
<1>5. /\ Identify.op \in ToServerOps /\ Identify.op \notin NamingOps
      /\ \A i \in DOMAIN toServer[socket] : MayFollow(toServer[socket][i], Identify)
  BY <1>3, <1>4 DEF ToServerOps, NamingOps, MayFollow
<1>6. ~Has(toClient[socket], "hello")
  BY <1>2 DEF Blank, Has
<1>7. UNCHANGED <<handler, session_pid, call, toClient, socket, socket_pid, ready, connectionState,
                  activeSessionId, lastSequenceNumber, heartbeatTimeout>> /\ ~invalidSessionTimeout'
  BY DEF SendIdentify, sessionVars, handlerVars
<1>8. /\ \A d \in Conns : ConnShape(d)'
      /\ \A s \in Sessions : Named(socket, s)' => Named(socket, s)
      /\ ~Asks(socket) => ~Asks(socket)'
  BY <1>1, <1>2, <1>4, <1>5, <1>6, <1>7, SentShape
<1>9. Blank(socket)'
  BY <1>2, <1>7, <1>8 DEF Blank, Serves, InCall
<1>10. Attends(socket)'
  BY <1>2, <1>7, <1>8, <1>9 DEF Attends, Blank, InCall
<1> QED BY <1>7, <1>8, <1>10 DEF ShapeInv

\* The shape after a heartbeat.
LEMMA SendHeartbeatShape ==
  ASSUME TypeOK, LinkInv, ShapeInv, SendHeartbeat
  PROVE  ShapeInv'
<1> DEFINE f == Heartbeat(lastSequenceNumber)
<1>1. UNCHANGED <<handler, session_pid, call, toClient, socket, socket_pid, ready, connectionState,
                  activeSessionId, lastSequenceNumber, heartbeatTimeout, invalidSessionTimeout>>
  BY DEF SendHeartbeat, sessionVars, handlerVars
<1>2. CASE socket = NoConn
  <2>1. UNCHANGED toServer
    BY <1>2, SessionAssumption DEF SendHeartbeat, Send, TypeOK, WireTypeOK
  <2>2. \A d \in Conns : ConnShape(d)'
    <3> SUFFICES ASSUME NEW d \in Conns PROVE ConnShape(d)'
      OBVIOUS
    <3>1. ConnShape(d)
      BY DEF ShapeInv
    <3>2. Kept(d)
      BY <1>1, <2>1, <3>1, UntouchedShape
    <3> QED BY <3>2 DEF Kept
  <2> QED BY <1>1, <1>2, <2>2, SessionAssumption DEF ShapeInv
<1>3. CASE socket # NoConn
  <2>1. socket \in Conns /\ Sent(socket, f)
    BY <1>3, ClientSocket, SendAppends DEF SendHeartbeat
  <2>2. Attends(socket) /\ ConnShape(socket)
    BY <2>1 DEF ShapeInv
  <2>3. f \in FrameType /\ f.op = "heartbeat" /\ f.sid = NoSession /\ f.s = lastSequenceNumber
    BY PlainFrames DEF Heartbeat, Frame, TypeOK, ClientTypeOK
  <2> HIDE DEF f
  <2>4. f.op \in ToServerOps /\ f.op \notin NamingOps
    BY <2>3 DEF ToServerOps, NamingOps
  <2>5. \A i \in DOMAIN toServer[socket] : MayFollow(toServer[socket][i], f)
    <3>1. \A i \in DOMAIN toServer[socket] : /\ toServer[socket][i].op \in ToServerOps
                                             /\ toServer[socket][i].op = "identify" => lastSequenceNumber = 0
      BY <2>2 DEF ConnShape, QueueOK, Attends, Blank, Identifies, Has
    <3> QED BY <2>3, <3>1 DEF MayFollow, ToServerOps
  <2>6. ~Has(toClient[socket], "hello")
    BY <2>2 DEF Attends, SendHeartbeat
  <2>7. /\ \A d \in Conns : ConnShape(d)'
        /\ \A s \in Sessions : Named(socket, s)' => Named(socket, s)
        /\ ~Asks(socket) => ~Asks(socket)'
        /\ Identifies(socket)' => Identifies(socket)
    BY <1>1, <2>1, <2>3, <2>4, <2>5, <2>6, SentShape
  <2>8. Blank(socket) => Blank(socket)'
    BY <1>1, <2>7 DEF Blank, Serves, InCall
  <2>9. Attends(socket)'
    BY <1>1, <2>2, <2>7, <2>8 DEF Attends, InCall
  <2> QED BY <1>1, <2>7, <2>9 DEF ShapeInv
<1> QED BY <1>2, <1>3

\* The shape after HELLO, which the client answers with IDENTIFY or RESUME.
LEMMA HelloShape ==
  ASSUME TypeOK, LinkInv, ShapeInv, SwitchesOff, ClientReceive, OnHello(Head(toClient[socket]))
  PROVE  /\ ShapeInv'
         /\ \A s \in Sessions : Named(socket, s)' => activeSessionId = s
<1> DEFINE c == socket
           t == toClient'[socket]
<1>1. /\ socket \in Conns /\ ConnShape(socket) /\ Phases(socket) /\ Introduced(socket) /\ Attends(socket)
      /\ Head(toClient[socket]) = toClient[socket][1] /\ Has(toClient[socket], toClient[socket][1].op)
      /\ QueueOK(t, ToClientOps)
  BY TakenQueue
<1>2. \A i \in DOMAIN t : MayFollow(toClient[socket][1], t[i])
  BY TakenQueue
<1>3. /\ UNCHANGED <<sessionVars, handler, session_pid, call, socket>>
      /\ \A d \in Conns : d # socket => toClient'[d] = toClient[d]
  BY ReceiveReads
<1>4. toClient[socket][1].op = "hello"
  BY <1>1 DEF OnHello
<1>5. /\ ~Serves(c) /\ ~InCall(c) /\ toServer[c] = <<>> /\ connectionState = "Connecting"
      /\ activeSessionId = NoSession => lastSequenceNumber = 0
  BY <1>1, <1>4 DEF Phases, Attends
<1>6. \A i \in DOMAIN t : t[i].op = "close" /\ t[i].sid = NoSession
  BY <1>1, <1>2, <1>4 DEF MayFollow, QueueOK, NamingOps
<1>7. /\ UNCHANGED <<connectionState, activeSessionId, lastSequenceNumber>> /\ ~invalidSessionTimeout'
      /\ \/ activeSessionId # NoSession /\ Send(socket, Resume(activeSessionId, lastSequenceNumber))
         \/ activeSessionId = NoSession /\ Send(socket, Identify)
  BY DEF OnHello, SwitchesOff
<1>8. PICK f \in FrameType : /\ Sent(socket, f) /\ f.sid = activeSessionId
                             /\ f.op = IF activeSessionId = NoSession THEN "identify" ELSE "resume"
  <2>1. activeSessionId \in SessionOrNone /\ lastSequenceNumber \in Nat
    BY DEF TypeOK, ClientTypeOK
  <2>2. /\ Identify \in FrameType /\ Identify.op = "identify" /\ Identify.sid = NoSession
        /\ Resume(activeSessionId, lastSequenceNumber) \in FrameType
        /\ Resume(activeSessionId, lastSequenceNumber).op = "resume"
        /\ Resume(activeSessionId, lastSequenceNumber).sid = activeSessionId
    BY <2>1, PlainFrames DEF Identify, Resume, Frame
  <2> QED BY <1>1, <1>7, <2>2, SendAppends
<1>9. QueueOK(toServer[c], ToServerOps) /\ (\A op : ~Has(toServer[c], op)) /\ (\A s : ~Mentions(toServer[c], s))
      /\ DOMAIN toServer[c] = {}
  BY <1>5, EmptyQueue
<1>10. f.op \in ToServerOps /\ (f.sid = NoSession <=> f.op \notin NamingOps)
  BY <1>8 DEF ToServerOps, NamingOps
<1>11. QueueOK(toServer'[c], ToServerOps)
  BY <1>1, <1>8, <1>9, <1>10, SentQueue
<1>12. \A op : Has(toServer'[c], op) => f.op = op
  <2>1. \A op : Has(toServer'[c], op) => Has(toServer[c], op) \/ (f.op = op /\ link[c])
    BY <1>1, <1>8, <1>9, <1>10, SentQueue
  <2> QED BY <1>9, <2>1
<1>13. \A s : Mentions(toServer'[c], s) => f.sid = s
  <2>1. \A s : Mentions(toServer'[c], s) => Mentions(toServer[c], s) \/ (f.sid = s /\ link[c])
    BY <1>1, <1>8, <1>9, <1>10, SentQueue
  <2> QED BY <1>9, <2>1
<1>14. ~InCall(c)' /\ ~Serves(c)' /\ UNCHANGED <<socket_pid, ready>>
  BY <1>3, <1>5 DEF InCall, Serves, sessionVars
<1>15. \A op : op # "close" => ~Has(t, op)
  BY <1>6 DEF Has
<1>16. Phases(c)'
  <2>1. ~Answered(c)' /\ ~(Asks(c)' /\ Identifies(c)')
    BY <1>3, <1>12, <1>15 DEF Answered, Asks, Identifies
  <2> QED BY <1>3, <1>14, <1>15, <2>1 DEF Phases
<1>17. call[c].sid = NoSession
  BY <1>1, <1>5 DEF ConnShape, InCall
<1>18. Introduced(c)'
  <2>1. \A s \in Sessions : ready[s] => activeSessionId # s
    BY DEF ShapeInv
  <2> QED BY <1>3, <1>6, <1>8, <1>13, <1>14, <1>17, <2>1, SessionAssumption DEF Introduced
<1>19. \A s \in Sessions : Named(c, s)' => activeSessionId = s
  <2>1. \A s \in Sessions : ~Mentions(t, s)
    BY <1>6, SessionAssumption DEF Mentions
  <2> QED BY <1>3, <1>5, <1>8, <1>13, <1>17, <2>1, SessionAssumption DEF Named, Refers, Serves
<1>20. ConnShape(c)'
  <2>1. \A s \in Sessions : ~(socket_pid'[s] = c /\ handler'[c])
    BY <1>1, <1>3, <1>5, <1>14, SessionAssumption DEF ConnShape, Serves, InCall
  <2> QED BY <1>1, <1>3, <1>11, <1>14, <1>16, <1>18, <1>19, <2>1 DEF ConnShape
<1>21. ASSUME NEW d \in Conns, d # c PROVE ConnShape(d)'
  <2>1. ConnShape(d)
    BY DEF ShapeInv
  <2>2. Kept(d)
    BY <1>3, <1>8, <1>14, <1>21, <2>1, UntouchedShape DEF Sent
  <2> QED BY <2>2 DEF Kept
<1>22. Attends(c)'
  <2>1. Identifies(c)' => activeSessionId = NoSession /\ ~Asks(c)'
    BY <1>3, <1>8, <1>12 DEF Identifies, Asks
  <2>2. Identifies(c)' => Blank(c)'
    BY <1>3, <1>5, <1>6, <1>7, <1>14, <2>1 DEF Blank
  <2>3. /\ socket' = socket /\ ~Has(t, "hello") /\ connectionState' = "Connecting"
        /\ ~invalidSessionTimeout' /\ activeSessionId' = activeSessionId
    BY <1>3, <1>5, <1>7, <1>15
  <2> QED BY <1>19, <2>2, <2>3 DEF Attends
<1>23. \A d \in Conns : ConnShape(d)'
  <2> SUFFICES ASSUME NEW d \in Conns PROVE ConnShape(d)'
    OBVIOUS
  <2> QED BY <1>3, <1>20, <1>21
<1> QED BY <1>3, <1>5, <1>7, <1>14, <1>19, <1>22, <1>23 DEF ShapeInv

\* No step breaks ShapeInv.
LEMMA ShapeStep ==
  ASSUME TypeOK, SwitchesOff, NumberInv, LinkInv, ShapeInv, [Next]_vars
  PROVE  ShapeInv'
<1>1. CASE ClientKind
  <2>1. CASE ClientReceive
    BY <2>1, ReceiveShape, HelloShape
  <2> QED BY <1>1, <2>1, ReconnectShape, DisconnectShape, SendIdentifyShape, SendHeartbeatShape DEF ClientKind
<1>2. CASE ~ClientKind
  <2>1. Still \/ (\E s \in Sessions : SessionKind(s)) \/ (\E c \in Conns : HandlerKind(c))
    BY <1>2, StepKind
  <2> QED BY <2>1, ServerShape
<1> QED BY <1>1, <1>2

\* ShapeInv holds at first.
LEMMA ShapeInit == ASSUME Init PROVE ShapeInv
<1>1. QueueOK(<<>>, ToClientOps) /\ QueueOK(<<>>, ToServerOps) /\ (\A op : ~Has(<<>>, op)) /\ (\A s : ~Mentions(<<>>, s))
  BY EmptyQueue
<1>2. \A c \in Conns : /\ toClient[c] = <<>> /\ toServer[c] = <<>> /\ call[c] = NoCall
                       /\ session_pid[c] = NoSession /\ ~handler[c] /\ c # socket
  BY SessionAssumption DEF Init
<1>3. \A s \in Sessions : ~ready[s]
  BY DEF Init
<1>4. NoCall.op = "none" /\ NoCall.sid = NoSession
  BY DEF NoCall
<1>5. \A c \in Conns : ConnShape(c)
  <2> SUFFICES ASSUME NEW c \in Conns PROVE ConnShape(c)
    OBVIOUS
  <2>1. Phases(c)
    BY <1>1, <1>2, <1>4 DEF Phases, Serves, InCall, Asks, Identifies, Answered
  <2>2. Introduced(c)
    BY <1>3 DEF Introduced
  <2>3. \A s \in Sessions : ~Named(c, s)
    BY <1>1, <1>2, <1>4, SessionAssumption DEF Named, Refers
  <2> QED BY <1>1, <1>2, <1>4, <2>1, <2>2, <2>3 DEF ConnShape
<1> QED BY <1>2, <1>3, <1>5 DEF ShapeInv, Init

\* A connection is about one session at most, its frames follow one another as the
\* opcodes allow, its handler is in one phase of IDENTIFY or RESUME, and a client
\* that is connected has no replay coming.
THEOREM ShapeInvariant == ASSUME SwitchesOff PROVE Spec => []ShapeInv
<1>1. Init => ShapeInv
  BY ShapeInit
<1>2. TypeOK /\ NumberInv /\ LinkInv /\ ShapeInv /\ [Next]_vars => ShapeInv'
  BY ShapeStep
<1> QED BY <1>1, <1>2, TypeCorrect, NumberInvariant, LinkInvariant, PTL DEF Spec
==============================================================================
