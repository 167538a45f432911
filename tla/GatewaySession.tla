--------------------------- MODULE GatewaySession ---------------------------
(***************************************************************************)
(* The resumable session protocol of the gateway: the client's socket      *)
(* (fluxer_app GatewaySocket), the server's WebSocket handler processes    *)
(* (gateway_handler) and the session processes (session, session_dispatch, *)
(* session_monitor, session_ready).                                        *)
(*                                                                         *)
(* A session numbers the events it dispatches (seq), keeps the ones the    *)
(* client has not acknowledged (buffer) and outlives its socket for the    *)
(* resume window.  The client acknowledges with heartbeats and, after a    *)
(* broken connection, opens a new one and resumes from the last sequence   *)
(* number it recorded.                                                     *)
(*                                                                         *)
(* The mailbox of a handler and the WebSocket it feeds are one FIFO        *)
(* (toClient): the handler turns each message into one frame, in order.    *)
(***************************************************************************)
EXTENDS Integers, Sequences, FiniteSets

CONSTANTS
  Sessions,        \* session ids (a dead one nobody mentions is used again)
  Conns,           \* WebSocket connections, each with its handler process
  NoSession,
  NoConn,
  MaxBuffer,       \* ?MAX_EVENT_BUFFER_SIZE
  MaxEvents,       \* bound: a session with as many events logged adds no more
  MaxFaults,       \* bound: drops, timeouts, overflows, terminations, refusals
  MaxGuildLeaves,  \* bound: {guild_leave, G} casts in a behaviour
  ReadyTail,       \* guild events a bot session sends right after READY
  ForegroundRecovery, \* may a focus or online event reconnect at once?
  LapseAtHello        \* may the resume window lapse after the last timer, before HELLO?

ASSUME SessionAssumption ==
  /\ NoSession \notin Sessions /\ NoConn \notin Conns
  /\ MaxBuffer \in Nat \ {0}
  /\ MaxEvents \in Nat /\ MaxFaults \in Nat
  /\ MaxGuildLeaves \in Nat /\ ReadyTail \in Nat
  /\ {ForegroundRecovery, LapseAtHello} \subseteq BOOLEAN

VARIABLES
  \* one session process: session:session_state()
  alive,        \* the process runs
  seq,          \* last sequence number assigned
  ack_seq,      \* last sequence number the client acknowledged
  buffer,       \* dispatched and not acknowledged: sequence of [seq, id]
  socket_pid,   \* the connection it writes to and monitors, or NoConn
  ready,        \* READY is still to be sent
  timers,       \* resume_timeout messages that will still arrive
  doomed,       \* a terminate_force cast is in its mailbox
  \* one handler process: gateway_handler:state()
  handler,      \* the process runs
  session_pid,  \* the session it serves, or NoSession
  call,         \* the resume call it is blocked in
  backpressure, \* a session_backpressure_error is in its mailbox
  \* one connection
  link,         \* the WebSocket is open
  toClient, toServer,
  \* the client: GatewaySocket
  connectionState, socket, activeSessionId, lastSequenceNumber,
  awaitingHeartbeatAck,
  heartbeatTimeout,       \* the heartbeat timer is armed
  invalidSessionTimeout,  \* the timer that sends IDENTIFY is armed
  \* history and bounds
  log,          \* log[s][id]: number of the id-th event of s, was it buffered
  applied,      \* ids of the events of s the client has handed to its stores
  faults, guildLeaves

sessionVars == <<alive, seq, ack_seq, buffer, socket_pid, ready, timers,
                 doomed, log>>
handlerVars == <<handler, session_pid, call, backpressure>>
wireVars    == <<link, toClient, toServer>>
clientVars  == <<connectionState, socket, activeSessionId, lastSequenceNumber,
                 awaitingHeartbeatAck, heartbeatTimeout, invalidSessionTimeout,
                 applied>>
bounds      == <<faults, guildLeaves>>
vars == <<sessionVars, handlerVars, wireVars, clientVars, bounds>>

-----------------------------------------------------------------------------
(* Frames.  s is the sequence number, id the event (history only).         *)

Frame(op, sid, s, id) == [op |-> op, sid |-> sid, s |-> s, id |-> id]
Hello           == Frame("hello", NoSession, 0, 0)
HeartbeatAck    == Frame("heartbeat_ack", NoSession, 0, 0)
InvalidSession  == Frame("invalid_session", NoSession, 0, 0)
Close(code)     == Frame("close", NoSession, code, 0)
Identify        == Frame("identify", NoSession, 0, 0)
Resume(sid, s)  == Frame("resume", sid, s, 0)
Heartbeat(s)    == Frame("heartbeat", NoSession, s, 0)

UnknownError         == 4000
AlreadyAuthenticated == 4005
InvalidSeq           == 4007
SessionTimeout       == 4009
AckBackpressure      == 4013
AbnormalClosure      == 1006

NoCall == [op |-> "none", sid |-> NoSession, s |-> 0, missed |-> <<>>, upto |-> 0]

\* A frame written to a closed WebSocket goes nowhere.
Put(c, frames) == [toClient EXCEPT ![c] = IF link[c] THEN @ \o frames ELSE @]

EventFrames(s, events) ==
  [i \in 1..Len(events) |-> Frame("event", s, events[i].seq, events[i].id)]

\* The suffix of events, which are in the order of their numbers, from n on.
EventsFrom(events, n) ==
  LET later == {i \in 1..Len(events) : events[i].seq >= n}
      first == CHOOSE i \in later : \A j \in later : i <= j
  IN  IF later = {} THEN <<>> ELSE SubSeq(events, first, Len(events))

\* (Mutant: one event too few.)
EventsAfterNext(events, n) == EventsFrom(events, n + 2)

\* [Event || Event <- Buffer, maps:get(seq, Event) > Seq]
EventsAfter(events, n) == EventsFrom(events, n + 1)

\* (Mutant: RESUMED goes out before the events it announces.)
ResumedFirst(done) ==
  <<Frame("resumed", done.sid, done.s, done.upto)>> \o EventFrames(done.sid, done.missed)

\* handle_resume_success: the missed events, then RESUMED.
ReplayFrames(done) ==
  Append(EventFrames(done.sid, done.missed),
         Frame("resumed", done.sid, done.s, done.upto))

\* (Mutant: the handler forgets its session in silence.)
NoFrames == <<>>

\* handle_session_down
SessionDownFrames == <<InvalidSession>>

\* Somebody still holds the name of session s (a pid or a session id).
SessionMentioned(s) ==
  \/ activeSessionId = s
  \/ \E c \in Conns :
       \/ session_pid[c] = s \/ call[c].sid = s
       \/ \E i \in 1..Len(toClient[c]) : toClient[c][i].sid = s
       \/ \E i \in 1..Len(toServer[c]) : toServer[c][i].sid = s

ConnFree(c) ==
  /\ ~handler[c] /\ ~link[c] /\ c # socket
  /\ \A s \in Sessions : socket_pid[s] # c

Init ==
  /\ alive = [s \in Sessions |-> FALSE]
  /\ seq = [s \in Sessions |-> 0] /\ ack_seq = [s \in Sessions |-> 0]
  /\ buffer = [s \in Sessions |-> <<>>]
  /\ socket_pid = [s \in Sessions |-> NoConn]
  /\ ready = [s \in Sessions |-> FALSE]
  /\ timers = [s \in Sessions |-> 0] /\ doomed = [s \in Sessions |-> FALSE]
  /\ log = [s \in Sessions |-> <<>>]
  /\ handler = [c \in Conns |-> FALSE]
  /\ session_pid = [c \in Conns |-> NoSession]
  /\ call = [c \in Conns |-> NoCall]
  /\ backpressure = [c \in Conns |-> FALSE]
  /\ link = [c \in Conns |-> FALSE]
  /\ toClient = [c \in Conns |-> <<>>] /\ toServer = [c \in Conns |-> <<>>]
  /\ connectionState = "Disconnected" /\ socket = NoConn
  /\ activeSessionId = NoSession /\ lastSequenceNumber = 0
  /\ awaitingHeartbeatAck = FALSE /\ heartbeatTimeout = FALSE
  /\ invalidSessionTimeout = FALSE
  /\ applied = [s \in Sessions |-> {}]
  /\ faults = 0 /\ guildLeaves = 0

Fault == faults < MaxFaults /\ faults' = faults + 1 /\ UNCHANGED guildLeaves

-----------------------------------------------------------------------------
(* The session process.                                                    *)

\* {stop, normal, State}: the process ends and its mailbox with it.
Stop(s) ==
  /\ alive' = [alive EXCEPT ![s] = FALSE]
  /\ seq' = [seq EXCEPT ![s] = 0] /\ ack_seq' = [ack_seq EXCEPT ![s] = 0]
  /\ buffer' = [buffer EXCEPT ![s] = <<>>]
  /\ socket_pid' = [socket_pid EXCEPT ![s] = NoConn]
  /\ ready' = [ready EXCEPT ![s] = FALSE]
  /\ timers' = [timers EXCEPT ![s] = 0]
  /\ doomed' = [doomed EXCEPT ![s] = FALSE]

\* The handler process of connection c runs (is_process_alive).
Runs(c) == c # NoConn /\ handler[c]

SendToSocket(s, frames) ==
  toClient' = IF Runs(socket_pid[s]) THEN Put(socket_pid[s], frames) ELSE toClient

\* report_buffer_overflow: the event is dropped, the session will end itself.
ReportOverflow(s) ==
  /\ Len(buffer[s]) >= MaxBuffer /\ Fault
  /\ doomed' = [doomed EXCEPT ![s] = TRUE]
  /\ backpressure' = [c \in Conns |-> backpressure[c] \/ (c = socket_pid[s] /\ handler[c])]
  /\ UNCHANGED <<seq, buffer, log, toClient>>

\* do_handle_dispatch: number, buffer and send one event.
Dispatch(s) ==
  /\ alive[s] /\ Len(log[s]) < MaxEvents
  /\ \/ ReportOverflow(s)
     \/ LET new == [seq |-> seq[s] + 1, id |-> Len(log[s]) + 1]
        IN  /\ Len(buffer[s]) < MaxBuffer
            /\ seq' = [seq EXCEPT ![s] = new.seq]
            /\ buffer' = [buffer EXCEPT ![s] = Append(@, new)]
            /\ log' = [log EXCEPT ![s] = Append(@, [s |-> new.seq, kept |-> TRUE])]
            /\ SendToSocket(s, EventFrames(s, <<new>>))
            /\ UNCHANGED <<doomed, backpressure, bounds>>
  /\ UNCHANGED <<alive, ack_seq, socket_pid, ready, timers, handler,
                 session_pid, call, link, toServer, clientVars>>

\* {guild_leave, G} of a connected guild: the event goes out, but the state
\* that the dispatch returned (seq, buffer) is dropped.
GuildLeave(s) ==
  /\ alive[s] /\ Len(log[s]) < MaxEvents /\ guildLeaves < MaxGuildLeaves
  /\ \/ ReportOverflow(s)
     \/ /\ Len(buffer[s]) < MaxBuffer
        /\ log' = [log EXCEPT ![s] = Append(@, [s |-> seq[s] + 1, kept |-> FALSE])]
        /\ SendToSocket(s, EventFrames(s, <<[seq |-> seq[s] + 1, id |-> Len(log[s]) + 1]>>))
        /\ guildLeaves' = guildLeaves + 1
        /\ UNCHANGED <<seq, buffer, doomed, backpressure, faults>>
  /\ UNCHANGED <<alive, ack_seq, socket_pid, ready, timers, handler,
                 session_pid, call, link, toServer, clientVars>>

\* dispatch_ready_data: READY, then a bot's guild events; numbered, not buffered.
DispatchReady(s) ==
  /\ alive[s] /\ ready[s]
  /\ \/ /\ socket_pid[s] = NoConn
        /\ Stop(s)
        /\ UNCHANGED <<log, toClient>>
     \/ LET n == 1 + ReadyTail
            FrameAt(i) == Frame(IF i = 1 THEN "ready" ELSE "event",
                                s, seq[s] + i, Len(log[s]) + i)
        IN  /\ socket_pid[s] # NoConn
            /\ seq' = [seq EXCEPT ![s] = @ + n]
            /\ log' = [log EXCEPT ![s] =
                         @ \o [i \in 1..n |-> [s |-> seq[s] + i, kept |-> FALSE]]]
            /\ SendToSocket(s, [i \in 1..n |-> FrameAt(i)])
            /\ ready' = [ready EXCEPT ![s] = FALSE]
            /\ UNCHANGED <<alive, ack_seq, buffer, socket_pid, timers, doomed>>
  /\ UNCHANGED <<handlerVars, link, toServer, clientVars, bounds>>

\* (Mutant: nobody ends the abandoned session.)
NoResumeTimeout(s) == UNCHANGED timers

\* erlang:send_after(10000, self(), resume_timeout)
ArmResumeTimeout(s) == timers' = [timers EXCEPT ![s] = @ + 1]

\* 'DOWN' of the monitored handler.  A DOWN of an earlier one is ignored.
SocketDown(s) ==
  /\ alive[s] /\ socket_pid[s] # NoConn /\ ~Runs(socket_pid[s])
  /\ socket_pid' = [socket_pid EXCEPT ![s] = NoConn]
  /\ ArmResumeTimeout(s)
  /\ UNCHANGED <<alive, seq, ack_seq, buffer, ready, doomed, log, handlerVars,
                 wireVars, clientVars, bounds>>

\* handle_info(resume_timeout): an armed timer is never cancelled.
ResumeTimeout(s) ==
  /\ alive[s] /\ timers[s] > 0
  /\ \/ socket_pid[s] = NoConn /\ Stop(s)
     \/ /\ socket_pid[s] # NoConn
        /\ timers' = [timers EXCEPT ![s] = @ - 1]
        /\ UNCHANGED <<alive, seq, ack_seq, buffer, socket_pid, ready, doomed>>
  /\ UNCHANGED <<log, handlerVars, wireVars, clientVars, bounds>>

\* {terminate_force}, and {terminate, Hashes}: the auth session was revoked.
Terminate(s) ==
  /\ alive[s]
  /\ \/ doomed[s] /\ UNCHANGED bounds
     \/ Fault
  /\ Stop(s)
  /\ UNCHANGED <<log, handlerVars, wireVars, clientVars>>

\* {resume, Seq, SocketPid}, which also restarts the monitor.
ServeResume(s, c) ==
  /\ alive[s] /\ call[c].op = "resume" /\ call[c].sid = s
  /\ \/ /\ call[c].s > seq[s]
        /\ call' = [call EXCEPT ![c].op = "invalid_seq"]
        /\ UNCHANGED socket_pid
     \/ /\ call[c].s <= seq[s]
        /\ call' = [call EXCEPT ![c] =
                      [@ EXCEPT !.op = "replay",
                                !.missed = EventsAfter(buffer[s], call[c].s),
                                !.upto = Len(log[s])]]
        /\ socket_pid' = [socket_pid EXCEPT ![s] = c]
  /\ UNCHANGED <<alive, seq, ack_seq, buffer, ready, timers, doomed, log,
                 handler, session_pid, backpressure, wireVars, clientVars, bounds>>

-----------------------------------------------------------------------------
(* The handler process.                                                    *)

\* The handler of c reads its next frame: it is not blocked in a call.
Receives(c, op) ==
  /\ handler[c] /\ call[c].op = "none"
  /\ toServer[c] # <<>> /\ Head(toServer[c]).op = op
  /\ toServer' = [toServer EXCEPT ![c] = Tail(@)]

\* The process of c ends; frames still on the way to it are never read.
HandlerEnds(c) ==
  /\ handler' = [handler EXCEPT ![c] = FALSE]
  /\ session_pid' = [session_pid EXCEPT ![c] = NoSession]
  /\ call' = [call EXCEPT ![c] = NoCall]
  /\ backpressure' = [backpressure EXCEPT ![c] = FALSE]
  /\ link' = [link EXCEPT ![c] = FALSE]
  /\ toServer' = [toServer EXCEPT ![c] = <<>>]

\* close_with_reason
CloseWith(c, code) ==
  /\ HandlerEnds(c)
  /\ toClient' = Put(c, <<Close(code)>>)

\* start_session succeeds: session:init (a name that ran before starts from
\* the values Stop left), monitored by the handler and back.
StartSession(c, s) ==
  /\ ~alive[s] /\ ~SessionMentioned(s)
  /\ alive' = [alive EXCEPT ![s] = TRUE]
  /\ socket_pid' = [socket_pid EXCEPT ![s] = c]
  /\ ready' = [ready EXCEPT ![s] = TRUE]
  /\ log' = [log EXCEPT ![s] = <<>>]
  /\ applied' = [applied EXCEPT ![s] = {}]
  /\ session_pid' = [session_pid EXCEPT ![c] = s]
  /\ UNCHANGED <<seq, ack_seq, buffer, timers, doomed>>

HandleIdentify(c) ==
  /\ \/ /\ Receives(c, "identify") /\ session_pid[c] = NoSession
        /\ \E s \in Sessions : StartSession(c, s)
        /\ UNCHANGED <<handler, call, backpressure, link, toClient, bounds>>
     \/ /\ Receives(c, "identify") /\ session_pid[c] = NoSession
        /\ Fault  \* identify_rate_limited
        /\ toClient' = Put(c, <<InvalidSession>>)
        /\ UNCHANGED <<sessionVars, handlerVars, link, applied>>
     \/ /\ handler[c] /\ call[c].op = "none"
        /\ toServer[c] # <<>> /\ Head(toServer[c]).op = "identify"
        /\ IF session_pid[c] = NoSession
           THEN Fault /\ CloseWith(c, UnknownError)
           ELSE UNCHANGED bounds /\ CloseWith(c, AlreadyAuthenticated)
        /\ UNCHANGED <<sessionVars, applied>>
  /\ UNCHANGED <<connectionState, socket, activeSessionId, lastSequenceNumber,
                 awaitingHeartbeatAck, heartbeatTimeout, invalidSessionTimeout>>

\* handle_resume up to the call to the session.
HandleResume(c) ==
  /\ Receives(c, "resume")
  /\ LET frame == Head(toServer[c])
     IN  \/ /\ \/ alive[frame.sid] /\ UNCHANGED bounds
               \/ ~alive[frame.sid] /\ Fault  \* the registry entry is stale
            /\ call' = [call EXCEPT ![c] =
                          [NoCall EXCEPT !.op = "resume", !.sid = frame.sid, !.s = frame.s]]
            /\ UNCHANGED toClient
         \/ /\ ~alive[frame.sid]
            /\ toClient' = Put(c, <<InvalidSession>>)
            /\ UNCHANGED <<call, bounds>>
  /\ UNCHANGED <<sessionVars, handler, session_pid, backpressure, link, clientVars>>

\* handle_resume_success, handle_resume_invalid_seq: the call has returned.
FinishResume(c) ==
  /\ handler[c]
  /\ \/ LET done == call[c]
        IN  /\ done.op = "replay"
            /\ toClient' = Put(c, ReplayFrames(done))
            /\ session_pid' = [session_pid EXCEPT ![c] = done.sid]
            /\ call' = [call EXCEPT ![c] = NoCall]
            /\ UNCHANGED <<handler, backpressure, link, toServer>>
     \/ call[c].op = "invalid_seq" /\ CloseWith(c, InvalidSeq)
  /\ UNCHANGED <<sessionVars, clientVars, bounds>>

\* The session died before it answered: gen_server:call exits the handler.
ResumeCallExits(c) ==
  /\ handler[c] /\ call[c].op = "resume" /\ ~alive[call[c].sid]
  /\ CloseWith(c, AbnormalClosure)
  /\ UNCHANGED <<sessionVars, clientVars, bounds>>

\* handle_heartbeat and the session's {heartbeat_ack, Seq}.
HandleHeartbeat(c) ==
  /\ handler[c] /\ call[c].op = "none"
  /\ toServer[c] # <<>> /\ Head(toServer[c]).op = "heartbeat"
  /\ LET s == session_pid[c]
         n == Head(toServer[c]).s
         acknowledge ==
           /\ Receives(c, "heartbeat")
           /\ toClient' = Put(c, <<HeartbeatAck>>)
           /\ UNCHANGED <<handlerVars, link>>
     IN  \/ /\ s = NoSession
            /\ acknowledge
            /\ UNCHANGED <<ack_seq, buffer>>
         \/ /\ s # NoSession /\ alive[s] /\ n >= ack_seq[s]
            /\ acknowledge
            /\ ack_seq' = [ack_seq EXCEPT ![s] = n]
            /\ buffer' = [buffer EXCEPT ![s] = EventsAfter(@, n)]
         \/ /\ s # NoSession /\ (~alive[s] \/ n < ack_seq[s])
            /\ CloseWith(c, InvalidSeq)
            /\ UNCHANGED <<ack_seq, buffer>>
  /\ UNCHANGED <<alive, seq, socket_pid, ready, timers, doomed, log,
                 clientVars, bounds>>

\* 'DOWN' of the session: handle_session_down.  It comes after the messages
\* the session sent.
HandlerSessionDown(c) ==
  /\ handler[c] /\ call[c].op = "none" /\ ~backpressure[c]
  /\ session_pid[c] # NoSession /\ ~alive[session_pid[c]]
  /\ session_pid' = [session_pid EXCEPT ![c] = NoSession]
  /\ toClient' = Put(c, SessionDownFrames)
  /\ UNCHANGED <<sessionVars, handler, call, backpressure, link, toServer,
                 clientVars, bounds>>

\* handle_session_backpressure_error; heartbeat_check after a missed deadline.
HandlerCloses(c) ==
  /\ handler[c] /\ call[c].op = "none"
  /\ \/ backpressure[c] /\ CloseWith(c, AckBackpressure) /\ UNCHANGED bounds
     \/ link[c] /\ Fault /\ CloseWith(c, SessionTimeout)
  /\ UNCHANGED <<sessionVars, clientVars>>

\* The handler reads the end of its WebSocket.
HandlerLinkDown(c) ==
  /\ handler[c] /\ call[c].op = "none" /\ ~link[c] /\ toServer[c] = <<>>
  /\ HandlerEnds(c)
  /\ UNCHANGED <<sessionVars, toClient, clientVars, bounds>>

-----------------------------------------------------------------------------
(* The network loses the connection: the client sees an abnormal close, the *)
(* handler may still read some of what was sent and then the end.          *)

Drop(c) ==
  /\ link[c] /\ Fault
  /\ link' = [link EXCEPT ![c] = FALSE]
  /\ toClient' = [toClient EXCEPT ![c] = <<Close(AbnormalClosure)>>]
  /\ \E n \in 0..Len(toServer[c]) :
       toServer' = [toServer EXCEPT ![c] = SubSeq(@, 1, n)]
  /\ UNCHANGED <<sessionVars, handlerVars, clientVars>>

-----------------------------------------------------------------------------
(* The client: GatewaySocket.                                              *)

\* sendPayload on the open socket
Send(c, frame) ==
  toServer' = IF link[c] THEN [toServer EXCEPT ![c] = Append(@, frame)] ELSE toServer

\* connect, openSocket and teardownSocket; the handler says HELLO.
OpenSocket(c) ==
  /\ ConnFree(c)
  /\ connectionState' = "Connecting" /\ socket' = c
  /\ link' = [d \in Conns |-> d = c \/ (link[d] /\ d # socket)]
  /\ handler' = [handler EXCEPT ![c] = TRUE]
  /\ toClient' = [d \in Conns |-> IF d = c THEN <<Hello>> ELSE <<>>]

\* (Mutants: the sequence number survives the session, or is set to -1.)
ForgetSessionOnly == activeSessionId' = NoSession /\ UNCHANGED lastSequenceNumber
ClearToMinusOne == activeSessionId' = NoSession /\ lastSequenceNumber' = -1

ClearSession == activeSessionId' = NoSession /\ lastSequenceNumber' = 0

\* The reconnect timer: it clears a session whose resume window has lapsed.
Reconnect(c) ==
  /\ connectionState \in {"Disconnected", "Reconnecting"}
  /\ OpenSocket(c)
  /\ \/ activeSessionId # NoSession /\ UNCHANGED <<activeSessionId, lastSequenceNumber>>
     \/ ClearSession
  /\ UNCHANGED <<sessionVars, session_pid, call, backpressure, toServer,
                 awaitingHeartbeatAck, heartbeatTimeout, invalidSessionTimeout,
                 applied, bounds>>

\* recoverOnForeground and handleNetworkStatusChange(true) connect at once, and
\* do not look at the session.  (With the close of the old socket still to be
\* read, this stands for OnClose and then this.)
RecoverOnForeground(c) ==
  /\ ForegroundRecovery /\ connectionState \in {"Disconnected", "Reconnecting"}
  /\ OpenSocket(c)
  /\ UNCHANGED <<sessionVars, session_pid, call, backpressure, toServer,
                 activeSessionId, lastSequenceNumber, awaitingHeartbeatAck,
                 heartbeatTimeout, invalidSessionTimeout, applied, bounds>>

\* disconnect(4000, reason, true): HELLO or a heartbeat answer did not come in
\* time, or the network went offline.  Late messages are not delivered.
Disconnect ==
  /\ socket # NoConn /\ link[socket] /\ Fault
  /\ connectionState' = "Reconnecting"
  /\ link' = [link EXCEPT ![socket] = FALSE]
  /\ toClient' = [toClient EXCEPT ![socket] = <<>>]
  /\ awaitingHeartbeatAck' = FALSE /\ heartbeatTimeout' = FALSE
  /\ invalidSessionTimeout' = FALSE
  /\ UNCHANGED <<sessionVars, handlerVars, toServer, socket, activeSessionId,
                 lastSequenceNumber, applied>>

\* handleHelloPayload.  canResumeSession looks at the clock again: a session may
\* be given up here whose number is kept.
OnHello(frame) ==
  /\ frame.op = "hello"
  /\ \/ activeSessionId # NoSession
        /\ Send(socket, Resume(activeSessionId, lastSequenceNumber))
     \/ (activeSessionId = NoSession \/ LapseAtHello) /\ Send(socket, Identify)
  /\ heartbeatTimeout' = TRUE /\ awaitingHeartbeatAck' = FALSE
  /\ invalidSessionTimeout' = FALSE
  /\ UNCHANGED <<connectionState, activeSessionId, lastSequenceNumber, applied>>

\* (Mutant: numbers are recorded during a replay, too.)
RecordedAlways(frame) ==
  IF frame.s > lastSequenceNumber THEN frame.s ELSE lastSequenceNumber

\* The sequence number once handleSocketMessage has looked at the frame.
Recorded(frame) ==
  IF connectionState = "Connected" /\ frame.s > lastSequenceNumber
  THEN frame.s ELSE lastSequenceNumber

\* handleSocketMessage, then handleDispatchPayload
OnDispatch(frame) ==
  /\ frame.op \in {"ready", "event", "resumed"}
  /\ lastSequenceNumber' = Recorded(frame)
  /\ activeSessionId' = IF frame.op = "ready" THEN frame.sid ELSE activeSessionId
  /\ connectionState' = IF frame.op = "event" THEN connectionState ELSE "Connected"
  /\ applied' = IF frame.op = "resumed" THEN applied
                ELSE [applied EXCEPT ![frame.sid] = @ \cup {frame.id}]
  /\ UNCHANGED <<toServer, awaitingHeartbeatAck, heartbeatTimeout, invalidSessionTimeout>>

OnHeartbeatAck(frame) ==
  /\ frame.op = "heartbeat_ack"
  /\ awaitingHeartbeatAck' = FALSE
  /\ UNCHANGED <<toServer, connectionState, activeSessionId, lastSequenceNumber,
                 heartbeatTimeout, invalidSessionTimeout, applied>>

\* handleInvalidSessionPayload, not resumable: clearSession, then IDENTIFY later.
OnInvalidSession(frame) ==
  /\ frame.op = "invalid_session"
  /\ ClearSession
  /\ invalidSessionTimeout' = TRUE
  /\ UNCHANGED <<toServer, connectionState, awaitingHeartbeatAck, heartbeatTimeout, applied>>

\* handleSocketClose and handleConnectionFailure.
OnClose(frame) ==
  /\ frame.op = "close"
  /\ connectionState' = "Reconnecting"
  /\ awaitingHeartbeatAck' = FALSE /\ heartbeatTimeout' = FALSE
  /\ invalidSessionTimeout' = FALSE
  /\ UNCHANGED <<toServer, activeSessionId, lastSequenceNumber, applied>>

ClientReceive ==
  /\ socket # NoConn /\ toClient[socket] # <<>>
  /\ toClient' = [toClient EXCEPT ![socket] = Tail(@)]
  /\ LET frame == Head(toClient[socket])
     IN  \/ OnHello(frame) \/ OnDispatch(frame) \/ OnHeartbeatAck(frame)
         \/ OnInvalidSession(frame) \/ OnClose(frame)
  /\ UNCHANGED <<sessionVars, handlerVars, link, socket, bounds>>

\* The timer that handleInvalidSessionPayload armed.
SendIdentify ==
  /\ invalidSessionTimeout
  /\ invalidSessionTimeout' = FALSE
  /\ Send(socket, Identify)
  /\ UNCHANGED <<sessionVars, handlerVars, link, toClient, connectionState, socket,
                 activeSessionId, lastSequenceNumber, awaitingHeartbeatAck,
                 heartbeatTimeout, applied, bounds>>

\* sendHeartbeat; on a socket that is no longer open it reconnects (OnClose).
SendHeartbeat ==
  /\ heartbeatTimeout /\ ~awaitingHeartbeatAck /\ link[socket]
  /\ awaitingHeartbeatAck' = TRUE
  /\ Send(socket, Heartbeat(lastSequenceNumber))
  /\ UNCHANGED <<sessionVars, handlerVars, link, toClient, connectionState, socket,
                 activeSessionId, lastSequenceNumber, heartbeatTimeout,
                 invalidSessionTimeout, applied, bounds>>

-----------------------------------------------------------------------------
SessionStep(s) ==
  \/ Dispatch(s) \/ GuildLeave(s) \/ DispatchReady(s) \/ SocketDown(s)
  \/ ResumeTimeout(s) \/ Terminate(s) \/ \E c \in Conns : ServeResume(s, c)

HandlerStep(c) ==
  \/ HandleIdentify(c) \/ HandleResume(c) \/ FinishResume(c) \/ ResumeCallExits(c)
  \/ HandleHeartbeat(c) \/ HandlerSessionDown(c) \/ HandlerCloses(c)
  \/ HandlerLinkDown(c)

ClientStep ==
  \/ \E c \in Conns : (Reconnect(c) \/ RecoverOnForeground(c))
  \/ Disconnect \/ ClientReceive \/ SendIdentify \/ SendHeartbeat

Next ==
  \/ \E s \in Sessions : SessionStep(s)
  \/ \E c \in Conns : HandlerStep(c) \/ Drop(c)
  \/ ClientStep

Spec == Init /\ [][Next]_vars

\* Processes read their mailboxes, timers fire, a client that lost its socket
\* opens another.  Nothing is assumed of dispatches, faults or heartbeats.
Fairness ==
  /\ \A s \in Sessions :
       /\ WF_vars(DispatchReady(s)) /\ WF_vars(SocketDown(s))
       /\ WF_vars(ResumeTimeout(s)) /\ WF_vars(doomed[s] /\ Terminate(s))
       /\ \A c \in Conns : WF_vars(ServeResume(s, c))
  /\ \A c \in Conns :
       /\ WF_vars(HandleIdentify(c) /\ UNCHANGED faults)
       /\ WF_vars(HandleResume(c) /\ UNCHANGED faults)
       /\ WF_vars(FinishResume(c)) /\ WF_vars(ResumeCallExits(c))
       /\ WF_vars(HandleHeartbeat(c)) /\ WF_vars(HandlerSessionDown(c))
       /\ WF_vars(HandlerCloses(c) /\ UNCHANGED faults)
       /\ WF_vars(HandlerLinkDown(c))
  /\ WF_vars(\E c \in Conns : Reconnect(c))
  /\ WF_vars(ClientReceive) /\ WF_vars(SendIdentify)

FairSpec == Spec /\ Fairness

-----------------------------------------------------------------------------
(* Types.                                                                  *)

SessionOrNone == Sessions \cup {NoSession}
ConnOrNone    == Conns \cup {NoConn}
Event         == [seq : Nat, id : Nat]
LogEntry      == [s : Nat, kept : BOOLEAN]
Op            == {"hello", "heartbeat_ack", "invalid_session", "close", "identify",
                  "resume", "heartbeat", "ready", "event", "resumed"}
FrameType     == [op : Op, sid : SessionOrNone, s : Nat, id : Nat]
CallType      == [op : {"none", "resume", "replay", "invalid_seq"},
                  sid : SessionOrNone, s : Nat, missed : Seq(Event), upto : Nat]

SessionTypeOK ==
  /\ alive \in [Sessions -> BOOLEAN]
  /\ seq \in [Sessions -> Nat] /\ ack_seq \in [Sessions -> Nat]
  /\ buffer \in [Sessions -> Seq(Event)]
  /\ socket_pid \in [Sessions -> ConnOrNone]
  /\ ready \in [Sessions -> BOOLEAN]
  /\ timers \in [Sessions -> Nat] /\ doomed \in [Sessions -> BOOLEAN]
  /\ log \in [Sessions -> Seq(LogEntry)]

HandlerTypeOK ==
  /\ handler \in [Conns -> BOOLEAN]
  /\ session_pid \in [Conns -> SessionOrNone]
  /\ call \in [Conns -> CallType]
  /\ backpressure \in [Conns -> BOOLEAN]

WireTypeOK ==
  /\ link \in [Conns -> BOOLEAN]
  /\ toClient \in [Conns -> Seq(FrameType)] /\ toServer \in [Conns -> Seq(FrameType)]

ClientTypeOK ==
  /\ connectionState \in {"Disconnected", "Connecting", "Connected", "Reconnecting"}
  /\ socket \in ConnOrNone /\ activeSessionId \in SessionOrNone
  /\ lastSequenceNumber \in Nat
  /\ awaitingHeartbeatAck \in BOOLEAN /\ heartbeatTimeout \in BOOLEAN
  /\ invalidSessionTimeout \in BOOLEAN
  /\ applied \in [Sessions -> SUBSET Nat]
  /\ faults \in Nat /\ guildLeaves \in Nat

\* Every variable has its type.
TypeOK == SessionTypeOK /\ HandlerTypeOK /\ WireTypeOK /\ ClientTypeOK

-----------------------------------------------------------------------------
(* Safety of the session process.                                          *)

\* The buffer never exceeds ?MAX_EVENT_BUFFER_SIZE and lists events of this
\* session, in the order and under the numbers they were dispatched with.
BufferSound(s) ==
  /\ Len(buffer[s]) <= MaxBuffer
  /\ \A i \in 1..Len(buffer[s]) :
       LET e == buffer[s][i]
       IN  /\ e.id \in 1..Len(log[s]) /\ log[s][e.id] = [s |-> e.seq, kept |-> TRUE]
           /\ e.seq <= seq[s]
           /\ \A j \in 1..Len(buffer[s]) : i < j => e.seq < buffer[s][j].seq

\* Every event that was buffered and is not acknowledged is still there.
BufferComplete(s) ==
  \A id \in 1..Len(log[s]) :
    log[s][id].kept /\ log[s][id].s > ack_seq[s]
      => \E i \in 1..Len(buffer[s]) : buffer[s][i] = [seq |-> log[s][id].s, id |-> id]

\* What a running session would replay is exactly what do_handle_dispatch
\* buffered and no heartbeat acknowledged, whatever the client sent.
BufferInv == \A s \in Sessions : alive[s] => BufferSound(s) /\ BufferComplete(s)

-----------------------------------------------------------------------------
(* Safety of the protocol, for a client whose sequence number was not      *)
(* carried over from another session.                                      *)

\* The client's sequence number is cumulative: it has applied every event of
\* its session up to it, the ones a broken connection lost included.
SequenceIsCumulative ==
  activeSessionId # NoSession =>
    \A id \in 1..Len(log[activeSessionId]) :
      log[activeSessionId][id].s <= lastSequenceNumber => id \in applied[activeSessionId]

\* The session forgets an event only when the client has applied it.
AckSafe ==
  \A s \in Sessions : alive[s] =>
    \A id \in 1..Len(log[s]) : log[s][id].s <= ack_seq[s] => id \in applied[s]

\* When RESUMED is next, everything the session had dispatched when it took
\* the resume has been applied: nothing was lost with the old connection.
ResumeIsComplete ==
  socket # NoConn /\ toClient[socket] # <<>> =>
    LET frame == Head(toClient[socket])
    IN  frame.op = "resumed" => 1..frame.id \subseteq applied[frame.sid]

\* The client's RESUME is never refused for its sequence number.
ResumeNeverRefused == \A c \in Conns : call[c].op # "invalid_seq"

\* Events reach the client out of order only while a resume is being replayed:
\* RESUMED follows any event that overtook another.
ReorderConfinedToReplay ==
  \A c \in Conns : \A i, j \in 1..Len(toClient[c]) :
    LET a == toClient[c][i]
        b == toClient[c][j]
    IN  i < j /\ a.op = "event" /\ b.op = "event" /\ a.sid = b.sid /\ a.s > b.s
          => \E k \in j..Len(toClient[c]) : toClient[c][k].op = "resumed"

-----------------------------------------------------------------------------
(* Liveness.                                                               *)

\* The connected client is the one its session writes to.
Attached ==
  /\ connectionState = "Connected" /\ link[socket]
  /\ activeSessionId # NoSession /\ alive[activeSessionId]
  /\ socket_pid[activeSessionId] = socket

\* Once the faults are over the client ends up connected and attached.
ClientRecovers == <>[]Attached

\* A session whose client never comes back does not live for ever.
AbandonedSessionStops ==
  \A s \in Sessions : alive[s] ~> (~alive[s] \/ (Attached /\ activeSessionId = s))
=============================================================================
