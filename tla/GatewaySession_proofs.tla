------------------------ MODULE GatewaySession_proofs ------------------------
(***************************************************************************)
(* Types of GatewaySession and the soundness of the event buffer, for any  *)
(* sessions, connections, buffer limit and bounds.                         *)
(***************************************************************************)
EXTENDS GatewaySession, SequenceTheorems, WellFoundedInduction, TLAPS

(* Frames, calls and sequences of them.                                    *)

\* A frame is a FrameType and has the fields it was made of.
LEMMA FrameProperties ==
  ASSUME NEW op \in Op, NEW sid \in SessionOrNone, NEW s \in Nat, NEW id \in Nat
  PROVE  /\ Frame(op, sid, s, id) \in FrameType
         /\ Frame(op, sid, s, id).op = op /\ Frame(op, sid, s, id).sid = sid
         /\ Frame(op, sid, s, id).s = s /\ Frame(op, sid, s, id).id = id
BY DEF Frame, FrameType

\* The fields of a frame.
LEMMA FrameFields ==
  ASSUME NEW f \in FrameType
  PROVE  f.op \in Op /\ f.sid \in SessionOrNone /\ f.s \in Nat /\ f.id \in Nat
BY DEF FrameType

\* The frames without a payload, and a close with its code.
LEMMA PlainFrames ==
  /\ Hello \in FrameType /\ HeartbeatAck \in FrameType
  /\ InvalidSession \in FrameType /\ Identify \in FrameType
  /\ \A code \in Nat : Close(code) \in FrameType
  /\ \A n \in Nat : Heartbeat(n) \in FrameType
  /\ \A sid \in SessionOrNone, n \in Nat : Resume(sid, n) \in FrameType
BY FrameProperties
   DEF Hello, HeartbeatAck, InvalidSession, Identify, Close, Heartbeat, Resume,
       Op, SessionOrNone

\* A sequence given by an expression for each index.
LEMMA IndexedSeq ==
  ASSUME NEW S, NEW n \in Nat, NEW f \in [1..n -> S]
  PROVE  f \in Seq(S) /\ Len(f) = n
<1>1. f \in Seq(S)
  BY SeqDef
<1> QED BY <1>1, LenProperties

\* A sequence of one element.
LEMMA Singleton ==
  ASSUME NEW S, NEW e \in S
  PROVE  <<e>> \in Seq(S) /\ Len(<<e>>) = 1 /\ <<e>>[1] = e
OBVIOUS

\* The events of a sequence and their fields.
LEMMA EventFields ==
  ASSUME NEW events \in Seq(Event)
  PROVE  /\ Len(events) \in Nat
         /\ \A i \in 1..Len(events) :
              events[i] \in Event /\ events[i].seq \in Nat /\ events[i].id \in Nat
<1>1. Len(events) \in Nat /\ \A i \in 1..Len(events) : events[i] \in Event
  BY ElementOfSeq, LenProperties
<1>2. \A e \in Event : e.seq \in Nat /\ e.id \in Nat
  BY DEF Event
<1> QED BY <1>1, <1>2

\* The frames of a sequence of events.
LEMMA EventFramesType ==
  ASSUME NEW s \in SessionOrNone, NEW events \in Seq(Event)
  PROVE  EventFrames(s, events) \in Seq(FrameType)
<1>1. Len(events) \in Nat
  BY EventFields
<1>2. \A i \in 1..Len(events) :
        Frame("event", s, events[i].seq, events[i].id) \in FrameType
  BY EventFields, FrameProperties DEF Op
<1>3. EventFrames(s, events) \in [1..Len(events) -> FrameType]
  BY <1>2 DEF EventFrames
<1> QED BY <1>1, <1>3, IndexedSeq

\* Writing to a connection keeps the channels typed.
LEMMA PutType ==
  ASSUME WireTypeOK, NEW c \in Conns, NEW frames \in Seq(FrameType)
  PROVE  Put(c, frames) \in [Conns -> Seq(FrameType)]
<1>1. toClient[c] \o frames \in Seq(FrameType)
  BY ConcatProperties DEF WireTypeOK
<1> QED BY <1>1 DEF Put, WireTypeOK

LEMMA SendToSocketType ==
  ASSUME SessionTypeOK, WireTypeOK, NEW s \in Sessions, NEW frames \in Seq(FrameType),
         SendToSocket(s, frames)
  PROVE  toClient' \in [Conns -> Seq(FrameType)]
<1>1. CASE Runs(socket_pid[s])
  <2>1. socket_pid[s] \in Conns
    BY <1>1 DEF Runs, SessionTypeOK, ConnOrNone
  <2> QED BY <1>1, <2>1, PutType DEF SendToSocket
<1>2. CASE ~Runs(socket_pid[s])
  BY <1>2 DEF SendToSocket, WireTypeOK
<1> QED BY <1>1, <1>2

LEMMA SendType ==
  ASSUME WireTypeOK, NEW c \in ConnOrNone, NEW frame \in FrameType, Send(c, frame)
  PROVE  toServer' \in [Conns -> Seq(FrameType)]
<1>1. c \in Conns => Append(toServer[c], frame) \in Seq(FrameType)
  BY AppendProperties DEF WireTypeOK
<1> QED BY <1>1 DEF Send, WireTypeOK

\* The handler's view of a call that does not exist.
LEMMA NoCallType == NoCall \in CallType
BY EmptySeq DEF NoCall, CallType, SessionOrNone

(* Suffixes of the buffer.                                                 *)

\* A set of natural numbers that is not empty has a least element.
LEMMA LeastNatural ==
  ASSUME NEW T \in SUBSET Nat, T # {}
  PROVE  \E i \in T : \A j \in T : i <= j
<1>1. PICK i \in T : \A j \in T : ~ (<<j, i>> \in OpToRel(<, Nat))
  BY NatLessThanWellFounded, WFMin
<1>2. \A j \in T : ~ (j < i)
  BY <1>1 DEF OpToRel
<1> QED BY <1>2

\* EventsFrom drops a prefix of the events: those before the first one whose
\* number is at least n.
LEMMA EventsFromProperties ==
  ASSUME NEW events \in Seq(Event), NEW n \in Nat
  PROVE  \E k \in 0..Len(events) :
           /\ EventsFrom(events, n) = SubSeq(events, k + 1, Len(events))
           /\ \A i \in 1..k : events[i].seq < n
           /\ k < Len(events) => events[k + 1].seq >= n
<1> DEFINE later == {i \in 1..Len(events) : events[i].seq >= n}
           first == CHOOSE i \in later : \A j \in later : i <= j
<1>1. Len(events) \in Nat /\ \A i \in 1..Len(events) : events[i].seq \in Nat
  BY EventFields
<1>2. CASE later = {}
  <2>1. EventsFrom(events, n) = <<>>
    BY <1>2 DEF EventsFrom
  <2>2. SubSeq(events, Len(events) + 1, Len(events)) = <<>>
    BY <1>1, SubSeqEmpty
  <2> QED BY <1>1, <1>2, <2>1, <2>2, SMTT(60)
<1>3. CASE later # {}
  <2>1. first \in later /\ \A j \in later : first <= j
    <3>1. later \in SUBSET Nat
      BY <1>1
    <3>2. \E i \in later : \A j \in later : i <= j
      BY <1>3, <3>1, LeastNatural
    <3> QED BY <3>2
  <2>2. EventsFrom(events, n) = SubSeq(events, first, Len(events))
    BY <1>3 DEF EventsFrom
  <2> HIDE DEF first
  <2>3. ASSUME NEW i \in 1..(first - 1) PROVE events[i].seq < n
    <3>1. i \in 1..Len(events) /\ ~ (first <= i)
      BY <1>1, <2>1
    <3>2. i \notin later
      BY <2>1, <3>1
    <3> QED BY <1>1, <3>1, <3>2
  <2>4. first - 1 \in 0..Len(events) /\ (first - 1) + 1 = first /\ events[first].seq >= n
    BY <1>1, <2>1
  <2> QED BY <2>2, <2>3, <2>4
<1> QED BY <1>2, <1>3

\* EventsAfter is a suffix of the events, and drops none numbered above n.
LEMMA EventsAfterProperties ==
  ASSUME NEW events \in Seq(Event), NEW n \in Nat
  PROVE  \E k \in 0..Len(events) :
           /\ EventsAfter(events, n) \in Seq(Event)
           /\ Len(EventsAfter(events, n)) = Len(events) - k
           /\ \A i \in 1..(Len(events) - k) : EventsAfter(events, n)[i] = events[i + k]
           /\ \A i \in 1..k : events[i].seq <= n
<1>0. n + 1 \in Nat
  OBVIOUS
<1>1. PICK k \in 0..Len(events) :
        /\ EventsFrom(events, n + 1) = SubSeq(events, k + 1, Len(events))
        /\ \A i \in 1..k : events[i].seq < n + 1
  BY <1>0, EventsFromProperties
<1>2. Len(events) \in Nat /\ \A i \in 1..Len(events) : events[i] \in Event /\ events[i].seq \in Nat
  BY EventFields
<1> DEFINE kept == SubSeq(events, k + 1, Len(events))
<1>3. /\ kept \in Seq(Event)
      /\ Len(kept) = IF k + 1 <= Len(events) THEN Len(events) - (k + 1) + 1 ELSE 0
      /\ \A i \in 1..(Len(events) - (k + 1) + 1) : kept[i] = events[(k + 1) + i - 1]
  BY <1>2, SubSeqProperties
<1>4. EventsAfter(events, n) = kept
  BY <1>1 DEF EventsAfter
<1> HIDE DEF kept
<1>5. Len(kept) = Len(events) - k
  BY <1>2, <1>3
<1>6. \A i \in 1..(Len(events) - k) : kept[i] = events[i + k]
  BY <1>2, <1>3
<1>7. \A i \in 1..k : events[i].seq <= n
  BY <1>1, <1>2
<1> QED BY <1>3, <1>4, <1>5, <1>6, <1>7

(* What the parts of a step do to the types.                               *)

\* A process that stops leaves typed state behind.
LEMMA StopType ==
  ASSUME SessionTypeOK, NEW s \in Sessions, Stop(s), UNCHANGED log
  PROVE  SessionTypeOK'
<1>1. <<>> \in Seq(Event)
  BY EmptySeq
<1> QED BY <1>1 DEF Stop, SessionTypeOK, ConnOrNone

\* A handler that ends, and one that says goodbye.
LEMMA HandlerEndsType ==
  ASSUME HandlerTypeOK, WireTypeOK, NEW c \in Conns, HandlerEnds(c)
  PROVE  /\ HandlerTypeOK'
         /\ link' \in [Conns -> BOOLEAN] /\ toServer' \in [Conns -> Seq(FrameType)]
<1>1. <<>> \in Seq(FrameType)
  BY EmptySeq
<1>2. link' \in [Conns -> BOOLEAN] /\ toServer' \in [Conns -> Seq(FrameType)]
  BY <1>1 DEF HandlerEnds, WireTypeOK
<1>3. HandlerTypeOK'
  BY NoCallType DEF HandlerEnds, HandlerTypeOK, SessionOrNone
<1> QED BY <1>2, <1>3

LEMMA CloseWithType ==
  ASSUME HandlerTypeOK, WireTypeOK, NEW c \in Conns, NEW code \in Nat, CloseWith(c, code)
  PROVE  HandlerTypeOK' /\ WireTypeOK'
<1>1. Close(code) \in FrameType
  BY PlainFrames
<1>2. <<Close(code)>> \in Seq(FrameType)
  BY <1>1, Singleton
<1>3. toClient' \in [Conns -> Seq(FrameType)]
  BY <1>2, PutType DEF CloseWith
<1> QED BY <1>3, HandlerEndsType DEF CloseWith, WireTypeOK

\* A handler that reads its next frame.
LEMMA ReceivesType ==
  ASSUME WireTypeOK, NEW c \in Conns, NEW op, Receives(c, op)
  PROVE  /\ Head(toServer[c]) \in FrameType
         /\ toServer' \in [Conns -> Seq(FrameType)]
<1>1. toServer[c] \in Seq(FrameType) /\ toServer[c] # <<>>
  BY DEF Receives, WireTypeOK
<1>2. Head(toServer[c]) \in FrameType /\ Tail(toServer[c]) \in Seq(FrameType)
  BY <1>1, HeadTailProperties
<1> QED BY <1>2 DEF Receives, WireTypeOK

\* The counters of the bounds.
LEMMA BoundsType ==
  ASSUME ClientTypeOK
  PROVE  /\ Fault \/ UNCHANGED bounds => faults' \in Nat /\ guildLeaves' \in Nat
         /\ UNCHANGED clientVars /\ faults' \in Nat /\ guildLeaves' \in Nat => ClientTypeOK'
BY DEF Fault, bounds, clientVars, ClientTypeOK

LEMMA ReportOverflowType ==
  ASSUME SessionTypeOK, HandlerTypeOK, ClientTypeOK, NEW s \in Sessions, ReportOverflow(s)
  PROVE  /\ doomed' \in [Sessions -> BOOLEAN] /\ backpressure' \in [Conns -> BOOLEAN]
         /\ faults' \in Nat /\ guildLeaves' \in Nat
<1>1. doomed' \in [Sessions -> BOOLEAN] /\ backpressure' \in [Conns -> BOOLEAN]
  BY DEF ReportOverflow, SessionTypeOK, HandlerTypeOK
<1> QED BY <1>1, BoundsType DEF ReportOverflow

\* The event that a dispatch makes.
LEMMA NewEventType ==
  ASSUME SessionTypeOK, NEW s \in Sessions
  PROVE  LET new == [seq |-> seq[s] + 1, id |-> Len(log[s]) + 1]
         IN  /\ new \in Event
             /\ Append(buffer[s], new) \in Seq(Event)
             /\ EventFrames(s, <<new>>) \in Seq(FrameType)
             /\ \A k \in BOOLEAN : Append(log[s], [s |-> new.seq, kept |-> k]) \in Seq(LogEntry)
<1> DEFINE new == [seq |-> seq[s] + 1, id |-> Len(log[s]) + 1]
<1>1. seq[s] \in Nat /\ Len(log[s]) \in Nat /\ log[s] \in Seq(LogEntry) /\ buffer[s] \in Seq(Event)
  BY LenProperties DEF SessionTypeOK
<1>2. new \in Event /\ new.seq = seq[s] + 1
  BY <1>1 DEF Event
<1>3. \A k \in BOOLEAN : [s |-> new.seq, kept |-> k] \in LogEntry
  BY <1>1, <1>2 DEF LogEntry
<1> HIDE DEF new
<1>4. Append(buffer[s], new) \in Seq(Event)
  BY <1>1, <1>2, AppendProperties
<1>5. \A k \in BOOLEAN : Append(log[s], [s |-> new.seq, kept |-> k]) \in Seq(LogEntry)
  BY <1>1, <1>3, AppendProperties
<1>6. EventFrames(s, <<new>>) \in Seq(FrameType)
  BY <1>2, Singleton, EventFramesType DEF SessionOrNone
<1> QED BY <1>2, <1>4, <1>5, <1>6 DEF new

\* Whether the event is buffered or refused, dispatching keeps the types.
LEMMA DispatchType ==
  ASSUME TypeOK, NEW s \in Sessions, Dispatch(s)
  PROVE  TypeOK'
<1> USE DEF TypeOK, clientVars, bounds
<1> DEFINE new == [seq |-> seq[s] + 1, id |-> Len(log[s]) + 1]
<1>1. CASE ReportOverflow(s)
  <2>1. SessionTypeOK' /\ HandlerTypeOK' /\ WireTypeOK'
    BY <1>1, ReportOverflowType
       DEF Dispatch, ReportOverflow, SessionTypeOK, HandlerTypeOK, WireTypeOK
  <2>2. ClientTypeOK'
    BY <1>1, ReportOverflowType, BoundsType DEF Dispatch
  <2> QED BY <2>1, <2>2
<1>2. CASE /\ seq' = [seq EXCEPT ![s] = new.seq]
           /\ buffer' = [buffer EXCEPT ![s] = Append(@, new)]
           /\ log' = [log EXCEPT ![s] = Append(@, [s |-> new.seq, kept |-> TRUE])]
           /\ SendToSocket(s, EventFrames(s, <<new>>))
           /\ UNCHANGED <<doomed, backpressure, bounds>>
  <2>1. seq' \in [Sessions -> Nat]
    BY <1>2 DEF SessionTypeOK
  <2> HIDE DEF new
  <2>2. /\ Append(buffer[s], new) \in Seq(Event)
        /\ Append(log[s], [s |-> new.seq, kept |-> TRUE]) \in Seq(LogEntry)
        /\ EventFrames(s, <<new>>) \in Seq(FrameType)
    BY NewEventType DEF new
  <2>3. buffer' \in [Sessions -> Seq(Event)] /\ log' \in [Sessions -> Seq(LogEntry)]
    BY <1>2, <2>2 DEF SessionTypeOK
  <2>4. SessionTypeOK'
    BY <1>2, <2>1, <2>3 DEF Dispatch, SessionTypeOK
  <2>5. toClient' \in [Conns -> Seq(FrameType)]
    BY <1>2, <2>2, SendToSocketType
  <2>6. HandlerTypeOK' /\ WireTypeOK' /\ ClientTypeOK'
    BY <1>2, <2>5 DEF Dispatch, HandlerTypeOK, WireTypeOK, ClientTypeOK
  <2> QED BY <2>4, <2>6
<1> QED BY <1>1, <1>2 DEF Dispatch

LEMMA GuildLeaveType ==
  ASSUME TypeOK, NEW s \in Sessions, GuildLeave(s)
  PROVE  TypeOK'
<1> USE DEF TypeOK, clientVars, bounds
<1> DEFINE new == [seq |-> seq[s] + 1, id |-> Len(log[s]) + 1]
<1>1. CASE ReportOverflow(s)
  <2>1. SessionTypeOK' /\ HandlerTypeOK' /\ WireTypeOK'
    BY <1>1, ReportOverflowType
       DEF GuildLeave, ReportOverflow, SessionTypeOK, HandlerTypeOK, WireTypeOK
  <2>2. ClientTypeOK'
    BY <1>1, ReportOverflowType, BoundsType DEF GuildLeave
  <2> QED BY <2>1, <2>2
<1>2. CASE /\ log' = [log EXCEPT ![s] = Append(@, [s |-> seq[s] + 1, kept |-> FALSE])]
           /\ SendToSocket(s, EventFrames(s, <<new>>))
           /\ guildLeaves' = guildLeaves + 1
           /\ UNCHANGED <<seq, buffer, doomed, backpressure, faults>>
  <2>1. new.seq = seq[s] + 1
    OBVIOUS
  <2> HIDE DEF new
  <2>2. /\ Append(log[s], [s |-> seq[s] + 1, kept |-> FALSE]) \in Seq(LogEntry)
        /\ EventFrames(s, <<new>>) \in Seq(FrameType)
    BY <2>1, NewEventType DEF new
  <2>3. log' \in [Sessions -> Seq(LogEntry)]
    BY <1>2, <2>2 DEF SessionTypeOK
  <2>4. SessionTypeOK'
    BY <1>2, <2>3 DEF GuildLeave, SessionTypeOK
  <2>5. toClient' \in [Conns -> Seq(FrameType)]
    BY <1>2, <2>2, SendToSocketType
  <2>6. HandlerTypeOK' /\ WireTypeOK' /\ ClientTypeOK'
    BY <1>2, <2>5 DEF GuildLeave, HandlerTypeOK, WireTypeOK, ClientTypeOK
  <2> QED BY <2>4, <2>6
<1> QED BY <1>1, <1>2 DEF GuildLeave

\* READY and the events after it.
LEMMA DispatchReadyType ==
  ASSUME TypeOK, NEW s \in Sessions, DispatchReady(s)
  PROVE  TypeOK'
<1> USE DEF TypeOK, clientVars, bounds, handlerVars
<1>1. CASE socket_pid[s] = NoConn /\ Stop(s) /\ UNCHANGED <<log, toClient>>
  BY <1>1, StopType DEF DispatchReady, HandlerTypeOK, WireTypeOK, ClientTypeOK
<1> DEFINE n == 1 + ReadyTail
           frames == [i \in 1..n |-> Frame(IF i = 1 THEN "ready" ELSE "event",
                                           s, seq[s] + i, Len(log[s]) + i)]
           entries == [i \in 1..n |-> [s |-> seq[s] + i, kept |-> FALSE]]
<1>2. CASE /\ seq' = [seq EXCEPT ![s] = @ + n]
           /\ log' = [log EXCEPT ![s] = @ \o entries]
           /\ SendToSocket(s, frames)
           /\ ready' = [ready EXCEPT ![s] = FALSE]
           /\ UNCHANGED <<alive, ack_seq, buffer, socket_pid, timers, doomed>>
  <2>1. n \in Nat /\ seq[s] \in Nat /\ Len(log[s]) \in Nat /\ log[s] \in Seq(LogEntry)
    BY SessionAssumption, LenProperties DEF SessionTypeOK
  <2>2. entries \in Seq(LogEntry)
    <3>1. entries \in [1..n -> LogEntry]
      BY <2>1 DEF LogEntry
    <3> QED BY <2>1, <3>1, IndexedSeq
  <2>3. frames \in Seq(FrameType)
    <3>1. \A i \in 1..n : Frame(IF i = 1 THEN "ready" ELSE "event",
                                s, seq[s] + i, Len(log[s]) + i) \in FrameType
      <4> TAKE i \in 1..n
      <4>1. seq[s] + i \in Nat /\ Len(log[s]) + i \in Nat /\ s \in SessionOrNone
        BY <2>1 DEF SessionOrNone
      <4>2. (IF i = 1 THEN "ready" ELSE "event") \in Op
        BY DEF Op
      <4> QED BY <4>1, <4>2, FrameProperties
    <3>2. frames \in [1..n -> FrameType]
      BY <3>1
    <3> QED BY <2>1, <3>2, IndexedSeq
  <2> HIDE DEF frames, entries
  <2>4. log' \in [Sessions -> Seq(LogEntry)]
    <3>1. log[s] \o entries \in Seq(LogEntry)
      BY <2>1, <2>2, ConcatProperties
    <3> QED BY <1>2, <3>1 DEF SessionTypeOK
  <2>5. seq' \in [Sessions -> Nat] /\ ready' \in [Sessions -> BOOLEAN]
    BY <1>2, <2>1 DEF SessionTypeOK
  <2>6. SessionTypeOK'
    BY <1>2, <2>4, <2>5 DEF SessionTypeOK
  <2>7. toClient' \in [Conns -> Seq(FrameType)]
    BY <1>2, <2>3, SendToSocketType
  <2>8. HandlerTypeOK' /\ WireTypeOK' /\ ClientTypeOK'
    BY <2>7 DEF DispatchReady, HandlerTypeOK, WireTypeOK, ClientTypeOK
  <2> QED BY <2>6, <2>8
<1> QED BY <1>1, <1>2 DEF DispatchReady

\* The session takes a resume and answers with the missed events.
LEMMA ServeResumeType ==
  ASSUME TypeOK, NEW s \in Sessions, NEW c \in Conns, ServeResume(s, c)
  PROVE  TypeOK'
<1> USE DEF TypeOK
<1>1. call[c] \in CallType /\ call[c].s \in Nat
  BY DEF HandlerTypeOK, CallType
<1>2. buffer[s] \in Seq(Event) /\ Len(log[s]) \in Nat
  BY LenProperties DEF SessionTypeOK
<1>3. EventsAfter(buffer[s], call[c].s) \in Seq(Event)
  BY <1>1, <1>2, EventsAfterProperties
<1>4. \A missed \in Seq(Event), upto \in Nat :
        [call[c] EXCEPT !.op = "replay", !.missed = missed, !.upto = upto] \in CallType
  BY <1>1 DEF CallType
<1>5. [call[c] EXCEPT !.op = "invalid_seq"] \in CallType
  BY <1>1 DEF CallType
<1>6. call' \in [Conns -> CallType]
  <2>1. call' = [call EXCEPT ![c] = [call[c] EXCEPT !.op = "invalid_seq"]]
        \/ call' = [call EXCEPT ![c] =
             [call[c] EXCEPT !.op = "replay",
                             !.missed = EventsAfter(buffer[s], call[c].s),
                             !.upto = Len(log[s])]]
    BY DEF ServeResume, HandlerTypeOK
  <2> QED BY <1>2, <1>3, <1>4, <1>5, <2>1 DEF HandlerTypeOK
<1>7. socket_pid' \in [Sessions -> ConnOrNone]
  BY DEF ServeResume, SessionTypeOK, ConnOrNone
<1>8. SessionTypeOK' /\ HandlerTypeOK'
  BY <1>6, <1>7 DEF ServeResume, SessionTypeOK, HandlerTypeOK
<1>9. WireTypeOK' /\ ClientTypeOK'
  BY DEF ServeResume, WireTypeOK, ClientTypeOK, wireVars, clientVars, bounds
<1> QED BY <1>8, <1>9

\* Every step of a session process keeps the types.
LEMMA SessionStepType ==
  ASSUME TypeOK, NEW s \in Sessions, SessionStep(s)
  PROVE  TypeOK'
<1> USE DEF TypeOK, handlerVars, wireVars, clientVars
<1>1. CASE SocketDown(s)
  <2>1. SessionTypeOK'
    BY <1>1 DEF SocketDown, ArmResumeTimeout, SessionTypeOK, ConnOrNone
  <2> QED BY <1>1, <2>1 DEF SocketDown, HandlerTypeOK, WireTypeOK, ClientTypeOK, bounds
<1>2. CASE ResumeTimeout(s)
  <2>1. SessionTypeOK'
    <3>1. CASE Stop(s)
      BY <1>2, <3>1, StopType DEF ResumeTimeout
    <3>2. CASE /\ timers' = [timers EXCEPT ![s] = @ - 1]
               /\ UNCHANGED <<alive, seq, ack_seq, buffer, socket_pid, ready, doomed>>
      <4>1. timers' \in [Sessions -> Nat]
        BY <1>2, <3>2 DEF ResumeTimeout, SessionTypeOK
      <4> QED BY <1>2, <3>2, <4>1 DEF ResumeTimeout, SessionTypeOK
    <3> QED BY <1>2, <3>1, <3>2 DEF ResumeTimeout
  <2> QED BY <1>2, <2>1 DEF ResumeTimeout, HandlerTypeOK, WireTypeOK, ClientTypeOK, bounds
<1>3. CASE Terminate(s)
  <2>1. SessionTypeOK'
    BY <1>3, StopType DEF Terminate
  <2>2. HandlerTypeOK' /\ WireTypeOK'
    BY <1>3 DEF Terminate, HandlerTypeOK, WireTypeOK
  <2>3. ClientTypeOK'
    BY <1>3, BoundsType DEF Terminate
  <2> QED BY <2>1, <2>2, <2>3
<1> QED BY <1>1, <1>2, <1>3, DispatchType, GuildLeaveType, DispatchReadyType,
           ServeResumeType DEF SessionStep

\* A new session, or one that is refused.
LEMMA HandleIdentifyType ==
  ASSUME TypeOK, NEW c \in Conns, HandleIdentify(c)
  PROVE  TypeOK'
<1> USE DEF TypeOK, handlerVars, bounds
<1>1. CASE /\ Receives(c, "identify") /\ session_pid[c] = NoSession
           /\ \E s \in Sessions : StartSession(c, s)
           /\ UNCHANGED <<handler, call, backpressure, link, toClient, bounds>>
  <2>1. PICK s \in Sessions : StartSession(c, s)
    BY <1>1
  <2>2. <<>> \in Seq(LogEntry)
    BY EmptySeq
  <2>3. SessionTypeOK'
    BY <2>1, <2>2 DEF StartSession, SessionTypeOK, ConnOrNone
  <2>4. HandlerTypeOK' /\ WireTypeOK'
    BY <1>1, <2>1, ReceivesType DEF StartSession, HandlerTypeOK, WireTypeOK, SessionOrNone
  <2>5. ClientTypeOK'
    BY <1>1, <2>1 DEF HandleIdentify, StartSession, ClientTypeOK
  <2> QED BY <2>3, <2>4, <2>5
<1>2. CASE /\ Receives(c, "identify") /\ session_pid[c] = NoSession
           /\ Fault
           /\ toClient' = Put(c, <<InvalidSession>>)
           /\ UNCHANGED <<sessionVars, handlerVars, link, applied>>
  <2>1. <<InvalidSession>> \in Seq(FrameType)
    BY PlainFrames, Singleton
  <2>2. WireTypeOK'
    BY <1>2, <2>1, ReceivesType, PutType DEF WireTypeOK
  <2>3. SessionTypeOK' /\ HandlerTypeOK'
    BY <1>2 DEF sessionVars, SessionTypeOK, HandlerTypeOK
  <2>4. ClientTypeOK'
    BY <1>2, BoundsType DEF HandleIdentify, clientVars
  <2> QED BY <2>2, <2>3, <2>4
<1>3. CASE /\ IF session_pid[c] = NoSession
              THEN Fault /\ CloseWith(c, UnknownError)
              ELSE UNCHANGED bounds /\ CloseWith(c, AlreadyAuthenticated)
           /\ UNCHANGED <<sessionVars, applied>>
  <2>1. UnknownError \in Nat /\ AlreadyAuthenticated \in Nat
    BY DEF UnknownError, AlreadyAuthenticated
  <2>2. HandlerTypeOK' /\ WireTypeOK'
    BY <1>3, <2>1, CloseWithType
  <2>3. SessionTypeOK'
    BY <1>3 DEF sessionVars, SessionTypeOK
  <2>4. ClientTypeOK'
    BY <1>3, BoundsType DEF HandleIdentify, clientVars
  <2> QED BY <2>2, <2>3, <2>4
<1> QED BY <1>1, <1>2, <1>3 DEF HandleIdentify

\* The two halves of a resume.
LEMMA HandleResumeType ==
  ASSUME TypeOK, NEW c \in Conns, HandleResume(c)
  PROVE  TypeOK'
<1> USE DEF TypeOK
<1> DEFINE frame == Head(toServer[c])
<1>1. /\ frame \in FrameType /\ frame.sid \in SessionOrNone /\ frame.s \in Nat
      /\ toServer' \in [Conns -> Seq(FrameType)]
  BY ReceivesType, FrameFields DEF HandleResume
<1>2. call' \in [Conns -> CallType]
  <2>1. [NoCall EXCEPT !.op = "resume", !.sid = frame.sid, !.s = frame.s] \in CallType
    BY <1>1, EmptySeq DEF NoCall, CallType
  <2> HIDE DEF frame
  <2>2. \/ call' = [call EXCEPT ![c] =
              [NoCall EXCEPT !.op = "resume", !.sid = frame.sid, !.s = frame.s]]
        \/ UNCHANGED call
    BY DEF HandleResume, frame
  <2> QED BY <2>1, <2>2 DEF HandlerTypeOK
<1>3. toClient' \in [Conns -> Seq(FrameType)]
  <2>1. <<InvalidSession>> \in Seq(FrameType)
    BY PlainFrames, Singleton
  <2>2. UNCHANGED toClient \/ toClient' = Put(c, <<InvalidSession>>)
    BY DEF HandleResume
  <2>3. Put(c, <<InvalidSession>>) \in [Conns -> Seq(FrameType)]
    BY <2>1, PutType
  <2> QED BY <2>2, <2>3 DEF WireTypeOK
<1>4. SessionTypeOK' /\ HandlerTypeOK' /\ WireTypeOK'
  BY <1>1, <1>2, <1>3
     DEF HandleResume, sessionVars, SessionTypeOK, HandlerTypeOK, WireTypeOK
<1>5. ClientTypeOK'
  BY BoundsType DEF HandleResume
<1> QED BY <1>4, <1>5

LEMMA FinishResumeType ==
  ASSUME TypeOK, NEW c \in Conns, FinishResume(c)
  PROVE  TypeOK'
<1> USE DEF TypeOK
<1>1. SessionTypeOK' /\ ClientTypeOK'
  BY BoundsType DEF FinishResume, sessionVars, SessionTypeOK
<1>2. CASE CloseWith(c, InvalidSeq)
  BY <1>1, <1>2, CloseWithType DEF InvalidSeq
<1> DEFINE done == call[c]
<1>3. CASE /\ toClient' = Put(c, ReplayFrames(done))
           /\ session_pid' = [session_pid EXCEPT ![c] = done.sid]
           /\ call' = [call EXCEPT ![c] = NoCall]
           /\ UNCHANGED <<handler, backpressure, link, toServer>>
  <2>1. /\ done.sid \in SessionOrNone /\ done.s \in Nat
        /\ done.missed \in Seq(Event) /\ done.upto \in Nat
    BY DEF HandlerTypeOK, CallType
  <2> HIDE DEF done
  <2>2. ReplayFrames(done) \in Seq(FrameType)
    <3>1. Frame("resumed", done.sid, done.s, done.upto) \in FrameType
      BY <2>1, FrameProperties DEF Op
    <3> QED BY <2>1, <3>1, EventFramesType, AppendProperties DEF ReplayFrames
  <2>3. toClient' \in [Conns -> Seq(FrameType)]
    BY <1>3, <2>2, PutType
  <2>4. HandlerTypeOK' /\ WireTypeOK'
    BY <1>3, <2>1, <2>3, NoCallType DEF HandlerTypeOK, WireTypeOK
  <2> QED BY <1>1, <2>4
<1> QED BY <1>2, <1>3 DEF FinishResume

\* A heartbeat is acknowledged or ends the connection.
LEMMA HandleHeartbeatType ==
  ASSUME TypeOK, NEW c \in Conns, HandleHeartbeat(c)
  PROVE  TypeOK'
<1> USE DEF TypeOK
<1> DEFINE s == session_pid[c]
           n == Head(toServer[c]).s
           acknowledge == /\ Receives(c, "heartbeat")
                          /\ toClient' = Put(c, <<HeartbeatAck>>)
                          /\ UNCHANGED <<handlerVars, link>>
<1>1. ClientTypeOK'
  BY BoundsType DEF HandleHeartbeat
<1>2. ASSUME acknowledge PROVE HandlerTypeOK' /\ WireTypeOK' /\ n \in Nat
  <2>1. <<HeartbeatAck>> \in Seq(FrameType)
    BY PlainFrames, Singleton
  <2>2. n \in Nat /\ toServer' \in [Conns -> Seq(FrameType)]
    BY <1>2, ReceivesType, FrameFields
  <2> QED BY <1>2, <2>1, <2>2, PutType DEF handlerVars, HandlerTypeOK, WireTypeOK
<1>3. CASE acknowledge /\ UNCHANGED <<ack_seq, buffer>>
  BY <1>1, <1>2, <1>3 DEF HandleHeartbeat, SessionTypeOK
<1>4. CASE /\ acknowledge /\ s # NoSession
           /\ ack_seq' = [ack_seq EXCEPT ![s] = n]
           /\ buffer' = [buffer EXCEPT ![s] = EventsAfter(@, n)]
  <2>1. s \in Sessions /\ n \in Nat
    BY <1>2, <1>4 DEF HandlerTypeOK, SessionOrNone
  <2>2. HandlerTypeOK' /\ WireTypeOK'
    BY <1>2, <1>4
  <2> HIDE DEF s, n, acknowledge
  <2>3. EventsAfter(buffer[s], n) \in Seq(Event)
    BY <2>1, EventsAfterProperties DEF SessionTypeOK
  <2>4. SessionTypeOK'
    BY <1>4, <2>1, <2>3 DEF HandleHeartbeat, SessionTypeOK
  <2> QED BY <1>1, <2>2, <2>4
<1>5. CASE CloseWith(c, InvalidSeq) /\ UNCHANGED <<ack_seq, buffer>>
  BY <1>1, <1>5, CloseWithType DEF HandleHeartbeat, SessionTypeOK, InvalidSeq
<1> QED BY <1>3, <1>4, <1>5 DEF HandleHeartbeat

\* Every step of a handler process keeps the types.
LEMMA HandlerStepType ==
  ASSUME TypeOK, NEW c \in Conns, HandlerStep(c)
  PROVE  TypeOK'
<1> USE DEF TypeOK, sessionVars
<1>1. CASE ResumeCallExits(c)
  BY <1>1, CloseWithType, BoundsType DEF ResumeCallExits, SessionTypeOK, AbnormalClosure
<1>2. CASE HandlerSessionDown(c)
  <2>1. SessionDownFrames \in Seq(FrameType)
    BY PlainFrames, Singleton DEF SessionDownFrames
  <2>2. HandlerTypeOK' /\ WireTypeOK'
    BY <1>2, <2>1, PutType DEF HandlerSessionDown, HandlerTypeOK, WireTypeOK, SessionOrNone
  <2> QED BY <1>2, <2>2, BoundsType DEF HandlerSessionDown, SessionTypeOK
<1>3. CASE HandlerCloses(c)
  <2>1. AckBackpressure \in Nat /\ SessionTimeout \in Nat
    BY DEF AckBackpressure, SessionTimeout
  <2>2. HandlerTypeOK' /\ WireTypeOK'
    BY <1>3, <2>1, CloseWithType DEF HandlerCloses
  <2>3. SessionTypeOK' /\ ClientTypeOK'
    BY <1>3, BoundsType DEF HandlerCloses, SessionTypeOK
  <2> QED BY <2>2, <2>3
<1>4. CASE HandlerLinkDown(c)
  <2>1. HandlerTypeOK' /\ WireTypeOK'
    BY <1>4, HandlerEndsType DEF HandlerLinkDown, WireTypeOK
  <2> QED BY <1>4, <2>1, BoundsType DEF HandlerLinkDown, SessionTypeOK
<1> QED BY <1>1, <1>2, <1>3, <1>4, HandleIdentifyType, HandleResumeType,
           FinishResumeType, HandleHeartbeatType DEF HandlerStep

\* A connection that breaks loses its frames.
LEMMA DropType ==
  ASSUME TypeOK, NEW c \in Conns, Drop(c)
  PROVE  TypeOK'
<1> USE DEF TypeOK
<1>1. toClient' \in [Conns -> Seq(FrameType)]
  <2>1. <<Close(AbnormalClosure)>> \in Seq(FrameType)
    BY PlainFrames, Singleton DEF AbnormalClosure
  <2> QED BY <2>1 DEF Drop, WireTypeOK
<1>2. toServer' \in [Conns -> Seq(FrameType)]
  <2>1. PICK n \in 0..Len(toServer[c]) :
          toServer' = [toServer EXCEPT ![c] = SubSeq(@, 1, n)]
    BY DEF Drop
  <2>2. toServer[c] \in Seq(FrameType) /\ Len(toServer[c]) \in Nat
    BY LenProperties DEF WireTypeOK
  <2>3. \A i \in 1..n : toServer[c][i] \in FrameType
    BY <2>2, ElementOfSeq
  <2>4. SubSeq(toServer[c], 1, n) \in Seq(FrameType)
    BY <2>2, <2>3, SubSeqProperties
  <2> QED BY <2>1, <2>4 DEF WireTypeOK
<1>3. SessionTypeOK' /\ HandlerTypeOK' /\ WireTypeOK'
  BY <1>1, <1>2 DEF Drop, sessionVars, handlerVars, SessionTypeOK, HandlerTypeOK, WireTypeOK
<1> QED BY <1>3, BoundsType DEF Drop

\* The client opens a socket: HELLO is on its way.
LEMMA OpenSocketType ==
  ASSUME TypeOK, NEW c \in Conns, OpenSocket(c)
  PROVE  /\ handler' \in [Conns -> BOOLEAN] /\ link' \in [Conns -> BOOLEAN]
         /\ toClient' \in [Conns -> Seq(FrameType)]
         /\ connectionState' = "Connecting" /\ socket' \in ConnOrNone
<1>1. <<>> \in Seq(FrameType) /\ <<Hello>> \in Seq(FrameType)
  BY EmptySeq, PlainFrames, Singleton
<1> QED BY <1>1 DEF OpenSocket, TypeOK, HandlerTypeOK, WireTypeOK, ConnOrNone

LEMMA ReconnectType ==
  ASSUME TypeOK, NEW c \in Conns, Reconnect(c) \/ RecoverOnForeground(c)
  PROVE  TypeOK'
<1> USE DEF TypeOK
<1>1. OpenSocket(c)
  BY DEF Reconnect, RecoverOnForeground
<1>2. SessionTypeOK' /\ HandlerTypeOK' /\ WireTypeOK'
  BY <1>1, OpenSocketType
     DEF Reconnect, RecoverOnForeground, sessionVars, SessionTypeOK, HandlerTypeOK, WireTypeOK
<1>3. ClientTypeOK'
  BY <1>1, OpenSocketType
     DEF Reconnect, RecoverOnForeground, ClearSession, bounds, ClientTypeOK, SessionOrNone
<1> QED BY <1>2, <1>3

\* The client handles one frame.
LEMMA ClientReceiveType ==
  ASSUME TypeOK, ClientReceive
  PROVE  TypeOK'
<1> USE DEF TypeOK
<1> DEFINE frame == Head(toClient[socket])
<1>1. socket \in Conns /\ toClient[socket] \in Seq(FrameType) /\ toClient[socket] # <<>>
  BY DEF ClientReceive, ClientTypeOK, WireTypeOK, ConnOrNone
<1>2. frame \in FrameType /\ Tail(toClient[socket]) \in Seq(FrameType)
  BY <1>1, HeadTailProperties
<1>3. toClient' \in [Conns -> Seq(FrameType)]
  BY <1>2 DEF ClientReceive, WireTypeOK
<1>4. SessionTypeOK' /\ HandlerTypeOK' /\ link' \in [Conns -> BOOLEAN]
      /\ socket' \in ConnOrNone /\ faults' \in Nat /\ guildLeaves' \in Nat
  BY DEF ClientReceive, sessionVars, handlerVars, bounds, SessionTypeOK, HandlerTypeOK,
         WireTypeOK, ClientTypeOK
<1>5. frame.op \in Op /\ frame.sid \in SessionOrNone /\ frame.s \in Nat /\ frame.id \in Nat
  BY <1>2, FrameFields
<1> HIDE DEF frame
<1>6. CASE OnHello(frame)
  <2>1. toServer' \in [Conns -> Seq(FrameType)]
    <3>1. /\ Identify \in FrameType
          /\ Resume(activeSessionId, lastSequenceNumber) \in FrameType
          /\ socket \in ConnOrNone
      BY PlainFrames DEF ClientTypeOK
    <3>2. Send(socket, Resume(activeSessionId, lastSequenceNumber)) \/ Send(socket, Identify)
      BY <1>6 DEF OnHello
    <3> QED BY <3>1, <3>2, SendType
  <2> QED BY <1>3, <1>4, <1>6, <2>1 DEF OnHello, WireTypeOK, ClientTypeOK
<1>7. CASE OnDispatch(frame)
  <2>1. applied' \in [Sessions -> SUBSET Nat]
    BY <1>5, <1>7 DEF OnDispatch, ClientTypeOK
  <2>2. lastSequenceNumber' \in Nat
    BY <1>5, <1>7 DEF OnDispatch, Recorded, ClientTypeOK
  <2> QED BY <1>3, <1>4, <1>5, <1>7, <2>1, <2>2 DEF OnDispatch, WireTypeOK, ClientTypeOK
<1>8. CASE OnHeartbeatAck(frame)
  BY <1>3, <1>4, <1>8 DEF OnHeartbeatAck, WireTypeOK, ClientTypeOK
<1>9. CASE OnInvalidSession(frame)
  BY <1>3, <1>4, <1>9
     DEF OnInvalidSession, ClearSession, WireTypeOK, ClientTypeOK, SessionOrNone
<1>10. CASE OnClose(frame)
  BY <1>3, <1>4, <1>10 DEF OnClose, WireTypeOK, ClientTypeOK
<1> QED BY <1>6, <1>7, <1>8, <1>9, <1>10 DEF ClientReceive, frame

\* Every step of the client keeps the types.
LEMMA ClientStepType ==
  ASSUME TypeOK, ClientStep
  PROVE  TypeOK'
<1> USE DEF TypeOK, sessionVars, handlerVars, bounds
<1>1. CASE Disconnect
  <2>1. <<>> \in Seq(FrameType)
    BY EmptySeq
  <2>2. SessionTypeOK' /\ HandlerTypeOK' /\ WireTypeOK'
    BY <1>1, <2>1 DEF Disconnect, SessionTypeOK, HandlerTypeOK, WireTypeOK
  <2>3. faults' \in Nat /\ guildLeaves' \in Nat
    BY <1>1, BoundsType DEF Disconnect
  <2>4. ClientTypeOK'
    BY <1>1, <2>3 DEF Disconnect, ClientTypeOK
  <2> QED BY <2>2, <2>4
<1>2. CASE SendIdentify
  <2>1. toServer' \in [Conns -> Seq(FrameType)]
    BY <1>2, PlainFrames, SendType DEF SendIdentify, ClientTypeOK
  <2> QED BY <1>2, <2>1
          DEF SendIdentify, SessionTypeOK, HandlerTypeOK, WireTypeOK, ClientTypeOK
<1>3. CASE SendHeartbeat
  <2>1. Heartbeat(lastSequenceNumber) \in FrameType
    BY PlainFrames DEF ClientTypeOK
  <2>2. toServer' \in [Conns -> Seq(FrameType)]
    BY <1>3, <2>1, SendType DEF SendHeartbeat, ClientTypeOK
  <2> QED BY <1>3, <2>2
          DEF SendHeartbeat, SessionTypeOK, HandlerTypeOK, WireTypeOK, ClientTypeOK
<1> QED BY <1>1, <1>2, <1>3, ReconnectType, ClientReceiveType DEF ClientStep

\* Type correctness of GatewaySession.
THEOREM TypeCorrect == Spec => []TypeOK
<1>1. Init => TypeOK
  <2> SUFFICES ASSUME Init PROVE TypeOK
    OBVIOUS
  <2>1. /\ <<>> \in Seq(Event) /\ <<>> \in Seq(LogEntry) /\ <<>> \in Seq(FrameType)
    BY EmptySeq
  <2>2. SessionTypeOK
    BY <2>1 DEF Init, SessionTypeOK, ConnOrNone
  <2>3. HandlerTypeOK /\ WireTypeOK
    BY <2>1, NoCallType DEF Init, HandlerTypeOK, WireTypeOK, SessionOrNone
  <2>4. ClientTypeOK
    BY DEF Init, ClientTypeOK, ConnOrNone, SessionOrNone
  <2> QED BY <2>2, <2>3, <2>4 DEF TypeOK
<1>2. TypeOK /\ [Next]_vars => TypeOK'
  <2> SUFFICES ASSUME TypeOK, [Next]_vars PROVE TypeOK'
    OBVIOUS
  <2>1. CASE UNCHANGED vars
    BY <2>1
       DEF vars, sessionVars, handlerVars, wireVars, clientVars, bounds, TypeOK,
           SessionTypeOK, HandlerTypeOK, WireTypeOK, ClientTypeOK
  <2>2. CASE Next
    BY <2>2, SessionStepType, HandlerStepType, DropType, ClientStepType DEF Next
  <2> QED BY <2>1, <2>2
<1> QED BY <1>1, <1>2, PTL DEF Spec

-----------------------------------------------------------------------------
(* The event buffer.                                                       *)

\* BufferInv with what a stopped session leaves for the next one of its name.
SessionBuffer(s) ==
  /\ alive[s] => BufferSound(s) /\ BufferComplete(s)
  /\ ~alive[s] => buffer[s] = <<>>

\* The types and the buffers together are inductive.
BufferIndInv == TypeOK /\ \A s \in Sessions : SessionBuffer(s)

\* A session nobody touches keeps its buffer sound.
LEMMA UntouchedBuffer ==
  ASSUME NEW s \in Sessions, SessionBuffer(s),
         alive'[s] = alive[s], seq'[s] = seq[s], ack_seq'[s] = ack_seq[s],
         buffer'[s] = buffer[s], log'[s] = log[s]
  PROVE  SessionBuffer(s)'
BY DEF SessionBuffer, BufferSound, BufferComplete

\* A session that stops forgets its buffer.
LEMMA StoppedBuffer ==
  ASSUME BufferIndInv, NEW s \in Sessions, Stop(s), UNCHANGED log
  PROVE  \A r \in Sessions : SessionBuffer(r)'
<1> SUFFICES ASSUME NEW r \in Sessions PROVE SessionBuffer(r)'
  OBVIOUS
<1>1. CASE r = s
  BY <1>1 DEF Stop, SessionBuffer, BufferIndInv, TypeOK, SessionTypeOK
<1>2. CASE r # s
  BY <1>2, UntouchedBuffer DEF Stop, BufferIndInv, TypeOK, SessionTypeOK
<1> QED BY <1>1, <1>2

\* What the types say of the session that takes a step.
LEMMA SessionValues ==
  ASSUME TypeOK, NEW s \in Sessions
  PROVE  /\ buffer[s] \in Seq(Event) /\ log[s] \in Seq(LogEntry)
         /\ seq[s] \in Nat /\ ack_seq[s] \in Nat
         /\ Len(buffer[s]) \in Nat /\ Len(log[s]) \in Nat
         /\ \A i \in 1..Len(buffer[s]) :
              buffer[s][i] \in Event /\ buffer[s][i].seq \in Nat /\ buffer[s][i].id \in Nat
         /\ \A i \in 1..Len(log[s]) :
              log[s][i] \in LogEntry /\ log[s][i].s \in Nat /\ log[s][i].kept \in BOOLEAN
<1>1. buffer[s] \in Seq(Event) /\ log[s] \in Seq(LogEntry) /\ seq[s] \in Nat /\ ack_seq[s] \in Nat
  BY DEF TypeOK, SessionTypeOK
<1>2. Len(log[s]) \in Nat /\ \A i \in 1..Len(log[s]) : log[s][i] \in LogEntry
  BY <1>1, LenProperties, ElementOfSeq
<1>3. \A e \in LogEntry : e.s \in Nat /\ e.kept \in BOOLEAN
  BY DEF LogEntry
<1> QED BY <1>1, <1>2, <1>3, EventFields

\* The indices of a sequence that grew by one.
LEMMA LastIndex ==
  ASSUME NEW n \in Nat
  PROVE  \A i \in 1..(n + 1) : i \in 1..n \/ i = n + 1
OBVIOUS

\* do_handle_dispatch: the new event has the highest number and its log entry.
LEMMA DispatchedBuffer ==
  ASSUME TypeOK, NEW s \in Sessions, SessionBuffer(s), alive[s],
         Len(buffer[s]) < MaxBuffer,
         NEW new \in Event, new = [seq |-> seq[s] + 1, id |-> Len(log[s]) + 1],
         alive'[s], seq'[s] = seq[s] + 1, ack_seq'[s] = ack_seq[s],
         buffer'[s] = Append(buffer[s], new),
         log'[s] = Append(log[s], [s |-> seq[s] + 1, kept |-> TRUE])
  PROVE  SessionBuffer(s)'
<1> DEFINE n == Len(buffer[s])
           m == Len(log[s])
           entry == [s |-> seq[s] + 1, kept |-> TRUE]
<1>1. /\ n \in Nat /\ m \in Nat /\ seq[s] \in Nat /\ ack_seq[s] \in Nat
      /\ \A i \in 1..n : buffer[s][i].seq \in Nat
  BY SessionValues
<1>2. entry \in LogEntry /\ entry.s = seq[s] + 1 /\ entry.kept = TRUE
  BY <1>1 DEF LogEntry
<1>3. new.seq = seq[s] + 1 /\ new.id = m + 1
  OBVIOUS
<1>4. /\ Len(buffer'[s]) = n + 1 /\ buffer'[s][n + 1] = new
      /\ \A i \in 1..n : buffer'[s][i] = buffer[s][i]
  BY SessionValues, AppendProperties
<1>5. /\ Len(log'[s]) = m + 1 /\ log'[s][m + 1] = entry
      /\ \A i \in 1..m : log'[s][i] = log[s][i]
  <2> HIDE DEF entry
  <2>1. log'[s] = Append(log[s], entry)
    BY DEF entry
  <2> QED BY <1>2, <2>1, SessionValues, AppendProperties
<1>6. BufferSound(s) /\ BufferComplete(s)
  BY DEF SessionBuffer
<1>7. /\ \A i \in 1..n :
           /\ buffer[s][i].id \in 1..m
           /\ log[s][buffer[s][i].id] = [s |-> buffer[s][i].seq, kept |-> TRUE]
           /\ buffer[s][i].seq <= seq[s]
           /\ \A j \in 1..n : i < j => buffer[s][i].seq < buffer[s][j].seq
  BY <1>6 DEF BufferSound
<1> HIDE DEF n, m, entry
<1>8. BufferSound(s)'
  <2>1. Len(buffer'[s]) <= MaxBuffer
    BY <1>1, <1>4, SessionAssumption DEF n
  <2>2. ASSUME NEW i \in 1..(n + 1)
        PROVE  LET e == buffer'[s][i]
               IN  /\ e.id \in 1..(m + 1) /\ log'[s][e.id] = [s |-> e.seq, kept |-> TRUE]
                   /\ e.seq <= seq'[s]
                   /\ \A j \in 1..(n + 1) : i < j => e.seq < buffer'[s][j].seq
    <3>0. i \in 1..n \/ i = n + 1
      BY <1>1, LastIndex
    <3>1. CASE i = n + 1
      <4>1. buffer'[s][i] = new
        BY <1>4, <3>1
      <4>2. new.id \in 1..(m + 1) /\ new.seq <= seq'[s]
        BY <1>1, <1>3
      <4>3. log'[s][new.id] = [s |-> new.seq, kept |-> TRUE]
        BY <1>3, <1>5 DEF entry
      <4>4. \A j \in 1..(n + 1) : ~ (i < j)
        BY <1>1, <3>1
      <4> QED BY <4>1, <4>2, <4>3, <4>4
    <3>2. CASE i \in 1..n
      <4> DEFINE e == buffer[s][i]
      <4>1. buffer'[s][i] = e
        BY <1>4, <3>2
      <4>2. /\ e.id \in 1..m /\ log[s][e.id] = [s |-> e.seq, kept |-> TRUE]
            /\ e.seq \in Nat /\ e.seq <= seq[s]
            /\ \A j \in 1..n : i < j => e.seq < buffer[s][j].seq
        BY <1>1, <1>7, <3>2
      <4> HIDE DEF e
      <4>3. e.id \in 1..(m + 1) /\ log'[s][e.id] = [s |-> e.seq, kept |-> TRUE]
        BY <1>1, <1>5, <4>2
      <4>4. e.seq <= seq'[s] /\ e.seq < seq[s] + 1
        BY <1>1, <4>2
      <4>5. ASSUME NEW j \in 1..(n + 1), i < j PROVE e.seq < buffer'[s][j].seq
        <5>0. j \in 1..n \/ j = n + 1
          BY <1>1, LastIndex
        <5>1. CASE j \in 1..n
          <6>1. e.seq < buffer[s][j].seq
            BY <4>2, <4>5, <5>1
          <6>2. buffer'[s][j] = buffer[s][j]
            BY <1>4, <5>1
          <6> QED BY <6>1, <6>2
        <5>2. CASE j = n + 1
          BY <1>3, <1>4, <4>4, <5>2
        <5> QED BY <5>0, <5>1, <5>2
      <4> QED BY <4>1, <4>3, <4>4, <4>5
    <3> QED BY <3>0, <3>1, <3>2
  <2> QED BY <1>4, <1>5, <2>1, <2>2 DEF BufferSound
<1>9. BufferComplete(s)'
  <2>1. ASSUME NEW id \in 1..(m + 1), log'[s][id].kept, log'[s][id].s > ack_seq'[s]
        PROVE  \E i \in 1..(n + 1) : buffer'[s][i] = [seq |-> log'[s][id].s, id |-> id]
    <3>0. id \in 1..m \/ id = m + 1
      BY <1>1, LastIndex
    <3>1. CASE id = m + 1
      <4>1. log'[s][id].s = seq[s] + 1
        BY <1>2, <1>5, <3>1
      <4>2. buffer'[s][n + 1] = [seq |-> log'[s][id].s, id |-> id]
        BY <1>4, <3>1, <4>1 DEF m
      <4>3. n + 1 \in 1..(n + 1)
        BY <1>1
      <4> QED BY <4>2, <4>3
    <3>2. CASE id \in 1..m
      <4>1. log[s][id].kept /\ log[s][id].s > ack_seq[s] /\ log'[s][id] = log[s][id]
        BY <1>5, <2>1, <3>2
      <4>2. PICK i \in 1..n : buffer[s][i] = [seq |-> log[s][id].s, id |-> id]
        BY <1>6, <3>2, <4>1 DEF BufferComplete, m, n
      <4>3. i \in 1..(n + 1) /\ buffer'[s][i] = buffer[s][i]
        BY <1>1, <1>4
      <4> QED BY <4>1, <4>2, <4>3
    <3> QED BY <3>0, <3>1, <3>2
  <2> QED BY <1>4, <1>5, <2>1 DEF BufferComplete
<1> QED BY <1>8, <1>9 DEF SessionBuffer

\* Events that are numbered and sent but not buffered leave the buffer sound.
LEMMA UnbufferedEvents ==
  ASSUME TypeOK, NEW s \in Sessions, SessionBuffer(s),
         NEW entries \in Seq(LogEntry), \A i \in 1..Len(entries) : ~entries[i].kept,
         alive'[s] = alive[s], seq'[s] \in Nat, seq'[s] >= seq[s],
         ack_seq'[s] = ack_seq[s], buffer'[s] = buffer[s],
         log'[s] = log[s] \o entries
  PROVE  SessionBuffer(s)'
<1> DEFINE n == Len(buffer[s])
           m == Len(log[s])
<1>1. /\ n \in Nat /\ m \in Nat /\ Len(entries) \in Nat /\ seq[s] \in Nat
      /\ \A i \in 1..n : buffer[s][i].seq \in Nat
  BY SessionValues, LenProperties
<1>2. /\ Len(log'[s]) = m + Len(entries)
      /\ \A id \in 1..(m + Len(entries)) :
           log'[s][id] = IF id <= m THEN log[s][id] ELSE entries[id - m]
  BY SessionValues, ConcatProperties
<1>3. \A id \in 1..m : id \in 1..(m + Len(entries)) /\ log'[s][id] = log[s][id]
  BY <1>1, <1>2
<1> HIDE DEF n, m
<1>4. ASSUME alive[s] PROVE BufferSound(s)'
  <2>1. BufferSound(s)
    BY <1>4 DEF SessionBuffer
  <2>2. n <= MaxBuffer
    BY <2>1 DEF BufferSound, n
  <2>3. ASSUME NEW i \in 1..n
        PROVE  LET e == buffer[s][i]
               IN  /\ e.id \in 1..(m + Len(entries))
                   /\ log'[s][e.id] = [s |-> e.seq, kept |-> TRUE]
                   /\ e.seq <= seq'[s]
                   /\ \A j \in 1..n : i < j => e.seq < buffer[s][j].seq
    <3> DEFINE e == buffer[s][i]
    <3>1. /\ e.id \in 1..m /\ log[s][e.id] = [s |-> e.seq, kept |-> TRUE]
          /\ e.seq \in Nat /\ e.seq <= seq[s]
          /\ \A j \in 1..n : i < j => e.seq < buffer[s][j].seq
      BY <1>1, <2>1 DEF BufferSound, n, m
    <3> HIDE DEF e
    <3>2. e.id \in 1..(m + Len(entries)) /\ log'[s][e.id] = [s |-> e.seq, kept |-> TRUE]
      BY <1>3, <3>1
    <3>3. e.seq <= seq'[s]
      BY <1>1, <3>1
    <3> QED BY <3>1, <3>2, <3>3 DEF e
  <2> QED BY <1>2, <2>2, <2>3 DEF BufferSound, n
<1>5. ASSUME alive[s] PROVE BufferComplete(s)'
  <2>1. BufferComplete(s)
    BY <1>5 DEF SessionBuffer
  <2>2. ASSUME NEW id \in 1..(m + Len(entries)),
               log'[s][id].kept, log'[s][id].s > ack_seq'[s]
        PROVE  \E i \in 1..n : buffer[s][i] = [seq |-> log'[s][id].s, id |-> id]
    <3>1. CASE id \in 1..m
      BY <1>3, <2>1, <2>2, <3>1 DEF BufferComplete, n, m
    <3>2. CASE id \notin 1..m
      <4>1. ~ (id <= m) /\ id - m \in 1..Len(entries)
        BY <1>1, <3>2
      <4>2. log'[s][id] = entries[id - m]
        BY <1>2, <4>1
      <4> QED BY <2>2, <4>1, <4>2
    <3> QED BY <3>1, <3>2
  <2> QED BY <1>2, <2>2, SMTT(60) DEF BufferComplete, n
<1> QED BY <1>4, <1>5 DEF SessionBuffer

\* {heartbeat_ack, Seq}: what is trimmed is acknowledged, the rest moves up.
LEMMA AcknowledgedBuffer ==
  ASSUME TypeOK, NEW s \in Sessions, SessionBuffer(s), alive[s], alive'[s],
         NEW n \in Nat, n >= ack_seq[s],
         seq'[s] = seq[s], log'[s] = log[s], ack_seq'[s] = n,
         buffer'[s] = EventsAfter(buffer[s], n)
  PROVE  SessionBuffer(s)'
<1>1. PICK k \in 0..Len(buffer[s]) :
        /\ EventsAfter(buffer[s], n) \in Seq(Event)
        /\ Len(EventsAfter(buffer[s], n)) = Len(buffer[s]) - k
        /\ \A i \in 1..(Len(buffer[s]) - k) :
             EventsAfter(buffer[s], n)[i] = buffer[s][i + k]
        /\ \A i \in 1..k : buffer[s][i].seq <= n
  <2>1. buffer[s] \in Seq(Event)
    BY SessionValues
  <2> DEFINE b == buffer[s]
  <2>2. b \in Seq(Event)
    BY <2>1
  <2> HIDE DEF b
  <2>3. \E k \in 0..Len(b) :
          /\ EventsAfter(b, n) \in Seq(Event)
          /\ Len(EventsAfter(b, n)) = Len(b) - k
          /\ \A i \in 1..(Len(b) - k) : EventsAfter(b, n)[i] = b[i + k]
          /\ \A i \in 1..k : b[i].seq <= n
    BY <2>2, EventsAfterProperties
  <2> QED BY <2>3 DEF b
<1> DEFINE len == Len(buffer[s])
<1>2. /\ Len(buffer'[s]) = len - k
      /\ \A i \in 1..(len - k) : buffer'[s][i] = buffer[s][i + k]
      /\ len \in Nat /\ k \in Nat /\ k <= len
      /\ \A i \in 1..len : buffer[s][i].seq \in Nat
  BY <1>1, SessionValues
<1>3. BufferSound(s) /\ BufferComplete(s)
  BY DEF SessionBuffer
<1> HIDE DEF len
<1>4. \A i \in 1..(len - k) : i + k \in 1..len
  BY <1>2
<1>5. BufferSound(s)'
  <2>1. len - k <= MaxBuffer
    <3>1. len <= MaxBuffer
      BY <1>3 DEF BufferSound, len
    <3> QED BY <1>2, <3>1, SessionAssumption
  <2>2. ASSUME NEW i \in 1..(len - k)
        PROVE  LET e == buffer'[s][i]
               IN  /\ e.id \in 1..Len(log[s]) /\ log[s][e.id] = [s |-> e.seq, kept |-> TRUE]
                   /\ e.seq <= seq[s]
                   /\ \A j \in 1..(len - k) : i < j => e.seq < buffer'[s][j].seq
    <3> DEFINE e == buffer[s][i + k]
    <3>1. buffer'[s][i] = e
      BY <1>2
    <3>2. /\ e.id \in 1..Len(log[s]) /\ log[s][e.id] = [s |-> e.seq, kept |-> TRUE]
          /\ e.seq <= seq[s]
          /\ \A j \in 1..len : i + k < j => e.seq < buffer[s][j].seq
      BY <1>3, <1>4 DEF BufferSound, len
    <3> HIDE DEF e
    <3>3. ASSUME NEW j \in 1..(len - k), i < j PROVE e.seq < buffer'[s][j].seq
      <4>1. j + k \in 1..len /\ i + k < j + k
        BY <1>2, <1>4, <3>3
      <4>2. e.seq < buffer[s][j + k].seq
        BY <3>2, <4>1
      <4> QED BY <1>2, <4>2
    <3> QED BY <3>1, <3>2, <3>3
  <2> QED BY <1>2, <2>1, <2>2 DEF BufferSound
<1>6. BufferComplete(s)'
  <2>1. ASSUME NEW id \in 1..Len(log[s]), log[s][id].kept, log[s][id].s > n
        PROVE  \E i \in 1..(len - k) : buffer'[s][i] = [seq |-> log[s][id].s, id |-> id]
    <3>1. log[s][id].s > ack_seq[s]
      BY <2>1, SessionValues
    <3>2. PICK i \in 1..len : buffer[s][i] = [seq |-> log[s][id].s, id |-> id]
      BY <1>3, <2>1, <3>1 DEF BufferComplete, len
    <3>3. i \notin 1..k
      <4>1. buffer[s][i].seq = log[s][id].s /\ log[s][id].s \in Nat
        BY <3>2, SessionValues
      <4>2. ~ (buffer[s][i].seq <= n)
        BY <2>1, <4>1
      <4> QED BY <1>1, <4>2
    <3>4. i - k \in 1..(len - k) /\ (i - k) + k = i
      BY <1>2, <3>3
    <3>5. buffer'[s][i - k] = buffer[s][i]
      BY <1>2, <3>4
    <3> QED BY <3>2, <3>4, <3>5
  <2> QED BY <1>2, <2>1 DEF BufferComplete
<1> QED BY <1>5, <1>6 DEF SessionBuffer

\* Every step of a session process keeps the buffers sound.
LEMMA SessionStepBuffer ==
  ASSUME BufferIndInv, NEW s \in Sessions, SessionStep(s)
  PROVE  \A r \in Sessions : SessionBuffer(r)'
<1> USE DEF BufferIndInv
<1> DEFINE new == [seq |-> seq[s] + 1, id |-> Len(log[s]) + 1]
<1>1. ASSUME UNCHANGED <<alive, seq, ack_seq, buffer, log>>
      PROVE  \A r \in Sessions : SessionBuffer(r)'
  BY <1>1, UntouchedBuffer
<1>2. CASE Dispatch(s)
  <2>1. CASE ReportOverflow(s)
    BY <1>1, <1>2, <2>1 DEF Dispatch, ReportOverflow
  <2>2. CASE /\ Len(buffer[s]) < MaxBuffer
             /\ seq' = [seq EXCEPT ![s] = new.seq]
             /\ buffer' = [buffer EXCEPT ![s] = Append(@, new)]
             /\ log' = [log EXCEPT ![s] = Append(@, [s |-> new.seq, kept |-> TRUE])]
    <3>1. new \in Event /\ new.seq = seq[s] + 1
      BY NewEventType DEF TypeOK
    <3>2. new = [seq |-> seq[s] + 1, id |-> Len(log[s]) + 1]
      OBVIOUS
    <3> HIDE DEF new
    <3>3. /\ alive[s] /\ UNCHANGED <<alive, ack_seq>>
      BY <1>2 DEF Dispatch
    <3>4. /\ seq'[s] = seq[s] + 1 /\ buffer'[s] = Append(buffer[s], new)
          /\ log'[s] = Append(log[s], [s |-> seq[s] + 1, kept |-> TRUE])
          /\ \A r \in Sessions \ {s} :
               seq'[r] = seq[r] /\ buffer'[r] = buffer[r] /\ log'[r] = log[r]
      BY <2>2, <3>1 DEF TypeOK, SessionTypeOK
    <3>5. SessionBuffer(s)'
      BY <2>2, <3>1, <3>2, <3>3, <3>4, DispatchedBuffer
    <3>6. \A r \in Sessions \ {s} : SessionBuffer(r)'
      BY <3>3, <3>4, UntouchedBuffer
    <3> QED BY <3>5, <3>6
  <2> QED BY <1>2, <2>1, <2>2 DEF Dispatch
<1>3. CASE GuildLeave(s)
  <2>1. CASE ReportOverflow(s)
    BY <1>1, <1>3, <2>1 DEF GuildLeave, ReportOverflow
  <2>2. CASE /\ log' = [log EXCEPT ![s] = Append(@, [s |-> seq[s] + 1, kept |-> FALSE])]
             /\ UNCHANGED <<seq, buffer>>
    <3> DEFINE entry == [s |-> seq[s] + 1, kept |-> FALSE]
    <3>1. entry \in LogEntry /\ entry.kept = FALSE
      BY SessionValues DEF LogEntry
    <3> HIDE DEF entry
    <3>2. /\ UNCHANGED <<alive, seq, ack_seq, buffer>>
          /\ log'[s] = Append(log[s], entry)
          /\ \A r \in Sessions \ {s} : log'[r] = log[r]
      BY <1>3, <2>2 DEF GuildLeave, TypeOK, SessionTypeOK, entry
    <3>3. log'[s] = log[s] \o <<entry>>
      BY <3>1, <3>2, SessionValues, AppendIsConcat
    <3>4. <<entry>> \in Seq(LogEntry) /\ \A i \in 1..Len(<<entry>>) : ~ <<entry>>[i].kept
      BY <3>1, Singleton
    <3>5. seq'[s] \in Nat /\ seq'[s] >= seq[s]
      BY <3>2, SessionValues
    <3>6. SessionBuffer(s)'
      BY <3>2, <3>3, <3>4, <3>5, UnbufferedEvents
    <3>7. \A r \in Sessions \ {s} : SessionBuffer(r)'
      BY <3>2, UntouchedBuffer
    <3> QED BY <3>6, <3>7
  <2> QED BY <1>3, <2>1, <2>2 DEF GuildLeave
<1>4. CASE DispatchReady(s)
  <2>1. CASE Stop(s) /\ UNCHANGED log
    BY <2>1, StoppedBuffer
  <2> DEFINE n == 1 + ReadyTail
             entries == [i \in 1..n |-> [s |-> seq[s] + i, kept |-> FALSE]]
  <2>2. CASE /\ seq' = [seq EXCEPT ![s] = @ + n]
             /\ log' = [log EXCEPT ![s] = @ \o entries]
             /\ UNCHANGED <<alive, ack_seq, buffer>>
    <3>1. n \in Nat /\ seq[s] \in Nat
      BY SessionAssumption, SessionValues
    <3>2. /\ entries \in Seq(LogEntry)
          /\ \A i \in 1..Len(entries) : ~entries[i].kept
      <4>1. entries \in [1..n -> LogEntry]
        BY <3>1 DEF LogEntry
      <4>2. entries \in Seq(LogEntry) /\ Len(entries) = n
        BY <3>1, <4>1, IndexedSeq
      <4> QED BY <4>2
    <3>3. seq'[s] = seq[s] + n /\ \A r \in Sessions \ {s} : seq'[r] = seq[r]
      BY <2>2 DEF TypeOK, SessionTypeOK
    <3>4. seq'[s] \in Nat /\ seq'[s] >= seq[s]
      BY <3>1, <3>3
    <3> HIDE DEF entries
    <3>5. log'[s] = log[s] \o entries /\ \A r \in Sessions \ {s} : log'[r] = log[r]
      BY <2>2 DEF TypeOK, SessionTypeOK
    <3>6. SessionBuffer(s)'
      BY <2>2, <3>2, <3>4, <3>5, UnbufferedEvents
    <3>7. \A r \in Sessions \ {s} : SessionBuffer(r)'
      BY <2>2, <3>3, <3>5, UntouchedBuffer
    <3> QED BY <3>6, <3>7
  <2> QED BY <1>4, <2>1, <2>2 DEF DispatchReady
<1>5. CASE SocketDown(s)
  BY <1>1, <1>5 DEF SocketDown
<1>6. CASE ResumeTimeout(s)
  BY <1>1, <1>6, StoppedBuffer DEF ResumeTimeout
<1>7. CASE Terminate(s)
  BY <1>7, StoppedBuffer DEF Terminate
<1>8. CASE \E c \in Conns : ServeResume(s, c)
  BY <1>1, <1>8 DEF ServeResume
<1> QED BY <1>2, <1>3, <1>4, <1>5, <1>6, <1>7, <1>8 DEF SessionStep

\* Of the handler's steps, only IDENTIFY and the heartbeat touch a session.
LEMMA HandlerStepBuffer ==
  ASSUME BufferIndInv, NEW c \in Conns, HandlerStep(c)
  PROVE  \A r \in Sessions : SessionBuffer(r)'
<1> USE DEF BufferIndInv
<1>1. ASSUME UNCHANGED <<alive, seq, ack_seq, buffer, log>>
      PROVE  \A r \in Sessions : SessionBuffer(r)'
  BY <1>1, UntouchedBuffer
<1>2. CASE HandleIdentify(c)
  <2>1. CASE UNCHANGED sessionVars
    BY <1>1, <2>1 DEF sessionVars
  <2>2. CASE \E s \in Sessions : StartSession(c, s)
    <3>1. PICK s \in Sessions : StartSession(c, s)
      BY <2>2
    <3>2. SessionBuffer(s)'
      <4>1. buffer'[s] = <<>> /\ log'[s] = <<>>
        BY <3>1 DEF StartSession, SessionBuffer, TypeOK, SessionTypeOK
      <4>2. alive'[s]
        BY <3>1 DEF StartSession, TypeOK, SessionTypeOK
      <4>3. BufferSound(s)' /\ BufferComplete(s)'
        BY <4>1, SessionAssumption DEF BufferSound, BufferComplete
      <4> QED BY <4>2, <4>3 DEF SessionBuffer
    <3>3. \A r \in Sessions \ {s} : SessionBuffer(r)'
      BY <3>1, UntouchedBuffer DEF StartSession, TypeOK, SessionTypeOK
    <3> QED BY <3>2, <3>3
  <2> QED BY <1>2, <2>1, <2>2 DEF HandleIdentify
<1>3. CASE HandleHeartbeat(c)
  <2> DEFINE s == session_pid[c]
             n == Head(toServer[c]).s
  <2>1. CASE UNCHANGED <<ack_seq, buffer>>
    BY <1>1, <1>3, <2>1 DEF HandleHeartbeat
  <2>2. CASE /\ s # NoSession /\ alive[s] /\ n >= ack_seq[s]
             /\ ack_seq' = [ack_seq EXCEPT ![s] = n]
             /\ buffer' = [buffer EXCEPT ![s] = EventsAfter(@, n)]
    <3>1. s \in Sessions
      BY <2>2 DEF TypeOK, HandlerTypeOK, SessionOrNone
    <3>2. n \in Nat
      <4>1. toServer[c] \in Seq(FrameType) /\ toServer[c] # <<>>
        BY <1>3 DEF HandleHeartbeat, TypeOK, WireTypeOK
      <4> QED BY <4>1, HeadTailProperties, FrameFields
    <3>3. PICK x \in Sessions, m \in Nat : x = s /\ m = n
      BY <3>1, <3>2
    <3>4. UNCHANGED <<alive, seq, log>>
      BY <1>3 DEF HandleHeartbeat
    <3>5. alive[x] /\ m >= ack_seq[x]
      BY <2>2, <3>3
    <3>6. /\ ack_seq' = [ack_seq EXCEPT ![x] = m]
          /\ buffer' = [buffer EXCEPT ![x] = EventsAfter(@, m)]
      BY <2>2, <3>3
    <3>7. /\ ack_seq'[x] = m /\ buffer'[x] = EventsAfter(buffer[x], m)
          /\ \A r \in Sessions \ {x} : ack_seq'[r] = ack_seq[r] /\ buffer'[r] = buffer[r]
      BY <3>6 DEF TypeOK, SessionTypeOK
    <3>8. SessionBuffer(x)'
      BY <3>4, <3>5, <3>7, AcknowledgedBuffer
    <3>9. \A r \in Sessions \ {x} : SessionBuffer(r)'
      BY <3>4, <3>7, UntouchedBuffer
    <3> QED BY <3>8, <3>9
  <2>3. \/ UNCHANGED <<ack_seq, buffer>>
        \/ /\ s # NoSession /\ alive[s] /\ n >= ack_seq[s]
           /\ ack_seq' = [ack_seq EXCEPT ![s] = n]
           /\ buffer' = [buffer EXCEPT ![s] = EventsAfter(@, n)]
    BY <1>3 DEF HandleHeartbeat
  <2> QED BY <2>1, <2>2, <2>3
<1>4. CASE \/ HandleResume(c) \/ FinishResume(c) \/ ResumeCallExits(c)
           \/ HandlerSessionDown(c) \/ HandlerCloses(c) \/ HandlerLinkDown(c)
  BY <1>1, <1>4
     DEF HandleResume, FinishResume, ResumeCallExits, HandlerSessionDown,
         HandlerCloses, HandlerLinkDown, sessionVars
<1> QED BY <1>2, <1>3, <1>4 DEF HandlerStep

\* BufferIndInv is an invariant: the types, and sound and complete buffers.
THEOREM BufferIndInvariant == Spec => []BufferIndInv
<1>1. Init => \A s \in Sessions : SessionBuffer(s)
  BY DEF Init, SessionBuffer
<1>2. BufferIndInv /\ [Next]_vars => \A s \in Sessions : SessionBuffer(s)'
  <2> SUFFICES ASSUME BufferIndInv, [Next]_vars
               PROVE  \A s \in Sessions : SessionBuffer(s)'
    OBVIOUS
  <2>1. CASE UNCHANGED sessionVars
    <3>1. UNCHANGED <<alive, seq, ack_seq, buffer, log>>
      BY <2>1 DEF sessionVars
    <3> QED BY <3>1, UntouchedBuffer DEF BufferIndInv
  <2>2. CASE UNCHANGED vars
    BY <2>1, <2>2 DEF vars
  <2>3. ASSUME NEW s \in Sessions, SessionStep(s) PROVE \A r \in Sessions : SessionBuffer(r)'
    BY <2>3, SessionStepBuffer
  <2>4. ASSUME NEW c \in Conns, HandlerStep(c) PROVE \A r \in Sessions : SessionBuffer(r)'
    BY <2>4, HandlerStepBuffer
  <2>5. ASSUME NEW c \in Conns, Drop(c) PROVE \A r \in Sessions : SessionBuffer(r)'
    BY <2>1, <2>5 DEF Drop
  <2>6. CASE ClientStep
    BY <2>1, <2>6
       DEF ClientStep, Reconnect, RecoverOnForeground, Disconnect, ClientReceive,
           SendIdentify, SendHeartbeat
  <2> QED BY <2>2, <2>3, <2>4, <2>5, <2>6 DEF Next
<1>3. BufferIndInv <=> TypeOK /\ \A s \in Sessions : SessionBuffer(s)
  BY DEF BufferIndInv
<1>4. (\A s \in Sessions : SessionBuffer(s))' <=> \A s \in Sessions : SessionBuffer(s)'
  OBVIOUS
<1> QED BY <1>1, <1>2, <1>3, <1>4, TypeCorrect, PTL DEF Spec

\* What a running session would replay is exactly what do_handle_dispatch
\* buffered and no heartbeat acknowledged, for any buffer limit.
THEOREM BufferAlwaysSound == Spec => []BufferInv
<1>1. BufferIndInv => BufferInv
  BY DEF BufferIndInv, SessionBuffer, BufferInv
<1> QED BY <1>1, BufferIndInvariant, PTL
=============================================================================
