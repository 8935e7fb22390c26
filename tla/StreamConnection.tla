--------------------------- MODULE StreamConnection ---------------------------
(***************************************************************************)
(* One WebSocket connection from its handshake to its end, and the         *)
(* shutdown of the server around it (server/app.py), with the recognizer   *)
(* adapter its commands reach (asr/sherpa_onnx.py) as far as hotwords go.  *)
(*                                                                         *)
(* Three tasks share the connection: the receive loop fills a bounded      *)
(* queue, the consumer answers one command at a time, the heartbeat looks  *)
(* at the clock.  They send under one lock, and a send may take forever.   *)
(* The steps are those of the event loop, from one await to the next.      *)
(* StreamServer models what the threads do to registry and sessions.       *)
(***************************************************************************)
EXTENDS Naturals, Sequences, FiniteSets, SequencesExt

CONSTANTS
  Scripts,         \* what a client may send, in order: messages [kind, hot]
  Hotwords,        \* lists of hotwords
  QueueSize,       \* inbound_queue_size
  ReceiveDeadline, \* is receive_timeout_s set?
  HotwordStreams,  \* does the sherpa build take hotwords for a stream?
  MaxHeartbeats,   \* model bound on heartbeats
  None

Kinds == {"start", "audio", "flush", "reset", "hotwords", "ping", "stop", "malformed", "empty"}
Tasks == {"receive", "consumer", "heartbeat"}
Timeouts == {"HEARTBEAT_TIMEOUT", "RECEIVE_TIMEOUT"}

\* Who takes the lock, and why a task gives up the connection.
Senders == {"consumer", "heartbeat", "run", "shutdown"}
Reasons ==
  {"CALL_FAILED", "CONTROL_MESSAGE_INVALID", "SESSION_ALREADY_STARTED", "START_REQUIRED",
   "MESSAGE_EMPTY", "BACKPRESSURE_OVERFLOW", "INTERNAL_SERVER_ERROR"} \cup Timeouts

ASSUME ConnectionAssumption ==
  /\ \A s \in Scripts : s \in Seq([kind : Kinds, hot : Hotwords \cup {None}])
  /\ QueueSize \in Nat \ {0}
  /\ ReceiveDeadline \in BOOLEAN /\ HotwordStreams \in BOOLEAN
  /\ MaxHeartbeats \in Nat
  /\ None \notin Hotwords \cup Tasks \cup Senders \cup Reasons \cup {"NORMAL", "SHUTDOWN", "quiet"}

VARIABLES
  sent,     \* the client's messages
  left,     \* the client has gone
  taken,    \* how many messages the receive loop has
  queue,    \* self.queue, as indices of messages
  receive,  \* receiving, putting, ended
  consumer, \* [pc, msg, todo]: its place, its message, events still to send
  beat,     \* heartbeat: asleep, send, ended
  outcome,  \* how a task ended: a close code's name, or quiet
  stale,    \* no message for heartbeat_timeout_s
  started,  \* self.session is set
  adapter,  \* the recognizer: [loaded, wanted, stream, heard]
  told,     \* hotwords the client was last told are applied
  lock,     \* _io_lock: who holds it, and what is being sent
  closed,   \* _closed
  sequence, \* _server_sequence
  wire,     \* events the client has received
  code,     \* close code the client has received
  failure,  \* the failure run() reports
  phase,    \* handshake, accepted, running, error, cleanup, gone
  server    \* up, closing, cancelling, waiting, stopping, down

taskVars == <<receive, consumer, beat, outcome>>
inVars   == <<sent, left, taken, queue, stale>>
asrVars  == <<started, adapter, told>>
outVars  == <<lock, closed, sequence, wire, code>>
runVars  == <<failure, phase, server>>
vars     == <<taskVars, inVars, asrVars, outVars, runVars>>

Nobody  == [by |-> None, event |-> None]
AtQueue == [pc |-> "get", msg |-> 0, todo |-> <<>>]

Init ==
  /\ sent = <<>> /\ left = FALSE /\ taken = 0 /\ queue = <<>> /\ stale = FALSE
  /\ receive = "receiving" /\ consumer = AtQueue /\ beat = "asleep"
  /\ outcome = [t \in Tasks |-> None]
  /\ started = FALSE /\ told = None
  /\ adapter = [loaded |-> FALSE, wanted |-> None, stream |-> None, heard |-> FALSE]
  /\ lock = Nobody /\ closed = FALSE /\ sequence = 0 /\ wire = <<>> /\ code = None
  /\ failure = None /\ phase = "handshake" /\ server = "up"

Running == phase = "running"
End(t, how) == outcome' = [outcome EXCEPT ![t] = how]
Message(i) == sent[i]

-----------------------------------------------------------------------------
(* The client *)

\* What it sends to a connection that has come to its end nobody reads.
Send ==
  /\ ~left /\ phase \in {"accepted", "running"}
  /\ \E s \in Scripts :
       /\ Len(sent) < Len(s) /\ IsPrefix(sent, s)
       /\ sent' = SubSeq(s, 1, Len(sent) + 1)
  /\ UNCHANGED <<left, taken, queue, stale, taskVars, asrVars, outVars, runVars>>

Leave ==
  /\ ~left /\ left' = TRUE
  /\ phase \in {"accepted", "running", "error"}
  /\ UNCHANGED <<sent, taken, queue, stale, taskVars, asrVars, outVars, runVars>>

\* stream(): origin and subprotocol are checked, then the socket is accepted,
\* then it is looked at again whether the server is still up.
Handshake ==
  /\ phase = "handshake"
  /\ \/ phase' = "accepted" /\ UNCHANGED code
     \/ phase' = "gone" /\ code' = "REFUSED"
  /\ UNCHANGED <<taskVars, inVars, asrVars, lock, closed, sequence, wire, failure, server>>

Accepted ==
  /\ phase = "accepted"
  /\ IF server = "up" THEN phase' = "running" /\ UNCHANGED code
     ELSE phase' = "gone" /\ code' = "SERVICE_NOT_READY"
  /\ UNCHANGED <<taskVars, inVars, asrVars, lock, closed, sequence, wire, failure, server>>

-----------------------------------------------------------------------------
(* receive_loop *)

QueueFull == Len(queue) >= QueueSize
Working   == consumer.pc \notin {"get", "ended"}

\* A task that can go on does so before a timer does: no wake-up is due.
Settled ==
  /\ ~(consumer.pc = "get" /\ queue # <<>>)
  /\ ~(receive = "putting" /\ ~QueueFull)

\* Mutant: a command in progress does not keep the connection alive.
Idle_Always == TRUE

\* Neither _starting nor _busy.
Idle == ~Working

Pending == taken < Len(sent)

\* The receive loop goes round: it ends if the connection was closed.
NextReceive ==
  IF closed THEN receive' = "ended" /\ End("receive", "quiet")
  ELSE receive' = "receiving" /\ UNCHANGED outcome

\* The next message goes into the queue, or waits for room in it.
Receive ==
  LET m == Message(taken + 1)
  IN  /\ Running /\ receive = "receiving" /\ Pending
      /\ taken' = taken + 1
      /\ IF m.kind = "empty"
         THEN /\ receive' = "ended" /\ End("receive", "MESSAGE_EMPTY")
              /\ UNCHANGED <<queue, stale>>
         ELSE /\ stale' = FALSE
              /\ IF QueueFull THEN receive' = "putting" /\ UNCHANGED <<queue, outcome>>
                 ELSE queue' = Append(queue, taken') /\ NextReceive
      /\ UNCHANGED <<sent, left, consumer, beat, asrVars, outVars, runVars>>

PutRoom ==
  /\ Running /\ receive = "putting" /\ ~QueueFull
  /\ queue' = Append(queue, taken)
  /\ NextReceive
  /\ UNCHANGED <<sent, left, taken, stale, consumer, beat, asrVars, outVars, runVars>>

\* Mutant: a message for which there is no room is dropped.
PutTimeout_Drops ==
  /\ Running /\ receive = "putting" /\ QueueFull
  /\ receive' = "receiving"
  /\ UNCHANGED <<inVars, consumer, beat, outcome, asrVars, outVars, runVars>>

\* enqueue_timeout_s passes.
PutTimeout ==
  /\ Running /\ receive = "putting" /\ QueueFull
  /\ receive' = "ended" /\ End("receive", "BACKPRESSURE_OVERFLOW")
  /\ UNCHANGED <<inVars, consumer, beat, asrVars, outVars, runVars>>

\* receive_timeout_s passes; the deadline starts anew while a command runs.
ReceiveTimeout ==
  /\ ReceiveDeadline
  /\ Running /\ receive = "receiving" /\ ~Pending /\ Settled
  /\ Idle \/ closed
  /\ receive' = "ended" /\ End("receive", IF Idle THEN "RECEIVE_TIMEOUT" ELSE "quiet")
  /\ UNCHANGED <<inVars, consumer, beat, asrVars, outVars, runVars>>

\* The client has gone.
ReceiveEnds ==
  /\ Running /\ receive = "receiving" /\ ~Pending /\ left
  /\ receive' = "ended" /\ End("receive", "quiet")
  /\ UNCHANGED <<inVars, consumer, beat, asrVars, outVars, runVars>>

TimePasses ==
  /\ Running /\ ~stale /\ Settled
  /\ stale' = TRUE
  /\ UNCHANGED <<sent, left, taken, queue, taskVars, asrVars, outVars, runVars>>

-----------------------------------------------------------------------------
(* Sending: _send_event_locked and close under _io_lock *)

\* Mutant: nobody waits for the lock.
LockFree_Always == TRUE

LockFree == lock = Nobody

\* The event gets its number, and the lock is held until it is sent.
BeginSend(who, type, msg, last) ==
  /\ LockFree /\ ~closed
  /\ lock' = [by |-> who, event |-> [type |-> type, msg |-> msg, last |-> last, seq |-> sequence]]
  /\ sequence' = sequence + 1
  /\ UNCHANGED <<closed, wire, code>>

BeginClose(who, name) ==
  /\ LockFree /\ ~closed
  /\ closed' = TRUE
  /\ lock' = [by |-> who, event |-> [type |-> "close", name |-> name]]
  /\ UNCHANGED <<sequence, wire, code>>

\* The client gets what is being sent.
Arrives ==
  IF lock.event.type = "close" THEN code' = lock.event.name /\ UNCHANGED wire
  ELSE wire' = Append(wire, lock.event) /\ UNCHANGED code

\* A sender is cancelled: what it was sending arrives, or it does not.
Interrupted(who) ==
  /\ IF lock.by \in who
     THEN lock' = Nobody /\ (Arrives \/ UNCHANGED <<wire, code>>)
     ELSE UNCHANGED <<lock, wire, code>>
  /\ UNCHANGED sequence

-----------------------------------------------------------------------------
(* consumer_loop *)

Refused(m) ==
  CASE m.kind = "malformed" -> "CONTROL_MESSAGE_INVALID"
    [] m.kind = "start" /\ started -> "SESSION_ALREADY_STARTED"
    [] m.kind \notin {"start", "malformed"} /\ ~started -> "START_REQUIRED"
    [] OTHER -> None

Fails(name) ==
  /\ consumer' = [consumer EXCEPT !.pc = "ended"]
  /\ End("consumer", name)

\* The next command: refused, answered at once, or passed on to a thread.
Take ==
  LET i == Head(queue)
      m == Message(i)
  IN  /\ Running /\ consumer.pc = "get" /\ queue # <<>>
      /\ queue' = Tail(queue)
      /\ IF Refused(m) # None THEN Fails(Refused(m))
         ELSE /\ UNCHANGED outcome
              /\ consumer' = IF m.kind = "ping"
                             THEN [pc |-> "send", msg |-> i, todo |-> <<"pong">>]
                             ELSE [pc |-> "call", msg |-> i, todo |-> <<>>]
      /\ UNCHANGED <<sent, left, taken, stale, receive, beat, asrVars, outVars, runVars>>

\* A new stream of the adapter, with the hotwords it wants if the build can.
NewStream(a) == [a EXCEPT !.stream = IF HotwordStreams THEN a.wanted ELSE None]
Load(a) == IF a.loaded THEN a ELSE NewStream([a EXCEPT !.loaded = TRUE])

\* update_hotwords: refused once audio was heard; stored, and tried out on a
\* new stream only if the model is loaded.
Takes(a) == ~a.heard /\ (a.loaded => HotwordStreams)
Updated(a, h) ==
  IF a.heard THEN a
  ELSE LET b == [a EXCEPT !.wanted = h]
       IN  IF a.loaded /\ HotwordStreams THEN NewStream(b) ELSE b

\* What a call leaves in the adapter.
AfterAudio(a) == [Load(a) EXCEPT !.heard = TRUE]
AfterReset(a) == [IF a.loaded THEN NewStream(a) ELSE a EXCEPT !.heard = FALSE]

\* What is sent before the answer: revisions and events of the VAD.
Revisions == {<<>>, <<"revision">>}

\* The call returns and its events are next.
Returns(m, events) ==
  /\ consumer' = [consumer EXCEPT !.pc = "send", !.todo = events]
  /\ started' = (started \/ m.kind = "start")
  /\ UNCHANGED outcome

Called ==
  LET m == Message(consumer.msg)
      update == /\ adapter' = Updated(adapter, m.hot)
                /\ told' = IF Takes(adapter) THEN m.hot ELSE told
  IN  /\ Running /\ consumer.pc = "call"
      /\ \/ Fails("CALL_FAILED") /\ UNCHANGED asrVars
         \/ /\ m.kind = "start"
            /\ IF m.hot = None THEN Returns(m, <<"started">>) /\ UNCHANGED <<adapter, told>>
               ELSE Returns(m, <<"started", "hotwords">>) /\ update
         \/ m.kind = "hotwords" /\ Returns(m, <<"hotwords">>) /\ update
         \/ /\ m.kind = "audio"
            /\ \E r \in Revisions : Returns(m, Append(r, "ack"))
            /\ adapter' \in {adapter, AfterAudio(adapter)} /\ UNCHANGED told
         \/ /\ m.kind = "flush"
            /\ \E r \in Revisions : Returns(m, Append(r, "flushed"))
            /\ adapter' \in {adapter, AfterReset(Load(adapter))} /\ UNCHANGED told
         \/ /\ m.kind = "reset"
            /\ Returns(m, <<"reset">>)
            /\ adapter' \in {adapter, AfterReset(adapter)} /\ UNCHANGED told
         \/ /\ m.kind = "stop"
            /\ \E r \in Revisions : Returns(m, r)
            /\ UNCHANGED <<adapter, told>>
      /\ UNCHANGED <<inVars, receive, beat, outVars, runVars>>

Stopping == Message(consumer.msg).kind = "stop"
LastEvent == Len(consumer.todo) = 1

ConsumerSends ==
  /\ Running /\ consumer.pc = "send" /\ consumer.todo # <<>> /\ lock.by # "consumer"
  /\ BeginSend("consumer", Head(consumer.todo), consumer.msg,
               LastEvent /\ Head(consumer.todo) # "revision")
  /\ UNCHANGED <<taskVars, inVars, asrVars, runVars>>

\* A closed connection swallows its events.
ConsumerSkips ==
  /\ Running /\ consumer.pc = "send" /\ consumer.todo # <<>> /\ closed /\ LockFree
  /\ consumer' = [consumer EXCEPT !.todo = Tail(@)]
  /\ UNCHANGED <<inVars, receive, beat, outcome, asrVars, outVars, runVars>>

\* All events are sent.  A stop removes its session, sends session.stopped
\* and closes the connection; otherwise the next command is waited for.
ConsumerGoesOn ==
  /\ Running /\ consumer.pc = "send" /\ consumer.todo = <<>>
  /\ IF ~Stopping
     THEN IF closed THEN Fails("quiet") /\ UNCHANGED started
          ELSE consumer' = AtQueue /\ UNCHANGED <<outcome, started>>
     ELSE /\ UNCHANGED outcome
          /\ IF started THEN /\ consumer' = [consumer EXCEPT !.pc = "remove"]
                             /\ started' = FALSE
             ELSE consumer' = [consumer EXCEPT !.pc = "close"] /\ UNCHANGED started
  /\ UNCHANGED <<inVars, receive, beat, adapter, told, outVars, runVars>>

\* registry.remove has returned, or raised.
Removed ==
  /\ Running /\ consumer.pc = "remove"
  /\ \/ Fails("INTERNAL_SERVER_ERROR")
     \/ /\ consumer' = [consumer EXCEPT !.pc = "send", !.todo = <<"stopped">>]
        /\ UNCHANGED outcome
  /\ UNCHANGED <<inVars, receive, beat, asrVars, outVars, runVars>>

ConsumerCloses ==
  /\ Running /\ consumer.pc = "close" /\ lock.by # "consumer"
  /\ IF closed THEN LockFree /\ Fails("quiet") /\ UNCHANGED outVars
     ELSE BeginClose("consumer", "NORMAL") /\ UNCHANGED <<consumer, outcome>>
  /\ UNCHANGED <<inVars, receive, beat, asrVars, runVars>>

-----------------------------------------------------------------------------
(* heartbeat_loop *)

HeartbeatTimeout ==
  /\ Running /\ beat = "asleep" /\ Settled
  /\ stale /\ Idle
  /\ beat' = "ended" /\ End("heartbeat", "HEARTBEAT_TIMEOUT")
  /\ UNCHANGED <<inVars, receive, consumer, asrVars, outVars, runVars>>

Heartbeats == Len(SelectSeq(wire, LAMBDA e : e.type = "heartbeat"))

HeartbeatWakes ==
  /\ Running /\ beat = "asleep" /\ Settled
  /\ ~(stale /\ Idle) /\ started /\ Heartbeats < MaxHeartbeats
  /\ beat' = "send"
  /\ UNCHANGED <<inVars, receive, consumer, outcome, asrVars, outVars, runVars>>

HeartbeatSends ==
  /\ Running /\ beat = "send" /\ lock.by # "heartbeat"
  /\ BeginSend("heartbeat", "heartbeat", 0, FALSE)
  /\ UNCHANGED <<taskVars, inVars, asrVars, runVars>>

HeartbeatEnds ==
  /\ Running /\ closed
  /\ \/ beat = "send" /\ LockFree
     \/ beat = "asleep" /\ Settled /\ ~started
  /\ beat' = "ended" /\ End("heartbeat", "quiet")
  /\ UNCHANGED <<inVars, receive, consumer, asrVars, outVars, runVars>>

-----------------------------------------------------------------------------
(* A send of a task comes to its end *)

\* The task goes on behind its send.
Resumes(t) ==
  IF t = "heartbeat" THEN beat' = "asleep" /\ UNCHANGED <<consumer, outcome>>
  ELSE /\ UNCHANGED beat
       /\ IF consumer.pc = "close" THEN Fails("quiet")
          ELSE /\ UNCHANGED outcome
               /\ consumer' = [consumer EXCEPT !.todo = Tail(@)]

Delivered(t) ==
  /\ Running /\ lock.by = t
  /\ Arrives
  /\ lock' = Nobody
  /\ Resumes(t)
  /\ UNCHANGED <<receive, inVars, asrVars, closed, sequence, runVars>>

\* send_json raises; the connection counts as closed.  close() suppresses it.
SendFails(t) ==
  /\ Running /\ lock.by = t /\ left
  /\ lock' = Nobody /\ closed' = TRUE
  /\ IF lock.event.type = "close" THEN Resumes(t)
     ELSE IF t = "consumer" THEN Fails("quiet") /\ UNCHANGED beat
     ELSE beat' = "ended" /\ End(t, "quiet") /\ UNCHANGED consumer
  /\ UNCHANGED <<receive, inVars, asrVars, sequence, wire, code, runVars>>

-----------------------------------------------------------------------------
(* run() *)

Ended == {t \in Tasks : outcome[t] # None}
Failures == {outcome[t] : t \in Ended} \ {"quiet"}

Abandon ==
  /\ receive' = "ended" /\ beat' = "ended"
  /\ consumer' = [consumer EXCEPT !.pc = "ended"]
  /\ UNCHANGED outcome

\* A task has ended: the others are cancelled, whatever they wait for, and
\* one of the failures is reported.
RunWakes ==
  /\ Running /\ Ended # {}
  /\ Abandon
  /\ Interrupted(Tasks)
  /\ IF Failures = {} THEN failure' = None /\ phase' = "cleanup"
     ELSE failure' \in Failures /\ phase' = "error"
  /\ UNCHANGED <<inVars, asrVars, closed, server>>

\* Mutant: an error is reported whether the connection is closed or not.
ReportsError_Always == LockFree

\* error_close has something to say.
ReportsError == LockFree /\ ~closed

ErrorBegins ==
  /\ phase = "error" /\ lock.by # "run" /\ ReportsError
  /\ lock' = [by |-> "run", event |->
                [type |-> "error", msg |-> 0, last |-> FALSE, seq |-> sequence]]
  /\ sequence' = sequence + 1
  /\ UNCHANGED <<taskVars, inVars, asrVars, closed, wire, code, runVars>>

ErrorSkipped ==
  /\ phase = "error" /\ LockFree /\ ~ReportsError
  /\ phase' = "cleanup"
  /\ UNCHANGED <<taskVars, inVars, asrVars, outVars, failure, server>>

\* The error event is sent, or fails, and the close follows under the lock.
ErrorSent ==
  /\ phase = "error" /\ lock.by = "run" /\ lock.event.type = "error"
  /\ Arrives \/ (left /\ UNCHANGED <<wire, code>>)
  /\ closed' = TRUE
  /\ lock' = [lock EXCEPT !.event = [type |-> "close", name |-> failure]]
  /\ UNCHANGED <<taskVars, inVars, asrVars, sequence, runVars>>

ErrorClosed ==
  /\ phase = "error" /\ lock.by = "run" /\ lock.event.type = "close"
  /\ Arrives \/ (left /\ UNCHANGED <<wire, code>>)
  /\ lock' = Nobody
  /\ phase' = "cleanup"
  /\ UNCHANGED <<taskVars, inVars, asrVars, closed, sequence, failure, server>>

\* cleanup(): the session is removed in a thread, which returns or raises.
Cleanup ==
  /\ phase = "cleanup"
  /\ phase' = "gone" /\ started' = FALSE
  /\ UNCHANGED <<taskVars, inVars, adapter, told, outVars, failure, server>>

-----------------------------------------------------------------------------
(* lifespan: the server shuts down *)

ShutdownBegins ==
  /\ server = "up"
  /\ server' = IF phase \in {"running", "error", "cleanup"} THEN "closing" ELSE "stopping"
  /\ UNCHANGED <<taskVars, inVars, asrVars, outVars, failure, phase>>

ShutdownCloses ==
  /\ server = "closing" /\ lock.by # "shutdown"
  /\ BeginClose("shutdown", "SHUTDOWN")
  /\ UNCHANGED <<taskVars, inVars, asrVars, runVars>>

ShutdownClosed ==
  /\ server = "closing"
  /\ \/ lock.by = "shutdown" /\ lock' = Nobody /\ (Arrives \/ (left /\ UNCHANGED <<wire, code>>))
     \/ LockFree /\ closed /\ UNCHANGED <<lock, wire, code>>
  /\ server' = "cancelling"
  /\ UNCHANGED <<taskVars, inVars, asrVars, closed, sequence, failure, phase>>

\* Mutant: the close waits as long as it takes.
CloseTimeout_Never == FALSE /\ UNCHANGED vars

\* wait_for gives the close one second.
CloseTimeout ==
  /\ server = "closing"
  /\ Interrupted({"shutdown"})
  /\ server' = "cancelling"
  /\ UNCHANGED <<taskVars, inVars, asrVars, closed, failure, phase>>

\* The connection's task is cancelled wherever it is; its finally clause
\* cancels the three tasks and cleans up, unless it was there already.
CancelConnection ==
  /\ server = "cancelling"
  /\ server' = "waiting"
  /\ phase' = CASE phase \in {"running", "error"} -> "cleanup"
                [] phase \in {"cleanup", "gone"} -> "gone"
  /\ Abandon
  /\ Interrupted(Tasks \cup {"run"})
  /\ UNCHANGED <<inVars, asrVars, closed, failure>>

ConnectionEnded ==
  /\ server = "waiting" /\ phase = "gone"
  /\ server' = "stopping"
  /\ UNCHANGED <<taskVars, inVars, asrVars, outVars, failure, phase>>

\* close_all has returned, or raised.
CloseAll ==
  /\ server = "stopping"
  /\ server' = "down" /\ started' = FALSE
  /\ UNCHANGED <<taskVars, inVars, adapter, told, outVars, failure, phase>>

-----------------------------------------------------------------------------

ReceiveStep   == Receive \/ PutRoom \/ PutTimeout \/ ReceiveTimeout \/ ReceiveEnds
ConsumerStep  == \/ Take \/ Called \/ ConsumerSends \/ ConsumerSkips
                 \/ ConsumerGoesOn \/ Removed \/ ConsumerCloses
HeartbeatStep == HeartbeatTimeout \/ HeartbeatWakes \/ HeartbeatSends \/ HeartbeatEnds
Transport     == \E t \in {"consumer", "heartbeat"} : Delivered(t) \/ SendFails(t)
ErrorStep     == ErrorBegins \/ ErrorSkipped \/ ErrorSent \/ ErrorClosed
ShutdownStep  == \/ ShutdownCloses \/ ShutdownClosed \/ CloseTimeout
                 \/ CancelConnection \/ ConnectionEnded \/ CloseAll

Next ==
  \/ Send \/ Leave \/ Handshake \/ Accepted \/ TimePasses
  \/ ReceiveStep \/ ConsumerStep \/ HeartbeatStep \/ Transport
  \/ RunWakes \/ ErrorStep \/ Cleanup
  \/ ShutdownBegins \/ ShutdownStep

Spec == Init /\ [][Next]_vars

\* Timers fire, and a task that is cancelled or need not wait goes on, as do
\* the calls in threads.  Nothing that is sent has to arrive.
FairSpec ==
  /\ Spec
  /\ WF_vars(Accepted) /\ WF_vars(Cleanup)
  /\ WF_vars(CloseTimeout) /\ WF_vars(CancelConnection)
  /\ WF_vars(ConnectionEnded) /\ WF_vars(CloseAll)

-----------------------------------------------------------------------------
(* Properties *)

\* server_sequence tells the client where it is: the events arrive in the order
\* of their numbers and none is missing, except where the send of a cancelled
\* task was cut off, and after that only the error event follows.
WireOrdered ==
  \A i \in 1..Len(wire) :
    LET before == IF i = 1 THEN 0 ELSE wire[i-1].seq + 1
    IN  /\ wire[i].seq >= before
        /\ wire[i].seq # before => wire[i].type = "error" /\ i = Len(wire)

\* Every message is answered before the next one is looked at: the answers are
\* those to the first messages, in their order, although they pass a bounded
\* queue, a thread and a lock that heartbeats take as well.
AnsweredInOrder ==
  \A j \in 1..Len(wire) : wire[j].last =>
    /\ \A m \in 1..wire[j].msg - 1 : \E i \in 1..j - 1 : wire[i].last /\ wire[i].msg = m
    /\ \A i \in 1..j - 1 : wire[i].last => wire[i].msg < wire[j].msg

\* The close code is the last word and tells the truth: a normal closure comes
\* behind session.stopped, with at most heartbeats between them; an error
\* event is the last event and the connection is closed with its code.
CloseTruthful ==
  /\ code = "NORMAL" => \E i \in 1..Len(wire) : wire[i].type = "stopped"
  /\ \A i, j \in 1..Len(wire) : i < j =>
       /\ wire[i].type # "error"
       /\ wire[i].type = "stopped" => wire[j].type \in {"heartbeat", "error"}
  /\ wire # <<>> /\ Last(wire).type = "error" /\ code # None => code = failure

\* A connection is timed out only at a moment when it has answered everything
\* it received: no message is in the queue, in the receive loop or in a thread.
TimeoutsSpareWork ==
  [][ Ended = {} /\ ~closed /\ (\E t \in Tasks : outcome'[t] \in Timeouts) =>
        \A m \in 1..taken : \E i \in 1..Len(wire) : wire[i].last /\ wire[i].msg = m ]_vars

\* The server shuts down even if a client does not read what it is sent and
\* holds the connection's lock with it.
ShutdownEnds == (server # "up") ~> (server = "down")

\* docs/WEBSOCKET_PROTOCOL.md: "the server never pretends that a decoder
\* accepted them".  When audio is heard after the client was told that its
\* hotwords are applied, the decoder's stream has them.
HotwordsTruthful == adapter.heard /\ told # None => adapter.stream = told
=============================================================================
