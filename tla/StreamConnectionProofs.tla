------------------------ MODULE StreamConnectionProofs ------------------------
(***************************************************************************)
(* Proofs about StreamConnection for any scripts of the client, any queue  *)
(* and any number of heartbeats: what the client reads is in order.        *)
(*                                                                         *)
(* Three senders take turns with the lock, may be cut off in a send, and   *)
(* the client may go at any time; the invariant says which sender holds    *)
(* the lock in which phase, and where the consumer is in its answer.       *)
(***************************************************************************)
EXTENDS StreamConnection, SequenceTheorems, TLAPS

-----------------------------------------------------------------------------
(* Types *)

Messages == [kind : Kinds, hot : Hotwords \cup {None}]

\* What is sent for a command: its answer comes last.
Plain == { <<>>, <<"pong">>, <<"started">>, <<"started", "hotwords">>, <<"hotwords">>, <<"ack">>,
           <<"revision", "ack">>, <<"flushed">>, <<"revision", "flushed">>, <<"reset">> }
OfStop == { <<>>, <<"revision">>, <<"stopped">> }

Types == { "pong", "started", "hotwords", "ack", "revision", "flushed", "reset", "stopped",
           "heartbeat", "error" }
Events == [type : Types, msg : Nat, last : BOOLEAN, seq : Nat]
Closes == [type : {"close"}, name : Reasons \cup {"NORMAL", "SHUTDOWN"}]

Places == {"get", "call", "send", "remove", "close", "ended"}

\* The type invariant of the connection, the recognizer's adapter apart.
TypeOK ==
  /\ sent \in Seq(Messages)
  /\ taken \in Nat /\ taken <= Len(sent)
  /\ queue \in Seq(Nat) /\ \A k \in 1..Len(queue) : queue[k] \in 1..taken
  /\ consumer \in [pc : Places, msg : Nat, todo : Plain \cup OfStop]
  /\ receive \in {"receiving", "putting", "ended"}
  /\ receive = "putting" => taken > 0
  /\ consumer.pc \notin {"get", "ended"} => consumer.msg \in 1..taken
  /\ outcome \in [Tasks -> Reasons \cup {"quiet", None}]
  /\ started \in BOOLEAN /\ closed \in BOOLEAN
  /\ lock \in {Nobody} \cup [by : Senders, event : Events \cup Closes]
  /\ sequence \in Nat
  /\ wire \in Seq(Events)
  /\ failure \in Reasons \cup {None}
  /\ phase \in {"handshake", "accepted", "running", "error", "cleanup", "gone"}
  /\ server \in {"up", "closing", "cancelling", "waiting", "stopping", "down"}

-----------------------------------------------------------------------------
(* The inductive invariant *)

\* An event, not a close, is on its way.
EventIn == lock # Nobody /\ lock.event.type # "close"

OnWire(type) == \E i \in 1..Len(wire) : wire[i].type = type

\* While the connection runs, the server's shutdown has not come past it.
PhaseInv ==
  /\ Running => server \in {"up", "closing", "cancelling"}
  /\ phase = "error" => failure # None
  /\ phase \in {"handshake", "accepted"} => lock = Nobody /\ wire = <<>> /\ ~closed /\ consumer.pc = "get"
  /\ phase # "gone" /\ ~closed => code = None
  /\ server \in {"closing", "cancelling"} => phase \notin {"handshake", "accepted"}

\* Who holds the lock, and what for.
LockInv ==
  /\ lock.by \in {"consumer", "heartbeat"} => Running
  /\ lock.by = "run" => /\ phase = "error"
                        /\ IF EventIn THEN lock.event.type = "error" ELSE lock.event.name = failure
  /\ lock.by = "shutdown" => server = "closing" /\ ~EventIn /\ lock.event.name = "SHUTDOWN"
  /\ lock.by = "heartbeat" => EventIn /\ lock.event.type = "heartbeat"
  /\ lock.by = "consumer" =>
       IF EventIn
       THEN /\ consumer.pc = "send" /\ consumer.todo # <<>>
            /\ lock.event.type = Head(consumer.todo) /\ lock.event.msg = consumer.msg
            /\ lock.event.last = (LastEvent /\ Head(consumer.todo) # "revision")
       ELSE consumer.pc = "close" /\ lock.event.name = "NORMAL"
  /\ lock.by \in {"run", "heartbeat"} /\ EventIn => ~lock.event.last
  /\ EventIn => ~closed /\ lock.event.seq = sequence - 1
  /\ lock # Nobody /\ ~EventIn => closed

\* The number the client expects next.
NextSeq == IF wire = <<>> THEN 0 ELSE wire[Len(wire)].seq + 1

SequenceInv ==
  /\ WireOrdered
  /\ IF EventIn THEN NextSeq <= sequence - 1 ELSE NextSeq <= sequence
  /\ phase \notin {"error", "cleanup", "gone"} /\ ~closed =>
       NextSeq = IF EventIn THEN sequence - 1 ELSE sequence
  /\ OnWire("error") => /\ phase \in {"error", "cleanup", "gone"} /\ ~EventIn
                        /\ phase = "error" => closed

\* The consumer in a stop, and in any other command.
StopInv ==
  Running =>
    /\ consumer.pc = "call" /\ Message(consumer.msg).kind # "start" => started
    /\ consumer.pc = "send" /\ ~Stopping => consumer.todo \in Plain
    /\ consumer.pc = "send" /\ Stopping =>
         /\ consumer.todo \in OfStop
         /\ consumer.todo = <<"revision">> => started
         /\ consumer.todo = <<"stopped">> => ~started
         /\ consumer.todo = <<>> /\ ~started /\ ~closed => OnWire("stopped")
    /\ consumer.pc \in {"remove", "close"} => ~started /\ Stopping
    /\ consumer.pc = "close" /\ ~closed => OnWire("stopped")
    /\ OnWire("stopped") => \/ consumer.pc \in {"close", "ended"}
                            \/ consumer.pc = "send" /\ consumer.todo = <<>> /\ Stopping /\ ~started

\* Nothing follows an error, and only heartbeats and an error a stop.
LastWords ==
  \A i, j \in 1..Len(wire) : i < j =>
    /\ wire[i].type # "error"
    /\ wire[i].type = "stopped" => wire[j].type \in {"heartbeat", "error"}

CloseInv ==
  /\ code = "NORMAL" => OnWire("stopped")
  /\ lock # Nobody /\ ~EventIn /\ lock.event.name = "NORMAL" => OnWire("stopped")
  /\ LastWords
  /\ OnWire("error") => /\ code \in {None, failure}
                        /\ closed \/ server \in {"waiting", "stopping", "down"}
                        /\ lock # Nobody => lock.by = "run"

\* A command whose answer is still to come.
Unanswered ==
  \/ consumer.pc \in {"call", "remove"}
  \/ consumer.pc = "send" /\ (consumer.todo # <<>> \/ (Stopping /\ started))

AnsweredUpTo(n) ==
  /\ \A m \in 1..n : \E i \in 1..Len(wire) : wire[i].last /\ wire[i].msg = m
  /\ \A i \in 1..Len(wire) : wire[i].last => wire[i].msg \in 1..n

\* The first n messages are answered, and those in the queue follow them.
QueueInv(n) ==
  phase \in {"handshake", "accepted", "running"} /\ ~closed /\ consumer.pc \notin {"close", "ended"} =>
    LET next == IF Unanswered THEN n + 1 ELSE n
    IN  /\ Unanswered => consumer.msg = n + 1
        /\ \A k \in 1..Len(queue) : queue[k] = next + k
        /\ receive = "receiving" => taken = next + Len(queue)
        /\ receive = "putting"   => taken = next + Len(queue) + 1

AnswerInv == AnsweredInOrder /\ \E n \in Nat : AnsweredUpTo(n) /\ QueueInv(n)

Inv == TypeOK /\ PhaseInv /\ LockInv /\ SequenceInv /\ StopInv /\ CloseInv /\ AnswerInv

\* What the client has received is as it was.
SameOutput ==
  /\ WireOrdered' <=> WireOrdered
  /\ AnsweredInOrder' <=> AnsweredInOrder
  /\ LastWords' <=> LastWords
  /\ NextSeq' = NextSeq
  /\ \A type : OnWire(type)' <=> OnWire(type)
  /\ \A n : AnsweredUpTo(n)' <=> AnsweredUpTo(n)

-----------------------------------------------------------------------------
(* Lemmas *)

\* What None is taken apart from.
LEMMA NoneDiffers ==
  /\ None \notin Hotwords \cup Tasks \cup Senders \cup Reasons \cup {"NORMAL", "SHUTDOWN", "quiet"}
  /\ None \notin {"receive", "consumer", "heartbeat", "run", "shutdown", "NORMAL", "SHUTDOWN"}
  /\ QueueSize \in Nat \ {0}
BY ConnectionAssumption DEF Tasks, Senders

\* What is sent for a command goes from its first event to its answer.
LEMMA TodoShape ==
  /\ <<>> \in Plain /\ <<>> \in OfStop /\ <<"pong">> \in Plain /\ <<"stopped">> \in OfStop
  /\ <<>> # <<"revision">> /\ <<>> # <<"stopped">> /\ <<"stopped">> # <<"revision">> /\ <<"pong">> # <<>>
  /\ \A x \in Plain : x # <<>> =>
       /\ Tail(x) \in Plain /\ Head(x) \in Types \ {"stopped", "heartbeat", "error"}
       /\ (Len(x) = 1 /\ Head(x) # "revision") <=> Tail(x) = <<>>
  /\ \A x \in OfStop : x # <<>> =>
       /\ Tail(x) = <<>> /\ Head(x) \in Types \ {"heartbeat", "error"}
       /\ (Len(x) = 1 /\ Head(x) # "revision") <=> x = <<"stopped">>
       /\ Head(x) = "stopped" <=> x = <<"stopped">>
<1>1. /\ <<>> \in Plain /\ <<>> \in OfStop /\ <<"pong">> \in Plain /\ <<"stopped">> \in OfStop
      /\ <<>> # <<"revision">> /\ <<>> # <<"stopped">> /\ <<"stopped">> # <<"revision">> /\ <<"pong">> # <<>>
  BY DEF Plain, OfStop
<1>2. ASSUME NEW x \in Plain, x # <<>>
      PROVE  /\ Tail(x) \in Plain /\ Head(x) \in Types \ {"stopped", "heartbeat", "error"}
             /\ (Len(x) = 1 /\ Head(x) # "revision") <=> Tail(x) = <<>>
  <2>1. CASE x = <<"pong">>
    BY <2>1 DEF Plain, Types
  <2>2. CASE x = <<"started">>
    BY <2>2 DEF Plain, Types
  <2>3. CASE x = <<"started", "hotwords">>
    BY <2>3 DEF Plain, Types
  <2>4. CASE x = <<"hotwords">>
    BY <2>4 DEF Plain, Types
  <2>5. CASE x = <<"ack">>
    BY <2>5 DEF Plain, Types
  <2>6. CASE x = <<"revision", "ack">>
    BY <2>6 DEF Plain, Types
  <2>7. CASE x = <<"flushed">>
    BY <2>7 DEF Plain, Types
  <2>8. CASE x = <<"revision", "flushed">>
    BY <2>8 DEF Plain, Types
  <2>9. CASE x = <<"reset">>
    BY <2>9 DEF Plain, Types
  <2> QED
    BY <1>2, <2>1, <2>2, <2>3, <2>4, <2>5, <2>6, <2>7, <2>8, <2>9 DEF Plain
<1>3. ASSUME NEW x \in OfStop, x # <<>>
      PROVE  /\ Tail(x) = <<>> /\ Head(x) \in Types \ {"heartbeat", "error"}
             /\ (Len(x) = 1 /\ Head(x) # "revision") <=> x = <<"stopped">>
             /\ Head(x) = "stopped" <=> x = <<"stopped">>
  <2>1. CASE x = <<"revision">>
    BY <2>1 DEF OfStop, Types
  <2>2. CASE x = <<"stopped">>
    BY <2>2 DEF OfStop, Types
  <2> QED
    BY <1>3, <2>1, <2>2 DEF OfStop
<1> QED
  BY <1>1, <1>2, <1>3

\* Events of a command, put together.
LEMMA Appended ==
  ASSUME NEW a \in Types, NEW b \in Types
  PROVE  Append(<<>>, b) = <<b>> /\ Append(<<a>>, b) = <<a, b>>
<1>1. Append(<<a>>, b) \in Seq(Types) /\ <<a, b>> \in Seq(Types)
  OBVIOUS
<1>2. Len(Append(<<a>>, b)) = 2 /\ Len(<<a, b>>) = 2
  OBVIOUS
<1>3. \A i \in 1..Len(Append(<<a>>, b)) : Append(<<a>>, b)[i] = <<a, b>>[i]
  OBVIOUS
<1>4. Append(<<a>>, b) = <<a, b>>
  BY <1>1, <1>2, <1>3, SeqEqual
<1>5. Append(<<>>, b) = <<b>>
  OBVIOUS
<1> QED
  BY <1>4, <1>5

\* If the client has received nothing, all that is said of it stands.
LEMMA Unread == wire' = wire => SameOutput
BY DEF SameOutput, WireOrdered, AnsweredInOrder, LastWords, NextSeq, OnWire, AnsweredUpTo

\* An event on its way is one of the events, and somebody sends it.
LEMMA EventTyped == TypeOK /\ EventIn => lock.event \in Events /\ lock.by \in Senders
BY DEF TypeOK, EventIn, Closes

\* Nothing has been answered, sent or asked for.
LEMMA InitInv == Init => Inv
<1> SUFFICES ASSUME Init PROVE Inv
  OBVIOUS
<1>1. TypeOK
  <2>1. consumer \in [pc : Places, msg : Nat, todo : Plain \cup OfStop] /\ consumer.pc = "get"
    BY TodoShape DEF Init, AtQueue, Places
  <2>2. outcome \in [Tasks -> Reasons \cup {"quiet", None}]
    BY DEF Init
  <2>3. lock = Nobody /\ wire \in Seq(Events) /\ sent \in Seq(Messages) /\ queue \in Seq(Nat)
    BY DEF Init
  <2>4. taken = 0 /\ Len(sent) = 0 /\ Len(queue) = 0
    BY DEF Init
  <2>5. /\ started = FALSE /\ closed = FALSE /\ failure = None /\ phase = "handshake" /\ server = "up"
        /\ receive = "receiving" /\ sequence = 0
    BY DEF Init
  <2>6. taken \in Nat /\ taken <= Len(sent) /\ \A k \in 1..Len(queue) : queue[k] \in 1..taken
    BY <2>4
  <2>7. /\ started \in BOOLEAN /\ closed \in BOOLEAN
        /\ failure \in Reasons \cup {None} /\ sequence \in Nat
    BY <2>5
  <2> QED
    BY <2>1, <2>2, <2>3, <2>5, <2>6, <2>7 DEF TypeOK
<1>2. PhaseInv
  BY DEF Init, PhaseInv, Running, AtQueue
<1>2a. LockInv
  <2>1. lock = Nobody /\ lock.by = None
    BY DEF Init, Nobody
  <2> QED
    BY <2>1, NoneDiffers DEF LockInv, EventIn, Tasks
<1>3. SequenceInv /\ CloseInv
  BY NoneDiffers DEF Init, SequenceInv, CloseInv, LastWords, WireOrdered, OnWire, NextSeq, EventIn
<1>4. StopInv
  BY DEF Init, StopInv, Running
<1>5. AnsweredInOrder /\ AnsweredUpTo(0) /\ QueueInv(0)
  BY DEF Init, AnsweredInOrder, AnsweredUpTo, QueueInv, Unanswered, AtQueue
<1> QED
  BY <1>1, <1>2, <1>2a, <1>3, <1>4, <1>5 DEF Inv, AnswerInv

-----------------------------------------------------------------------------
(* Steps at which nothing reaches the client *)

\* The client sends another message: those sent before are as they were.
LEMMA SendKeeps == Inv /\ Send => Inv'
<1> SUFFICES ASSUME Inv, Send PROVE Inv'
  OBVIOUS
<1>0. SameOutput
  BY Unread DEF Send, Message, outVars, runVars
<1>a. /\ sent' \in Seq(Messages) /\ Len(sent') = Len(sent) + 1
      /\ \A m \in 1..Len(sent) : Message(m)' = Message(m)
  <2> PICK s \in Scripts : /\ Len(sent) < Len(s) /\ IsPrefix(sent, s)
                            /\ sent' = SubSeq(s, 1, Len(sent) + 1)
    BY DEF Send
  <2>1. s \in Seq(Messages)
    BY ConnectionAssumption DEF Messages
  <2>2. sent \in Seq(Messages)
    BY DEF Inv, TypeOK
  <2>3. sent' \in Seq(Messages) /\ Len(sent') = Len(sent) + 1
    BY <2>1, <2>2
  <2>4. ASSUME NEW m \in 1..Len(sent)
        PROVE  sent'[m] = sent[m]
    <3>1. SubSeq(sent, 1, Len(sent))[m] = SubSeq(s, 1, Len(sent))[m]
      BY DEF IsPrefix
    <3>2. SubSeq(sent, 1, Len(sent))[m] = sent[m] /\ SubSeq(s, 1, Len(sent))[m] = s[m]
      BY <2>1, <2>2
    <3> QED
      BY <2>1, <2>2, <3>1, <3>2
  <2> QED
    BY <2>3, <2>4 DEF Message
<1>b. consumer.pc \notin {"get", "ended"} =>
        consumer.msg \in 1..Len(sent) /\ (Stopping' <=> Stopping) /\ Message(consumer.msg)' = Message(consumer.msg)
  BY <1>a DEF Inv, TypeOK, Stopping, Message, Send, Message, inVars, taskVars, asrVars, outVars,
     runVars
<1>1. TypeOK'
  BY <1>a DEF Inv, TypeOK, Send, Message, inVars, taskVars, asrVars, outVars, runVars
<1>2. PhaseInv'
  BY <1>0 DEF SameOutput, Inv, PhaseInv, Running, Send, Message, inVars, taskVars, asrVars,
     outVars, runVars
<1>3. LockInv'
  BY DEF Inv, LockInv, EventIn, Running, LastEvent, Send, Message, taskVars, outVars, runVars
<1>4. SequenceInv'
  BY <1>0 DEF SameOutput, Inv, SequenceInv, EventIn, Running, Send, Message, outVars, runVars
<1>5. StopInv'
  BY <1>0, <1>b DEF SameOutput, Inv, StopInv, Running, Send, Message, inVars, taskVars, asrVars,
     outVars, runVars
<1>6. CloseInv'
  BY <1>0 DEF SameOutput, Inv, CloseInv, EventIn, Send, Message, outVars, runVars
<1>7. AnswerInv'
  <2> PICK n \in Nat : AnsweredUpTo(n) /\ QueueInv(n)
    BY DEF Inv, AnswerInv
  <2>1. AnsweredUpTo(n)' /\ AnsweredInOrder'
    BY <1>0 DEF SameOutput, Inv, AnswerInv
  <2>2. QueueInv(n)'
    BY <1>b DEF Inv, QueueInv, Unanswered, Send, Message, inVars, taskVars, asrVars, outVars,
       runVars
  <2> QED
    BY <2>1, <2>2 DEF AnswerInv
<1> QED
  BY <1>1, <1>2, <1>3, <1>4, <1>5, <1>6, <1>7 DEF Inv

\* The client goes.
LEMMA LeaveKeeps == Inv /\ Leave => Inv'
<1> SUFFICES ASSUME Inv, Leave PROVE Inv'
  OBVIOUS
<1>0. SameOutput
  BY Unread DEF Leave, outVars, runVars
<1>1. TypeOK'
  BY DEF Inv, TypeOK, Leave, inVars, taskVars, asrVars, outVars, runVars
<1>2. PhaseInv'
  BY <1>0 DEF SameOutput, Inv, PhaseInv, Running, Leave, inVars, taskVars, asrVars, outVars, runVars
<1>3. LockInv'
  BY DEF Inv, LockInv, EventIn, Running, LastEvent, Leave, taskVars, outVars, runVars
<1>4. SequenceInv'
  BY <1>0 DEF SameOutput, Inv, SequenceInv, EventIn, Running, Leave, outVars, runVars
<1>5. StopInv'
  BY <1>0 DEF SameOutput, Inv, StopInv, Message, Stopping, Running, Leave, inVars, taskVars,
     asrVars, outVars, runVars
<1>6. CloseInv'
  BY <1>0 DEF SameOutput, Inv, CloseInv, EventIn, Leave, outVars, runVars
<1>7. AnswerInv'
  <2> PICK n \in Nat : AnsweredUpTo(n) /\ QueueInv(n)
    BY DEF Inv, AnswerInv
  <2>1. AnsweredUpTo(n)' /\ AnsweredInOrder'
    BY <1>0 DEF SameOutput, Inv, AnswerInv
  <2>2. QueueInv(n)'
    BY DEF Inv, QueueInv, Unanswered, Stopping, Message, Running, Leave, inVars, taskVars,
       asrVars, outVars, runVars
  <2> QED
    BY <2>1, <2>2 DEF AnswerInv
<1> QED
  BY <1>1, <1>2, <1>3, <1>4, <1>5, <1>6, <1>7 DEF Inv

\* The handshake is accepted or refused.
LEMMA HandshakeKeeps == Inv /\ Handshake => Inv'
<1> SUFFICES ASSUME Inv, Handshake PROVE Inv'
  OBVIOUS
<1>0. SameOutput
  BY Unread DEF Handshake, outVars, runVars
<1>1. TypeOK'
  BY DEF Inv, TypeOK, Handshake, inVars, taskVars, asrVars, outVars, runVars
<1>2. PhaseInv'
  BY <1>0 DEF SameOutput, Inv, PhaseInv, Running, Handshake, inVars, taskVars, asrVars, outVars,
     runVars
<1>3. LockInv'
  BY DEF Inv, LockInv, EventIn, Running, LastEvent, Handshake, taskVars, outVars, runVars
<1>4. SequenceInv'
  BY <1>0 DEF SameOutput, Inv, SequenceInv, EventIn, Running, Handshake, outVars, runVars
<1>5. StopInv'
  BY <1>0 DEF SameOutput, Inv, StopInv, Message, Stopping, Running, Handshake, inVars, taskVars,
     asrVars, outVars, runVars
<1>6. CloseInv'
  BY <1>0, NoneDiffers DEF SameOutput, Inv, CloseInv, SequenceInv, EventIn, Handshake, outVars,
     runVars
<1>7. AnswerInv'
  <2> PICK n \in Nat : AnsweredUpTo(n) /\ QueueInv(n)
    BY DEF Inv, AnswerInv
  <2>1. AnsweredUpTo(n)' /\ AnsweredInOrder'
    BY <1>0 DEF SameOutput, Inv, AnswerInv
  <2>2. QueueInv(n)'
    BY DEF Inv, QueueInv, Unanswered, Stopping, Message, Running, Handshake, inVars, taskVars,
       asrVars, outVars, runVars
  <2> QED
    BY <2>1, <2>2 DEF AnswerInv
<1> QED
  BY <1>1, <1>2, <1>3, <1>4, <1>5, <1>6, <1>7 DEF Inv

\* The connection runs from here on, unless the server is shutting down.
LEMMA AcceptedKeeps == Inv /\ Accepted => Inv'
<1> SUFFICES ASSUME Inv, Accepted PROVE Inv'
  OBVIOUS
<1>0. SameOutput
  BY Unread DEF Accepted, outVars, runVars
<1>1. TypeOK'
  BY DEF Inv, TypeOK, Accepted, inVars, taskVars, asrVars, outVars, runVars
<1>2. PhaseInv'
  BY <1>0 DEF SameOutput, Inv, PhaseInv, Running, Accepted, outVars, runVars
<1>3. LockInv'
  BY DEF Inv, LockInv, EventIn, Running, LastEvent, Accepted, taskVars, outVars, runVars
<1>4. SequenceInv'
  BY <1>0 DEF SameOutput, Inv, SequenceInv, EventIn, Running, Accepted, outVars, runVars
<1>5. StopInv'
  BY DEF Inv, StopInv, OnWire, PhaseInv, Accepted, inVars, taskVars, asrVars, outVars, runVars
<1>6. CloseInv'
  BY <1>0, NoneDiffers DEF SameOutput, Inv, CloseInv, SequenceInv, EventIn, Accepted, outVars,
     runVars
<1>7. AnswerInv'
  <2> PICK n \in Nat : AnsweredUpTo(n) /\ QueueInv(n)
    BY DEF Inv, AnswerInv
  <2>1. AnsweredUpTo(n)' /\ AnsweredInOrder'
    BY <1>0 DEF SameOutput, Inv, AnswerInv
  <2>2. QueueInv(n)'
    BY DEF Inv, QueueInv, Unanswered, Stopping, Message, Running, Accepted, inVars, taskVars,
       asrVars, outVars, runVars
  <2> QED
    BY <2>1, <2>2 DEF AnswerInv
<1> QED
  BY <1>1, <1>2, <1>3, <1>4, <1>5, <1>6, <1>7 DEF Inv

\* The clock moves.
LEMMA TimePassesKeeps == Inv /\ TimePasses => Inv'
<1> SUFFICES ASSUME Inv, TimePasses PROVE Inv'
  OBVIOUS
<1>0. SameOutput
  BY Unread DEF TimePasses, outVars, runVars
<1>1. TypeOK'
  BY DEF Inv, TypeOK, TimePasses, inVars, taskVars, asrVars, outVars, runVars
<1>2. PhaseInv'
  BY <1>0 DEF SameOutput, Inv, PhaseInv, Running, TimePasses, outVars, runVars
<1>3. LockInv'
  BY DEF Inv, LockInv, EventIn, Running, LastEvent, TimePasses, taskVars, outVars, runVars
<1>4. SequenceInv'
  BY <1>0 DEF SameOutput, Inv, SequenceInv, EventIn, Running, TimePasses, outVars, runVars
<1>5. StopInv'
  BY <1>0 DEF SameOutput, Inv, StopInv, Message, Stopping, Running, TimePasses, inVars, taskVars,
     asrVars, outVars, runVars
<1>6. CloseInv'
  BY <1>0 DEF SameOutput, Inv, CloseInv, EventIn, TimePasses, outVars, runVars
<1>7. AnswerInv'
  <2> PICK n \in Nat : AnsweredUpTo(n) /\ QueueInv(n)
    BY DEF Inv, AnswerInv
  <2>1. AnsweredUpTo(n)' /\ AnsweredInOrder'
    BY <1>0 DEF SameOutput, Inv, AnswerInv
  <2>2. QueueInv(n)'
    BY DEF Inv, QueueInv, Unanswered, Stopping, Message, Running, TimePasses, inVars, taskVars,
       asrVars, outVars, runVars
  <2> QED
    BY <2>1, <2>2 DEF AnswerInv
<1> QED
  BY <1>1, <1>2, <1>3, <1>4, <1>5, <1>6, <1>7 DEF Inv

\* A message goes to the end of the queue, waits for room, or ends the loop.
LEMMA ReceiveKeeps == Inv /\ Receive => Inv'
<1> SUFFICES ASSUME Inv, Receive PROVE Inv'
  OBVIOUS
<1>0. SameOutput
  BY Unread DEF Receive, outVars, runVars
<1>a. /\ Running /\ receive = "receiving" /\ taken' = taken + 1
      /\ UNCHANGED <<sent, consumer, started, outVars, runVars>>
      /\ taken' <= Len(sent) /\ outcome' \in [Tasks -> Reasons \cup {"quiet", None}]
      /\ receive' \in {"receiving", "putting", "ended"}
  BY DEF Inv, TypeOK, Reasons, Tasks, Receive, NextReceive, Pending, QueueFull, End, inVars,
     taskVars, asrVars, outVars, runVars
<1>b. /\ queue \in Seq(Nat) /\ taken' \in Nat /\ Append(queue, taken') \in Seq(Nat)
      /\ Len(Append(queue, taken')) = Len(queue) + 1 /\ Append(queue, taken')[Len(queue) + 1] = taken'
      /\ \A k \in 1..Len(queue) : Append(queue, taken')[k] = queue[k]
  BY <1>a DEF Inv, TypeOK
<1>c. \/ receive' = "ended" /\ (queue' = queue \/ queue' = Append(queue, taken'))
      \/ receive' = "receiving" /\ queue' = Append(queue, taken')
      \/ receive' = "putting" /\ queue' = queue
  BY <1>a DEF Receive, NextReceive, Pending, QueueFull, End, inVars, taskVars, asrVars, outVars,
     runVars
<1>d. /\ queue' \in Seq(Nat) /\ Len(queue') \in Nat /\ taken' \in 1..Len(sent)
      /\ \/ Len(queue') = Len(queue)
         \/ Len(queue') = Len(queue) + 1 /\ queue'[Len(queue) + 1] = taken' /\ receive' # "putting"
      /\ \A k \in 1..Len(queue) : queue'[k] = queue[k]
  <2>1. taken' \in 1..Len(sent)
    BY <1>a, <1>b DEF Inv, TypeOK
  <2>2. CASE queue' = queue
    BY <1>b, <2>1, <2>2
  <2>3. CASE queue' = Append(queue, taken') /\ receive' # "putting"
    BY <1>b, <2>1, <2>3
  <2> QED
    BY <1>c, <2>2, <2>3
<1>e. \A k \in 1..Len(queue') : queue'[k] \in 1..taken'
  <2>1. \A k \in 1..Len(queue) : queue'[k] \in 1..taken'
    BY <1>a, <1>d DEF Inv, TypeOK
  <2> QED
    BY <1>b, <1>d, <2>1
<1>1. TypeOK'
  <2>1. consumer' = consumer /\ (consumer.pc \notin {"get", "ended"} => consumer.msg \in 1..taken')
    BY <1>a, <1>d DEF Inv, TypeOK
  <2> QED
    BY <1>a, <1>d, <1>e, <2>1 DEF Inv, TypeOK, outVars, runVars
<1>2. PhaseInv'
  BY <1>0 DEF SameOutput, Inv, PhaseInv, Running, Receive, outVars, runVars
<1>3. LockInv'
  BY DEF Inv, LockInv, EventIn, Running, LastEvent, Receive, taskVars, outVars, runVars
<1>4. SequenceInv'
  BY <1>0 DEF SameOutput, Inv, SequenceInv, EventIn, Running, Receive, outVars, runVars
<1>5. StopInv'
  BY <1>0 DEF SameOutput, Inv, StopInv, Message, Stopping, Running, Receive, End, inVars,
     taskVars, asrVars, outVars, runVars
<1>6. CloseInv'
  BY <1>0 DEF SameOutput, Inv, CloseInv, EventIn, Receive, outVars, runVars
<1>7. AnswerInv'
  <2> PICK n \in Nat : AnsweredUpTo(n) /\ QueueInv(n)
    BY DEF Inv, AnswerInv
  <2>1. AnsweredUpTo(n)' /\ AnsweredInOrder'
    BY <1>0 DEF SameOutput, Inv, AnswerInv
  <2>2. QueueInv(n)'
    <3> SUFFICES ASSUME ~closed, consumer.pc \notin {"close", "ended"}
                 PROVE  QueueInv(n)'
      BY <1>a DEF QueueInv, outVars
    <3>0. Unanswered' <=> Unanswered
      BY <1>a DEF Inv, TypeOK, Unanswered, Stopping, Message
    <3> DEFINE next == IF Unanswered THEN n + 1 ELSE n
    <3>1. /\ Unanswered => consumer.msg = n + 1
          /\ \A k \in 1..Len(queue) : queue[k] = next + k
          /\ receive = "receiving" => taken = next + Len(queue)
          /\ receive = "putting"   => taken = next + Len(queue) + 1
      BY <1>a DEF QueueInv, Running
    <3>2. next \in Nat /\ Len(queue) \in Nat /\ taken \in Nat
      BY <1>b DEF Inv, TypeOK
    <3> HIDE DEF next
    <3>3. \A k \in 1..Len(queue') : queue'[k] = next + k
      <4>1. \A k \in 1..Len(queue) : queue'[k] = next + k
        BY <1>d, <3>1
      <4>2. taken' = next + Len(queue) + 1
        BY <1>a, <3>1, <3>2
      <4>3. ASSUME NEW k \in 1..Len(queue')
            PROVE  queue'[k] = next + k
        <5>1. CASE k \in 1..Len(queue)
          BY <4>1, <5>1
        <5>2. CASE k \notin 1..Len(queue)
          <6>1. k = Len(queue) + 1 /\ queue'[k] = taken'
            BY <1>b, <1>d, <5>2
          <6> QED
            BY <3>2, <4>2, <6>1
        <5> QED
          BY <5>1, <5>2
      <4> QED
        BY <4>3
    <3>4. /\ receive' = "receiving" => taken' = next + Len(queue')
          /\ receive' = "putting"   => taken' = next + Len(queue') + 1
      <4>1. taken' = next + Len(queue) + 1
        BY <1>a, <3>1, <3>2
      <4>2. CASE receive' = "receiving"
        <5>1. queue' = Append(queue, taken')
          BY <1>c, <4>2
        <5> QED
          BY <1>b, <3>2, <4>1, <4>2, <5>1
      <4>3. CASE receive' = "putting"
        <5>1. queue' = queue
          BY <1>c, <4>3
        <5> QED
          BY <4>1, <4>3, <5>1
      <4> QED
        BY <4>2, <4>3
    <3> QED
      BY <1>a, <3>0, <3>1, <3>3, <3>4 DEF QueueInv, next
  <2> QED
    BY <2>1, <2>2 DEF AnswerInv
<1> QED
  BY <1>1, <1>2, <1>3, <1>4, <1>5, <1>6, <1>7 DEF Inv

\* There is room for the message that waited.
LEMMA PutRoomKeeps == Inv /\ PutRoom => Inv'
<1> SUFFICES ASSUME Inv, PutRoom PROVE Inv'
  OBVIOUS
<1>0. SameOutput
  BY Unread DEF PutRoom, outVars, runVars
<1>a. /\ Running /\ receive = "putting" /\ taken' = taken
      /\ UNCHANGED <<sent, consumer, started, outVars, runVars>>
      /\ taken' <= Len(sent) /\ outcome' \in [Tasks -> Reasons \cup {"quiet", None}]
      /\ receive' \in {"receiving", "putting", "ended"}
  BY DEF Inv, TypeOK, Reasons, Tasks, PutRoom, NextReceive, QueueFull, End, inVars, taskVars,
     asrVars, outVars, runVars
<1>b. /\ queue \in Seq(Nat) /\ taken' \in Nat /\ Append(queue, taken') \in Seq(Nat)
      /\ Len(Append(queue, taken')) = Len(queue) + 1 /\ Append(queue, taken')[Len(queue) + 1] = taken'
      /\ \A k \in 1..Len(queue) : Append(queue, taken')[k] = queue[k]
  BY <1>a DEF Inv, TypeOK
<1>c. \/ receive' = "ended" /\ (queue' = queue \/ queue' = Append(queue, taken'))
      \/ receive' = "receiving" /\ queue' = Append(queue, taken')
  BY <1>a DEF PutRoom, NextReceive, QueueFull, End, inVars, taskVars, asrVars, outVars, runVars
<1>d. /\ queue' \in Seq(Nat) /\ Len(queue') \in Nat /\ taken' \in 1..Len(sent)
      /\ \/ Len(queue') = Len(queue)
         \/ Len(queue') = Len(queue) + 1 /\ queue'[Len(queue) + 1] = taken' /\ receive' # "putting"
      /\ \A k \in 1..Len(queue) : queue'[k] = queue[k]
  <2>1. taken' \in 1..Len(sent)
    BY <1>a, <1>b DEF Inv, TypeOK
  <2>2. CASE queue' = queue
    BY <1>b, <2>1, <2>2
  <2>3. CASE queue' = Append(queue, taken') /\ receive' # "putting"
    BY <1>b, <2>1, <2>3
  <2> QED
    BY <1>c, <2>2, <2>3
<1>e. \A k \in 1..Len(queue') : queue'[k] \in 1..taken'
  <2>1. \A k \in 1..Len(queue) : queue'[k] \in 1..taken'
    BY <1>a, <1>d DEF Inv, TypeOK
  <2> QED
    BY <1>b, <1>d, <2>1
<1>1. TypeOK'
  <2>1. consumer' = consumer /\ (consumer.pc \notin {"get", "ended"} => consumer.msg \in 1..taken')
    BY <1>a, <1>d DEF Inv, TypeOK
  <2> QED
    BY <1>a, <1>d, <1>e, <2>1 DEF Inv, TypeOK, outVars, runVars
<1>2. PhaseInv'
  BY <1>0 DEF SameOutput, Inv, PhaseInv, Running, PutRoom, outVars, runVars
<1>3. LockInv'
  BY DEF Inv, LockInv, EventIn, Running, LastEvent, PutRoom, taskVars, outVars, runVars
<1>4. SequenceInv'
  BY <1>0 DEF SameOutput, Inv, SequenceInv, EventIn, Running, PutRoom, outVars, runVars
<1>5. StopInv'
  BY <1>0 DEF SameOutput, Inv, StopInv, Message, Stopping, Running, PutRoom, End, inVars,
     taskVars, asrVars, outVars, runVars
<1>6. CloseInv'
  BY <1>0 DEF SameOutput, Inv, CloseInv, EventIn, PutRoom, outVars, runVars
<1>7. AnswerInv'
  <2> PICK n \in Nat : AnsweredUpTo(n) /\ QueueInv(n)
    BY DEF Inv, AnswerInv
  <2>1. AnsweredUpTo(n)' /\ AnsweredInOrder'
    BY <1>0 DEF SameOutput, Inv, AnswerInv
  <2>2. QueueInv(n)'
    <3> SUFFICES ASSUME ~closed, consumer.pc \notin {"close", "ended"}
                 PROVE  QueueInv(n)'
      BY <1>a DEF QueueInv, outVars
    <3>0. Unanswered' <=> Unanswered
      BY <1>a DEF Inv, TypeOK, Unanswered, Stopping, Message
    <3> DEFINE next == IF Unanswered THEN n + 1 ELSE n
    <3>1. /\ Unanswered => consumer.msg = n + 1
          /\ \A k \in 1..Len(queue) : queue[k] = next + k
          /\ receive = "receiving" => taken = next + Len(queue)
          /\ receive = "putting"   => taken = next + Len(queue) + 1
      BY <1>a DEF QueueInv, Running
    <3>2. next \in Nat /\ Len(queue) \in Nat /\ taken \in Nat
      BY <1>b DEF Inv, TypeOK
    <3> HIDE DEF next
    <3>3. \A k \in 1..Len(queue') : queue'[k] = next + k
      <4>1. \A k \in 1..Len(queue) : queue'[k] = next + k
        BY <1>d, <3>1
      <4>2. taken' = next + Len(queue) + 1
        BY <1>a, <3>1, <3>2
      <4>3. ASSUME NEW k \in 1..Len(queue')
            PROVE  queue'[k] = next + k
        <5>1. CASE k \in 1..Len(queue)
          BY <4>1, <5>1
        <5>2. CASE k \notin 1..Len(queue)
          <6>1. k = Len(queue) + 1 /\ queue'[k] = taken'
            BY <1>b, <1>d, <5>2
          <6> QED
            BY <3>2, <4>2, <6>1
        <5> QED
          BY <5>1, <5>2
      <4> QED
        BY <4>3
    <3>4. /\ receive' = "receiving" => taken' = next + Len(queue')
          /\ receive' = "putting"   => taken' = next + Len(queue') + 1
      <4>1. taken' = next + Len(queue) + 1
        BY <1>a, <3>1, <3>2
      <4>2. CASE receive' = "receiving"
        <5>1. queue' = Append(queue, taken')
          BY <1>c, <4>2
        <5> QED
          BY <1>b, <3>2, <4>1, <4>2, <5>1
      <4>3. CASE receive' = "putting"
        <5>1. queue' = queue
          BY <1>c, <4>3
        <5> QED
          BY <4>1, <4>3, <5>1
      <4> QED
        BY <4>2, <4>3
    <3> QED
      BY <1>a, <3>0, <3>1, <3>3, <3>4 DEF QueueInv, next
  <2> QED
    BY <2>1, <2>2 DEF AnswerInv
<1> QED
  BY <1>1, <1>2, <1>3, <1>4, <1>5, <1>6, <1>7 DEF Inv

\* There was no room in time.
LEMMA PutTimeoutKeeps == Inv /\ PutTimeout => Inv'
<1> SUFFICES ASSUME Inv, PutTimeout PROVE Inv'
  OBVIOUS
<1>0. SameOutput
  BY Unread DEF PutTimeout, outVars, runVars
<1>1. TypeOK'
  BY DEF Inv, TypeOK, Tasks, Reasons, Timeouts, PutTimeout, End, inVars, taskVars, asrVars,
     outVars, runVars
<1>2. PhaseInv'
  BY <1>0 DEF SameOutput, Inv, PhaseInv, Running, PutTimeout, outVars, runVars
<1>3. LockInv'
  BY DEF Inv, LockInv, EventIn, Running, LastEvent, PutTimeout, taskVars, outVars, runVars
<1>4. SequenceInv'
  BY <1>0 DEF SameOutput, Inv, SequenceInv, EventIn, Running, PutTimeout, outVars, runVars
<1>5. StopInv'
  BY <1>0 DEF SameOutput, Inv, StopInv, Message, Stopping, Running, PutTimeout, End, inVars,
     taskVars, asrVars, outVars, runVars
<1>6. CloseInv'
  BY <1>0 DEF SameOutput, Inv, CloseInv, EventIn, PutTimeout, outVars, runVars
<1>7. AnswerInv'
  <2> PICK n \in Nat : AnsweredUpTo(n) /\ QueueInv(n)
    BY DEF Inv, AnswerInv
  <2>1. AnsweredUpTo(n)' /\ AnsweredInOrder'
    BY <1>0 DEF SameOutput, Inv, AnswerInv
  <2>2. QueueInv(n)'
    BY DEF Inv, QueueInv, Unanswered, Stopping, Message, Running, PutTimeout, End, inVars,
       taskVars, asrVars, outVars, runVars
  <2> QED
    BY <2>1, <2>2 DEF AnswerInv
<1> QED
  BY <1>1, <1>2, <1>3, <1>4, <1>5, <1>6, <1>7 DEF Inv

\* No message came in time.
LEMMA ReceiveTimeoutKeeps == Inv /\ ReceiveTimeout => Inv'
<1> SUFFICES ASSUME Inv, ReceiveTimeout PROVE Inv'
  OBVIOUS
<1>0. SameOutput
  BY Unread DEF ReceiveTimeout, outVars, runVars
<1>1. TypeOK'
  BY DEF Inv, TypeOK, Tasks, Reasons, Timeouts, ReceiveTimeout, End, inVars, taskVars, asrVars,
     outVars, runVars
<1>2. PhaseInv'
  BY <1>0 DEF SameOutput, Inv, PhaseInv, Running, ReceiveTimeout, outVars, runVars
<1>3. LockInv'
  BY DEF Inv, LockInv, EventIn, Running, LastEvent, ReceiveTimeout, taskVars, outVars, runVars
<1>4. SequenceInv'
  BY <1>0 DEF SameOutput, Inv, SequenceInv, EventIn, Running, ReceiveTimeout, outVars, runVars
<1>5. StopInv'
  BY <1>0 DEF SameOutput, Inv, StopInv, Message, Stopping, Running, ReceiveTimeout, End, inVars,
     taskVars, asrVars, outVars, runVars
<1>6. CloseInv'
  BY <1>0 DEF SameOutput, Inv, CloseInv, EventIn, ReceiveTimeout, outVars, runVars
<1>7. AnswerInv'
  <2> PICK n \in Nat : AnsweredUpTo(n) /\ QueueInv(n)
    BY DEF Inv, AnswerInv
  <2>1. AnsweredUpTo(n)' /\ AnsweredInOrder'
    BY <1>0 DEF SameOutput, Inv, AnswerInv
  <2>2. QueueInv(n)'
    BY DEF Inv, QueueInv, Unanswered, Stopping, Message, Running, ReceiveTimeout, End, inVars,
       taskVars, asrVars, outVars, runVars
  <2> QED
    BY <2>1, <2>2 DEF AnswerInv
<1> QED
  BY <1>1, <1>2, <1>3, <1>4, <1>5, <1>6, <1>7 DEF Inv

\* The client has gone.
LEMMA ReceiveEndsKeeps == Inv /\ ReceiveEnds => Inv'
<1> SUFFICES ASSUME Inv, ReceiveEnds PROVE Inv'
  OBVIOUS
<1>0. SameOutput
  BY Unread DEF ReceiveEnds, outVars, runVars
<1>1. TypeOK'
  BY DEF Inv, TypeOK, Tasks, Reasons, Timeouts, ReceiveEnds, End, inVars, taskVars, asrVars,
     outVars, runVars
<1>2. PhaseInv'
  BY <1>0 DEF SameOutput, Inv, PhaseInv, Running, ReceiveEnds, outVars, runVars
<1>3. LockInv'
  BY DEF Inv, LockInv, EventIn, Running, LastEvent, ReceiveEnds, taskVars, outVars, runVars
<1>4. SequenceInv'
  BY <1>0 DEF SameOutput, Inv, SequenceInv, EventIn, Running, ReceiveEnds, outVars, runVars
<1>5. StopInv'
  BY <1>0 DEF SameOutput, Inv, StopInv, Message, Stopping, Running, ReceiveEnds, End, inVars,
     taskVars, asrVars, outVars, runVars
<1>6. CloseInv'
  BY <1>0 DEF SameOutput, Inv, CloseInv, EventIn, ReceiveEnds, outVars, runVars
<1>7. AnswerInv'
  <2> PICK n \in Nat : AnsweredUpTo(n) /\ QueueInv(n)
    BY DEF Inv, AnswerInv
  <2>1. AnsweredUpTo(n)' /\ AnsweredInOrder'
    BY <1>0 DEF SameOutput, Inv, AnswerInv
  <2>2. QueueInv(n)'
    BY DEF Inv, QueueInv, Unanswered, Stopping, Message, Running, ReceiveEnds, End, inVars,
       taskVars, asrVars, outVars, runVars
  <2> QED
    BY <2>1, <2>2 DEF AnswerInv
<1> QED
  BY <1>1, <1>2, <1>3, <1>4, <1>5, <1>6, <1>7 DEF Inv

\* The consumer takes the message behind the last answer.
LEMMA TakeKeeps == Inv /\ Take => Inv'
<1> SUFFICES ASSUME Inv, Take PROVE Inv'
  OBVIOUS
<1> USE NoneDiffers, TodoShape
<1>0. SameOutput
  BY Unread DEF Take, Refused, outVars, runVars
<1>a. /\ Head(queue) \in 1..taken /\ Tail(queue) \in Seq(Nat) /\ Len(Tail(queue)) = Len(queue) - 1
      /\ \A k \in 1..Len(queue) - 1 : Tail(queue)[k] = queue[k + 1]
      /\ queue \in Seq(Nat) /\ Head(queue) = queue[1] /\ Len(queue) > 0
  BY DEF Inv, TypeOK, Take
<1>b. /\ Running /\ consumer.pc = "get" /\ queue' = Tail(queue)
      /\ UNCHANGED <<sent, taken, receive, started, outVars, runVars>>
  BY DEF Take, Refused, Fails, End, Kinds, inVars, taskVars, asrVars, outVars, runVars
<1>c. \/ consumer' = [consumer EXCEPT !.pc = "ended"] /\ outcome' \in [Tasks -> Reasons \cup {"quiet", None}]
      \/ /\ consumer' = [pc |-> "send", msg |-> Head(queue), todo |-> <<"pong">>]
         /\ Message(Head(queue)).kind = "ping" /\ outcome' = outcome
      \/ /\ consumer' = [pc |-> "call", msg |-> Head(queue), todo |-> <<>>]
         /\ Message(Head(queue)).kind # "start" => started
         /\ outcome' = outcome
  <2>1. CASE Refused(Message(Head(queue))) # None
    <3>1. Refused(Message(Head(queue))) \in Reasons
      BY <2>1 DEF Refused, Reasons
    <3>2. consumer' = [consumer EXCEPT !.pc = "ended"]
          /\ outcome' = [outcome EXCEPT !["consumer"] = Refused(Message(Head(queue)))]
      BY <2>1 DEF Take, Fails, End
    <3>3. outcome' \in [Tasks -> Reasons \cup {"quiet", None}]
      BY <3>1, <3>2 DEF Inv, TypeOK
    <3> QED
      BY <3>2, <3>3
  <2>2. CASE Refused(Message(Head(queue))) = None
    <3>1. Message(Head(queue)).kind # "start" => started
      <4>1. Message(Head(queue)).kind # "malformed"
        BY <2>2, NoneDiffers DEF Refused, Reasons
      <4> QED
        BY <2>2, <4>1, NoneDiffers DEF Refused, Reasons
    <3> QED
      BY <2>2, <3>1 DEF Take
  <2> QED
    BY <2>1, <2>2
<1>d. /\ consumer' \in [pc : Places, msg : Nat, todo : Plain \cup OfStop]
      /\ consumer'.pc \in {"ended", "send", "call"}
      /\ consumer'.pc # "ended" => consumer'.msg = Head(queue)
      /\ consumer'.pc = "send" => consumer'.todo = <<"pong">> /\ Message(Head(queue)).kind = "ping"
      /\ consumer'.pc = "call" => (Message(Head(queue)).kind # "start" => started)
      /\ outcome' \in [Tasks -> Reasons \cup {"quiet", None}]
  <2>0. /\ consumer \in [pc : Places, msg : Nat, todo : Plain \cup OfStop]
        /\ outcome \in [Tasks -> Reasons \cup {"quiet", None}] /\ Head(queue) \in Nat
    BY <1>a DEF Inv, TypeOK
  <2>1. CASE consumer' = [consumer EXCEPT !.pc = "ended"] /\ outcome' \in [Tasks -> Reasons \cup {"quiet", None}]
    BY <2>0, <2>1 DEF Places
  <2>2. CASE /\ consumer' = [pc |-> "send", msg |-> Head(queue), todo |-> <<"pong">>]
             /\ Message(Head(queue)).kind = "ping" /\ outcome' = outcome
    BY <2>0, <2>2 DEF Places
  <2>3. CASE /\ consumer' = [pc |-> "call", msg |-> Head(queue), todo |-> <<>>]
             /\ Message(Head(queue)).kind # "start" => started
             /\ outcome' = outcome
    BY <2>0, <2>3 DEF Places
  <2> QED
    BY <1>c, <2>1, <2>2, <2>3
<1>1. TypeOK'
  BY <1>a, <1>b, <1>d DEF Inv, TypeOK, outVars, runVars
<1>2. PhaseInv'
  BY <1>0 DEF SameOutput, Inv, PhaseInv, Running, Take, Refused, outVars, runVars
<1>3. LockInv'
  BY DEF Inv, LockInv, EventIn, Running, LastEvent, Take, Refused, Fails, taskVars, outVars, runVars
<1>4. SequenceInv'
  BY <1>0 DEF SameOutput, Inv, SequenceInv, EventIn, Running, Take, Refused, outVars, runVars
<1>5. StopInv'
  BY <1>0, <1>a, <1>b, <1>d DEF SameOutput, Inv, StopInv, Running, Stopping, Message, outVars,
     runVars
<1>6. CloseInv'
  BY <1>0 DEF SameOutput, Inv, CloseInv, EventIn, Take, Refused, outVars, runVars
<1>7. AnswerInv'
  <2> PICK n \in Nat : AnsweredUpTo(n) /\ QueueInv(n)
    BY DEF Inv, AnswerInv
  <2>1. AnsweredUpTo(n)' /\ AnsweredInOrder'
    BY <1>0 DEF SameOutput, Inv, AnswerInv
  <2>2. QueueInv(n)'
    <3> SUFFICES ASSUME phase = "running", ~closed, consumer'.pc # "ended"
                 PROVE  QueueInv(n)'
      BY <1>b DEF QueueInv, Running, runVars, outVars
    <3>1. ~Unanswered /\ Unanswered'
      BY <1>b, <1>d DEF Unanswered
    <3>2. /\ \A k \in 1..Len(queue) : queue[k] = n + k
          /\ receive = "receiving" => taken = n + Len(queue)
          /\ receive = "putting"   => taken = n + Len(queue) + 1
      BY <1>b, <3>1 DEF QueueInv
    <3>3. consumer'.msg = n + 1
      BY <1>a, <1>d, <3>2
    <3>4. \A k \in 1..Len(queue') : queue'[k] = (n + 1) + k
      BY <1>a, <1>b, <3>2
    <3> QED
      BY <1>a, <1>b, <3>1, <3>2, <3>3, <3>4 DEF QueueInv
  <2> QED
    BY <2>1, <2>2 DEF AnswerInv
<1> QED
  BY <1>1, <1>2, <1>3, <1>4, <1>5, <1>6, <1>7 DEF Inv

\* The consumer takes the lock for its next event.
LEMMA ConsumerSendsKeeps == Inv /\ ConsumerSends => Inv'
<1> SUFFICES ASSUME Inv, ConsumerSends PROVE Inv'
  OBVIOUS
<1> USE NoneDiffers, TodoShape
<1>0. SameOutput
  BY Unread DEF ConsumerSends, BeginSend, LockFree, outVars, runVars
<1>a. /\ Running /\ consumer.pc = "send" /\ consumer.todo # <<>> /\ lock = Nobody /\ ~closed
      /\ lock' = [by |-> "consumer", event |->
                    [type |-> Head(consumer.todo), msg |-> consumer.msg,
                     last |-> (LastEvent /\ Head(consumer.todo) # "revision"), seq |-> sequence]]
      /\ sequence' = sequence + 1
      /\ UNCHANGED <<closed, wire, code, taskVars, inVars, asrVars, runVars>>
  BY DEF ConsumerSends, BeginSend, LockFree, inVars, taskVars, asrVars, outVars, runVars
<1>b. Head(consumer.todo) \in Types \ {"heartbeat", "error"} /\ Head(consumer.todo) # "close"
  BY <1>a DEF Inv, TypeOK, Types
<1>c. lock'.by = "consumer" /\ lock'.event.type = Head(consumer.todo) /\ EventIn' /\ ~EventIn
  BY <1>a, <1>b DEF EventIn, Nobody
<1>d. ~OnWire("stopped") \/ closed
  BY <1>a DEF Inv, StopInv
<1>1. TypeOK'
  BY DEF Inv, TypeOK, Senders, Events, ConsumerSends, BeginSend, LockFree, inVars, taskVars,
     asrVars, outVars, runVars
<1>2. PhaseInv'
  BY <1>0 DEF SameOutput, Inv, PhaseInv, Running, ConsumerSends, BeginSend, LockFree, outVars,
     runVars
<1>3. LockInv'
  <2>1. /\ lock'.event.msg = consumer.msg /\ lock'.event.seq = sequence
        /\ lock'.event.last = (LastEvent /\ Head(consumer.todo) # "revision")
    BY <1>a
  <2> QED
    BY <1>a, <1>b, <1>c, <2>1 DEF Inv, LockInv, LastEvent, Running, TypeOK, ConsumerSends,
       BeginSend, LockFree, inVars, taskVars, asrVars, outVars, runVars
<1>4. SequenceInv'
  BY <1>0, <1>a, <1>c DEF SameOutput, Inv, SequenceInv, Running, TypeOK, runVars
<1>5. StopInv'
  BY <1>0 DEF SameOutput, Inv, StopInv, Message, Stopping, Running, ConsumerSends, BeginSend,
     LockFree, inVars, taskVars, asrVars, outVars, runVars
<1>6. CloseInv'
  BY <1>0, <1>a, <1>c DEF SameOutput, Inv, CloseInv, SequenceInv, Running, TypeOK, runVars
<1>7. AnswerInv'
  <2> PICK n \in Nat : AnsweredUpTo(n) /\ QueueInv(n)
    BY DEF Inv, AnswerInv
  <2>1. AnsweredUpTo(n)' /\ AnsweredInOrder'
    BY <1>0 DEF SameOutput, Inv, AnswerInv
  <2>2. QueueInv(n)'
    BY DEF Inv, QueueInv, Unanswered, Stopping, Message, Running, ConsumerSends, BeginSend,
       LockFree, inVars, taskVars, outVars, runVars
  <2> QED
    BY <2>1, <2>2 DEF AnswerInv
<1> QED
  BY <1>1, <1>2, <1>3, <1>4, <1>5, <1>6, <1>7 DEF Inv

\* The connection is closed: the event is not sent.
LEMMA ConsumerSkipsKeeps == Inv /\ ConsumerSkips => Inv'
<1> SUFFICES ASSUME Inv, ConsumerSkips PROVE Inv'
  OBVIOUS
<1> USE NoneDiffers, TodoShape
<1>0. SameOutput
  BY Unread DEF ConsumerSkips, LockFree, outVars, runVars
<1>1. TypeOK'
  BY DEF Inv, TypeOK, ConsumerSkips, LockFree, inVars, taskVars, asrVars, outVars, runVars
<1>2. PhaseInv'
  BY <1>0 DEF SameOutput, Inv, PhaseInv, Running, ConsumerSkips, LockFree, outVars, runVars
<1>3. LockInv'
  BY DEF Inv, LockInv, EventIn, Running, LastEvent, ConsumerSkips, LockFree, taskVars, outVars,
     runVars
<1>4. SequenceInv'
  BY <1>0 DEF SameOutput, Inv, SequenceInv, EventIn, Running, ConsumerSkips, LockFree, outVars,
     runVars
<1>5. StopInv'
  <2>1. consumer' = [consumer EXCEPT !.todo = Tail(@)] /\ consumer.pc = "send" /\ closed' /\ consumer.todo # <<>>
    BY DEF ConsumerSkips, LockFree, inVars, taskVars, asrVars, outVars, runVars
  <2>2. consumer'.pc = "send" /\ consumer'.msg = consumer.msg /\ consumer'.todo = Tail(consumer.todo)
    BY <2>1 DEF Inv, TypeOK
  <2>3. Running' = Running /\ Stopping' = Stopping /\ started' = started
    BY <2>2 DEF Running, Stopping, Message, ConsumerSkips, LockFree, inVars, taskVars, asrVars,
       outVars, runVars
  <2> QED
    BY <1>0, <2>1, <2>2, <2>3 DEF SameOutput, Inv, StopInv
<1>6. CloseInv'
  BY <1>0 DEF SameOutput, Inv, CloseInv, EventIn, ConsumerSkips, LockFree, outVars, runVars
<1>7. AnswerInv'
  <2> PICK n \in Nat : AnsweredUpTo(n) /\ QueueInv(n)
    BY DEF Inv, AnswerInv
  <2>1. AnsweredUpTo(n)' /\ AnsweredInOrder'
    BY <1>0 DEF SameOutput, Inv, AnswerInv
  <2>2. QueueInv(n)'
    BY DEF Inv, QueueInv, Unanswered, Stopping, Message, Running, ConsumerSkips, LockFree, inVars,
       taskVars, outVars, runVars
  <2> QED
    BY <2>1, <2>2 DEF AnswerInv
<1> QED
  BY <1>1, <1>2, <1>3, <1>4, <1>5, <1>6, <1>7 DEF Inv

\* All events of a command are sent.
LEMMA ConsumerGoesOnKeeps == Inv /\ ConsumerGoesOn => Inv'
<1> SUFFICES ASSUME Inv, ConsumerGoesOn PROVE Inv'
  OBVIOUS
<1> USE NoneDiffers, TodoShape
<1>0. SameOutput
  BY Unread DEF ConsumerGoesOn, outVars, runVars
<1>a. /\ consumer' \in [pc : Places, msg : Nat, todo : Plain \cup OfStop]
      /\ consumer'.pc \notin {"get", "ended"} => consumer.pc \notin {"get", "ended"} /\ consumer'.msg = consumer.msg
      /\ outcome' \in [Tasks -> Reasons \cup {"quiet", None}]
  <2>0. /\ consumer \in [pc : Places, msg : Nat, todo : Plain \cup OfStop]
        /\ outcome \in [Tasks -> Reasons \cup {"quiet", None}]
    BY DEF Inv, TypeOK
  <2>1. CASE Fails("quiet")
    BY <2>0, <2>1 DEF Fails, End, Places
  <2>2. CASE consumer' = AtQueue /\ outcome' = outcome
    BY <2>0, <2>2, TodoShape DEF AtQueue, Places
  <2>3. CASE consumer' \in {[consumer EXCEPT !.pc = "remove"], [consumer EXCEPT !.pc = "close"]} /\ outcome' = outcome
    BY <2>0, <2>3 DEF ConsumerGoesOn, Places
  <2> QED
    BY <2>1, <2>2, <2>3 DEF ConsumerGoesOn
<1>1. TypeOK'
  <2>1. started' \in BOOLEAN
    BY DEF Inv, TypeOK, ConsumerGoesOn, Fails, End, AtQueue, inVars, taskVars, asrVars, outVars,
       runVars
  <2>2. UNCHANGED <<inVars, receive, outVars, runVars>>
    BY DEF ConsumerGoesOn, Fails, End, AtQueue, inVars, taskVars, asrVars, outVars, runVars
  <2> QED
    BY <1>a, <2>1, <2>2 DEF Inv, TypeOK, inVars, outVars, runVars
<1>2. PhaseInv'
  BY <1>0 DEF SameOutput, Inv, PhaseInv, Running, ConsumerGoesOn, outVars, runVars
<1>3. LockInv'
  BY DEF Inv, LockInv, EventIn, Running, LastEvent, ConsumerGoesOn, Fails, AtQueue, taskVars,
     outVars, runVars
<1>4. SequenceInv'
  BY <1>0 DEF SameOutput, Inv, SequenceInv, EventIn, Running, ConsumerGoesOn, outVars, runVars
<1>5. StopInv'
  BY <1>0 DEF SameOutput, Inv, TypeOK, StopInv, Message, Stopping, LockInv, ConsumerGoesOn, Fails,
     End, AtQueue, inVars, taskVars, asrVars, outVars, runVars
<1>6. CloseInv'
  BY <1>0 DEF SameOutput, Inv, CloseInv, EventIn, ConsumerGoesOn, outVars, runVars
<1>7. AnswerInv'
  <2> PICK n \in Nat : AnsweredUpTo(n) /\ QueueInv(n)
    BY DEF Inv, AnswerInv
  <2>1. AnsweredUpTo(n)' /\ AnsweredInOrder'
    BY <1>0 DEF SameOutput, Inv, AnswerInv
  <2>2. QueueInv(n)'
    <3>1. UNCHANGED <<inVars, receive, adapter, told, outVars, runVars>>
      BY DEF ConsumerGoesOn
    <3>2. CASE ~Stopping
      <4>1. ~closed => consumer' = AtQueue
        BY <3>2 DEF ConsumerGoesOn
      <4>2. ~closed => ~Unanswered /\ ~Unanswered' /\ consumer.pc = "send"
        BY <3>2, <4>1 DEF ConsumerGoesOn, Unanswered, AtQueue
      <4> QED
        BY <3>1, <4>2 DEF QueueInv, inVars, outVars, runVars
    <3>3. CASE Stopping /\ started
      <4>1. consumer'.pc = "remove" /\ consumer'.msg = consumer.msg /\ consumer.pc = "send"
        BY <3>3 DEF ConsumerGoesOn, Inv, TypeOK
      <4>2. Unanswered /\ Unanswered'
        BY <3>3, <4>1 DEF Unanswered
      <4> QED
        BY <3>1, <4>1, <4>2 DEF QueueInv, inVars, outVars, runVars
    <3>4. CASE Stopping /\ ~started
      <4>1. consumer'.pc = "close"
        BY <3>4 DEF ConsumerGoesOn, Inv, TypeOK
      <4> QED
        BY <4>1 DEF QueueInv
    <3> QED
      BY <3>2, <3>3, <3>4
  <2> QED
    BY <2>1, <2>2 DEF AnswerInv
<1> QED
  BY <1>1, <1>2, <1>3, <1>4, <1>5, <1>6, <1>7 DEF Inv

\* The session of a stop is removed.
LEMMA RemovedKeeps == Inv /\ Removed => Inv'
<1> SUFFICES ASSUME Inv, Removed PROVE Inv'
  OBVIOUS
<1> USE NoneDiffers, TodoShape
<1>0. SameOutput
  BY Unread DEF Removed, outVars, runVars
<1>a. /\ Running /\ consumer.pc = "remove" /\ UNCHANGED <<inVars, receive, asrVars, outVars, runVars>>
      /\ outcome' \in [Tasks -> Reasons \cup {"quiet", None}] /\ consumer'.msg = consumer.msg
      /\ consumer' \in [pc : Places, msg : Nat, todo : Plain \cup OfStop]
      /\ \/ consumer'.pc = "ended"
         \/ consumer'.pc = "send" /\ consumer'.todo = <<"stopped">>
  <2>0. /\ consumer \in [pc : Places, msg : Nat, todo : Plain \cup OfStop]
        /\ outcome \in [Tasks -> Reasons \cup {"quiet", None}]
    BY DEF Inv, TypeOK
  <2>1. CASE Fails("INTERNAL_SERVER_ERROR")
    BY <2>0, <2>1 DEF Removed, Fails, End, Places, Reasons
  <2>2. CASE consumer' = [consumer EXCEPT !.pc = "send", !.todo = <<"stopped">>] /\ outcome' = outcome
    BY <2>0, <2>2 DEF Removed, Places
  <2> QED
    BY <2>1, <2>2 DEF Removed
<1>1. TypeOK'
  BY <1>a DEF Inv, TypeOK, Places, outVars, runVars, inVars, asrVars
<1>2. PhaseInv'
  BY <1>0 DEF SameOutput, Inv, PhaseInv, Running, Removed, outVars, runVars
<1>3. LockInv'
  BY DEF Inv, LockInv, EventIn, Running, LastEvent, Removed, Fails, taskVars, outVars, runVars
<1>4. SequenceInv'
  BY <1>0 DEF SameOutput, Inv, SequenceInv, EventIn, Running, Removed, outVars, runVars
<1>5. StopInv'
  BY <1>0, <1>a DEF SameOutput, Inv, StopInv, Running, Stopping, Message, outVars, runVars,
     asrVars, inVars
<1>6. CloseInv'
  BY <1>0 DEF SameOutput, Inv, CloseInv, EventIn, Removed, outVars, runVars
<1>7. AnswerInv'
  <2> PICK n \in Nat : AnsweredUpTo(n) /\ QueueInv(n)
    BY DEF Inv, AnswerInv
  <2>1. AnsweredUpTo(n)' /\ AnsweredInOrder'
    BY <1>0 DEF SameOutput, Inv, AnswerInv
  <2>2. QueueInv(n)'
    BY <1>a DEF Inv, QueueInv, Unanswered, Running, outVars, runVars, inVars
  <2> QED
    BY <2>1, <2>2 DEF AnswerInv
<1> QED
  BY <1>1, <1>2, <1>3, <1>4, <1>5, <1>6, <1>7 DEF Inv

\* The close of a stop begins.
LEMMA ConsumerClosesKeeps == Inv /\ ConsumerCloses => Inv'
<1> SUFFICES ASSUME Inv, ConsumerCloses PROVE Inv'
  OBVIOUS
<1> USE NoneDiffers, TodoShape
<1>0. SameOutput
  BY Unread DEF ConsumerCloses, BeginClose, LockFree, outVars, runVars
<1>a. /\ consumer' \in [pc : Places, msg : Nat, todo : Plain \cup OfStop]
      /\ consumer'.pc \notin {"get", "ended"} => consumer.pc \notin {"get", "ended"} /\ consumer'.msg = consumer.msg
      /\ outcome' \in [Tasks -> Reasons \cup {"quiet", None}]
  <2>0. /\ consumer \in [pc : Places, msg : Nat, todo : Plain \cup OfStop]
        /\ outcome \in [Tasks -> Reasons \cup {"quiet", None}]
    BY DEF Inv, TypeOK
  <2>1. CASE Fails("quiet")
    BY <2>0, <2>1 DEF Fails, End, Places
  <2>2. CASE consumer' = consumer /\ outcome' = outcome
    BY <2>0, <2>2 DEF ConsumerCloses
  <2> QED
    BY <2>1, <2>2 DEF ConsumerCloses
<1>1. TypeOK'
  <2>1. lock' \in {Nobody} \cup [by : Senders, event : Events \cup Closes] /\ closed' \in BOOLEAN
    <3>1. CASE lock' = lock /\ closed' = closed
      BY <3>1 DEF Inv, TypeOK
    <3>2. CASE closed' = TRUE /\ lock' = [by |-> "consumer", event |-> [type |-> "close", name |-> "NORMAL"]]
      <4>1. [type |-> "close", name |-> "NORMAL"] \in Closes
        BY DEF Closes
      <4> QED
        BY <3>2, <4>1 DEF Senders
    <3> QED
      BY <3>1, <3>2 DEF ConsumerCloses, BeginClose, outVars
  <2>2. UNCHANGED <<inVars, receive, started, sequence, wire, failure, phase, server>>
    BY DEF ConsumerCloses, Fails, End, BeginClose, LockFree, inVars, taskVars, asrVars, outVars,
       runVars
  <2> QED
    BY <1>a, <2>1, <2>2 DEF Inv, TypeOK, inVars
<1>2. PhaseInv'
  BY <1>0 DEF SameOutput, Inv, PhaseInv, Running, ConsumerCloses, BeginClose, LockFree, outVars,
     runVars
<1>3. LockInv'
  BY DEF Inv, LockInv, EventIn, Running, LastEvent, ConsumerCloses, Fails, BeginClose, LockFree,
     taskVars, outVars, runVars
<1>4. SequenceInv'
  BY <1>0 DEF SameOutput, Inv, SequenceInv, EventIn, Running, ConsumerCloses, BeginClose,
     LockFree, outVars, runVars
<1>5. StopInv'
  BY <1>0 DEF SameOutput, Inv, TypeOK, StopInv, Message, Stopping, ConsumerCloses, Fails, End,
     BeginClose, LockFree, inVars, taskVars, asrVars, outVars, runVars
<1>6. CloseInv'
  BY <1>0 DEF SameOutput, Inv, CloseInv, SequenceInv, StopInv, Running, ConsumerCloses,
     BeginClose, LockFree, outVars, runVars
<1>7. AnswerInv'
  <2> PICK n \in Nat : AnsweredUpTo(n) /\ QueueInv(n)
    BY DEF Inv, AnswerInv
  <2>1. AnsweredUpTo(n)' /\ AnsweredInOrder'
    BY <1>0 DEF SameOutput, Inv, AnswerInv
  <2>2. QueueInv(n)'
    BY DEF Inv, QueueInv, Unanswered, Stopping, Message, Running, ConsumerCloses, Fails, End,
       BeginClose, LockFree, inVars, taskVars, outVars, runVars
  <2> QED
    BY <2>1, <2>2 DEF AnswerInv
<1> QED
  BY <1>1, <1>2, <1>3, <1>4, <1>5, <1>6, <1>7 DEF Inv

\* The heartbeat gives up.
LEMMA HeartbeatTimeoutKeeps == Inv /\ HeartbeatTimeout => Inv'
<1> SUFFICES ASSUME Inv, HeartbeatTimeout PROVE Inv'
  OBVIOUS
<1>0. SameOutput
  BY Unread DEF HeartbeatTimeout, Timeouts, outVars, runVars
<1>1. TypeOK'
  BY DEF Inv, TypeOK, Tasks, Reasons, Timeouts, HeartbeatTimeout, End, inVars, taskVars, asrVars,
     outVars, runVars
<1>2. PhaseInv'
  BY <1>0 DEF SameOutput, Inv, PhaseInv, Running, HeartbeatTimeout, Timeouts, outVars, runVars
<1>3. LockInv'
  BY DEF Inv, LockInv, EventIn, Running, LastEvent, HeartbeatTimeout, Timeouts, taskVars, outVars,
     runVars
<1>4. SequenceInv'
  BY <1>0 DEF SameOutput, Inv, SequenceInv, EventIn, Running, HeartbeatTimeout, Timeouts, outVars,
     runVars
<1>5. StopInv'
  BY <1>0 DEF SameOutput, Inv, StopInv, Message, Stopping, Running, HeartbeatTimeout, End,
     Timeouts, inVars, taskVars, asrVars, outVars, runVars
<1>6. CloseInv'
  BY <1>0 DEF SameOutput, Inv, CloseInv, EventIn, HeartbeatTimeout, Timeouts, outVars, runVars
<1>7. AnswerInv'
  <2> PICK n \in Nat : AnsweredUpTo(n) /\ QueueInv(n)
    BY DEF Inv, AnswerInv
  <2>1. AnsweredUpTo(n)' /\ AnsweredInOrder'
    BY <1>0 DEF SameOutput, Inv, AnswerInv
  <2>2. QueueInv(n)'
    BY DEF Inv, QueueInv, Unanswered, Stopping, Message, Running, HeartbeatTimeout, End, Timeouts,
       inVars, taskVars, asrVars, outVars, runVars
  <2> QED
    BY <2>1, <2>2 DEF AnswerInv
<1> QED
  BY <1>1, <1>2, <1>3, <1>4, <1>5, <1>6, <1>7 DEF Inv

\* A heartbeat is due.
LEMMA HeartbeatWakesKeeps == Inv /\ HeartbeatWakes => Inv'
<1> SUFFICES ASSUME Inv, HeartbeatWakes PROVE Inv'
  OBVIOUS
<1>0. SameOutput
  BY Unread DEF HeartbeatWakes, outVars, runVars
<1>1. TypeOK'
  BY DEF Inv, TypeOK, HeartbeatWakes, inVars, taskVars, asrVars, outVars, runVars
<1>2. PhaseInv'
  BY <1>0 DEF SameOutput, Inv, PhaseInv, Running, HeartbeatWakes, outVars, runVars
<1>3. LockInv'
  BY DEF Inv, LockInv, EventIn, Running, LastEvent, HeartbeatWakes, taskVars, outVars, runVars
<1>4. SequenceInv'
  BY <1>0 DEF SameOutput, Inv, SequenceInv, EventIn, Running, HeartbeatWakes, outVars, runVars
<1>5. StopInv'
  BY <1>0 DEF SameOutput, Inv, StopInv, Message, Stopping, Running, HeartbeatWakes, inVars,
     taskVars, asrVars, outVars, runVars
<1>6. CloseInv'
  BY <1>0 DEF SameOutput, Inv, CloseInv, EventIn, HeartbeatWakes, outVars, runVars
<1>7. AnswerInv'
  <2> PICK n \in Nat : AnsweredUpTo(n) /\ QueueInv(n)
    BY DEF Inv, AnswerInv
  <2>1. AnsweredUpTo(n)' /\ AnsweredInOrder'
    BY <1>0 DEF SameOutput, Inv, AnswerInv
  <2>2. QueueInv(n)'
    BY DEF Inv, QueueInv, Unanswered, Stopping, Message, Running, HeartbeatWakes, inVars,
       taskVars, asrVars, outVars, runVars
  <2> QED
    BY <2>1, <2>2 DEF AnswerInv
<1> QED
  BY <1>1, <1>2, <1>3, <1>4, <1>5, <1>6, <1>7 DEF Inv

\* The heartbeat takes the lock.
LEMMA HeartbeatSendsKeeps == Inv /\ HeartbeatSends => Inv'
<1> SUFFICES ASSUME Inv, HeartbeatSends PROVE Inv'
  OBVIOUS
<1> USE NoneDiffers, TodoShape
<1>0. SameOutput
  BY Unread DEF HeartbeatSends, BeginSend, LockFree, outVars, runVars
<1>1. TypeOK'
  BY DEF Inv, TypeOK, Senders, Events, Types, HeartbeatSends, BeginSend, LockFree, inVars,
     taskVars, asrVars, outVars, runVars
<1>2. PhaseInv'
  BY <1>0 DEF SameOutput, Inv, PhaseInv, Running, HeartbeatSends, BeginSend, LockFree, outVars,
     runVars
<1>3. LockInv'
  <2>1. /\ lock' = [by |-> "heartbeat", event |->
                      [type |-> "heartbeat", msg |-> 0, last |-> FALSE, seq |-> sequence]]
        /\ Running' /\ ~closed' /\ sequence' = sequence + 1
    BY DEF HeartbeatSends, BeginSend, LockFree, inVars, taskVars, asrVars, outVars, runVars, Running
  <2>2. lock'.by = "heartbeat" /\ lock'.event.type = "heartbeat" /\ ~lock'.event.last
        /\ lock'.event.seq = sequence
    BY <2>1
  <2>3. EventIn'
    BY <2>1, <2>2 DEF EventIn, Nobody
  <2> QED
    BY <2>1, <2>2, <2>3 DEF Inv, TypeOK, LockInv
<1>4. SequenceInv'
  BY <1>0 DEF SameOutput, Inv, TypeOK, SequenceInv, EventIn, Running, HeartbeatSends, BeginSend,
     LockFree, outVars, runVars
<1>5. StopInv'
  BY <1>0 DEF SameOutput, Inv, StopInv, Message, Stopping, Running, HeartbeatSends, BeginSend,
     LockFree, inVars, taskVars, asrVars, outVars, runVars
<1>6. CloseInv'
  BY <1>0 DEF SameOutput, Inv, CloseInv, SequenceInv, EventIn, Running, HeartbeatSends, BeginSend,
     LockFree, outVars, runVars
<1>7. AnswerInv'
  <2> PICK n \in Nat : AnsweredUpTo(n) /\ QueueInv(n)
    BY DEF Inv, AnswerInv
  <2>1. AnsweredUpTo(n)' /\ AnsweredInOrder'
    BY <1>0 DEF SameOutput, Inv, AnswerInv
  <2>2. QueueInv(n)'
    BY DEF Inv, QueueInv, Unanswered, Stopping, Message, Running, HeartbeatSends, BeginSend,
       LockFree, inVars, taskVars, asrVars, outVars, runVars
  <2> QED
    BY <2>1, <2>2 DEF AnswerInv
<1> QED
  BY <1>1, <1>2, <1>3, <1>4, <1>5, <1>6, <1>7 DEF Inv

\* The heartbeat finds the connection closed.
LEMMA HeartbeatEndsKeeps == Inv /\ HeartbeatEnds => Inv'
<1> SUFFICES ASSUME Inv, HeartbeatEnds PROVE Inv'
  OBVIOUS
<1>0. SameOutput
  BY Unread DEF HeartbeatEnds, outVars, runVars
<1>1. TypeOK'
  BY DEF Inv, TypeOK, Tasks, Reasons, Timeouts, HeartbeatEnds, End, inVars, taskVars, asrVars,
     outVars, runVars
<1>2. PhaseInv'
  BY <1>0 DEF SameOutput, Inv, PhaseInv, Running, HeartbeatEnds, outVars, runVars
<1>3. LockInv'
  BY DEF Inv, LockInv, EventIn, Running, LastEvent, HeartbeatEnds, taskVars, outVars, runVars
<1>4. SequenceInv'
  BY <1>0 DEF SameOutput, Inv, SequenceInv, EventIn, Running, HeartbeatEnds, outVars, runVars
<1>5. StopInv'
  BY <1>0 DEF SameOutput, Inv, StopInv, Message, Stopping, Running, HeartbeatEnds, End, inVars,
     taskVars, asrVars, outVars, runVars
<1>6. CloseInv'
  BY <1>0 DEF SameOutput, Inv, CloseInv, EventIn, HeartbeatEnds, outVars, runVars
<1>7. AnswerInv'
  <2> PICK n \in Nat : AnsweredUpTo(n) /\ QueueInv(n)
    BY DEF Inv, AnswerInv
  <2>1. AnsweredUpTo(n)' /\ AnsweredInOrder'
    BY <1>0 DEF SameOutput, Inv, AnswerInv
  <2>2. QueueInv(n)'
    BY DEF Inv, QueueInv, Unanswered, Stopping, Message, Running, HeartbeatEnds, End, inVars,
       taskVars, outVars, runVars
  <2> QED
    BY <2>1, <2>2 DEF AnswerInv
<1> QED
  BY <1>1, <1>2, <1>3, <1>4, <1>5, <1>6, <1>7 DEF Inv

\* run() takes the lock for its error event.
LEMMA ErrorBeginsKeeps == Inv /\ ErrorBegins => Inv'
<1> SUFFICES ASSUME Inv, ErrorBegins PROVE Inv'
  OBVIOUS
<1> USE NoneDiffers, TodoShape
<1>0. SameOutput
  BY Unread DEF ErrorBegins, LockFree, ReportsError, outVars, runVars
<1>1. TypeOK'
  BY DEF Inv, TypeOK, Senders, Events, Types, ErrorBegins, LockFree, ReportsError, inVars,
     taskVars, asrVars, outVars, runVars
<1>2. PhaseInv'
  BY <1>0 DEF SameOutput, Inv, PhaseInv, Running, ErrorBegins, LockFree, ReportsError, outVars,
     runVars
<1>3. LockInv'
  BY DEF SameOutput, Inv, TypeOK, LockInv, EventIn, ErrorBegins, LockFree, ReportsError, taskVars,
     outVars, runVars
<1>4. SequenceInv'
  BY <1>0 DEF SameOutput, Inv, TypeOK, SequenceInv, EventIn, ErrorBegins, LockFree, ReportsError,
     outVars, runVars
<1>5. StopInv'
  BY <1>0 DEF SameOutput, Inv, StopInv, Message, Stopping, Running, ErrorBegins, LockFree,
     ReportsError, inVars, taskVars, asrVars, outVars, runVars
<1>6. CloseInv'
  BY <1>0 DEF SameOutput, Inv, CloseInv, EventIn, ErrorBegins, LockFree, ReportsError, outVars,
     runVars
<1>7. AnswerInv'
  <2> PICK n \in Nat : AnsweredUpTo(n) /\ QueueInv(n)
    BY DEF Inv, AnswerInv
  <2>1. AnsweredUpTo(n)' /\ AnsweredInOrder'
    BY <1>0 DEF SameOutput, Inv, AnswerInv
  <2>2. QueueInv(n)'
    BY DEF Inv, QueueInv, Unanswered, Stopping, Message, Running, ErrorBegins, LockFree,
       ReportsError, inVars, taskVars, outVars, runVars
  <2> QED
    BY <2>1, <2>2 DEF AnswerInv
<1> QED
  BY <1>1, <1>2, <1>3, <1>4, <1>5, <1>6, <1>7 DEF Inv

\* run() finds the connection closed.
LEMMA ErrorSkippedKeeps == Inv /\ ErrorSkipped => Inv'
<1> SUFFICES ASSUME Inv, ErrorSkipped PROVE Inv'
  OBVIOUS
<1>0. SameOutput
  BY Unread DEF ErrorSkipped, LockFree, ReportsError, outVars, runVars
<1>1. TypeOK'
  BY DEF Inv, TypeOK, ErrorSkipped, LockFree, ReportsError, inVars, taskVars, asrVars, outVars,
     runVars
<1>2. PhaseInv'
  BY <1>0 DEF SameOutput, Inv, PhaseInv, Running, ErrorSkipped, LockFree, ReportsError, outVars,
     runVars
<1>3. LockInv'
  BY NoneDiffers DEF SameOutput, Inv, Nobody, LockInv, EventIn, ErrorSkipped, LockFree,
     ReportsError, taskVars, outVars, runVars
<1>4. SequenceInv'
  BY <1>0 DEF SameOutput, Inv, SequenceInv, EventIn, Running, ErrorSkipped, LockFree,
     ReportsError, outVars, runVars
<1>5. StopInv'
  BY <1>0 DEF SameOutput, Inv, StopInv, Message, Stopping, Running, ErrorSkipped, LockFree,
     ReportsError, inVars, taskVars, asrVars, outVars, runVars
<1>6. CloseInv'
  BY <1>0 DEF SameOutput, Inv, CloseInv, EventIn, ErrorSkipped, LockFree, ReportsError, outVars,
     runVars
<1>7. AnswerInv'
  <2> PICK n \in Nat : AnsweredUpTo(n) /\ QueueInv(n)
    BY DEF Inv, AnswerInv
  <2>1. AnsweredUpTo(n)' /\ AnsweredInOrder'
    BY <1>0 DEF SameOutput, Inv, AnswerInv
  <2>2. QueueInv(n)'
    BY DEF Inv, QueueInv, Unanswered, Stopping, Message, Running, ErrorSkipped, LockFree,
       ReportsError, inVars, taskVars, outVars, runVars
  <2> QED
    BY <2>1, <2>2 DEF AnswerInv
<1> QED
  BY <1>1, <1>2, <1>3, <1>4, <1>5, <1>6, <1>7 DEF Inv

\* The session is removed.
LEMMA CleanupKeeps == Inv /\ Cleanup => Inv'
<1> SUFFICES ASSUME Inv, Cleanup PROVE Inv'
  OBVIOUS
<1>0. SameOutput
  BY Unread DEF Cleanup, outVars, runVars
<1>1. TypeOK'
  BY DEF Inv, TypeOK, Cleanup, inVars, taskVars, asrVars, outVars, runVars
<1>2. PhaseInv'
  BY <1>0 DEF SameOutput, Inv, PhaseInv, Running, Cleanup, outVars, runVars
<1>3. LockInv'
  BY DEF Inv, LockInv, EventIn, Running, LastEvent, Cleanup, taskVars, outVars, runVars
<1>4. SequenceInv'
  BY <1>0 DEF SameOutput, Inv, SequenceInv, EventIn, Running, Cleanup, outVars, runVars
<1>5. StopInv'
  BY <1>0 DEF SameOutput, Inv, StopInv, Message, Stopping, Running, Cleanup, inVars, taskVars,
     asrVars, outVars, runVars
<1>6. CloseInv'
  BY <1>0 DEF SameOutput, Inv, CloseInv, EventIn, Cleanup, outVars, runVars
<1>7. AnswerInv'
  <2> PICK n \in Nat : AnsweredUpTo(n) /\ QueueInv(n)
    BY DEF Inv, AnswerInv
  <2>1. AnsweredUpTo(n)' /\ AnsweredInOrder'
    BY <1>0 DEF SameOutput, Inv, AnswerInv
  <2>2. QueueInv(n)'
    BY DEF Inv, QueueInv, Unanswered, Stopping, Message, Running, Cleanup, inVars, taskVars,
       outVars, runVars
  <2> QED
    BY <2>1, <2>2 DEF AnswerInv
<1> QED
  BY <1>1, <1>2, <1>3, <1>4, <1>5, <1>6, <1>7 DEF Inv

\* The server begins to shut down.
LEMMA ShutdownBeginsKeeps == Inv /\ ShutdownBegins => Inv'
<1> SUFFICES ASSUME Inv, ShutdownBegins PROVE Inv'
  OBVIOUS
<1>0. SameOutput
  BY Unread DEF ShutdownBegins, outVars, runVars
<1>1. TypeOK'
  BY DEF Inv, TypeOK, ShutdownBegins, inVars, taskVars, asrVars, outVars, runVars
<1>2. PhaseInv'
  BY <1>0 DEF SameOutput, Inv, PhaseInv, Running, ShutdownBegins, inVars, taskVars, asrVars,
     outVars, runVars
<1>3. LockInv'
  BY DEF Inv, LockInv, EventIn, Running, LastEvent, ShutdownBegins, taskVars, outVars, runVars
<1>4. SequenceInv'
  BY <1>0 DEF SameOutput, Inv, SequenceInv, EventIn, Running, ShutdownBegins, outVars, runVars
<1>5. StopInv'
  BY <1>0 DEF SameOutput, Inv, StopInv, Message, Stopping, Running, ShutdownBegins, inVars,
     taskVars, asrVars, outVars, runVars
<1>6. CloseInv'
  BY <1>0 DEF SameOutput, Inv, CloseInv, EventIn, ShutdownBegins, outVars, runVars
<1>7. AnswerInv'
  <2> PICK n \in Nat : AnsweredUpTo(n) /\ QueueInv(n)
    BY DEF Inv, AnswerInv
  <2>1. AnsweredUpTo(n)' /\ AnsweredInOrder'
    BY <1>0 DEF SameOutput, Inv, AnswerInv
  <2>2. QueueInv(n)'
    BY DEF Inv, QueueInv, Unanswered, Stopping, Message, Running, ShutdownBegins, inVars,
       taskVars, asrVars, outVars, runVars
  <2> QED
    BY <2>1, <2>2 DEF AnswerInv
<1> QED
  BY <1>1, <1>2, <1>3, <1>4, <1>5, <1>6, <1>7 DEF Inv

\* The shutdown takes the lock to close the connection.
LEMMA ShutdownClosesKeeps == Inv /\ ShutdownCloses => Inv'
<1> SUFFICES ASSUME Inv, ShutdownCloses PROVE Inv'
  OBVIOUS
<1>0. SameOutput
  BY Unread DEF ShutdownCloses, BeginClose, LockFree, outVars, runVars
<1>1. TypeOK'
  BY NoneDiffers DEF Inv, TypeOK, Senders, Closes, ShutdownCloses, BeginClose, LockFree, inVars,
     taskVars, asrVars, outVars, runVars
<1>2. PhaseInv'
  BY <1>0 DEF SameOutput, Inv, PhaseInv, Running, ShutdownCloses, BeginClose, LockFree, outVars,
     runVars
<1>3. LockInv'
  BY DEF Inv, LockInv, EventIn, Running, LastEvent, ShutdownCloses, BeginClose, LockFree,
     taskVars, outVars, runVars
<1>4. SequenceInv'
  BY <1>0 DEF SameOutput, Inv, SequenceInv, EventIn, Running, ShutdownCloses, BeginClose,
     LockFree, outVars, runVars
<1>5. StopInv'
  BY <1>0 DEF SameOutput, Inv, StopInv, Message, Stopping, Running, ShutdownCloses, BeginClose,
     LockFree, inVars, taskVars, asrVars, outVars, runVars
<1>6. CloseInv'
  BY <1>0 DEF SameOutput, Inv, CloseInv, EventIn, ShutdownCloses, BeginClose, LockFree, outVars,
     runVars
<1>7. AnswerInv'
  <2> PICK n \in Nat : AnsweredUpTo(n) /\ QueueInv(n)
    BY DEF Inv, AnswerInv
  <2>1. AnsweredUpTo(n)' /\ AnsweredInOrder'
    BY <1>0 DEF SameOutput, Inv, AnswerInv
  <2>2. QueueInv(n)'
    BY DEF Inv, QueueInv, Unanswered, Stopping, Message, Running, ShutdownCloses, BeginClose,
       LockFree, inVars, taskVars, outVars, runVars
  <2> QED
    BY <2>1, <2>2 DEF AnswerInv
<1> QED
  BY <1>1, <1>2, <1>3, <1>4, <1>5, <1>6, <1>7 DEF Inv

\* The cancelled connection has ended.
LEMMA ConnectionEndedKeeps == Inv /\ ConnectionEnded => Inv'
<1> SUFFICES ASSUME Inv, ConnectionEnded PROVE Inv'
  OBVIOUS
<1>0. SameOutput
  BY Unread DEF ConnectionEnded, outVars, runVars
<1>1. TypeOK'
  BY DEF Inv, TypeOK, ConnectionEnded, inVars, taskVars, asrVars, outVars, runVars
<1>2. PhaseInv'
  BY <1>0 DEF SameOutput, Inv, PhaseInv, Running, ConnectionEnded, outVars, runVars
<1>3. LockInv'
  BY DEF Inv, LockInv, EventIn, Running, LastEvent, ConnectionEnded, taskVars, outVars, runVars
<1>4. SequenceInv'
  BY <1>0 DEF SameOutput, Inv, SequenceInv, EventIn, Running, ConnectionEnded, outVars, runVars
<1>5. StopInv'
  BY <1>0 DEF SameOutput, Inv, StopInv, Message, Stopping, Running, ConnectionEnded, inVars,
     taskVars, asrVars, outVars, runVars
<1>6. CloseInv'
  BY <1>0 DEF SameOutput, Inv, CloseInv, EventIn, ConnectionEnded, outVars, runVars
<1>7. AnswerInv'
  <2> PICK n \in Nat : AnsweredUpTo(n) /\ QueueInv(n)
    BY DEF Inv, AnswerInv
  <2>1. AnsweredUpTo(n)' /\ AnsweredInOrder'
    BY <1>0 DEF SameOutput, Inv, AnswerInv
  <2>2. QueueInv(n)'
    BY DEF Inv, QueueInv, Unanswered, Stopping, Message, Running, ConnectionEnded, inVars,
       taskVars, outVars, runVars
  <2> QED
    BY <2>1, <2>2 DEF AnswerInv
<1> QED
  BY <1>1, <1>2, <1>3, <1>4, <1>5, <1>6, <1>7 DEF Inv

\* The sessions are closed.
LEMMA CloseAllKeeps == Inv /\ CloseAll => Inv'
<1> SUFFICES ASSUME Inv, CloseAll PROVE Inv'
  OBVIOUS
<1>0. SameOutput
  BY Unread DEF CloseAll, outVars, runVars
<1>1. TypeOK'
  BY DEF Inv, TypeOK, CloseAll, inVars, taskVars, asrVars, outVars, runVars
<1>2. PhaseInv'
  BY <1>0 DEF SameOutput, Inv, PhaseInv, Running, CloseAll, inVars, taskVars, asrVars, outVars,
     runVars
<1>3. LockInv'
  BY DEF Inv, LockInv, EventIn, Running, LastEvent, CloseAll, taskVars, outVars, runVars
<1>4. SequenceInv'
  BY <1>0 DEF SameOutput, Inv, SequenceInv, EventIn, Running, CloseAll, outVars, runVars
<1>5. StopInv'
  BY <1>0, NoneDiffers DEF SameOutput, Inv, StopInv, PhaseInv, Running, CloseAll, inVars,
     taskVars, asrVars, outVars, runVars
<1>6. CloseInv'
  BY <1>0 DEF SameOutput, Inv, CloseInv, EventIn, CloseAll, outVars, runVars
<1>7. AnswerInv'
  <2> PICK n \in Nat : AnsweredUpTo(n) /\ QueueInv(n)
    BY DEF Inv, AnswerInv
  <2>1. AnsweredUpTo(n)' /\ AnsweredInOrder'
    BY <1>0 DEF SameOutput, Inv, AnswerInv
  <2>2. QueueInv(n)'
    BY NoneDiffers DEF Inv, QueueInv, Unanswered, PhaseInv, Running, CloseAll, inVars, taskVars,
       outVars, runVars
  <2> QED
    BY <2>1, <2>2 DEF AnswerInv
<1> QED
  BY <1>1, <1>2, <1>3, <1>4, <1>5, <1>6, <1>7 DEF Inv

-----------------------------------------------------------------------------
(* What reaches the client *)

\* An event has been added to what the client received.
NewOutput ==
  /\ WireOrdered' /\ AnsweredInOrder' /\ LastWords'
  /\ wire' \in Seq(Events)
  /\ NextSeq' = sequence
  /\ \A type : OnWire(type)' <=> (OnWire(type) \/ lock.event.type = type)
  /\ \A n \in Nat : AnsweredUpTo(n) /\ QueueInv(n) =>
       IF lock.event.last THEN AnsweredUpTo(n + 1)' ELSE AnsweredUpTo(n)'

\* The number the client expects is a number.
LEMMA NextSeqNat == wire \in Seq(Events) => NextSeq \in Nat
<1> SUFFICES ASSUME wire \in Seq(Events) PROVE NextSeq \in Nat
  OBVIOUS
<1>1. CASE wire = <<>>
  BY <1>1 DEF NextSeq
<1>2. CASE wire # <<>>
  <2>1. wire[Len(wire)] \in Events
    BY <1>2
  <2> QED
    BY <1>2, <2>1 DEF NextSeq, Events
<1> QED
  BY <1>1, <1>2

\* The event on its way is the next one the client may receive.
LEMMA EventArrives ==
  Inv /\ EventIn /\ wire' = Append(wire, lock.event) => NewOutput
<1> SUFFICES ASSUME Inv, EventIn, wire' = Append(wire, lock.event)
             PROVE  NewOutput
  OBVIOUS
<1>a. /\ lock.event \in Events /\ lock.by \in Senders
      /\ wire \in Seq(Events) /\ Len(wire) \in Nat /\ sequence \in Nat
  BY EventTyped DEF Inv, TypeOK
<1>b. /\ wire' \in Seq(Events) /\ Len(wire') = Len(wire) + 1 /\ wire' # <<>>
      /\ \A i \in 1..Len(wire) : wire'[i] = wire[i]
      /\ wire'[Len(wire) + 1] = lock.event
  BY <1>a
<1>c. /\ ~closed /\ lock.event.seq = sequence - 1 /\ ~OnWire("error") /\ NextSeq <= sequence - 1
  BY DEF Inv, LockInv, SequenceInv
<1>d. \/ lock.by = "run" /\ lock.event.type = "error" /\ ~lock.event.last
      \/ lock.by = "heartbeat" /\ Running /\ lock.event.type = "heartbeat" /\ ~lock.event.last
      \/ /\ lock.by = "consumer" /\ Running /\ consumer.pc = "send" /\ consumer.todo # <<>>
         /\ lock.event.msg = consumer.msg
  BY <1>a DEF Inv, LockInv, Senders
<1>e. NextSeq = lock.event.seq \/ lock.event.type = "error"
  BY <1>c, <1>d DEF Inv, SequenceInv, Running
<1>f. NextSeq \in Nat
  BY <1>a, NextSeqNat
<1>1. NextSeq' = sequence
  BY <1>a, <1>b, <1>c DEF NextSeq
<1>2. \A type : OnWire(type)' <=> (OnWire(type) \/ lock.event.type = type)
  <2> SUFFICES ASSUME NEW type
               PROVE  OnWire(type)' <=> (OnWire(type) \/ lock.event.type = type)
    OBVIOUS
  <2>1. ASSUME NEW i \in 1..Len(wire'), wire'[i].type = type
        PROVE  OnWire(type) \/ lock.event.type = type
    <3>1. CASE i \in 1..Len(wire)
      BY <1>b, <2>1, <3>1 DEF OnWire
    <3>2. CASE i = Len(wire) + 1
      BY <1>b, <2>1, <3>2
    <3> QED
      BY <1>a, <1>b, <2>1, <3>1, <3>2
  <2>2. ASSUME NEW i \in 1..Len(wire), wire[i].type = type
        PROVE  OnWire(type)'
    <3>1. i \in 1..Len(wire') /\ wire'[i].type = type
      BY <1>a, <1>b, <2>2
    <3> QED
      BY <3>1 DEF OnWire
  <2>3. lock.event.type = type => OnWire(type)'
    <3>1. Len(wire) + 1 \in 1..Len(wire')
      BY <1>a, <1>b
    <3> QED
      BY <1>b, <3>1 DEF OnWire
  <2> QED
    BY <2>1, <2>2, <2>3 DEF OnWire
<1>3. WireOrdered'
  <2> SUFFICES ASSUME NEW i \in 1..Len(wire')
               PROVE  LET before == IF i = 1 THEN 0 ELSE wire'[i-1].seq + 1
                      IN  /\ wire'[i].seq >= before
                          /\ wire'[i].seq # before => wire'[i].type = "error" /\ i = Len(wire')
    BY DEF WireOrdered
  <2>1. CASE i \in 1..Len(wire)
    <3>1. wire'[i] = wire[i] /\ (i # 1 => wire'[i-1] = wire[i-1])
      BY <1>a, <1>b, <2>1
    <3>2. wire[i].type # "error"
      BY <1>c, <2>1 DEF OnWire
    <3> QED
      BY <2>1, <3>1, <3>2 DEF Inv, SequenceInv, WireOrdered
  <2>2. CASE i = Len(wire) + 1
    <3>1. NextSeq = IF i = 1 THEN 0 ELSE wire'[i-1].seq + 1
      BY <1>a, <1>b, <2>2 DEF NextSeq
    <3> QED
      BY <1>a, <1>b, <1>c, <1>e, <1>f, <2>2, <3>1
  <2> QED
    BY <1>a, <1>b, <2>1, <2>2
<1>4. OnWire("stopped") => lock.event.type \in {"heartbeat", "error"}
  BY <1>d DEF Inv, StopInv
<1>5. LastWords'
  <2> SUFFICES ASSUME NEW i \in 1..Len(wire'), NEW j \in 1..Len(wire'), i < j
               PROVE  /\ wire'[i].type # "error"
                      /\ wire'[i].type = "stopped" => wire'[j].type \in {"heartbeat", "error"}
    BY DEF LastWords
  <2>1. i \in 1..Len(wire) /\ wire'[i] = wire[i]
    BY <1>a, <1>b
  <2>2. CASE j \in 1..Len(wire)
    BY <1>b, <2>1, <2>2 DEF Inv, CloseInv, LastWords
  <2>3. CASE j = Len(wire) + 1
    BY <1>b, <1>c, <1>4, <2>1, <2>3 DEF OnWire
  <2> QED
    BY <1>a, <1>b, <2>2, <2>3
<1>6. ASSUME NEW n \in Nat, AnsweredUpTo(n), QueueInv(n), lock.event.last
      PROVE  lock.event.msg = n + 1
  <2>1. /\ Running /\ consumer.pc = "send" /\ consumer.todo # <<>> /\ lock.event.msg = consumer.msg
    BY <1>d, <1>6
  <2> QED
    BY <1>c, <1>6, <2>1 DEF QueueInv, Unanswered, Running
<1>7. ASSUME NEW n \in Nat, AnsweredUpTo(n), QueueInv(n)
      PROVE  IF lock.event.last THEN AnsweredUpTo(n + 1)' ELSE AnsweredUpTo(n)'
  <2>1. ASSUME NEW m \in 1..n
        PROVE  \E i \in 1..Len(wire') : wire'[i].last /\ wire'[i].msg = m
    <3> PICK i \in 1..Len(wire) : wire[i].last /\ wire[i].msg = m
      BY <1>7 DEF AnsweredUpTo
    <3> QED
      BY <1>a, <1>b
  <2>2. ASSUME NEW i \in 1..Len(wire'), wire'[i].last
        PROVE  wire'[i].msg \in 1..n \/ (lock.event.last /\ i = Len(wire) + 1 /\ wire'[i].msg = n + 1)
    <3>1. CASE i \in 1..Len(wire)
      BY <1>b, <1>7, <2>2, <3>1 DEF AnsweredUpTo
    <3>2. CASE i = Len(wire) + 1
      BY <1>b, <1>6, <1>7, <2>2, <3>2
    <3> QED
      BY <1>a, <1>b, <3>1, <3>2
  <2>3. CASE lock.event.last
    <3>1. Len(wire) + 1 \in 1..Len(wire') /\ wire'[Len(wire) + 1].last /\ wire'[Len(wire) + 1].msg = n + 1
      BY <1>a, <1>b, <1>6, <1>7, <2>3
    <3>2. \A m \in 1..n + 1 : \E i \in 1..Len(wire') : wire'[i].last /\ wire'[i].msg = m
      <4> SUFFICES ASSUME NEW m \in 1..n + 1
                   PROVE  \E i \in 1..Len(wire') : wire'[i].last /\ wire'[i].msg = m
        OBVIOUS
      <4>1. CASE m \in 1..n
        BY <2>1, <4>1
      <4>2. CASE m = n + 1
        BY <3>1, <4>2
      <4> QED
        BY <4>1, <4>2
    <3>3. \A i \in 1..Len(wire') : wire'[i].last => wire'[i].msg \in 1..n + 1
      BY <2>2
    <3> QED
      BY <2>3, <3>2, <3>3 DEF AnsweredUpTo
  <2>4. CASE ~lock.event.last
    BY <2>1, <2>2, <2>4 DEF AnsweredUpTo
  <2> QED
    BY <2>3, <2>4
<1>8. AnsweredInOrder'
  <2> PICK n \in Nat : AnsweredUpTo(n) /\ QueueInv(n)
    BY DEF Inv, AnswerInv
  <2> SUFFICES ASSUME NEW j \in 1..Len(wire'), wire'[j].last
               PROVE  /\ \A m \in 1..wire'[j].msg - 1 : \E i \in 1..j - 1 : wire'[i].last /\ wire'[i].msg = m
                      /\ \A i \in 1..j - 1 : wire'[i].last => wire'[i].msg < wire'[j].msg
    BY DEF AnsweredInOrder
  <2>1. CASE j \in 1..Len(wire)
    <3>1. wire'[j] = wire[j] /\ \A i \in 1..j - 1 : wire'[i] = wire[i]
      BY <1>a, <1>b, <2>1
    <3> QED
      BY <2>1, <3>1 DEF Inv, AnswerInv, AnsweredInOrder
  <2>2. CASE j = Len(wire) + 1
    <3>1. wire'[j].msg = n + 1 /\ j - 1 = Len(wire)
      BY <1>a, <1>b, <1>6, <2>2
    <3> QED
      BY <1>b, <3>1 DEF AnsweredUpTo
  <2> QED
    BY <1>a, <1>b, <2>1, <2>2
<1> QED
  BY <1>1, <1>2, <1>3, <1>5, <1>7, <1>8, <1>b DEF NewOutput

\* What was being sent has arrived, or it is lost.
Received ==
  /\ WireOrdered' /\ AnsweredInOrder' /\ LastWords'
  /\ wire' \in Seq(Events)
  /\ NextSeq' <= sequence
  /\ OnWire("stopped") => OnWire("stopped")'
  /\ OnWire("error")' => OnWire("error") \/ (EventIn /\ lock.by = "run" /\ lock.event.type = "error")
  /\ code' = code \/ (lock # Nobody /\ ~EventIn /\ code' = lock.event.name)
  /\ code' = "NORMAL" => OnWire("stopped")'
  /\ \E n \in Nat : AnsweredUpTo(n)'

\* Whatever becomes of a send, what was received is in order.
LEMMA SendOver ==
  Inv /\ ((lock # Nobody /\ Arrives) \/ UNCHANGED <<wire, code>>) => Received
<1> SUFFICES ASSUME Inv, (lock # Nobody /\ Arrives) \/ UNCHANGED <<wire, code>>
             PROVE  Received
  OBVIOUS
<1> PICK n \in Nat : AnsweredUpTo(n) /\ QueueInv(n)
  BY DEF Inv, AnswerInv
<1>1. CASE wire' = wire /\ (code' = code \/ (lock # Nobody /\ ~EventIn /\ code' = lock.event.name))
  <2>1. SameOutput
    BY <1>1, Unread
  <2>2. sequence \in Nat /\ NextSeq <= sequence
    <3>1. sequence \in Nat /\ wire \in Seq(Events)
      BY DEF Inv, TypeOK
    <3>2. NextSeq \in Nat
      BY <3>1, NextSeqNat
    <3> QED
      BY <3>1, <3>2 DEF Inv, SequenceInv
  <2>3. wire' \in Seq(Events)
    BY <1>1 DEF Inv, TypeOK
  <2>4. code' = "NORMAL" => OnWire("stopped")'
    BY <1>1, <2>1 DEF SameOutput, Inv, CloseInv
  <2> QED
    BY <1>1, <2>1, <2>2, <2>3, <2>4 DEF SameOutput, Received, Inv, SequenceInv, CloseInv, AnswerInv
<1>2. CASE EventIn /\ wire' = Append(wire, lock.event) /\ code' = code
  <2>1. NewOutput
    BY <1>2, EventArrives
  <2>2. lock.event.type = "error" => lock.by = "run"
    <3>1. lock.by \in Senders
      BY <1>2, EventTyped DEF Inv
    <3>2. lock.by = "consumer" => Head(consumer.todo) # "error" /\ lock.event.type = Head(consumer.todo)
      <4> SUFFICES ASSUME lock.by = "consumer"
                   PROVE  Head(consumer.todo) # "error" /\ lock.event.type = Head(consumer.todo)
        OBVIOUS
      <4>1. consumer.todo # <<>> /\ lock.event.type = Head(consumer.todo)
        BY <1>2 DEF Inv, LockInv
      <4> QED
        BY <4>1, TodoShape DEF Inv, TypeOK
    <3> QED
      BY <1>2, <3>1, <3>2 DEF Inv, LockInv, Senders
  <2>3. \E k \in Nat : AnsweredUpTo(k)'
    <3>1. n + 1 \in Nat
      OBVIOUS
    <3>2. CASE lock.event.last
      BY <2>1, <3>1, <3>2 DEF NewOutput
    <3>3. CASE ~lock.event.last
      BY <2>1, <3>3 DEF NewOutput
    <3> QED
      BY <3>2, <3>3
  <2>4. sequence \in Nat
    BY DEF Inv, TypeOK
  <2>5. NextSeq' <= sequence
    BY <2>1, <2>4 DEF NewOutput
  <2> QED
    BY <1>2, <2>1, <2>2, <2>3, <2>5 DEF NewOutput, Received, Inv, CloseInv
<1> QED
  BY <1>1, <1>2 DEF Arrives, EventIn

-----------------------------------------------------------------------------
(* The steps of a call, and the ends of sends *)

\* The call of a command returns with the events to send, or raises.
LEMMA CalledKeeps == Inv /\ Called => Inv'
<1> SUFFICES ASSUME Inv, Called PROVE Inv'
  OBVIOUS
<1> USE NoneDiffers, TodoShape
<1>a. /\ Running /\ consumer.pc = "call" /\ UNCHANGED <<inVars, receive, beat, outVars, runVars>>
      /\ consumer \in [pc : Places, msg : Nat, todo : Plain \cup OfStop]
      /\ outcome \in [Tasks -> Reasons \cup {"quiet", None}]
      /\ started \in BOOLEAN
      /\ Message(consumer.msg).kind # "start" => started
  BY DEF Called, Inv, TypeOK, StopInv
<1>b. \/ Fails("CALL_FAILED") /\ started' = started
      \/ /\ \/ \E e \in Plain \ {<<>>} : ~Stopping /\ Returns(Message(consumer.msg), e)
            \/ \E e \in Revisions : Stopping /\ Returns(Message(consumer.msg), e)
  <2> DEFINE m == Message(consumer.msg)
  <2>1. /\ <<"started">> \in Plain \ {<<>>} /\ <<"started", "hotwords">> \in Plain \ {<<>>}
        /\ <<"hotwords">> \in Plain \ {<<>>} /\ <<"reset">> \in Plain \ {<<>>}
        /\ \A r \in Revisions : Append(r, "ack") \in Plain \ {<<>>} /\ Append(r, "flushed") \in Plain \ {<<>>}
    <3>1. /\ Append(<<>>, "ack") = <<"ack">> /\ Append(<<"revision">>, "ack") = <<"revision", "ack">>
          /\ Append(<<>>, "flushed") = <<"flushed">>
          /\ Append(<<"revision">>, "flushed") = <<"revision", "flushed">>
      <4>1. "revision" \in Types /\ "ack" \in Types /\ "flushed" \in Types
        BY DEF Types
      <4>2. \A a, b \in Types : Append(<<>>, b) = <<b>> /\ Append(<<a>>, b) = <<a, b>>
        BY Appended
      <4> QED
        BY <4>1, <4>2
    <3>2. /\ <<"started">> # <<>> /\ <<"started", "hotwords">> # <<>> /\ <<"hotwords">> # <<>>
          /\ <<"reset">> # <<>> /\ <<"ack">> # <<>> /\ <<"revision", "ack">> # <<>>
          /\ <<"flushed">> # <<>> /\ <<"revision", "flushed">> # <<>>
      OBVIOUS
    <3> QED
      BY <3>1, <3>2 DEF Plain, Revisions
  <2>2. CASE Fails("CALL_FAILED") /\ UNCHANGED asrVars
    BY <2>2 DEF asrVars
  <2>3. CASE m.kind = "start" /\ (Returns(m, <<"started">>) \/ Returns(m, <<"started", "hotwords">>))
    BY <2>1, <2>3 DEF Stopping
  <2>4. CASE m.kind = "hotwords" /\ Returns(m, <<"hotwords">>)
    BY <2>1, <2>4 DEF Stopping
  <2>5. CASE m.kind = "audio" /\ \E r \in Revisions : Returns(m, Append(r, "ack"))
    BY <2>1, <2>5 DEF Stopping
  <2>6. CASE m.kind = "flush" /\ \E r \in Revisions : Returns(m, Append(r, "flushed"))
    BY <2>1, <2>6 DEF Stopping
  <2>7. CASE m.kind = "reset" /\ Returns(m, <<"reset">>)
    BY <2>1, <2>7 DEF Stopping
  <2>8. CASE m.kind = "stop" /\ \E r \in Revisions : Returns(m, r)
    BY <2>8 DEF Stopping
  <2> HIDE DEF m
  <2>9. \/ Fails("CALL_FAILED") /\ UNCHANGED asrVars
        \/ m.kind = "start" /\ (Returns(m, <<"started">>) \/ Returns(m, <<"started", "hotwords">>))
        \/ m.kind = "hotwords" /\ Returns(m, <<"hotwords">>)
        \/ m.kind = "audio" /\ \E r \in Revisions : Returns(m, Append(r, "ack"))
        \/ m.kind = "flush" /\ \E r \in Revisions : Returns(m, Append(r, "flushed"))
        \/ m.kind = "reset" /\ Returns(m, <<"reset">>)
        \/ m.kind = "stop" /\ \E r \in Revisions : Returns(m, r)
    BY DEF Called, m
  <2> QED
    BY <2>2, <2>3, <2>4, <2>5, <2>6, <2>7, <2>8, <2>9
<1>c. /\ consumer' \in [pc : Places, msg : Nat, todo : Plain \cup OfStop]
      /\ consumer'.pc \in {"send", "ended"} /\ consumer'.msg = consumer.msg
      /\ outcome' \in [Tasks -> Reasons \cup {"quiet", None}]
      /\ started' \in BOOLEAN
      /\ consumer'.pc = "send" => started'
      /\ consumer'.pc = "send" /\ ~Stopping => consumer'.todo \in Plain \ {<<>>}
      /\ consumer'.pc = "send" /\ Stopping => consumer'.todo \in {<<>>, <<"revision">>}
  <2>1. CASE Fails("CALL_FAILED") /\ started' = started
    BY <1>a, <2>1 DEF Fails, End, Places, Reasons
  <2>2. ASSUME NEW e \in Plain \cup OfStop, Returns(Message(consumer.msg), e),
               \/ ~Stopping /\ e \in Plain \ {<<>>}
               \/ Stopping /\ e \in {<<>>, <<"revision">>}
        PROVE  /\ consumer' \in [pc : Places, msg : Nat, todo : Plain \cup OfStop]
               /\ consumer'.pc \in {"send", "ended"} /\ consumer'.msg = consumer.msg
               /\ outcome' \in [Tasks -> Reasons \cup {"quiet", None}]
               /\ started' \in BOOLEAN
               /\ consumer'.pc = "send" => started'
               /\ consumer'.pc = "send" /\ ~Stopping => consumer'.todo \in Plain \ {<<>>}
               /\ consumer'.pc = "send" /\ Stopping => consumer'.todo \in {<<>>, <<"revision">>}
    <3>1. consumer' = [consumer EXCEPT !.pc = "send", !.todo = e] /\ outcome' = outcome
          /\ started' = (started \/ Message(consumer.msg).kind = "start")
      BY <2>2 DEF Returns
    <3>2. started' = TRUE
      BY <1>a, <3>1
    <3> QED
      BY <1>a, <2>2, <3>1, <3>2 DEF Places
  <2> QED
    <3>1. /\ Revisions = {<<>>, <<"revision">>} /\ Revisions \subseteq OfStop
      BY DEF Revisions, OfStop
    <3> QED
      BY <1>b, <2>1, <2>2, <3>1
<1>0. SameOutput
  BY Unread, <1>a DEF outVars
<1>1. TypeOK'
  BY <1>a, <1>c DEF Inv, TypeOK, inVars, outVars, runVars
<1>2. PhaseInv'
  BY <1>0, <1>a DEF SameOutput, Inv, PhaseInv, Running, outVars, runVars
<1>3. LockInv'
  BY <1>a DEF Inv, LockInv, EventIn, Running, outVars, runVars
<1>4. SequenceInv'
  BY <1>0, <1>a DEF SameOutput, Inv, SequenceInv, EventIn, outVars, runVars
<1>5. StopInv'
  <2>1. Stopping' <=> Stopping
    BY <1>a, <1>c DEF Stopping, Message, inVars
  <2>2. ~OnWire("stopped")'
    BY <1>0, <1>a DEF SameOutput, Inv, StopInv
  <2> QED
    BY <1>c, <2>1, <2>2 DEF StopInv, OfStop
<1>6. CloseInv'
  BY <1>0, <1>a DEF SameOutput, Inv, CloseInv, EventIn, outVars, runVars
<1>7. AnswerInv'
  <2> PICK n \in Nat : AnsweredUpTo(n) /\ QueueInv(n)
    BY DEF Inv, AnswerInv
  <2>1. AnsweredUpTo(n)' /\ AnsweredInOrder'
    BY <1>0 DEF SameOutput, Inv, AnswerInv
  <2>2. QueueInv(n)'
    <3>1. Unanswered /\ (consumer'.pc = "send" => Unanswered')
      <4>1. Stopping' <=> Stopping
        BY <1>a, <1>c DEF Stopping, Message, inVars
      <4> QED
        BY <1>a, <1>c, <4>1 DEF Unanswered
    <3> QED
      BY <1>a, <1>c, <3>1 DEF QueueInv, Running, inVars, outVars, runVars
  <2> QED
    BY <2>1, <2>2 DEF AnswerInv
<1> QED
  BY <1>1, <1>2, <1>3, <1>4, <1>5, <1>6, <1>7 DEF Inv

\* The close behind an error event is sent or fails.
LEMMA ErrorClosedKeeps == Inv /\ ErrorClosed => Inv'
<1> SUFFICES ASSUME Inv, ErrorClosed PROVE Inv'
  OBVIOUS
<1>0. SameOutput
  BY NoneDiffers, Unread DEF Inv, LockInv, EventIn, ErrorClosed, Arrives, Nobody, outVars, runVars
<1>1. TypeOK'
  BY DEF Inv, TypeOK, ErrorClosed, Arrives, Nobody, inVars, taskVars, asrVars, outVars, runVars
<1>2. PhaseInv'
  BY <1>0, NoneDiffers DEF SameOutput, Inv, PhaseInv, LockInv, Running, Nobody, ErrorClosed,
     Arrives, outVars, runVars
<1>3. LockInv'
  BY NoneDiffers DEF Inv, LockInv, EventIn, Running, LastEvent, ErrorClosed, Arrives, Nobody,
     taskVars, outVars, runVars
<1>4. SequenceInv'
  BY <1>0 DEF SameOutput, Inv, SequenceInv, EventIn, Running, ErrorClosed, Arrives, Nobody,
     outVars, runVars
<1>5. StopInv'
  BY <1>0 DEF SameOutput, Inv, StopInv, Message, Stopping, Running, ErrorClosed, Arrives, Nobody,
     inVars, taskVars, asrVars, outVars, runVars
<1>6. CloseInv'
  BY <1>0, NoneDiffers DEF SameOutput, Inv, CloseInv, LockInv, ErrorClosed, Arrives, Nobody,
     outVars, runVars
<1>7. AnswerInv'
  <2> PICK n \in Nat : AnsweredUpTo(n) /\ QueueInv(n)
    BY DEF Inv, AnswerInv
  <2>1. AnsweredUpTo(n)' /\ AnsweredInOrder'
    BY <1>0 DEF SameOutput, Inv, AnswerInv
  <2>2. QueueInv(n)'
    BY DEF Inv, QueueInv, Unanswered, Stopping, Message, Running, ErrorClosed, Arrives, Nobody,
       inVars, taskVars, outVars, runVars
  <2> QED
    BY <2>1, <2>2 DEF AnswerInv
<1> QED
  BY <1>1, <1>2, <1>3, <1>4, <1>5, <1>6, <1>7 DEF Inv

\* The close of the shutdown is sent, fails, or was not needed.
LEMMA ShutdownClosedKeeps == Inv /\ ShutdownClosed => Inv'
<1> SUFFICES ASSUME Inv, ShutdownClosed PROVE Inv'
  OBVIOUS
<1>0. SameOutput
  BY NoneDiffers, Unread DEF Inv, LockInv, EventIn, ShutdownClosed, Arrives, LockFree, Nobody,
     outVars, runVars
<1>1. TypeOK'
  BY NoneDiffers DEF Inv, TypeOK, LockInv, EventIn, ShutdownClosed, Arrives, LockFree, Nobody,
     inVars, taskVars, asrVars, outVars, runVars
<1>2. PhaseInv'
  BY <1>0, NoneDiffers DEF SameOutput, Inv, PhaseInv, LockInv, Nobody, ShutdownClosed, Arrives,
     LockFree, outVars, runVars
<1>3. LockInv'
  BY NoneDiffers DEF Inv, LockInv, EventIn, Running, LastEvent, ShutdownClosed, Arrives, LockFree,
     Nobody, taskVars, outVars, runVars
<1>4. SequenceInv'
  BY <1>0, NoneDiffers DEF SameOutput, Inv, SequenceInv, LockInv, EventIn, ShutdownClosed,
     Arrives, LockFree, outVars, runVars
<1>5. StopInv'
  BY <1>0 DEF SameOutput, Inv, StopInv, Message, Stopping, Running, ShutdownClosed, Arrives,
     LockFree, Nobody, inVars, taskVars, asrVars, outVars, runVars
<1>6. CloseInv'
  BY <1>0, NoneDiffers DEF SameOutput, Inv, CloseInv, EventIn, ShutdownClosed, Arrives, LockFree,
     Nobody, outVars, runVars
<1>7. AnswerInv'
  <2> PICK n \in Nat : AnsweredUpTo(n) /\ QueueInv(n)
    BY DEF Inv, AnswerInv
  <2>1. AnsweredUpTo(n)' /\ AnsweredInOrder'
    BY <1>0 DEF SameOutput, Inv, AnswerInv
  <2>2. QueueInv(n)'
    BY DEF Inv, QueueInv, Unanswered, Stopping, Message, Running, ShutdownClosed, Arrives,
       LockFree, Nobody, inVars, taskVars, asrVars, outVars, runVars
  <2> QED
    BY <2>1, <2>2 DEF AnswerInv
<1> QED
  BY <1>1, <1>2, <1>3, <1>4, <1>5, <1>6, <1>7 DEF Inv

\* The close of the shutdown is cut off.
LEMMA CloseTimeoutKeeps == Inv /\ CloseTimeout => Inv'
<1> SUFFICES ASSUME Inv, CloseTimeout PROVE Inv'
  OBVIOUS
<1>0. SameOutput
  BY NoneDiffers, Unread DEF Inv, LockInv, EventIn, CloseTimeout, Interrupted, Arrives, Nobody,
     outVars, runVars
<1>1. TypeOK'
  BY NoneDiffers DEF Inv, TypeOK, LockInv, EventIn, CloseTimeout, Interrupted, Arrives, Nobody,
     inVars, taskVars, asrVars, outVars, runVars
<1>2. PhaseInv'
  BY <1>0, NoneDiffers DEF SameOutput, Inv, PhaseInv, LockInv, Nobody, CloseTimeout, Interrupted,
     Arrives, outVars, runVars
<1>3. LockInv'
  BY NoneDiffers DEF Inv, LockInv, EventIn, Running, LastEvent, CloseTimeout, Interrupted,
     Arrives, Nobody, taskVars, outVars, runVars
<1>4. SequenceInv'
  BY <1>0, NoneDiffers DEF SameOutput, Inv, SequenceInv, LockInv, EventIn, CloseTimeout,
     Interrupted, Arrives, outVars, runVars
<1>5. StopInv'
  BY <1>0 DEF SameOutput, Inv, StopInv, Message, Stopping, Running, CloseTimeout, Interrupted,
     Arrives, Nobody, inVars, taskVars, asrVars, outVars, runVars
<1>6. CloseInv'
  BY <1>0, NoneDiffers DEF SameOutput, Inv, CloseInv, EventIn, CloseTimeout, Interrupted, Arrives,
     Nobody, outVars, runVars
<1>7. AnswerInv'
  <2> PICK n \in Nat : AnsweredUpTo(n) /\ QueueInv(n)
    BY DEF Inv, AnswerInv
  <2>1. AnsweredUpTo(n)' /\ AnsweredInOrder'
    BY <1>0 DEF SameOutput, Inv, AnswerInv
  <2>2. QueueInv(n)'
    BY DEF Inv, QueueInv, Unanswered, Stopping, Message, Running, CloseTimeout, Interrupted,
       Arrives, Nobody, inVars, taskVars, asrVars, outVars, runVars
  <2> QED
    BY <2>1, <2>2 DEF AnswerInv
<1> QED
  BY <1>1, <1>2, <1>3, <1>4, <1>5, <1>6, <1>7 DEF Inv

\* A send raises and the connection counts as closed.
LEMMA SendFailsKeeps == ASSUME NEW t \in {"consumer", "heartbeat"}, Inv, SendFails(t) PROVE Inv'
<1>0. SameOutput
  BY Unread DEF SendFails, Resumes, Nobody, outVars, runVars
<1>1. TypeOK'
  <2>1. /\ consumer' \in [pc : Places, msg : Nat, todo : Plain \cup OfStop]
        /\ consumer'.pc \notin {"get", "ended"} => consumer' = consumer
        /\ outcome' \in [Tasks -> Reasons \cup {"quiet", None}]
    <3>0. /\ consumer \in [pc : Places, msg : Nat, todo : Plain \cup OfStop]
          /\ outcome \in [Tasks -> Reasons \cup {"quiet", None}]
      BY DEF Inv, TypeOK
    <3>1. CASE Fails("quiet")
      BY <3>0, <3>1 DEF Fails, End, Places
    <3>2. CASE consumer' = consumer /\ (outcome' = outcome \/ End("heartbeat", "quiet"))
      BY <3>0, <3>2 DEF End
    <3>3. lock.event.type = "close" => t = "consumer" /\ consumer.pc = "close"
      BY DEF SendFails, Inv, LockInv, EventIn
    <3> QED
      BY <3>1, <3>2, <3>3 DEF SendFails, Resumes
  <2>2. UNCHANGED <<inVars, receive, started, sequence, wire, failure, phase, server>>
        /\ lock' = Nobody /\ closed' = TRUE
    BY DEF SendFails, asrVars, runVars
  <2> QED
    BY <2>1, <2>2 DEF Inv, TypeOK, inVars
<1>2. PhaseInv'
  BY <1>0 DEF SameOutput, Inv, PhaseInv, Running, SendFails, Resumes, Nobody, outVars, runVars
<1>3. LockInv'
  BY NoneDiffers DEF Inv, LockInv, EventIn, Running, LastEvent, SendFails, Resumes, Fails, Nobody,
     taskVars, outVars, runVars
<1>4. SequenceInv'
  BY <1>0, NoneDiffers DEF SameOutput, Inv, TypeOK, SequenceInv, LockInv, EventIn, Running,
     SendFails, Resumes, outVars, runVars
<1>5. StopInv'
  BY <1>0, NoneDiffers DEF SameOutput, Inv, TypeOK, StopInv, Message, Stopping, LockInv, EventIn,
     SendFails, End, Resumes, Fails, inVars, taskVars, asrVars, outVars, runVars
<1>6. CloseInv'
  BY <1>0 DEF SameOutput, Inv, CloseInv, EventIn, SendFails, Resumes, Nobody, outVars, runVars
<1>7. AnswerInv'
  <2> PICK n \in Nat : AnsweredUpTo(n) /\ QueueInv(n)
    BY DEF Inv, AnswerInv
  <2>1. AnsweredUpTo(n)' /\ AnsweredInOrder'
    BY <1>0 DEF SameOutput, Inv, AnswerInv
  <2>2. QueueInv(n)'
    BY DEF Inv, QueueInv, Unanswered, Stopping, Message, Running, SendFails, End, Resumes, Fails,
       Nobody, inVars, taskVars, outVars, runVars
  <2> QED
    BY <2>1, <2>2 DEF AnswerInv
<1> QED
  BY <1>1, <1>2, <1>3, <1>4, <1>5, <1>6, <1>7 DEF Inv

\* What a task was sending has arrived: its command may be answered with it.
LEMMA DeliveredKeeps == ASSUME NEW t \in {"consumer", "heartbeat"}, Inv, Delivered(t) PROVE Inv'
<1> USE NoneDiffers, TodoShape
<1>a. /\ Running /\ lock.by = t /\ Arrives /\ lock' = Nobody /\ lock # Nobody
      /\ UNCHANGED <<receive, inVars, asrVars, closed, sequence, runVars>>
      /\ consumer \in [pc : Places, msg : Nat, todo : Plain \cup OfStop]
      /\ outcome \in [Tasks -> Reasons \cup {"quiet", None}]
  BY DEF Delivered, Inv, TypeOK, Nobody
<1>b. ~EventIn' /\ Running'
  BY <1>a DEF EventIn, Running, runVars
<1>1. CASE ~EventIn
  <2>1. /\ t = "consumer" /\ consumer.pc = "close" /\ lock.event.name = "NORMAL" /\ closed
        /\ lock.event.type = "close"
    BY <1>1, <1>a DEF Inv, LockInv, EventIn
  <2>2. wire' = wire /\ code' = "NORMAL" /\ SameOutput
    BY <1>a, <2>1, Unread DEF Arrives
  <2>3. consumer' = [consumer EXCEPT !.pc = "ended"] /\ outcome' = [outcome EXCEPT !["consumer"] = "quiet"]
    BY <2>1, <1>a DEF Delivered, Resumes, Fails, End
  <2>4. TypeOK'
    <3>1. /\ consumer' \in [pc : Places, msg : Nat, todo : Plain \cup OfStop] /\ consumer'.pc = "ended"
          /\ outcome' \in [Tasks -> Reasons \cup {"quiet", None}]
      BY <1>a, <2>3 DEF Places
    <3> QED
      BY <1>a, <2>2, <3>1 DEF Inv, TypeOK, inVars, asrVars, runVars
  <2>5. PhaseInv' /\ LockInv'
    BY <1>a, <1>b, <2>1, <2>2 DEF Inv, PhaseInv, LockInv, Running, Nobody, runVars
  <2>6. SequenceInv'
    BY <1>1, <1>a, <1>b, <2>1, <2>2 DEF SameOutput, Inv, SequenceInv, Running, runVars
  <2>7. StopInv'
    BY <1>a, <2>1, <2>2, <2>3 DEF SameOutput, Inv, TypeOK, StopInv
  <2>8. CloseInv'
    <3>1. OnWire("stopped")
      BY <1>1, <1>a, <2>1 DEF Inv, CloseInv
    <3>2. ~OnWire("error")
      BY <1>a DEF Inv, SequenceInv, Running
    <3> QED
      BY <1>a, <2>2, <3>1, <3>2 DEF SameOutput, Inv, CloseInv
  <2>9. AnswerInv'
    <3> PICK n \in Nat : AnsweredUpTo(n) /\ QueueInv(n)
      BY DEF Inv, AnswerInv
    <3>1. QueueInv(n)'
      BY <1>a, <2>1 DEF QueueInv
    <3> QED
      BY <2>2, <3>1 DEF SameOutput, Inv, AnswerInv
  <2> QED
    BY <2>4, <2>5, <2>6, <2>7, <2>8, <2>9 DEF Inv
<1>2. CASE EventIn
  <2>1. wire' = Append(wire, lock.event) /\ code' = code /\ ~closed
    BY <1>2, <1>a DEF Arrives, EventIn, Inv, LockInv
  <2>2. NewOutput
    BY <1>2, <2>1, EventArrives
  <2>3. lock.event.type # "error"
    <3>1. t = "consumer" => consumer.todo # <<>> /\ lock.event.type = Head(consumer.todo)
      BY <1>2, <1>a DEF Inv, LockInv
    <3> QED
      BY <1>2, <1>a, <3>1 DEF Inv, LockInv, TypeOK
  <2>4. PhaseInv' /\ LockInv'
    BY <1>a, <1>b, <2>1 DEF Inv, PhaseInv, LockInv, Running, Nobody, runVars
  <2>5. SequenceInv'
    BY <1>a, <1>b, <2>1, <2>2, <2>3 DEF NewOutput, Inv, TypeOK, SequenceInv, Running, runVars
  <2>6. CloseInv'
    BY <1>a, <1>b, <2>1, <2>2, <2>3 DEF NewOutput, Inv, CloseInv, SequenceInv, Running, runVars
  <2>7. CASE t = "heartbeat"
    <3>1. consumer' = consumer /\ outcome' = outcome
      BY <1>a, <2>7 DEF Delivered, Resumes
    <3>2. lock.event.type = "heartbeat" /\ ~lock.event.last
      BY <1>2, <1>a, <2>7 DEF Inv, LockInv
    <3>3. TypeOK'
      BY <1>a, <2>2, <3>1 DEF NewOutput, Inv, TypeOK, inVars, asrVars, runVars
    <3>4. StopInv'
      BY <1>a, <2>2, <3>1, <3>2 DEF NewOutput, Inv, StopInv, Running, Stopping, Message, inVars,
         asrVars, runVars
    <3>5. AnswerInv'
      <4> PICK n \in Nat : AnsweredUpTo(n) /\ QueueInv(n)
        BY DEF Inv, AnswerInv
      <4>1. AnsweredUpTo(n)'
        BY <2>2, <3>2 DEF NewOutput
      <4>2. QueueInv(n)'
        <5>1. Unanswered' <=> Unanswered
          BY <1>a, <3>1 DEF Unanswered, Stopping, Message, inVars, asrVars
        <5> QED
          BY <1>a, <3>1, <5>1 DEF QueueInv, inVars, runVars
      <4> QED
        BY <2>2, <4>1, <4>2 DEF NewOutput, AnswerInv
    <3> QED
      BY <2>4, <2>5, <2>6, <3>3, <3>4, <3>5 DEF Inv
  <2>8. CASE t = "consumer"
    <3>1. /\ consumer.pc = "send" /\ consumer.todo # <<>> /\ lock.event.msg = consumer.msg
          /\ lock.event.type = Head(consumer.todo)
          /\ lock.event.last = (Len(consumer.todo) = 1 /\ Head(consumer.todo) # "revision")
      BY <1>2, <1>a, <2>8 DEF Inv, LockInv, LastEvent
    <3>2. consumer' = [consumer EXCEPT !.todo = Tail(@)] /\ outcome' = outcome
      BY <1>a, <2>8, <3>1 DEF Delivered, Resumes
    <3>3. /\ consumer'.pc = "send" /\ consumer'.msg = consumer.msg /\ consumer'.todo = Tail(consumer.todo)
          /\ (Stopping' <=> Stopping)
      BY <1>a, <3>1, <3>2 DEF Stopping, Message, inVars
    <3>4. \/ /\ ~Stopping /\ consumer.todo \in Plain /\ consumer'.todo \in Plain
             /\ lock.event.type # "stopped" /\ (lock.event.last <=> consumer'.todo = <<>>)
          \/ /\ Stopping /\ consumer'.todo = <<>> /\ started
             /\ lock.event.type # "stopped" /\ ~lock.event.last
          \/ /\ Stopping /\ consumer'.todo = <<>> /\ ~started
             /\ lock.event.type = "stopped" /\ lock.event.last
      <4>1. CASE ~Stopping
        <5>1. consumer.todo \in Plain
          BY <1>a, <3>1, <4>1 DEF Inv, StopInv
        <5> QED
          BY <3>1, <3>3, <4>1, <5>1
      <4>2. CASE Stopping
        <5>1. /\ consumer.todo \in OfStop
              /\ consumer.todo = <<"revision">> => started
              /\ consumer.todo = <<"stopped">> => ~started
          BY <1>a, <3>1, <4>2 DEF Inv, StopInv
        <5>2. consumer.todo = <<"revision">> \/ consumer.todo = <<"stopped">>
          BY <3>1, <5>1 DEF OfStop
        <5> QED
          BY <3>1, <3>3, <4>2, <5>1, <5>2
      <4> QED
        BY <4>1, <4>2
    <3>5. consumer' \in [pc : Places, msg : Nat, todo : Plain \cup OfStop]
      <4>1. Tail(consumer.todo) \in Plain \cup OfStop
        BY <3>3, <3>4
      <4> QED
        BY <1>a, <3>2, <4>1
    <3>6. TypeOK'
      BY <1>a, <2>2, <3>1, <3>2, <3>3, <3>5 DEF NewOutput, Inv, TypeOK, inVars, asrVars, runVars
    <3>7. StopInv'
      <4>1. ~OnWire("stopped")
        BY <1>a, <3>1 DEF Inv, StopInv
      <4>2. started' = started
        BY <1>a DEF asrVars
      <4> QED
        BY <2>2, <3>3, <3>4, <4>1, <4>2 DEF NewOutput, StopInv
    <3>8. AnswerInv'
      <4> PICK n \in Nat : AnsweredUpTo(n) /\ QueueInv(n)
        BY DEF Inv, AnswerInv
      <4>1. /\ Unanswered /\ consumer.msg = n + 1
            /\ \A k \in 1..Len(queue) : queue[k] = n + 1 + k
            /\ receive = "receiving" => taken = n + 1 + Len(queue)
            /\ receive = "putting"   => taken = n + 1 + Len(queue) + 1
        <5>1. Unanswered
          BY <3>1 DEF Unanswered
        <5> QED
          BY <1>a, <2>1, <3>1, <5>1 DEF QueueInv, Running
      <4>2. UNCHANGED <<queue, taken, receive, started, phase, closed>>
        BY <1>a DEF inVars, asrVars, runVars
      <4>3. CASE lock.event.last
        <5>1. n + 1 \in Nat /\ AnsweredUpTo(n + 1)'
          BY <2>2, <4>3 DEF NewOutput
        <5>2. ~Unanswered'
          BY <3>3, <3>4, <4>2, <4>3 DEF Unanswered
        <5>3. QueueInv(n + 1)'
          BY <4>1, <4>2, <5>2 DEF QueueInv
        <5> QED
          BY <2>2, <5>1, <5>3 DEF NewOutput, AnswerInv
      <4>4. CASE ~lock.event.last
        <5>1. AnsweredUpTo(n)'
          BY <2>2, <4>4 DEF NewOutput
        <5>2. Unanswered'
          BY <3>3, <3>4, <4>2, <4>4 DEF Unanswered
        <5>3. QueueInv(n)'
          BY <3>3, <4>1, <4>2, <5>2 DEF QueueInv
        <5> QED
          BY <2>2, <5>1, <5>3 DEF NewOutput, AnswerInv
      <4> QED
        BY <4>3, <4>4
    <3> QED
      BY <2>4, <2>5, <2>6, <3>6, <3>7, <3>8 DEF Inv
  <2> QED
    BY <2>7, <2>8
<1> QED
  BY <1>1, <1>2

\* The tasks are cancelled: what one of them was sending arrives or is lost.
LEMMA RunWakesKeeps == Inv /\ RunWakes => Inv'
<1> SUFFICES ASSUME Inv, RunWakes PROVE Inv'
  OBVIOUS
<1> USE NoneDiffers
<1>a. /\ Running /\ phase' \in {"error", "cleanup"} /\ failure' \in Reasons \cup {None}
      /\ phase' = "error" => failure' # None
      /\ UNCHANGED <<inVars, asrVars, closed, server, sequence, outcome>>
      /\ consumer' = [consumer EXCEPT !.pc = "ended"] /\ receive' = "ended"
  <2>1. Failures \subseteq Reasons
    BY DEF Inv, TypeOK, Failures, Ended
  <2>2. Failures # {} => failure' \in Failures
    BY DEF RunWakes
  <2>3. Failures = {} => failure' = None /\ phase' = "cleanup"
    BY DEF RunWakes
  <2>4. /\ phase' \in {"error", "cleanup"} /\ (Failures # {} => phase' = "error")
        /\ Running /\ UNCHANGED <<inVars, asrVars, closed, server, sequence, outcome>>
        /\ consumer' = [consumer EXCEPT !.pc = "ended"] /\ receive' = "ended"
    BY DEF RunWakes, Interrupted, Abandon
  <2>5. None \notin Reasons
    OBVIOUS
  <2> QED
    BY <2>1, <2>2, <2>3, <2>4, <2>5
<1>b. Received
  <2>1. (lock # Nobody /\ Arrives) \/ UNCHANGED <<wire, code>>
    BY DEF RunWakes, Interrupted, Tasks, Nobody
  <2> QED
    BY <2>1, SendOver
<1>c. \/ lock' = Nobody
      \/ lock' = lock /\ UNCHANGED <<wire, code>> /\ lock.by = "shutdown"
  <2>1. lock = Nobody \/ lock.by \in {"consumer", "heartbeat", "shutdown"}
    BY <1>a DEF Inv, LockInv, TypeOK, Senders, Running
  <2> QED
    BY <2>1 DEF RunWakes, Interrupted, Tasks
<1>d. ~OnWire("error") /\ ~OnWire("error")'
  BY <1>a, <1>b DEF Inv, SequenceInv, LockInv, Running, Received
<1>e. lock' = lock => (EventIn' <=> EventIn)
  BY DEF EventIn
<1>f. lock' = Nobody => ~EventIn' /\ lock'.by = None
  BY DEF EventIn, Nobody
<1>1. TypeOK'
  BY <1>a, <1>b, <1>c DEF Received, Inv, TypeOK, Places, inVars, asrVars
<1>2. PhaseInv'
  BY <1>a, <1>b DEF Received, Inv, LockInv, PhaseInv, Running
<1>3. LockInv'
  BY <1>a, <1>c, <1>e, <1>f DEF Inv, LockInv, Running
<1>4. SequenceInv'
  <2>1. ~EventIn'
    BY <1>c, <1>e, <1>f DEF Inv, LockInv
  <2> QED
    BY <1>a, <1>b, <1>d, <2>1 DEF Received, SequenceInv
<1>5. StopInv'
  BY <1>a DEF StopInv, Running
<1>6. CloseInv'
  <2>1. lock' # Nobody => lock'.event.name = "SHUTDOWN"
    BY <1>c, <1>e DEF Inv, LockInv
  <2> QED
    BY <1>b, <1>d, <2>1 DEF Received, CloseInv
<1>7. AnswerInv'
  BY <1>a, <1>b DEF Received, AnswerInv, QueueInv
<1> QED
  BY <1>1, <1>2, <1>3, <1>4, <1>5, <1>6, <1>7 DEF Inv

\* The error event is sent or fails, and the close follows.
LEMMA ErrorSentKeeps == Inv /\ ErrorSent => Inv'
<1> SUFFICES ASSUME Inv, ErrorSent PROVE Inv'
  OBVIOUS
<1> USE NoneDiffers
<1>a. /\ phase = "error" /\ lock.by = "run" /\ lock.event.type = "error" /\ closed' = TRUE /\ lock # Nobody
      /\ lock' = [lock EXCEPT !.event = [type |-> "close", name |-> failure]]
      /\ UNCHANGED <<taskVars, inVars, asrVars, sequence, runVars>>
  BY DEF ErrorSent, Nobody
<1>b. EventIn /\ ~closed /\ code = None /\ code' = None /\ ~OnWire("error")
  <2>1. EventIn /\ ~closed
    BY <1>a DEF EventIn, Inv, LockInv
  <2> QED
    BY <1>a, <2>1 DEF Inv, PhaseInv, SequenceInv, ErrorSent, Arrives
<1>c. Received
  BY <1>a, SendOver DEF ErrorSent
<1>d. failure \in Reasons
  BY <1>a DEF Inv, TypeOK, PhaseInv
<1>e. lock' = [by |-> "run", event |-> [type |-> "close", name |-> failure]]
  BY <1>a DEF Inv, TypeOK
<1>f. lock' \in [by : Senders, event : Closes] /\ lock'.by = "run" /\ lock'.event.type = "close"
      /\ lock'.event.name = failure /\ ~EventIn' /\ failure # "NORMAL"
  BY <1>d, <1>e DEF Senders, Closes, EventIn, Reasons, Timeouts
<1>1. TypeOK'
  BY <1>a, <1>c, <1>f DEF Received, Inv, TypeOK, taskVars, inVars, asrVars, runVars
<1>2. PhaseInv'
  BY <1>a DEF Inv, PhaseInv, Running, runVars
<1>3. LockInv'
  BY <1>a, <1>f DEF LockInv, Running, runVars
<1>4. SequenceInv'
  BY <1>a, <1>c, <1>f DEF Received, SequenceInv, runVars
<1>5. StopInv'
  BY <1>a DEF StopInv, Running, runVars
<1>6. CloseInv'
  BY <1>a, <1>b, <1>c, <1>f DEF Received, CloseInv
<1>7. AnswerInv'
  BY <1>a, <1>c DEF Received, AnswerInv, QueueInv, runVars
<1> QED
  BY <1>1, <1>2, <1>3, <1>4, <1>5, <1>6, <1>7 DEF Inv

\* The connection is cancelled: what it was sending arrives or is lost.
LEMMA CancelConnectionKeeps == Inv /\ CancelConnection => Inv'
<1> SUFFICES ASSUME Inv, CancelConnection PROVE Inv'
  OBVIOUS
<1> USE NoneDiffers
<1>a. /\ server = "cancelling" /\ server' = "waiting" /\ lock' = Nobody
      /\ phase' \in {"cleanup", "gone"} /\ phase \in {"running", "error", "cleanup", "gone"}
      /\ phase = "gone" => phase' = "gone"
      /\ consumer' = [consumer EXCEPT !.pc = "ended"] /\ receive' = "ended"
      /\ UNCHANGED <<inVars, asrVars, closed, failure, sequence, outcome>>
  <2>1. /\ server = "cancelling" /\ phase \in {"running", "error", "cleanup", "gone"}
    BY DEF CancelConnection, Inv, TypeOK, PhaseInv
  <2>2. /\ server' = "waiting" /\ phase' = (CASE phase \in {"running", "error"} -> "cleanup"
                                             [] phase \in {"cleanup", "gone"} -> "gone")
        /\ consumer' = [consumer EXCEPT !.pc = "ended"] /\ receive' = "ended"
        /\ UNCHANGED <<inVars, asrVars, closed, failure, sequence, outcome>>
    BY DEF CancelConnection, Abandon, Interrupted
  <2>3. lock' = Nobody
    <3>1. lock = Nobody \/ lock.by \in {"consumer", "heartbeat", "run"}
      BY <2>1 DEF Inv, LockInv, TypeOK, Senders
    <3> QED
      BY <3>1 DEF CancelConnection, Interrupted, Tasks
  <2> QED
    BY <2>1, <2>2, <2>3
<1>b. Received
  <2>1. (lock # Nobody /\ Arrives) \/ UNCHANGED <<wire, code>>
    BY DEF CancelConnection, Interrupted, Tasks, Nobody
  <2> QED
    BY <2>1, SendOver
<1>c. ~EventIn' /\ lock'.by = None
  BY <1>a DEF EventIn, Nobody
<1>d. OnWire("error")' => code' \in {None, failure}
  <2>1. CASE OnWire("error")
    BY <1>b, <2>1 DEF Received, Inv, CloseInv, LockInv
  <2>2. CASE EventIn /\ lock.by = "run"
    <3>1. code = None
      BY <2>2 DEF Inv, LockInv, PhaseInv
    <3> QED
      BY <1>b, <2>2, <3>1 DEF Received
  <2> QED
    BY <1>b, <2>1, <2>2 DEF Received
<1>1. TypeOK'
  BY <1>a, <1>b DEF Received, Inv, TypeOK, Places, inVars, asrVars
<1>2. PhaseInv'
  BY <1>a, <1>b DEF Received, Inv, LockInv, PhaseInv, Running
<1>3. LockInv'
  BY <1>a, <1>c DEF LockInv
<1>4. SequenceInv'
  BY <1>a, <1>b, <1>c DEF Received, SequenceInv
<1>5. StopInv'
  BY <1>a DEF StopInv, Running
<1>6. CloseInv'
  BY <1>a, <1>b, <1>d DEF Received, CloseInv
<1>7. AnswerInv'
  BY <1>a, <1>b DEF Received, AnswerInv, QueueInv
<1> QED
  BY <1>1, <1>2, <1>3, <1>4, <1>5, <1>6, <1>7 DEF Inv

-----------------------------------------------------------------------------
(* Theorems *)

\* A step of any task, of the client, of the lock's holder or of the shutdown.
LEMMA NextKeeps == Inv /\ [Next]_vars => Inv'
<1> SUFFICES ASSUME Inv, [Next]_vars PROVE Inv'
  OBVIOUS
<1>1. CASE UNCHANGED vars
  <2>1. SameOutput
    BY <1>1, Unread DEF vars, outVars
  <2>2. TypeOK'
    BY <1>1 DEF Inv, TypeOK, vars, inVars, taskVars, asrVars, outVars, runVars
  <2>3. PhaseInv' /\ LockInv'
    BY <1>1 DEF Inv, PhaseInv, LockInv, EventIn, Running, LastEvent, vars, inVars, taskVars,
       asrVars, outVars, runVars
  <2>4. SequenceInv' /\ CloseInv'
    BY <1>1, <2>1 DEF SameOutput, Inv, SequenceInv, CloseInv, EventIn, vars, outVars, runVars
  <2>5. StopInv'
    BY <1>1, <2>1 DEF SameOutput, Inv, StopInv, Running, Stopping, Message, vars, inVars,
       taskVars, asrVars, outVars, runVars
  <2>6. ASSUME NEW n \in Nat, QueueInv(n)
        PROVE  QueueInv(n)'
    BY <1>1, <2>6 DEF QueueInv, Unanswered, Stopping, Message, vars, inVars, taskVars, asrVars,
       outVars, runVars
  <2>7. AnswerInv'
    BY <2>1, <2>6 DEF SameOutput, Inv, AnswerInv
  <2> QED
    BY <2>2, <2>3, <2>4, <2>5, <2>7 DEF Inv
<1>2. CASE \E t \in {"consumer", "heartbeat"} : Delivered(t) \/ SendFails(t)
  BY <1>2, DeliveredKeeps, SendFailsKeeps
<1>3. CASE Next /\ ~Transport
  BY <1>3, SendKeeps, LeaveKeeps, HandshakeKeeps, AcceptedKeeps, TimePassesKeeps, ReceiveKeeps,
     PutRoomKeeps, PutTimeoutKeeps, ReceiveTimeoutKeeps, ReceiveEndsKeeps, TakeKeeps,
     ConsumerSendsKeeps, ConsumerSkipsKeeps, ConsumerGoesOnKeeps, RemovedKeeps,
     ConsumerClosesKeeps, HeartbeatTimeoutKeeps, HeartbeatWakesKeeps, HeartbeatSendsKeeps,
     HeartbeatEndsKeeps, ErrorBeginsKeeps, ErrorSkippedKeeps, CleanupKeeps, ShutdownBeginsKeeps,
     ShutdownClosesKeeps, ConnectionEndedKeeps, CloseAllKeeps, CalledKeeps, ErrorClosedKeeps,
     ShutdownClosedKeeps, CloseTimeoutKeeps, RunWakesKeeps, ErrorSentKeeps, CancelConnectionKeeps
     DEF Next, ReceiveStep, ConsumerStep, HeartbeatStep, ErrorStep, ShutdownStep
<1> QED
  BY <1>1, <1>2, <1>3 DEF Transport

\* The invariant holds throughout.
LEMMA Always == Spec => []Inv
<1>1. Init => Inv
  BY InitInv
<1>2. Inv /\ [Next]_vars => Inv'
  BY NextKeeps
<1> QED
  BY <1>1, <1>2, PTL DEF Spec

\* However the three tasks, run() and the shutdown take turns with the lock
\* (_send_event_locked, error_close, close), and wherever a send is cut off:
\* what the client reads is in the order of its numbers, and a gap is followed
\* by the error event alone.
THEOREM EventsOrdered == Spec => []WireOrdered
<1>1. Inv => WireOrdered
  BY DEF Inv, SequenceInv
<1> QED
  BY <1>1, Always, PTL

\* The answers come in the order of the client's messages and none is left out
\* before a later one, for a queue of any size (receive_loop, consumer_loop).
THEOREM MessagesAnsweredInOrder == Spec => []AnsweredInOrder
<1>1. Inv => AnsweredInOrder
  BY DEF Inv, AnswerInv
<1> QED
  BY <1>1, Always, PTL

\* A normal closure (_handle_stop) comes behind session.stopped, an error event
\* (error_close) is the last event and agrees with the close code.
THEOREM CloseTellsTruth == Spec => []CloseTruthful
<1>1. Inv => CloseTruthful
  <2> SUFFICES ASSUME Inv PROVE CloseTruthful
    OBVIOUS
  <2>1. wire \in Seq(Events) /\ Len(wire) \in Nat
    BY DEF Inv, TypeOK
  <2>2. code = "NORMAL" => \E i \in 1..Len(wire) : wire[i].type = "stopped"
    BY DEF Inv, CloseInv, OnWire
  <2>3. ASSUME NEW i \in 1..Len(wire), NEW j \in 1..Len(wire), i < j
        PROVE  /\ wire[i].type # "error"
               /\ wire[i].type = "stopped" => wire[j].type \in {"heartbeat", "error"}
    BY <2>3 DEF Inv, CloseInv, LastWords
  <2>4. wire # <<>> /\ Last(wire).type = "error" /\ code # None => code = failure
    <3> SUFFICES ASSUME wire # <<>>, Last(wire).type = "error", code # None
                 PROVE  code = failure
      OBVIOUS
    <3>1. Len(wire) \in 1..Len(wire) /\ wire[Len(wire)].type = "error"
      BY <2>1 DEF Last
    <3> QED
      BY <3>1 DEF Inv, CloseInv, OnWire
  <2> QED
    BY <2>2, <2>3, <2>4 DEF CloseTruthful
<1> QED
  BY <1>1, Always, PTL

-----------------------------------------------------------------------------
(* Timeouts *)

\* A task that is over has said why, as long as run() has not woken up.
EndedInv ==
  phase \in {"handshake", "accepted", "running"} =>
    /\ receive = "ended" => outcome["receive"] # None
    /\ consumer.pc = "ended" => outcome["consumer"] # None

\* No task ends.
NoneEnds ==
  /\ receive' = "ended" => receive = "ended"
  /\ consumer'.pc = "ended" => consumer.pc = "ended"
  /\ outcome' = outcome
  /\ phase' \in {"handshake", "accepted", "running"} => phase \in {"handshake", "accepted", "running"}

\* One task ends, for a reason of the given set.
OneEnds(t, reasons) ==
  /\ \E how \in reasons : outcome' = [outcome EXCEPT ![t] = how]
  /\ t # "receive" => receive' = receive
  /\ t # "consumer" => consumer' = consumer
  /\ phase' = phase

\* run() has woken up, or the connection is cancelled.
AllEnd == phase' \notin {"handshake", "accepted", "running"} /\ outcome' = outcome

Others == (Reasons \cup {"quiet"}) \ Timeouts

\* How the tasks end in a step that is not a timeout.
LEMMA EndingSteps ==
  ASSUME Inv, [Next]_vars, ~ReceiveTimeout, ~HeartbeatTimeout
  PROVE  NoneEnds \/ AllEnd \/ \E t \in Tasks : OneEnds(t, Others)
<1>0. {"CALL_FAILED", "CONTROL_MESSAGE_INVALID", "SESSION_ALREADY_STARTED", "START_REQUIRED",
       "MESSAGE_EMPTY", "BACKPRESSURE_OVERFLOW", "INTERNAL_SERVER_ERROR", "quiet"} \subseteq Others
      /\ "receive" \in Tasks /\ "consumer" \in Tasks /\ "heartbeat" \in Tasks
  BY DEF Others, Reasons, Timeouts, Tasks
<1>1. CASE UNCHANGED vars
  BY <1>1 DEF vars, taskVars, runVars, NoneEnds
<1>2. CASE Send \/ Leave \/ Handshake \/ Accepted \/ TimePasses
  BY <1>2 DEF Send, Leave, Handshake, Accepted, TimePasses, taskVars, runVars, NoneEnds
<1>3. CASE Receive \/ PutRoom \/ PutTimeout \/ ReceiveEnds
  BY <1>0, <1>3 DEF Receive, PutRoom, PutTimeout, ReceiveEnds, NextReceive, End, taskVars, runVars,
     NoneEnds, OneEnds
<1>4. CASE Take
  <2> DEFINE m == Message(Head(queue))
  <2>1. CASE Refused(m) # None
    <3>1. Refused(m) \in Others
      BY <1>0, <2>1 DEF Refused
    <3>2. outcome' = [outcome EXCEPT !["consumer"] = Refused(m)]
      BY <1>4, <2>1 DEF Take, Fails, End
    <3>3. receive' = receive /\ phase' = phase
      BY <1>4 DEF Take, runVars
    <3> HIDE DEF m
    <3> QED
      BY <1>0, <3>1, <3>2, <3>3 DEF OneEnds
  <2>2. CASE Refused(m) = None
    BY <1>4, <2>2 DEF Take, taskVars, runVars, NoneEnds
  <2> QED
    BY <2>1, <2>2
<1>5. CASE Called
  <2>1. receive' = receive /\ phase' = phase /\ consumer.pc = "call"
    BY <1>5 DEF Called, runVars
  <2>2. ASSUME NEW m, NEW events, Returns(m, events)
        PROVE  NoneEnds
    <3>1. consumer \in [pc : Places, msg : Nat, todo : Plain \cup OfStop]
      BY DEF Inv, TypeOK
    <3>2. consumer'.pc = "send"
      BY <2>2, <3>1 DEF Returns
    <3> QED
      BY <2>1, <2>2, <3>2 DEF Returns, NoneEnds
  <2>3. CASE Fails("CALL_FAILED")
    BY <1>0, <2>1, <2>3 DEF Fails, End, OneEnds
  <2>4. CASE ~Fails("CALL_FAILED")
    BY <1>5, <2>2, <2>4, Zenon DEF Called
  <2> QED
    BY <2>3, <2>4
<1>6. CASE ConsumerSends \/ ConsumerSkips
  BY <1>6 DEF ConsumerSends, ConsumerSkips, Inv, TypeOK, taskVars, runVars, NoneEnds
<1>7. CASE ConsumerGoesOn \/ Removed \/ ConsumerCloses
  <2>0. ASSUME NEW how \in Others, Fails(how), receive' = receive, phase' = phase
        PROVE  OneEnds("consumer", Others)
    BY <2>0 DEF Fails, End, OneEnds
  <2>1. receive' = receive /\ phase' = phase /\ consumer.pc \in {"send", "remove", "close"}
    BY <1>7 DEF ConsumerGoesOn, Removed, ConsumerCloses, runVars
  <2>2. consumer \in [pc : Places, msg : Nat, todo : Plain \cup OfStop]
    BY DEF Inv, TypeOK
  <2>3. CASE ConsumerGoesOn
    <3>1. Fails("quiet") \/ (outcome' = outcome /\ (\/ consumer' = AtQueue
                                                    \/ consumer' = [consumer EXCEPT !.pc = "remove"]
                                                    \/ consumer' = [consumer EXCEPT !.pc = "close"]))
      BY <2>3, Zenon DEF ConsumerGoesOn
    <3>2. CASE Fails("quiet")
      BY <1>0, <2>0, <2>1, <3>2
    <3>3. CASE ~Fails("quiet")
      <4>1. consumer'.pc # "ended"
        BY <2>2, <3>1, <3>3 DEF AtQueue
      <4> QED
        BY <2>1, <3>1, <3>3, <4>1 DEF NoneEnds
    <3> QED
      BY <3>2, <3>3
  <2>4. CASE Removed
    <3>1. \/ Fails("INTERNAL_SERVER_ERROR")
          \/ consumer' = [consumer EXCEPT !.pc = "send", !.todo = <<"stopped">>] /\ outcome' = outcome
      BY <2>4, Zenon DEF Removed
    <3>2. CASE Fails("INTERNAL_SERVER_ERROR")
      BY <1>0, <2>0, <2>1, <3>2
    <3>3. CASE ~Fails("INTERNAL_SERVER_ERROR")
      <4>1. consumer'.pc # "ended"
        BY <2>2, <3>1, <3>3
      <4> QED
        BY <2>1, <3>1, <3>3, <4>1 DEF NoneEnds
    <3> QED
      BY <3>2, <3>3
  <2>5. CASE ConsumerCloses
    <3>1. Fails("quiet") \/ UNCHANGED <<consumer, outcome>>
      BY <2>5 DEF ConsumerCloses
    <3> QED
      BY <1>0, <2>0, <2>1, <3>1 DEF NoneEnds
  <2> QED
    BY <1>7, <2>3, <2>4, <2>5
<1>8. CASE HeartbeatWakes \/ HeartbeatSends \/ HeartbeatEnds
  BY <1>0, <1>8 DEF HeartbeatWakes, HeartbeatSends, HeartbeatEnds, End, taskVars, runVars, NoneEnds, OneEnds
<1>9. ASSUME NEW t \in {"consumer", "heartbeat"}, Delivered(t) \/ SendFails(t)
      PROVE  NoneEnds \/ \E u \in Tasks : OneEnds(u, Others)
  BY <1>0, <1>9 DEF Delivered, SendFails, Resumes, Fails, End, Inv, TypeOK, runVars, NoneEnds, OneEnds
<1>10. CASE RunWakes \/ CancelConnection
  BY <1>10 DEF RunWakes, CancelConnection, Abandon, AllEnd, Inv, TypeOK, PhaseInv
<1>11. CASE ErrorStep \/ Cleanup
  BY <1>11 DEF ErrorStep, ErrorBegins, ErrorSkipped, ErrorSent, ErrorClosed, Cleanup, taskVars, runVars,
     NoneEnds
<1>12. CASE ShutdownBegins \/ ShutdownCloses \/ ShutdownClosed \/ CloseTimeout \/ ConnectionEnded \/ CloseAll
  BY <1>12 DEF ShutdownBegins, ShutdownCloses, ShutdownClosed, CloseTimeout, ConnectionEnded, CloseAll,
     taskVars, runVars, NoneEnds
<1> QED
  BY <1>1, <1>2, <1>3, <1>4, <1>5, <1>6, <1>7, <1>8, <1>9, <1>10, <1>11, <1>12
     DEF Next, ReceiveStep, ConsumerStep, HeartbeatStep, Transport, ShutdownStep

LEMMA EndedKeeps ==
  ASSUME Inv, EndedInv, [Next]_vars
  PROVE  EndedInv'
<1>1. ASSUME NEW t \in Tasks, OneEnds(t, Reasons \cup {"quiet"})
      PROVE  EndedInv'
  <2>1. outcome \in [Tasks -> Reasons \cup {"quiet", None}]
    BY DEF Inv, TypeOK
  <2>2. outcome'[t] # None /\ \A u \in Tasks : u # t => outcome'[u] = outcome[u]
    BY <1>1, <2>1, NoneDiffers DEF OneEnds
  <2> QED
    BY <1>1, <2>2 DEF EndedInv, OneEnds, Tasks
<1>2. CASE ReceiveTimeout
  <2>1. OneEnds("receive", Reasons \cup {"quiet"}) /\ "receive" \in Tasks
    BY <1>2 DEF ReceiveTimeout, End, OneEnds, runVars, Reasons, Timeouts, Tasks
  <2> QED
    BY <1>1, <2>1
<1>3. CASE HeartbeatTimeout
  <2>1. OneEnds("heartbeat", Reasons \cup {"quiet"}) /\ "heartbeat" \in Tasks
    BY <1>3 DEF HeartbeatTimeout, End, OneEnds, runVars, Reasons, Timeouts, Tasks
  <2> QED
    BY <1>1, <2>1
<1>4. CASE NoneEnds \/ AllEnd
  BY <1>4 DEF NoneEnds, AllEnd, EndedInv
<1>5. CASE \E t \in Tasks : OneEnds(t, Others)
  <2>1. \A t \in Tasks : OneEnds(t, Others) => OneEnds(t, Reasons \cup {"quiet"})
    BY DEF OneEnds, Others
  <2> QED
    BY <1>1, <1>5, <2>1
<1> QED
  BY <1>2, <1>3, <1>4, <1>5, EndingSteps

\* At a moment when a task may time out, the consumer waits for a message, the
\* queue is empty and the receive loop has none in its hands.
LEMMA TimeoutSpares ==
  ASSUME Inv, EndedInv, [Next]_vars, Ended = {}, ~closed,
         NEW t \in Tasks, outcome'[t] \in Timeouts
  PROVE  \A m \in 1..taken : \E i \in 1..Len(wire) : wire[i].last /\ wire[i].msg = m
<1>1. /\ \A u \in Tasks : outcome[u] = None
      /\ None \notin Timeouts
  BY NoneDiffers DEF Ended, Reasons
<1>2. ReceiveTimeout \/ HeartbeatTimeout
  <2> SUFFICES ASSUME ~ReceiveTimeout, ~HeartbeatTimeout PROVE FALSE
    OBVIOUS
  <2>1. outcome' # outcome
    BY <1>1
  <2>2. PICK u \in Tasks : OneEnds(u, Others)
    BY <2>1, EndingSteps DEF NoneEnds, AllEnd
  <2>3. \A v \in Tasks : outcome'[v] \in Others \cup {None}
    BY <1>1, <2>2 DEF OneEnds, Inv, TypeOK
  <2> QED
    BY <1>1, <2>3 DEF Others
<1>3. Running /\ Settled
  BY <1>2 DEF ReceiveTimeout, HeartbeatTimeout
<1>4. receive # "ended" /\ consumer.pc # "ended"
  BY <1>1, <1>3 DEF EndedInv, Running, Tasks
<1>5. Idle
  <2>1. CASE HeartbeatTimeout
    BY <2>1 DEF HeartbeatTimeout
  <2>2. CASE ReceiveTimeout
    BY <2>2 DEF ReceiveTimeout
  <2> QED
    BY <1>2, <2>1, <2>2
<1>6. consumer.pc = "get" /\ queue = <<>>
  BY <1>3, <1>4, <1>5 DEF Idle, Working, Settled
<1>7. Len(queue) = 0 /\ ~QueueFull
  BY <1>6, NoneDiffers DEF QueueFull
<1>8. receive = "receiving"
  BY <1>3, <1>4, <1>7 DEF Settled, Inv, TypeOK
<1>9. PICK n \in Nat : AnsweredUpTo(n) /\ QueueInv(n)
  BY DEF Inv, AnswerInv
<1>10. taken = n
  BY <1>3, <1>6, <1>7, <1>8, <1>9 DEF QueueInv, Unanswered, Running
<1> QED
  BY <1>9, <1>10 DEF AnsweredUpTo

\* A connection is timed out (heartbeat_loop, receive_loop) only when every
\* message it received is answered; a command that runs keeps it alive.
THEOREM TimeoutsAlwaysSpareWork == Spec => TimeoutsSpareWork
<1>1. Init => EndedInv
  BY DEF Init, EndedInv, AtQueue
<1>2. Inv /\ EndedInv /\ [Next]_vars => EndedInv'
  BY EndedKeeps
<1>3. Spec => []EndedInv
  BY <1>1, <1>2, Always, PTL DEF Spec
<1>4. Inv /\ EndedInv /\ [Next]_vars =>
        [Ended = {} /\ ~closed /\ (\E t \in Tasks : outcome'[t] \in Timeouts) =>
           \A m \in 1..taken : \E i \in 1..Len(wire) : wire[i].last /\ wire[i].msg = m]_vars
  BY TimeoutSpares
<1> QED
  BY <1>3, <1>4, Always, PTL DEF Spec, TimeoutsSpareWork
=============================================================================
