-------------------------- MODULE StreamServerProofs --------------------------
(***************************************************************************)
(* Proofs about StreamServer for any connections, identifiers, limits and  *)
(* worker threads, as long as no two connections ask for one identifier    *)
(* (OwnIds).                                                               *)
(*                                                                         *)
(* Then all that a connection's session can meet are the two thread calls  *)
(* of that connection, and the inductive invariant is one of each          *)
(* connection: a step of one leaves what another's invariant speaks of.    *)
(***************************************************************************)
EXTENDS StreamServer, FiniteSetTheorems, TLAPS

\* No two connections ask for the same identifier.
OwnIds == \A c, d \in Conns : c # d => IdsOf[c] \cap IdsOf[d] = {}

-----------------------------------------------------------------------------
(* Types *)

Kinds  == {"none", "create", "call", "reset", "stop", "remove"}
Places == {"none", "queued", "started", "registry", "popped", "session", "done"}

Calls == [kind : Kinds, id : Ids \cup {None}, obj : Conns \cup {None}, exp : Nat,
          at : Places, ok : BOOLEAN, orphan : BOOLEAN]

\* The type invariant of the server.  Of the executor's queue only the head
\* matters, whatever it is.
TypeOK ==
  /\ phase \in [Conns -> {"new", "running", "closing", "teardown", "cleanup", "gone"}]
  /\ pc \in [Conns -> {"idle", "starting", "calling", "stopping", "removing", "ended"}]
  /\ session \in [Conns -> Conns \cup {None}]
  /\ sid \in [Conns -> Ids \cup {None}]
  /\ job \in [Jobs -> Calls]
  /\ registry \in [Ids -> Conns \cup {None}]
  /\ sess \in [Conns -> {"none", "open", "draining", "failed", "closed"}]
  /\ version \in [Conns -> Nat]
  /\ learned \subseteq Conns
  /\ ahead \subseteq Conns
  /\ loop \in {Idle, <<"readiness">>} \cup ({"cleanup", "stopped", "snapshot"} \X Conns)

-----------------------------------------------------------------------------
(* The inductive invariant of a connection *)

Consumer(c) == job[<<c, "consumer">>]
Cleaner(c)  == job[<<c, "cleanup">>]

Entry(c, id) == id \in IdsOf[c] /\ registry[id] = c
HasEntry(c)  == \E id \in Ids : Entry(c, id)

Removes(r) == r.kind = "remove" /\ r.at \in {"popped", "session"}
Popped(c)  == Removes(Consumer(c)) \/ Removes(Cleaner(c))

\* A call of a connection is about that connection's own session.
CallInv(c, r) ==
  /\ r.kind = "none" <=> r.at = "none"
  /\ r.obj \in {None, c}
  /\ r.kind = "create" => r.id \in IdsOf[c] /\ r.at \in {"queued", "started", "registry", "done"}
  /\ r.kind \in {"call", "reset", "stop"} =>
       r.at \in {"queued", "started", "session", "done"} /\ (r.at # "done" => r.obj = c)
  /\ r.kind = "remove" =>
       /\ r.id \in IdsOf[c]
       /\ r.at \in {"popped", "session"} => r.obj = c
       /\ r.at \in {"popped", "session", "done"} => registry[r.id] # c
  /\ r.orphan => r.at # "done"

\* What the connection has, and when its calls have a waiter.
PhaseInv(c) ==
  /\ session[c] \in {None, c}
  /\ sid[c] \in IdsOf[c] \cup {None}
  /\ Cleaner(c).kind \in {"none", "remove"}
  /\ Cleaner(c).kind = "remove" => phase[c] = "cleanup" /\ ~Cleaner(c).orphan
  /\ phase[c] = "new" => pc[c] = "idle" /\ session[c] = None
  /\ phase[c] \in {"new", "running"} => ~Consumer(c).orphan /\ pc[c] # "ended"
  /\ phase[c] \notin {"new", "running"} => Consumer(c).kind = "none" \/ Consumer(c).orphan
  /\ phase[c] \in {"cleanup", "gone"} => session[c] = None /\ sid[c] = None

Fresh(c) == sess[c] = "none" /\ sid[c] = None /\ c \notin learned /\ ~HasEntry(c)

PlaceInv(c) ==
  phase[c] \in {"new", "running"} =>
    /\ pc[c] = "idle" => Consumer(c).kind = "none" /\ (session[c] = None => Fresh(c))
    /\ pc[c] = "starting" => Consumer(c).kind = "create"
    /\ pc[c] = "calling"  => Consumer(c).kind \in {"call", "reset"} /\ session[c] = c
    /\ pc[c] = "stopping" => Consumer(c).kind = "stop" /\ session[c] = c
    /\ pc[c] = "removing" => /\ Consumer(c).kind = "remove" /\ session[c] = None
                             /\ Consumer(c).id = sid[c] /\ sid[c] # None

CreateInv(c) ==
  LET r == Consumer(c)
  IN  r.kind = "create" =>
        /\ sid[c] = None /\ session[c] = None /\ c \notin learned /\ Cleaner(c).kind = "none"
        /\ r.at # "done" => sess[c] = "none" /\ ~HasEntry(c)
        /\ r.at = "done" /\ r.ok => r.obj = c /\ Entry(c, r.id) /\ sess[c] = "open"

\* A registered session has one entry, and who learned of it will remove it.
EntryInv(c) ==
  \A id \in Ids : Entry(c, id) =>
    /\ sess[c] # "none"
    /\ \A other \in Ids : Entry(c, other) => other = id
    /\ c \in learned => \/ sid[c] = id
                        \/ /\ Cleaner(c).kind = "remove" /\ Cleaner(c).id = id
                           /\ Cleaner(c).at \in {"queued", "started", "registry"}

HeldInv(c) ==
  phase[c] = "running" /\ session[c] # None =>
    /\ sid[c] # None /\ Entry(c, sid[c])
    /\ pc[c] \in {"idle", "calling"} => sess[c] # "closed"

\* A session that must not serve again: it was closed, or it left the registry.
Out(c) ==
  \/ sess[c] = "closed"
  \/ ~ResetMayRaise /\ ~HasEntry(c) /\ ~Popped(c)

\* A reset that is still under way comes too late for such a session, unless
\* its client claimed a later version.
ResetInv(c) ==
  LET r == Consumer(c)
  IN  r.kind = "reset" /\ r.at # "done" =>
        /\ sess[c] # "none"
        /\ c \notin ahead => r.exp <= version[c]
        /\ c \notin ahead /\ Out(c) => r.exp < version[c]

OpenInv(c) ==
  ~ResetMayRaise /\ sess[c] = "open" => HasEntry(c) \/ Popped(c) \/ Outran(c)

ConnInv(c) ==
  /\ CallInv(c, Consumer(c)) /\ CallInv(c, Cleaner(c))
  /\ PhaseInv(c) /\ PlaceInv(c) /\ CreateInv(c)
  /\ EntryInv(c) /\ HeldInv(c) /\ ResetInv(c) /\ OpenInv(c)

\* What the event loop waits for to go on with.
LoopInv ==
  /\ loop[1] = "cleanup" => phase[loop[2]] = "teardown"
  /\ loop[1] = "stopped" =>
       /\ phase[loop[2]] = "running" /\ pc[loop[2]] = "stopping"
       /\ Consumer(loop[2]).at = "done"

RegistryInv ==
  /\ \A id \in Ids : registry[id] # None => id \in IdsOf[registry[id]]
  /\ IsFiniteSet(Registered) /\ Cardinality(Registered) <= MaxSessions

Inv == TypeOK /\ LoopInv /\ RegistryInv /\ \A c \in Conns : ConnInv(c)

-----------------------------------------------------------------------------
(* Steps of one connection and the others *)

\* What the invariant of a connection speaks of.
Same(d) ==
  /\ phase'[d] = phase[d] /\ pc'[d] = pc[d]
  /\ session'[d] = session[d] /\ sid'[d] = sid[d]
  /\ sess'[d] = sess[d] /\ version'[d] = version[d]
  /\ Consumer(d)' = Consumer(d) /\ Cleaner(d)' = Cleaner(d)
  /\ d \in learned' <=> d \in learned
  /\ d \in ahead' <=> d \in ahead
  /\ \A id \in IdsOf[d] : registry'[id] = registry[id]

Elsewhere(c) == \A d \in Conns \ {c} : Same(d)

\* What is left alone stays in order.
LEMMA SameKeeps ==
  ASSUME Inv, NEW d \in Conns, Same(d)
  PROVE  ConnInv(d)'
<1>1. ConnInv(d)
  BY DEF Inv
<1>2. \A id : Entry(d, id)' <=> Entry(d, id)
  BY DEF Same, Entry
<1>3. HasEntry(d)' <=> HasEntry(d)
  BY <1>2 DEF HasEntry
<1>4. Popped(d)' <=> Popped(d)
  BY DEF Same, Popped, Removes
<1>5. \A r : CallInv(d, r) => CallInv(d, r)'
  BY DEF CallInv, Same
<1>6. CallInv(d, Consumer(d))' /\ CallInv(d, Cleaner(d))'
  <2>1. PICK r, l : r = Consumer(d) /\ l = Cleaner(d)
    OBVIOUS
  <2>2. r = Consumer(d)' /\ l = Cleaner(d)'
    BY <2>1 DEF Same
  <2> QED BY <1>1, <1>5, <2>1, <2>2 DEF ConnInv, CallInv
<1>7. PhaseInv(d)' /\ PlaceInv(d)' /\ CreateInv(d)'
  BY <1>1, <1>2, <1>3 DEF Same, ConnInv, PhaseInv, PlaceInv, CreateInv, Fresh
<1>8. EntryInv(d)' /\ HeldInv(d)'
  BY <1>1, <1>2 DEF Same, ConnInv, EntryInv, HeldInv
<1>9. ResetInv(d)' /\ OpenInv(d)'
  BY <1>1, <1>3, <1>4 DEF Same, ConnInv, ResetInv, OpenInv, Out, Outran
<1> QED BY <1>6, <1>7, <1>8, <1>9 DEF ConnInv


-----------------------------------------------------------------------------
(* Steps of the event loop *)

\* The loop's steps leave the registry and the sessions to the threads.
LEMMA CoreKept ==
  ASSUME RegistryInv, UNCHANGED coreVars
  PROVE  RegistryInv'
BY DEF RegistryInv, coreVars, Registered

\* A call is submitted.
LEMMA Submitted ==
  ASSUME TypeOK, NEW c \in Conns, NEW l \in Lanes, NEW kind \in Kinds,
         NEW id \in Ids \cup {None}, NEW obj \in Conns \cup {None}, NEW exp \in Nat,
         Submit(<<c, l>>, kind, id, obj, exp)
  PROVE  /\ job' \in [Jobs -> Calls]
         /\ job'[<<c, l>>] = [kind |-> kind, id |-> id, obj |-> obj, exp |-> exp,
                              at |-> "queued", ok |-> TRUE, orphan |-> FALSE]
         /\ \A j \in Jobs : j # <<c, l>> => job'[j] = job[j]
<1>1. <<c, l>> \in Jobs
  BY DEF Jobs
<1> QED BY <1>1 DEF Submit, TypeOK, NoJob, Calls, Places

\* A session is started by a connection that never had one.
LEMMA StartKeeps ==
  ASSUME Inv, NEW c \in Conns, NEW id \in IdsOf[c], StartCommand(c, id)
  PROVE  ConnInv(c)' /\ Elsewhere(c) /\ TypeOK' /\ LoopInv'
<1>1. TypeOK /\ ConnInv(c) /\ id \in Ids
  BY ServerAssumption DEF Inv
<1>2. /\ phase[c] = "running" /\ pc[c] = "idle" /\ session[c] = None
      /\ UNCHANGED <<phase, session, sid, learned, ahead, registry, sess, version, loop>>
      /\ pc' = [pc EXCEPT ![c] = "starting"] /\ loop = Idle
  BY DEF StartCommand, ConsumerIdle, coreVars
<1>3. /\ job' \in [Jobs -> Calls]
      /\ Consumer(c)' = [kind |-> "create", id |-> id, obj |-> None, exp |-> 0,
                         at |-> "queued", ok |-> TRUE, orphan |-> FALSE]
      /\ \A j \in Jobs : j # <<c, "consumer">> => job'[j] = job[j]
  <2>1. Submit(<<c, "consumer">>, "create", id, None, 0)
    BY DEF StartCommand
  <2>2. "consumer" \in Lanes /\ "create" \in Kinds /\ 0 \in Nat
    BY DEF Lanes, Kinds
  <2> QED BY <1>1, <2>1, <2>2, Submitted DEF Consumer
<1>4. Cleaner(c)' = Cleaner(c) /\ pc'[c] = "starting" /\ Elsewhere(c)
  BY <1>1, <1>2, <1>3 DEF Elsewhere, Same, Consumer, Cleaner, Jobs, Lanes, TypeOK
<1>5. TypeOK' /\ LoopInv'
  BY <1>1, <1>2, <1>3 DEF TypeOK, LoopInv, Idle
<1>6. Fresh(c) /\ Cleaner(c).kind = "none" /\ Consumer(c).kind = "none"
  BY <1>1, <1>2 DEF ConnInv, PlaceInv, PhaseInv
<1>7. ConnInv(c)'
  BY <1>1, <1>2, <1>3, <1>4, <1>6
  DEF ConnInv, CallInv, PhaseInv, PlaceInv, CreateInv, EntryInv, HeldInv, ResetInv, OpenInv,
      Fresh, HasEntry, Entry, Out, Outran, Popped, Removes
<1> QED BY <1>4, <1>5, <1>7

\* A call's record is replaced.
LEMMA Replaced ==
  ASSUME TypeOK, NEW c \in Conns, NEW l \in Lanes, NEW r \in Calls,
         job' = [job EXCEPT ![<<c, l>>] = r]
  PROVE  /\ job' \in [Jobs -> Calls]
         /\ job'[<<c, l>>] = r
         /\ \A j \in Jobs : j # <<c, l>> => job'[j] = job[j]
<1>1. <<c, l>> \in Jobs
  BY DEF Jobs
<1> QED BY <1>1 DEF TypeOK

\* A lane without a call.
LEMMA NoJobTyped == NoJob \in Calls
BY DEF NoJob, Calls, Kinds, Places

\* A new connection runs.
LEMMA AcceptKeeps ==
  ASSUME Inv, NEW c \in Conns, Accept(c)
  PROVE  ConnInv(c)' /\ Elsewhere(c) /\ TypeOK' /\ LoopInv'
<1>1. TypeOK /\ ConnInv(c)
  BY DEF Inv
<1>2. /\ phase[c] = "new" /\ phase' = [phase EXCEPT ![c] = "running"] /\ loop = Idle
      /\ UNCHANGED <<pc, session, sid, job, learned, ahead, registry, sess, version, loop>>
  BY DEF Accept, coreVars
<1>3. /\ Consumer(c)' = Consumer(c) /\ Cleaner(c)' = Cleaner(c) /\ phase'[c] = "running"
      /\ Elsewhere(c)
  BY <1>1, <1>2 DEF Elsewhere, Same, Consumer, Cleaner, TypeOK
<1>4. TypeOK' /\ LoopInv'
  BY <1>1, <1>2 DEF TypeOK, LoopInv, Idle
<1>5. ConnInv(c)'
  BY <1>1, <1>2, <1>3
  DEF ConnInv, CallInv, PhaseInv, PlaceInv, CreateInv, EntryInv, HeldInv, ResetInv, OpenInv,
      Fresh, HasEntry, Entry, Out, Outran, Popped, Removes
<1> QED BY <1>3, <1>4, <1>5

\* A call of the session, which is open to commands.
LEMMA CallKeeps ==
  ASSUME Inv, NEW c \in Conns, CallCommand(c)
  PROVE  ConnInv(c)' /\ Elsewhere(c) /\ TypeOK' /\ LoopInv'
<1>1. TypeOK /\ ConnInv(c)
  BY DEF Inv
<1>2. /\ phase[c] = "running" /\ pc[c] = "idle" /\ session[c] = c /\ loop = Idle
      /\ UNCHANGED <<phase, session, sid, learned, ahead, registry, sess, version, loop>>
      /\ pc' = [pc EXCEPT ![c] = "calling"]
  BY <1>1 DEF CallCommand, ConsumerIdle, coreVars, ConnInv, PhaseInv
<1>3. /\ job' \in [Jobs -> Calls]
      /\ Consumer(c)' = [kind |-> "call", id |-> None, obj |-> c, exp |-> 0,
                         at |-> "queued", ok |-> TRUE, orphan |-> FALSE]
      /\ \A j \in Jobs : j # <<c, "consumer">> => job'[j] = job[j]
  <2>1. Submit(<<c, "consumer">>, "call", None, c, 0)
    BY <1>2 DEF CallCommand
  <2>2. "consumer" \in Lanes /\ "call" \in Kinds /\ 0 \in Nat
    BY DEF Lanes, Kinds
  <2> QED BY <1>1, <2>1, <2>2, Submitted DEF Consumer
<1>4. Cleaner(c)' = Cleaner(c) /\ pc'[c] = "calling" /\ Elsewhere(c)
  BY <1>1, <1>2, <1>3 DEF Elsewhere, Same, Consumer, Cleaner, Jobs, Lanes, TypeOK
<1>5. TypeOK' /\ LoopInv'
  BY <1>1, <1>2, <1>3 DEF TypeOK, LoopInv, Idle
<1>6. /\ sid[c] # None /\ Entry(c, sid[c]) /\ sid[c] \in Ids /\ HasEntry(c)
      /\ sess[c] \notin {"none", "closed"} /\ ~Out(c) /\ version[c] \in Nat
      /\ Cleaner(c).kind = "none" /\ Consumer(c).kind = "none"
  BY <1>1, <1>2, ServerAssumption
  DEF ConnInv, HeldInv, PhaseInv, PlaceInv, EntryInv, HasEntry, Out, TypeOK
<1>7. /\ Cleaner(c)' = Cleaner(c) /\ (HasEntry(c)' <=> HasEntry(c)) /\ ~Out(c)'
  BY <1>1, <1>2, <1>4, <1>6 DEF Out, HasEntry, Entry, TypeOK
<1>8. ConnInv(c)'
  BY <1>1, <1>2, <1>3, <1>4, <1>6, <1>7
  DEF ConnInv, CallInv, PhaseInv, PlaceInv, CreateInv, EntryInv, HeldInv, ResetInv, OpenInv,
      Fresh, Entry, HasEntry
<1> QED BY <1>4, <1>5, <1>8

\* A reset, whatever state_version it claims: who claims a later one is ahead.
LEMMA ResetKeeps ==
  ASSUME Inv, NEW c \in Conns, NEW exp \in Nat, ResetCommand(c, exp)
  PROVE  ConnInv(c)' /\ Elsewhere(c) /\ TypeOK' /\ LoopInv'
<1>1. TypeOK /\ ConnInv(c)
  BY DEF Inv
<1>2. /\ phase[c] = "running" /\ pc[c] = "idle" /\ session[c] = c /\ loop = Idle
      /\ UNCHANGED <<phase, session, sid, learned, registry, sess, version, loop>>
      /\ pc' = [pc EXCEPT ![c] = "calling"]
      /\ ahead' = IF exp > version[c] THEN ahead \cup {c} ELSE ahead
  BY <1>1 DEF ResetCommand, ConsumerIdle, coreVars, ConnInv, PhaseInv
<1>3. /\ job' \in [Jobs -> Calls]
      /\ Consumer(c)' = [kind |-> "reset", id |-> None, obj |-> c, exp |-> exp,
                         at |-> "queued", ok |-> TRUE, orphan |-> FALSE]
      /\ \A j \in Jobs : j # <<c, "consumer">> => job'[j] = job[j]
  <2>1. Submit(<<c, "consumer">>, "reset", None, c, exp)
    BY <1>2 DEF ResetCommand
  <2>2. "consumer" \in Lanes /\ "reset" \in Kinds /\ exp \in Nat
    BY DEF Lanes, Kinds
  <2> QED BY <1>1, <2>1, <2>2, Submitted DEF Consumer
<1>4. Cleaner(c)' = Cleaner(c) /\ pc'[c] = "calling" /\ Elsewhere(c)
  BY <1>1, <1>2, <1>3 DEF Elsewhere, Same, Consumer, Cleaner, Jobs, Lanes, TypeOK
<1>5. TypeOK' /\ LoopInv'
  BY <1>1, <1>2, <1>3 DEF TypeOK, LoopInv, Idle
<1>6. /\ sid[c] # None /\ Entry(c, sid[c]) /\ sid[c] \in Ids /\ HasEntry(c)
      /\ sess[c] \notin {"none", "closed"} /\ ~Out(c) /\ version[c] \in Nat
      /\ Cleaner(c).kind = "none" /\ Consumer(c).kind = "none"
  BY <1>1, <1>2, ServerAssumption
  DEF ConnInv, HeldInv, PhaseInv, PlaceInv, EntryInv, HasEntry, Out, TypeOK
<1>7. /\ Cleaner(c)' = Cleaner(c) /\ (HasEntry(c)' <=> HasEntry(c)) /\ ~Out(c)'
      /\ (c \notin ahead' => exp <= version[c]) /\ ahead' \subseteq Conns
  BY <1>1, <1>2, <1>4, <1>6 DEF Out, HasEntry, Entry, TypeOK
<1>8. ConnInv(c)'
  BY <1>1, <1>2, <1>3, <1>4, <1>6, <1>7
  DEF ConnInv, CallInv, PhaseInv, PlaceInv, CreateInv, EntryInv, HeldInv, ResetInv, OpenInv,
      Fresh, Entry, HasEntry
<1> QED BY <1>4, <1>5, <1>8

\* The client's stop.
LEMMA StopKeeps ==
  ASSUME Inv, NEW c \in Conns, StopCommand(c)
  PROVE  ConnInv(c)' /\ Elsewhere(c) /\ TypeOK' /\ LoopInv'
<1>1. TypeOK /\ ConnInv(c)
  BY DEF Inv
<1>2. /\ phase[c] = "running" /\ pc[c] = "idle" /\ session[c] = c /\ loop = Idle
      /\ UNCHANGED <<phase, session, sid, learned, ahead, registry, sess, version, loop>>
      /\ pc' = [pc EXCEPT ![c] = "stopping"]
  BY <1>1 DEF StopCommand, ConsumerIdle, coreVars, ConnInv, PhaseInv
<1>3. /\ job' \in [Jobs -> Calls]
      /\ Consumer(c)' = [kind |-> "stop", id |-> None, obj |-> c, exp |-> 0,
                         at |-> "queued", ok |-> TRUE, orphan |-> FALSE]
      /\ \A j \in Jobs : j # <<c, "consumer">> => job'[j] = job[j]
  <2>1. Submit(<<c, "consumer">>, "stop", None, c, 0)
    BY <1>2 DEF StopCommand
  <2>2. "consumer" \in Lanes /\ "stop" \in Kinds /\ 0 \in Nat
    BY DEF Lanes, Kinds
  <2> QED BY <1>1, <2>1, <2>2, Submitted DEF Consumer
<1>4. Cleaner(c)' = Cleaner(c) /\ pc'[c] = "stopping" /\ Elsewhere(c)
  BY <1>1, <1>2, <1>3 DEF Elsewhere, Same, Consumer, Cleaner, Jobs, Lanes, TypeOK
<1>5. TypeOK' /\ LoopInv'
  BY <1>1, <1>2, <1>3 DEF TypeOK, LoopInv, Idle
<1>6. ConnInv(c)'
  BY <1>1, <1>2, <1>3, <1>4
  DEF ConnInv, CallInv, PhaseInv, PlaceInv, CreateInv, EntryInv, HeldInv, ResetInv, OpenInv,
      Fresh, HasEntry, Entry, Out, Outran, Popped, Removes
<1> QED BY <1>4, <1>5, <1>6

\* The run ends: a call that runs on is an orphan.
LEMMA EndKeeps ==
  ASSUME Inv, NEW c \in Conns, NEW next \in {"closing", "teardown"}, EndRun(c, next)
  PROVE  ConnInv(c)' /\ Elsewhere(c) /\ TypeOK' /\ LoopInv'
<1>1. TypeOK /\ ConnInv(c) /\ Consumer(c) \in Calls
  BY DEF Inv, TypeOK, Consumer, Jobs, Lanes
<1>2. /\ phase[c] = "running" /\ loop = Idle
      /\ UNCHANGED <<session, sid, learned, ahead, registry, sess, version, loop>>
      /\ pc' = [pc EXCEPT ![c] = "ended"] /\ phase' = [phase EXCEPT ![c] = next]
  BY DEF EndRun, coreVars
<1>3. PICK r \in Calls :
        /\ IF Consumer(c).at \in {"queued", "done", "none"} THEN r = NoJob
           ELSE r = [Consumer(c) EXCEPT !.orphan = TRUE]
        /\ job' = [job EXCEPT ![<<c, "consumer">>] = r]
  BY <1>1, NoJobTyped DEF EndRun, Abandoned, Consumer, Calls
<1>4. /\ job' \in [Jobs -> Calls] /\ Consumer(c)' = r
      /\ \A j \in Jobs : j # <<c, "consumer">> => job'[j] = job[j]
  <2>1. "consumer" \in Lanes
    BY DEF Lanes
  <2>2. r \in Calls /\ job' = [job EXCEPT ![<<c, "consumer">>] = r]
    BY <1>3
  <2> QED BY <1>1, <2>1, <2>2, Replaced DEF Consumer
<1>5. Cleaner(c)' = Cleaner(c) /\ pc'[c] = "ended" /\ phase'[c] = next /\ Elsewhere(c)
  BY <1>1, <1>2, <1>4 DEF Elsewhere, Same, Consumer, Cleaner, Jobs, Lanes, TypeOK
<1>6. TypeOK' /\ LoopInv'
  BY <1>1, <1>2, <1>4 DEF TypeOK, LoopInv, Idle
<1>7. Consumer(c).at \in {"queued", "done", "none"} => ~Removes(Consumer(c))
  BY DEF Removes
<1>8. ASSUME Consumer(c).at \in {"queued", "done", "none"} PROVE ConnInv(c)'
  BY <1>1, <1>2, <1>3, <1>4, <1>5, <1>7, <1>8
  DEF ConnInv, CallInv, PhaseInv, PlaceInv, CreateInv, EntryInv, HeldInv, ResetInv, OpenInv,
      Fresh, HasEntry, Entry, Out, Outran, Popped, Removes, NoJob
<1>9. ASSUME Consumer(c).at \notin {"queued", "done", "none"} PROVE ConnInv(c)'
  <2>1. /\ r.orphan /\ r.at \notin {"done", "none", "queued"}
        /\ r.kind = Consumer(c).kind /\ r.id = Consumer(c).id /\ r.obj = Consumer(c).obj
        /\ r.exp = Consumer(c).exp /\ r.at = Consumer(c).at /\ r.ok = Consumer(c).ok
    BY <1>3, <1>9 DEF Calls
  <2> QED
    BY <1>1, <1>2, <1>4, <1>5, <2>1
    DEF ConnInv, CallInv, PhaseInv, PlaceInv, CreateInv, EntryInv, HeldInv, ResetInv, OpenInv,
        Fresh, HasEntry, Entry, Out, Outran, Popped, Removes
<1> QED BY <1>5, <1>6, <1>8, <1>9

\* The connection learns of its session, which is registered and open.
LEMMA StartedKeeps ==
  ASSUME Inv, NEW c \in Conns, ResumeStarted(c)
  PROVE  ConnInv(c)' /\ Elsewhere(c) /\ TypeOK' /\ LoopInv'
<1>1. TypeOK /\ ConnInv(c) /\ Consumer(c) \in Calls
  BY DEF Inv, TypeOK, Consumer, Jobs, Lanes
<1>2. /\ phase[c] = "running" /\ pc[c] = "starting" /\ loop = Idle
      /\ Consumer(c).at = "done" /\ Consumer(c).ok
      /\ session' = [session EXCEPT ![c] = Consumer(c).obj]
      /\ sid' = [sid EXCEPT ![c] = Consumer(c).id]
      /\ pc' = [pc EXCEPT ![c] = "idle"]
      /\ learned' = learned \cup {c}
      /\ job' = [job EXCEPT ![<<c, "consumer">>] = NoJob]
      /\ UNCHANGED <<phase, ahead, registry, sess, version, loop>>
  BY DEF ResumeStarted, Resume, Consumer, coreVars
<1>3. /\ job' \in [Jobs -> Calls] /\ Consumer(c)' = NoJob
      /\ \A j \in Jobs : j # <<c, "consumer">> => job'[j] = job[j]
  <2>1. "consumer" \in Lanes
    BY DEF Lanes
  <2>2. job' = [job EXCEPT ![<<c, "consumer">>] = NoJob]
    BY <1>2
  <2> QED BY <1>1, <2>1, <2>2, NoJobTyped, Replaced DEF Consumer
<1>4. /\ Consumer(c).kind = "create" /\ Consumer(c).obj = c /\ Entry(c, Consumer(c).id)
      /\ Cleaner(c).kind = "none" /\ Consumer(c).id \in Ids
  BY <1>1, <1>2, ServerAssumption DEF ConnInv, PlaceInv, CreateInv, CallInv
<1>5. /\ Cleaner(c)' = Cleaner(c) /\ pc'[c] = "idle" /\ session'[c] = c
      /\ sid'[c] = Consumer(c).id /\ c \in learned' /\ Elsewhere(c)
  BY <1>1, <1>2, <1>3, <1>4 DEF Elsewhere, Same, Consumer, Cleaner, Jobs, Lanes, TypeOK
<1>6. TypeOK' /\ LoopInv'
  BY <1>1, <1>2, <1>3, <1>4 DEF TypeOK, LoopInv, Idle
<1>7. CallInv(c, Consumer(c))' /\ CallInv(c, Cleaner(c))' /\ PhaseInv(c)' /\ PlaceInv(c)'
  BY ServerAssumption, <1>1, <1>2, <1>3, <1>4, <1>5
  DEF ConnInv, CallInv, PhaseInv, PlaceInv, Entry, NoJob
<1>8. CreateInv(c)' /\ ResetInv(c)' /\ OpenInv(c)'
  BY <1>1, <1>2, <1>3, <1>4, <1>5
  DEF ConnInv, CreateInv, ResetInv, OpenInv, HasEntry, Entry, Popped, Removes, NoJob
<1>9. HeldInv(c)'
  BY ServerAssumption, <1>1, <1>2, <1>3, <1>4, <1>5
  DEF ConnInv, CreateInv, HeldInv, Entry
<1>10. EntryInv(c)'
  BY <1>1, <1>2, <1>3, <1>4, <1>5
  DEF ConnInv, EntryInv, Entry
<1> QED BY <1>5, <1>6, <1>7, <1>8, <1>9, <1>10 DEF ConnInv

\* A command of the session has been answered.
LEMMA CalledKeeps ==
  ASSUME Inv, NEW c \in Conns, ResumeCalled(c)
  PROVE  ConnInv(c)' /\ Elsewhere(c) /\ TypeOK' /\ LoopInv'
<1>1. TypeOK /\ ConnInv(c)
  BY DEF Inv
<1>2. /\ phase[c] = "running" /\ pc[c] = "calling" /\ loop = Idle
      /\ pc' = [pc EXCEPT ![c] = "idle"]
      /\ job' = [job EXCEPT ![<<c, "consumer">>] = NoJob]
      /\ UNCHANGED <<phase, session, sid, learned, ahead, registry, sess, version, loop>>
  BY DEF ResumeCalled, Resume, coreVars
<1>3. /\ job' \in [Jobs -> Calls] /\ Consumer(c)' = NoJob
      /\ \A j \in Jobs : j # <<c, "consumer">> => job'[j] = job[j]
  <2>1. "consumer" \in Lanes
    BY DEF Lanes
  <2>2. job' = [job EXCEPT ![<<c, "consumer">>] = NoJob]
    BY <1>2
  <2> QED BY <1>1, <2>1, <2>2, NoJobTyped, Replaced DEF Consumer
<1>4. Cleaner(c)' = Cleaner(c) /\ pc'[c] = "idle" /\ Elsewhere(c)
  BY <1>1, <1>2, <1>3 DEF Elsewhere, Same, Consumer, Cleaner, Jobs, Lanes, TypeOK
<1>5. TypeOK' /\ LoopInv'
  BY <1>1, <1>2, <1>3 DEF TypeOK, LoopInv, Idle
<1>6. session[c] = c /\ session[c] # None
  BY <1>1, <1>2, ServerAssumption DEF ConnInv, PlaceInv
<1>7. ConnInv(c)'
  BY <1>1, <1>2, <1>3, <1>4, <1>6
  DEF ConnInv, CallInv, PhaseInv, PlaceInv, CreateInv, EntryInv, HeldInv, ResetInv, OpenInv,
      Fresh, HasEntry, Entry, Out, Outran, Popped, Removes, NoJob
<1> QED BY <1>4, <1>5, <1>7

\* The session is given up, and its entry is removed.
LEMMA RemoveStoppedKeeps ==
  ASSUME Inv, NEW c \in Conns, RemoveStopped(c), loop' = Idle,
         phase[c] = "running", pc[c] = "stopping", Consumer(c).at = "done"
  PROVE  ConnInv(c)' /\ Elsewhere(c) /\ TypeOK' /\ LoopInv'
<1>1. TypeOK /\ ConnInv(c)
  BY DEF Inv
<1>2. /\ session' = [session EXCEPT ![c] = None]
      /\ pc' = [pc EXCEPT ![c] = "removing"]
      /\ UNCHANGED <<phase, sid, learned, ahead, registry, sess, version>>
  BY DEF RemoveStopped, coreVars
<1>3. /\ Consumer(c).kind = "stop" /\ session[c] # None /\ Cleaner(c).kind = "none"
      /\ sid[c] # None /\ Entry(c, sid[c]) /\ sid[c] \in Ids /\ sid[c] \in IdsOf[c]
  BY <1>1, ServerAssumption DEF ConnInv, PlaceInv, HeldInv, PhaseInv, Entry
<1>4. /\ job' \in [Jobs -> Calls]
      /\ Consumer(c)' = [kind |-> "remove", id |-> sid[c], obj |-> None, exp |-> 0,
                         at |-> "queued", ok |-> TRUE, orphan |-> FALSE]
      /\ \A j \in Jobs : j # <<c, "consumer">> => job'[j] = job[j]
  <2>1. Submit(<<c, "consumer">>, "remove", sid[c], None, 0)
    BY DEF RemoveStopped
  <2>2. "consumer" \in Lanes /\ "remove" \in Kinds /\ 0 \in Nat
    BY DEF Lanes, Kinds
  <2> QED BY <1>1, <1>3, <2>1, <2>2, Submitted DEF Consumer
<1>5. /\ Cleaner(c)' = Cleaner(c) /\ pc'[c] = "removing" /\ session'[c] = None /\ Elsewhere(c)
  BY <1>1, <1>2, <1>4 DEF Elsewhere, Same, Consumer, Cleaner, Jobs, Lanes, TypeOK
<1>6. TypeOK' /\ LoopInv'
  BY <1>1, <1>2, <1>4 DEF TypeOK, LoopInv, Idle
<1>7. ConnInv(c)'
  BY <1>1, <1>2, <1>3, <1>4, <1>5
  DEF ConnInv, CallInv, PhaseInv, PlaceInv, CreateInv, EntryInv, HeldInv, ResetInv, OpenInv,
      Fresh, HasEntry, Entry, Out, Outran, Popped, Removes, NoJob
<1> QED BY <1>5, <1>6, <1>7

\* The removal has returned: no entry is left that the connection knew.
LEMMA RemovedKeeps ==
  ASSUME Inv, NEW c \in Conns, NEW next \in {"closing", "teardown"}, ResumeRemoved(c, next)
  PROVE  ConnInv(c)' /\ Elsewhere(c) /\ TypeOK' /\ LoopInv'
<1>1. TypeOK /\ ConnInv(c)
  BY DEF Inv
<1>2. /\ phase[c] = "running" /\ pc[c] = "removing" /\ loop = Idle /\ Consumer(c).at = "done"
      /\ pc' = [pc EXCEPT ![c] = "ended"] /\ phase' = [phase EXCEPT ![c] = next]
      /\ sid' = [sid EXCEPT ![c] = None]
      /\ job' = [job EXCEPT ![<<c, "consumer">>] = NoJob]
      /\ UNCHANGED <<session, learned, ahead, registry, sess, version, loop>>
  BY DEF ResumeRemoved, Resume, Consumer, coreVars
<1>3. /\ job' \in [Jobs -> Calls] /\ Consumer(c)' = NoJob
      /\ \A j \in Jobs : j # <<c, "consumer">> => job'[j] = job[j]
  <2>1. "consumer" \in Lanes
    BY DEF Lanes
  <2>2. job' = [job EXCEPT ![<<c, "consumer">>] = NoJob]
    BY <1>2
  <2> QED BY <1>1, <2>1, <2>2, NoJobTyped, Replaced DEF Consumer
<1>4. /\ Cleaner(c)' = Cleaner(c) /\ pc'[c] = "ended" /\ phase'[c] = next
      /\ sid'[c] = None /\ Elsewhere(c)
  BY <1>1, <1>2, <1>3 DEF Elsewhere, Same, Consumer, Cleaner, Jobs, Lanes, TypeOK
<1>5. TypeOK' /\ LoopInv'
  BY <1>1, <1>2, <1>3 DEF TypeOK, LoopInv, Idle
<1>6. /\ Consumer(c).kind = "remove" /\ Consumer(c).id = sid[c] /\ registry[sid[c]] # c
      /\ Cleaner(c).kind = "none" /\ session[c] = None /\ ~Removes(Consumer(c))
  BY <1>1, <1>2 DEF ConnInv, PlaceInv, CallInv, PhaseInv, Removes
<1>7. ConnInv(c)'
  BY <1>1, <1>2, <1>3, <1>4, <1>6
  DEF ConnInv, CallInv, PhaseInv, PlaceInv, CreateInv, EntryInv, HeldInv, ResetInv, OpenInv,
      Fresh, HasEntry, Entry, Out, Outran, Popped, Removes, NoJob
<1> QED BY <1>4, <1>5, <1>7

\* The client has been told of the failure.
LEMMA ErrorClosedKeeps ==
  ASSUME Inv, NEW c \in Conns, ErrorClosed(c)
  PROVE  ConnInv(c)' /\ Elsewhere(c) /\ TypeOK' /\ LoopInv'
<1>1. TypeOK /\ ConnInv(c)
  BY DEF Inv
<1>2. /\ phase[c] = "closing" /\ phase' = [phase EXCEPT ![c] = "teardown"] /\ loop = Idle
      /\ UNCHANGED <<pc, session, sid, job, learned, ahead, registry, sess, version, loop>>
  BY DEF ErrorClosed, coreVars
<1>3. /\ Consumer(c)' = Consumer(c) /\ Cleaner(c)' = Cleaner(c) /\ phase'[c] = "teardown"
      /\ Elsewhere(c)
  BY <1>1, <1>2 DEF Elsewhere, Same, Consumer, Cleaner, TypeOK
<1>4. TypeOK' /\ LoopInv'
  BY <1>1, <1>2 DEF TypeOK, LoopInv, Idle
<1>5. ConnInv(c)'
  BY <1>1, <1>2, <1>3
  DEF ConnInv, CallInv, PhaseInv, PlaceInv, CreateInv, EntryInv, HeldInv, ResetInv, OpenInv,
      Fresh, HasEntry, Entry, Out, Outran, Popped, Removes
<1> QED BY <1>3, <1>4, <1>5

\* The session is forgotten, and its entry, if it has one, removed.
LEMMA CleanupKeeps ==
  ASSUME Inv, NEW c \in Conns, Cleanup(c), loop' = Idle, phase[c] = "teardown"
  PROVE  ConnInv(c)' /\ Elsewhere(c) /\ TypeOK' /\ LoopInv'
<1>1. TypeOK /\ ConnInv(c)
  BY DEF Inv
<1>2. /\ session' = [session EXCEPT ![c] = None] /\ sid' = [sid EXCEPT ![c] = None]
      /\ UNCHANGED <<pc, learned, ahead, registry, sess, version>>
  BY DEF Cleanup, coreVars
<1>3. CASE sid[c] = None
  <2>1. phase' = [phase EXCEPT ![c] = "gone"] /\ UNCHANGED job
    BY <1>3 DEF Cleanup, NeedsRemoval
  <2>2. /\ Cleaner(c)' = Cleaner(c) /\ Consumer(c)' = Consumer(c) /\ phase'[c] = "gone"
        /\ sid'[c] = None /\ session'[c] = None /\ Elsewhere(c)
    BY <1>1, <1>2, <2>1 DEF Elsewhere, Same, Consumer, Cleaner, TypeOK
  <2>3. TypeOK' /\ LoopInv'
    BY <1>1, <1>2, <2>1 DEF TypeOK, LoopInv, Idle
  <2>4. ConnInv(c)'
    BY ServerAssumption, <1>1, <1>2, <1>3, <2>1, <2>2
    DEF ConnInv, CallInv, PhaseInv, PlaceInv, CreateInv, EntryInv, HeldInv, ResetInv, OpenInv,
        Fresh, HasEntry, Entry, Out, Outran, Popped, Removes, NoJob
  <2> QED BY <2>2, <2>3, <2>4
<1>4. CASE sid[c] # None
  <2>1. phase' = [phase EXCEPT ![c] = "cleanup"]
    BY <1>4 DEF Cleanup, NeedsRemoval
  <2>2. sid[c] \in IdsOf[c] /\ sid[c] \in Ids
    BY <1>1, <1>4, ServerAssumption DEF ConnInv, PhaseInv
  <2>3. /\ job' \in [Jobs -> Calls]
        /\ Cleaner(c)' = [kind |-> "remove", id |-> sid[c], obj |-> None, exp |-> 0,
                          at |-> "queued", ok |-> TRUE, orphan |-> FALSE]
        /\ \A j \in Jobs : j # <<c, "cleanup">> => job'[j] = job[j]
    <3>1. Submit(<<c, "cleanup">>, "remove", sid[c], None, 0)
      BY <1>4 DEF Cleanup, NeedsRemoval
    <3>2. "cleanup" \in Lanes /\ "remove" \in Kinds /\ 0 \in Nat
      BY DEF Lanes, Kinds
    <3> QED BY <1>1, <2>2, <3>1, <3>2, Submitted DEF Cleaner
  <2>4. /\ Consumer(c)' = Consumer(c) /\ phase'[c] = "cleanup"
        /\ sid'[c] = None /\ session'[c] = None /\ Elsewhere(c)
    BY <1>1, <1>2, <2>1, <2>3 DEF Elsewhere, Same, Consumer, Cleaner, Jobs, Lanes, TypeOK
  <2>5. TypeOK' /\ LoopInv'
    BY <1>1, <1>2, <2>1, <2>3 DEF TypeOK, LoopInv, Idle
  <2>6. Cleaner(c).kind = "none"
    BY <1>1 DEF ConnInv, PhaseInv
  <2>7. ConnInv(c)'
    BY ServerAssumption, <1>1, <1>2, <1>4, <2>1, <2>2, <2>3, <2>4, <2>6
    DEF ConnInv, CallInv, PhaseInv, PlaceInv, CreateInv, EntryInv, HeldInv, ResetInv, OpenInv,
        Fresh, HasEntry, Entry, Out, Outran, Popped, Removes, NoJob
  <2> QED BY <2>4, <2>5, <2>7
<1> QED BY <1>3, <1>4

\* The cleanup has returned.
LEMMA CleanedKeeps ==
  ASSUME Inv, NEW c \in Conns, EndCleanup(c)
  PROVE  ConnInv(c)' /\ Elsewhere(c) /\ TypeOK' /\ LoopInv'
<1>1. TypeOK /\ ConnInv(c)
  BY DEF Inv
<1>2. /\ phase[c] = "cleanup" /\ loop = Idle /\ Cleaner(c).at = "done"
      /\ phase' = [phase EXCEPT ![c] = "gone"]
      /\ job' = [job EXCEPT ![<<c, "cleanup">>] = NoJob]
      /\ UNCHANGED <<pc, session, sid, learned, ahead, registry, sess, version, loop>>
  BY DEF EndCleanup, Cleaner, coreVars
<1>3. /\ job' \in [Jobs -> Calls] /\ Cleaner(c)' = NoJob
      /\ \A j \in Jobs : j # <<c, "cleanup">> => job'[j] = job[j]
  <2>1. "cleanup" \in Lanes
    BY DEF Lanes
  <2>2. job' = [job EXCEPT ![<<c, "cleanup">>] = NoJob]
    BY <1>2
  <2> QED BY <1>1, <2>1, <2>2, NoJobTyped, Replaced DEF Cleaner
<1>4. Consumer(c)' = Consumer(c) /\ phase'[c] = "gone" /\ Elsewhere(c)
  BY <1>1, <1>2, <1>3 DEF Elsewhere, Same, Consumer, Cleaner, Jobs, Lanes, TypeOK
<1>5. TypeOK' /\ LoopInv'
  BY <1>1, <1>2, <1>3 DEF TypeOK, LoopInv, Idle
<1>6. ~Removes(Cleaner(c)) /\ session[c] = None /\ sid[c] = None
  BY <1>1, <1>2 DEF ConnInv, PhaseInv, Removes
<1>7. ConnInv(c)'
  BY ServerAssumption, <1>1, <1>2, <1>3, <1>4, <1>6
  DEF ConnInv, CallInv, PhaseInv, PlaceInv, CreateInv, EntryInv, HeldInv, ResetInv, OpenInv,
      Fresh, HasEntry, Entry, Out, Outran, Popped, Removes, NoJob
<1> QED BY <1>4, <1>5, <1>7

\* A step of one connection, and the rest of the server.
LEMMA OneKeeps ==
  ASSUME Inv, NEW c \in Conns, ConnInv(c)', Elsewhere(c), TypeOK', LoopInv', RegistryInv'
  PROVE  Inv'
<1>1. ASSUME NEW d \in Conns PROVE ConnInv(d)'
  BY SameKeeps DEF Elsewhere
<1> QED BY <1>1 DEF Inv

\* The loop waits for a lock, or goes on and finds nothing changed.
LEMMA WaitingKeeps ==
  ASSUME Inv, UNCHANGED <<connVars, job, coreVars>>, LoopInv',
         loop' \in {Idle, <<"readiness">>} \cup ({"cleanup", "stopped", "snapshot"} \X Conns)
  PROVE  Inv'
<1>1. UNCHANGED <<phase, pc, session, sid, learned, ahead, job, registry, sess, version>>
  BY DEF connVars, coreVars
<1>2. ASSUME NEW d \in Conns PROVE ConnInv(d)'
  <2>1. Same(d)
    BY <1>1 DEF Same, Consumer, Cleaner
  <2> QED BY <2>1, SameKeeps
<1>3. TypeOK'
  BY <1>1 DEF Inv, TypeOK
<1>4. RegistryInv'
  BY CoreKept DEF Inv
<1> QED BY <1>2, <1>3, <1>4 DEF Inv

\* Whatever a task of the event loop does.
LEMMA LoopStepKeeps ==
  ASSUME Inv, NEW c \in Conns, LoopStep(c)
  PROVE  Inv'
<1> DEFINE Keeps == ConnInv(c)' /\ Elsewhere(c) /\ TypeOK' /\ LoopInv' /\ UNCHANGED coreVars
<1>1. SUFFICES ASSUME ~Keeps PROVE Inv'
  BY OneKeeps, CoreKept DEF Inv
<1>2. CASE ResumeStopped(c)
  <2>1. loop = Idle /\ phase[c] = "running" /\ pc[c] = "stopping" /\ Consumer(c).at = "done"
    BY <1>2 DEF ResumeStopped, Resume, Consumer
  <2>2. CASE SessionHeld(session[c])
    <3>1. loop' = <<"stopped", c>> /\ UNCHANGED <<connVars, job, coreVars>>
      BY <1>2, <2>2 DEF ResumeStopped
    <3>2. LoopInv'
      BY <2>1, <3>1 DEF LoopInv, connVars, Consumer
    <3> QED BY <3>1, <3>2, WaitingKeeps
  <2>3. CASE ~SessionHeld(session[c])
    <3>1. RemoveStopped(c) /\ loop' = Idle
      BY <1>2, <2>1, <2>3 DEF ResumeStopped
    <3> QED BY <1>1, <2>1, <3>1, RemoveStoppedKeeps DEF RemoveStopped
  <2> QED BY <2>2, <2>3
<1>3. CASE BeginCleanup(c)
  <2>1. loop = Idle /\ phase[c] = "teardown"
    BY <1>3 DEF BeginCleanup
  <2>2. CASE session[c] # None /\ SessionHeld(session[c])
    <3>1. loop' = <<"cleanup", c>> /\ UNCHANGED <<connVars, job, coreVars>>
      BY <1>3, <2>2 DEF BeginCleanup
    <3>2. LoopInv'
      BY <2>1, <3>1 DEF LoopInv, connVars
    <3> QED BY <3>1, <3>2, WaitingKeeps
  <2>3. CASE ~(session[c] # None /\ SessionHeld(session[c]))
    <3>1. Cleanup(c) /\ loop' = Idle
      BY <1>3, <2>1, <2>3 DEF BeginCleanup
    <3> QED BY <1>1, <2>1, <3>1, CleanupKeeps DEF Cleanup
  <2> QED BY <2>2, <2>3
<1>4. CASE SnapshotWaits(c)
  <2>1. loop' = <<"snapshot", c>> /\ UNCHANGED <<connVars, job, coreVars>>
    BY <1>4 DEF SnapshotWaits
  <2>2. LoopInv'
    BY <2>1 DEF LoopInv
  <2> QED BY <2>1, <2>2, WaitingKeeps
<1>5. CASE Accept(c)
  BY <1>1, <1>5, AcceptKeeps DEF Accept
<1>6. CASE \E id \in IdsOf[c] : StartCommand(c, id)
  BY <1>1, <1>6, StartKeeps DEF StartCommand
<1>7. CASE CallCommand(c)
  BY <1>1, <1>7, CallKeeps DEF CallCommand
<1>8. CASE StopCommand(c)
  BY <1>1, <1>8, StopKeeps DEF StopCommand
<1>9. CASE (\E next \in {"closing", "teardown"} : EndRun(c, next)) \/ ResumeFailed(c)
  <2>1. PICK next \in {"closing", "teardown"} : EndRun(c, next)
    BY <1>9 DEF ResumeFailed
  <2> QED BY <1>1, <2>1, EndKeeps DEF EndRun
<1>10. CASE ResumeStarted(c)
  BY <1>1, <1>10, StartedKeeps DEF ResumeStarted
<1>11. CASE ResumeCalled(c)
  BY <1>1, <1>11, CalledKeeps DEF ResumeCalled
<1>12. CASE \E next \in {"closing", "teardown"} : ResumeRemoved(c, next)
  BY <1>1, <1>12, RemovedKeeps DEF ResumeRemoved
<1>13. CASE EndCleanup(c)
  BY <1>1, <1>13, CleanedKeeps DEF EndCleanup
<1>14. CASE \E exp \in 0..MaxVersion : ResetCommand(c, exp)
  <2>1. PICK exp \in Nat : ResetCommand(c, exp)
    BY <1>14, ServerAssumption
  <2> QED BY <1>1, <2>1, ResetKeeps DEF ResetCommand
<1>15. CASE ErrorClosed(c)
  BY <1>1, <1>15, ErrorClosedKeeps DEF ErrorClosed
<1> QED
  BY <1>2, <1>3, <1>4, <1>5, <1>6, <1>7, <1>8, <1>9, <1>10, <1>11, <1>12, <1>13, <1>14, <1>15
  DEF LoopStep

\* The loop goes on where it was blocked: what it found before still holds.
LEMMA LoopGoesOnKeeps ==
  ASSUME Inv, LoopGoesOn
  PROVE  Inv'
<1>1. loop' = Idle /\ TypeOK /\ loop # Idle
  BY DEF LoopGoesOn, Inv
<1>2. loop[1] \in {"readiness", "snapshot"} \/ (loop[1] \in {"cleanup", "stopped"} /\ loop[2] \in Conns)
  BY <1>1 DEF TypeOK
<1>3. CASE loop[1] \in {"readiness", "snapshot"}
  <2>1. UNCHANGED <<connVars, job, coreVars>>
    BY <1>3 DEF LoopGoesOn
  <2>2. LoopInv'
    BY <1>1 DEF LoopInv, Idle
  <2> QED BY <1>1, <2>1, <2>2, WaitingKeeps
<1>4. CASE loop[1] = "cleanup"
  <2>1. PICK c \in Conns : c = loop[2]
    BY <1>2, <1>4
  <2>2. Cleanup(c) /\ phase[c] = "teardown"
    BY <1>4, <2>1 DEF LoopGoesOn, Inv, LoopInv
  <2> QED BY <1>1, <2>2, CleanupKeeps, OneKeeps, CoreKept DEF Cleanup, Inv
<1>5. CASE loop[1] = "stopped"
  <2>1. PICK c \in Conns : c = loop[2]
    BY <1>2, <1>5
  <2>2. RemoveStopped(c) /\ phase[c] = "running" /\ pc[c] = "stopping" /\ Consumer(c).at = "done"
    BY <1>5, <2>1 DEF LoopGoesOn, Inv, LoopInv
  <2> QED BY <1>1, <2>2, RemoveStoppedKeeps, OneKeeps, CoreKept DEF RemoveStopped, Inv
<1> QED BY <1>2, <1>3, <1>4, <1>5

\* GET /readiness waits.
LEMMA ReadinessKeeps ==
  ASSUME Inv, ReadinessWaits
  PROVE  Inv'
<1>1. loop' = <<"readiness">> /\ UNCHANGED <<connVars, job, coreVars>>
  BY DEF ReadinessWaits
<1>2. LoopInv'
  BY <1>1 DEF LoopInv
<1> QED BY <1>1, <1>2, WaitingKeeps


-----------------------------------------------------------------------------
(* Steps of the worker threads *)

\* A job is a lane of a connection, and a thread leaves the other jobs.
LEMMA JobOf ==
  ASSUME TypeOK, NEW j \in Jobs
  PROVE  \E c \in Conns : \/ j = <<c, "consumer">> /\ job[j] = Consumer(c)
                          \/ j = <<c, "cleanup">> /\ job[j] = Cleaner(c)
BY DEF Jobs, Lanes, Consumer, Cleaner

\* The calls of a connection.
LEMMA JobTyped ==
  ASSUME TypeOK, NEW c \in Conns
  PROVE  Consumer(c) \in Calls /\ Cleaner(c) \in Calls
BY DEF TypeOK, Jobs, Lanes, Consumer, Cleaner

\* A call that is under way changes, and its connection's lanes with it.
LEMMA ThreadMoves ==
  ASSUME Inv, NEW c \in Conns, NEW l \in Lanes, NEW r \in Calls,
         job' = [job EXCEPT ![<<c, l>>] = r], job[<<c, l>>].at # "done",
         UNCHANGED <<connVars, loop>>
  PROVE  /\ job' \in [Jobs -> Calls] /\ LoopInv'
         /\ l = "consumer" => Consumer(c)' = r /\ Cleaner(c)' = Cleaner(c)
         /\ l = "cleanup"  => Cleaner(c)' = r /\ Consumer(c)' = Consumer(c)
         /\ \A d \in Conns \ {c} : Consumer(d)' = Consumer(d) /\ Cleaner(d)' = Cleaner(d)
<1>1. /\ job' \in [Jobs -> Calls] /\ job'[<<c, l>>] = r
      /\ \A j \in Jobs : j # <<c, l>> => job'[j] = job[j]
  <2>1. <<c, l>> \in Jobs /\ job \in [Jobs -> Calls]
    BY DEF Inv, TypeOK, Jobs
  <2> QED BY <2>1
<1>2. /\ l = "consumer" => Consumer(c)' = r /\ Cleaner(c)' = Cleaner(c)
      /\ l = "cleanup"  => Cleaner(c)' = r /\ Consumer(c)' = Consumer(c)
      /\ \A d \in Conns \ {c} : Consumer(d)' = Consumer(d) /\ Cleaner(d)' = Cleaner(d)
  BY <1>1 DEF Consumer, Cleaner, Jobs, Lanes
<1>3. LoopInv'
  <2>1. loop' = loop /\ phase' = phase /\ pc' = pc /\ LoopInv
    BY DEF connVars, Inv
  <2>2. loop[1] = "stopped" => loop[2] \in Conns
    BY DEF Inv, TypeOK, Idle
  <2>3. \A d \in Conns : Consumer(d).at = "done" => Consumer(d)' = Consumer(d)
    BY <1>2 DEF Consumer, Lanes
  <2> QED BY <2>1, <2>2, <2>3 DEF LoopInv
<1> QED BY <1>1, <1>2, <1>3

\* A call gets on: it is picked up, or takes a lock.
Advances(r, place) ==
  \/ r.at = "queued" /\ place = "started"
  \/ r.at = "started" /\ r.kind \in {"create", "remove"} /\ place = "registry"
  \/ r.at = "started" /\ r.kind \in {"call", "reset", "stop"} /\ place = "session"
  \/ r.at = "popped" /\ place = "session"

\* A call that gets on changes nothing but its place.
LEMMA AdvanceKeeps ==
  ASSUME Inv, NEW j \in Jobs, NEW place \in Places, Move(j, place), Advances(job[j], place),
         UNCHANGED <<connVars, coreVars, loop>>
  PROVE  Inv'
<1>1. PICK c \in Conns, l \in Lanes : j = <<c, l>>
  BY DEF Jobs
<1>2. PICK r : r = [job[j] EXCEPT !.at = place]
  OBVIOUS
<1>3. /\ job[j] \in Calls /\ r \in Calls
      /\ r.kind = job[j].kind /\ r.id = job[j].id /\ r.obj = job[j].obj /\ r.exp = job[j].exp
      /\ r.at = place /\ r.ok = job[j].ok /\ r.orphan = job[j].orphan
  BY <1>2 DEF Inv, TypeOK, Calls
<1>4. job' = [job EXCEPT ![<<c, l>>] = r]
  BY <1>1, <1>2 DEF Move, Inv, TypeOK
<1>5. job[<<c, l>>].at # "done" /\ place \notin {"none", "queued", "popped", "done"}
  BY <1>1 DEF Advances
<1>6. /\ job' \in [Jobs -> Calls] /\ LoopInv'
      /\ l = "consumer" => Consumer(c)' = r /\ Cleaner(c)' = Cleaner(c)
      /\ l = "cleanup"  => Cleaner(c)' = r /\ Consumer(c)' = Consumer(c)
      /\ \A d \in Conns \ {c} : Consumer(d)' = Consumer(d) /\ Cleaner(d)' = Cleaner(d)
  BY <1>3, <1>4, <1>5, ThreadMoves
<1>7. UNCHANGED <<phase, pc, session, sid, learned, ahead, registry, sess, version, loop>>
  BY DEF connVars, coreVars
<1>8. Elsewhere(c)
  BY <1>6, <1>7 DEF Elsewhere, Same
<1>9. TypeOK' /\ RegistryInv'
  BY <1>6, <1>7, CoreKept DEF Inv, TypeOK
<1>10. TypeOK /\ ConnInv(c)
  BY DEF Inv
<1>11. CASE l = "consumer"
  <2>1. /\ Consumer(c) = job[j] /\ Consumer(c)' = r /\ Cleaner(c)' = Cleaner(c)
        /\ (Removes(r) <=> Removes(Consumer(c)))
    BY <1>1, <1>3, <1>6, <1>10, <1>11 DEF Consumer, Removes, Advances, ConnInv, CallInv
  <2>2. ConnInv(c)'
    BY <1>3, <1>5, <1>7, <1>10, <2>1
    DEF ConnInv, CallInv, PhaseInv, PlaceInv, CreateInv, EntryInv, HeldInv, ResetInv, OpenInv,
        Fresh, HasEntry, Entry, Out, Outran, Popped, Advances
  <2> QED BY <1>6, <1>8, <1>9, <2>2, OneKeeps
<1>12. CASE l = "cleanup"
  <2>1. /\ Cleaner(c) = job[j] /\ Cleaner(c)' = r /\ Consumer(c)' = Consumer(c)
        /\ (Removes(r) <=> Removes(Cleaner(c)))
    BY <1>1, <1>3, <1>6, <1>10, <1>12 DEF Cleaner, Removes, Advances, ConnInv, CallInv
  <2>2. ConnInv(c)'
    BY <1>3, <1>5, <1>7, <1>10, <2>1
    DEF ConnInv, CallInv, PhaseInv, PlaceInv, CreateInv, EntryInv, HeldInv, ResetInv, OpenInv,
        Fresh, HasEntry, Entry, Out, Outran, Popped, Advances
  <2> QED BY <1>6, <1>8, <1>9, <2>2, OneKeeps
<1> QED BY <1>11, <1>12 DEF Lanes

\* What a call that returns leaves of its record.
Returned(r, ok, obj) ==
  IF r.orphan THEN NoJob ELSE [r EXCEPT !.at = "done", !.ok = ok, !.obj = obj]

\* create() raises.
LEMMA RefusedKeeps ==
  ASSUME Inv, NEW j \in Jobs, CreateRefused(j)
  PROVE  Inv'
<1>1. TypeOK /\ job[j].at = "registry" /\ job[j].kind = "create" /\ job[j] \in Calls
  BY DEF CreateRefused, At, Inv, TypeOK
<1>2. PICK c \in Conns : j = <<c, "consumer">> /\ job[j] = Consumer(c)
  BY <1>1, JobOf DEF Inv, ConnInv, PhaseInv
<1>3. PICK r : r = Returned(job[j], FALSE, None)
  OBVIOUS
<1>4. /\ r \in Calls /\ ~Removes(r) /\ (Consumer(c).orphan => r = NoJob)
      /\ ~Consumer(c).orphan =>
           /\ r.kind = "create" /\ r.id = Consumer(c).id /\ r.obj = None
           /\ r.at = "done" /\ ~r.ok /\ ~r.orphan
  BY <1>1, <1>2, <1>3, NoJobTyped DEF Returned, Calls, Places, Removes, NoJob
<1>5. job' = [job EXCEPT ![<<c, "consumer">>] = r]
  BY <1>1, <1>2, <1>3 DEF CreateRefused, Finish, Returned, TypeOK
<1>6. UNCHANGED <<phase, pc, session, sid, learned, ahead, registry, sess, version, loop>>
  BY DEF CreateRefused, connVars, coreVars
<1>7. /\ job' \in [Jobs -> Calls] /\ LoopInv'
      /\ Consumer(c)' = r /\ Cleaner(c)' = Cleaner(c)
      /\ \A d \in Conns \ {c} : Consumer(d)' = Consumer(d) /\ Cleaner(d)' = Cleaner(d)
  <2>1. job[<<c, "consumer">>].at # "done" /\ "consumer" \in Lanes /\ r \in Calls
        /\ UNCHANGED <<connVars, loop>>
    BY <1>1, <1>2, <1>4 DEF Lanes, CreateRefused
  <2> QED BY <1>5, <2>1, ThreadMoves
<1>8. Elsewhere(c)
  BY <1>6, <1>7 DEF Elsewhere, Same
<1>9. TypeOK' /\ RegistryInv'
  BY <1>6, <1>7, CoreKept DEF Inv, TypeOK, coreVars
<1>10. ConnInv(c) /\ ~Removes(Consumer(c))
  BY <1>1, <1>2 DEF Inv, Removes
<1>11. ConnInv(c)'
  BY <1>1, <1>2, <1>4, <1>6, <1>7, <1>10
  DEF ConnInv, CallInv, PhaseInv, PlaceInv, CreateInv, EntryInv, HeldInv, ResetInv, OpenInv,
      Fresh, HasEntry, Entry, Out, Outran, Popped, NoJob
<1> QED BY <1>7, <1>8, <1>9, <1>11, OneKeeps

\* The session enters the registry, where there was room for it.
LEMMA CreatedKeeps ==
  ASSUME Inv, OwnIds, NEW j \in Jobs, CreateDone(j)
  PROVE  Inv'
<1>1. TypeOK /\ job[j].at = "registry" /\ job[j].kind = "create" /\ job[j] \in Calls
  BY DEF CreateDone, At, Inv, TypeOK
<1>2. PICK c \in Conns : j = <<c, "consumer">> /\ job[j] = Consumer(c) /\ j[1] = c
  BY <1>1, JobOf DEF Inv, ConnInv, PhaseInv
<1>3. PICK id : id = Consumer(c).id
  OBVIOUS
<1>4. PICK r : r = Returned(job[j], TRUE, c)
  OBVIOUS
<1>5. /\ r \in Calls /\ ~Removes(r) /\ (Consumer(c).orphan => r = NoJob)
      /\ ~Consumer(c).orphan =>
           /\ r.kind = "create" /\ r.id = id /\ r.obj = c
           /\ r.at = "done" /\ r.ok /\ ~r.orphan
  BY <1>1, <1>2, <1>3, <1>4, NoJobTyped DEF Returned, Calls, Places, Removes, NoJob
<1>6. job' = [job EXCEPT ![<<c, "consumer">>] = r]
  BY <1>1, <1>2, <1>4 DEF CreateDone, Finish, Returned, TypeOK
<1>7. ConnInv(c) /\ ~Removes(Consumer(c)) /\ id \in IdsOf[c] /\ id \in Ids
  BY <1>1, <1>2, <1>3, ServerAssumption DEF Inv, Removes, ConnInv, CallInv
<1>8. /\ registry' = [registry EXCEPT ![id] = c] /\ registry[id] = None
      /\ sess' = [sess EXCEPT ![c] = "open"] /\ ~AtCapacity
      /\ UNCHANGED <<phase, pc, session, sid, learned, ahead, version, loop>>
  BY <1>2, <1>3 DEF CreateDone, connVars
<1>9. /\ job' \in [Jobs -> Calls] /\ LoopInv'
      /\ Consumer(c)' = r /\ Cleaner(c)' = Cleaner(c)
      /\ \A d \in Conns \ {c} : Consumer(d)' = Consumer(d) /\ Cleaner(d)' = Cleaner(d)
  <2>1. job[<<c, "consumer">>].at # "done" /\ "consumer" \in Lanes /\ r \in Calls
        /\ UNCHANGED <<connVars, loop>>
    BY <1>1, <1>2, <1>5 DEF Lanes, CreateDone
  <2> QED BY <1>6, <2>1, ThreadMoves
<1>10. \A d \in Conns \ {c} : \A k \in IdsOf[d] : k \in Ids /\ k # id
  BY <1>7, ServerAssumption DEF OwnIds
<1>11. Elsewhere(c)
  BY <1>1, <1>8, <1>9, <1>10 DEF Elsewhere, Same, TypeOK
<1>12. TypeOK'
  BY <1>1, <1>7, <1>8, <1>9 DEF TypeOK
<1>13. RegistryInv'
  <2>1. Registered' = Registered \cup {id}
    BY <1>1, <1>7, <1>8, ServerAssumption DEF Registered, TypeOK
  <2>2. IsFiniteSet(Registered) /\ Cardinality(Registered) < MaxSessions
    BY <1>8, FS_CardinalityType, ServerAssumption DEF Inv, RegistryInv, AtCapacity
  <2>3. IsFiniteSet(Registered') /\ Cardinality(Registered') <= MaxSessions
    <3>1. Cardinality(Registered) \in Nat
      BY <2>2, FS_CardinalityType
    <3>2. /\ IsFiniteSet(Registered \cup {id})
          /\ Cardinality(Registered \cup {id}) <= Cardinality(Registered) + 1
      <4>1. IsFiniteSet(Registered)
        BY <2>2
      <4>2. /\ IsFiniteSet(Registered \cup {id})
            /\ Cardinality(Registered \cup {id}) =
                 IF id \in Registered THEN Cardinality(Registered) ELSE Cardinality(Registered) + 1
        BY <4>1, FS_AddElement
      <4> QED BY <3>1, <4>2
    <3>3. Cardinality(Registered \cup {id}) \in Nat
      BY <3>2, FS_CardinalityType
    <3> QED BY <2>1, <2>2, <3>1, <3>2, <3>3, ServerAssumption
  <2>4. \A k \in Ids : registry'[k] # None => k \in IdsOf[registry'[k]]
    BY <1>1, <1>7, <1>8 DEF Inv, RegistryInv, TypeOK
  <2> QED BY <2>3, <2>4 DEF RegistryInv
<1>14. /\ sid[c] = None /\ session[c] = None /\ c \notin learned /\ Cleaner(c).kind = "none"
       /\ ~HasEntry(c)
  BY <1>1, <1>2, <1>7 DEF ConnInv, CreateInv
<1>15. sess'[c] = "open" /\ registry'[id] = c /\ Entry(c, id)'
       /\ \A k : Entry(c, k)' => k = id
  BY <1>1, <1>7, <1>8, <1>14, ServerAssumption DEF Entry, HasEntry, TypeOK
<1>16. ConnInv(c)'
  BY <1>1, <1>2, <1>3, <1>5, <1>7, <1>8, <1>9, <1>14, <1>15
  DEF ConnInv, CallInv, PhaseInv, PlaceInv, CreateInv, EntryInv, HeldInv, ResetInv, OpenInv,
      HasEntry, NoJob
<1> QED BY <1>9, <1>11, <1>12, <1>13, <1>16, OneKeeps

\* The entry leaves the registry, and its session is this call's to stop.
LEMMA PoppedKeeps ==
  ASSUME Inv, OwnIds, NEW j \in Jobs, RemovePop(j)
  PROVE  Inv'
<1>1. TypeOK /\ job[j].at = "registry" /\ job[j].kind = "remove" /\ job[j] \in Calls
  BY DEF RemovePop, At, Inv, TypeOK
<1>2. PICK c \in Conns, l \in Lanes : j = <<c, l>>
  BY DEF Jobs
<1>3. PICK id : id = job[j].id
  OBVIOUS
<1>4. ConnInv(c) /\ CallInv(c, job[j]) /\ id \in IdsOf[c] /\ id \in Ids
  <2>1. ConnInv(c)
    BY DEF Inv
  <2>2. CallInv(c, job[j])
    BY <1>2, <2>1 DEF ConnInv, Consumer, Cleaner, Lanes
  <2> QED BY <1>1, <1>3, <2>1, <2>2, ServerAssumption DEF CallInv
<1>5. registry[id] \in {None, c}
  BY <1>1, <1>4 DEF OwnIds, Inv, RegistryInv, TypeOK
<1>6. PICK r : r = IF registry[id] = None THEN Returned(job[j], TRUE, None)
                   ELSE [job[j] EXCEPT !.at = "popped", !.obj = c]
  OBVIOUS
<1>7. /\ r \in Calls
      /\ registry[id] = None =>
           /\ ~Removes(r) /\ (job[j].orphan => r = NoJob)
           /\ ~job[j].orphan => /\ r.kind = "remove" /\ r.id = id /\ r.obj = None
                                /\ r.at = "done" /\ r.ok /\ ~r.orphan
      /\ registry[id] # None =>
           /\ Removes(r) /\ r.kind = "remove" /\ r.id = id /\ r.obj = c /\ r.at = "popped"
           /\ r.orphan = job[j].orphan
  BY <1>1, <1>3, <1>6, NoJobTyped DEF Returned, Calls, Places, Removes, NoJob
<1>8. job' = [job EXCEPT ![<<c, l>>] = r]
  BY <1>1, <1>2, <1>3, <1>5, <1>6 DEF RemovePop, Finish, Returned, TypeOK
<1>9. /\ registry' = [registry EXCEPT ![id] = None]
      /\ UNCHANGED <<phase, pc, session, sid, learned, ahead, sess, version, loop>>
  BY <1>3 DEF RemovePop, connVars
<1>10. /\ job' \in [Jobs -> Calls] /\ LoopInv'
       /\ l = "consumer" => Consumer(c)' = r /\ Cleaner(c)' = Cleaner(c)
       /\ l = "cleanup"  => Cleaner(c)' = r /\ Consumer(c)' = Consumer(c)
       /\ \A d \in Conns \ {c} : Consumer(d)' = Consumer(d) /\ Cleaner(d)' = Cleaner(d)
  <2>1. job[<<c, l>>].at # "done" /\ r \in Calls /\ UNCHANGED <<connVars, loop>>
    BY <1>1, <1>2, <1>7 DEF RemovePop
  <2> QED BY <1>8, <2>1, ThreadMoves
<1>11. \A d \in Conns \ {c} : \A k \in IdsOf[d] : k \in Ids /\ k # id
  BY <1>4, ServerAssumption DEF OwnIds
<1>12. Elsewhere(c)
  BY <1>1, <1>9, <1>10, <1>11 DEF Elsewhere, Same, TypeOK
<1>13. TypeOK'
  BY <1>1, <1>4, <1>9, <1>10 DEF TypeOK
<1>14. RegistryInv'
  <2>1. Registered' \in SUBSET Registered
    BY <1>1, <1>4, <1>9 DEF Registered, TypeOK
  <2>2. IsFiniteSet(Registered') /\ Cardinality(Registered') <= MaxSessions
    BY <2>1, FS_Subset, FS_CardinalityType, ServerAssumption DEF Inv, RegistryInv
  <2>3. \A k \in Ids : registry'[k] # None => k \in IdsOf[registry'[k]]
    BY <1>1, <1>4, <1>9 DEF Inv, RegistryInv, TypeOK
  <2> QED BY <2>2, <2>3 DEF RegistryInv
<1>15. /\ registry[id] = None => \A k : Entry(c, k)' <=> Entry(c, k)
       /\ registry[id] # None => ~HasEntry(c)'
       /\ \A k \in Ids : registry'[k] # c => ~Entry(c, k)'
       /\ \A k \in Ids : registry[k] # c => registry'[k] # c
       /\ registry'[id] # c
  BY <1>1, <1>4, <1>5, <1>9, ServerAssumption DEF Entry, HasEntry, TypeOK, ConnInv, EntryInv
<1>16. ~(phase[c] = "running" /\ session[c] # None) /\ Consumer(c).kind # "create"
  BY <1>1, <1>2, <1>4 DEF ConnInv, PhaseInv, PlaceInv, CreateInv, Consumer, Cleaner, Lanes, TypeOK
<1>17. ASSUME l = "consumer" PROVE ConnInv(c)'
  <2>1. /\ Consumer(c) = job[j] /\ Consumer(c)' = r /\ Cleaner(c)' = Cleaner(c)
        /\ ~Removes(Consumer(c))
    BY <1>1, <1>2, <1>10, <1>17 DEF Consumer, Removes
  <2>2. CASE registry[id] = None
    BY <1>1, <1>3, <1>4, <1>7, <1>9, <1>15, <1>16, <2>1, <2>2
    DEF ConnInv, CallInv, PhaseInv, PlaceInv, CreateInv, EntryInv, HeldInv, ResetInv, OpenInv,
        Fresh, HasEntry, Out, Outran, Popped, NoJob
  <2>3. CASE registry[id] # None
    BY <1>1, <1>3, <1>4, <1>7, <1>9, <1>15, <1>16, <2>1, <2>3
    DEF ConnInv, CallInv, PhaseInv, PlaceInv, CreateInv, EntryInv, HeldInv, ResetInv, OpenInv,
        Fresh, HasEntry, Out, Outran, Popped
  <2> QED BY <2>2, <2>3
<1>18. ASSUME l = "cleanup" PROVE ConnInv(c)'
  <2>1. /\ Cleaner(c) = job[j] /\ Cleaner(c)' = r /\ Consumer(c)' = Consumer(c)
        /\ ~Removes(Cleaner(c))
    BY <1>1, <1>2, <1>10, <1>18 DEF Cleaner, Removes
  <2>2. CASE registry[id] = None
    BY <1>1, <1>3, <1>4, <1>7, <1>9, <1>15, <1>16, <2>1, <2>2
    DEF ConnInv, CallInv, PhaseInv, PlaceInv, CreateInv, EntryInv, HeldInv, ResetInv, OpenInv,
        Fresh, HasEntry, Out, Outran, Popped, NoJob
  <2>3. CASE registry[id] # None
    BY <1>1, <1>3, <1>4, <1>7, <1>9, <1>15, <1>16, <2>1, <2>3
    DEF ConnInv, CallInv, PhaseInv, PlaceInv, CreateInv, EntryInv, HeldInv, ResetInv, OpenInv,
        Fresh, HasEntry, Out, Outran, Popped
  <2> QED BY <2>2, <2>3
<1> QED BY <1>10, <1>12, <1>13, <1>14, <1>17, <1>18, OneKeeps DEF Lanes

\* What a call does to its session, by its kind.
Works(r, state, bump) ==
  LET s == sess[r.obj]
      Raised == \/ s = "open" /\ state = "failed" /\ bump = 1
                \/ s = "open" /\ state = "draining" /\ bump = 0 /\ ResetMayRaise
  IN  \/ /\ r.kind = "call"
         /\ \/ s = "open" /\ state = "open" /\ bump = 1
            \/ state = s /\ bump = 0
            \/ Raised
      \/ /\ r.kind = "reset"
         /\ \/ state = "open" /\ bump = 1 /\ r.exp = version[r.obj]
            \/ state = s /\ bump = 0
      \/ /\ r.kind \in {"stop", "remove"}
         /\ \/ state = "closed" /\ bump = IF s = "closed" THEN 0 ELSE 1
            \/ Raised

\* The calls inside a session's lock are of that form.
LEMMA ThreadWorks ==
  ASSUME TypeOK, NEW j \in Jobs, CallDone(j) \/ ResetDone(j) \/ StopDone(j), job[j].obj \in Conns
  PROVE  \E state \in {"none", "open", "draining", "failed", "closed"}, bump \in {0, 1},
            ok \in BOOLEAN : Leaves(j, state, bump, ok) /\ Works(job[j], state, bump)
<1> DEFINE States == {"none", "open", "draining", "failed", "closed"}
           o == job[j].obj
           Done(state, bump, ok) == Leaves(j, state, bump, ok) /\ Works(job[j], state, bump)
<1>1. sess[o] \in States
  BY DEF TypeOK
<1>2. ASSUME BackendRaised(j), job[j].kind \in {"call", "stop", "remove"}
      PROVE  Done("failed", 1, FALSE) \/ Done("draining", 0, FALSE)
  BY <1>2 DEF BackendRaised, Works
<1>3. CASE CallDone(j)
  <2>1. Done("open", 1, TRUE) \/ BackendRaised(j) \/ \E ok \in BOOLEAN : Done(sess[o], 0, ok)
    BY <1>3 DEF CallDone, Works
  <2>2. job[j].kind = "call"
    BY <1>3 DEF CallDone
  <2> HIDE DEF Done
  <2>3. \E state \in States, bump \in {0, 1}, ok \in BOOLEAN : Done(state, bump, ok)
    BY <1>1, <1>2, <2>1, <2>2
  <2> QED BY <2>3 DEF Done
<1>4. CASE ResetDone(j)
  <2>1. Done("open", 1, TRUE) \/ \E ok \in BOOLEAN : Done(sess[o], 0, ok)
    BY <1>4 DEF ResetDone, VersionMatches, Works
  <2> HIDE DEF Done
  <2>2. \E state \in States, bump \in {0, 1}, ok \in BOOLEAN : Done(state, bump, ok)
    BY <1>1, <2>1
  <2> QED BY <2>2 DEF Done
<1>5. CASE StopDone(j)
  <2>1. job[j].kind \in {"stop", "remove"} /\ (Closes(j) \/ BackendRaised(j))
    BY <1>5 DEF StopDone
  <2>2. CASE Closes(j)
    <3>1. Done("closed", IF sess[o] = "closed" THEN 0 ELSE 1, TRUE)
      BY <2>1, <2>2 DEF Closes, Works
    <3> HIDE DEF Done
    <3>2. \E state \in States, bump \in {0, 1}, ok \in BOOLEAN : Done(state, bump, ok)
      BY <3>1
    <3> QED BY <3>2 DEF Done
  <2>3. CASE BackendRaised(j)
    <3>1. Done("failed", 1, FALSE) \/ Done("draining", 0, FALSE)
      BY <1>2, <2>1, <2>3
    <3> HIDE DEF Done
    <3>2. \E state \in States, bump \in {0, 1}, ok \in BOOLEAN : Done(state, bump, ok)
      BY <3>1
    <3> QED BY <3>2 DEF Done
  <2> QED BY <2>1, <2>2, <2>3
<1> QED BY <1>3, <1>4, <1>5

\* A reset whose connection still runs finds its session registered and not
\* closed.
LEMMA InService ==
  ASSUME TypeOK, NEW c \in Conns, ConnInv(c), Consumer(c).kind = "reset",
         phase[c] \in {"new", "running"}
  PROVE  HasEntry(c) /\ sess[c] # "closed"
<1>1. pc[c] = "calling" /\ session[c] = c /\ phase[c] = "running"
  BY ServerAssumption DEF TypeOK, ConnInv, PhaseInv, PlaceInv
<1>2. sid[c] \in Ids
  BY <1>1, ServerAssumption DEF TypeOK, ConnInv, HeldInv
<1> QED BY <1>1, <1>2, ServerAssumption DEF ConnInv, HeldInv, HasEntry

\* A call leaves its session: only one that is registered or being stopped is open.
LEMMA WorkKeeps ==
  ASSUME Inv, NEW j \in Jobs, At(j, "session"),
         NEW state \in {"none", "open", "draining", "failed", "closed"}, NEW bump \in {0, 1},
         NEW ok \in BOOLEAN, Leaves(j, state, bump, ok), Works(job[j], state, bump)
  PROVE  Inv'
<1>1. TypeOK /\ job[j].at = "session" /\ job[j] \in Calls
  BY DEF At, Inv, TypeOK
<1>2. PICK c \in Conns, l \in Lanes : j = <<c, l>>
  BY DEF Jobs
<1>3. ConnInv(c) /\ CallInv(c, job[j]) /\ job[j].obj = c /\ job[j].kind # "create"
  <2>1. ConnInv(c)
    BY DEF Inv
  <2>2. CallInv(c, job[j])
    BY <1>2, <2>1 DEF ConnInv, Consumer, Cleaner, Lanes
  <2>3. job[j].kind \in {"call", "reset", "stop", "remove"}
    BY DEF Works
  <2> QED BY <1>1, <2>1, <2>2, <2>3 DEF CallInv
<1>4. PICK r : r = Returned(job[j], ok, None)
  OBVIOUS
<1>5. /\ r \in Calls /\ ~Removes(r) /\ (job[j].orphan => r = NoJob)
      /\ ~job[j].orphan =>
           /\ r.kind = job[j].kind /\ r.id = job[j].id /\ r.obj = None
           /\ r.at = "done" /\ ~r.orphan
  BY <1>1, <1>4, NoJobTyped DEF Returned, Calls, Places, Removes, NoJob
<1>6. job' = [job EXCEPT ![<<c, l>>] = r]
  BY <1>1, <1>2, <1>4 DEF Leaves, Finish, Returned, TypeOK
<1>7. /\ sess' = [sess EXCEPT ![c] = state] /\ version' = [version EXCEPT ![c] = @ + bump]
      /\ UNCHANGED <<phase, pc, session, sid, learned, ahead, registry, loop>>
  BY <1>3 DEF Leaves, connVars
<1>8. /\ job' \in [Jobs -> Calls] /\ LoopInv'
      /\ l = "consumer" => Consumer(c)' = r /\ Cleaner(c)' = Cleaner(c)
      /\ l = "cleanup"  => Cleaner(c)' = r /\ Consumer(c)' = Consumer(c)
      /\ \A d \in Conns \ {c} : Consumer(d)' = Consumer(d) /\ Cleaner(d)' = Cleaner(d)
  <2>1. job[<<c, l>>].at # "done" /\ r \in Calls /\ UNCHANGED <<connVars, loop>>
    BY <1>1, <1>2, <1>5 DEF Leaves
  <2> QED BY <1>6, <2>1, ThreadMoves
<1>9. Elsewhere(c)
  BY <1>1, <1>7, <1>8 DEF Elsewhere, Same, TypeOK
<1>10. TypeOK'
  BY <1>1, <1>7, <1>8 DEF TypeOK
<1>11. RegistryInv'
  BY <1>7 DEF Inv, RegistryInv, Registered
<1>12. sess'[c] = state /\ version'[c] = version[c] + bump /\ version[c] \in Nat
  BY <1>1, <1>7 DEF TypeOK
<1>13. sess[c] # "none" => state # "none"
  BY <1>1, <1>3 DEF Works, TypeOK
<1>14. ASSUME l = "consumer" PROVE ConnInv(c)'
  <2>1. /\ Consumer(c) = job[j] /\ Consumer(c)' = r /\ Cleaner(c)' = Cleaner(c)
    BY <1>1, <1>2, <1>8, <1>14 DEF Consumer
  <2>2. CallInv(c, Consumer(c))' /\ CallInv(c, Cleaner(c))' /\ PhaseInv(c)' /\ PlaceInv(c)'
    BY <1>1, <1>3, <1>5, <1>7, <1>12, <2>1
    DEF ConnInv, CallInv, PhaseInv, PlaceInv, CreateInv, Fresh, HasEntry, Entry, NoJob
  <2>3. CreateInv(c)' /\ EntryInv(c)' /\ HeldInv(c)'
    BY <1>1, <1>3, <1>5, <1>7, <1>12, <1>13, <2>1
    DEF ConnInv, CallInv, PhaseInv, PlaceInv, CreateInv, EntryInv, HeldInv, HasEntry, Entry,
        Works, NoJob
  <2>4. ResetInv(c)'
    BY <1>1, <1>3, <1>5, <1>7, <1>12, <1>13, <2>1 DEF ConnInv, ResetInv, NoJob
  <2>5. OpenInv(c)'
    <3>1. SUFFICES ASSUME ~ResetMayRaise, state = "open"
                   PROVE  HasEntry(c) \/ Removes(Cleaner(c)) \/ Outran(c)
      BY <1>7, <1>12, <2>1 DEF OpenInv, HasEntry, Entry, Popped, Outran
    <3>2. CASE sess[c] = "open"
      <4>1. job[j].kind # "remove"
        BY <3>1, <3>2 DEF Works
      <4> QED BY <1>3, <2>1, <3>1, <3>2, <4>1 DEF ConnInv, OpenInv, Popped, Removes
    <3>3. CASE sess[c] # "open"
      <4>1. job[j].kind = "reset" /\ job[j].exp = version[c]
        BY <1>3, <3>1, <3>3 DEF Works
      <4>2. CASE c \in ahead
        BY <1>1, <1>3, <2>1, <4>1, <4>2, InService DEF Outran
      <4>3. CASE c \notin ahead
        BY <1>1, <1>3, <1>12, <2>1, <3>1, <4>1, <4>3
        DEF ConnInv, ResetInv, Out, Popped, Removes
      <4> QED BY <4>2, <4>3
    <3> QED BY <3>2, <3>3
  <2> QED BY <2>2, <2>3, <2>4, <2>5 DEF ConnInv
<1>15. ASSUME l = "cleanup" PROVE ConnInv(c)'
  <2>1. /\ Cleaner(c) = job[j] /\ Cleaner(c)' = r /\ Consumer(c)' = Consumer(c)
    BY <1>1, <1>2, <1>8, <1>15 DEF Cleaner
  <2>2. CallInv(c, Consumer(c))' /\ CallInv(c, Cleaner(c))' /\ PhaseInv(c)' /\ PlaceInv(c)'
    BY <1>1, <1>3, <1>5, <1>7, <1>12, <2>1
    DEF ConnInv, CallInv, PhaseInv, PlaceInv, CreateInv, Fresh, HasEntry, Entry, NoJob
  <2>3. CreateInv(c)' /\ EntryInv(c)' /\ HeldInv(c)'
    BY <1>1, <1>3, <1>5, <1>7, <1>12, <1>13, <2>1
    DEF ConnInv, CallInv, PhaseInv, PlaceInv, CreateInv, EntryInv, HeldInv, HasEntry, Entry,
        Works, NoJob
  <2>4. ResetInv(c)' /\ OpenInv(c)'
    <3>1. job[j].kind = "remove"
      BY <1>1, <1>3, <2>1 DEF ConnInv, PhaseInv, CallInv
    <3>2. /\ state # "open"
          /\ \/ bump = 1
             \/ bump = 0 /\ sess[c] = "closed" /\ state = "closed"
             \/ bump = 0 /\ state = "draining" /\ ResetMayRaise
      BY <1>3, <3>1 DEF Works
    <3>3. Consumer(c).exp \in Nat
      BY <1>1, JobTyped DEF Calls
    <3>4. ResetInv(c)'
      BY <1>3, <1>7, <1>12, <1>13, <2>1, <3>2, <3>3 DEF ConnInv, ResetInv, Out
    <3> QED BY <1>12, <3>2, <3>4 DEF OpenInv
  <2> QED BY <2>2, <2>3, <2>4 DEF ConnInv
<1> QED BY <1>8, <1>9, <1>10, <1>11, <1>14, <1>15, OneKeeps DEF Lanes

\* Whatever a worker thread does.
LEMMA ThreadStepKeeps ==
  ASSUME Inv, OwnIds, NEW j \in Jobs, ThreadStep(j)
  PROVE  Inv'
<1>1. CASE PickUp(j)
  <2>1. Move(j, "started") /\ Advances(job[j], "started") /\ UNCHANGED <<connVars, coreVars, loop>>
    BY <1>1 DEF PickUp, At, Advances
  <2> QED BY <2>1, AdvanceKeeps DEF Places
<1>2. CASE EnterRegistry(j)
  <2>1. Move(j, "registry") /\ Advances(job[j], "registry") /\ UNCHANGED <<connVars, coreVars, loop>>
    BY <1>2 DEF EnterRegistry, At, Advances
  <2> QED BY <2>1, AdvanceKeeps DEF Places
<1>3. CASE EnterSession(j)
  <2>1. Move(j, "session") /\ Advances(job[j], "session") /\ UNCHANGED <<connVars, coreVars, loop>>
    BY <1>3 DEF EnterSession, At, Advances
  <2> QED BY <2>1, AdvanceKeeps DEF Places
<1>4. CASE CallDone(j) \/ ResetDone(j) \/ StopDone(j)
  <2>1. job[j].at = "session" /\ At(j, "session") /\ job[j].kind \in {"call", "reset", "stop", "remove"}
    BY <1>4 DEF CallDone, ResetDone, StopDone, At
  <2>2. job[j].obj \in Conns
    <3>1. PICK c \in Conns : CallInv(c, job[j])
      BY JobOf DEF Inv, ConnInv
    <3> QED BY <2>1, <3>1 DEF CallInv
  <2>3. PICK state \in {"none", "open", "draining", "failed", "closed"}, bump \in {0, 1},
             ok \in BOOLEAN : Leaves(j, state, bump, ok) /\ Works(job[j], state, bump)
    BY <1>4, <2>2, ThreadWorks DEF Inv
  <2> QED BY <2>1, <2>3, WorkKeeps
<1> QED
  BY <1>1, <1>2, <1>3, <1>4, RefusedKeeps, CreatedKeeps, PoppedKeeps DEF ThreadStep

\* Every step keeps the invariant.
LEMMA NextKeeps ==
  ASSUME Inv, OwnIds, [Next]_vars
  PROVE  Inv'
<1>1. CASE UNCHANGED vars
  <2>1. UNCHANGED <<connVars, job, coreVars>> /\ loop' = loop /\ loop \in
          {Idle, <<"readiness">>} \cup ({"cleanup", "stopped", "snapshot"} \X Conns)
    BY <1>1 DEF vars, connVars, coreVars, Inv, TypeOK
  <2>2. LoopInv'
    BY <1>1 DEF Inv, LoopInv, vars, Consumer
  <2> QED BY <2>1, <2>2, WaitingKeeps
<1>2. CASE Next
  <2>1. CASE Served
    BY <1>1, <2>1 DEF Served
  <2> QED
    BY <1>2, <2>1, LoopStepKeeps, ReadinessKeeps, LoopGoesOnKeeps, ThreadStepKeeps DEF Next
<1> QED BY <1>1, <1>2

\* Nobody is connected.
LEMMA InitInv == Init => Inv
<1> SUFFICES ASSUME Init PROVE Inv
  OBVIOUS
<1>1. TypeOK /\ LoopInv
  BY NoJobTyped DEF Init, TypeOK, LoopInv, Idle
<1>2. RegistryInv
  <2>1. Registered = {}
    BY ServerAssumption DEF Init, Registered
  <2> QED BY <2>1, FS_EmptySet, ServerAssumption DEF Init, RegistryInv
<1>3. ASSUME NEW c \in Conns PROVE ConnInv(c)
  <2>1. /\ Consumer(c) = NoJob /\ Cleaner(c) = NoJob /\ phase[c] = "new" /\ pc[c] = "idle"
        /\ session[c] = None /\ sid[c] = None /\ sess[c] = "none" /\ version[c] = 0
        /\ learned = {} /\ ahead = {} /\ \A id \in Ids : registry[id] = None
    BY DEF Init, Consumer, Cleaner, Jobs, Lanes
  <2>2. \A id : ~Entry(c, id)
    BY <2>1, ServerAssumption DEF Entry
  <2> QED
    BY <2>1, <2>2
    DEF ConnInv, CallInv, PhaseInv, PlaceInv, CreateInv, EntryInv, HeldInv, ResetInv, OpenInv,
        Fresh, HasEntry, NoJob
<1> QED BY <1>1, <1>2, <1>3 DEF Inv

-----------------------------------------------------------------------------
(* The theorems *)

\* The inductive invariant holds in every reachable state.
LEMMA Invariance == ASSUME OwnIds PROVE Spec => []Inv
<1>1. Init => Inv
  BY InitInv
<1>2. Inv /\ [Next]_vars => Inv'
  BY NextKeeps
<1> QED BY <1>1, <1>2, PTL DEF Spec

\* Connections, thread calls, registry and sessions keep their types, wherever
\* the consumers are cancelled and whatever the threads do.
THEOREM ServerTyped == ASSUME OwnIds PROVE Spec => []TypeOK
<1>1. Inv => TypeOK
  BY DEF Inv
<1> QED BY <1>1, Invariance, PTL

\* A connection's session stays in the registry until the connection itself
\* gives it up in _handle_stop or cleanup().
THEOREM SessionsStayRegistered == ASSUME OwnIds PROVE Spec => []StartedIsRegistered
<1>1. Inv => StartedIsRegistered
  BY DEF Inv, ConnInv, HeldInv, PhaseInv, Entry, StartedIsRegistered
<1> QED BY <1>1, Invariance, PTL

\* An entry of a connection that learned of its session has somebody who will
\* remove it, through every cancellation of _remove_session and its retry in
\* cleanup().
THEOREM EntriesStayAccounted == ASSUME OwnIds PROVE Spec => []EntriesAccounted
<1>1. Inv => EntriesAccounted
  <2> SUFFICES ASSUME Inv, NEW id \in Registered, registry[id] \in learned
               PROVE  Accounted(id)
    BY DEF EntriesAccounted
  <2>1. PICK c \in Conns : c = registry[id] /\ Entry(c, id) /\ c \in learned
    BY DEF Inv, RegistryInv, TypeOK, Registered, Entry
  <2>2. CASE sid[c] = id
    BY <2>2 DEF Accounted
  <2>3. CASE sid[c] # id
    <3>1. /\ Cleaner(c).kind = "remove" /\ Cleaner(c).id = id
          /\ Cleaner(c).at \in {"queued", "started", "registry"}
      BY <2>1, <2>3 DEF Inv, ConnInv, EntryInv, Registered
    <3>2. <<c, "cleanup">> \in Jobs
      BY DEF Jobs, Lanes
    <3> QED BY <3>1, <3>2 DEF Accounted, Cleaner, At
  <2> QED BY <2>2, <2>3
<1> QED BY <1>1, Invariance, PTL

\* The values of a function on a finite set.
LEMMA ValuesBounded ==
  ASSUME NEW S, IsFiniteSet(S), NEW f
  PROVE  IsFiniteSet({f[x] : x \in S}) /\ Cardinality({f[x] : x \in S}) <= Cardinality(S)
<1> DEFINE T == {f[x] : x \in S}
           g == [x \in S |-> f[x]]
<1>1. g \in Surjection(S, T)
  BY DEF Surjection
<1> HIDE DEF T, g
<1>2. IsFiniteSet(T) /\ Cardinality(T) <= Cardinality(S)
  BY <1>1, FS_Surjection
<1> QED BY <1>2 DEF T

\* max_sessions bounds the decoders that are alive: outside the registry only
\* the sessions that a remove() is stopping are open, and a reset that comes
\* late opens one again only for a client that left after it had claimed a
\* state_version the session did not have.
THEOREM DecodersStayBounded ==
  ASSUME OwnIds, ~ResetMayRaise
  PROVE  Spec => []LiveDecodersBounded
<1>1. Inv => LiveDecodersBounded
  <2> SUFFICES ASSUME Inv PROVE LiveDecodersBounded
    OBVIOUS
  <2> DEFINE Open == { o \in Conns : sess[o] = "open"
                                     /\ (Outran(o) => \E id \in Ids : registry[id] = o) }
             Held == { registry[id] : id \in Registered }
             Removing == { j \in Jobs : job[j].kind = "remove" /\ job[j].at \in {"popped", "session"} }
             Stopped == { job[j].obj : j \in Removing }
  <2>1. Open \subseteq Held \cup Stopped
    <3> SUFFICES ASSUME NEW o \in Conns, sess[o] = "open",
                        Outran(o) => \E id \in Ids : registry[id] = o
                 PROVE  o \in Held \cup Stopped
      OBVIOUS
    <3>1. (\E id \in Ids : registry[id] = o) \/ Popped(o)
      BY DEF Inv, ConnInv, OpenInv, HasEntry, Entry
    <3>2. CASE \E id \in Ids : registry[id] = o
      BY <3>2, ServerAssumption DEF Registered
    <3>3. CASE Removes(Consumer(o))
      <4>1. <<o, "consumer">> \in Removing /\ job[<<o, "consumer">>].obj = o
        BY <3>3 DEF Jobs, Lanes, Consumer, Removes, Inv, ConnInv, CallInv
      <4> QED BY <4>1
    <3>4. CASE Removes(Cleaner(o))
      <4>1. <<o, "cleanup">> \in Removing /\ job[<<o, "cleanup">>].obj = o
        BY <3>4 DEF Jobs, Lanes, Cleaner, Removes, Inv, ConnInv, CallInv
      <4> QED BY <4>1
    <3> QED BY <3>1, <3>2, <3>3, <3>4 DEF Popped
  <2>2. /\ IsFiniteSet(Held) /\ Cardinality(Held) <= Cardinality(Registered)
        /\ IsFiniteSet(Registered) /\ Cardinality(Registered) <= MaxSessions
    <3>1. IsFiniteSet(Registered) /\ Cardinality(Registered) <= MaxSessions
      BY DEF Inv, RegistryInv
    <3> QED BY <3>1, ValuesBounded
  <2>3. IsFiniteSet(Removing)
    <3>1. IsFiniteSet(Lanes)
      <4>1. Lanes = {"consumer"} \cup {"cleanup"}
        BY DEF Lanes
      <4> QED BY <4>1, FS_Singleton, FS_AddElement
    <3>2. IsFiniteSet(Jobs)
      BY <3>1, FS_Product, ServerAssumption DEF Jobs
    <3> QED BY <3>2, FS_Subset
  <2>4. IsFiniteSet(Stopped) /\ Cardinality(Stopped) <= Cardinality(Removing)
    <3> DEFINE f == [j \in Jobs |-> job[j].obj]
    <3>1. Stopped = {f[j] : j \in Removing}
      OBVIOUS
    <3> HIDE DEF f, Stopped, Removing
    <3> QED BY <2>3, <3>1, ValuesBounded
  <2>5. /\ IsFiniteSet(Held \cup Stopped)
        /\ Cardinality(Held \cup Stopped) <= Cardinality(Held) + Cardinality(Stopped)
    <3>1. IsFiniteSet(Held \cap Stopped)
      BY <2>2, FS_Subset
    <3> HIDE DEF Held, Stopped
    <3>2. /\ Cardinality(Held) \in Nat /\ Cardinality(Stopped) \in Nat
          /\ Cardinality(Held \cap Stopped) \in Nat
      BY <2>2, <2>4, <3>1, FS_CardinalityType
    <3>3. /\ IsFiniteSet(Held \cup Stopped)
          /\ Cardinality(Held \cup Stopped) =
               Cardinality(Held) + Cardinality(Stopped) - Cardinality(Held \cap Stopped)
      BY <2>2, <2>4, FS_Union
    <3> QED BY <3>2, <3>3
  <2>6. Cardinality(Open) <= Cardinality(Held \cup Stopped)
    BY <2>1, <2>5, FS_Subset
  <2> HIDE DEF Open, Held, Stopped, Removing
  <2>7. /\ Cardinality(Held) \in Nat /\ Cardinality(Stopped) \in Nat /\ Cardinality(Open) \in Nat
        /\ Cardinality(Held \cup Stopped) \in Nat /\ Cardinality(Registered) \in Nat
        /\ Cardinality(Removing) \in Nat
    BY <2>1, <2>2, <2>3, <2>4, <2>5, FS_CardinalityType, FS_Subset
  <2>8. Cardinality(Open) <= MaxSessions + Cardinality(Removing)
    BY <2>2, <2>4, <2>5, <2>6, <2>7, ServerAssumption
  <2> QED BY <2>8 DEF Open, Removing, LiveDecodersBounded
<1> QED BY <1>1, Invariance, PTL

\* A closed session does not serve again: a reset still waiting for the session's
\* lock when stop() closes it was sent for an older state_version, unless its
\* client claimed a later one and is gone.
THEOREM ClosedSessionsStayClosed == ASSUME OwnIds PROVE Spec => ClosedStaysClosed
<1>1. Inv /\ [Next]_vars => 
        [\A o \in Conns : sess[o] = "closed" /\ ~Outran(o) => sess'[o] = "closed"]_vars
  <2> SUFFICES ASSUME Inv, Next, NEW o \in Conns, sess[o] = "closed", ~Outran(o)
               PROVE  sess'[o] = "closed"
    BY DEF vars
  <2>1. CASE UNCHANGED coreVars
    BY <2>1 DEF coreVars
  <2>2. ASSUME NEW j \in Jobs, CreateDone(j) PROVE sess'[o] = "closed"
    <3>1. job[j].kind = "create" /\ job[j].at = "registry" /\ sess' = [sess EXCEPT ![j[1]] = "open"]
      BY <2>2 DEF CreateDone, At
    <3>2. PICK c \in Conns : j = <<c, "consumer">> /\ job[j] = Consumer(c)
      BY <3>1, JobOf DEF Inv, ConnInv, PhaseInv
    <3>3. sess[c] = "none" /\ c # o
      BY <3>1, <3>2 DEF Inv, ConnInv, CreateInv
    <3> QED BY <3>1, <3>2, <3>3 DEF Inv, TypeOK
  <2>3. ASSUME NEW j \in Jobs, CallDone(j) \/ ResetDone(j) \/ StopDone(j) PROVE sess'[o] = "closed"
    <3>1. job[j].at = "session" /\ job[j].kind \in {"call", "reset", "stop", "remove"}
      BY <2>3 DEF CallDone, ResetDone, StopDone, At
    <3>2. PICK c \in Conns : /\ CallInv(c, job[j]) /\ ConnInv(c)
                             /\ job[j] = Consumer(c) \/ job[j] = Cleaner(c)
      BY JobOf DEF Inv, ConnInv
    <3>3. job[j].obj = c
      BY <3>1, <3>2 DEF CallInv
    <3>4. PICK state \in {"none", "open", "draining", "failed", "closed"}, bump \in {0, 1},
               ok \in BOOLEAN : Leaves(j, state, bump, ok) /\ Works(job[j], state, bump)
      BY <2>3, <3>3, ThreadWorks DEF Inv
    <3>5. sess' = [sess EXCEPT ![c] = state]
      BY <3>3, <3>4 DEF Leaves
    <3>6. CASE c # o
      BY <3>5, <3>6 DEF Inv, TypeOK
    <3>7. CASE c = o
      <4>1. ASSUME job[j].kind = "reset" PROVE job[j].exp < version[o]
        <5>1. job[j] = Consumer(o) /\ ConnInv(o)
          BY <3>2, <3>7, <4>1 DEF ConnInv, PhaseInv
        <5>2. o \notin ahead
          BY <3>1, <4>1, <5>1, InService DEF Inv, Outran
        <5> QED BY <3>1, <4>1, <5>1, <5>2 DEF ConnInv, ResetInv, Out
      <4>2. job[j].exp \in Nat /\ version[o] \in Nat
        BY DEF Inv, TypeOK, Calls
      <4>3. state = "closed"
        BY <3>3, <3>4, <3>7, <4>1, <4>2 DEF Works
      <4> QED BY <3>5, <3>7, <4>3 DEF Inv, TypeOK
    <3> QED BY <3>6, <3>7
  <2>4. ASSUME NEW c \in Conns, LoopStep(c) PROVE UNCHANGED coreVars
    BY <2>4 DEF LoopStep, Accept, StartCommand, CallCommand, ResetCommand, StopCommand, EndRun, ResumeFailed,
                ResumeStarted, ResumeCalled, ResumeStopped, RemoveStopped, ResumeRemoved,
                ErrorClosed, BeginCleanup, Cleanup, EndCleanup, SnapshotWaits
  <2>5. ASSUME ReadinessWaits \/ LoopGoesOn PROVE UNCHANGED coreVars
    <3>1. loop[1] \in {"readiness", "snapshot", "cleanup", "stopped"} \/ loop = Idle
      BY DEF Inv, TypeOK
    <3> QED BY <2>5, <3>1 DEF ReadinessWaits, LoopGoesOn, Cleanup, RemoveStopped
  <2>6. ASSUME NEW j \in Jobs,
               PickUp(j) \/ EnterRegistry(j) \/ EnterSession(j) \/ CreateRefused(j) \/ RemovePop(j)
        PROVE  sess' = sess
    BY <2>6 DEF PickUp, EnterRegistry, EnterSession, CreateRefused, RemovePop, coreVars
  <2>7. CASE Served
    BY <2>7 DEF Served, vars
  <2> QED BY <2>1, <2>2, <2>3, <2>4, <2>5, <2>6, <2>7 DEF Next, ThreadStep
<1> QED BY <1>1, Invariance, PTL DEF Spec, ClosedStaysClosed

=============================================================================
