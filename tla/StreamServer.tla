---------------------------- MODULE StreamServer ----------------------------
(***************************************************************************)
(* The server around the sessions: WebSocket connections (server/app.py),  *)
(* the SessionRegistry (streaming/registry.py) and the worker threads of   *)
(* asyncio.to_thread.                                                      *)
(*                                                                         *)
(* The event loop runs one step at a time, from one await to the next.     *)
(* Registry and session methods run in worker threads and take the         *)
(* registry's and the session's lock; the loop takes the same locks when   *)
(* it reads a snapshot or counts the sessions, and the whole server waits  *)
(* while it does.  A consumer task that is cancelled leaves its thread     *)
(* running.  A session is named after the connection that created it,      *)
(* since a connection starts at most one.                                  *)
(***************************************************************************)
EXTENDS Integers, Sequences, FiniteSets, SequencesExt

CONSTANTS
  Conns,        \* connections
  Ids,          \* session identifiers
  IdsOf,        \* the identifiers a connection may ask for
  MaxSessions,  \* max_sessions
  Workers,      \* threads of the default executor
  ResetMayRaise,\* can recognizer.reset() raise?
  MaxVersion,   \* model bound on the state_version a call reaches or a reset claims
  None

ASSUME ServerAssumption ==
  /\ IsFiniteSet(Conns)
  /\ IdsOf \in [Conns -> SUBSET Ids]
  /\ MaxSessions \in Nat \ {0}
  /\ Workers \in Nat \ {0}
  /\ ResetMayRaise \in BOOLEAN
  /\ MaxVersion \in Nat
  /\ None \notin Conns \cup Ids

VARIABLES
  phase,     \* of a connection: new, running, closing (inside error_close),
             \* teardown, cleanup, gone
  pc,        \* where its consumer task awaits
  session,   \* self.session
  sid,       \* self.session_id
  job,       \* the thread call of each lane of each connection
  pool,      \* queue of the executor: jobs no thread has picked up
  registry,  \* _sessions
  sess,      \* state of each session object
  version,   \* its state_version
  loop,      \* what the event loop is blocked on
  learned,   \* history: the connections that took the session they created
  ahead      \* history: those that sent a reset for a later state_version

connVars == <<phase, pc, session, sid, learned, ahead>>
coreVars == <<registry, sess, version>>
vars == <<phase, pc, session, sid, job, pool, registry, sess, version, loop,
          learned, ahead>>

\* A connection awaits at most one thread call in its consumer and one in
\* its cleanup.
Lanes == {"consumer", "cleanup"}
Jobs  == Conns \X Lanes

\* at: queued, then a thread's progress through the call; done holds the
\* result until the waiting task takes it.
NoJob == [kind |-> "none", id |-> None, obj |-> None, exp |-> 0,
          at |-> "none", ok |-> TRUE, orphan |-> FALSE]

Idle == <<"idle">>

\* Threads that are inside the registry's lock, and inside a session's lock.
InRegistry(j) ==
  job[j].kind \in {"create", "remove"} /\ job[j].at \in {"registry", "popped", "session"}
InSession(j, o) == job[j].obj = o /\ job[j].at = "session"

RegistryHeld   == \E j \in Jobs : InRegistry(j)
SessionHeld(o) == \E j \in Jobs : InSession(j, o)

Registered == { id \in Ids : registry[id] # None }

Init ==
  /\ phase = [c \in Conns |-> "new"]
  /\ pc = [c \in Conns |-> "idle"]
  /\ session = [c \in Conns |-> None]
  /\ sid = [c \in Conns |-> None]
  /\ job = [j \in Jobs |-> NoJob]
  /\ pool = <<>>
  /\ registry = [id \in Ids |-> None]
  /\ sess = [c \in Conns |-> "none"]
  /\ version = [c \in Conns |-> 0]
  /\ loop = Idle
  /\ learned = {}
  /\ ahead = {}

\* asyncio.to_thread: the call is queued for a worker thread.
Submit(j, kind, id, obj, exp) ==
  /\ job' = [job EXCEPT ![j] = [NoJob EXCEPT !.kind = kind, !.id = id,
                                             !.obj = obj, !.exp = exp, !.at = "queued"]]
  /\ pool' = Append(pool, j)

-----------------------------------------------------------------------------
(* The event loop *)

Accept(c) ==
  /\ loop = Idle
  /\ phase[c] = "new"
  /\ phase' = [phase EXCEPT ![c] = "running"]
  /\ UNCHANGED <<pc, session, sid, job, pool, learned, ahead, coreVars, loop>>

ConsumerIdle(c) ==
  loop = Idle /\ phase[c] = "running" /\ pc[c] = "idle"

\* _handle_start up to its await.
StartCommand(c, id) ==
  /\ ConsumerIdle(c)
  /\ session[c] = None
  /\ Submit(<<c, "consumer">>, "create", id, None, 0)
  /\ pc' = [pc EXCEPT ![c] = "starting"]
  /\ UNCHANGED <<phase, session, sid, learned, ahead, coreVars, loop>>

\* handle_audio and _handle_flush up to their await.
CallCommand(c) ==
  /\ ConsumerIdle(c)
  /\ session[c] # None
  /\ Submit(<<c, "consumer">>, "call", None, session[c], 0)
  /\ pc' = [pc EXCEPT ![c] = "calling"]
  /\ UNCHANGED <<phase, session, sid, learned, ahead, coreVars, loop>>

\* _handle_reset up to its await.  The expected state_version is what the client
\* says, known to it or not.
ResetCommand(c, exp) ==
  /\ ConsumerIdle(c)
  /\ session[c] # None
  /\ Submit(<<c, "consumer">>, "reset", None, session[c], exp)
  /\ pc' = [pc EXCEPT ![c] = "calling"]
  /\ ahead' = IF exp > version[session[c]] THEN ahead \cup {c} ELSE ahead
  /\ UNCHANGED <<phase, session, sid, learned, coreVars, loop>>

\* _handle_stop up to its first await.
StopCommand(c) ==
  /\ ConsumerIdle(c)
  /\ session[c] # None
  /\ Submit(<<c, "consumer">>, "stop", None, session[c], 0)
  /\ pc' = [pc EXCEPT ![c] = "stopping"]
  /\ UNCHANGED <<phase, session, sid, learned, ahead, coreVars, loop>>

\* What cancelling the consumer does to its thread call: a queued call is
\* dropped, a running one goes on without a waiter, a result is lost.
Abandoned(j) ==
  IF job[j].at \in {"queued", "done", "none"} THEN NoJob
  ELSE [job[j] EXCEPT !.orphan = TRUE]

Dequeued(j) == SelectSeq(pool, LAMBDA k : k # j)

\* run() leaves asyncio.wait when a task ended: the client is gone, or there is
\* a failure to tell it of (protocol, timeout).  The other tasks are cancelled.
EndRun(c, next) ==
  /\ loop = Idle
  /\ phase[c] = "running"
  /\ phase' = [phase EXCEPT ![c] = next]
  /\ pc' = [pc EXCEPT ![c] = "ended"]
  /\ job' = [job EXCEPT ![<<c, "consumer">>] = Abandoned(<<c, "consumer">>)]
  /\ pool' = Dequeued(<<c, "consumer">>)
  /\ UNCHANGED <<session, sid, learned, ahead, coreVars, loop>>

\* The consumer takes the result of its call; a call that raised ends the run.
Resume(c, from) ==
  /\ loop = Idle
  /\ phase[c] = "running"
  /\ pc[c] = from
  /\ job[<<c, "consumer">>].at = "done"

ResumeFailed(c) ==
  /\ \E from \in {"starting", "calling", "stopping", "removing"} : Resume(c, from)
  /\ ~job[<<c, "consumer">>].ok
  /\ EndRun(c, "closing")

ResumeStarted(c) ==
  LET r == job[<<c, "consumer">>]
  IN  /\ Resume(c, "starting")
      /\ r.ok
      /\ session' = [session EXCEPT ![c] = r.obj]
      /\ sid' = [sid EXCEPT ![c] = r.id]
      /\ pc' = [pc EXCEPT ![c] = "idle"]
      /\ job' = [job EXCEPT ![<<c, "consumer">>] = NoJob]
      /\ learned' = learned \cup {c}
      /\ UNCHANGED <<phase, pool, ahead, coreVars, loop>>

ResumeCalled(c) ==
  /\ Resume(c, "calling")
  /\ job[<<c, "consumer">>].ok
  /\ pc' = [pc EXCEPT ![c] = "idle"]
  /\ job' = [job EXCEPT ![<<c, "consumer">>] = NoJob]
  /\ UNCHANGED <<phase, session, sid, pool, learned, ahead, coreVars, loop>>

\* Mutant: the session is still there while it is being removed.
RemoveStopped_KeepsSession(c) ==
  /\ pc' = [pc EXCEPT ![c] = "removing"]
  /\ Submit(<<c, "consumer">>, "remove", sid[c], None, 0)
  /\ UNCHANGED <<phase, session, sid, learned, ahead, coreVars>>

\* _remove_session(preserve_identity=True): the session is forgotten, its
\* identifier kept, and registry.remove awaited.
RemoveStopped(c) ==
  /\ session' = [session EXCEPT ![c] = None]
  /\ pc' = [pc EXCEPT ![c] = "removing"]
  /\ Submit(<<c, "consumer">>, "remove", sid[c], None, 0)
  /\ UNCHANGED <<phase, sid, learned, ahead, coreVars>>

\* _handle_stop after session.stop().
ResumeStopped(c) ==
  /\ Resume(c, "stopping")
  /\ job[<<c, "consumer">>].ok
  /\ IF SessionHeld(session[c])
     THEN loop' = <<"stopped", c>> /\ UNCHANGED <<connVars, job, pool, coreVars>>
     ELSE RemoveStopped(c) /\ UNCHANGED loop

\* ... and after the removal: session_id is dropped and the run ends, with a
\* failure when another task gave up during the last two sends.
ResumeRemoved(c, next) ==
  /\ Resume(c, "removing")
  /\ job[<<c, "consumer">>].ok
  /\ sid' = [sid EXCEPT ![c] = None]
  /\ pc' = [pc EXCEPT ![c] = "ended"]
  /\ phase' = [phase EXCEPT ![c] = next]
  /\ job' = [job EXCEPT ![<<c, "consumer">>] = NoJob]
  /\ UNCHANGED <<session, pool, learned, ahead, coreVars, loop>>

\* error_close() has told the client.  Its send and its close have no deadline,
\* and a client that stays without reading holds them up.
ErrorClosed(c) ==
  /\ loop = Idle
  /\ phase[c] = "closing"
  /\ phase' = [phase EXCEPT ![c] = "teardown"]
  /\ UNCHANGED <<pc, session, sid, job, pool, learned, ahead, coreVars, loop>>

\* Mutant: the cleanup forgets the session without removing it.
NeedsRemoval_Never(c) == FALSE

\* _remove_session has something to remove.
NeedsRemoval(c) == sid[c] # None

\* cleanup(): the session is forgotten and its identifier removed.
Cleanup(c) ==
  /\ session' = [session EXCEPT ![c] = None]
  /\ sid' = [sid EXCEPT ![c] = None]
  /\ IF NeedsRemoval(c)
     THEN /\ Submit(<<c, "cleanup">>, "remove", sid[c], None, 0)
          /\ phase' = [phase EXCEPT ![c] = "cleanup"]
     ELSE /\ phase' = [phase EXCEPT ![c] = "gone"]
          /\ UNCHANGED <<job, pool>>
  /\ UNCHANGED <<pc, learned, ahead, coreVars>>

\* cleanup() reads a snapshot of the session first, under its lock.
BeginCleanup(c) ==
  /\ loop = Idle
  /\ phase[c] = "teardown"
  /\ IF session[c] # None /\ SessionHeld(session[c])
     THEN loop' = <<"cleanup", c>> /\ UNCHANGED <<connVars, job, pool, coreVars>>
     ELSE Cleanup(c) /\ UNCHANGED loop

EndCleanup(c) ==
  /\ loop = Idle
  /\ phase[c] = "cleanup"
  /\ job[<<c, "cleanup">>].at = "done"
  /\ phase' = [phase EXCEPT ![c] = "gone"]
  /\ job' = [job EXCEPT ![<<c, "cleanup">>] = NoJob]
  /\ UNCHANGED <<pc, session, sid, pool, learned, ahead, coreVars, loop>>

\* A heartbeat, or any other event, the error included, reads the generation
\* from a snapshot.
SnapshotWaits(c) ==
  /\ loop = Idle
  /\ phase[c] \in {"running", "closing"}
  /\ session[c] # None
  /\ SessionHeld(session[c])
  /\ loop' = <<"snapshot", c>>
  /\ UNCHANGED <<connVars, job, pool, coreVars>>

\* GET /readiness counts the sessions under the registry's lock.
ReadinessWaits ==
  /\ loop = Idle
  /\ RegistryHeld
  /\ loop' = <<"readiness">>
  /\ UNCHANGED <<connVars, job, pool, coreVars>>

\* The lock is free and the loop goes on where it was blocked.
LoopGoesOn ==
  /\ loop # Idle
  /\ loop' = Idle
  /\ IF loop[1] = "readiness" THEN ~RegistryHeld ELSE ~SessionHeld(session[loop[2]])
  /\ CASE loop[1] = "cleanup" -> Cleanup(loop[2])
       [] loop[1] = "stopped" -> RemoveStopped(loop[2])
       [] loop[1] \in {"snapshot", "readiness"} ->
            UNCHANGED <<connVars, job, pool, coreVars>>

LoopStep(c) ==
  \/ Accept(c)
  \/ \E id \in IdsOf[c] : StartCommand(c, id)
  \/ CallCommand(c)
  \/ \E exp \in 0..MaxVersion : ResetCommand(c, exp)
  \/ StopCommand(c)
  \/ \E next \in {"closing", "teardown"} : EndRun(c, next)
  \/ ResumeFailed(c)
  \/ ResumeStarted(c)
  \/ ResumeCalled(c)
  \/ ResumeStopped(c)
  \/ \E next \in {"closing", "teardown"} : ResumeRemoved(c, next)
  \/ ErrorClosed(c)
  \/ BeginCleanup(c)
  \/ EndCleanup(c)
  \/ SnapshotWaits(c)

-----------------------------------------------------------------------------
(* The worker threads *)

At(j, place) == job[j].at = place

Move(j, place) == job' = [job EXCEPT ![j].at = place]

\* The call returns (or raises); without a waiter the result is lost.
Finish(j, ok, obj) ==
  job' = [job EXCEPT ![j] = IF job[j].orphan THEN NoJob
                            ELSE [@ EXCEPT !.at = "done", !.ok = ok, !.obj = obj]]

Busy == Cardinality({ j \in Jobs : job[j].at \in {"started", "registry", "popped", "session"} })

\* A free thread picks up the oldest queued call.
PickUp(j) ==
  /\ pool # <<>>
  /\ j = Head(pool)
  /\ At(j, "queued")
  /\ Busy < Workers
  /\ pool' = Tail(pool)
  /\ Move(j, "started")
  /\ UNCHANGED <<connVars, coreVars, loop>>

EnterRegistry(j) ==
  /\ At(j, "started")
  /\ job[j].kind \in {"create", "remove"}
  /\ ~RegistryHeld
  /\ Move(j, "registry")
  /\ UNCHANGED <<connVars, pool, coreVars, loop>>

\* A remove that popped a session keeps the registry's lock meanwhile.
EnterSession(j) ==
  /\ \/ At(j, "started") /\ job[j].kind \in {"call", "reset", "stop"}
     \/ At(j, "popped")
  /\ ~SessionHeld(job[j].obj)
  /\ Move(j, "session")
  /\ UNCHANGED <<connVars, pool, coreVars, loop>>

AtCapacity == Cardinality(Registered) >= MaxSessions

\* create() under the registry's lock: refused, failed in a factory, or done.
CreateRefused(j) ==
  /\ At(j, "registry")
  /\ job[j].kind = "create"
  /\ Finish(j, FALSE, None)
  /\ UNCHANGED <<connVars, pool, coreVars, loop>>

CreateDone(j) ==
  /\ At(j, "registry")
  /\ job[j].kind = "create"
  /\ registry[job[j].id] = None
  /\ ~AtCapacity
  /\ registry' = [registry EXCEPT ![job[j].id] = j[1]]
  /\ sess' = [sess EXCEPT ![j[1]] = "open"]
  /\ Finish(j, TRUE, j[1])
  /\ UNCHANGED <<connVars, pool, version, loop>>

\* Mutant: remove() pops the session and does not stop it.
RemovePop_NoStop(j) ==
  /\ At(j, "registry")
  /\ job[j].kind = "remove"
  /\ registry' = [registry EXCEPT ![job[j].id] = None]
  /\ Finish(j, TRUE, None)
  /\ UNCHANGED <<connVars, pool, sess, version, loop>>

\* remove(): the entry is popped; a session that was there is stopped next.
RemovePop(j) ==
  /\ At(j, "registry")
  /\ job[j].kind = "remove"
  /\ registry' = [registry EXCEPT ![job[j].id] = None]
  /\ IF registry[job[j].id] = None
     THEN Finish(j, TRUE, None)
     ELSE job' = [job EXCEPT ![j].at = "popped", ![j].obj = registry[job[j].id]]
  /\ UNCHANGED <<connVars, pool, sess, version, loop>>

\* Mutant: a call keeps the session's lock when it is done.
Leaves_KeepsLock(j, state, bump, ok) ==
  /\ sess' = [sess EXCEPT ![job[j].obj] = state]
  /\ version' = [version EXCEPT ![job[j].obj] = @ + bump]
  /\ UNCHANGED <<connVars, job, pool, registry, loop>>

\* What a call does to the session it worked on, and whether it returned.
Leaves(j, state, bump, ok) ==
  /\ sess' = [sess EXCEPT ![job[j].obj] = state]
  /\ version' = [version EXCEPT ![job[j].obj] = @ + bump]
  /\ Finish(j, ok, None)
  /\ UNCHANGED <<connVars, pool, registry, loop>>

\* A model call in the session raised: the session failed, or it stays in the
\* draining state with its version when the call was recognizer.reset().
BackendRaised(j) ==
  /\ sess[job[j].obj] = "open"
  /\ \/ Leaves(j, "failed", 1, FALSE)
     \/ ResetMayRaise /\ Leaves(j, "draining", 0, FALSE)

\* ingest() or flush(): done, failed, or answered without a change.
CallDone(j) ==
  LET o == job[j].obj
  IN  /\ At(j, "session")
      /\ job[j].kind = "call"
      /\ \/ sess[o] = "open" /\ version[o] < MaxVersion /\ Leaves(j, "open", 1, TRUE)
         \/ BackendRaised(j)
         \/ \E ok \in BOOLEAN : Leaves(j, sess[o], 0, ok)

VersionMatches(j) == job[j].exp = version[job[j].obj]

\* reset() serves again whatever the state was, if the version matches; it may
\* also be refused, answered from its cache, or raise before it serves.
ResetDone(j) ==
  LET o == job[j].obj
  IN  /\ At(j, "session")
      /\ job[j].kind = "reset"
      /\ \/ VersionMatches(j) /\ Leaves(j, "open", 1, TRUE)
         \/ \E ok \in BOOLEAN : Leaves(j, sess[o], 0, ok)

\* Mutant: stop() leaves the state version.
Closes_SameVersion(j) == Leaves(j, "closed", 0, TRUE)
Closes(j) ==
  Leaves(j, "closed", IF sess[job[j].obj] = "closed" THEN 0 ELSE 1, TRUE)

\* stop(), called by the client's command or by remove(); it flushes first.
StopDone(j) ==
  /\ At(j, "session")
  /\ job[j].kind \in {"stop", "remove"}
  /\ Closes(j) \/ BackendRaised(j)

ThreadStep(j) ==
  \/ PickUp(j)
  \/ EnterRegistry(j)
  \/ EnterSession(j)
  \/ CreateRefused(j)
  \/ CreateDone(j)
  \/ RemovePop(j)
  \/ CallDone(j)
  \/ ResetDone(j)
  \/ StopDone(j)

Served ==
  /\ \A c \in Conns : phase[c] = "gone"
  /\ \A j \in Jobs : job[j] = NoJob
  /\ UNCHANGED vars

Next ==
  \/ \E c \in Conns : LoopStep(c)
  \/ ReadinessWaits
  \/ LoopGoesOn
  \/ \E j \in Jobs : ThreadStep(j)
  \/ Served

\* The event loop runs its ready tasks in turn, so a task that is ready again
\* and again between the waits of the loop gets to run; the threads keep
\* running and every model call returns.  Nobody has to send a command, and the
\* send of error_close does not have to return.
Fairness ==
  /\ \A c \in Conns : SF_vars(BeginCleanup(c) \/ EndCleanup(c))
  /\ WF_vars(LoopGoesOn)
  /\ \A j \in Jobs : WF_vars(ThreadStep(j))

Spec == Init /\ [][Next]_vars
FairSpec == Spec /\ Fairness

-----------------------------------------------------------------------------
(* Properties *)

\* The connection is over, and its client had claimed a state_version that the
\* session did not have yet.
Outran(o) == o \in ahead /\ phase[o] \notin {"new", "running"}

\* The limit on concurrent sessions is a limit on live decoders, not just on
\* entries: outside the registry only the session a remove() is stopping is
\* still open, and one that an abandoned reset brought back because its client
\* had guessed the version that the stop would give it.
LiveDecodersBounded ==
  Cardinality({ o \in Conns : sess[o] = "open"
                              /\ (Outran(o) => \E id \in Ids : registry[id] = o) })
    <= MaxSessions + Cardinality({ j \in Jobs : job[j].kind = "remove"
                                                 /\ job[j].at \in {"popped", "session"} })

\* A running connection's session stays registered under its identifier until
\* the connection itself gives it up (when no two clients share an identifier).
StartedIsRegistered ==
  \A c \in Conns :
    phase[c] = "running" /\ session[c] # None => registry[sid[c]] = session[c]

\* Somebody will remove the entry: a connection that knows the identifier, or
\* a call that is under way.
Accounted(id) ==
  \/ \E c \in Conns : sid[c] = id
  \/ \E j \in Jobs : job[j].id = id /\ job[j].kind = "create" /\ At(j, "done")
  \/ \E j \in Jobs : job[j].id = id /\ job[j].kind = "remove" /\ ~At(j, "done")

\* Whatever is cancelled and however the threads interleave, an entry of a
\* connection that learned of its session is removed: only a start whose
\* consumer was cancelled leaves an entry that nobody knows.
EntriesAccounted ==
  \A id \in Registered : Accounted(id) \/ registry[id] \notin learned

\* A session that was closed is not served again, not even by a reset whose
\* thread was still waiting for the lock when the session was stopped: the stop
\* raised the version the reset was sent for.  The exception is a reset that
\* nobody waits for and that claimed a later version than there was.
ClosedStaysClosed ==
  [][ \A o \in Conns : sess[o] = "closed" /\ ~Outran(o) => sess'[o] = "closed" ]_vars

\* A connection whose run has ended goes away, whatever its threads and the
\* other connections do, once the failure it may have to send is off.
TeardownEnds == \A c \in Conns : phase[c] = "teardown" ~> phase[c] = "gone"

\* registry.py: a session_id that "is already active" cannot be started again,
\* so two running connections never stream under one identifier.
IdsExclusive ==
  \A c, d \in Conns :
    /\ phase[c] = "running" /\ session[c] # None
    /\ phase[d] = "running" /\ session[d] # None
    /\ sid[c] = sid[d]
    => c = d

\* README.md: "... close-code mapping, and cleanup on disconnect."  When every
\* connection is gone and no thread runs, no session is registered.
CleanedUp ==
  (\A c \in Conns : phase[c] = "gone") /\ (\A j \in Jobs : job[j] = NoJob)
    => Registered = {}

=============================================================================
