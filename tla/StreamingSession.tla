-------------------------- MODULE StreamingSession --------------------------
(***************************************************************************)
(* One StreamingSession (streaming/session.py): the protocol state of one  *)
(* ordered PCM stream.                                                     *)
(*                                                                         *)
(* Every public method runs under the session's lock from its first line   *)
(* to its return or raise, so one call is one action and calls of several  *)
(* threads are a sequence of actions in any order.  The recognizer and the *)
(* finalizer are environment: each of their calls may raise or return      *)
(* whatever the protocol of asr/base.py lets them return.                  *)
(*                                                                         *)
(* Audio is a sequence of samples; a payload is the samples of one frame.  *)
(***************************************************************************)
EXTENDS RevisionLog, Integers, SequencesExt

CONSTANTS
  Samples,              \* sample values
  Payloads,             \* the frames a client may send
  Digest,               \* SHA-256 of a payload
  MaxUtteranceSamples,  \* max_utterance_seconds * sample_rate
  MaxSessionSamples,    \* max_session_seconds * sample_rate
  FingerprintCapacity,
  ResetCacheCapacity,
  ResetIds,             \* reset identifiers that pass the length check
  HasFinalizer,         \* is there an endpoint verifier?
  ResetMayRaise,        \* can recognizer.reset() raise?
  MaxStateVersion       \* model bound on state_version

ASSUME SessionAssumption ==
  /\ \A p \in Payloads : p \in Seq(Samples) /\ p # <<>>
  /\ \A p, q \in Payloads : Digest[p] = Digest[q] => p = q
  /\ DOMAIN Digest = Payloads
  /\ MaxUtteranceSamples \in Nat \ {0}
  /\ MaxSessionSamples \in Nat
  /\ MaxUtteranceSamples <= MaxSessionSamples
  /\ FingerprintCapacity \in Nat \ {0}
  /\ ResetCacheCapacity \in Nat \ {0}
  /\ HasFinalizer \in BOOLEAN
  /\ ResetMayRaise \in BOOLEAN
  /\ MaxStateVersion \in Nat

VARIABLES
  state,         \* SessionState
  generation,
  stateVersion,
  nextSeq,       \* next_audio_sequence
  total,         \* total_samples
  failedCode,
  audio,         \* the samples buffered for the current utterance
  fingerprints,  \* OrderedDict sequence -> digest, oldest first
  completed,     \* finished utterances
  utterance,     \* _utterance_index
  log,           \* revision log of the current utterance
  resetCache,    \* OrderedDict reset_id -> ResetResult, oldest first
  reply,         \* what the last call returned or raised
  heard,         \* recognizer: the samples it absorbed since its last reset
  accepted,      \* history: the payloads accepted in this generation
  received       \* history: their samples, in one sequence

vars == <<state, generation, stateVersion, nextSeq, total, failedCode, audio,
          fingerprints, completed, utterance, log, resetCache, reply, heard,
          accepted, received>>

\* Groups of variables that actions leave alone together.
stream     == <<nextSeq, total, fingerprints, accepted, received>>
utteranceVars == <<audio, completed, utterance, log>>
epoch      == <<generation, resetCache>>

Serving == {"ready", "listening"}
States  == Serving \cup {"draining", "closed", "failed"}

\* AudioRingBuffer.append on the flattened buffer: the newest samples stay.
Newest(s, capacity) ==
  IF Len(s) <= capacity THEN s ELSE SubSeq(s, Len(s) - capacity + 1, Len(s))

Init ==
  /\ state = "ready"
  /\ generation = 0
  /\ stateVersion = 0
  /\ nextSeq = 0
  /\ total = 0
  /\ failedCode = "none"
  /\ audio = <<>>
  /\ fingerprints = <<>>
  /\ completed = <<>>
  /\ utterance = 0
  /\ log = <<>>
  /\ resetCache = <<>>
  /\ reply = [op |-> "init", outcome |-> "none"]
  /\ heard = <<>>
  /\ accepted = <<>>
  /\ received = <<>>

\* The bound on state_version; n is what the call may add to it.
Room(n) == stateVersion + n <= MaxStateVersion

Answer(op, outcome) == reply' = [op |-> op, outcome |-> outcome]

\* A call that returns or raises without touching the session.
Unchanged == UNCHANGED <<state, stateVersion, failedCode, heard, stream,
                         utteranceVars, epoch>>

-----------------------------------------------------------------------------
(* ingest *)

\* Mutant: the stored digest is not compared.
Remembered_SequenceOnly(seq, p) ==
  \E i \in 1..Len(fingerprints) : fingerprints[i].seq = seq

\* Is this the payload the fingerprint window remembers at that sequence?
Remembered(seq, p) ==
  \E i \in 1..Len(fingerprints) :
    fingerprints[i].seq = seq /\ fingerprints[i].digest = Digest[p]

\* Mutant: only a closed session refuses audio.
TakesAudio_UnlessClosed == state # "closed"

\* The state check of ingest and flush.
TakesAudio == state \in Serving

\* Mutant: the session limit is not checked.
OverLimit_UtteranceOnly(p) == Len(audio) + Len(p) > MaxUtteranceSamples

\* A payload that would exceed a limit is refused, not trimmed.
OverLimit(p) ==
  \/ total + Len(p) > MaxSessionSamples
  \/ Len(audio) + Len(p) > MaxUtteranceSamples

\* The checks of ingest before the recognizer is called, in their order.
IngestVerdict(seq, p) ==
  IF ~TakesAudio THEN "state_error"
  ELSE IF seq < 0 THEN "sequence_conflict"
  ELSE IF p = <<>> THEN "invalid_audio"
  ELSE IF seq < nextSeq
       THEN IF Remembered(seq, p) THEN "duplicate" ELSE "sequence_conflict"
  ELSE IF seq > nextSeq THEN "sequence_conflict"
  ELSE IF OverLimit(p) THEN "resource_limit"
  ELSE "decode"

\* Refused, or recognised as a duplicate: nothing changes.
IngestAnswered(seq, p) ==
  /\ IngestVerdict(seq, p) # "decode"
  /\ Answer("ingest", IngestVerdict(seq, p))
  /\ Unchanged

\* Mutant: the oldest fingerprint is not evicted.
Remember_NoEviction(seq, p) ==
  Append(fingerprints, [seq |-> seq, digest |-> Digest[p]])

Remember(seq, p) ==
  Newest(Append(fingerprints, [seq |-> seq, digest |-> Digest[p]]),
         FingerprintCapacity)

Buffered(p) == Newest(audio \o p, MaxUtteranceSamples)

\* accept_audio returned nothing or a hypothesis the log takes.
IngestAccepted(seq, p, newLog) ==
  /\ IngestVerdict(seq, p) = "decode"
  /\ Room(1)
  /\ log' = newLog
  /\ heard' = heard \o p
  /\ audio' = Buffered(p)
  /\ fingerprints' = Remember(seq, p)
  /\ nextSeq' = nextSeq + 1
  /\ total' = total + Len(p)
  /\ accepted' = Append(accepted, p)
  /\ received' = received \o p
  /\ state' = "listening"
  /\ stateVersion' = stateVersion + 1
  /\ Answer("ingest", "accepted")
  /\ UNCHANGED <<failedCode, completed, utterance, epoch>>

\* accept_audio raised, or its hypothesis is not a partial the log takes.
IngestFailed(seq, p) ==
  /\ IngestVerdict(seq, p) = "decode"
  /\ Room(1)
  /\ state' = "failed"
  /\ failedCode' = "STREAMING_BACKEND_FAILED"
  /\ stateVersion' = stateVersion + 1
  /\ heard' \in {heard, heard \o p}
  /\ Answer("ingest", "backend_failed")
  /\ UNCHANGED <<stream, utteranceVars, epoch>>

Ingest(seq, p) ==
  \/ IngestAnswered(seq, p)
  \/ IngestAccepted(seq, p, log)
  \/ \E h \in Hypotheses :
       IF h.stage = Partial /\ Appendable(log, h)
       THEN IngestAccepted(seq, p, Append(log, h))
       ELSE IngestFailed(seq, p)
-----------------------------------------------------------------------------
(* flush *)

\* The state and audio checks of flush, after its generation check.
FlushRefused == ~TakesAudio \/ audio = <<>>

\* finalize() raised, or what it returned is not a stream_final the log takes.
FinalizeFails ==
  /\ state' = "failed"
  /\ failedCode' = "STREAMING_FINALIZE_FAILED"
  /\ stateVersion' = stateVersion + 1
  /\ UNCHANGED <<heard, stream, utteranceVars, epoch>>

\* Mutant: the fallback does not carry the text of the stream_final.
Fallback_Blank(h) == [stage |-> StreamOnly, text |-> Blank]

\* What the log gets when the verifier raised.
Fallback(h) == [stage |-> StreamOnly, text |-> h.text]

\* The verifier's entries after the stream_final h: its own answer, or the
\* fallback; none without a verifier.
VerifierEntries(h) ==
  IF ~HasFinalizer THEN { <<>> }
  ELSE { <<[stage |-> DualPassFinal, text |-> t]>> : t \in Texts } \cup { <<Fallback(h)>> }

\* The logs an utterance can end with.
FinishedLogs ==
  UNION { { Append(log, h) \o v : v \in VerifierEntries(h) } :
          h \in { g \in Hypotheses : g.stage = StreamFinal /\ Appendable(log, g) } }

\* Mutant: the buffer is not cleared.
CompleteUtterance_KeepsAudio(newLog) ==
  /\ completed' = Append(completed,
                    [utterance |-> utterance, items |-> newLog, audio |-> audio])
  /\ UNCHANGED audio

\* Both passes are done: the utterance is recorded and its audio dropped.
CompleteUtterance(newLog) ==
  /\ completed' = Append(completed,
                    [utterance |-> utterance, items |-> newLog, audio |-> audio])
  /\ audio' = <<>>

\* recognizer.reset() returned: the decoder forgot what it heard.
DecoderReset == heard' = <<>>

NextUtterance == utterance' = utterance + 1 /\ log' = <<>>

\* recognizer.reset() succeeded; bump is what the caller adds to state_version.
UtteranceClosed(newLog, endState, bump) ==
  /\ CompleteUtterance(newLog)
  /\ DecoderReset
  /\ NextUtterance
  /\ state' = endState
  /\ stateVersion' = stateVersion + bump
  /\ UNCHANGED <<failedCode, stream, epoch>>

\* recognizer.reset() raised: the call ends there, in the draining state.
UtteranceStuck(newLog) ==
  /\ ResetMayRaise
  /\ CompleteUtterance(newLog)
  /\ heard' \in {heard, <<>>}
  /\ log' = newLog
  /\ state' = "draining"
  /\ UNCHANGED <<stateVersion, failedCode, utterance, stream, epoch>>

\* NoGeneration: the caller does not pass expected_generation.
NoGeneration == -1

Flush(expectedGeneration) ==
  \/ /\ expectedGeneration \notin {NoGeneration, generation}
     /\ Answer("flush", "generation_conflict")
     /\ Unchanged
  \/ /\ expectedGeneration \in {NoGeneration, generation}
     /\ \/ /\ FlushRefused
           /\ Answer("flush", "state_error")
           /\ Unchanged
        \/ /\ ~FlushRefused
           /\ Room(1)
           /\ \/ FinalizeFails /\ Answer("flush", "backend_failed")
              \/ \E l \in FinishedLogs :
                   \/ UtteranceClosed(l, "ready", 1) /\ Answer("flush", "flushed")
                   \/ UtteranceStuck(l) /\ Answer("flush", "raised")

-----------------------------------------------------------------------------
(* reset *)

Cached(id) == { r \in { resetCache[i] : i \in 1..Len(resetCache) } : r.id = id }

\* A reset_id still in the cache is answered from it, whatever else is passed.
ResetReplayed(id) ==
  /\ Cached(id) # {}
  /\ Answer("reset", "replay")
  /\ Unchanged

\* Stale generation or stale state version.
ResetRefused(id, version, gen) ==
  /\ Cached(id) = {}
  /\ gen # generation \/ version # stateVersion
  /\ Answer("reset", "generation_conflict")
  /\ Unchanged

ResetAdmitted(id, version, gen) ==
  /\ Cached(id) = {}
  /\ gen = generation
  /\ version = stateVersion
  /\ id \in ResetIds
  /\ Room(1)

\* The length check on reset_id comes after the version checks.
ResetInvalid(id, version, gen) ==
  /\ gen = generation
  /\ version = stateVersion
  /\ id \notin ResetIds
  /\ Answer("reset", "invalid")
  /\ Unchanged

\* The result a reset returns and caches.
ResetResult(id) ==
  [id |-> id, generation |-> generation + 1, stateVersion |-> stateVersion + 1,
   removed |-> Len(audio)]

\* Mutant: the generation is not advanced.
NextGeneration_Same == UNCHANGED generation

NextGeneration == generation' = generation + 1

\* Mutants: the fingerprints survive; the next sequence is one too low.
NewStream_KeepsFingerprints ==
  /\ UNCHANGED fingerprints /\ nextSeq' = 0 /\ total' = 0
  /\ accepted' = <<>> /\ received' = <<>>
NewStream_OneTooLow ==
  /\ fingerprints' = <<>> /\ nextSeq' = -1 /\ total' = 0
  /\ accepted' = <<>> /\ received' = <<>>

NewStream ==
  /\ fingerprints' = <<>> /\ nextSeq' = 0 /\ total' = 0
  /\ accepted' = <<>> /\ received' = <<>>

ResetApplied(id, version, gen) ==
  /\ ResetAdmitted(id, version, gen)
  /\ NewStream
  /\ NextGeneration
  /\ audio' = <<>>
  /\ completed' = <<>>
  /\ DecoderReset
  /\ utterance' = 0
  /\ log' = <<>>
  /\ failedCode' = "none"
  /\ stateVersion' = stateVersion + 1
  /\ state' = "ready"
  /\ resetCache' = Newest(Append(resetCache, ResetResult(id)), ResetCacheCapacity)
  /\ Answer("reset", "reset")

\* recognizer.reset() raised after the buffers were cleared.
ResetRaised(id, version, gen) ==
  /\ ResetMayRaise
  /\ ResetAdmitted(id, version, gen)
  /\ audio' = <<>>
  /\ fingerprints' = <<>>
  /\ completed' = <<>>
  /\ heard' \in {heard, <<>>}
  /\ Answer("reset", "raised")
  /\ UNCHANGED <<state, stateVersion, failedCode, nextSeq, total, accepted,
                 received, utterance, log, epoch>>

\* An identifier the length check refuses.
BadId == "too long"

Reset(id, version, gen) ==
  \/ ResetReplayed(id)
  \/ ResetRefused(id, version, gen)
  \/ ResetInvalid(id, version, gen)
  \/ ResetApplied(id, version, gen)
  \/ ResetRaised(id, version, gen)

-----------------------------------------------------------------------------
(* stop *)

StopClosed ==
  /\ state = "closed"
  /\ Answer("stop", "stopped")
  /\ Unchanged

\* Mutant: the version is not advanced.
CloseSession_SameVersion ==
  state' = "closed" /\ UNCHANGED <<stateVersion, completed>>
CloseSession ==
  state' = "closed" /\ stateVersion' = stateVersion + 1 /\ UNCHANGED completed

\* Nothing to flush: the session failed, or holds no audio.
StopWithoutFlush ==
  /\ state = "failed" \/ (state # "closed" /\ audio = <<>>)
  /\ Room(1)
  /\ CloseSession
  /\ Answer("stop", "stopped")
  /\ UNCHANGED <<failedCode, heard, stream, audio, utterance, log, epoch>>

\* stop() flushes buffered audio first; what flush raises, stop raises.  The
\* flush is never refused: a draining session holds no audio (DrainedEmpty).
StopWithFlush ==
  /\ state \notin {"closed", "failed"}
  /\ audio # <<>>
  /\ ~FlushRefused
  /\ Room(2)
  /\ \/ FinalizeFails /\ Answer("stop", "backend_failed")
     \/ \E l \in FinishedLogs :
          \/ UtteranceClosed(l, "closed", 2) /\ Answer("stop", "stopped")
          \/ UtteranceStuck(l) /\ Answer("stop", "raised")

Stop == StopClosed \/ StopWithoutFlush \/ StopWithFlush

-----------------------------------------------------------------------------
\* What a client may claim of a counter: its value, or another one.  The code
\* only compares for equality, so one other value stands for all of them.
Claims(n) == {n, n + 1}

FrameSequences == -1 .. MaxSessionSamples

Next ==
  \/ \E seq \in FrameSequences, p \in Payloads \cup {<<>>} : Ingest(seq, p)
  \/ \E g \in Claims(generation) \cup {NoGeneration} : Flush(g)
  \/ \E id \in ResetIds \cup {BadId}, v \in Claims(stateVersion),
        g \in Claims(generation) : Reset(id, v, g)
  \/ Stop

Spec == Init /\ [][Next]_vars

-----------------------------------------------------------------------------
(* Properties *)

ResetResults == [id : ResetIds, generation : Nat, stateVersion : Nat, removed : Nat]

Operations == {"init", "ingest", "flush", "reset", "stop"}
Outcomes ==
  {"none", "accepted", "duplicate", "state_error", "sequence_conflict",
   "invalid_audio", "resource_limit", "backend_failed", "generation_conflict",
   "flushed", "reset", "replay", "invalid", "stopped", "raised"}

\* The type invariant of the session.
TypeOK ==
  /\ state \in States
  /\ generation \in Nat
  /\ stateVersion \in Nat
  /\ nextSeq \in Nat
  /\ total \in Nat
  /\ failedCode \in {"none", "STREAMING_BACKEND_FAILED", "STREAMING_FINALIZE_FAILED"}
  /\ audio \in Seq(Samples)
  /\ heard \in Seq(Samples)
  /\ accepted \in Seq(Payloads)
  /\ received \in Seq(Samples)
  /\ fingerprints \in Seq([seq : Nat, digest : { Digest[p] : p \in Payloads }])
  /\ log \in Seq(Hypotheses)
  /\ utterance \in Nat
  /\ completed \in Seq([utterance : Nat, items : Seq(Hypotheses), audio : Seq(Samples)])
  /\ resetCache \in Seq(ResetResults)
  /\ reply \in [op : Operations, outcome : Outcomes]

\* What is left of a sequence after its first k elements.
After(s, k) == SubSeq(s, k + 1, Len(s))

\* No sample is lost, repeated or reordered between the frames the session
\* accepted and the audio its verifier passes get: cut points divide what was
\* received into the audio of the finished utterances, each starting where the
\* one before it ended, and the buffered audio, which reaches to the end.
\* (When recognizer.reset() raises inside reset(), the buffers are already
\* cleared, so the first cut point need not be the start of the stream.)
UtterancesPartitionStream ==
  \E cut \in [0..Len(completed) -> 0..Len(received)] :
    /\ \A i \in 1..Len(completed) :
         /\ cut[i-1] <= cut[i]
         /\ completed[i].audio = SubSeq(received, cut[i-1] + 1, cut[i])
    /\ audio = After(received, cut[Len(completed)])
    /\ ~ResetMayRaise => cut[0] = 0

\* The limits of ingest hold on what was really received, and no verifier pass
\* gets, or will get, more audio than one utterance may have.
LimitsHold ==
  /\ Len(received) = total
  /\ total <= MaxSessionSamples
  /\ Len(audio) <= MaxUtteranceSamples
  /\ \A i \in 1..Len(completed) : Len(completed[i].audio) <= MaxUtteranceSamples

\* The fingerprint window is a gapless run of committed sequences that ends at
\* the newest one, each with the digest of the payload committed there.
FingerprintsFaithful ==
  /\ Len(fingerprints) <= FingerprintCapacity
  /\ \A i \in 1..Len(fingerprints) :
       /\ fingerprints[i].seq = nextSeq - 1 - (Len(fingerprints) - i)
       /\ fingerprints[i].digest = Digest[accepted[fingerprints[i].seq + 1]]

\* Was payload p accepted at sequence number seq in this generation?
CommittedAt(seq, p) == seq + 1 \in 1..Len(accepted) /\ accepted[seq + 1] = p

\* A frame is acknowledged as a duplicate only if that very payload was
\* accepted at its sequence number in this generation.
DuplicatesAreReal ==
  \A seq \in FrameSequences, p \in Payloads :
    IngestVerdict(seq, p) = "duplicate" => CommittedAt(seq, p)

\* Finished utterances have distinct, increasing identifiers and a complete
\* revision log: monotonic stages, a final one when there is a verifier, and
\* a failed verifier leaves the text of the stream_final as it was.
UtterancesWellFormed ==
  \A i \in 1..Len(completed) :
    LET items == completed[i].items
        last  == items[Len(items)]
    IN  /\ i > 1 => completed[i-1].utterance < completed[i].utterance
        /\ completed[i].utterance <= utterance
        /\ MonotonicStages(items)
        /\ completed[i].audio # <<>>
        /\ last.stage \in IF HasFinalizer THEN {DualPassFinal, StreamOnly} ELSE {StreamFinal}
        /\ last.stage = StreamOnly => items[Len(items) - 1].text = last.text

\* While the session serves, the decoder has absorbed the buffered audio and,
\* when recognizer.reset() cannot raise, nothing else since its last reset.
DecoderInSync ==
  state \in Serving =>
    /\ \E k \in 0..Len(heard) : audio = After(heard, k)
    /\ ~ResetMayRaise => heard = audio

\* A ready session is between utterances and a draining one has lost its
\* audio already, so neither can be flushed twice.
DrainedEmpty ==
  /\ state = "ready" => audio = <<>> /\ log = <<>>
  /\ state = "draining" => audio = <<>>

\* The reset cache answers with resets that happened: one per identifier, the
\* oldest first, none of a later generation than the session's.
ResetCacheOrdered ==
  /\ Len(resetCache) <= ResetCacheCapacity
  /\ \A i, j \in 1..Len(resetCache) :
       i < j => /\ resetCache[i].id # resetCache[j].id
                /\ resetCache[i].generation < resetCache[j].generation
                /\ resetCache[i].stateVersion < resetCache[j].stateVersion
  /\ \A i \in 1..Len(resetCache) :
       /\ resetCache[i].generation <= generation
       /\ resetCache[i].stateVersion <= stateVersion
  /\ resetCache # <<>> => resetCache[Len(resetCache)].generation = generation

\* What snapshot() shows, apart from the version itself.
Snapshot == <<state, generation, nextSeq, total, Len(audio), Len(completed), failedCode>>

\* A client that names the current state_version in a reset knows the state it
\* resets: every call that changes the snapshot raises the version, unless the
\* backend's exception leaves the call in the middle.
VersionTracksState ==
  [][ Snapshot' # Snapshot /\ reply'.outcome # "raised"
        => stateVersion' > stateVersion ]_vars

\* The only way back into service is a new generation with an empty stream
\* and a decoder that was reset.
ServiceResumesFresh ==
  [][ state \notin Serving /\ state' \in Serving
        => /\ generation' = generation + 1
           /\ accepted' = <<>> /\ audio' = <<>> /\ heard' = <<>>
           /\ fingerprints' = <<>> /\ failedCode' = "none" ]_vars

\* Within a generation the stream only grows: no call takes back an accepted
\* frame or a finished utterance.  (A reset that raises half-way is the one
\* call that forgets utterances without a new generation.)
StreamOnlyGrows ==
  [][ generation' = generation
        => /\ IsPrefix(accepted, accepted')
           /\ reply'.outcome # "raised" => IsPrefix(completed, completed') ]_vars

\* The session keeps the promise of an ordered PCM stream.
Promise == INSTANCE OrderedPcmStream
  WITH Frames <- Payloads, epoch <- generation, open <- state \in Serving,
       taken <- accepted, length <- total, settled <- total - Len(audio)

\* Every frame once and in order, all or nothing of the pending audio settled
\* by each utterance, no frame taken by a halted stream, and a fresh stream
\* after every reset: the session implements OrderedPcmStream.
KeepsPromise == Promise!Spec

\* docs/ARCHITECTURE.md: "The session is fail-closed after a streaming backend
\* failure because a stateful decoder cannot be rolled back safely."
FailClosed ==
  reply.outcome \in {"backend_failed", "raised"} => state \notin Serving

=============================================================================
