# A TLA+ model of EchoForge ASR

EchoForge ASR is a streaming speech recognition server. A browser sends 16 kHz
PCM frames over a WebSocket; a streaming recognizer produces partial and final
hypotheses while the audio arrives, and an optional endpoint verifier (a second,
offline pass) revises each finished utterance. Around it stand programs that
download and extract the AISHELL data set and turn it into evidence: a manifest
of utterances, a run of the models over it, a score. This directory holds TLA+
modules that model the parts of these programs where order, failure and
concurrency matter, the TLC configurations that check them on small instances,
and TLAPS proofs of their main properties for every value of the constants.

Paths below are relative to the repository (`src/echoforge/...`).

## 1. Inventory

| Component | State it keeps | Operations | Talks to | Modelled in |
|---|---|---|---|---|
| Streaming session, `streaming/session.py` | state, generation, state_version, next sequence, sample totals, utterance buffer, fingerprint window, revision log, finished utterances, reset cache | `ingest`, `flush`, `reset`, `stop`, `snapshot`, each under the session's RLock | recognizer, finalizer | `StreamingSession` |
| Revision log, `cascade/revisions.py` | revisions of one utterance | `append` | the session | `RevisionLog` |
| Audio ring buffer, `audio/ring_buffer.py` | deque of arrays, size | `append`, `clear`, `to_array` | the session | `AudioRingBuffer` |
| Energy VAD, `vad/energy.py` | pending samples, run counters, candidate boundaries, version | `process`, `flush`, `reset` | the connection | `EnergyVAD` |
| Session registry, `streaming/registry.py` | identifier → session, under an RLock | `create`, `get`, `remove`, `close_all`, `active_count` | sessions (stops them under its lock) | `StreamServer`; `close_all` in `StreamConnection` |
| WebSocket server, `server/app.py` | per connection: session, identifier, VAD, inbound queue, three tasks, send lock, sequence number | receive, heartbeat and consumer loop, cleanup, lifespan | registry, session (in worker threads), VAD (on the loop) | `StreamServer` (many connections), `StreamConnection` (one in detail) |
| Recognizer protocol and sherpa adapter, `asr/base.py`, `asr/sherpa_onnx.py` | decoder stream, last text, hotwords | `accept_audio`, `finalize`, `reset`, `update_hotwords` | the native library | protocol: environment of `StreamingSession`; adapter: `StreamConnection` |
| Endpoint verifier, `asr/faster_whisper.py` | lazily loaded model | `finalize` | the native library | environment of `StreamingSession`; its lazy load in `EvaluationPipeline` |
| Backend factory, preflight, `asr/factory.py`, `asr/preflight.py` | none | static file checks | files | no |
| Wire contracts, `contracts/` | none | framing, JSON validation | server | stages in `RevisionLog`, errors as outcomes |
| PCM utilities, `audio/pcm.py` | none | conversion, gain, resampling | server, evaluation | no |
| Browser client, `web/app.js`, `web/pcm-worklet.js` | capture, sequence, transport, reconnect and reset logic | UI events, socket events | server | no |
| AISHELL download and migration, `scripts/download_aishell.py` | partial files, sidecars, receipts, manifests | resume, verify, promote by hard link, attest | file system, network | `ArchiveDownload` |
| AISHELL extraction, `evaluation/aishell_extract.py` | staging directory, target, marker | validate, extract, promote | file system | `AishellExtraction` |
| Manifest preparation, `evaluation/aishell.py`, `evidence_io.py` | the published manifest | select, validate twice, publish exclusively | file system | `EvaluationPipeline` |
| Manifest runner, `evaluation/runner.py` | evidence under construction | hash, run, hash again, publish | recognizer, files | `EvaluationPipeline` |
| Evidence evaluation, `scripts/evaluate_manifest.py`, `evidence_contract.py` | the published score | fail-closed validation | files | `EvaluationPipeline` |
| Character error rate, `evaluation/cer.py` | none | edit distance | evaluation | no |
| Degradations, CLI, health API, site build | none | numeric processing, argument parsing, file copies | – | no |

### How the parts interact

One asyncio event loop serves every connection. A connection runs three tasks:
the receive loop fills a bounded queue, the consumer takes one message at a time
out of it, and the heartbeat watches for silence. Calls into the registry and
into a session go through `asyncio.to_thread`: they run in a worker thread and
take the registry's lock, the session's lock, or both in that order (`remove`
stops the session while it holds the registry's lock). When one of the three
tasks ends, the others are cancelled – but a thread cannot be cancelled, so a
model call goes on, with the lock, and nobody takes its result. The event loop
itself takes the same locks when it reads a snapshot (for every event it sends)
or counts the sessions (`/readiness`). The VAD is driven on the loop, after the
session accepted the frame.

The data programs share nothing but files. The downloader leaves archives, receipts
and a manifest; the extraction binds them to a tree with a marker; the
preparation, the runner and the evaluator hand each other JSON documents that
carry digests of everything they were made from. Any of them can be killed
between two effects on a directory, and files can be replaced while it works.

### What is hard, and what makes each component correct

- *Session.* A stateful decoder cannot be rolled back, so every exception in the
  middle of a call must leave a state in which nothing is served with audio or a
  log nobody knows. Correct means: frames are taken once and in order; limits
  and buffer agree, so no audio of an utterance is trimmed; the bounded caches
  (fingerprints, reset results) answer only with what happened; utterances
  partition the accepted audio; only a reset, into a new generation, opens a
  session again; a version names one observable state.
- *Ring buffer.* A list of arrays, cut in whole arrays or at the front of one,
  is the newest samples of the stream.
- *VAD.* Two thresholds and two debounce counters, over frames that are cut out
  of arbitrary calls: events alternate, do not overlap, are justified by the
  audio, and do not depend on how the audio was cut.
- *Registry and server.* Cancellation while a thread runs, two locks, identifiers
  that are used again: the limit on sessions limits live decoders, a running
  connection keeps its session, every entry is removed by somebody, a stopped
  session is not served again, teardown ends.
- *Connection.* Three tasks and the shutdown share a queue, a clock and a send
  lock that may be held for ever. Correct means: messages are answered in order
  and none is overtaken; what reaches the client is numbered; the close code is
  the first reason and the last word; a busy consumer is not a dead client;
  shutdown ends.
- *Download.* A partial file, its sidecar, the archive and its receipt are changed
  one after the other while the object on the server may change. Correct means:
  blocks of two versions are never mixed, what is on the disk can be traced to
  its version, receipts and manifests are true, and starting again leads on.
- *Extraction.* A tree is built in a staging directory and renamed. Correct
  means: what is published is complete and final, what is reported is what was
  asked for, and a crash never blocks the next run.
- *Evidence.* Hashes are taken before and after files are used, in three programs.
  Correct means that the checks fit together: a score is of a whole split and of
  the very models it names, and what the runner freezes can be scored, apart from
  two things it leaves to the evaluator.

`PROJECT.json` lists the hazards at their lines, each with the properties that
would catch it or with the reason why none does.

## 2. Structure and plan

The modules, in the order in which they matter and were built:

1. `RevisionLog`, `OrderedPcmStream`, `StreamingSession`, with proofs: the session
   is where audio could be lost or heard twice.
2. `SampleWindow`, `AudioRingBuffer`, `EnergyVAD`, with proofs.
3. `StreamServer` with proofs: registry, worker threads, cancellation, two locks.
4. `StreamConnection` with proofs: one connection's tasks, queue, lock and close
   codes, hotwords, and the shutdown.
5. `ArchiveDownload` and `AishellExtraction` with proofs: the file protocols, with a
   crash between any two effects.
6. `EvaluationPipeline` with proofs: preparation, run and evaluation composed over the
   files between them.

Two modules are abstract specifications: `OrderedPcmStream`, which `StreamingSession`
implements, and `SampleWindow`, which `AudioRingBuffer` implements. `StreamServer` and
`StreamConnection` cut the server at the worker thread: the first follows many
connections and what their threads do to registry and sessions, the second one
connection and what its tasks do to each other; a call in a thread is a sequence
of lock steps there and a call that returns or raises here.

Further work would be: the server with a stop that raises (a sharper bound than
`LiveDecodersBounded`), two downloaders in one directory, the sherpa adapter's
hotwords under calls that overlap, and the browser client against
`StreamingSession` over a lossy connection.

No module declares a RECURSIVE operator: where the code loops over data (the ring
buffer's trim loop, a frame's energy, the samples of a stream), the model has a
recursive function, about which can be proved.

## 3. Modules

### RevisionLog

The transition table of `RevisionLog.append`: `LegalStages(log)` is the set of
stages that may follow, `Appendable` is when `append` does not raise. Scores,
timings and identifiers are left out. Texts are model values with one `Blank`
for every text that is empty after `strip()`.

### OrderedPcmStream

The contract of the client's stream, without sequence numbers, buffers, decoders
or caches: frames are taken in order, an utterance settles *all* pending audio,
a halted stream takes nothing, and only a renewal, which starts empty, opens it
again.

### StreamingSession

One action per public method: `Ingest`, `Flush`, `Reset`, `Stop`. Each runs under
the session's lock from its first line to its return or raise, so one call is
one step, and threads that call concurrently are interleavings of steps. The
order of the checks in `ingest` is `IngestVerdict`; the paths of `flush` are
`FlushRefused`, `FinalizeFails`, `UtteranceClosed` and `UtteranceStuck` (the last
is `recognizer.reset()` raising after the utterance was recorded); `reset` is
`ResetReplayed`, `ResetRefused`, `ResetInvalid`, `ResetApplied` and `ResetRaised`.
The order in which `reset` clears things before and after the call that may
raise is kept: `ResetRaised` clears the buffers and leaves the counters.

The recognizer and the verifier are environment: `accept_audio` returns nothing
or any hypothesis, or raises, with or without having absorbed the samples;
`finalize` returns any hypothesis or raises; the verifier answers any text or
raises; `reset` raises when the constant `ResetMayRaise` says so. Variables
`heard` (what the decoder absorbed since its last reset), `accepted` and `received`
(the frames taken in this generation, and their samples) are history for the
properties; `reply` is what the last call answered.

Data: audio is a sequence of samples, a payload is its samples, SHA-256 is an
injective function on payloads, an OrderedDict is a sequence of records, oldest
first. A client's claims about a generation or version are the true value or
another one, because the code only compares for equality.

### AudioRingBuffer, SampleWindow

The deque with its trim loop: `Trim` is one turn of it, which drops the oldest array
(`DropsWhole`) or cuts its front, and `Trimmed` is the buffer after the last turn.
`to_array()` (`ToArray`) is shown to be the abstract window of the newest samples,
which is also what `StreamingSession` uses for its buffer (`Newest`).

### EnergyVAD

The detector is a record; `process()` appends its samples (`Process`) and consumes
one full frame per step (`ProcessFrame`); nothing else may happen before its loop
is done, because the caller does not await in it. `Flush` consumes the short
frame that is left and closes the segment. A level in dBFS is compared as a mean
square, which orders levels the same way; the −120 dBFS floor and the rejection
of NaN are left out. `heard` and `history` are what was processed since the last
reset, the second with a mark for every flush.

### StreamServer

The event loop, the executor and the two kinds of locks. A connection's consumer
awaits at most one thread call, its cleanup another: `job` holds both, from
`queued` over the locks a thread takes (`registry`, `popped`, `session`) to `done`.
`EndRun` is the end of `run()`'s wait: the consumer is cancelled, which drops a
queued call but leaves a running one as an orphan. A run that ended with a failure
first tells the client (`closing`; `ErrorClosed` is the end of `error_close`, which has
no deadline and need not come) and cleans up only then (`teardown`). A reset carries
the version that the client claims, whatever it is (`ResetCommand`); `ahead` is
history and remembers who claimed one that did not exist yet. `loop` is what the event loop
is blocked on: when it reads a snapshot or counts sessions while a thread holds
the lock, the whole server waits, and `LoopGoesOn` continues where it stopped. A
session is reduced to its state and version here; what a call may do to them is
what `StreamingSession` allows (`CallDone`, `ResetDone`, `StopDone`), including the
exception of `recognizer.reset()`. A failure of any call ends the connection, as
the handlers map every exception to a `_ConnectionFailure`.

The inbound queue, the heartbeat, hotwords, sending and the shutdown are the
subject of the next module.

### StreamConnection

The steps are those of the event loop, from one await to the next, of the receive
loop (`Receive`, `PutRoom`, `PutTimeout`, `ReceiveTimeout`, `ReceiveEnds`), of the
consumer with its handlers, of the heartbeat, of `run()` with its error close and
cleanup, and of the lifespan's shutdown. The tasks meet in the queue, in `outcome`
(how each ended), in `closed` and in `lock`, which names who holds `_io_lock` and what
is being sent: `BeginSend` takes the lock and a sequence number, `Arrives` delivers,
`Interrupted` is a cancellation, after which the event may or may not have reached
the client. A send has no deadline, so nothing ever has to arrive.

The clock is abstract. `stale` becomes true when no message has come for
`heartbeat_timeout_s` (`TimePasses`) and false with the next message; every deadline
may fire or not where the code awaits with one. Messages are of a few kinds, a
client follows any prefix of one of its `Scripts` and leaves when it likes. A
command's thread call returns or raises. The adapter is reduced to what the
hotwords property needs: whether the model is loaded, the words it wants, the
words its stream has, and whether it has heard audio with that stream.

### ArchiveDownload

The state of the directory survives a crash, the state of the running command does
not, and every step is one effect on the directory. Contents are sequences of
blocks, each of a version of the upstream object; validators (ETag, Last-Modified)
and digests identify the version and the content. Every JSON file has a `.tmp`
sibling, and `WriteJson` is `_write_json_new` step by step: recover a complete
temporary file, refuse a torn one, create, fill, link, unlink.

The normal command handles the archives in order: `Verify` where an archive exists,
else `Download` (probe, pin the version in a sidecar, request the rest, read blocks,
link), then receipt, sidecar and partial file in their order, and at the end the
manifest. The migration attests every archive of a legacy directory against the
legacy manifest and the sidecars before it writes the first receipt. `Interrupted`
is a crash or an error at any place; `UpstreamChanges` replaces an object. The HTTP
checks (redirects, ranges, lengths, validators) are `ResponseAccepted`.

### AishellExtraction

Two names, target and staging, refer to directories with identities, because a
rename moves a directory under whoever holds it. A directory maps names to
contents; the content of a file is the version of the archive it was read from. An
archive has a content and a signature (size, times, inode) that changes with it. The
steps follow `extract_aishell`: look for a target, for a staging directory, validate
or remove what is there, unpack the audio archive member by member and the
resources, bind the tree to a marker, look at the archives again, rename. `Crash`
keeps what was written, `IoError` takes back what the code takes back,
`ArchiveReplaced` exchanges an input. The selection of the speakers is streaming in
the code (first ones in order, with the order checked on the way) and is compared
with its definition as a set (`ReferenceSpeakers`).

### EvaluationPipeline

Three commands, `prepare`, `run` and `evaluate`, in any order and at the same time, each
with the JSON file it publishes through `write_json_new`. `prepare` validates the
extraction, reads the files one by one, validates again and writes the manifest
(`BeginPrepare`, `Scan`, `EndScan`); `run` hashes the model files, decodes the rows –
which is when the adapters load their weights – and hashes again (`HashBefore`,
`ReadRow`, `Decode`, `HashAfter`); `evaluate` accepts a manifest or a runner's evidence
only if everything in it fits together (`Scorable`); it opens no file but that one.
Two of its checks the runner does not make: that the model files have at least a
plausible size (`SizesPlausible`; the contents that have it are the constant
`Plausible`), and that the host and the packages the models need are described
(`EnvironmentKnown`; a run's `known` is what its interpreter could find out). The
environment replaces WAV files, the transcript and model files, extracts again,
and deletes outputs; `Crash` and `Fail` interrupt a command. A hypothesis is what it
was computed from: the audio and the models. With `Restores = FALSE` no file gets back
a content it had before.

## 4. Runs

| Run | Instance | What it shows |
|---|---|---|
| `session_dual_pass` | two frames of different lengths, utterance limit 3, session limit 4, a window of 2 fingerprints, 2 of 3 reset results cached, verifier, every backend call may raise | The invariants of the session, its action properties, and that it implements `OrderedPcmStream` |
| `session_fail_closed` | the same limits, no verifier | **Violation:** `recognizer.reset()` raising in `reset()` leaves the session serving |
| `ring_buffer` | capacity 4, every array up to 5 samples | The deque is the newest 4 samples |
| `energy_vad` | frames of 2 samples, debounce 3 samples each way, 9 samples with flushes anywhere | Segments are disjoint, debounced, justified, and independent of the chunking |
| `server` | two clients with an identifier each, one session allowed, two threads, `recognizer.reset()` never raises | Decoders stay bounded, sessions registered, entries accounted for, closed sessions closed, whatever version a reset claims; every teardown ends (661,211 states) |
| `server_leak` | the same | **Violation:** a disconnect during `create` leaves an entry nobody removes |
| `server_shared_id` | three clients, one identifier | **Violation:** a second removal by name hits another client's session |
| `connection` | a queue of one, nine scripts of up to three messages, one heartbeat, a shutdown at any time (1,012,221 states) | Numbered events, ordered answers, a truthful end, no timeout while work is under way; shutdown ends |
| `connection_hotwords` | a sherpa build without hotword streams | **Violation:** the client was told its hotwords are applied, the decoder has none |
| `download` | two archives, two versions of two blocks, two faults, one change of an object, with and without a legacy manifest (55,588 states) | Versions never mix, validators, receipts and manifests are true, migrations vouch for all; starting again finishes |
| `extraction` | three requests over a good and a bad version, two faults, one replacement per archive (70,102 states) | What is published is complete, reported truthfully and final; running again publishes |
| `evidence` | three utterances in two splits, two arguments or more for each command, three contents of a model file of which one is too small, one fault, two changes (3,688,081 states) | A score is of a whole split and of the models it names; the runner's evidence can be scored if its files and its environment are plausible; outputs appear whole |

### Bounds

*Session.* Every comparison in the code is between counters that differ by at most
one frame at the boundary, so short frames and small limits reach all of them:
limits of 3 and 4 samples with frames of one and two samples give an utterance
exactly full, one sample short, and over; the two limits bite in either order.
A window of two fingerprints evicts after three frames, a cache of two reset
results after three resets. `MaxStateVersion` bounds the calls that change the
session; 5 of them are an utterance, an eviction, a reset and the begin of
another utterance in any order. The bound is a guard on the
step (`Room`), so the last states answer but do not change.

*VAD.* A minimum of three samples is no multiple of the frame of two, so a run can
end inside a frame; amplitudes 0, 1 and 2 lie below, between and above the
thresholds; 9 samples hold a start, an end, and another start, with flushes
between them.

*Server.* Two connections and one allowed session make every create compete;
two threads make lock waits possible while a call runs; a version bound
of 1 in the first run lets a call raise the version or a reset claim one that is
not there yet, while a reset or a stop, which the bound does not hold back, raises
it further; the violations need no more. Three connections are needed for
one violation (the owner, the one whose session is removed, and the newcomer).

*Connection.* A queue of one is full while the consumer works and one message
waits, so the third message meets the full queue. One heartbeat is enough to hold
the lock against an answer, an error or the shutdown; the theorems below hold for
any number. `MaxHeartbeats` is the only bound in a guard.

*Download.* Two blocks make a partial file that is neither empty nor whole; two
archives make a manifest wait for the second after the first. Two faults
interrupt a run and the run that recovers; the theorems hold for any number.
The two versions have the same length, so that a length never gives a mixture
away.

*Extraction.* Three requests differ in manifest, splits and limit, so a directory left
for one is met by another; the bad version has its speakers out of order. Two faults interrupt an extraction and the one that cleans up after it.

*Evidence.* Two speakers in one split and one in another are the smallest data set
with a selection that is a part of a split and one that crosses splits. Two changes
exchange two inputs, or an input twice, between any two reads; one crash tears
one output. One of the runner's environments knows nothing of the packages the
verifier needs, which matters to a run with a verifier only.

### Fairness

Four runs check a liveness property.

*Server.* Worker threads go on: every model call
returns (weak fairness of `ThreadStep(j)`), and the loop resumes when the lock it
waits for is free (weak fairness of `LoopGoesOn`). The event loop runs its ready
callbacks in turn, so a cleanup that is ready whenever the loop is not blocked
does get to run although the loop may block in between: that is strong fairness
of `BeginCleanup` or `EndCleanup`. Nobody is obliged to send a command or to
disconnect, and the send of `error_close` does not have to return: `TeardownEnds`
speaks of a connection whose error, if it has one, is off. Before that only the
shutdown ends it for certain (`ShutdownEnds`).

Two properties of the server need an identifier per client, and this is a
limit of the code, not of the model. With a shared identifier a cleanup can wait
forever for the session lock of another client that uses its session without a
pause, since a Python lock is not fair, and it keeps the registry's lock
meanwhile. And a removal by name may stop the session of another client, whose
next reset, with the right version, serves it again (`ClosedStaysClosed`).

*Connection.* Only what the event loop does on its own is fair, and weakly: it
goes on after the handshake, a cleanup gets its turn, the close at shutdown times out,
cancelled tasks end. Weak fairness of `Cleanup` and of `CloseAll` assumes besides that
the threads of `remove` and of `close_all` return or raise, so that the model calls
they wait for do. Nothing that is sent has to arrive, no command's call has to
return and no client has to do anything.

*Download and extraction.* A command that runs goes on (weak fairness of `Step`), and the
operator starts it again (strong fairness of the start, since a run may fail
before it changes anything, again and again, in between). `RestartsFinish` names
in `Blocked` what only a repair by hand removes.

## 5. Proofs

`StreamingSessionProofs` proves for every sample alphabet, frame set, limit, cache
capacity and backend behaviour:

| Theorem | Statement | Argument |
|---|---|---|
| `TypeCorrect` | `Spec => []TypeOK` | directly inductive |
| `FingerprintsStayFaithful` | `Spec => []FingerprintsFaithful` | with `nextSeq = Len(accepted)` (`FingerprintInv`): an entry's position then determines its sequence number, through the shift of an eviction |
| `DuplicatesStayReal` | `Spec => []DuplicatesAreReal` | from `FingerprintInv` and the injectivity of the digest |
| `UtterancesStayWellFormed` | `Spec => []UtterancesWellFormed` | `UtteranceInv` adds that the live log is monotonic and that a serving session has not recorded its current index; without the latter a second flush after an exception could repeat an identifier |
| `DrainedStaysEmpty` | `Spec => []DrainedEmpty` | directly inductive |
| `ResetCacheStaysOrdered` | `Spec => []ResetCacheOrdered` | inductive with the types; a reset with a cached identifier is a replay |
| `ServiceAlwaysResumesFresh` | `Spec => ServiceResumesFresh` | only `ResetApplied` leaves a state that does not serve for one that does |
| `VersionAlwaysTracksState` | `Spec => VersionTracksState` | step by step, from the types |
| `StreamAlwaysGrows` | `Spec => StreamOnlyGrows` | step by step; an append extends |
| `StreamStaysPartitioned` | `Spec => []UtterancesPartitionStream` | the cut points are the witness: an accepted frame moves only the end of the stream, a finished utterance adds its end as a cut (`Divides`) |
| `LimitsAlwaysHold` | `Spec => []LimitsHold` | with the types: the checks of `ingest` come before the counters grow |
| `DecoderStaysInSync` | `Spec => []DecoderInSync` | with the types: the buffered audio is the end of what the decoder heard, all of it if `reset()` does not raise |
| `SessionKeepsPromise` | `Spec => KeepsPromise` | refinement: an accepted frame is `Take` because the limit checks leave room for all of it in the ring buffer; a finished utterance is `Settle`; a failure is `Halt`; a reset is `Renew` |

Every invariance proof goes through one lemma, `StepKinds`: a step of the session is
one of ten kinds. Assumptions: `SessionAssumption` (payloads are non-empty
sample sequences, the digest is injective on them, the utterance limit does not
exceed the session limit, positive capacities) and `TextAssumption`; the code's
constructor checks justify the ones on limits, and TLC evaluates both on every
run. `DrainedStaysEmpty` and `StreamAlwaysGrows` are proved and in no run.

`EnergyVADProofs` proves for every frame length, both minimum durations, both
thresholds, every sample alphabet and every input:

| Theorem | Statement | Argument |
|---|---|---|
| `DetectorTyped` | `Spec => []TypeOK` | part of the inductive invariant |
| `EventsAlwaysAlternate` | `Spec => []EventsAlternate` | an event continues the account of the events before it (`AccountGrows`) |
| `SegmentsStayDisjoint` | `Spec => []SegmentsDisjoint` | a candidate boundary never lies before the last decision |
| `BoundariesStayDebounced` | `Spec => []Debounced` | an open run is shorter than its minimum, and one frame is at most `FrameSamples` long |
| `BoundariesStayJustified` | `Spec => []BoundariesJustified` | the energy of two pieces is the sum of theirs (`EnergyAdds`), so an open run whose frames reach a threshold reaches it as a whole (`AudioInv`) |
| `ChunkingStaysInvisible` | `Spec => []ChunkingInvisible` | the stream fed one by one is at the last full frame (`FedInv`), and from there catches up (`CaughtUp`) |

The three properties about the events themselves are not inductive: they speak of the events, and what the
next event says comes from the candidate and the run. `VadInv` adds what the code
keeps in mind about them (`RunOpen`): an open run of positive length ends at the
last processed sample, began at the candidate, is shorter than the minimum and
began after every decision so far. `process()` calls `_consume_frame` once per
frame and `flush()` calls it at most once before it closes the segment, so the
invariant is stated of any detector and the events so far (`Consistent`) and shown
to survive one frame (`FrameKeeps`, by `SilenceFrameKeeps` and `SpeechFrameKeeps`)
and the closing (`CloseKeeps`). That part does not look into a frame's power: the
properties hold whatever the thresholds decide.

The other two do. `AudioInv` says that the audio heard is what was consumed and then
the pending samples, that every event is born out by the consumed audio, and that
an open run reaches its threshold (or stays below it) over the whole run.
`FedInv` says that the detector without its pending samples, and its events, are
what feeding the history one by one gives up to that point: samples that do not
fill a frame only pile up (`FeedPending`), the one that fills it consumes the frame
(`FeedFrame`), and what a frame does is independent of the samples behind it
(`FrameIgnoresPending`). What a recursive function computes for every input is
proved by induction through the least-element principle: the set of the numbers
for which a claim fails, were it not empty, would have a least one
(`SetInduction`).

The assumption `VadAssumption` is what the constructor checks (positive frame and
durations, the lower threshold below the upper) and what `process()` rejects (empty
arrays). `DetectorTyped` and `EventsAlwaysAlternate` are proved and in no run.

`AudioRingBufferProofs` proves for every capacity, every sample alphabet and all
non-empty arrays:

| Theorem | Statement | Argument |
|---|---|---|
| `SizeStaysExact` | `Spec => [](size = Len(ToArray(chunks)) /\ size <= Capacity)` | the inductive invariant |
| `BufferImplementsWindow` | `Spec => HoldsNewest` | refinement: an append with its loop is one `Push` |

Samples with `Capacity` newer ones behind them are not in the window
(`NewestDrops`). Every turn of the loop removes only such samples and either ends the
loop or makes the deque shorter (`TrimKeeps`), so the loop ends within the capacity
with the window it began with (`TrimmedFits`). That `ToArray` of a deque is its first
array and then the rest, or all but the last and then the last, is again an
induction (`ToArrayHead`, `ToArrayAppend`).

`StreamServerProofs` proves for any number of connections, identifiers, workers, allowed
sessions and versions, under the assumption `OwnIds` that no two clients share an
identifier (without it `server_shared_id` shows what goes wrong):

| Theorem | Statement | Argument |
|---|---|---|
| `ServerTyped` | `Spec => []TypeOK` | directly inductive |
| `SessionsStayRegistered` | `Spec => []StartedIsRegistered` | part of the connection's invariant |
| `EntriesStayAccounted` | `Spec => []EntriesAccounted` | from the connection's invariant: who knows the identifier at each of its places |
| `DecodersStayBounded` | `~ResetMayRaise`, `Spec => []LiveDecodersBounded` | an open session is registered, popped by a removal that waits for its lock, or brought back for a client that had claimed a later version and left; counting the first two |
| `ClosedSessionsStayClosed` | `Spec => ClosedStaysClosed` | whatever a reset claims: one that still waits for the lock when its session is closed carries an older version, or its client claimed a later one than there was and is gone |

The invariant is `TypeOK` with one part about the blocked loop, one about the registry's
size and one per connection, `ConnInv(c)`: what the connection, its two jobs, its
session and its registry entries know of each other. With identifiers of their own,
connections touch nothing of each other but the two locks, so a step of one
leaves the others' slices as they are; that lemma (`Same`) does most of the work.
The exception in the last two properties is real, and section 6 describes it; it is
as narrow as the code allows, since a client that stays connected cannot get there:
its next command begins when the one before has returned.

`StreamConnectionProofs` proves for any scripts, hotwords, queue size, number of
heartbeats, with or without a receive deadline and hotword streams:

| Theorem | Statement | Argument |
|---|---|---|
| `EventsOrdered` | `Spec => []WireOrdered` | who holds the lock has taken the next number; a number is lost only with a cancelled send, and then only `run()` may send one more event |
| `MessagesAnsweredInOrder` | `Spec => []AnsweredInOrder` | queue, consumer and answers are one interval of message numbers |
| `CloseTellsTruth` | `Spec => []CloseTruthful` | once the consumer has sent session.stopped nothing but heartbeats and one error follow; once `closed` is set nobody begins a send |
| `TimeoutsAlwaysSpareWork` | `Spec => TimeoutsSpareWork` | a timeout needs a consumer without a message and an empty queue; as no task has ended before (`EndedInv`: an ended task has said why), `AnswerInv` has every message answered |

None of the four is inductive. `LockInv` says who may hold the lock in each phase
and with what kind of event, `SequenceInv` relates the number in the lock, the next
number and the last one on the wire, `AnswerInv` says that the queue holds the
messages after the one at the consumer, without a gap, `StopInv` and `CloseInv` say
what a stop and a close leave possible, and `PhaseInv` ties the places of the
tasks to the phase. There is one lemma for every action, and two for the only steps
that reach the client: an event arrives, and a send is over. `ConnectionAssumption` says that
the scripts are sequences of messages, the queue has room for one, and `None` is
not a name the code uses.

`ArchiveDownloadProofs` proves for any list of archives, any versions and sizes, and any
number of faults and changes:

| Theorem | Statement | Argument |
|---|---|---|
| `DirectoryTyped` | `Spec => []TypeOK` | directly inductive |
| `DownloadsNeverMix` | `Spec => []NeverMixed` | `ContentInv`, and what the running download knows of the response |
| `ValidatorsStay` | `Spec => []ValidatorRetained` | `VouchInv` |
| `ReceiptsStayTruthful` | `Spec => []ReceiptsTruthful` | `VouchInv`, also for the temporary files |
| `ManifestsStayBacked` | `Spec => []ManifestBacked` | `ManifestInv`: a manifest, written or still temporary, agrees with the receipts |
| `MigrationsVouchForAll` | `Spec => []MigrationVouchesAll` | `MigrationInv`: from the first receipt on all archives are those of the legacy manifest |

The invariant has a part that survives a crash (`DiskInv`: contents, vouchers,
manifests) and parts that describe the running command at each of its places
(`RunInv`, `MigrationInv`, `RecordsInv`): what it has probed, which archives it has
already verified and what it has recorded of them. A crash keeps the first and makes
the others trivial. `DownloadAssumption` says that the order lists every archive
once, sizes are positive, and `Absent` is no content.

`AishellExtractionProofs` proves for all contents of the archives, all requests and any
number of faults and replacements, under the assumption `SingleCommand` that one
command at a time works on an output directory (section 6 says what two can do to
each other):

| Theorem | Statement | Argument |
|---|---|---|
| `TypeCorrect` | `Spec => []TypeOK` | directly inductive |
| `PublishedIsComplete` | `Spec => []PublishedComplete` | `DiskInv`: a marker, in whatever directory, names the complete selection of its request |
| `ResultIsTruthful` | `Spec => []ResultTruthful` | `ResultInv`: from the validation to the report nothing else changes the target |
| `PublishedStays` | `Spec => NeverOverwritten` | step by step |

The invariant follows a command through its run, as long as the archives still have
the signatures they were verified with: what it has read is a prefix of the
archive's list (`ListInv`), the speakers it has taken are those with the smallest
numbers among the ones it has scanned (`ChosenInv`), and the staging directory holds
exactly that (`TreeInv`). At the end the streaming selection is therefore the
selection by definition, and only then, after a last look at the signatures, the
marker is written (`BindInv`). A crash keeps `DiskInv` and ends the rest.

`EvaluationPipelineProofs` proves for any utterances, models, arguments and number of
faults and changes:

| Theorem | Statement | Argument |
|---|---|---|
| `TypeCorrect` | `Spec => []TypeOK` | directly inductive |
| `FrozenIsScored` | `Spec => []RunnerFeedsEvaluator` | the checks before inference imply every check of the evaluator but the two that are the property's premises, `SizesPlausible` and `EnvironmentKnown` (`ResultSound`) |
| `EvidenceIsOfTheRun` | `~Restores`, `Spec => []RunEvidenceBound` | a model file that is at the end what it was at the first hash has been that all the time, so also when it was loaded |
| `ScoresAreHonest` | `~Restores`, `Spec => []EvaluatedHonest` | a manifest is the whole selection with the audio of the extraction, and the report inherits it (`ReportSound`) |
| `OutputsWhole` | `Spec => OutputsAppearWhole` | step by step, from `JsonInv` |

`Inv` has a part about the world (`WorldInv`: which contents were there), one for
each command and what its local state stands for – the rows a preparation
has scanned and those it has left are the whole selection (`ScanInv`); the rows of a
run are the first of its manifest (`RowsInv`), with what is decoded just now
(`ItemInv`), the models as hashed and as loaded (`ModelInv`) and who computed which
hypothesis (`HeardInv`) – and one about the files, temporary ones included (`JsonInv`).
Two theorems need `~Restores`: a hash before and a hash after cannot notice a content
that was exchanged and put back in between (section 6). `PipelineAssumption` says that
the utterances are in one order without repetition, what the first contents are and
that `Absent` is none of them.

Only model-checked are the liveness properties `TeardownEnds`, `ShutdownEnds`,
`RestartsFinish` and `RerunPublishes`: fairness and ENABLED are out of the prover's
reach. Every other property of the passing runs has a theorem.

## 6. Findings

1. `reset()` calls `recognizer.reset()` outside any `try`
   (`streaming/session.py:314`). When it raises, the session still serves, with its
   buffers cleared and a decoder in an unknown state, although
   `docs/ARCHITECTURE.md:23` calls the session fail-closed after a backend failure.
   (The server closes the connection in that case; the session object itself
   does not protect other callers.) Run `session_fail_closed`.
2. A disconnect while `registry.create` runs leaves a registered session that no
   connection knows (`server/app.py:338`); it takes a slot until shutdown, although
   `README.md:24` lists cleanup on disconnect. Run `server_leak`.
3. A removal is by identifier, and a stop that is cancelled is followed by a
   second removal in `cleanup()`; between them another client can have taken the
   identifier (`server/app.py:548`), which `registry.py:28` means to exclude. Run
   `server_shared_id`.
4. Hotwords sent before the model is loaded are acknowledged as applied; when the
   first audio loads a model whose streams take none, they are dropped silently
   (`asr/sherpa_onnx.py:302`, `:171-174`), although `docs/WEBSOCKET_PROTOCOL.md:63-64`
   says the server never pretends that. Run `connection_hotwords`.

### Observations

Met while modelling; no run of its own, as the instance or the document leaves
room for more than one reading.

- *Session.* A frame whose fingerprint was evicted is a sequence conflict, not a
  duplicate (`streaming/session.py:167`); `docs/WEBSOCKET_PROTOCOL.md:32` has no such
  limit.
- *Server.* The event loop takes locks that threads hold during model calls
  (`server/app.py:136`), so `asyncio.to_thread` does not isolate it
  (`docs/SECURITY.md:17`). `remove()` pops the entry before it stops the session; if
  the stop raises, a reset that was waiting for the lock serves the unregistered
  session (`streaming/registry.py:50`): with `ResetMayRaise = TRUE`, TLC violates
  `LiveDecodersBounded` (compare `docs/SECURITY.md:5`), and the other properties
  of the server hold.
  A reset is compared with any `expected_state_version >= 0` the client sends
  (`contracts/messages.py:54-60`, `server/app.py:493-498`,
  `streaming/session.py:304-307`). One that claims the version a stop is going to
  make, and whose client leaves while it waits for the session's lock, serves the
  closed and unregistered session again, outside the limit, until its thread
  returns; after that nothing refers to the session. Without the exception
  `Outran`, TLC violates `LiveDecodersBounded` and `ClosedStaysClosed` this way.
  `error_close` is awaited before `cleanup()` and has no deadline
  (`server/app.py:583-590`), so a failed client that does not read keeps its session
  and its place.
- *Connection.* A heartbeat may come before session.started and after
  session.stopped. A message that arrives between a timeout and the moment `run()`
  wakes up is lost. A send has no deadline; only a shutdown ends a connection whose
  client does not read. When several tasks end together, which reason is reported
  is arbitrary. The heartbeat may time a client out right after a long handler,
  when everything is answered but no message came meanwhile.
- *Download.* A crash after the manifest's temporary file is complete and before it
  is linked blocks every later run, because a run that verifies an
  archive records it differently from the one that downloaded it. A
  legacy directory in which the normal command wrote one receipt can no longer be
  migrated (`docs/DATA_PROTOCOL.md:36-37`, `:53-54`).
- *Extraction.* Two commands with the same output at the same time can destroy each
  other's tree: the removal of an invalid staging directory goes on in the directory
  the other has renamed to the target, against the comment in
  `evaluation/aishell_extract.py:979-980`. The run has one command at a time.
- *Evidence.* A file that is exchanged after the first hash and put back before the
  second is not noticed: with `Restores = TRUE`, `RunEvidenceBound` and `EvaluatedHonest`
  are violated (`evaluation/runner.py:629-631`, `docs/EVALUATION_PROTOCOL.md:15`). An
  extraction swapped in and out again gives a manifest of a part of a split. The
  `finally` of `write_json_new` also unlinks another process's temporary file.
  The runner can freeze a result that the evaluator refuses after all the
  inference: model files below the minimum sizes
  (`scripts/evaluate_manifest.py:63-73`, `:297-303`; `docs/EVALUATION_PROTOCOL.md:22`
  asks for plausible sizes), or a package or the number of processors its interpreter
  does not know (`scripts/evaluate_manifest.py:362-394`,
  `evaluation/runner.py:409-422`).

## 7. Not modelled

- *Numeric code.* Conversion, gain and resampling of PCM and the degradations are
  IEEE float arithmetic, which TLC cannot evaluate.
- *Pure functions.* Byte-level framing, JSON validation, text normalisation, the
  edit distance of the character error rate, stable prefixes and diffs. They keep
  no state; what they refuse is a refused message or file in the models.
- *Single passes over files or settings.* The factory, the preflight, the CLI, the
  health endpoint, the site build, the parsing of configuration.
- *The browser client.* Most of its state is the page's and the audio graph's. The
  server's models let a client send any script, repeat frames, leave and come
  back, so they do not depend on it.
- *Inside the modelled parts.* Scores, timings and their consistency checks
  (`scripts/evaluate_manifest.py:414-551`), provenance strings, configuration hashes,
  log lines and wording; the native decoders; of the download, `--dry-run`, which only
  writes a plan, and the extraction code no caller reaches
  (`scripts/download_aishell.py:807-920`); two downloaders or two extractions at a time; a
  session without verifier in a TLC run (the theorems cover it).

Five hazards have no property, and `PROJECT.json` says why for each: the error
close that comes before the cleanup, the VAD's reset on a replayed reset, a
hotword update next to an abandoned call, sessions left running by `close_all`,
and a file exchanged and restored between two hashes. A sixth, a stop that raises inside `remove()`, is the observation above:
the model shows it going wrong, and the run excludes it.
