------------------------------ MODULE EnergyVAD ------------------------------
(***************************************************************************)
(* EnergyVAD (vad/energy.py): frame energy with two thresholds             *)
(* (hysteresis) and minimum durations (debounce) turned into               *)
(* speech_started and speech_ended events.                                 *)
(*                                                                         *)
(* The detector is a record; process() puts its samples behind the pending *)
(* ones and its loop consumes one full frame per step.  Nothing else may   *)
(* run before the loop is done, as in the code, where the event loop calls *)
(* process() without an await.  A sample is its amplitude, and a level in  *)
(* dBFS is compared as a mean square, which orders levels the same way.    *)
(***************************************************************************)
EXTENDS Integers, Sequences

CONSTANTS
  FrameSamples,       \* frame_samples
  MinSpeechSamples,   \* min_speech_samples
  MinSilenceSamples,  \* min_silence_samples
  StartPower,         \* start_threshold_dbfs as a mean square
  ContinuePower,      \* continue_threshold_dbfs as a mean square
  Amplitudes,         \* sample values
  Inputs,             \* arrays a caller passes to process()
  MaxSamples          \* model bound on the samples since the last reset

ASSUME VadAssumption ==
  /\ FrameSamples \in Nat \ {0}
  /\ MinSpeechSamples \in Nat \ {0}
  /\ MinSilenceSamples \in Nat \ {0}
  /\ StartPower \in Nat
  /\ ContinuePower \in Nat
  /\ ContinuePower <= StartPower
  /\ Amplitudes \subseteq Nat
  /\ \A a \in Inputs : a \in Seq(Amplitudes) /\ a # <<>>
  /\ MaxSamples \in Nat

VARIABLES
  vad,      \* the detector
  events,   \* history: every event returned since the last reset
  heard,    \* history: every sample processed since the last reset
  history   \* history: those samples, with a FlushMark for every flush()

vars == <<vad, events, heard, history>>

None == -1       \* Python's None for a sample offset
FlushMark == -1  \* a flush() in the history

\* The detector after reset().
Fresh ==
  [state |-> "silence", version |-> 0, processed |-> 0, pending |-> <<>>,
   speechRun |-> 0, silenceRun |-> 0, candidateStart |-> None,
   candidateEnd |-> None, activeStart |-> None]

\* A call on the detector: the new detector and the events it returns.
Result(v, es) == [vad |-> v, events |-> es]

Event(type, offset, observed, version, reason) ==
  [type |-> type, offset |-> offset, observed |-> observed,
   version |-> version, reason |-> reason]

\* The sums of the squares of the first samples of a sequence.
Energy(s) ==
  LET energy[i \in 0..Len(s)] ==
        IF i = 0 THEN 0 ELSE energy[i-1] + s[i] * s[i]
  IN  energy

SumOfSquares(frame) == Energy(frame)[Len(frame)]

\* level >= threshold, for the frame's mean square.
Reaches(frame, power) == SumOfSquares(frame) >= power * Len(frame)

-----------------------------------------------------------------------------
\* Mutants: the candidate follows the newest loud frame; it is never set.
CandidateStart_Newest(v, start) == start
CandidateStart_Unset(v, start) == v.candidateStart

\* The boundary of the run a loud frame belongs to.
CandidateStart(v, start) == IF v.speechRun = 0 THEN start ELSE v.candidateStart

CandidateEnd(v, start) == IF v.silenceRun = 0 THEN start ELSE v.candidateEnd

\* A frame below the start threshold ends a run of loud frames.
QuietFrame(v) == [v EXCEPT !.speechRun = 0, !.candidateStart = None]

ConsumeSilenceFrame(v, frame, start, end) ==
  LET run == v.speechRun + (end - start)
      candidate == CandidateStart(v, start)
  IN  IF ~Reaches(frame, StartPower) THEN Result(QuietFrame(v), <<>>)
      ELSE IF run < MinSpeechSamples
      THEN Result([v EXCEPT !.speechRun = run, !.candidateStart = candidate], <<>>)
      ELSE Result([v EXCEPT !.state = "speech", !.version = @ + 1,
                            !.activeStart = candidate, !.speechRun = 0,
                            !.candidateStart = None, !.silenceRun = 0],
                  <<Event("speech_started", candidate, end, v.version + 1, "energy")>>)

\* Mutant: the start threshold is used in both states.
SpeechGoesOn_NoHysteresis(frame) == Reaches(frame, StartPower)

\* Hysteresis: speech goes on down to the lower threshold.
SpeechGoesOn(frame) == Reaches(frame, ContinuePower)

ConsumeSpeechFrame(v, frame, start, end) ==
  LET run == v.silenceRun + (end - start)
      candidate == CandidateEnd(v, start)
  IN  IF SpeechGoesOn(frame)
      THEN Result([v EXCEPT !.silenceRun = 0, !.candidateEnd = None], <<>>)
      ELSE IF run < MinSilenceSamples
      THEN Result([v EXCEPT !.silenceRun = run, !.candidateEnd = candidate], <<>>)
      ELSE Result([v EXCEPT !.state = "silence", !.version = @ + 1,
                            !.activeStart = None, !.silenceRun = 0,
                            !.candidateEnd = None, !.speechRun = 0],
                  <<Event("speech_ended", candidate, end, v.version + 1, "energy")>>)

ConsumeFrame(v, frame) ==
  LET end == v.processed + Len(frame)
      w   == [v EXCEPT !.processed = end]
  IN  IF v.state = "silence"
      THEN ConsumeSilenceFrame(w, frame, v.processed, end)
      ELSE ConsumeSpeechFrame(w, frame, v.processed, end)

\* Both branches of flush() end with no run and no candidate.
ClearRuns(v) ==
  [v EXCEPT !.speechRun = 0, !.silenceRun = 0,
            !.candidateStart = None, !.candidateEnd = None]

\* The second half of flush(): an active segment is closed.
CloseSegment(v, es) ==
  IF v.state = "speech"
  THEN Result(ClearRuns([v EXCEPT !.state = "silence", !.version = @ + 1,
                                  !.activeStart = None]),
              Append(es, Event("speech_ended", v.processed, v.processed,
                               v.version + 1, "flush")))
  ELSE Result(ClearRuns(v), es)

\* flush(): the pending short frame is consumed first.
Flushed(v) ==
  LET r == IF v.pending = <<>> THEN Result(v, <<>>)
           ELSE ConsumeFrame([v EXCEPT !.pending = <<>>], v.pending)
  IN  CloseSegment(r.vad, r.events)

-----------------------------------------------------------------------------
Init ==
  /\ vad = Fresh
  /\ events = <<>>
  /\ heard = <<>>
  /\ history = <<>>

\* The loop of process() has a full frame to consume.
InLoop == Len(vad.pending) >= FrameSamples

\* Mutant: the samples pending from the last call are dropped.
Pending_Dropped(v, array) == array

\* process() puts what the last call left in front of the new samples.
Pending(v, array) == v.pending \o array

Process(array) ==
  /\ ~InLoop
  /\ Len(history) + Len(array) <= MaxSamples
  /\ vad' = [vad EXCEPT !.pending = Pending(vad, array)]
  /\ heard' = heard \o array
  /\ history' = history \o array
  /\ UNCHANGED events

\* One iteration of its loop.
ProcessFrame ==
  LET frame == SubSeq(vad.pending, 1, FrameSamples)
      rest  == SubSeq(vad.pending, FrameSamples + 1, Len(vad.pending))
      r     == ConsumeFrame([vad EXCEPT !.pending = rest], frame)
  IN  /\ InLoop
      /\ vad' = r.vad
      /\ events' = events \o r.events
      /\ UNCHANGED <<heard, history>>

Flush ==
  /\ ~InLoop
  /\ Len(history) < MaxSamples
  /\ vad' = Flushed(vad).vad
  /\ events' = events \o Flushed(vad).events
  /\ history' = Append(history, FlushMark)
  /\ UNCHANGED heard

Reset ==
  /\ ~InLoop
  /\ vad' = Fresh
  /\ events' = <<>>
  /\ heard' = <<>>
  /\ history' = <<>>

Next == (\E a \in Inputs : Process(a)) \/ ProcessFrame \/ Flush \/ Reset

Spec == Init /\ [][Next]_vars

-----------------------------------------------------------------------------
(* Properties *)

EventSet ==
  [type : {"speech_started", "speech_ended"}, offset : Nat, observed : Nat,
   version : Nat, reason : {"energy", "flush"}]

Offsets == Nat \cup {None}

\* The type invariant of the detector.
TypeOK ==
  /\ vad \in [state : {"silence", "speech"}, version : Nat, processed : Nat,
              pending : Seq(Amplitudes), speechRun : Nat, silenceRun : Nat,
              candidateStart : Offsets, candidateEnd : Offsets, activeStart : Offsets]
  /\ events \in Seq(EventSet)

\* A client that keeps a speech flag is never told the same thing twice: starts
\* and ends alternate, their versions count them, and the last one is the
\* detector's state.
EventsAlternate ==
  /\ vad.version = Len(events)
  /\ vad.state = "speech" <=>
       events # <<>> /\ events[Len(events)].type = "speech_started"
  /\ \A i \in 1..Len(events) :
       /\ events[i].version = i
       /\ events[i].type = "speech_started" <=>
            i = 1 \/ events[i-1].type = "speech_ended"

\* Segments do not overlap and nothing is announced before it is heard: every
\* boundary lies at or after the point where the previous one was decided.
SegmentsDisjoint ==
  /\ \A i \in 1..Len(events) :
       /\ events[i].offset <= events[i].observed
       /\ i > 1 => events[i-1].observed <= events[i].offset
       /\ events[i].observed <= vad.processed
  /\ vad.state = "speech" => vad.activeStart = events[Len(events)].offset

\* Debounce: a boundary is announced once the run behind it has lasted the
\* minimum duration, within one frame of that moment; only flush() announces an
\* end without waiting.
Debounced ==
  \A i \in 1..Len(events) :
    LET e == events[i]
        delay == e.observed - e.offset
    IN  \/ e.type = "speech_started" /\ delay >= MinSpeechSamples
             /\ delay < MinSpeechSamples + FrameSamples
        \/ e.type = "speech_ended" /\ e.reason = "energy" /\ delay >= MinSilenceSamples
             /\ delay < MinSilenceSamples + FrameSamples
        \/ e.type = "speech_ended" /\ e.reason = "flush" /\ delay = 0

\* Hysteresis: a start is announced only over audio whose mean square reaches
\* the upper threshold, an end by energy only over audio below the lower one.
BoundariesJustified ==
  \A i \in 1..Len(events) :
    LET e == events[i]
        run == SubSeq(heard, e.offset + 1, e.observed)
    IN  /\ e.type = "speech_started" => Reaches(run, StartPower)
        /\ e.reason = "energy" /\ e.type = "speech_ended" => ~Reaches(run, ContinuePower)

\* Feeding one sample, the smallest call there is, and a flush.
FeedOne(s, x) ==
  LET p == Append(s.vad.pending, x)
      r == IF x = FlushMark THEN Flushed(s.vad)
           ELSE IF Len(p) < FrameSamples THEN Result([s.vad EXCEPT !.pending = p], <<>>)
           ELSE ConsumeFrame([s.vad EXCEPT !.pending = <<>>], p)
  IN  Result(r.vad, s.events \o r.events)

\* The detectors and events after the first calls of a history.
Fed(h) ==
  LET fed[i \in 0..Len(h)] ==
        IF i = 0 THEN Result(Fresh, <<>>) ELSE FeedOne(fed[i-1], h[i])
  IN  fed

\* The energy.py docstring and the README: the same samples in different chunk
\* sizes produce the same events.  The detector and its events are those of
\* the stream fed sample by sample with the same flushes.
ChunkingInvisible ==
  ~InLoop => Result(vad, events) = Fed(history)[Len(history)]
=============================================================================
