-------------------------- MODULE EnergyVADProofs --------------------------
(***************************************************************************)
(* Proofs about EnergyVAD for every frame length, minimum duration,        *)
(* threshold and input.                                                    *)
(*                                                                         *)
(* process() consumes frames one by one and flush() consumes at most one   *)
(* and closes the segment, so the inductive invariant is stated of any     *)
(* detector and the events so far, and shown to survive each of the two    *)
(* (FrameKeeps, CloseKeeps).                                               *)
(*                                                                         *)
(* The last two theorems look at the samples: the energy of a run is that  *)
(* of its frames (EnergyAdds), and feeding the pending samples one by one  *)
(* ends where the loop does (FeedPending, FeedFrame, FrameIgnoresPending). *)
(* What the recursive functions compute is proved by induction through     *)
(* the least-element principle (SetInduction).                             *)
(***************************************************************************)
EXTENDS EnergyVAD, SequenceTheorems, WellFoundedInduction, TLAPS

Detectors ==
  [state : {"silence", "speech"}, version : Nat, processed : Nat,
   pending : Seq(Amplitudes), speechRun : Nat, silenceRun : Nat,
   candidateStart : Offsets, candidateEnd : Offsets, activeStart : Offsets]

-----------------------------------------------------------------------------
(* Accounts of events *)

\* An announcement waited for the minimum duration, and for one frame at most
\* beyond it.
InTime(e) ==
  \/ /\ e.type = "speech_started"
     /\ e.observed - e.offset >= MinSpeechSamples
     /\ e.observed - e.offset < MinSpeechSamples + FrameSamples
  \/ /\ e.type = "speech_ended" /\ e.reason = "energy"
     /\ e.observed - e.offset >= MinSilenceSamples
     /\ e.observed - e.offset < MinSilenceSamples + FrameSamples
  \/ /\ e.type = "speech_ended" /\ e.reason = "flush"
     /\ e.observed - e.offset = 0

\* The last event opened a segment.
InSegment(es) == es # <<>> /\ es[Len(es)].type = "speech_started"

\* Events that alternate, are numbered, do not overlap and are in time.
Account(es) ==
  \A i \in 1..Len(es) :
    /\ es[i].version = i
    /\ es[i].type = "speech_started" <=> i = 1 \/ es[i-1].type = "speech_ended"
    /\ es[i].offset <= es[i].observed
    /\ i > 1 => es[i-1].observed <= es[i].offset
    /\ InTime(es[i])

\* Every event was decided at n or earlier.
DecidedBy(es, n) == \A i \in 1..Len(es) : es[i].observed <= n

\* An event that continues the account extends it.
LEMMA AccountGrows ==
  ASSUME NEW es \in Seq(EventSet), Account(es),
         NEW e \in EventSet,
         e.version = Len(es) + 1,
         e.type = "speech_started" <=> ~InSegment(es),
         e.offset <= e.observed,
         DecidedBy(es, e.offset),
         InTime(e)
  PROVE  /\ Append(es, e) \in Seq(EventSet)
         /\ Account(Append(es, e))
         /\ InSegment(Append(es, e)) <=> e.type = "speech_started"
         /\ DecidedBy(Append(es, e), e.observed)
         /\ Len(Append(es, e)) = Len(es) + 1
         /\ Append(es, e)[Len(Append(es, e))] = e
<1> DEFINE fs == Append(es, e)
           n == Len(es)
<1>1. /\ fs \in Seq(EventSet) /\ n \in Nat /\ Len(fs) = n + 1 /\ fs[n + 1] = e
      /\ \A i \in 1..n : fs[i] = es[i]
  OBVIOUS
<1>2. es = <<>> <=> n = 0
  OBVIOUS
<1>3. \A i \in 1..n : es[i] \in EventSet
  OBVIOUS
<1> HIDE DEF fs
<1>4. ASSUME NEW i \in 1..n + 1
      PROVE  /\ fs[i].version = i
             /\ fs[i].type = "speech_started" <=> i = 1 \/ fs[i-1].type = "speech_ended"
             /\ fs[i].offset <= fs[i].observed
             /\ i > 1 => fs[i-1].observed <= fs[i].offset
             /\ InTime(fs[i])
  <2>1. CASE i = n + 1 /\ n = 0
    BY <1>1, <1>2, <2>1 DEF InSegment
  <2>2. CASE i = n + 1 /\ n # 0
    <3>1. i - 1 = n /\ n \in 1..n /\ i # 1
      BY <1>1, <2>2
    <3>2. fs[i] = e /\ fs[i-1] = es[n]
      BY <1>1, <2>2, <3>1
    <3>3. es[n].type \in {"speech_started", "speech_ended"}
      BY <1>3, <3>1 DEF EventSet
    <3>4. e.type = "speech_started" <=> es[n].type = "speech_ended"
      BY <1>2, <2>2, <3>3 DEF InSegment
    <3> QED BY <2>2, <3>1, <3>2, <3>4 DEF DecidedBy
  <2>3. CASE i # n + 1
    <3>1. i \in 1..n /\ (i = 1 \/ i - 1 \in 1..n)
      BY <1>1, <2>3
    <3>2. fs[i] = es[i] /\ (i = 1 \/ fs[i-1] = es[i-1])
      BY <1>1, <3>1
    <3> QED BY <3>1, <3>2 DEF Account
  <2> QED BY <2>1, <2>2, <2>3
<1>5. Account(fs)
  BY <1>1, <1>4 DEF Account
<1>6. DecidedBy(fs, e.observed)
  <2> SUFFICES ASSUME NEW i \in 1..n + 1 PROVE fs[i].observed <= e.observed
    BY <1>1 DEF DecidedBy
  <2>1. CASE i = n + 1
    BY <1>1, <2>1 DEF EventSet
  <2>2. CASE i # n + 1
    <3>1. i \in 1..n
      BY <1>1, <2>2
    <3>2. es[i].observed \in Nat /\ e.offset \in Nat /\ e.observed \in Nat
      BY <1>3, <3>1 DEF EventSet
    <3> QED BY <1>1, <3>1, <3>2 DEF DecidedBy
  <2> QED BY <2>1, <2>2
<1>7. InSegment(fs) <=> e.type = "speech_started"
  BY <1>1 DEF InSegment
<1> QED BY <1>1, <1>5, <1>6, <1>7 DEF fs

-----------------------------------------------------------------------------
(* The invariant of a detector and the events so far *)

\* A run that was not announced yet began at its candidate boundary, after
\* everything announced, and is shorter than the minimum.
RunOpen(es, candidate, run, processed, minimum) ==
  run > 0 => /\ candidate \in Nat
             /\ candidate + run = processed
             /\ run < minimum
             /\ DecidedBy(es, candidate)

Consistent(v, es) ==
  /\ v \in Detectors
  /\ es \in Seq(EventSet)
  /\ Account(es)
  /\ DecidedBy(es, v.processed)
  /\ v.version = Len(es)
  /\ v.state = "speech" <=> InSegment(es)
  /\ v.state = "speech" => v.activeStart = es[Len(es)].offset
  /\ v.state = "silence" =>
       RunOpen(es, v.candidateStart, v.speechRun, v.processed, MinSpeechSamples)
  /\ v.state = "speech" =>
       RunOpen(es, v.candidateEnd, v.silenceRun, v.processed, MinSilenceSamples)

\* Later points in time decide no more events.
LEMMA DecidedLater ==
  ASSUME NEW es \in Seq(EventSet), NEW m \in Nat, NEW n \in Nat, m <= n, DecidedBy(es, m)
  PROVE  DecidedBy(es, n)
<1> SUFFICES ASSUME NEW i \in 1..Len(es) PROVE es[i].observed <= n
  BY DEF DecidedBy
<1>1. es[i] \in EventSet
  OBVIOUS
<1>2. es[i].observed \in Nat /\ es[i].observed <= m
  BY <1>1 DEF EventSet, DecidedBy
<1> QED BY <1>2

\* A frame in silence keeps the detector consistent.
LEMMA SilenceFrameKeeps ==
  ASSUME NEW v, NEW es, Consistent(v, es), v.state = "silence",
         NEW frame, Len(frame) \in 1..FrameSamples
  PROVE  LET r == ConsumeFrame(v, frame)
         IN  /\ Consistent(r.vad, es \o r.events)
             /\ r.vad.pending = v.pending
             /\ r.events \in Seq(EventSet)
<1> DEFINE start == v.processed
           end == v.processed + Len(frame)
           w == [v EXCEPT !.processed = end]
           run == v.speechRun + Len(frame)
           candidate == IF v.speechRun = 0 THEN start ELSE v.candidateStart
           r == ConsumeFrame(v, frame)
<1>1. /\ v \in Detectors /\ es \in Seq(EventSet) /\ Account(es)
      /\ DecidedBy(es, start) /\ v.version = Len(es) /\ ~InSegment(es)
      /\ RunOpen(es, v.candidateStart, v.speechRun, start, MinSpeechSamples)
  BY DEF Consistent
<1>2. /\ start \in Nat /\ end \in Nat /\ start < end /\ end - start = Len(frame)
      /\ Len(frame) \in Nat /\ Len(frame) <= FrameSamples /\ Len(frame) > 0
      /\ v.speechRun \in Nat /\ run \in Nat /\ FrameSamples \in Nat
      /\ MinSpeechSamples \in Nat \ {0}
  BY <1>1, VadAssumption DEF Detectors
<1>3. /\ w \in Detectors /\ w.processed = end /\ w.state = "silence"
      /\ w.version = v.version /\ w.pending = v.pending
      /\ w.speechRun = v.speechRun /\ w.candidateStart = v.candidateStart
  BY <1>1, <1>2 DEF Detectors
<1>4. DecidedBy(es, end)
  BY <1>1, <1>2, DecidedLater
<1>5. /\ candidate \in Nat /\ candidate + run = end /\ DecidedBy(es, candidate)
      /\ run < MinSpeechSamples + FrameSamples
  <2>1. CASE v.speechRun = 0
    <3>1. candidate = start /\ run = Len(frame)
      BY <1>2, <2>1
    <3>2. candidate + run = end /\ run < MinSpeechSamples + FrameSamples
      BY <1>2, <3>1
    <3>3. DecidedBy(es, candidate)
      BY <1>1, <3>1
    <3> QED BY <1>2, <3>1, <3>2, <3>3
  <2>2. CASE v.speechRun > 0
    <3>1. candidate = v.candidateStart
      BY <2>2
    <3>2. /\ v.candidateStart \in Nat /\ v.candidateStart + v.speechRun = start
          /\ v.speechRun < MinSpeechSamples /\ DecidedBy(es, v.candidateStart)
      BY <1>1, <2>2 DEF RunOpen
    <3>3. DecidedBy(es, candidate)
      BY <3>1, <3>2
    <3>4. candidate \in Nat /\ candidate + run = end
      BY <1>2, <3>1, <3>2
    <3>5. run < MinSpeechSamples + FrameSamples
      BY <1>2, <3>2
    <3> QED BY <3>3, <3>4, <3>5
  <2> QED BY <1>2, <2>1, <2>2
<1>6. es \o <<>> = es /\ <<>> \in Seq(EventSet)
  BY <1>1
<1>7. r = ConsumeSilenceFrame(w, frame, start, end)
  BY DEF ConsumeFrame
<1> HIDE DEF r, w
<1>8. CASE ~Reaches(frame, StartPower)
  <2> DEFINE q == [w EXCEPT !.speechRun = 0, !.candidateStart = None]
  <2>1. r = Result(q, <<>>)
    BY <1>7, <1>8 DEF ConsumeSilenceFrame, QuietFrame
  <2>2. /\ q \in Detectors /\ q.state = "silence" /\ q.speechRun = 0
        /\ q.version = v.version /\ q.processed = end /\ q.pending = v.pending
    BY <1>3 DEF Detectors, Offsets
  <2> HIDE DEF q
  <2>3. r.vad = q /\ r.events = <<>>
    BY <2>1 DEF Result
  <2>4. Consistent(q, es)
    BY <1>1, <1>4, <2>2 DEF Consistent, RunOpen
  <2> QED BY <1>6, <2>2, <2>3, <2>4 DEF r
<1>9. CASE Reaches(frame, StartPower) /\ run < MinSpeechSamples
  <2> DEFINE q == [w EXCEPT !.speechRun = run, !.candidateStart = candidate]
  <2>1. r = Result(q, <<>>)
    BY <1>2, <1>3, <1>7, <1>9 DEF ConsumeSilenceFrame, CandidateStart
  <2>2. /\ q \in Detectors /\ q.state = "silence" /\ q.speechRun = run
        /\ q.candidateStart = candidate
        /\ q.version = v.version /\ q.processed = end /\ q.pending = v.pending
    BY <1>2, <1>3, <1>5 DEF Detectors, Offsets
  <2> HIDE DEF q
  <2>3. r.vad = q /\ r.events = <<>>
    BY <2>1 DEF Result
  <2>4. Consistent(q, es)
    BY <1>1, <1>4, <1>5, <1>9, <2>2 DEF Consistent, RunOpen
  <2> QED BY <1>6, <2>2, <2>3, <2>4 DEF r
<1>10. CASE Reaches(frame, StartPower) /\ ~(run < MinSpeechSamples)
  <2> DEFINE q == [w EXCEPT !.state = "speech", !.version = @ + 1,
                            !.activeStart = candidate, !.speechRun = 0,
                            !.candidateStart = None, !.silenceRun = 0]
             e == Event("speech_started", candidate, end, v.version + 1, "energy")
  <2>1. r = Result(q, <<e>>)
    BY <1>2, <1>3, <1>7, <1>10 DEF ConsumeSilenceFrame, CandidateStart
  <2>2. /\ q \in Detectors /\ q.state = "speech" /\ q.silenceRun = 0
        /\ q.activeStart = candidate
        /\ q.version = v.version + 1 /\ q.processed = end /\ q.pending = v.pending
    <3> HIDE DEF candidate
    <3>1. w.version \in Nat /\ candidate \in Offsets /\ None \in Offsets
      BY <1>3, <1>5 DEF Detectors, Offsets
    <3>2. q \in Detectors
      <4> DEFINE n == w.version + 1
      <4>1. n \in Nat /\ w \in Detectors
        BY <1>3, <3>1
      <4>2. q = [w EXCEPT !.state = "speech", !.version = n, !.activeStart = candidate,
                          !.speechRun = 0, !.candidateStart = None, !.silenceRun = 0]
        BY <4>1 DEF Detectors
      <4> HIDE DEF n, q
      <4> QED BY <3>1, <4>1, <4>2 DEF Detectors
    <3>3. q.state = "speech" /\ q.silenceRun = 0 /\ q.activeStart = candidate
      BY <1>3 DEF Detectors
    <3>4. q.version = w.version + 1
      <4>1. w \in Detectors
        BY <1>3
      <4> QED BY <4>1 DEF Detectors
    <3>5. q.processed = w.processed /\ q.pending = w.pending
      BY <1>3 DEF Detectors
    <3> QED BY <1>3, <3>2, <3>3, <3>4, <3>5
  <2> HIDE DEF q
  <2>3. /\ e \in EventSet /\ e.version = Len(es) + 1 /\ e.type = "speech_started"
        /\ e.offset = candidate /\ e.observed = end
    BY <1>1, <1>2, <1>5 DEF Event, EventSet, Detectors
  <2> HIDE DEF e
  <2>4. r.vad = q /\ r.events = <<e>>
    BY <2>1 DEF Result
  <2>5. end - candidate >= MinSpeechSamples /\ end - candidate < MinSpeechSamples + FrameSamples
    <3> HIDE DEF candidate, run
    <3> QED BY <1>2, <1>5, <1>10
  <2>6. InTime(e)
    BY <2>3, <2>5 DEF InTime
  <2>7. e.offset <= e.observed
    BY <1>2, <1>5, <2>3
  <2>8. /\ Append(es, e) \in Seq(EventSet) /\ Account(Append(es, e))
        /\ InSegment(Append(es, e)) /\ DecidedBy(Append(es, e), end)
        /\ Len(Append(es, e)) = Len(es) + 1
        /\ Append(es, e)[Len(Append(es, e))] = e
    BY <1>1, <1>5, <2>3, <2>6, <2>7, AccountGrows
  <2>9. es \o <<e>> = Append(es, e) /\ <<e>> \in Seq(EventSet)
    BY <1>1, <2>3
  <2>10. Consistent(q, Append(es, e))
    BY <1>1, <2>2, <2>3, <2>8 DEF Consistent, RunOpen
  <2> QED BY <2>2, <2>4, <2>9, <2>10 DEF r
<1> QED BY <1>8, <1>9, <1>10

\* A frame in speech keeps the detector consistent.
LEMMA SpeechFrameKeeps ==
  ASSUME NEW v, NEW es, Consistent(v, es), v.state = "speech",
         NEW frame, Len(frame) \in 1..FrameSamples
  PROVE  LET r == ConsumeFrame(v, frame)
         IN  /\ Consistent(r.vad, es \o r.events)
             /\ r.vad.pending = v.pending
             /\ r.events \in Seq(EventSet)
<1> DEFINE start == v.processed
           end == v.processed + Len(frame)
           w == [v EXCEPT !.processed = end]
           run == v.silenceRun + Len(frame)
           candidate == IF v.silenceRun = 0 THEN start ELSE v.candidateEnd
           r == ConsumeFrame(v, frame)
<1>1. /\ v \in Detectors /\ es \in Seq(EventSet) /\ Account(es)
      /\ DecidedBy(es, start) /\ v.version = Len(es) /\ InSegment(es)
      /\ v.activeStart = es[Len(es)].offset
      /\ RunOpen(es, v.candidateEnd, v.silenceRun, start, MinSilenceSamples)
  BY DEF Consistent
<1>2. /\ start \in Nat /\ end \in Nat /\ start < end /\ end - start = Len(frame)
      /\ Len(frame) \in Nat /\ Len(frame) <= FrameSamples /\ Len(frame) > 0
      /\ v.silenceRun \in Nat /\ run \in Nat /\ FrameSamples \in Nat
      /\ MinSilenceSamples \in Nat \ {0}
  BY <1>1, VadAssumption DEF Detectors
<1>3. /\ w \in Detectors /\ w.processed = end /\ w.state = "speech"
      /\ w.version = v.version /\ w.pending = v.pending
      /\ w.activeStart = v.activeStart
      /\ w.silenceRun = v.silenceRun /\ w.candidateEnd = v.candidateEnd
  BY <1>1, <1>2 DEF Detectors
<1>4. DecidedBy(es, end)
  BY <1>1, <1>2, DecidedLater
<1>5. /\ candidate \in Nat /\ candidate + run = end /\ DecidedBy(es, candidate)
      /\ run < MinSilenceSamples + FrameSamples
  <2>1. CASE v.silenceRun = 0
    <3>1. candidate = start /\ run = Len(frame)
      BY <1>2, <2>1
    <3>2. candidate + run = end /\ run < MinSilenceSamples + FrameSamples
      BY <1>2, <3>1
    <3>3. DecidedBy(es, candidate)
      BY <1>1, <3>1
    <3> QED BY <1>2, <3>1, <3>2, <3>3
  <2>2. CASE v.silenceRun > 0
    <3>1. candidate = v.candidateEnd
      BY <2>2
    <3>2. /\ v.candidateEnd \in Nat /\ v.candidateEnd + v.silenceRun = start
          /\ v.silenceRun < MinSilenceSamples /\ DecidedBy(es, v.candidateEnd)
      BY <1>1, <2>2 DEF RunOpen
    <3>3. DecidedBy(es, candidate)
      BY <3>1, <3>2
    <3>4. candidate \in Nat /\ candidate + run = end
      BY <1>2, <3>1, <3>2
    <3>5. run < MinSilenceSamples + FrameSamples
      BY <1>2, <3>2
    <3> QED BY <3>3, <3>4, <3>5
  <2> QED BY <1>2, <2>1, <2>2
<1>6. es \o <<>> = es /\ <<>> \in Seq(EventSet)
  BY <1>1
<1>7. r = ConsumeSpeechFrame(w, frame, start, end)
  BY <1>3 DEF ConsumeFrame
<1> HIDE DEF r, w
<1>8. CASE SpeechGoesOn(frame)
  <2> DEFINE q == [w EXCEPT !.silenceRun = 0, !.candidateEnd = None]
  <2>1. r = Result(q, <<>>)
    BY <1>7, <1>8 DEF ConsumeSpeechFrame
  <2>2. /\ q \in Detectors /\ q.state = "speech" /\ q.silenceRun = 0
        /\ q.activeStart = v.activeStart
        /\ q.version = v.version /\ q.processed = end /\ q.pending = v.pending
    BY <1>3 DEF Detectors, Offsets
  <2> HIDE DEF q
  <2>3. r.vad = q /\ r.events = <<>>
    BY <2>1 DEF Result
  <2>4. Consistent(q, es)
    BY <1>1, <1>4, <2>2 DEF Consistent, RunOpen
  <2> QED BY <1>6, <2>2, <2>3, <2>4 DEF r
<1>9. CASE ~SpeechGoesOn(frame) /\ run < MinSilenceSamples
  <2> DEFINE q == [w EXCEPT !.silenceRun = run, !.candidateEnd = candidate]
  <2>1. r = Result(q, <<>>)
    BY <1>2, <1>3, <1>7, <1>9 DEF ConsumeSpeechFrame, CandidateEnd
  <2>2. /\ q \in Detectors /\ q.state = "speech" /\ q.silenceRun = run
        /\ q.candidateEnd = candidate /\ q.activeStart = v.activeStart
        /\ q.version = v.version /\ q.processed = end /\ q.pending = v.pending
    BY <1>2, <1>3, <1>5 DEF Detectors, Offsets
  <2> HIDE DEF q
  <2>3. r.vad = q /\ r.events = <<>>
    BY <2>1 DEF Result
  <2>4. Consistent(q, es)
    BY <1>1, <1>4, <1>5, <1>9, <2>2 DEF Consistent, RunOpen
  <2> QED BY <1>6, <2>2, <2>3, <2>4 DEF r
<1>10. CASE ~SpeechGoesOn(frame) /\ ~(run < MinSilenceSamples)
  <2> DEFINE q == [w EXCEPT !.state = "silence", !.version = @ + 1,
                            !.activeStart = None, !.silenceRun = 0,
                            !.candidateEnd = None, !.speechRun = 0]
             e == Event("speech_ended", candidate, end, v.version + 1, "energy")
  <2>1. r = Result(q, <<e>>)
    BY <1>2, <1>3, <1>7, <1>10 DEF ConsumeSpeechFrame, CandidateEnd
  <2>2. /\ q \in Detectors /\ q.state = "silence" /\ q.speechRun = 0
        /\ q.version = v.version + 1 /\ q.processed = end /\ q.pending = v.pending
    <3>1. w.version \in Nat /\ None \in Offsets
      BY <1>3 DEF Detectors, Offsets
    <3>2. q \in Detectors
      <4> DEFINE n == w.version + 1
      <4>1. n \in Nat /\ w \in Detectors
        BY <1>3, <3>1
      <4>2. q = [w EXCEPT !.state = "silence", !.version = n, !.activeStart = None,
                          !.silenceRun = 0, !.candidateEnd = None, !.speechRun = 0]
        BY <4>1 DEF Detectors
      <4> HIDE DEF n, q
      <4> QED BY <3>1, <4>1, <4>2 DEF Detectors
    <3>3. q.state = "silence" /\ q.speechRun = 0
      BY <1>3 DEF Detectors
    <3>4. q.version = w.version + 1
      <4>1. w \in Detectors
        BY <1>3
      <4> QED BY <4>1 DEF Detectors
    <3>5. q.processed = w.processed /\ q.pending = w.pending
      BY <1>3 DEF Detectors
    <3> QED BY <1>3, <3>2, <3>3, <3>4, <3>5
  <2> HIDE DEF q
  <2>3. /\ e \in EventSet /\ e.version = Len(es) + 1 /\ e.type = "speech_ended"
        /\ e.reason = "energy" /\ e.offset = candidate /\ e.observed = end
    BY <1>1, <1>2, <1>5 DEF Event, EventSet, Detectors
  <2> HIDE DEF e
  <2>4. r.vad = q /\ r.events = <<e>>
    BY <2>1 DEF Result
  <2>5. end - candidate >= MinSilenceSamples /\ end - candidate < MinSilenceSamples + FrameSamples
    <3> HIDE DEF candidate, run
    <3> QED BY <1>2, <1>5, <1>10
  <2>6. InTime(e)
    BY <2>3, <2>5 DEF InTime
  <2>7. e.offset <= e.observed
    BY <1>2, <1>5, <2>3
  <2>8. /\ Append(es, e) \in Seq(EventSet) /\ Account(Append(es, e))
        /\ ~InSegment(Append(es, e)) /\ DecidedBy(Append(es, e), end)
        /\ Len(Append(es, e)) = Len(es) + 1
    BY <1>1, <1>5, <2>3, <2>6, <2>7, AccountGrows
  <2>9. es \o <<e>> = Append(es, e) /\ <<e>> \in Seq(EventSet)
    BY <1>1, <2>3
  <2>10. Consistent(q, Append(es, e))
    BY <1>1, <2>2, <2>3, <2>8 DEF Consistent, RunOpen
  <2> QED BY <2>2, <2>4, <2>9, <2>10 DEF r
<1> QED BY <1>8, <1>9, <1>10

\* One frame keeps the detector consistent.
LEMMA FrameKeeps ==
  ASSUME NEW v, NEW es, Consistent(v, es),
         NEW frame, Len(frame) \in 1..FrameSamples
  PROVE  LET r == ConsumeFrame(v, frame)
         IN  /\ Consistent(r.vad, es \o r.events)
             /\ r.vad.pending = v.pending
             /\ r.events \in Seq(EventSet)
<1>1. v.state \in {"silence", "speech"}
  BY DEF Consistent, Detectors
<1> QED BY <1>1, SilenceFrameKeeps, SpeechFrameKeeps

\* The end of a flush, which closes an active segment where the audio ends.
LEMMA CloseKeeps ==
  ASSUME NEW v, NEW es, NEW returned \in Seq(EventSet), NEW told \in Seq(EventSet),
         es = told \o returned, Consistent(v, es)
  PROVE  LET r == CloseSegment(v, returned)
         IN  /\ Consistent(r.vad, told \o r.events)
             /\ r.vad.pending = v.pending
<1> DEFINE r == CloseSegment(v, returned)
<1>1. /\ v \in Detectors /\ es \in Seq(EventSet) /\ Account(es)
      /\ DecidedBy(es, v.processed) /\ v.version = Len(es)
      /\ v.state = "speech" <=> InSegment(es)
  BY DEF Consistent
<1>2. None \in Offsets /\ v.processed \in Nat /\ v.version \in Nat
  BY <1>1 DEF Offsets, Detectors
<1>3. CASE v.state = "speech"
  <2> DEFINE n == v.version + 1
             e == Event("speech_ended", v.processed, v.processed, n, "flush")
             u == [v EXCEPT !.state = "silence", !.version = @ + 1, !.activeStart = None]
             q == ClearRuns(u)
  <2>1. r = Result(q, Append(returned, e))
    BY <1>3 DEF CloseSegment
  <2>2. u \in Detectors /\ u.state = "silence" /\ u.version = n
        /\ u.processed = v.processed /\ u.pending = v.pending
    <3>1. n \in Nat
      BY <1>2
    <3>2. u = [v EXCEPT !.state = "silence", !.version = n, !.activeStart = None]
      BY <1>1 DEF Detectors
    <3> HIDE DEF n, u
    <3> QED BY <1>1, <1>2, <3>1, <3>2 DEF Detectors
  <2> HIDE DEF u
  <2>3. /\ q \in Detectors /\ q.state = "silence" /\ q.speechRun = 0
        /\ q.version = n /\ q.processed = v.processed /\ q.pending = v.pending
    BY <1>2, <2>2 DEF ClearRuns, Detectors
  <2> HIDE DEF q
  <2>4. /\ e \in EventSet /\ e.version = Len(es) + 1 /\ e.type = "speech_ended"
        /\ e.reason = "flush" /\ e.offset = v.processed /\ e.observed = v.processed
    BY <1>1, <1>2 DEF Event, EventSet
  <2> HIDE DEF e
  <2>5. InTime(e) /\ e.offset <= e.observed
    BY <1>2, <2>4 DEF InTime
  <2>6. InSegment(es)
    BY <1>1, <1>3
  <2>7. /\ Append(es, e) \in Seq(EventSet) /\ Account(Append(es, e))
        /\ ~InSegment(Append(es, e)) /\ DecidedBy(Append(es, e), v.processed)
        /\ Len(Append(es, e)) = Len(es) + 1
    BY <1>1, <2>4, <2>5, <2>6, AccountGrows
  <2>8. told \o Append(returned, e) = Append(es, e)
    BY <2>4
  <2>9. Consistent(q, Append(es, e))
    BY <1>1, <2>3, <2>7 DEF Consistent, RunOpen
  <2>10. r.vad = q /\ r.events = Append(returned, e)
    BY <2>1 DEF Result
  <2> QED BY <2>3, <2>8, <2>9, <2>10
<1>4. CASE v.state # "speech"
  <2> DEFINE q == ClearRuns(v)
  <2>1. /\ q \in Detectors /\ q.state = v.state /\ q.speechRun = 0
        /\ q.version = v.version /\ q.processed = v.processed /\ q.pending = v.pending
    BY <1>1, <1>2 DEF ClearRuns, Detectors
  <2> HIDE DEF q
  <2>2. r.vad = q /\ r.events = returned
    BY <1>4 DEF CloseSegment, Result, q
  <2>3. Consistent(q, es)
    BY <1>1, <1>4, <2>1 DEF Consistent, RunOpen
  <2> QED BY <2>1, <2>2, <2>3
<1> QED BY <1>3, <1>4

-----------------------------------------------------------------------------
(* The detector of the specification *)

VadInv == Consistent(vad, events)

\* Samples that are only put behind the pending ones, or cut from them, do not
\* matter to the account.
LEMMA PendingKeeps ==
  ASSUME NEW v, NEW es, Consistent(v, es), NEW p \in Seq(Amplitudes)
  PROVE  Consistent([v EXCEPT !.pending = p], es)
<1> DEFINE w == [v EXCEPT !.pending = p]
<1>1. /\ v \in Detectors /\ es \in Seq(EventSet) /\ Account(es)
  BY DEF Consistent
<1>2. /\ w \in Detectors /\ w.state = v.state /\ w.version = v.version
      /\ w.processed = v.processed /\ w.activeStart = v.activeStart
      /\ w.speechRun = v.speechRun /\ w.silenceRun = v.silenceRun
      /\ w.candidateStart = v.candidateStart /\ w.candidateEnd = v.candidateEnd
  BY <1>1 DEF Detectors
<1> HIDE DEF w
<1>3. Consistent(w, es)
  BY <1>2 DEF Consistent
<1> QED BY <1>3 DEF w

\* A detector after reset() has nothing to account for.
LEMMA FreshConsistent == Consistent(Fresh, <<>>)
<1>1. Fresh \in Detectors
  BY DEF Fresh, Detectors, Offsets
<1>2. <<>> \in Seq(EventSet) /\ Account(<<>>) /\ DecidedBy(<<>>, 0) /\ ~InSegment(<<>>)
  BY DEF Account, DecidedBy, InSegment
<1> QED BY <1>1, <1>2 DEF Consistent, RunOpen, Fresh

\* The state after reset() satisfies the invariant.
LEMMA VadInit == Init => VadInv
  BY FreshConsistent DEF Init, VadInv

\* No step of the detector breaks the invariant.
LEMMA VadStep == VadInv /\ [Next]_vars => VadInv'
<1> SUFFICES ASSUME Consistent(vad, events), [Next]_vars
             PROVE  Consistent(vad', events')
  BY DEF VadInv
<1>1. /\ vad \in Detectors /\ vad.pending \in Seq(Amplitudes)
      /\ events \in Seq(EventSet)
  BY DEF Consistent, Detectors
<1>2. ASSUME NEW a \in Inputs, Process(a) PROVE Consistent(vad', events')
  <2>1. a \in Seq(Amplitudes)
    BY VadAssumption
  <2>2. Pending(vad, a) \in Seq(Amplitudes)
    BY <1>1, <2>1 DEF Pending
  <2> QED BY <1>2, <2>2, PendingKeeps DEF Process
<1>3. CASE ProcessFrame
  <2> DEFINE n == Len(vad.pending)
             frame == SubSeq(vad.pending, 1, FrameSamples)
             rest == SubSeq(vad.pending, FrameSamples + 1, n)
             v == [vad EXCEPT !.pending = rest]
             r == ConsumeFrame(v, frame)
  <2>1. FrameSamples \in Nat \ {0} /\ n \in Nat /\ n >= FrameSamples
    BY <1>1, <1>3, VadAssumption DEF ProcessFrame, InLoop
  <2>2. rest \in Seq(Amplitudes) /\ Len(frame) = FrameSamples
    BY <1>1, <2>1
  <2>3. Len(frame) \in 1..FrameSamples
    BY <2>1, <2>2
  <2>4. Consistent(v, events)
    BY <2>2, PendingKeeps
  <2>5. vad' = r.vad /\ events' = events \o r.events
    BY <1>3 DEF ProcessFrame
  <2> HIDE DEF v, frame
  <2> QED BY <2>3, <2>4, <2>5, FrameKeeps
<1>4. CASE Flush
  <2> DEFINE r == IF vad.pending = <<>> THEN Result(vad, <<>>)
                  ELSE ConsumeFrame([vad EXCEPT !.pending = <<>>], vad.pending)
             c == CloseSegment(r.vad, r.events)
  <2>1. vad' = c.vad /\ events' = events \o c.events
    BY <1>4 DEF Flush, Flushed
  <2>2. Consistent(r.vad, events \o r.events) /\ r.events \in Seq(EventSet)
    <3>1. CASE vad.pending = <<>>
      <4>1. r.vad = vad /\ r.events = <<>>
        BY <3>1 DEF Result
      <4>2. events \o <<>> = events /\ <<>> \in Seq(EventSet)
        BY <1>1
      <4> QED BY <4>1, <4>2
    <3>2. CASE vad.pending # <<>>
      <4> DEFINE v == [vad EXCEPT !.pending = <<>>]
                 frame == vad.pending
      <4>1. r = ConsumeFrame(v, frame)
        BY <3>2
      <4>2. Len(frame) \in Nat /\ Len(frame) > 0 /\ Len(frame) < FrameSamples
            /\ FrameSamples \in Nat
        BY <1>1, <1>4, <3>2, VadAssumption DEF Flush, InLoop
      <4>3. Len(frame) \in 1..FrameSamples
        BY <4>2
      <4>4. <<>> \in Seq(Amplitudes)
        OBVIOUS
      <4>5. Consistent(v, events)
        BY <4>4, PendingKeeps
      <4> HIDE DEF v, frame, r
      <4> QED BY <4>1, <4>3, <4>5, FrameKeeps
    <3> QED BY <3>1, <3>2
  <2> HIDE DEF r
  <2>3. Consistent(c.vad, events \o c.events)
    BY <1>1, <2>2, CloseKeeps
  <2> QED BY <2>1, <2>3
<1>5. CASE Reset
  BY <1>5, FreshConsistent DEF Reset
<1>6. CASE UNCHANGED vars
  BY <1>6 DEF vars
<1> QED BY <1>2, <1>3, <1>4, <1>5, <1>6 DEF Next

\* The invariant holds in every reachable state.
LEMMA VadInvariant == Spec => []VadInv
  BY VadInit, VadStep, PTL DEF Spec

-----------------------------------------------------------------------------
(* Induction *)

\* What holds of 0 and is passed on from each number to the next holds of all
\* natural numbers; T is the set of the numbers it holds of.
LEMMA SetInduction ==
  ASSUME NEW T, 0 \in T, \A n \in Nat : n \in T => n + 1 \in T
  PROVE  Nat \subseteq T
<1> DEFINE R == OpToRel(<, Nat)
           Missing == Nat \ T
<1> SUFFICES ASSUME Missing # {} PROVE FALSE
  OBVIOUS
<1>1. IsWellFoundedOn(R, Nat)
  BY NatLessThanWellFounded
<1>2. Missing \subseteq Nat
  OBVIOUS
<1> HIDE DEF R
<1>3. PICK x \in Missing : \A y \in Missing : ~ (<<y, x>> \in R)
  <2> HIDE DEF Missing
  <2> QED BY <1>1, <1>2, WFMin
<1>4. \A y \in Nat : y < x => <<y, x>> \in R
  BY DEF R, OpToRel
<1>5. x \in Nat /\ x # 0 /\ x - 1 \in Nat /\ x - 1 < x
  OBVIOUS
<1>6. x - 1 \in T
  BY <1>3, <1>4, <1>5
<1>7. x \in T
  <2>1. (x - 1) + 1 = x
    BY <1>5
  <2> QED BY <1>5, <1>6, <2>1
<1> QED BY <1>7

-----------------------------------------------------------------------------
(* Energy *)

\* The recursion of Energy has a solution, so Energy satisfies it.
LEMMA EnergyRecursion ==
  ASSUME NEW s \in Seq(Amplitudes)
  PROVE  /\ Energy(s)[0] = 0
         /\ \A i \in 1..Len(s) : Energy(s)[i] = Energy(s)[i-1] + s[i] * s[i]
<1> DEFINE Solves(f, n) ==
             f = [i \in 0..n |-> IF i = 0 THEN 0 ELSE f[i-1] + s[i] * s[i]]
           T == {n \in Nat : \E f : Solves(f, n)}
<1>1. 0 \in T
  <2>1. Solves([i \in 0..0 |-> 0], 0)
    OBVIOUS
  <2> QED BY <2>1
<1>2. ASSUME NEW n \in Nat, n \in T PROVE n + 1 \in T
  <2>1. PICK f : Solves(f, n)
    BY <1>2
  <2> DEFINE g == [i \in 0..n + 1 |-> IF i = n + 1 THEN f[n] + s[n + 1] * s[n + 1] ELSE f[i]]
  <2>2. \A i \in 0..n : g[i] = f[i]
    OBVIOUS
  <2>3. ASSUME NEW i \in 0..n + 1
        PROVE  g[i] = IF i = 0 THEN 0 ELSE g[i-1] + s[i] * s[i]
    <3>1. CASE i = n + 1
      <4>1. i - 1 = n /\ n \in 0..n /\ i # 0
        BY <3>1
      <4>2. g[i] = f[n] + s[i] * s[i]
        BY <3>1
      <4> HIDE DEF g
      <4> QED BY <2>2, <4>1, <4>2
    <3>2. CASE i # n + 1
      <4>1. i \in 0..n /\ (i # 0 => i - 1 \in 0..n)
        BY <3>2
      <4>2. f[i] = IF i = 0 THEN 0 ELSE f[i-1] + s[i] * s[i]
        BY <2>1, <4>1
      <4> HIDE DEF g
      <4> QED BY <2>2, <4>1, <4>2
    <3> QED BY <3>1, <3>2
  <2>4. Solves(g, n + 1)
    <3>1. g = [i \in 0..n + 1 |-> g[i]]
      OBVIOUS
    <3> HIDE DEF g
    <3> QED BY <2>3, <3>1
  <2> HIDE DEF g, Solves
  <2>5. n + 1 \in Nat
    OBVIOUS
  <2> QED BY <2>4, <2>5
<1>3. Len(s) \in T
  <2> HIDE DEF T
  <2>1. Nat \subseteq T
    BY <1>1, <1>2, SetInduction
  <2> QED BY <2>1
<1>4. PICK f : Solves(f, Len(s))
  BY <1>3
<1>5. Solves(Energy(s), Len(s))
  BY <1>4 DEF Energy
<1>6. \A i \in 0..Len(s) : Energy(s)[i] = IF i = 0 THEN 0 ELSE Energy(s)[i-1] + s[i] * s[i]
  BY <1>5
<1> QED BY <1>6

\* The energy of what comes first is that of the beginning, and the rest adds
\* its own.
LEMMA EnergyAdds ==
  ASSUME NEW s \in Seq(Amplitudes), NEW t \in Seq(Amplitudes)
  PROVE  /\ SumOfSquares(s) \in Int /\ SumOfSquares(t) \in Int
         /\ SumOfSquares(s \o t) = SumOfSquares(s) + SumOfSquares(t)
<1> DEFINE n == Len(s)
           m == Len(t)
           whole == s \o t
           P(k) == k <= n => Energy(s)[k] \in Int /\ Energy(whole)[k] = Energy(s)[k]
           Q(k) == k <= m => /\ Energy(t)[k] \in Int
                             /\ Energy(whole)[n + k] = Energy(s)[n] + Energy(t)[k]
<1>1. /\ n \in Nat /\ m \in Nat /\ whole \in Seq(Amplitudes) /\ Len(whole) = n + m
      /\ \A i \in 1..n : whole[i] = s[i] /\ s[i] \in Nat
      /\ \A i \in 1..m : whole[n + i] = t[i] /\ t[i] \in Nat
  <2>1. n \in Nat /\ m \in Nat /\ whole \in Seq(Amplitudes) /\ Len(whole) = n + m
    OBVIOUS
  <2>2. \A i \in 1..n + m : whole[i] = IF i <= n THEN s[i] ELSE t[i - n]
    BY ConcatProperties
  <2>3. (\A i \in 1..n : s[i] \in Nat) /\ (\A i \in 1..m : t[i] \in Nat)
    <3>1. (\A i \in 1..n : s[i] \in Amplitudes) /\ (\A i \in 1..m : t[i] \in Amplitudes)
      OBVIOUS
    <3>2. Amplitudes \subseteq Nat
      BY VadAssumption
    <3> QED BY <3>1, <3>2
  <2> HIDE DEF whole
  <2>4. ASSUME NEW i \in 1..n PROVE whole[i] = s[i]
    BY <2>1, <2>2
  <2>5. ASSUME NEW i \in 1..m PROVE whole[n + i] = t[i]
    <3>1. n + i \in 1..n + m /\ ~(n + i <= n) /\ (n + i) - n = i
      BY <2>1
    <3> QED BY <2>2, <3>1
  <2> QED BY <2>1, <2>3, <2>4, <2>5
<1> HIDE DEF whole
<1>2. \A k \in Nat : P(k)
  <2> DEFINE T == {k \in Nat : P(k)}
  <2>1. 0 \in T
    BY <1>1, EnergyRecursion
  <2>2. ASSUME NEW k \in Nat, k \in T PROVE k + 1 \in T
    <3> SUFFICES ASSUME k + 1 <= n PROVE P(k + 1)
      OBVIOUS
    <3>1. k + 1 \in 1..n /\ k + 1 \in 1..n + m /\ (k + 1) - 1 = k /\ k <= n
      BY <1>1
    <3>2. Energy(s)[k] \in Int /\ Energy(whole)[k] = Energy(s)[k]
      BY <2>2, <3>1
    <3>3. /\ Energy(s)[k + 1] = Energy(s)[k] + s[k + 1] * s[k + 1]
          /\ Energy(whole)[k + 1] = Energy(whole)[k] + whole[k + 1] * whole[k + 1]
      BY <1>1, <3>1, EnergyRecursion
    <3>4. s[k + 1] * s[k + 1] \in Int /\ whole[k + 1] = s[k + 1]
      BY <1>1, <3>1
    <3> QED BY <3>2, <3>3, <3>4
  <2> HIDE DEF T
  <2>3. Nat \subseteq T
    BY <2>1, <2>2, SetInduction
  <2> QED BY <2>3 DEF T
<1>3. \A k \in Nat : Q(k)
  <2> DEFINE T == {k \in Nat : Q(k)}
  <2>0. Energy(s)[n] \in Int /\ Energy(whole)[n] = Energy(s)[n]
    BY <1>1, <1>2
  <2>1. 0 \in T
    BY <1>1, <2>0, EnergyRecursion
  <2>2. ASSUME NEW k \in Nat, k \in T PROVE k + 1 \in T
    <3> SUFFICES ASSUME k + 1 <= m PROVE Q(k + 1)
      OBVIOUS
    <3>1. /\ k + 1 \in 1..m /\ n + (k + 1) \in 1..n + m /\ (k + 1) - 1 = k /\ k <= m
          /\ n + (k + 1) - 1 = n + k
      BY <1>1
    <3>2. Energy(t)[k] \in Int /\ Energy(whole)[n + k] = Energy(s)[n] + Energy(t)[k]
      BY <2>2, <3>1
    <3>3. /\ Energy(t)[k + 1] = Energy(t)[k] + t[k + 1] * t[k + 1]
          /\ Energy(whole)[n + (k + 1)] =
               Energy(whole)[n + k] + whole[n + (k + 1)] * whole[n + (k + 1)]
      <4>1. \A i \in 1..n + m : Energy(whole)[i] = Energy(whole)[i-1] + whole[i] * whole[i]
        BY <1>1, EnergyRecursion
      <4>2. Energy(whole)[n + (k + 1)] =
              Energy(whole)[n + (k + 1) - 1] + whole[n + (k + 1)] * whole[n + (k + 1)]
        BY <3>1, <4>1
      <4> QED BY <3>1, <4>2, EnergyRecursion
    <3>4. t[k + 1] * t[k + 1] \in Int /\ whole[n + (k + 1)] = t[k + 1]
      BY <1>1, <3>1
    <3> QED BY <2>0, <3>2, <3>3, <3>4
  <2> HIDE DEF T
  <2>3. Nat \subseteq T
    BY <2>1, <2>2, SetInduction
  <2> QED BY <2>3 DEF T
<1>4. Energy(s)[n] \in Int /\ Energy(t)[m] \in Int /\ Energy(whole)[n + m] = Energy(s)[n] + Energy(t)[m]
  BY <1>1, <1>2, <1>3
<1> QED BY <1>1, <1>4 DEF SumOfSquares, whole

\* Two stretches that both reach a power, or both stay below it, do so together.
LEMMA ReachesTogether ==
  ASSUME NEW s \in Seq(Amplitudes), NEW t \in Seq(Amplitudes), NEW power \in Nat
  PROVE  /\ Reaches(s, power) /\ Reaches(t, power) => Reaches(s \o t, power)
         /\ ~Reaches(s, power) /\ ~Reaches(t, power) => ~Reaches(s \o t, power)
<1>1. /\ SumOfSquares(s) \in Int /\ SumOfSquares(t) \in Int
      /\ SumOfSquares(s \o t) = SumOfSquares(s) + SumOfSquares(t)
  BY EnergyAdds
<1>2. /\ Len(s) \in Nat /\ Len(t) \in Nat /\ Len(s \o t) = Len(s) + Len(t)
  OBVIOUS
<1>3. /\ power * (Len(s) + Len(t)) = power * Len(s) + power * Len(t)
      /\ power * Len(s) \in Int /\ power * Len(t) \in Int
  BY <1>2
<1> QED BY <1>1, <1>2, <1>3 DEF Reaches

-----------------------------------------------------------------------------
(* The audio behind the events *)

\* What one frame does to the run under way and to the events.
LEMMA FrameOutcome ==
  ASSUME NEW v \in Detectors, NEW frame, Len(frame) \in Nat \ {0}
  PROVE  LET r == ConsumeFrame(v, frame)
             u == r.vad
             end == v.processed + Len(frame)
             begun == CandidateStart(v, v.processed)
             ended == CandidateEnd(v, v.processed)
         IN  /\ u.processed = end
             /\ \/ /\ v.state = "silence" /\ r.events = <<>>
                   /\ u.state = "silence" /\ u.speechRun = 0
                \/ /\ v.state = "silence" /\ r.events = <<>> /\ Reaches(frame, StartPower)
                   /\ u.state = "silence" /\ u.speechRun > 0 /\ u.candidateStart = begun
                \/ /\ v.state = "silence" /\ Reaches(frame, StartPower)
                   /\ r.events = <<Event("speech_started", begun, end, v.version + 1, "energy")>>
                   /\ u.state = "speech" /\ u.silenceRun = 0
                \/ /\ v.state = "speech" /\ r.events = <<>>
                   /\ u.state = "speech" /\ u.silenceRun = 0
                \/ /\ v.state = "speech" /\ r.events = <<>> /\ ~Reaches(frame, ContinuePower)
                   /\ u.state = "speech" /\ u.silenceRun > 0 /\ u.candidateEnd = ended
                \/ /\ v.state = "speech" /\ ~Reaches(frame, ContinuePower)
                   /\ r.events = <<Event("speech_ended", ended, end, v.version + 1, "energy")>>
                   /\ u.state = "silence" /\ u.speechRun = 0
<1> DEFINE start == v.processed
           end == v.processed + Len(frame)
           w == [v EXCEPT !.processed = end]
           r == ConsumeFrame(v, frame)
           spoken == v.speechRun + (end - start)
           silent == v.silenceRun + (end - start)
<1>1. /\ start \in Nat /\ end \in Nat /\ end - start > 0
      /\ spoken > 0 /\ silent > 0 /\ v.state \in {"silence", "speech"}
  BY DEF Detectors
<1>2. /\ w \in Detectors /\ w.processed = end /\ w.state = v.state
      /\ w.version = v.version
      /\ w.speechRun = v.speechRun /\ w.candidateStart = v.candidateStart
      /\ w.silenceRun = v.silenceRun /\ w.candidateEnd = v.candidateEnd
  BY <1>1 DEF Detectors
<1>3. /\ CandidateStart(w, start) = CandidateStart(v, start)
      /\ CandidateEnd(w, start) = CandidateEnd(v, start)
  BY <1>2 DEF CandidateStart, CandidateEnd
<1> DEFINE begun == CandidateStart(v, start)
           ended == CandidateEnd(v, start)
<1>4. CASE v.state = "silence"
  <2>1. r = ConsumeSilenceFrame(w, frame, start, end)
    BY <1>4 DEF ConsumeFrame
  <2> HIDE DEF w, r, begun, start, end
  <2>2. CASE ~Reaches(frame, StartPower)
    <3>1. r = Result([w EXCEPT !.speechRun = 0, !.candidateStart = None], <<>>)
      BY <2>1, <2>2 DEF ConsumeSilenceFrame, QuietFrame
    <3>2. /\ r.events = <<>> /\ r.vad.speechRun = 0 /\ r.vad.state = "silence"
          /\ r.vad.processed = end
      BY <1>2, <1>4, <3>1 DEF Result, Detectors
    <3> QED BY <1>4, <3>2 DEF r, end, start
  <2>3. CASE Reaches(frame, StartPower) /\ spoken < MinSpeechSamples
    <3>1. r = Result([w EXCEPT !.speechRun = spoken, !.candidateStart = begun], <<>>)
      BY <1>2, <1>3, <2>1, <2>3 DEF ConsumeSilenceFrame, begun
    <3> HIDE DEF spoken
    <3>2. /\ r.events = <<>> /\ r.vad.speechRun = spoken /\ r.vad.state = "silence"
          /\ r.vad.processed = end /\ r.vad.candidateStart = begun
      BY <1>2, <1>4, <3>1 DEF Result, Detectors
    <3> QED BY <1>1, <1>4, <2>3, <3>2 DEF r, end, start, begun
  <2>4. CASE Reaches(frame, StartPower) /\ ~(spoken < MinSpeechSamples)
    <3> DEFINE e == Event("speech_started", begun, end, v.version + 1, "energy")
               q == [w EXCEPT !.state = "speech", !.version = @ + 1,
                              !.activeStart = begun, !.speechRun = 0,
                              !.candidateStart = None, !.silenceRun = 0]
    <3>1. r = Result(q, <<e>>)
      BY <1>2, <1>3, <2>1, <2>4 DEF ConsumeSilenceFrame, begun
    <3>2. q.state = "speech" /\ q.silenceRun = 0 /\ q.processed = end
      BY <1>2 DEF Detectors
    <3> HIDE DEF q, e
    <3>3. r.events = <<e>> /\ r.vad = q
      BY <3>1 DEF Result
    <3> QED BY <1>4, <2>4, <3>2, <3>3 DEF r, end, start, begun, e
  <2> QED BY <2>2, <2>3, <2>4
<1>5. CASE v.state = "speech"
  <2>1. r = ConsumeSpeechFrame(w, frame, start, end)
    BY <1>2, <1>5 DEF ConsumeFrame
  <2> HIDE DEF w, r, ended, start, end
  <2>2. CASE Reaches(frame, ContinuePower)
    <3>1. r = Result([w EXCEPT !.silenceRun = 0, !.candidateEnd = None], <<>>)
      BY <2>1, <2>2 DEF ConsumeSpeechFrame, SpeechGoesOn
    <3>2. /\ r.events = <<>> /\ r.vad.silenceRun = 0 /\ r.vad.state = "speech"
          /\ r.vad.processed = end
      BY <1>2, <1>5, <3>1 DEF Result, Detectors
    <3> QED BY <1>5, <3>2 DEF r, end, start
  <2>3. CASE ~Reaches(frame, ContinuePower) /\ silent < MinSilenceSamples
    <3>1. r = Result([w EXCEPT !.silenceRun = silent, !.candidateEnd = ended], <<>>)
      BY <1>2, <1>3, <2>1, <2>3 DEF ConsumeSpeechFrame, SpeechGoesOn, ended
    <3> HIDE DEF silent
    <3>2. /\ r.events = <<>> /\ r.vad.silenceRun = silent /\ r.vad.state = "speech"
          /\ r.vad.processed = end /\ r.vad.candidateEnd = ended
      BY <1>2, <1>5, <3>1 DEF Result, Detectors
    <3> QED BY <1>1, <1>5, <2>3, <3>2 DEF r, end, start, ended
  <2>4. CASE ~Reaches(frame, ContinuePower) /\ ~(silent < MinSilenceSamples)
    <3> DEFINE e == Event("speech_ended", ended, end, v.version + 1, "energy")
               q == [w EXCEPT !.state = "silence", !.version = @ + 1,
                              !.activeStart = None, !.silenceRun = 0,
                              !.candidateEnd = None, !.speechRun = 0]
    <3>1. r = Result(q, <<e>>)
      BY <1>2, <1>3, <2>1, <2>4 DEF ConsumeSpeechFrame, SpeechGoesOn, ended
    <3>2. q.state = "silence" /\ q.speechRun = 0 /\ q.processed = end
      BY <1>2 DEF Detectors
    <3> HIDE DEF q, e
    <3>3. r.events = <<e>> /\ r.vad = q
      BY <3>1 DEF Result
    <3> QED BY <1>5, <2>4, <3>2, <3>3 DEF r, end, start, ended, e
  <2> QED BY <2>2, <2>3, <2>4
<1> QED BY <1>1, <1>4, <1>5

\* What is added to a sequence leaves its inner pieces alone.
LEMMA PieceOfConcat ==
  ASSUME NEW S, NEW s \in Seq(S), NEW p \in Seq(S),
         NEW a \in 0..Len(s), NEW b \in 0..Len(s)
  PROVE  SubSeq(s \o p, a + 1, b) = SubSeq(s, a + 1, b)
<1>1. CASE b < a + 1
  BY <1>1
<1>2. CASE a + 1 <= b
  <2>1. a + 1 \in 1..Len(s) /\ b \in 1..Len(s)
    BY <1>2
  <2> QED BY <2>1, SubSeqOfConcat1
<1> QED BY <1>1, <1>2

\* What is added to a sequence lengthens what follows any of its points.
LEMMA RestOfConcat ==
  ASSUME NEW S, NEW s \in Seq(S), NEW p \in Seq(S), NEW k \in 0..Len(s)
  PROVE  SubSeq(s \o p, k + 1, Len(s) + Len(p)) = SubSeq(s, k + 1, Len(s)) \o p
<1> DEFINE n == Len(s)
           m == Len(p)
           whole == s \o p
<1>1. n \in Nat /\ m \in Nat /\ whole \in Seq(S) /\ Len(whole) = n + m
  OBVIOUS
<1>2. SubSeq(whole, k + 1, n) = SubSeq(s, k + 1, n)
  BY <1>1, PieceOfConcat
<1>3. SubSeq(whole, n + 1, n + m) = p
  <2>1. CASE m = 0
    <3>1. SubSeq(whole, n + 1, n + m) = <<>>
      BY <1>1, <2>1, SubSeqEmpty
    <3> QED BY <2>1, <3>1
  <2>2. CASE m # 0
    <3>1. n + 1 \in n + 1..n + m /\ n + m \in n + 1..n + m
      BY <1>1, <2>2
    <3>2. SubSeq(whole, n + 1, n + m) = SubSeq(p, n + 1 - n, n + m - n)
      BY <3>1, SubSeqOfConcat2
    <3>3. n + 1 - n = 1 /\ n + m - n = m
      BY <1>1
    <3> QED BY <3>2, <3>3, SubSeqFull
  <2> QED BY <2>1, <2>2
<1> HIDE DEF whole
<1>4. SubSeq(whole, k + 1, n + m) = SubSeq(whole, k + 1, n) \o SubSeq(whole, n + 1, n + m)
  <2>1. k + 1 \in 1..Len(whole) + 1 /\ n \in (k + 1) - 1..Len(whole) /\ n + m \in n..Len(whole)
    BY <1>1
  <2> QED BY <1>1, <2>1, ConcatAdjacentSubSeq
<1> QED BY <1>1, <1>2, <1>3, <1>4 DEF whole

\* The audio from an offset to where an event was decided bears the event out.
BornOut(c, e) ==
  LET run == SubSeq(c, e.offset + 1, e.observed)
  IN  /\ e.type = "speech_started" => Reaches(run, StartPower)
      /\ e.reason = "energy" /\ e.type = "speech_ended" => ~Reaches(run, ContinuePower)

\* The consumed audio c bears out every event and the run that is open.
Justified(c, v, es) ==
  /\ c \in Seq(Amplitudes)
  /\ Len(c) = v.processed
  /\ \A i \in 1..Len(es) : BornOut(c, es[i])
  /\ v.state = "silence" /\ v.speechRun > 0 =>
       Reaches(SubSeq(c, v.candidateStart + 1, Len(c)), StartPower)
  /\ v.state = "speech" /\ v.silenceRun > 0 =>
       ~Reaches(SubSeq(c, v.candidateEnd + 1, Len(c)), ContinuePower)

\* More audio changes nothing for events that were decided before it.
LEMMA BornOutLater ==
  ASSUME NEW c \in Seq(Amplitudes), NEW a \in Seq(Amplitudes),
         NEW e \in EventSet, e.offset <= e.observed, e.observed <= Len(c), BornOut(c, e)
  PROVE  BornOut(c \o a, e)
<1>1. e.offset \in 0..Len(c) /\ e.observed \in 0..Len(c)
  BY DEF EventSet
<1>2. SubSeq(c \o a, e.offset + 1, e.observed) = SubSeq(c, e.offset + 1, e.observed)
  BY <1>1, PieceOfConcat
<1> QED BY <1>2 DEF BornOut

\* A frame extends the audio behind a run: with the frame that begins the run,
\* or the run before it, the whole reaches the power if its parts do.
LEMMA RunExtends ==
  ASSUME NEW c \in Seq(Amplitudes), NEW frame \in Seq(Amplitudes),
         NEW k \in 0..Len(c), NEW power \in Nat
  PROVE  LET run == SubSeq(c \o frame, k + 1, Len(c) + Len(frame))
         IN  /\ k = Len(c) => run = frame
             /\ Reaches(SubSeq(c, k + 1, Len(c)), power) /\ Reaches(frame, power)
                  => Reaches(run, power)
             /\ ~Reaches(SubSeq(c, k + 1, Len(c)), power) /\ ~Reaches(frame, power)
                  => ~Reaches(run, power)
<1> DEFINE before == SubSeq(c, k + 1, Len(c))
           run == SubSeq(c \o frame, k + 1, Len(c) + Len(frame))
<1>1. run = before \o frame
  BY RestOfConcat
<1>2. before \in Seq(Amplitudes)
  <2>1. k + 1 \in Int /\ Len(c) \in Int /\ \A i \in k + 1..Len(c) : c[i] \in Amplitudes
    OBVIOUS
  <2> QED BY <2>1, SubSeqProperties
<1>3. k = Len(c) => before = <<>>
  BY SubSeqEmpty
<1>4. <<>> \o frame = frame
  BY ConcatEmptySeq
<1> HIDE DEF before, run
<1>5. /\ Reaches(before, power) /\ Reaches(frame, power) => Reaches(before \o frame, power)
      /\ ~Reaches(before, power) /\ ~Reaches(frame, power) => ~Reaches(before \o frame, power)
  BY <1>2, ReachesTogether
<1> QED BY <1>1, <1>3, <1>4, <1>5 DEF before, run

\* A consumed frame is one more piece of audio that bears the events out.
LEMMA FrameJustifies ==
  ASSUME NEW v, NEW es, Consistent(v, es), NEW c, Justified(c, v, es),
         NEW frame \in Seq(Amplitudes), Len(frame) \in 1..FrameSamples
  PROVE  LET r == ConsumeFrame(v, frame)
         IN  Justified(c \o frame, r.vad, es \o r.events)
<1> DEFINE r == ConsumeFrame(v, frame)
           u == r.vad
           n == Len(c)
           end == n + Len(frame)
           d == c \o frame
           begun == CandidateStart(v, v.processed)
           ended == CandidateEnd(v, v.processed)
<1>1. /\ v \in Detectors /\ es \in Seq(EventSet) /\ Account(es)
      /\ DecidedBy(es, v.processed) /\ c \in Seq(Amplitudes) /\ n = v.processed
      /\ Len(frame) \in Nat \ {0} /\ FrameSamples \in Nat
  BY VadAssumption DEF Consistent, Justified
<1>2. d \in Seq(Amplitudes) /\ Len(d) = end /\ n \in Nat /\ end \in Nat
  BY <1>1
<1>3. ASSUME NEW i \in 1..Len(es) PROVE BornOut(d, es[i])
  <2>1. es[i] \in EventSet
    BY <1>1
  <2>2. es[i].offset <= es[i].observed /\ es[i].observed <= n /\ BornOut(c, es[i])
    BY <1>1 DEF Account, DecidedBy, Justified
  <2> QED BY <1>1, <2>1, <2>2, BornOutLater
<1>4. v.state = "silence" =>
        /\ begun \in 0..n
        /\ Reaches(frame, StartPower) => Reaches(SubSeq(d, begun + 1, end), StartPower)
  <2> SUFFICES ASSUME v.state = "silence"
               PROVE  /\ begun \in 0..n
                      /\ Reaches(frame, StartPower) => Reaches(SubSeq(d, begun + 1, end), StartPower)
    OBVIOUS
  <2>0. StartPower \in Nat /\ v.speechRun \in Nat
    BY <1>1, VadAssumption DEF Detectors
  <2>1. CASE v.speechRun = 0
    <3>1. begun = n
      BY <1>1, <2>1 DEF CandidateStart
    <3>2. n \in 0..Len(c) /\ n = Len(c)
      BY <1>2
    <3>3. SubSeq(c \o frame, n + 1, Len(c) + Len(frame)) = frame
      BY <1>1, <2>0, <3>2, RunExtends
    <3>4. SubSeq(d, begun + 1, end) = frame
      BY <3>1, <3>3
    <3> QED BY <3>1, <3>2, <3>4, Zenon
  <2>2. CASE v.speechRun # 0
    <3>1. begun = v.candidateStart
      BY <2>2 DEF CandidateStart
    <3>2. v.candidateStart \in Nat /\ v.candidateStart + v.speechRun = n
      BY <1>1, <2>0, <2>2 DEF Consistent, RunOpen
    <3>3. begun \in 0..n
      BY <1>2, <2>0, <3>1, <3>2
    <3>4. Reaches(SubSeq(c, begun + 1, n), StartPower)
      BY <2>0, <2>2, <3>1 DEF Justified
    <3> QED BY <1>1, <2>0, <3>3, <3>4, RunExtends
  <2> QED BY <2>1, <2>2
<1>5. v.state = "speech" =>
        /\ ended \in 0..n
        /\ ~Reaches(frame, ContinuePower) => ~Reaches(SubSeq(d, ended + 1, end), ContinuePower)
  <2> SUFFICES ASSUME v.state = "speech"
               PROVE  /\ ended \in 0..n
                      /\ ~Reaches(frame, ContinuePower) => ~Reaches(SubSeq(d, ended + 1, end), ContinuePower)
    OBVIOUS
  <2>0. ContinuePower \in Nat /\ v.silenceRun \in Nat
    BY <1>1, VadAssumption DEF Detectors
  <2>1. CASE v.silenceRun = 0
    <3>1. ended = n
      BY <1>1, <2>1 DEF CandidateEnd
    <3>2. n \in 0..Len(c) /\ n = Len(c)
      BY <1>2
    <3>3. SubSeq(c \o frame, n + 1, Len(c) + Len(frame)) = frame
      BY <1>1, <2>0, <3>2, RunExtends
    <3>4. SubSeq(d, ended + 1, end) = frame
      BY <3>1, <3>3
    <3> QED BY <3>1, <3>2, <3>4, Zenon
  <2>2. CASE v.silenceRun # 0
    <3>1. ended = v.candidateEnd
      BY <2>2 DEF CandidateEnd
    <3>2. v.candidateEnd \in Nat /\ v.candidateEnd + v.silenceRun = n
      BY <1>1, <2>0, <2>2 DEF Consistent, RunOpen
    <3>3. ended \in 0..n
      BY <1>2, <2>0, <3>1, <3>2
    <3>4. ~Reaches(SubSeq(c, ended + 1, n), ContinuePower)
      BY <2>0, <2>2, <3>1 DEF Justified
    <3> QED BY <1>1, <2>0, <3>3, <3>4, RunExtends
  <2> QED BY <2>1, <2>2
<1>6. u.processed = end
  BY <1>1, FrameOutcome
<1>7. es \o <<>> = es
  BY <1>1
<1>8. ASSUME NEW e, r.events = <<e>>, BornOut(d, e)
      PROVE  \A i \in 1..Len(es \o r.events) : BornOut(d, (es \o r.events)[i])
  <2>1. es \o <<e>> = Append(es, e)
    BY <1>1
  <2>2. /\ Len(Append(es, e)) = Len(es) + 1 /\ Append(es, e)[Len(es) + 1] = e
        /\ \A i \in 1..Len(es) : Append(es, e)[i] = es[i]
    BY <1>1
  <2>3. \A i \in 1..Len(es) + 1 : i = Len(es) + 1 \/ i \in 1..Len(es)
    BY <1>1
  <2> HIDE DEF d, r
  <2> QED BY <1>3, <1>8, <2>1, <2>2, <2>3
<1>9. \/ /\ r.events = <<>> /\ u.state = "silence" /\ u.speechRun = 0
      \/ /\ v.state = "silence" /\ r.events = <<>> /\ Reaches(frame, StartPower)
         /\ u.state = "silence" /\ u.candidateStart = begun
      \/ /\ v.state = "silence" /\ Reaches(frame, StartPower)
         /\ r.events = <<Event("speech_started", begun, end, v.version + 1, "energy")>>
         /\ u.state = "speech" /\ u.silenceRun = 0
      \/ /\ r.events = <<>> /\ u.state = "speech" /\ u.silenceRun = 0
      \/ /\ v.state = "speech" /\ r.events = <<>> /\ ~Reaches(frame, ContinuePower)
         /\ u.state = "speech" /\ u.candidateEnd = ended
      \/ /\ v.state = "speech" /\ ~Reaches(frame, ContinuePower)
         /\ r.events = <<Event("speech_ended", ended, end, v.version + 1, "energy")>>
         /\ u.state = "silence" /\ u.speechRun = 0
  BY <1>1, FrameOutcome
<1> HIDE DEF r, d, begun, ended
<1>10. ASSUME r.events = <<>>
       PROVE  \A i \in 1..Len(es \o r.events) : BornOut(d, (es \o r.events)[i])
  BY <1>3, <1>7, <1>10
<1>11. CASE r.events = <<>> /\ u.state = "silence" /\ u.speechRun = 0
  BY <1>2, <1>6, <1>10, <1>11 DEF Justified, r, d
<1>12. CASE /\ v.state = "silence" /\ r.events = <<>> /\ Reaches(frame, StartPower)
            /\ u.state = "silence" /\ u.candidateStart = begun
  BY <1>2, <1>4, <1>6, <1>10, <1>12 DEF Justified, r, d
<1>13. CASE /\ v.state = "silence" /\ Reaches(frame, StartPower)
            /\ r.events = <<Event("speech_started", begun, end, v.version + 1, "energy")>>
            /\ u.state = "speech" /\ u.silenceRun = 0
  <2> DEFINE e == Event("speech_started", begun, end, v.version + 1, "energy")
  <2>1. e.type = "speech_started" /\ e.offset = begun /\ e.observed = end
    BY DEF Event
  <2> HIDE DEF e
  <2>2. BornOut(d, e)
    BY <1>4, <1>13, <2>1 DEF BornOut
  <2>3. r.events = <<e>>
    BY <1>13 DEF e
  <2> QED BY <1>2, <1>6, <1>8, <1>13, <2>2, <2>3 DEF Justified, r, d
<1>14. CASE r.events = <<>> /\ u.state = "speech" /\ u.silenceRun = 0
  BY <1>2, <1>6, <1>10, <1>14 DEF Justified, r, d
<1>15. CASE /\ v.state = "speech" /\ r.events = <<>> /\ ~Reaches(frame, ContinuePower)
            /\ u.state = "speech" /\ u.candidateEnd = ended
  BY <1>2, <1>5, <1>6, <1>10, <1>15 DEF Justified, r, d
<1>16. CASE /\ v.state = "speech" /\ ~Reaches(frame, ContinuePower)
            /\ r.events = <<Event("speech_ended", ended, end, v.version + 1, "energy")>>
            /\ u.state = "silence" /\ u.speechRun = 0
  <2> DEFINE e == Event("speech_ended", ended, end, v.version + 1, "energy")
  <2>1. e.type = "speech_ended" /\ e.offset = ended /\ e.observed = end
    BY DEF Event
  <2> HIDE DEF e
  <2>2. BornOut(d, e)
    BY <1>5, <1>16, <2>1 DEF BornOut
  <2>3. r.events = <<e>>
    BY <1>16 DEF e
  <2> QED BY <1>2, <1>6, <1>8, <1>16, <2>2, <2>3 DEF Justified, r, d
<1> QED BY <1>9, <1>11, <1>12, <1>13, <1>14, <1>15, <1>16

\* What the end of a flush does to the runs and to the events.
LEMMA CloseOutcome ==
  ASSUME NEW v \in Detectors, NEW returned
  PROVE  LET r == CloseSegment(v, returned)
             u == r.vad
             e == Event("speech_ended", v.processed, v.processed, v.version + 1, "flush")
         IN  /\ u.processed = v.processed /\ u.pending = v.pending
             /\ u.speechRun = 0 /\ u.silenceRun = 0
             /\ r.events \in {returned, Append(returned, e)}
<1> DEFINE r == CloseSegment(v, returned)
           e == Event("speech_ended", v.processed, v.processed, v.version + 1, "flush")
           w == [v EXCEPT !.state = "silence", !.version = @ + 1, !.activeStart = None]
<1>1. CASE v.state = "speech"
  <2>1. r = Result(ClearRuns(w), Append(returned, e))
    BY <1>1 DEF CloseSegment
  <2>2. r.vad = ClearRuns(w) /\ r.events = Append(returned, e)
    BY <2>1 DEF Result
  <2>3. /\ ClearRuns(w).processed = v.processed /\ ClearRuns(w).pending = v.pending
        /\ ClearRuns(w).speechRun = 0 /\ ClearRuns(w).silenceRun = 0
    BY DEF ClearRuns, Detectors
  <2> QED BY <2>2, <2>3
<1>2. CASE v.state # "speech"
  <2>1. r = Result(ClearRuns(v), returned)
    BY <1>2 DEF CloseSegment
  <2>2. r.vad = ClearRuns(v) /\ r.events = returned
    BY <2>1 DEF Result
  <2>3. /\ ClearRuns(v).processed = v.processed /\ ClearRuns(v).pending = v.pending
        /\ ClearRuns(v).speechRun = 0 /\ ClearRuns(v).silenceRun = 0
    BY DEF ClearRuns, Detectors
  <2> QED BY <2>2, <2>3
<1> QED BY <1>1, <1>2

\* The end that a flush announces claims nothing about the audio.
LEMMA CloseJustifies ==
  ASSUME NEW v \in Detectors, NEW returned \in Seq(EventSet), NEW told \in Seq(EventSet),
         NEW c, Justified(c, v, told \o returned)
  PROVE  LET r == CloseSegment(v, returned)
         IN  Justified(c, r.vad, told \o r.events)
<1> DEFINE r == CloseSegment(v, returned)
           e == Event("speech_ended", v.processed, v.processed, v.version + 1, "flush")
           es == told \o returned
<1>1. /\ r.vad.processed = v.processed
      /\ r.vad.speechRun = 0 /\ r.vad.silenceRun = 0
      /\ r.events \in {returned, Append(returned, e)}
  BY CloseOutcome
<1>2. BornOut(c, e)
  BY DEF BornOut, Event
<1>3. es \in Seq(EventSet) /\ \A i \in 1..Len(es) : BornOut(c, es[i])
  BY DEF Justified
<1>4. e \in EventSet
  BY DEF Event, EventSet, Detectors
<1> HIDE DEF e
<1>5. told \o Append(returned, e) = Append(es, e)
  BY <1>4
<1> HIDE DEF es
<1>6. /\ Len(Append(es, e)) = Len(es) + 1 /\ Append(es, e)[Len(es) + 1] = e
      /\ \A i \in 1..Len(es) : Append(es, e)[i] = es[i]
      /\ \A i \in 1..Len(es) + 1 : i = Len(es) + 1 \/ i \in 1..Len(es)
  BY <1>3, <1>4
<1>7. \A i \in 1..Len(Append(es, e)) : BornOut(c, Append(es, e)[i])
  BY <1>2, <1>3, <1>6
<1>8. told \o r.events \in {es, Append(es, e)}
  BY <1>1, <1>5 DEF es
<1>9. \A i \in 1..Len(told \o r.events) : BornOut(c, (told \o r.events)[i])
  BY <1>3, <1>7, <1>8
<1> QED BY <1>1, <1>9 DEF Justified

\* The audio that was consumed, with the pending audio behind it the audio that
\* was heard, bears out the detector and its events.
AudioInv ==
  \E c : Justified(c, vad, events) /\ heard = c \o vad.pending

\* A new detector has nothing to bear out.
LEMMA AudioInit == Init => AudioInv
<1> SUFFICES ASSUME Init PROVE AudioInv
  OBVIOUS
<1>1. Justified(<<>>, Fresh, <<>>) /\ <<>> \o Fresh.pending = <<>>
  BY DEF Justified, Fresh
<1> QED BY <1>1 DEF Init, AudioInv

\* The pending samples do not matter to what was consumed.
LEMMA PendingJustifies ==
  ASSUME NEW v \in Detectors, NEW es, NEW c, Justified(c, v, es), NEW p
  PROVE  Justified(c, [v EXCEPT !.pending = p], es)
<1> DEFINE w == [v EXCEPT !.pending = p]
<1>1. /\ w.state = v.state /\ w.processed = v.processed
      /\ w.speechRun = v.speechRun /\ w.silenceRun = v.silenceRun
      /\ w.candidateStart = v.candidateStart /\ w.candidateEnd = v.candidateEnd
  BY DEF Detectors
<1> HIDE DEF w
<1>2. Justified(c, w, es)
  BY <1>1 DEF Justified
<1> QED BY <1>2 DEF w

\* What flush() consumes before it closes the segment: the pending samples.
LEMMA FlushConsumes ==
  ASSUME Consistent(vad, events), Flush
  PROVE  \E r : /\ Flushed(vad) = CloseSegment(r.vad, r.events)
                /\ Consistent(r.vad, events \o r.events) /\ r.events \in Seq(EventSet)
                /\ r.vad.pending = <<>>
                /\ \A c : Justified(c, vad, events) =>
                     Justified(c \o vad.pending, r.vad, events \o r.events)
<1> DEFINE r == IF vad.pending = <<>> THEN Result(vad, <<>>)
                ELSE ConsumeFrame([vad EXCEPT !.pending = <<>>], vad.pending)
           p == vad.pending
<1>1. vad \in Detectors /\ p \in Seq(Amplitudes) /\ events \in Seq(EventSet)
  BY DEF Consistent, Detectors
<1>2. Flushed(vad) = CloseSegment(r.vad, r.events)
  BY DEF Flushed
<1>3. CASE p = <<>>
  <2>1. r.vad = vad /\ r.events = <<>>
    BY <1>3 DEF Result
  <2>2. events \o <<>> = events /\ <<>> \in Seq(EventSet)
    BY <1>1
  <2>3. ASSUME NEW c, Justified(c, vad, events) PROVE c \o p = c
    BY <1>3, <2>3 DEF Justified
  <2> HIDE DEF r
  <2> QED BY <1>2, <1>3, <2>1, <2>2, <2>3
<1>4. CASE p # <<>>
  <2> DEFINE v == [vad EXCEPT !.pending = <<>>]
  <2>1. r = ConsumeFrame(v, p)
    BY <1>4
  <2>2. Len(p) \in Nat /\ Len(p) > 0 /\ Len(p) < FrameSamples /\ FrameSamples \in Nat
    BY <1>1, <1>4, VadAssumption DEF Flush, InLoop
  <2>3. Len(p) \in 1..FrameSamples
    BY <2>2
  <2>4. <<>> \in Seq(Amplitudes)
    OBVIOUS
  <2>5. Consistent(v, events) /\ v.pending = <<>>
    BY <1>1, <2>4, PendingKeeps DEF Detectors
  <2>6. \A c : Justified(c, vad, events) => Justified(c, v, events)
    BY <1>1, PendingJustifies
  <2> HIDE DEF v, r, p
  <2>7. /\ Consistent(r.vad, events \o r.events) /\ r.events \in Seq(EventSet)
        /\ r.vad.pending = <<>>
    BY <2>1, <2>3, <2>5, FrameKeeps
  <2>8. ASSUME NEW c, Justified(c, vad, events)
        PROVE  Justified(c \o p, r.vad, events \o r.events)
    BY <1>1, <2>1, <2>3, <2>5, <2>6, <2>8, FrameJustifies
  <2> QED BY <1>2, <2>7, <2>8 DEF p
<1> QED BY <1>3, <1>4

\* The loop of process() consumes the front of the pending samples.
LEMMA LoopConsumes ==
  ASSUME Consistent(vad, events), ProcessFrame
  PROVE  LET frame == SubSeq(vad.pending, 1, FrameSamples)
             rest  == SubSeq(vad.pending, FrameSamples + 1, Len(vad.pending))
         IN  /\ frame \in Seq(Amplitudes) /\ rest \in Seq(Amplitudes)
             /\ Len(frame) = FrameSamples /\ Len(frame) \in 1..FrameSamples
             /\ Len(rest) = Len(vad.pending) - FrameSamples
             /\ vad.pending = frame \o rest
<1> DEFINE p == vad.pending
           n == Len(p)
<1>1. p \in Seq(Amplitudes) /\ n \in Nat /\ FrameSamples \in Nat \ {0} /\ n >= FrameSamples
  BY VadAssumption DEF Consistent, Detectors, ProcessFrame, InLoop
<1> HIDE DEF p
<1>2. /\ SubSeq(p, 1, FrameSamples) \in Seq(Amplitudes)
      /\ Len(SubSeq(p, 1, FrameSamples)) = FrameSamples
  BY <1>1
<1>3. /\ SubSeq(p, FrameSamples + 1, n) \in Seq(Amplitudes)
      /\ Len(SubSeq(p, FrameSamples + 1, n)) = n - FrameSamples
  <2>1. FrameSamples + 1 \in Int /\ n \in Int /\ \A i \in FrameSamples + 1..n : p[i] \in Amplitudes
    BY <1>1
  <2>2. /\ SubSeq(p, FrameSamples + 1, n) \in Seq(Amplitudes)
        /\ Len(SubSeq(p, FrameSamples + 1, n)) =
             IF FrameSamples + 1 <= n THEN n - (FrameSamples + 1) + 1 ELSE 0
    BY <2>1, SubSeqProperties
  <2> QED BY <1>1, <2>2
<1>4. p = SubSeq(p, 1, FrameSamples) \o SubSeq(p, FrameSamples + 1, n)
  <2>1. 1 \in 1..n + 1 /\ FrameSamples \in 1 - 1..n /\ n \in FrameSamples..n
    BY <1>1
  <2> QED BY <1>1, <2>1, ConcatAdjacentSubSeq, SubSeqFull
<1>5. FrameSamples \in 1..FrameSamples
  BY <1>1
<1> QED BY <1>2, <1>3, <1>4, <1>5 DEF p

\* No step loses the audio behind the events.
LEMMA AudioStep == VadInv /\ AudioInv /\ [Next]_vars => AudioInv'
<1> SUFFICES ASSUME Consistent(vad, events), AudioInv, [Next]_vars PROVE AudioInv'
  BY DEF VadInv
<1>1. PICK c : Justified(c, vad, events) /\ heard = c \o vad.pending
  BY DEF AudioInv
<1>2. /\ vad \in Detectors /\ vad.pending \in Seq(Amplitudes) /\ c \in Seq(Amplitudes)
      /\ events \in Seq(EventSet)
  BY <1>1 DEF Consistent, Detectors, Justified
<1>3. ASSUME NEW a \in Inputs, Process(a) PROVE AudioInv'
  <2> DEFINE p == vad.pending \o a
  <2>1. a \in Seq(Amplitudes)
    BY VadAssumption
  <2>2. heard' = (c \o vad.pending) \o a /\ events' = events
    BY <1>1, <1>3 DEF Process
  <2>3. (c \o vad.pending) \o a = c \o p
    <3>1. \A x, y, z \in Seq(Amplitudes) : (x \o y) \o z = x \o (y \o z)
      BY ConcatAssociative
    <3> QED BY <1>2, <2>1, <3>1, Zenon
  <2>4. vad' = [vad EXCEPT !.pending = p]
    BY <1>3 DEF Process, Pending
  <2>5. vad'.pending = p
    BY <1>2, <2>4 DEF Detectors
  <2> HIDE DEF p
  <2>6. Justified(c, vad', events')
    BY <1>1, <1>2, <2>2, <2>4, PendingJustifies
  <2> QED BY <2>2, <2>3, <2>5, <2>6 DEF AudioInv
<1>4. CASE ProcessFrame
  <2> DEFINE n == Len(vad.pending)
             frame == SubSeq(vad.pending, 1, FrameSamples)
             rest == SubSeq(vad.pending, FrameSamples + 1, n)
             v == [vad EXCEPT !.pending = rest]
             r == ConsumeFrame(v, frame)
  <2>1. /\ frame \in Seq(Amplitudes) /\ rest \in Seq(Amplitudes)
        /\ Len(frame) \in 1..FrameSamples /\ vad.pending = frame \o rest
    BY <1>4, LoopConsumes
  <2>2. vad' = r.vad /\ events' = events \o r.events /\ heard' = heard
    BY <1>4 DEF ProcessFrame
  <2>3. v.pending = rest
    BY <1>2 DEF Detectors
  <2> HIDE DEF frame, rest
  <2>4. Consistent(v, events) /\ Justified(c, v, events)
    BY <1>1, <1>2, <2>1, PendingKeeps, PendingJustifies
  <2> HIDE DEF v
  <2>5. Justified(c \o frame, r.vad, events \o r.events) /\ r.vad.pending = rest
    BY <2>1, <2>3, <2>4, FrameJustifies, FrameKeeps
  <2>6. c \o (frame \o rest) = (c \o frame) \o rest
    BY <1>2, <2>1, ConcatAssociative
  <2> QED BY <1>1, <2>1, <2>2, <2>5, <2>6 DEF AudioInv
<1>5. CASE Flush
  <2>1. PICK r : /\ Flushed(vad) = CloseSegment(r.vad, r.events)
                 /\ Consistent(r.vad, events \o r.events) /\ r.events \in Seq(EventSet)
                 /\ r.vad.pending = <<>>
                 /\ \A d : Justified(d, vad, events) =>
                      Justified(d \o vad.pending, r.vad, events \o r.events)
    BY <1>5, FlushConsumes
  <2> DEFINE q == CloseSegment(r.vad, r.events)
  <2>2. vad' = q.vad /\ events' = events \o q.events /\ heard' = heard
    BY <1>5, <2>1 DEF Flush
  <2>3. r.vad \in Detectors
    BY <2>1 DEF Consistent
  <2>4. Justified(heard, r.vad, events \o r.events)
    BY <1>1, <2>1
  <2>5. Justified(heard, q.vad, events \o q.events)
    BY <1>2, <2>1, <2>3, <2>4, CloseJustifies
  <2>6. q.vad.pending = <<>>
    BY <2>1, <2>3, CloseOutcome
  <2>7. heard = heard \o <<>>
    BY <1>1, <1>2
  <2> QED BY <2>2, <2>5, <2>6, <2>7 DEF AudioInv
<1>6. CASE Reset
  <2>1. Justified(<<>>, Fresh, <<>>) /\ <<>> \o Fresh.pending = <<>>
    BY DEF Justified, Fresh
  <2> QED BY <1>6, <2>1 DEF Reset, AudioInv
<1>7. CASE UNCHANGED vars
  BY <1>1, <1>7 DEF vars, AudioInv
<1> QED BY <1>3, <1>4, <1>5, <1>6, <1>7 DEF Next

-----------------------------------------------------------------------------
(* Chunking *)

\* The recursion of Fed has a solution, so Fed satisfies it.
LEMMA FedRecursion ==
  ASSUME NEW h \in Seq(Int)
  PROVE  /\ Fed(h)[0] = Result(Fresh, <<>>)
         /\ \A i \in 1..Len(h) : Fed(h)[i] = FeedOne(Fed(h)[i-1], h[i])
<1> DEFINE Solves(f, n) ==
             f = [i \in 0..n |-> IF i = 0 THEN Result(Fresh, <<>>) ELSE FeedOne(f[i-1], h[i])]
           T == {n \in Nat : \E f : Solves(f, n)}
<1>1. 0 \in T
  <2>1. Solves([i \in 0..0 |-> Result(Fresh, <<>>)], 0)
    OBVIOUS
  <2> QED BY <2>1
<1>2. ASSUME NEW n \in Nat, n \in T PROVE n + 1 \in T
  <2>1. PICK f : Solves(f, n)
    BY <1>2
  <2> DEFINE g == [i \in 0..n + 1 |-> IF i = n + 1 THEN FeedOne(f[n], h[n + 1]) ELSE f[i]]
  <2>2. \A i \in 0..n : g[i] = f[i]
    OBVIOUS
  <2>3. ASSUME NEW i \in 0..n + 1
        PROVE  g[i] = IF i = 0 THEN Result(Fresh, <<>>) ELSE FeedOne(g[i-1], h[i])
    <3>1. CASE i = n + 1
      <4>1. i - 1 = n /\ n \in 0..n /\ i # 0
        BY <3>1
      <4>2. g[i] = FeedOne(f[n], h[i])
        BY <3>1
      <4> HIDE DEF g
      <4> QED BY <2>2, <4>1, <4>2
    <3>2. CASE i # n + 1
      <4>1. i \in 0..n /\ (i # 0 => i - 1 \in 0..n)
        BY <3>2
      <4>2. f[i] = IF i = 0 THEN Result(Fresh, <<>>) ELSE FeedOne(f[i-1], h[i])
        BY <2>1, <4>1
      <4> HIDE DEF g
      <4> QED BY <2>2, <4>1, <4>2
    <3> QED BY <3>1, <3>2
  <2>4. Solves(g, n + 1)
    <3>1. g = [i \in 0..n + 1 |-> g[i]]
      OBVIOUS
    <3> HIDE DEF g
    <3> QED BY <2>3, <3>1
  <2> HIDE DEF g, Solves
  <2>5. n + 1 \in Nat
    OBVIOUS
  <2> QED BY <2>4, <2>5
<1>3. Len(h) \in T
  <2> HIDE DEF T
  <2>1. Nat \subseteq T
    BY <1>1, <1>2, SetInduction
  <2> QED BY <2>1
<1>4. PICK f : Solves(f, Len(h))
  BY <1>3
<1>5. Solves(Fed(h), Len(h))
  BY <1>4 DEF Fed
<1>6. \A i \in 0..Len(h) :
        Fed(h)[i] = IF i = 0 THEN Result(Fresh, <<>>) ELSE FeedOne(Fed(h)[i-1], h[i])
  BY <1>5
<1> QED BY <1>6

\* What is fed later changes nothing before it.
LEMMA FedExtends ==
  ASSUME NEW h \in Seq(Int), NEW a \in Seq(Int)
  PROVE  \A k \in 0..Len(h) : Fed(h \o a)[k] = Fed(h)[k]
<1> DEFINE n == Len(h)
           whole == h \o a
           T == {k \in Nat : k <= n => Fed(whole)[k] = Fed(h)[k]}
<1>1. /\ n \in Nat /\ whole \in Seq(Int) /\ n <= Len(whole) /\ Len(whole) \in Nat
      /\ \A i \in 1..n : whole[i] = h[i]
  OBVIOUS
<1> HIDE DEF whole
<1>2. 0 \in T
  BY <1>1, FedRecursion
<1>3. ASSUME NEW k \in Nat, k \in T PROVE k + 1 \in T
  <2> SUFFICES ASSUME k + 1 <= n PROVE Fed(whole)[k + 1] = Fed(h)[k + 1]
    OBVIOUS
  <2>1. k + 1 \in 1..n /\ k + 1 \in 1..Len(whole) /\ (k + 1) - 1 = k /\ k <= n
    BY <1>1
  <2>2. Fed(whole)[k] = Fed(h)[k]
    BY <1>3, <2>1
  <2>3. Fed(h)[k + 1] = FeedOne(Fed(h)[k], h[k + 1])
    <3>1. \A i \in 1..n : Fed(h)[i] = FeedOne(Fed(h)[i-1], h[i])
      BY FedRecursion
    <3> QED BY <2>1, <3>1
  <2>4. Fed(whole)[k + 1] = FeedOne(Fed(whole)[k], whole[k + 1])
    <3>1. \A i \in 1..Len(whole) : Fed(whole)[i] = FeedOne(Fed(whole)[i-1], whole[i])
      BY <1>1, FedRecursion
    <3> QED BY <2>1, <3>1
  <2> QED BY <1>1, <2>1, <2>2, <2>3, <2>4
<1> HIDE DEF T
<1>4. Nat \subseteq T
  BY <1>2, <1>3, SetInduction
<1> QED BY <1>1, <1>4 DEF T, whole

\* A detector with other pending samples, or without any.
Holding(v, p) == [v EXCEPT !.pending = p]

\* The fields of such a detector.
LEMMA HoldingFields ==
  ASSUME NEW v \in Detectors, NEW p \in Seq(Amplitudes)
  PROVE  /\ Holding(v, p) \in Detectors
         /\ Holding(v, p).pending = p
         /\ \A q : Holding(Holding(v, p), q) = Holding(v, q)
         /\ p = v.pending => Holding(v, p) = v
BY DEF Holding, Detectors

\* The heads of a sequence grow by one sample at a time.
LEMMA HeadGrows ==
  ASSUME NEW q \in Seq(Amplitudes), NEW j \in Nat, j + 1 <= Len(q)
  PROVE  /\ SubSeq(q, 1, j) \in Seq(Amplitudes) /\ Len(SubSeq(q, 1, j)) = j
         /\ \A i \in 1..j : SubSeq(q, 1, j)[i] = q[i]
         /\ Append(SubSeq(q, 1, j), q[j + 1]) = SubSeq(q, 1, j + 1)
<1> DEFINE head == SubSeq(q, 1, j)
           next == SubSeq(q, 1, j + 1)
           grown == Append(head, q[j + 1])
<1>1. /\ Len(q) \in Nat /\ j \in Int /\ j + 1 \in Int /\ 1 \in Int
      /\ \A i \in 1..Len(q) : q[i] \in Amplitudes
  OBVIOUS
<1>2. (\A i \in 1..j : q[i] \in Amplitudes) /\ (\A i \in 1..j + 1 : q[i] \in Amplitudes)
  BY <1>1
<1>3. /\ head \in Seq(Amplitudes) /\ Len(head) = j
      /\ \A i \in 1..j : head[i] = q[i]
  <2>1. /\ head \in Seq(Amplitudes)
        /\ Len(head) = IF 1 <= j THEN j - 1 + 1 ELSE 0
        /\ \A i \in 1..j - 1 + 1 : head[i] = q[1 + i - 1]
    BY <1>1, <1>2, SubSeqProperties
  <2> HIDE DEF head
  <2> QED BY <1>1, <2>1
<1>4. /\ next \in Seq(Amplitudes) /\ Len(next) = j + 1
      /\ \A i \in 1..j + 1 : next[i] = q[i]
  <2>1. /\ next \in Seq(Amplitudes)
        /\ Len(next) = IF 1 <= j + 1 THEN (j + 1) - 1 + 1 ELSE 0
        /\ \A i \in 1..(j + 1) - 1 + 1 : next[i] = q[1 + i - 1]
    BY <1>1, <1>2, SubSeqProperties
  <2> HIDE DEF next
  <2> QED BY <1>1, <2>1
<1> HIDE DEF head, next
<1>5. /\ grown \in Seq(Amplitudes) /\ Len(grown) = j + 1
      /\ \A i \in 1..j : grown[i] = head[i]
      /\ grown[j + 1] = q[j + 1]
  BY <1>1, <1>3
<1> HIDE DEF grown
<1>6. grown = next
  <2>1. \A i \in 1..Len(grown) : grown[i] = next[i]
    BY <1>3, <1>4, <1>5
  <2> QED BY <1>4, <1>5, <2>1, SeqEqual
<1> QED BY <1>3, <1>6 DEF head, next, grown

\* Samples that do not fill a frame only pile up in the detector that is fed
\* one by one.
LEMMA FeedPending ==
  ASSUME NEW v \in Detectors, v.pending = <<>>, NEW es \in Seq(EventSet),
         NEW h \in Seq(Int), NEW k \in Nat, Fed(h)[k] = Result(v, es),
         NEW q \in Seq(Amplitudes), Len(q) < FrameSamples, k + Len(q) <= Len(h),
         \A j \in 1..Len(q) : h[k + j] = q[j]
  PROVE  Fed(h)[k + Len(q)] = Result(Holding(v, q), es)
<1> DEFINE m == Len(q)
           head(j) == SubSeq(q, 1, j)
           T == {j \in Nat : j <= m => Fed(h)[k + j] = Result(Holding(v, head(j)), es)}
<1>1. m \in Nat /\ Len(h) \in Nat /\ FrameSamples \in Nat
  BY VadAssumption
<1>2. 0 \in T
  <2>1. head(0) = <<>> /\ k + 0 = k
    OBVIOUS
  <2>2. <<>> \in Seq(Amplitudes)
    OBVIOUS
  <2>3. Holding(v, <<>>) = v
    BY <2>2, HoldingFields
  <2> QED BY <2>1, <2>3
<1>3. ASSUME NEW j \in Nat, j \in T PROVE j + 1 \in T
  <2> SUFFICES ASSUME j + 1 <= m
               PROVE  Fed(h)[k + (j + 1)] = Result(Holding(v, head(j + 1)), es)
    OBVIOUS
  <2>1. j <= m /\ j + 1 \in 1..m /\ k + (j + 1) \in 1..Len(h) /\ k + (j + 1) - 1 = k + j
    BY <1>1
  <2>2. Fed(h)[k + j] = Result(Holding(v, head(j)), es)
    BY <1>3, <2>1
  <2>3. q[j + 1] \in Amplitudes /\ h[k + (j + 1)] = q[j + 1]
    BY <2>1
  <2>4. q[j + 1] # FlushMark
    BY <2>3, VadAssumption DEF FlushMark
  <2>5. /\ head(j) \in Seq(Amplitudes) /\ head(j + 1) \in Seq(Amplitudes)
        /\ Len(head(j + 1)) = j + 1
        /\ Append(head(j), q[j + 1]) = head(j + 1)
    <3>1. /\ head(j) \in Seq(Amplitudes) /\ Len(head(j)) = j
          /\ Append(head(j), q[j + 1]) = head(j + 1)
      BY <2>1, HeadGrows
    <3>2. j + 1 \in Nat
      OBVIOUS
    <3> HIDE DEF head
    <3>3. head(j + 1) \in Seq(Amplitudes) /\ Len(head(j + 1)) = j + 1
      <4>0. head(j) \in Seq(Amplitudes) /\ Len(head(j)) = j /\ q[j + 1] \in Amplitudes
        BY <2>3, <3>1
      <4> DEFINE s == head(j)
                 y == q[j + 1]
      <4>1. s \in Seq(Amplitudes) /\ Len(s) = j /\ y \in Amplitudes
        BY <4>0
      <4> HIDE DEF s, y
      <4>2. Append(s, y) \in Seq(Amplitudes) /\ Len(Append(s, y)) = j + 1
        BY <4>1, AppendProperties
      <4> QED BY <3>1, <4>2, Zenon DEF s, y
    <3> QED BY <3>1, <3>3
  <2>6. Fed(h)[k + (j + 1)] = FeedOne(Fed(h)[k + j], q[j + 1])
    <3> DEFINE i == k + (j + 1)
    <3>1. i \in 1..Len(h) /\ i - 1 = k + j /\ h[i] = q[j + 1]
      BY <2>1, <2>3
    <3>2. \A e \in 1..Len(h) : Fed(h)[e] = FeedOne(Fed(h)[e-1], h[e])
      BY FedRecursion
    <3> HIDE DEF i, head
    <3>3. Fed(h)[i] = FeedOne(Fed(h)[i-1], h[i])
      BY <3>1, <3>2
    <3>4. Fed(h)[i] = FeedOne(Fed(h)[k + j], q[j + 1])
      BY <3>1, <3>3, Zenon
    <3> QED BY <3>4 DEF i
  <2>7. es \o <<>> = es
    OBVIOUS
  <2> DEFINE u == Holding(v, head(j))
             w == Holding(v, head(j + 1))
  <2>8. u.pending = head(j) /\ [u EXCEPT !.pending = head(j + 1)] = w
    BY <2>5, HoldingFields DEF Holding
  <2> HIDE DEF u, w, head
  <2>9. FeedOne(Result(u, es), q[j + 1]) = Result(w, es \o <<>>)
    <3>1. Result(u, es).vad = u /\ Result(u, es).events = es
      BY DEF Result
    <3>2. Len(head(j + 1)) < FrameSamples
      BY <1>1, <2>1, <2>5
    <3>3. Result(w, <<>>).vad = w /\ Result(w, <<>>).events = <<>>
      BY DEF Result
    <3> QED BY <2>4, <2>5, <2>8, <3>1, <3>2, <3>3 DEF FeedOne
  <2> QED BY <2>2, <2>6, <2>7, <2>9 DEF u, w
<1> HIDE DEF T
<1>4. Nat \subseteq T
  BY <1>2, <1>3, SetInduction
<1>5. Fed(h)[k + m] = Result(Holding(v, head(m)), es)
  BY <1>1, <1>4 DEF T
<1>6. head(m) = q
  BY SubSeqFull
<1> QED BY <1>5, <1>6

\* The sample that fills the frame makes it consume the frame.
LEMMA FeedFrame ==
  ASSUME NEW v \in Detectors, v.pending = <<>>, NEW es \in Seq(EventSet),
         NEW h \in Seq(Int), NEW k \in Nat, Fed(h)[k] = Result(v, es),
         NEW q \in Seq(Amplitudes), Len(q) = FrameSamples, k + Len(q) <= Len(h),
         \A j \in 1..Len(q) : h[k + j] = q[j]
  PROVE  Fed(h)[k + FrameSamples] =
           Result(ConsumeFrame(v, q).vad, es \o ConsumeFrame(v, q).events)
<1> DEFINE m == FrameSamples
           head == SubSeq(q, 1, m - 1)
           u == Holding(v, head)
<1>1. m \in Nat \ {0} /\ Len(h) \in Nat /\ Len(q) = m
  BY VadAssumption
<1>2. /\ head \in Seq(Amplitudes) /\ Len(head) = m - 1
      /\ \A j \in 1..m - 1 : head[j] = q[j]
      /\ Append(head, q[m]) = q
  <2>1. m - 1 \in Nat /\ (m - 1) + 1 = m /\ m <= Len(q)
    BY <1>1
  <2>2. /\ head \in Seq(Amplitudes) /\ Len(head) = m - 1
        /\ \A j \in 1..m - 1 : head[j] = q[j]
        /\ Append(head, q[m]) = SubSeq(q, 1, m)
    BY <2>1, HeadGrows
  <2>3. SubSeq(q, 1, m) = q
    BY <1>1, SubSeqFull
  <2> QED BY <2>2, <2>3
<1>3. Fed(h)[k + (m - 1)] = Result(u, es)
  <2>1. Len(head) < FrameSamples /\ k + Len(head) <= Len(h)
    BY <1>1, <1>2
  <2>2. \A j \in 1..Len(head) : h[k + j] = head[j]
    BY <1>1, <1>2
  <2> HIDE DEF head
  <2> QED BY <1>2, <2>1, <2>2, FeedPending
<1>4. m \in 1..Len(q) /\ k + m \in 1..Len(h) /\ k + m - 1 = k + (m - 1)
  BY <1>1
<1>5. h[k + m] = q[m] /\ q[m] \in Amplitudes
  BY <1>4
<1>6. q[m] # FlushMark
  BY <1>5, VadAssumption DEF FlushMark
<1>7. Fed(h)[k + m] = FeedOne(Result(u, es), q[m])
  <2>1. \A i \in 1..Len(h) : Fed(h)[i] = FeedOne(Fed(h)[i-1], h[i])
    BY FedRecursion
  <2> QED BY <1>3, <1>4, <1>5, <2>1
<1>8. u.pending = head /\ [u EXCEPT !.pending = <<>>] = v
  <2>0. <<>> \in Seq(Amplitudes)
    OBVIOUS
  <2>1. Holding(u, <<>>) = Holding(v, <<>>) /\ Holding(v, <<>>) = v
    BY <1>2, <2>0, HoldingFields
  <2> QED BY <1>2, <2>1, HoldingFields DEF Holding
<1> HIDE DEF u, head
<1>9. Result(u, es).vad = u /\ Result(u, es).events = es
  BY DEF Result
<1>10. Append(u.pending, q[m]) = q /\ ~(Len(q) < FrameSamples)
  BY <1>1, <1>2, <1>8
<1>11. FeedOne(Result(u, es), q[m]) =
         Result(ConsumeFrame(v, q).vad, es \o ConsumeFrame(v, q).events)
  <2>1. FeedOne(Result(u, es), q[m]) =
          LET r == ConsumeFrame([u EXCEPT !.pending = <<>>], q)
          IN  Result(r.vad, es \o r.events)
    BY <1>6, <1>9, <1>10, Zenon DEF FeedOne
  <2> QED BY <1>8, <2>1, Zenon
<1> QED BY <1>7, <1>11

\* What a frame does, does not depend on the samples behind it: in silence,
LEMMA SilenceIgnoresPending ==
  ASSUME NEW w \in Detectors, NEW p \in Seq(Amplitudes), NEW frame,
         NEW start \in Nat, NEW end \in Nat
  PROVE  LET r == ConsumeSilenceFrame(w, frame, start, end)
             s == ConsumeSilenceFrame(Holding(w, p), frame, start, end)
         IN  s.events = r.events /\ s.vad = Holding(r.vad, p)
<1> DEFINE x == Holding(w, p)
           run == w.speechRun + (end - start)
           candidate == CandidateStart(w, start)
<1>1. /\ x.speechRun = w.speechRun /\ x.candidateStart = w.candidateStart
      /\ x.version = w.version
  BY DEF Holding, Detectors
<1>2. CandidateStart(x, start) = candidate
  BY <1>1 DEF CandidateStart
<1>3. CASE ~Reaches(frame, StartPower)
  <2>1. QuietFrame(x) = Holding(QuietFrame(w), p)
    BY DEF Holding, QuietFrame, Detectors
  <2> QED BY <1>3, <2>1 DEF ConsumeSilenceFrame, Result
<1>4. CASE Reaches(frame, StartPower) /\ run < MinSpeechSamples
  <2> DEFINE loud(v) == [v EXCEPT !.speechRun = run, !.candidateStart = candidate]
  <2>1. loud(x) = Holding(loud(w), p)
    BY DEF Holding, Detectors
  <2>2. ConsumeSilenceFrame(w, frame, start, end) = Result(loud(w), <<>>)
    BY <1>4 DEF ConsumeSilenceFrame
  <2>3. ConsumeSilenceFrame(x, frame, start, end) = Result(loud(x), <<>>)
    BY <1>1, <1>2, <1>4 DEF ConsumeSilenceFrame
  <2> HIDE DEF loud
  <2> QED BY <2>1, <2>2, <2>3 DEF Result
<1>5. CASE Reaches(frame, StartPower) /\ ~(run < MinSpeechSamples)
  <2> DEFINE number == w.version + 1
             open(v) == [v EXCEPT !.state = "speech", !.version = number,
                                  !.activeStart = candidate, !.speechRun = 0,
                                  !.candidateStart = None, !.silenceRun = 0]
             es == <<Event("speech_started", candidate, end, number, "energy")>>
  <2>1. open(x) = Holding(open(w), p)
    BY DEF Holding, Detectors
  <2>2. ConsumeSilenceFrame(w, frame, start, end) = Result(open(w), es)
    BY <1>5 DEF ConsumeSilenceFrame
  <2>3. ConsumeSilenceFrame(x, frame, start, end) = Result(open(x), es)
    BY <1>1, <1>2, <1>5 DEF ConsumeSilenceFrame
  <2> HIDE DEF open, es
  <2> QED BY <2>1, <2>2, <2>3 DEF Result
<1> QED BY <1>3, <1>4, <1>5

\* and in speech,
LEMMA SpeechIgnoresPending ==
  ASSUME NEW w \in Detectors, NEW p \in Seq(Amplitudes), NEW frame,
         NEW start \in Nat, NEW end \in Nat
  PROVE  LET r == ConsumeSpeechFrame(w, frame, start, end)
             s == ConsumeSpeechFrame(Holding(w, p), frame, start, end)
         IN  s.events = r.events /\ s.vad = Holding(r.vad, p)
<1> DEFINE x == Holding(w, p)
           run == w.silenceRun + (end - start)
           candidate == CandidateEnd(w, start)
<1>1. /\ x.silenceRun = w.silenceRun /\ x.candidateEnd = w.candidateEnd
      /\ x.version = w.version
  BY DEF Holding, Detectors
<1>2. CandidateEnd(x, start) = candidate
  BY <1>1 DEF CandidateEnd
<1>3. CASE SpeechGoesOn(frame)
  <2> DEFINE loud(v) == [v EXCEPT !.silenceRun = 0, !.candidateEnd = None]
  <2>1. loud(x) = Holding(loud(w), p)
    BY DEF Holding, Detectors
  <2> QED BY <1>3, <2>1 DEF ConsumeSpeechFrame, Result
<1>4. CASE ~SpeechGoesOn(frame) /\ run < MinSilenceSamples
  <2> DEFINE quiet(v) == [v EXCEPT !.silenceRun = run, !.candidateEnd = candidate]
  <2>1. quiet(x) = Holding(quiet(w), p)
    BY DEF Holding, Detectors
  <2>2. ConsumeSpeechFrame(w, frame, start, end) = Result(quiet(w), <<>>)
    BY <1>4 DEF ConsumeSpeechFrame
  <2>3. ConsumeSpeechFrame(x, frame, start, end) = Result(quiet(x), <<>>)
    BY <1>1, <1>2, <1>4 DEF ConsumeSpeechFrame
  <2> HIDE DEF quiet
  <2> QED BY <2>1, <2>2, <2>3 DEF Result
<1>5. CASE ~SpeechGoesOn(frame) /\ ~(run < MinSilenceSamples)
  <2> DEFINE number == w.version + 1
             close(v) == [v EXCEPT !.state = "silence", !.version = number,
                                   !.activeStart = None, !.silenceRun = 0,
                                   !.candidateEnd = None, !.speechRun = 0]
             es == <<Event("speech_ended", candidate, end, number, "energy")>>
  <2>1. close(x) = Holding(close(w), p)
    BY DEF Holding, Detectors
  <2>2. ConsumeSpeechFrame(w, frame, start, end) = Result(close(w), es)
    BY <1>5 DEF ConsumeSpeechFrame
  <2>3. ConsumeSpeechFrame(x, frame, start, end) = Result(close(x), es)
    BY <1>1, <1>2, <1>5 DEF ConsumeSpeechFrame
  <2> HIDE DEF close, es
  <2> QED BY <2>1, <2>2, <2>3 DEF Result
<1> QED BY <1>3, <1>4, <1>5

\* so in either state.
LEMMA FrameIgnoresPending ==
  ASSUME NEW v \in Detectors, NEW p \in Seq(Amplitudes), NEW frame, Len(frame) \in Nat
  PROVE  LET r == ConsumeFrame(v, frame)
             s == ConsumeFrame(Holding(v, p), frame)
         IN  s.events = r.events /\ s.vad = Holding(r.vad, p)
<1> DEFINE end == v.processed + Len(frame)
           u == Holding(v, p)
           w == [v EXCEPT !.processed = end]
           x == [u EXCEPT !.processed = end]
<1>1. end \in Nat /\ v.processed \in Nat
  BY DEF Detectors
<1>2. u.processed = v.processed /\ u.state = v.state
  BY DEF Holding, Detectors
<1>3. w \in Detectors /\ x = Holding(w, p)
  BY <1>1 DEF Holding, Detectors
<1>4. ConsumeFrame(v, frame) = IF v.state = "silence"
                               THEN ConsumeSilenceFrame(w, frame, v.processed, end)
                               ELSE ConsumeSpeechFrame(w, frame, v.processed, end)
  BY DEF ConsumeFrame
<1>5. ConsumeFrame(u, frame) = IF v.state = "silence"
                               THEN ConsumeSilenceFrame(x, frame, v.processed, end)
                               ELSE ConsumeSpeechFrame(x, frame, v.processed, end)
  BY <1>2 DEF ConsumeFrame
<1> HIDE DEF end, u, w, x
<1>6. CASE v.state = "silence"
  BY <1>1, <1>3, <1>4, <1>5, <1>6, SilenceIgnoresPending DEF u
<1>7. CASE v.state # "silence"
  BY <1>1, <1>3, <1>4, <1>5, <1>7, SpeechIgnoresPending DEF u
<1> QED BY <1>6, <1>7

\* The stream up to the pending samples has been fed, and they are its last
\* samples.
FedTo(h, v, es) ==
  /\ h \in Seq(Int)
  /\ Len(v.pending) <= Len(h)
  /\ \A j \in 1..Len(v.pending) : h[Len(h) - Len(v.pending) + j] = v.pending[j]
  /\ Fed(h)[Len(h) - Len(v.pending)] = Result(Holding(v, <<>>), es)

FedInv == FedTo(history, vad, events)

\* Between the calls feeding the pending samples as well catches up with the
\* detector.
LEMMA CaughtUp ==
  ASSUME VadInv, FedInv, ~InLoop
  PROVE  Fed(history)[Len(history)] = Result(vad, events)
<1> DEFINE n == Len(history)
           p == vad.pending
           m == Len(p)
           k == n - m
           v == Holding(vad, <<>>)
<1>1. /\ vad \in Detectors /\ events \in Seq(EventSet) /\ p \in Seq(Amplitudes)
      /\ history \in Seq(Int) /\ <<>> \in Seq(Amplitudes)
  BY DEF VadInv, Consistent, Detectors, FedInv, FedTo
<1>2. n \in Nat /\ m \in Nat /\ m <= n /\ FrameSamples \in Nat /\ m < FrameSamples
  BY <1>1, VadAssumption DEF FedInv, FedTo, InLoop
<1>3. k \in Nat /\ k + m = n
  BY <1>2
<1>4. v \in Detectors /\ v.pending = <<>> /\ Holding(v, p) = vad
  <2>1. Holding(v, p) = Holding(vad, p) /\ Holding(vad, p) = vad
    BY <1>1, HoldingFields
  <2> QED BY <1>1, <2>1, HoldingFields
<1>5. Fed(history)[k] = Result(v, events) /\ \A j \in 1..m : history[k + j] = p[j]
  BY DEF FedInv, FedTo
<1> HIDE DEF k, v, p
<1>6. Fed(history)[k + Len(p)] = Result(Holding(v, p), events)
  BY <1>1, <1>2, <1>3, <1>4, <1>5, FeedPending
<1> QED BY <1>3, <1>4, <1>6

LEMMA FreshFed == FedTo(<<>>, Fresh, <<>>)
<1>1. /\ <<>> \in Seq(Int) /\ Len(<<>>) = 0 /\ Fresh.pending = <<>>
      /\ Holding(Fresh, <<>>) = Fresh
  BY DEF Fresh, Holding
<1>2. Fed(<<>>)[0] = Result(Fresh, <<>>)
  BY <1>1, FedRecursion
<1> QED BY <1>1, <1>2 DEF FedTo

LEMMA FedInit == Init => FedInv
BY FreshFed DEF Init, FedInv

\* Samples put behind the pending ones are not fed yet.
LEMMA ProcessFeeds ==
  ASSUME VadInv, FedInv, NEW a \in Inputs, Process(a)
  PROVE  FedInv'
<1> DEFINE h == history
           n == Len(h)
           p == vad.pending
           m == Len(p)
           q == p \o a
           g == h \o a
<1>1. /\ vad \in Detectors /\ p \in Seq(Amplitudes) /\ h \in Seq(Int)
      /\ a \in Seq(Amplitudes) /\ a \in Seq(Int) /\ <<>> \in Seq(Amplitudes)
  <2>1. /\ vad \in Detectors /\ p \in Seq(Amplitudes) /\ h \in Seq(Int)
        /\ a \in Seq(Amplitudes) /\ Amplitudes \subseteq Nat
    BY VadAssumption DEF VadInv, Consistent, Detectors, FedInv, FedTo
  <2>2. a \in Seq(Int)
    <3>1. Len(a) \in Nat /\ a \in [1..Len(a) -> Amplitudes] /\ Amplitudes \subseteq Int
      BY <2>1
    <3>2. a \in [1..Len(a) -> Int]
      BY <3>1
    <3> QED BY <3>1, <3>2, SeqDef
  <2>3. <<>> \in Seq(Amplitudes)
    OBVIOUS
  <2> QED BY <2>1, <2>2, <2>3, Zenon
<1>2. vad' = Holding(vad, q) /\ events' = events /\ history' = g
  BY DEF Process, Pending, Holding
<1>3. /\ m \in Nat /\ n \in Nat /\ m <= n /\ Len(a) \in Nat
      /\ \A j \in 1..m : h[n - m + j] = p[j]
      /\ Fed(h)[n - m] = Result(Holding(vad, <<>>), events)
  <2>1. m \in Nat /\ n \in Nat /\ Len(a) \in Nat
    BY <1>1
  <2> QED BY <2>1, Zenon DEF FedInv, FedTo
<1>4. /\ q \in Seq(Amplitudes) /\ Len(q) = m + Len(a)
      /\ \A j \in 1..m + Len(a) : q[j] = IF j <= m THEN p[j] ELSE a[j - m]
  BY <1>1, ConcatProperties
<1>5. /\ g \in Seq(Int) /\ Len(g) = n + Len(a)
      /\ \A j \in 1..n + Len(a) : g[j] = IF j <= n THEN h[j] ELSE a[j - n]
  BY <1>1, ConcatProperties
<1>6. n - m \in 0..n /\ Len(g) - Len(q) = n - m
  BY <1>3, <1>4, <1>5
<1>7. Fed(g)[n - m] = Fed(h)[n - m]
  BY <1>1, <1>6, FedExtends
<1>8. vad'.pending = q /\ Holding(vad', <<>>) = Holding(vad, <<>>)
  BY <1>1, <1>2, <1>4, HoldingFields
<1> HIDE DEF g, q, p, h
<1>9. ASSUME NEW j \in 1..Len(q) PROVE g[n - m + j] = q[j]
  <2>1. CASE j <= m
    <3>1. j \in 1..m /\ n - m + j \in 1..n + Len(a) /\ n - m + j <= n
      BY <1>3, <1>4, <2>1
    <3> QED BY <1>3, <1>4, <1>5, <2>1, <3>1
  <2>2. CASE ~(j <= m)
    <3>1. n - m + j \in 1..n + Len(a) /\ ~(n - m + j <= n) /\ (n - m + j) - n = j - m
      BY <1>3, <1>4, <2>2
    <3> QED BY <1>4, <1>5, <2>2, <3>1
  <2> QED BY <2>1, <2>2
<1>10. FedTo(g, vad', events')
  <2>1. Len(q) <= Len(g)
    BY <1>3, <1>4, <1>5
  <2>2. \A j \in 1..Len(q) : g[Len(g) - Len(q) + j] = q[j]
    BY <1>6, <1>9
  <2>3. Fed(g)[Len(g) - Len(q)] = Result(Holding(vad', <<>>), events')
    BY <1>2, <1>3, <1>6, <1>7, <1>8
  <2> QED BY <1>5, <1>8, <2>1, <2>2, <2>3 DEF FedTo
<1> QED BY <1>2, <1>10 DEF FedInv

\* A frame consumed in the loop is the frame that feeding its last sample
\* consumes.
LEMMA FrameFeeds ==
  ASSUME VadInv, FedInv, ProcessFrame
  PROVE  FedInv'
<1> DEFINE h == history
           n == Len(h)
           p == vad.pending
           m == Len(p)
           k == n - m
           frame == SubSeq(p, 1, FrameSamples)
           rest == SubSeq(p, FrameSamples + 1, m)
           v == Holding(vad, <<>>)
           u == Holding(vad, rest)
           r == ConsumeFrame(v, frame)
           s == ConsumeFrame(u, frame)
<1>1. /\ vad \in Detectors /\ p \in Seq(Amplitudes) /\ h \in Seq(Int)
      /\ events \in Seq(EventSet) /\ <<>> \in Seq(Amplitudes) /\ Consistent(vad, events)
  BY DEF VadInv, Consistent, Detectors, FedInv, FedTo
<1>2. /\ frame \in Seq(Amplitudes) /\ rest \in Seq(Amplitudes)
      /\ Len(frame) = FrameSamples /\ Len(frame) \in 1..FrameSamples
      /\ Len(rest) = m - FrameSamples /\ p = frame \o rest
  BY <1>1, LoopConsumes
<1>3. vad' = s.vad /\ events' = events \o s.events /\ history' = h
  BY DEF ProcessFrame, Holding
<1>4. /\ m \in Nat /\ n \in Nat /\ m <= n /\ FrameSamples \in Nat \ {0}
      /\ Len(rest) \in Nat /\ k \in Nat
      /\ \A j \in 1..m : h[k + j] = p[j]
      /\ Fed(h)[k] = Result(v, events)
  <2>1. m \in Nat /\ n \in Nat /\ m <= n /\ FrameSamples \in Nat \ {0} /\ Len(rest) \in Nat
    BY <1>1, <1>2, VadAssumption DEF FedInv, FedTo
  <2>2. k \in Nat
    BY <2>1
  <2> QED BY <2>1, <2>2 DEF FedInv, FedTo
<1>5. v \in Detectors /\ v.pending = <<>> /\ Holding(v, rest) = u
  BY <1>1, HoldingFields
<1>6. Consistent(v, events)
  BY <1>1, PendingKeeps DEF Holding
<1> HIDE DEF frame, rest, v, u, h, p
<1>7. /\ \A j \in 1..FrameSamples : frame[j] = p[j]
      /\ \A j \in 1..Len(rest) : rest[j] = p[FrameSamples + j]
  <2>1. \A j \in 1..Len(frame) + Len(rest) :
          p[j] = IF j <= Len(frame) THEN frame[j] ELSE rest[j - Len(frame)]
    BY <1>2, ConcatProperties
  <2>2. ASSUME NEW j \in 1..Len(rest) PROVE rest[j] = p[FrameSamples + j]
    <3>1. /\ FrameSamples + j \in 1..Len(frame) + Len(rest)
          /\ ~(FrameSamples + j <= Len(frame)) /\ (FrameSamples + j) - Len(frame) = j
      BY <1>2, <1>4
    <3> QED BY <2>1, <3>1
  <2>3. ASSUME NEW j \in 1..FrameSamples PROVE frame[j] = p[j]
    BY <1>2, <1>4, <2>1
  <2> QED BY <2>2, <2>3
<1> HIDE DEF k
<1>8. /\ FrameSamples <= m /\ k + m = n
      /\ k + FrameSamples \in Nat /\ k + FrameSamples <= n
      /\ Len(rest) <= n /\ n - Len(rest) = k + FrameSamples
  <2>1. Len(rest) = m - FrameSamples
    BY <1>2
  <2>2. m \in Nat /\ n \in Nat /\ m <= n /\ FrameSamples \in Nat /\ Len(rest) \in Nat
    BY <1>4
  <2> HIDE DEF n, m
  <2> QED BY <2>1, <2>2 DEF k
<1>9. Fed(h)[k + FrameSamples] = Result(r.vad, events \o r.events)
  <2>1. frame \in Seq(Amplitudes) /\ Len(frame) = FrameSamples /\ k + Len(frame) <= Len(h)
    BY <1>2, <1>8
  <2>2. ASSUME NEW j \in 1..Len(frame) PROVE h[k + j] = frame[j]
    <3>1. j \in 1..m /\ j \in 1..FrameSamples
      BY <1>4, <1>8, <2>1
    <3> QED BY <1>4, <1>7, <3>1
  <2>3. /\ k \in Nat /\ h \in Seq(Int) /\ events \in Seq(EventSet)
        /\ Fed(h)[k] = Result(v, events) /\ v \in Detectors /\ v.pending = <<>>
    BY <1>1, <1>4, <1>5
  <2> QED BY <2>1, <2>2, <2>3, FeedFrame
<1>10. s.events = r.events /\ s.vad = Holding(r.vad, rest)
  BY <1>2, <1>4, <1>5, FrameIgnoresPending
<1>11. r.vad \in Detectors /\ r.vad.pending = <<>>
  <2>1. Consistent(r.vad, events \o r.events) /\ r.vad.pending = v.pending
    BY <1>2, <1>6, FrameKeeps
  <2> QED BY <1>5, <2>1 DEF Consistent
<1> HIDE DEF r, s
<1>12. vad'.pending = rest /\ Holding(vad', <<>>) = r.vad
  <2> DEFINE x == r.vad
  <2>1. x \in Detectors /\ x.pending = <<>> /\ vad' = Holding(x, rest)
    BY <1>3, <1>10, <1>11
  <2>2. rest \in Seq(Amplitudes) /\ <<>> \in Seq(Amplitudes)
    BY <1>1, <1>2
  <2> HIDE DEF x
  <2>3. vad'.pending = rest /\ Holding(vad', <<>>) = Holding(x, <<>>)
    BY <2>1, <2>2, HoldingFields
  <2>4. Holding(x, <<>>) = x
    BY <2>1, <2>2, HoldingFields
  <2> QED BY <2>3, <2>4 DEF x
<1>13. FedTo(h, vad', events')
  <2>1. Len(rest) <= n /\ n - Len(rest) = k + FrameSamples
    BY <1>8
  <2>2. ASSUME NEW j \in 1..Len(rest) PROVE h[n - Len(rest) + j] = rest[j]
    <3>0. /\ k \in Nat /\ m \in Nat /\ n \in Nat /\ FrameSamples \in Nat
          /\ Len(rest) \in Nat /\ k + m = n
      BY <1>4, <1>8
    <3>1. FrameSamples + j \in 1..m /\ n - Len(rest) + j = k + (FrameSamples + j)
      <4> HIDE DEF n, m
      <4> QED BY <2>1, <3>0
    <3> QED BY <1>4, <1>7, <3>1
  <2>3. Fed(h)[n - Len(rest)] = Result(Holding(vad', <<>>), events')
    BY <1>3, <1>9, <1>10, <1>12, <2>1
  <2> QED BY <1>1, <1>12, <2>1, <2>2, <2>3 DEF FedTo
<1> QED BY <1>3, <1>13 DEF FedInv

\* flush() does to the detector what it does in the history.
LEMMA FlushFeeds ==
  ASSUME VadInv, FedInv, Flush
  PROVE  FedInv'
<1> DEFINE h == history
           n == Len(h)
           g == Append(h, FlushMark)
           f == Flushed(vad)
<1>1. /\ vad \in Detectors /\ h \in Seq(Int) /\ events \in Seq(EventSet)
      /\ FlushMark \in Int /\ n \in Nat /\ Consistent(vad, events)
  BY DEF VadInv, Consistent, FedInv, FedTo, FlushMark
<1>2. vad' = f.vad /\ events' = events \o f.events /\ history' = g /\ ~InLoop
  BY DEF Flush
<1>3. g \in Seq(Int) /\ Len(g) = n + 1 /\ g[n + 1] = FlushMark
  BY <1>1, AppendProperties
<1>4. Fed(g)[n] = Result(vad, events)
  <2>1. g = h \o <<FlushMark>> /\ <<FlushMark>> \in Seq(Int) /\ n \in 0..n
    BY <1>1, AppendIsConcat
  <2>2. Fed(g)[n] = Fed(h)[n]
    BY <1>1, <2>1, FedExtends
  <2> QED BY <1>2, <2>2, CaughtUp
<1>5. Fed(g)[n + 1] = FeedOne(Fed(g)[n], FlushMark)
  <2> HIDE DEF g
  <2>1. \A i \in 1..Len(g) : Fed(g)[i] = FeedOne(Fed(g)[i-1], g[i])
    BY <1>3, FedRecursion
  <2>2. n + 1 \in 1..Len(g) /\ (n + 1) - 1 = n
    BY <1>1, <1>3
  <2> QED BY <1>3, <2>1, <2>2
<1> HIDE DEF f, g
<1>6. FeedOne(Result(vad, events), FlushMark) = Result(f.vad, events \o f.events)
  <2>1. Result(vad, events).vad = vad /\ Result(vad, events).events = events
    BY DEF Result
  <2> QED BY <2>1 DEF FeedOne, f
<1>7. f.vad \in Detectors /\ f.vad.pending = <<>>
  <2>1. PICK r : /\ Flushed(vad) = CloseSegment(r.vad, r.events)
                 /\ Consistent(r.vad, events \o r.events) /\ r.events \in Seq(EventSet)
                 /\ r.vad.pending = <<>>
    BY <1>1, FlushConsumes
  <2>2. r.vad \in Detectors
    BY <2>1 DEF Consistent
  <2>3. CloseSegment(r.vad, r.events).vad.pending = <<>>
    BY <2>1, <2>2, CloseOutcome
  <2>4. VadInv'
    BY VadStep DEF Next
  <2> QED BY <1>2, <2>1, <2>3, <2>4 DEF f, VadInv, Consistent
<1>8. Holding(f.vad, <<>>) = f.vad
  <2>1. <<>> \in Seq(Amplitudes)
    OBVIOUS
  <2> QED BY <1>7, <2>1, HoldingFields
<1>9. FedTo(g, f.vad, events \o f.events)
  <2>1. Len(f.vad.pending) = 0 /\ Len(g) - 0 = n + 1 /\ Len(g) \in Nat
    BY <1>1, <1>3, <1>7
  <2> QED BY <1>1, <1>3, <1>4, <1>5, <1>6, <1>8, <2>1 DEF FedTo
<1> QED BY <1>2, <1>9 DEF FedInv

LEMMA FedStep == VadInv /\ FedInv /\ [Next]_vars => FedInv'
<1> SUFFICES ASSUME VadInv, FedInv, [Next]_vars PROVE FedInv'
  OBVIOUS
<1>1. CASE Reset
  BY <1>1, FreshFed DEF Reset, FedInv
<1>2. CASE UNCHANGED vars
  BY <1>2 DEF vars, FedInv
<1> QED BY <1>1, <1>2, ProcessFeeds, FrameFeeds, FlushFeeds DEF Next

-----------------------------------------------------------------------------
(* Theorems *)

\* The fields of the detector and its events keep their types, whatever is
\* processed and flushed.
THEOREM DetectorTyped == Spec => []TypeOK
<1>1. VadInv => TypeOK
  BY DEF VadInv, Consistent, Detectors, TypeOK
<1> QED BY <1>1, VadInvariant, PTL

\* process() and flush() report starts and ends in turn, numbered from one, and
\* the detector is in speech exactly when the last report was a start.
THEOREM EventsAlwaysAlternate == Spec => []EventsAlternate
<1>1. VadInv => EventsAlternate
  BY DEF VadInv, Consistent, Account, InSegment, EventsAlternate
<1> QED BY <1>1, VadInvariant, PTL

\* Segments never overlap, no boundary lies after the sample at which it was
\* decided, and active_start is the offset of the start that was reported.
THEOREM SegmentsStayDisjoint == Spec => []SegmentsDisjoint
<1>1. VadInv => SegmentsDisjoint
  BY DEF VadInv, Consistent, Account, DecidedBy, SegmentsDisjoint
<1> QED BY <1>1, VadInvariant, PTL

\* Every boundary waited for its minimum duration and for less than one frame
\* more, for every frame length and both durations; only flush() does not wait.
THEOREM BoundariesStayDebounced == Spec => []Debounced
<1>1. VadInv => Debounced
  <2> SUFFICES ASSUME VadInv, NEW i \in 1..Len(events) PROVE InTime(events[i])
    BY DEF Debounced, InTime
  <2> QED BY DEF VadInv, Consistent, Account
<1> QED BY <1>1, VadInvariant, PTL

\* Hysteresis: a start is announced only over audio that reaches the upper
\* threshold, and an end by energy only over audio below the lower one.
THEOREM BoundariesStayJustified == Spec => []BoundariesJustified
<1>1. VadInv /\ AudioInv => BoundariesJustified
  <2> SUFFICES ASSUME VadInv, AudioInv, NEW i \in 1..Len(events)
               PROVE  BornOut(heard, events[i])
    BY DEF BoundariesJustified, BornOut
  <2>1. PICK c : Justified(c, vad, events) /\ heard = c \o vad.pending
    BY DEF AudioInv
  <2>2. /\ c \in Seq(Amplitudes) /\ vad.pending \in Seq(Amplitudes)
        /\ events \in Seq(EventSet) /\ Len(c) = vad.processed
    BY <2>1 DEF VadInv, Consistent, Detectors, Justified
  <2>3. /\ events[i].offset <= events[i].observed /\ events[i].observed <= Len(c)
        /\ BornOut(c, events[i])
    BY <2>1, <2>2 DEF VadInv, Consistent, Account, DecidedBy, Justified
  <2>4. events[i] \in EventSet
    BY <2>2
  <2> QED BY <2>1, <2>2, <2>3, <2>4, BornOutLater
<1> QED BY <1>1, VadInvariant, AudioInit, AudioStep, PTL DEF Spec

\* Chunking is invisible: whatever the calls process() is fed by, between calls
\* the detector and all its events are those of the same stream fed sample by
\* sample with the same flushes.
THEOREM ChunkingStaysInvisible == Spec => []ChunkingInvisible
<1>1. VadInv /\ FedInv => ChunkingInvisible
  BY CaughtUp DEF ChunkingInvisible
<1> QED BY <1>1, VadInvariant, VadStep, FedInit, FedStep, PTL DEF Spec
=============================================================================
