----------------------- MODULE StreamingSessionProofs -----------------------
(***************************************************************************)
(* Proofs about StreamingSession for every value of its constants.         *)
(*                                                                         *)
(* A step of the session is one of ten kinds (StepKinds); each invariance  *)
(* proof goes through them.                                                *)
(* That no audio is lost between frames and verifier passes is proved with *)
(* the cut points of the stream as the witness (Divides).                  *)
(***************************************************************************)
EXTENDS StreamingSession, SequenceTheorems, TLAPS

-----------------------------------------------------------------------------
(* The newest elements of a sequence *)

\* What the trimming of AudioRingBuffer.append and the evictions of the two
\* caches keep: as much of the end of the sequence as fits.
LEMMA NewestKeeps ==
  ASSUME NEW S, NEW s \in Seq(S), NEW capacity \in Nat
  PROVE  /\ Newest(s, capacity) \in Seq(S)
         /\ Len(Newest(s, capacity)) = IF Len(s) <= capacity THEN Len(s) ELSE capacity
         /\ \A i \in 1..Len(Newest(s, capacity)) :
              Newest(s, capacity)[i] = s[Len(s) - Len(Newest(s, capacity)) + i]
<1>1. CASE Len(s) <= capacity
  BY <1>1 DEF Newest
<1>2. CASE ~(Len(s) <= capacity)
  <2> DEFINE first == Len(s) - capacity + 1
  <2>1. Newest(s, capacity) = SubSeq(s, first, Len(s))
    BY <1>2 DEF Newest
  <2>2. first \in 1..Len(s) + 1 /\ Len(s) \in Nat /\ Len(s) - first + 1 = capacity
    BY <1>2
  <2>3. /\ SubSeq(s, first, Len(s)) \in Seq(S)
        /\ Len(SubSeq(s, first, Len(s))) = capacity
        /\ \A i \in 1..capacity : SubSeq(s, first, Len(s))[i] = s[first + i - 1]
    BY <2>2
  <2> QED BY <2>1, <2>2, <2>3, <1>2
<1> QED BY <1>1, <1>2

\* An element of a typed sequence has the type.
LEMMA ElementTyped ==
  ASSUME NEW S, NEW s \in Seq(S), NEW i \in 1..Len(s)
  PROVE  s[i] \in S
OBVIOUS

-----------------------------------------------------------------------------
(* The kinds of steps *)

\* A frame, or one more partial hypothesis with it.
Decodes ==
  \E seq \in FrameSequences, p \in Payloads, h \in Hypotheses :
    \/ IngestAccepted(seq, p, log)
    \/ /\ h.stage = Partial
       /\ Appendable(log, h)
       /\ IngestAccepted(seq, p, Append(log, h))

DecodingFails ==
  \E seq \in FrameSequences, p \in Payloads : IngestFailed(seq, p)

FinalizingFails == ~FlushRefused /\ FinalizeFails

Finishes(endState, bump) ==
  ~FlushRefused /\ \E l \in FinishedLogs : UtteranceClosed(l, endState, bump)

GetsStuck ==
  ~FlushRefused /\ \E l \in FinishedLogs : UtteranceStuck(l)

Renews ==
  \E id \in ResetIds : ResetApplied(id, stateVersion, generation)

RenewalRaises ==
  \E id \in ResetIds : ResetRaised(id, stateVersion, generation)

\* The payload of a call that reaches the recognizer is a frame.
LEMMA DecodedIsFrame ==
  ASSUME NEW seq \in FrameSequences, NEW p \in Payloads \cup {<<>>},
         IngestVerdict(seq, p) = "decode"
  PROVE  p \in Payloads
BY DEF IngestVerdict

\* Every call of a client or of the server is a step of one of ten kinds.
LEMMA StepKinds ==
  ASSUME Next
  PROVE  \/ Unchanged
         \/ Decodes
         \/ DecodingFails
         \/ FinalizingFails
         \/ Finishes("ready", 1)
         \/ Finishes("closed", 2)
         \/ (GetsStuck /\ reply'.outcome = "raised")
         \/ Renews
         \/ (RenewalRaises /\ reply'.outcome = "raised")
         \/ StopWithoutFlush
<1>1. ASSUME NEW seq \in FrameSequences, NEW p \in Payloads \cup {<<>>}, Ingest(seq, p)
      PROVE  Unchanged \/ Decodes \/ DecodingFails
  <2>1. CASE IngestAnswered(seq, p)
    BY <2>1 DEF IngestAnswered
  <2>2. CASE IngestAccepted(seq, p, log)
    <3>1. p \in Payloads
      BY <2>2, DecodedIsFrame DEF IngestAccepted
    <3>2. [stage |-> Partial, text |-> Blank] \in Hypotheses
      BY TextAssumption DEF Hypotheses, Stages
    <3> QED BY <2>2, <3>1, <3>2 DEF Decodes
  <2>3. ASSUME NEW h \in Hypotheses, h.stage = Partial, Appendable(log, h),
               IngestAccepted(seq, p, Append(log, h))
        PROVE  Decodes
    <3>1. p \in Payloads
      BY <2>3, DecodedIsFrame DEF IngestAccepted
    <3> QED BY <2>3, <3>1 DEF Decodes
  <2>4. CASE IngestFailed(seq, p)
    <3>1. p \in Payloads
      BY <2>4, DecodedIsFrame DEF IngestFailed
    <3> QED BY <2>4, <3>1 DEF DecodingFails
  <2> QED BY <1>1, <2>1, <2>2, <2>3, <2>4 DEF Ingest
<1>2. ASSUME NEW g, Flush(g)
      PROVE  \/ Unchanged \/ FinalizingFails \/ Finishes("ready", 1)
             \/ (GetsStuck /\ reply'.outcome = "raised")
  BY <1>2 DEF Flush, FinalizingFails, Finishes, GetsStuck, Answer
<1>3. ASSUME NEW id \in ResetIds \cup {BadId}, NEW v, NEW g, Reset(id, v, g)
      PROVE  Unchanged \/ Renews \/ (RenewalRaises /\ reply'.outcome = "raised")
  <2>1. CASE ResetReplayed(id)
    BY <2>1 DEF ResetReplayed
  <2>2. CASE ResetRefused(id, v, g)
    BY <2>2 DEF ResetRefused
  <2>3. CASE ResetInvalid(id, v, g)
    BY <2>3 DEF ResetInvalid
  <2>4. CASE ResetApplied(id, v, g)
    BY <2>4 DEF ResetApplied, ResetAdmitted, Renews
  <2>5. CASE ResetRaised(id, v, g)
    <3>1. id \in ResetIds /\ v = stateVersion /\ g = generation
      BY <2>5 DEF ResetRaised, ResetAdmitted
    <3>2. reply'.outcome = "raised"
      BY <2>5 DEF ResetRaised, Answer
    <3> QED BY <2>5, <3>1, <3>2 DEF RenewalRaises
  <2> QED BY <1>3, <2>1, <2>2, <2>3, <2>4, <2>5 DEF Reset
<1>4. ASSUME Stop
      PROVE  \/ Unchanged \/ FinalizingFails \/ Finishes("closed", 2)
             \/ (GetsStuck /\ reply'.outcome = "raised") \/ StopWithoutFlush
  BY <1>4 DEF Stop, StopClosed, StopWithFlush, FinalizingFails, Finishes,
              GetsStuck, Answer
<1> QED BY <1>1, <1>2, <1>3, <1>4 DEF Next
-----------------------------------------------------------------------------
(* Types *)

\* The entries of the list of finished utterances.
Utterances == [utterance : Nat, items : Seq(Hypotheses), audio : Seq(Samples)]

\* The entries of the fingerprint window.
Fingerprints == [seq : Nat, digest : { Digest[p] : p \in Payloads }]

\* Every call answers with one of the outcomes.
LEMMA RepliesTyped ==
  ASSUME Next
  PROVE  reply' \in [op : Operations, outcome : Outcomes]
<1>1. ASSUME NEW seq, NEW p, Ingest(seq, p)
      PROVE  reply' \in [op : Operations, outcome : Outcomes]
  <2>1. IngestVerdict(seq, p) \in Outcomes \cup {"decode"}
    BY DEF IngestVerdict, Outcomes
  <2>2. CASE IngestAnswered(seq, p)
    BY <2>1, <2>2 DEF IngestAnswered, Answer, Operations
  <2>3. ASSUME NEW l, IngestAccepted(seq, p, l)
        PROVE  reply' \in [op : Operations, outcome : Outcomes]
    BY <2>3 DEF IngestAccepted, Answer, Operations, Outcomes
  <2>4. CASE IngestFailed(seq, p)
    BY <2>4 DEF IngestFailed, Answer, Operations, Outcomes
  <2> QED BY <1>1, <2>2, <2>3, <2>4 DEF Ingest
<1>2. ASSUME NEW g, Flush(g)
      PROVE  reply' \in [op : Operations, outcome : Outcomes]
  BY <1>2 DEF Flush, Answer, Operations, Outcomes
<1>3. ASSUME NEW id, NEW v, NEW g, Reset(id, v, g)
      PROVE  reply' \in [op : Operations, outcome : Outcomes]
  BY <1>3 DEF Reset, ResetReplayed, ResetRefused, ResetInvalid, ResetApplied,
              ResetRaised, Answer, Operations, Outcomes
<1>4. ASSUME Stop
      PROVE  reply' \in [op : Operations, outcome : Outcomes]
  BY <1>4 DEF Stop, StopClosed, StopWithoutFlush, StopWithFlush, Answer,
              Operations, Outcomes
<1> QED BY <1>1, <1>2, <1>3, <1>4 DEF Next

\* What a flush leaves in the log is a sequence of hypotheses that ends with a
\* final one.
LEMMA FinishedLogsTyped ==
  ASSUME TypeOK, NEW l \in FinishedLogs
  PROVE  l \in Seq(Hypotheses) /\ l # <<>>
<1>1. PICK h \in Hypotheses : \E v \in VerifierEntries(h) : l = Append(log, h) \o v
  BY DEF FinishedLogs
<1>0. PICK v \in VerifierEntries(h) : l = Append(log, h) \o v
  BY <1>1
<1>2. [stage |-> StreamOnly, text |-> h.text] \in Hypotheses
  BY DEF Hypotheses, Stages
<1>3. \A t \in Texts : [stage |-> DualPassFinal, text |-> t] \in Hypotheses
  BY DEF Hypotheses, Stages
<1>4. v \in Seq(Hypotheses)
  <2>1. CASE v = <<>>
    BY <2>1
  <2>2. ASSUME NEW t \in Texts, v = <<[stage |-> DualPassFinal, text |-> t]>>
        PROVE  v \in Seq(Hypotheses)
    BY <1>3, <2>2
  <2>3. CASE v = <<[stage |-> StreamOnly, text |-> h.text]>>
    BY <1>2, <2>3
  <2> QED BY <2>1, <2>2, <2>3 DEF VerifierEntries, Fallback
<1>5. Append(log, h) \in Seq(Hypotheses) /\ Len(Append(log, h)) > 0
  BY DEF TypeOK
<1>6. l \in Seq(Hypotheses) /\ Len(l) = Len(Append(log, h)) + Len(v)
  BY <1>0, <1>4, <1>5
<1>7. Len(l) > 0
  BY <1>4, <1>5, <1>6
<1> QED BY <1>6, <1>7

\* The finished utterance a flush records is well typed.
LEMMA RecordedTyped ==
  ASSUME TypeOK, NEW l \in FinishedLogs
  PROVE  /\ completed \in Seq(Utterances)
         /\ [utterance |-> utterance, items |-> l, audio |-> audio] \in Utterances
BY FinishedLogsTyped DEF TypeOK, Utterances

\* The initial session is well typed.
LEMMA TypeInit == Init => TypeOK
<1> SUFFICES ASSUME Init PROVE TypeOK
  OBVIOUS
<1>1. reply \in [op : Operations, outcome : Outcomes]
  BY DEF Init, Operations, Outcomes
<1> QED BY <1>1 DEF Init, TypeOK, States, Serving

\* Every step keeps the types.
LEMMA TypeStep == TypeOK /\ [Next]_vars => TypeOK'
<1> SUFFICES ASSUME TypeOK, [Next]_vars PROVE TypeOK'
  OBVIOUS
<1>0. /\ audio \in Seq(Samples) /\ heard \in Seq(Samples)
      /\ accepted \in Seq(Payloads) /\ log \in Seq(Hypotheses)
      /\ received \in Seq(Samples) /\ <<>> \in Seq(Samples)
  BY DEF TypeOK
<1>1. CASE UNCHANGED vars
  BY <1>1 DEF TypeOK, vars
<1>2. CASE Next
  <2>0. reply' \in [op : Operations, outcome : Outcomes]
    BY <1>2, RepliesTyped
  <2>1. CASE Unchanged
    BY <2>0, <2>1 DEF TypeOK, Unchanged, stream, utteranceVars, epoch
  <2>2. CASE Decodes
    <3>1. PICK seq \in FrameSequences, p \in Payloads, h \in Hypotheses :
            \/ IngestAccepted(seq, p, log)
            \/ IngestAccepted(seq, p, Append(log, h))
      BY <2>2 DEF Decodes
    <3>2. log' \in Seq(Hypotheses)
      <4>1. log' \in {log, Append(log, h)}
        BY <3>1 DEF IngestAccepted
      <4>2. Append(log, h) \in Seq(Hypotheses)
        BY <1>0
      <4> QED BY <1>0, <4>1, <4>2, Zenon
    <3>3. p \in Seq(Samples) /\ Len(p) \in Nat
      BY SessionAssumption
    <3>4. nextSeq' = seq + 1 /\ seq = nextSeq
      BY <3>1 DEF IngestAccepted, IngestVerdict, FrameSequences, TypeOK
    <3>5. fingerprints' \in Seq(Fingerprints)
      <4>1. [seq |-> seq, digest |-> Digest[p]] \in Fingerprints
        BY <3>4 DEF TypeOK, Fingerprints
      <4>2. Append(fingerprints, [seq |-> seq, digest |-> Digest[p]]) \in Seq(Fingerprints)
        BY <4>1 DEF TypeOK, Fingerprints
      <4>3. fingerprints' = Newest(Append(fingerprints, [seq |-> seq, digest |-> Digest[p]]),
                                   FingerprintCapacity)
        BY <3>1 DEF IngestAccepted, Remember
      <4> QED BY <4>2, <4>3, NewestKeeps, SessionAssumption
    <3>6. audio' \in Seq(Samples)
      <4>1. audio \o p \in Seq(Samples)
        BY <3>3 DEF TypeOK
      <4>2. audio' = Newest(audio \o p, MaxUtteranceSamples)
        BY <3>1 DEF IngestAccepted, Buffered
      <4> QED BY <4>1, <4>2, NewestKeeps, SessionAssumption
    <3>7. heard' \in Seq(Samples) /\ accepted' \in Seq(Payloads) /\ received' \in Seq(Samples)
      <4>1. heard' = heard \o p /\ accepted' = Append(accepted, p) /\ received' = received \o p
        BY <3>1 DEF IngestAccepted
      <4> QED BY <1>0, <3>3, <4>1
    <3>8. /\ state' = "listening" /\ stateVersion' = stateVersion + 1
          /\ total' = total + Len(p) /\ nextSeq' = nextSeq + 1
          /\ UNCHANGED <<failedCode, completed, utterance, generation, resetCache>>
      BY <3>1 DEF IngestAccepted, epoch
    <3> QED BY <2>0, <3>2, <3>3, <3>5, <3>6, <3>7, <3>8 DEF TypeOK, States, Serving, Fingerprints
  <2>3. CASE DecodingFails
    <3>1. PICK seq \in FrameSequences, p \in Payloads : IngestFailed(seq, p)
      BY <2>3 DEF DecodingFails
    <3>2. p \in Seq(Samples)
      BY SessionAssumption
    <3>3. heard' \in Seq(Samples)
      <4>1. heard' \in {heard, heard \o p}
        BY <3>1 DEF IngestFailed
      <4>2. heard \o p \in Seq(Samples)
        BY <1>0, <3>2
      <4> QED BY <1>0, <4>1, <4>2, Zenon
    <3> QED BY <2>0, <3>1, <3>3 DEF IngestFailed, TypeOK, States, stream, utteranceVars, epoch
  <2>4. CASE FinalizingFails
    BY <2>0, <2>4 DEF FinalizingFails, FinalizeFails, TypeOK, States, stream,
                      utteranceVars, epoch
  <2>5. ASSUME NEW endState \in {"ready", "closed"}, NEW bump \in Nat, Finishes(endState, bump)
        PROVE  TypeOK'
    <3>1. PICK l \in FinishedLogs : UtteranceClosed(l, endState, bump)
      BY <2>5 DEF Finishes
    <3>2. /\ completed \in Seq(Utterances)
          /\ [utterance |-> utterance, items |-> l, audio |-> audio] \in Utterances
      BY RecordedTyped
    <3>3. completed' \in Seq(Utterances)
      BY <3>1, <3>2 DEF UtteranceClosed, CompleteUtterance
    <3>4. /\ audio' = <<>> /\ heard' = <<>> /\ log' = <<>>
          /\ utterance' = utterance + 1 /\ state' = endState
          /\ stateVersion' = stateVersion + bump
          /\ UNCHANGED <<failedCode, nextSeq, total, fingerprints, accepted, received,
                         generation, resetCache>>
      BY <3>1 DEF UtteranceClosed, CompleteUtterance, DecoderReset, NextUtterance,
                  stream, epoch
    <3> QED BY <2>0, <3>3, <3>4 DEF TypeOK, States, Serving, Utterances
  <2>6. CASE GetsStuck
    <3>1. PICK l \in FinishedLogs : UtteranceStuck(l)
      BY <2>6 DEF GetsStuck
    <3>2. l \in Seq(Hypotheses)
      BY FinishedLogsTyped
    <3>3. /\ completed \in Seq(Utterances)
          /\ [utterance |-> utterance, items |-> l, audio |-> audio] \in Utterances
      BY RecordedTyped
    <3>4. completed' \in Seq(Utterances)
      BY <3>1, <3>3 DEF UtteranceStuck, CompleteUtterance
    <3>5. /\ audio' = <<>> /\ heard' \in {heard, <<>>} /\ log' = l
          /\ state' = "draining"
          /\ UNCHANGED <<stateVersion, failedCode, utterance, nextSeq, total,
                         fingerprints, accepted, received, generation, resetCache>>
      BY <3>1 DEF UtteranceStuck, CompleteUtterance, stream, epoch
    <3>6. heard' \in Seq(Samples) /\ log' \in Seq(Hypotheses)
      BY <1>0, <3>2, <3>5, Zenon
    <3> QED BY <2>0, <3>4, <3>5, <3>6 DEF TypeOK, States, Utterances
  <2>7. CASE Renews
    <3>1. PICK id \in ResetIds : ResetApplied(id, stateVersion, generation)
      BY <2>7 DEF Renews
    <3>2. ResetResult(id) \in ResetResults
      BY DEF ResetResult, ResetResults, TypeOK
    <3>3. resetCache' \in Seq(ResetResults)
      <4>1. Append(resetCache, ResetResult(id)) \in Seq(ResetResults)
        BY <3>2 DEF TypeOK
      <4>2. resetCache' = Newest(Append(resetCache, ResetResult(id)), ResetCacheCapacity)
        BY <3>1 DEF ResetApplied
      <4> QED BY <4>1, <4>2, NewestKeeps, SessionAssumption
    <3> QED BY <2>0, <3>1, <3>3 DEF ResetApplied, NewStream, NextGeneration,
                                   DecoderReset, TypeOK, States, Serving
  <2>8. CASE RenewalRaises
    <3>1. /\ audio' = <<>> /\ heard' \in {heard, <<>>} /\ fingerprints' = <<>>
          /\ completed' = <<>>
          /\ UNCHANGED <<state, stateVersion, failedCode, nextSeq, total, accepted,
                         received, utterance, log, generation, resetCache>>
      BY <2>8 DEF RenewalRaises, ResetRaised, epoch
    <3>2. heard' \in Seq(Samples)
      BY <1>0, <3>1, Zenon
    <3> QED BY <2>0, <3>1, <3>2 DEF TypeOK
  <2>9. CASE StopWithoutFlush
    BY <2>0, <2>9 DEF StopWithoutFlush, CloseSession, TypeOK, States, stream, epoch
  <2> QED BY <1>2, <2>1, <2>2, <2>3, <2>4, <2>5, <2>6, <2>7, <2>8, <2>9, StepKinds
<1> QED BY <1>1, <1>2

\* The session is well typed whatever its clients and its backends do.
THEOREM TypeCorrect == Spec => []TypeOK
BY TypeInit, TypeStep, PTL DEF Spec

-----------------------------------------------------------------------------
(* Duplicates *)

\* The inductive form of FingerprintsFaithful: the next sequence counts the
\* frames of the generation.
FingerprintInv == nextSeq = Len(accepted) /\ FingerprintsFaithful

\* The fingerprint window is faithful at the start.
LEMMA FingerprintInit == Init => FingerprintInv
BY SessionAssumption DEF Init, FingerprintInv, FingerprintsFaithful

\* A committed frame enters the window and the oldest one leaves it.
LEMMA FingerprintDecode ==
  ASSUME TypeOK, FingerprintInv, Decodes
  PROVE  FingerprintInv'
<1>1. PICK seq \in FrameSequences, p \in Payloads, h \in Hypotheses :
        \/ IngestAccepted(seq, p, log)
        \/ IngestAccepted(seq, p, Append(log, h))
  BY DEF Decodes
<1> DEFINE fresh == [seq |-> nextSeq, digest |-> Digest[p]]
           grown == Append(fingerprints, fresh)
           n == Len(fingerprints)
           m == Len(fingerprints')
<1>2. /\ seq = nextSeq
      /\ nextSeq' = nextSeq + 1 /\ accepted' = Append(accepted, p)
      /\ fingerprints' = Newest(grown, FingerprintCapacity)
  BY <1>1 DEF IngestAccepted, IngestVerdict, Remember, FrameSequences, TypeOK
<1>3. /\ nextSeq \in Nat /\ accepted \in Seq(Payloads) /\ nextSeq = Len(accepted)
      /\ fingerprints \in Seq(Fingerprints)
      /\ FingerprintCapacity \in Nat \ {0}
  BY SessionAssumption DEF TypeOK, FingerprintInv, Fingerprints
<1>4. fresh \in Fingerprints
  BY <1>3 DEF Fingerprints
<1>5. /\ grown \in Seq(Fingerprints)
      /\ Len(grown) = n + 1 /\ grown[n + 1] = fresh
      /\ \A j \in 1..n : grown[j] = fingerprints[j]
  BY <1>3, <1>4
<1> HIDE DEF grown, fresh
<1>6. /\ m = IF n + 1 <= FingerprintCapacity THEN n + 1 ELSE FingerprintCapacity
      /\ \A i \in 1..m : fingerprints'[i] = grown[n + 1 - m + i]
  <2> DEFINE kept == Newest(grown, FingerprintCapacity)
  <2>0. grown \in Seq(Fingerprints) /\ FingerprintCapacity \in Nat
    BY <1>3, <1>5
  <2>1. /\ Len(kept) = IF Len(grown) <= FingerprintCapacity
                       THEN Len(grown) ELSE FingerprintCapacity
        /\ \A i \in 1..Len(kept) : kept[i] = grown[Len(grown) - Len(kept) + i]
    BY <2>0, NewestKeeps
  <2> HIDE DEF kept
  <2>2. fingerprints' = kept
    BY <1>2 DEF kept
  <2>3. m = Len(kept) /\ Len(grown) = n + 1
    BY <1>5, <2>2
  <2>4. m = IF n + 1 <= FingerprintCapacity THEN n + 1 ELSE FingerprintCapacity
    BY <2>1, <2>3
  <2>5. ASSUME NEW i \in 1..m
        PROVE  fingerprints'[i] = grown[n + 1 - m + i]
    <3>1. kept[i] = grown[Len(grown) - Len(kept) + i]
      BY <2>1, <2>3
    <3> QED BY <2>2, <2>3, <3>1
  <2> QED BY <2>4, <2>5
<1>7. /\ Len(accepted') = nextSeq' /\ accepted'[nextSeq + 1] = p
      /\ \A k \in 1..nextSeq : accepted'[k] = accepted[k]
  BY <1>2, <1>3
<1>8. n \in Nat /\ m \in Nat /\ m <= n + 1 /\ m <= FingerprintCapacity
  BY <1>3, <1>6
<1>9. ASSUME NEW i \in 1..m
      PROVE  /\ fingerprints'[i].seq = nextSeq' - 1 - (m - i)
             /\ fingerprints'[i].digest = Digest[accepted'[fingerprints'[i].seq + 1]]
  <2>1. CASE i = m
    <3>1. fingerprints'[i] = fresh
      <4>1. n + 1 - m + i = n + 1
        BY <1>8, <2>1
      <4> QED BY <1>5, <1>6, <4>1
    <3> QED BY <1>2, <1>3, <1>7, <2>1, <3>1 DEF fresh
  <2>2. CASE i # m
    <3> DEFINE j == n + 1 - m + i
    <3>1. j \in 1..n
      BY <1>8, <2>2
    <3>2. fingerprints'[i] = fingerprints[j]
      BY <1>5, <1>6, <3>1
    <3>3. /\ fingerprints[j].seq = nextSeq - 1 - (n - j)
          /\ fingerprints[j].digest = Digest[accepted[fingerprints[j].seq + 1]]
      BY <3>1 DEF FingerprintInv, FingerprintsFaithful
    <3>4. fingerprints[j].seq \in Nat
      <4>1. fingerprints[j] \in Fingerprints
        BY <1>3, <3>1, ElementTyped
      <4> QED BY <4>1 DEF Fingerprints
    <3>5. fingerprints[j].seq + 1 \in 1..nextSeq
      BY <1>3, <1>8, <3>1, <3>3, <3>4
    <3> QED BY <1>2, <1>3, <1>7, <1>8, <3>1, <3>2, <3>3, <3>5
  <2> QED BY <2>1, <2>2
<1> QED BY <1>7, <1>8, <1>9 DEF FingerprintInv, FingerprintsFaithful

\* No step makes the window unfaithful.
LEMMA FingerprintStep ==
  TypeOK /\ FingerprintInv /\ [Next]_vars => FingerprintInv'
<1> SUFFICES ASSUME TypeOK, FingerprintInv, [Next]_vars PROVE FingerprintInv'
  OBVIOUS
<1>1. ASSUME UNCHANGED <<nextSeq, accepted, fingerprints>>
      PROVE  FingerprintInv'
  BY <1>1 DEF FingerprintInv, FingerprintsFaithful
<1>2. ASSUME fingerprints' = <<>>, nextSeq' = Len(accepted')
      PROVE  FingerprintInv'
  BY <1>2, SessionAssumption DEF FingerprintInv, FingerprintsFaithful
<1>3. CASE UNCHANGED vars
  BY <1>1, <1>3 DEF vars
<1>4. CASE Next
  <2>1. CASE Decodes
    BY <2>1, FingerprintDecode
  <2>2. CASE Renews
    BY <1>2, <2>2 DEF Renews, ResetApplied, NewStream
  <2>3. CASE RenewalRaises
    BY <1>2, <2>3 DEF RenewalRaises, ResetRaised, FingerprintInv
  <2>4. CASE Unchanged
    BY <1>1, <2>4 DEF Unchanged, stream
  <2>5. CASE DecodingFails
    BY <1>1, <2>5 DEF DecodingFails, IngestFailed, stream
  <2>6. CASE FinalizingFails
    BY <1>1, <2>6 DEF FinalizingFails, FinalizeFails, stream
  <2>7. ASSUME NEW s, NEW b, Finishes(s, b)
        PROVE  FingerprintInv'
    BY <1>1, <2>7 DEF Finishes, UtteranceClosed, stream
  <2>8. CASE GetsStuck
    BY <1>1, <2>8 DEF GetsStuck, UtteranceStuck, stream
  <2>9. CASE StopWithoutFlush
    BY <1>1, <2>9 DEF StopWithoutFlush, stream
  <2> QED BY <1>4, <2>1, <2>2, <2>3, <2>4, <2>5, <2>6, <2>7, <2>8, <2>9, StepKinds
<1> QED BY <1>3, <1>4

\* The fingerprint window is always the newest committed frames.
THEOREM FingerprintsStayFaithful == Spec => []FingerprintsFaithful
<1>1. FingerprintInv => FingerprintsFaithful
  BY DEF FingerprintInv
<1> QED BY <1>1, FingerprintInit, FingerprintStep, TypeCorrect, PTL DEF Spec

\* A faithful window, and a digest without collisions, vouch for duplicates.
LEMMA FaithfulDuplicates == TypeOK /\ FingerprintInv => DuplicatesAreReal
<1> SUFFICES ASSUME TypeOK, FingerprintInv, NEW seq \in FrameSequences,
                    NEW p \in Payloads, IngestVerdict(seq, p) = "duplicate"
             PROVE  CommittedAt(seq, p)
  BY DEF DuplicatesAreReal
<1>1. Remembered(seq, p) /\ seq < nextSeq
  BY DEF IngestVerdict
<1>2. PICK i \in 1..Len(fingerprints) :
        fingerprints[i].seq = seq /\ fingerprints[i].digest = Digest[p]
  BY <1>1 DEF Remembered
<1>3. fingerprints[i].seq \in Nat
  <2>1. fingerprints \in Seq(Fingerprints)
    BY DEF TypeOK, Fingerprints
  <2>2. fingerprints[i] \in Fingerprints
    BY <2>1, ElementTyped
  <2> QED BY <2>2 DEF Fingerprints
<1>4. seq + 1 \in 1..Len(accepted) /\ accepted[seq + 1] \in Payloads
  BY <1>1, <1>2, <1>3 DEF FingerprintInv, TypeOK
<1>5. Digest[accepted[seq + 1]] = Digest[p]
  BY <1>2 DEF FingerprintInv, FingerprintsFaithful
<1> QED BY <1>4, <1>5, SessionAssumption DEF CommittedAt

\* A frame is acknowledged as a duplicate only if it was committed there.
THEOREM DuplicatesStayReal == Spec => []DuplicatesAreReal
BY FaithfulDuplicates, FingerprintInit, FingerprintStep, TypeCorrect, PTL DEF Spec

-----------------------------------------------------------------------------
(* Sessions that are not in an utterance *)

\* A new session holds no audio.
LEMMA DrainedInit == Init => DrainedEmpty
BY DEF Init, DrainedEmpty

\* Only accepted audio fills the buffer, and it leaves the session listening.
LEMMA DrainedStep == DrainedEmpty /\ [Next]_vars => DrainedEmpty'
<1> SUFFICES ASSUME DrainedEmpty, [Next]_vars PROVE DrainedEmpty'
  OBVIOUS
<1>1. CASE UNCHANGED vars
  BY <1>1 DEF DrainedEmpty, vars
<1>2. CASE Next
  <2>1. CASE Unchanged
    BY <2>1 DEF DrainedEmpty, Unchanged, utteranceVars
  <2>2. CASE Decodes
    BY <2>2 DEF DrainedEmpty, Decodes, IngestAccepted
  <2>3. CASE DecodingFails
    BY <2>3 DEF DrainedEmpty, DecodingFails, IngestFailed
  <2>4. CASE FinalizingFails
    BY <2>4 DEF DrainedEmpty, FinalizingFails, FinalizeFails
  <2>5. ASSUME NEW s, NEW b, Finishes(s, b)
        PROVE  DrainedEmpty'
    BY <2>5 DEF DrainedEmpty, Finishes, UtteranceClosed, CompleteUtterance, NextUtterance
  <2>6. CASE GetsStuck
    BY <2>6 DEF DrainedEmpty, GetsStuck, UtteranceStuck, CompleteUtterance
  <2>7. CASE Renews
    BY <2>7 DEF DrainedEmpty, Renews, ResetApplied
  <2>8. CASE RenewalRaises
    BY <2>8 DEF DrainedEmpty, RenewalRaises, ResetRaised
  <2>9. CASE StopWithoutFlush
    BY <2>9 DEF DrainedEmpty, StopWithoutFlush, CloseSession
  <2> QED BY <1>2, <2>1, <2>2, <2>3, <2>4, <2>5, <2>6, <2>7, <2>8, <2>9, StepKinds
<1> QED BY <1>1, <1>2

\* No utterance is ever flushed twice: a session that is ready has no audio
\* and no log, and one stuck in draining has no audio.
THEOREM DrainedStaysEmpty == Spec => []DrainedEmpty
BY DrainedInit, DrainedStep, PTL DEF Spec

-----------------------------------------------------------------------------
(* Resets *)

\* A session that is not serving comes back only by a reset.
LEMMA ResumeStep ==
  ASSUME [Next]_vars, state \notin Serving, state' \in Serving
  PROVE  Renews
<1>1. ~ UNCHANGED vars
  BY DEF vars
<1>2. Next
  BY <1>1
<1>3. ~Unchanged
  BY DEF Unchanged
<1>4. ~Decodes
  BY DEF Decodes, IngestAccepted, IngestVerdict, TakesAudio
<1>5. ~DecodingFails /\ ~FinalizingFails
  BY DEF DecodingFails, IngestFailed, FinalizingFails, FinalizeFails, Serving
<1>6. \A s, b : ~Finishes(s, b)
  BY DEF Finishes, FlushRefused, TakesAudio
<1>7. ~GetsStuck
  BY DEF GetsStuck, FlushRefused, TakesAudio
<1>8. ~RenewalRaises
  BY DEF RenewalRaises, ResetRaised
<1>9. ~StopWithoutFlush
  BY DEF StopWithoutFlush, CloseSession, Serving
<1> QED BY <1>2, <1>3, <1>4, <1>5, <1>6, <1>7, <1>8, <1>9, StepKinds

\* A failed, drained or closed session serves again only in a new generation,
\* with an empty stream and a decoder that was reset.
THEOREM ServiceAlwaysResumesFresh == Spec => ServiceResumesFresh
<1>1. ASSUME [Next]_vars, state \notin Serving, state' \in Serving
      PROVE  /\ generation' = generation + 1
             /\ accepted' = <<>> /\ audio' = <<>> /\ heard' = <<>>
             /\ fingerprints' = <<>> /\ failedCode' = "none"
  BY <1>1, ResumeStep DEF Renews, ResetApplied, NewStream, NextGeneration, DecoderReset
<1> QED BY <1>1, PTL DEF Spec, ServiceResumesFresh

\* The reset cache is empty at the start.
LEMMA ResetCacheInit == Init => ResetCacheOrdered
BY SessionAssumption DEF Init, ResetCacheOrdered

\* A reset appends the result of the newest generation to the cache.
LEMMA ResetCacheRenews ==
  ASSUME TypeOK, ResetCacheOrdered, Renews
  PROVE  ResetCacheOrdered'
<1>1. PICK id \in ResetIds : ResetApplied(id, stateVersion, generation)
  BY DEF Renews
<1> DEFINE result == ResetResult(id)
           grown == Append(resetCache, result)
           n == Len(resetCache)
           m == Len(resetCache')
<1>2. /\ Cached(id) = {}
      /\ generation' = generation + 1 /\ stateVersion' = stateVersion + 1
      /\ resetCache' = Newest(grown, ResetCacheCapacity)
  BY <1>1 DEF ResetApplied, ResetAdmitted, NextGeneration
<1>3. /\ resetCache \in Seq(ResetResults) /\ ResetCacheCapacity \in Nat \ {0}
      /\ generation \in Nat /\ stateVersion \in Nat
  BY SessionAssumption DEF TypeOK
<1>4. /\ result \in ResetResults
      /\ result.id = id /\ result.generation = generation + 1
      /\ result.stateVersion = stateVersion + 1
  BY DEF ResetResult, ResetResults, TypeOK
<1> HIDE DEF result
<1>5. /\ grown \in Seq(ResetResults)
      /\ Len(grown) = n + 1 /\ grown[n + 1] = result
      /\ \A j \in 1..n : grown[j] = resetCache[j]
  BY <1>3, <1>4
<1> HIDE DEF grown
<1> DEFINE Older(a, b) == /\ a.id # b.id
                          /\ a.generation < b.generation
                          /\ a.stateVersion < b.stateVersion
<1>6. \A i \in 1..n : /\ resetCache[i].generation \in Nat
                      /\ resetCache[i].stateVersion \in Nat
                      /\ resetCache[i].generation <= generation
                      /\ resetCache[i].stateVersion <= stateVersion
                      /\ resetCache[i].id # id
  <2> TAKE i \in 1..n
  <2>1. resetCache[i] \in ResetResults
    BY <1>3, ElementTyped
  <2> QED BY <1>2, <2>1 DEF ResetCacheOrdered, ResetResults, Cached
<1>7. \A i, j \in 1..n + 1 : i < j => Older(grown[i], grown[j])
  <2> TAKE i, j \in 1..n + 1
  <2> HAVE i < j
  <2>0. n \in Nat /\ i \in 1..n
    BY <1>3
  <2>1. CASE j = n + 1
    BY <1>3, <1>4, <1>5, <1>6, <2>0, <2>1
  <2>2. CASE j # n + 1
    <3>1. j \in 1..n
      BY <2>0, <2>2
    <3> QED BY <1>5, <2>0, <3>1 DEF ResetCacheOrdered
  <2> QED BY <2>1, <2>2
<1>8. \A i \in 1..n + 1 : /\ grown[i].generation <= generation'
                          /\ grown[i].stateVersion <= stateVersion'
  <2> TAKE i \in 1..n + 1
  <2>1. CASE i = n + 1
    BY <1>2, <1>3, <1>4, <1>5, <2>1
  <2>2. CASE i # n + 1
    <3>1. i \in 1..n
      BY <1>3, <2>2
    <3> QED BY <1>2, <1>3, <1>5, <1>6, <3>1
  <2> QED BY <2>1, <2>2
<1>9. /\ m \in 1..n + 1 /\ m <= ResetCacheCapacity
      /\ \A i \in 1..m : resetCache'[i] = grown[n + 1 - m + i]
  <2> DEFINE kept == Newest(grown, ResetCacheCapacity)
  <2>0. grown \in Seq(ResetResults) /\ ResetCacheCapacity \in Nat
    BY <1>3, <1>5
  <2>1. /\ Len(kept) = IF Len(grown) <= ResetCacheCapacity
                       THEN Len(grown) ELSE ResetCacheCapacity
        /\ \A i \in 1..Len(kept) : kept[i] = grown[Len(grown) - Len(kept) + i]
    BY <2>0, NewestKeeps
  <2> HIDE DEF kept
  <2>2. resetCache' = kept
    BY <1>2 DEF kept
  <2>3. m = Len(kept) /\ Len(grown) = n + 1 /\ n \in Nat
    BY <1>3, <1>5, <2>2
  <2>4. m \in 1..n + 1 /\ m <= ResetCacheCapacity
    BY <1>3, <2>1, <2>3
  <2>5. ASSUME NEW i \in 1..m
        PROVE  resetCache'[i] = grown[n + 1 - m + i]
    <3>1. kept[i] = grown[Len(grown) - Len(kept) + i]
      BY <2>1, <2>3
    <3> QED BY <2>2, <2>3, <3>1
  <2> QED BY <2>4, <2>5
<1>10. \A i \in 1..m : n + 1 - m + i \in 1..n + 1
  BY <1>3, <1>9
<1>11. \A i, j \in 1..m : i < j => Older(resetCache'[i], resetCache'[j])
  <2> TAKE i, j \in 1..m
  <2> HAVE i < j
  <2>1. n + 1 - m + i < n + 1 - m + j
    BY <1>3, <1>9
  <2>2. Older(grown[n + 1 - m + i], grown[n + 1 - m + j])
    BY <1>7, <1>10, <2>1
  <2> QED BY <1>9, <2>2
<1>12. \A i \in 1..m : /\ resetCache'[i].generation <= generation'
                       /\ resetCache'[i].stateVersion <= stateVersion'
  BY <1>8, <1>9, <1>10
<1>13. resetCache'[m].generation = generation'
  <2>1. n + 1 - m + m = n + 1 /\ m \in 1..m
    BY <1>3, <1>9
  <2> QED BY <1>2, <1>4, <1>5, <1>9, <2>1
<1> QED BY <1>9, <1>11, <1>12, <1>13 DEF ResetCacheOrdered

\* No step disorders the reset cache.
LEMMA ResetCacheStep ==
  TypeOK /\ ResetCacheOrdered /\ [Next]_vars => ResetCacheOrdered'
<1> SUFFICES ASSUME TypeOK, ResetCacheOrdered, [Next]_vars PROVE ResetCacheOrdered'
  OBVIOUS
<1>1. ASSUME UNCHANGED <<generation, resetCache>>, stateVersion' \in Nat,
             stateVersion <= stateVersion'
      PROVE  ResetCacheOrdered'
  <2>1. ASSUME NEW i \in 1..Len(resetCache)
        PROVE  resetCache[i].stateVersion <= stateVersion'
    <3>1. resetCache[i] \in ResetResults
      BY ElementTyped DEF TypeOK
    <3>2. resetCache[i].stateVersion \in Nat /\ resetCache[i].stateVersion <= stateVersion
      BY <3>1 DEF ResetCacheOrdered, ResetResults
    <3> QED BY <1>1, <3>2 DEF TypeOK
  <2> QED BY <1>1, <2>1 DEF ResetCacheOrdered
<1>2. stateVersion \in Nat
  BY DEF TypeOK
<1>3. CASE UNCHANGED vars
  BY <1>1, <1>2, <1>3 DEF vars
<1>4. CASE Next
  <2>1. CASE Renews
    BY <2>1, ResetCacheRenews
  <2>2. CASE Unchanged
    BY <1>1, <1>2, <2>2 DEF Unchanged, epoch
  <2>3. CASE Decodes
    BY <1>1, <1>2, <2>3 DEF Decodes, IngestAccepted, epoch
  <2>4. CASE DecodingFails
    BY <1>1, <1>2, <2>4 DEF DecodingFails, IngestFailed, epoch
  <2>5. CASE FinalizingFails
    BY <1>1, <1>2, <2>5 DEF FinalizingFails, FinalizeFails, epoch
  <2>6. ASSUME NEW s, NEW b \in Nat, Finishes(s, b)
        PROVE  ResetCacheOrdered'
    BY <1>1, <1>2, <2>6 DEF Finishes, UtteranceClosed, epoch
  <2>7. CASE GetsStuck
    BY <1>1, <1>2, <2>7 DEF GetsStuck, UtteranceStuck, epoch
  <2>8. CASE RenewalRaises
    BY <1>1, <1>2, <2>8 DEF RenewalRaises, ResetRaised, epoch
  <2>9. CASE StopWithoutFlush
    BY <1>1, <1>2, <2>9 DEF StopWithoutFlush, CloseSession, epoch
  <2> QED BY <1>4, <2>1, <2>2, <2>3, <2>4, <2>5, <2>6, <2>7, <2>8, <2>9, StepKinds
<1> QED BY <1>3, <1>4

\* A reset identifier is answered with the one reset it named, and the newest
\* cached reset is the one the session's generation comes from.
THEOREM ResetCacheStaysOrdered == Spec => []ResetCacheOrdered
BY ResetCacheInit, ResetCacheStep, TypeCorrect, PTL DEF Spec

-----------------------------------------------------------------------------
(* Versions *)

\* A call that changes what snapshot() shows and does not end in an exception
\* of recognizer.reset() raises the state version.
LEMMA VersionStep ==
  ASSUME TypeOK, [Next]_vars, Snapshot' # Snapshot, reply'.outcome # "raised"
  PROVE  stateVersion' > stateVersion
<1>0. stateVersion \in Nat
  BY DEF TypeOK
<1>1. Next
  BY DEF Snapshot, vars
<1>2. ~Unchanged
  BY DEF Unchanged, Snapshot, stream, utteranceVars, epoch
<1>3. ASSUME Decodes PROVE stateVersion' > stateVersion
  BY <1>0, <1>3 DEF Decodes, IngestAccepted
<1>4. ASSUME DecodingFails PROVE stateVersion' > stateVersion
  BY <1>0, <1>4 DEF DecodingFails, IngestFailed
<1>5. ASSUME FinalizingFails PROVE stateVersion' > stateVersion
  BY <1>0, <1>5 DEF FinalizingFails, FinalizeFails
<1>6. ASSUME NEW s, NEW b \in {1, 2}, Finishes(s, b) PROVE stateVersion' > stateVersion
  BY <1>0, <1>6 DEF Finishes, UtteranceClosed
<1>7. ASSUME Renews PROVE stateVersion' > stateVersion
  BY <1>0, <1>7 DEF Renews, ResetApplied
<1>8. ASSUME StopWithoutFlush PROVE stateVersion' > stateVersion
  BY <1>0, <1>8 DEF StopWithoutFlush, CloseSession
<1> QED BY <1>1, <1>2, <1>3, <1>4, <1>5, <1>6, <1>7, <1>8, StepKinds

\* A state version names one observable state: no call but one that ends in an
\* exception changes the snapshot and keeps the version.
THEOREM VersionAlwaysTracksState == Spec => VersionTracksState
<1>1. ASSUME TypeOK, [Next]_vars
      PROVE  [ Snapshot' # Snapshot /\ reply'.outcome # "raised"
                 => stateVersion' > stateVersion ]_vars
  BY <1>1, VersionStep
<1> QED BY <1>1, TypeCorrect, PTL DEF Spec, VersionTracksState

-----------------------------------------------------------------------------
(* The ordered stream *)

\* A new session is a new stream.
LEMMA PromiseInit == Init => Promise!Init
<1> SUFFICES ASSUME Init PROVE Promise!Init
  OBVIOUS
<1>1. Len(audio) = 0 /\ total = 0
  BY DEF Init
<1>2. total - Len(audio) = 0
  BY <1>1
<1>3. (state \in Serving) = TRUE
  BY Zenon DEF Init, Serving
<1>4. generation = 0 /\ accepted = <<>> /\ total = 0
  BY DEF Init
<1> QED BY <1>2, <1>3, <1>4, Zenon DEF Promise!Init

\* A call that keeps generation, frames and buffer, and that does not open the
\* session, halts the stream or leaves it as it is.
LEMMA PromiseHalts ==
  ASSUME UNCHANGED <<generation, accepted, total, audio>>,
         state' \notin Serving \/ state' = state
  PROVE  [Promise!Next]_(Promise!contract)
BY DEF Promise!Next, Promise!Halt, Promise!contract

\* A call that finishes the utterance settles all the pending audio.
LEMMA PromiseSettles ==
  ASSUME TypeOK, UNCHANGED <<generation, accepted, total>>, audio' = <<>>,
         state \in Serving \/ state' \notin Serving \/ state' = state
  PROVE  Promise!Settle
<1>1. Len(audio') = 0 /\ total' = total /\ total \in Nat
  BY DEF TypeOK
<1>2. total' - Len(audio') = total
  BY <1>1
<1>3. (state' \in Serving) \in {(state \in Serving), FALSE}
  <2>1. CASE state' \in Serving
    <3>1. (state' \in Serving) = TRUE /\ (state \in Serving) = TRUE
      BY <2>1
    <3> QED BY <3>1, Zenon
  <2>2. CASE state' \notin Serving
    <3>1. (state' \in Serving) = FALSE
      BY <2>2
    <3> QED BY <3>1, Zenon
  <2> QED BY <2>1, <2>2
<1> QED BY <1>2, <1>3, Zenon DEF Promise!Settle

\* An accepted frame is taken; the limit checks leave room for all of it in
\* the ring buffer, so nothing that is pending is dropped.
LEMMA PromiseTakes ==
  ASSUME TypeOK, Decodes
  PROVE  Promise!Next
<1>1. PICK seq \in FrameSequences, p \in Payloads, h \in Hypotheses :
        \/ IngestAccepted(seq, p, log)
        \/ IngestAccepted(seq, p, Append(log, h))
  BY DEF Decodes
<1>2. /\ IngestVerdict(seq, p) = "decode"
      /\ audio' = Newest(audio \o p, MaxUtteranceSamples)
      /\ total' = total + Len(p)
      /\ accepted' = Append(accepted, p)
      /\ state' = "listening" /\ generation' = generation
  BY <1>1 DEF IngestAccepted, Buffered, epoch
<1>3. TakesAudio /\ ~OverLimit(p)
  BY <1>2 DEF IngestVerdict
<1>4. /\ audio \in Seq(Samples) /\ p \in Seq(Samples) /\ total \in Nat
      /\ MaxUtteranceSamples \in Nat /\ MaxSessionSamples \in Nat
  BY SessionAssumption DEF TypeOK
<1>5. Len(audio) \in Nat /\ Len(p) \in Nat /\ Len(audio) + Len(p) <= MaxUtteranceSamples
  BY <1>3, <1>4 DEF OverLimit
<1>6. Len(audio \o p) = Len(audio) + Len(p)
  BY <1>4
<1>7. Len(audio') = Len(audio) + Len(p)
  BY <1>2, <1>5, <1>6 DEF Newest
<1>8. total' - Len(audio') = total - Len(audio)
  BY <1>2, <1>4, <1>5, <1>7
<1>9. state \in Serving /\ state' \in Serving
  BY <1>2, <1>3 DEF TakesAudio, Serving
<1>10. Promise!Take(p)
  BY <1>2, <1>8, <1>9 DEF Promise!Take
<1> QED BY <1>10 DEF Promise!Next

\* Every call is a step of the stream, or none.
LEMMA PromiseStep ==
  ASSUME TypeOK, [Next]_vars
  PROVE  [Promise!Next]_(Promise!contract)
<1>1. CASE UNCHANGED vars
  BY <1>1, PromiseHalts DEF vars
<1>2. CASE Next
  <2>1. CASE Unchanged
    BY <2>1, PromiseHalts DEF Unchanged, stream, utteranceVars, epoch
  <2>2. CASE Decodes
    BY <2>2, PromiseTakes
  <2>3. CASE DecodingFails
    BY <2>3, PromiseHalts DEF DecodingFails, IngestFailed, Serving, stream,
                              utteranceVars, epoch
  <2>4. CASE FinalizingFails
    BY <2>4, PromiseHalts DEF FinalizingFails, FinalizeFails, Serving, stream,
                              utteranceVars, epoch
  <2>5. ASSUME NEW s, NEW b, Finishes(s, b)
        PROVE  [Promise!Next]_(Promise!contract)
    <3>1. Promise!Settle
      BY <2>5, PromiseSettles DEF Finishes, FlushRefused, TakesAudio,
           UtteranceClosed, CompleteUtterance, stream, epoch
    <3> QED BY <3>1 DEF Promise!Next
  <2>6. CASE GetsStuck
    <3>1. Promise!Settle
      BY <2>6, PromiseSettles DEF GetsStuck, FlushRefused, TakesAudio,
           UtteranceStuck, CompleteUtterance, stream, epoch
    <3> QED BY <3>1 DEF Promise!Next
  <2>7. CASE Renews
    <3>1. /\ generation' = generation + 1 /\ accepted' = <<>> /\ total' = 0
          /\ audio' = <<>> /\ state' \in Serving
      BY <2>7 DEF Renews, ResetApplied, NextGeneration, NewStream, Serving
    <3>2. total' - Len(audio') = 0
      <4>1. Len(audio') = 0
        BY <3>1
      <4>2. total' = 0
        BY <3>1
      <4> QED BY <4>1, <4>2
    <3>3. Promise!Renew
      BY <3>1, <3>2 DEF Promise!Renew
    <3> QED BY <3>3 DEF Promise!Next
  <2>8. CASE RenewalRaises
    <3>1. Promise!Settle
      BY <2>8, PromiseSettles DEF RenewalRaises, ResetRaised, epoch
    <3> QED BY <3>1 DEF Promise!Next
  <2>9. CASE StopWithoutFlush
    BY <2>9, PromiseHalts DEF StopWithoutFlush, CloseSession, Serving, stream, epoch
  <2> QED BY <1>2, <2>1, <2>2, <2>3, <2>4, <2>5, <2>6, <2>7, <2>8, <2>9, StepKinds
<1> QED BY <1>1, <1>2

\* The session implements the ordered stream: frames are taken once and in
\* order, an utterance settles all the pending audio, and a halted stream
\* stays halted until it is renewed.
THEOREM SessionKeepsPromise == Spec => KeepsPromise
BY PromiseInit, PromiseStep, TypeCorrect, PTL DEF Spec, KeepsPromise, Promise!Spec

-----------------------------------------------------------------------------
(* Growth *)

\* A sequence is a prefix of itself and of what is appended to it.
LEMMA AppendExtends ==
  ASSUME NEW S, NEW s \in Seq(S), NEW x \in S
  PROVE  IsPrefix(s, s) /\ IsPrefix(s, Append(s, x))
<1>1. Len(s) <= Len(Append(s, x)) /\ Len(s) <= Len(s)
  OBVIOUS
<1>2. SubSeq(s, 1, Len(s)) = SubSeq(Append(s, x), 1, Len(s))
  OBVIOUS
<1> QED BY <1>1, <1>2 DEF IsPrefix

\* No step that stays in the generation takes back a frame or, unless it ends
\* in an exception, a finished utterance.
LEMMA GrowthStep ==
  ASSUME TypeOK, [Next]_vars, generation' = generation
  PROVE  /\ IsPrefix(accepted, accepted')
         /\ reply'.outcome # "raised" => IsPrefix(completed, completed')
<1>0. /\ accepted \in Seq(Payloads) /\ completed \in Seq(Utterances)
  BY DEF TypeOK, Utterances
<1>1. IsPrefix(accepted, accepted) /\ IsPrefix(completed, completed)
  BY <1>0 DEF IsPrefix
<1>2. CASE UNCHANGED <<accepted, completed>>
  BY <1>1, <1>2
<1>3. CASE UNCHANGED vars
  BY <1>2, <1>3 DEF vars
<1>4. CASE Next
  <2>1. CASE Unchanged
    BY <1>2, <2>1 DEF Unchanged, stream, utteranceVars
  <2>2. CASE Decodes
    <3>1. PICK p \in Payloads : accepted' = Append(accepted, p) /\ completed' = completed
      BY <2>2 DEF Decodes, IngestAccepted
    <3>2. IsPrefix(accepted, Append(accepted, p))
      BY <1>0, AppendExtends
    <3> QED BY <1>1, <3>1, <3>2
  <2>3. CASE DecodingFails
    BY <1>2, <2>3 DEF DecodingFails, IngestFailed, stream, utteranceVars
  <2>4. CASE FinalizingFails
    BY <1>2, <2>4 DEF FinalizingFails, FinalizeFails, stream, utteranceVars
  <2>5. ASSUME NEW s, NEW b, Finishes(s, b)
        PROVE  IsPrefix(accepted, accepted') /\ IsPrefix(completed, completed')
    <3>1. PICK l \in FinishedLogs :
            /\ accepted' = accepted
            /\ completed' = Append(completed,
                 [utterance |-> utterance, items |-> l, audio |-> audio])
      BY <2>5 DEF Finishes, UtteranceClosed, CompleteUtterance, stream
    <3>2. IsPrefix(completed, Append(completed,
            [utterance |-> utterance, items |-> l, audio |-> audio]))
      BY RecordedTyped, AppendExtends
    <3> QED BY <1>1, <3>1, <3>2
  <2>6. CASE GetsStuck /\ reply'.outcome = "raised"
    BY <1>1, <2>6 DEF GetsStuck, UtteranceStuck, stream
  <2>7. ~Renews
    BY DEF Renews, ResetApplied, NextGeneration, TypeOK
  <2>8. CASE RenewalRaises /\ reply'.outcome = "raised"
    BY <1>1, <2>8 DEF RenewalRaises, ResetRaised
  <2>9. CASE StopWithoutFlush
    BY <1>2, <2>9 DEF StopWithoutFlush, CloseSession, stream
  <2> QED BY <1>4, <2>1, <2>2, <2>3, <2>4, <2>5, <2>6, <2>7, <2>8, <2>9, StepKinds
<1> QED BY <1>3, <1>4

\* Within a generation no call takes back an accepted frame, and only a reset
\* that raises half-way forgets a finished utterance.
THEOREM StreamAlwaysGrows == Spec => StreamOnlyGrows
<1>1. ASSUME TypeOK, [Next]_vars
      PROVE  [ generation' = generation
                 => /\ IsPrefix(accepted, accepted')
                    /\ reply'.outcome # "raised" => IsPrefix(completed, completed') ]_vars
  BY <1>1, GrowthStep
<1> QED BY <1>1, TypeCorrect, PTL DEF Spec, StreamOnlyGrows

-----------------------------------------------------------------------------
(* Finished utterances *)

\* What append() lets into a revision log keeps its stages monotonic.
LEMMA AppendMonotonic ==
  ASSUME NEW l \in Seq(Hypotheses), NEW h \in Hypotheses,
         MonotonicStages(l), h.stage \in LegalStages(l)
  PROVE  MonotonicStages(Append(l, h))
<1> DEFINE g == Append(l, h)
           n == Len(l)
<1>1. n \in Nat /\ Len(g) = n + 1 /\ g[n + 1] = h /\ \A i \in 1..n : g[i] = l[i]
  OBVIOUS
<1>2. l = <<>> <=> n = 0
  OBVIOUS
<1> HIDE DEF g
<1>3. ASSUME NEW i \in 1..n + 1
      PROVE  /\ g[i].stage = Partial => i = 1 \/ g[i-1].stage = Partial
             /\ g[i].stage = StreamFinal => i = 1 \/ g[i-1].stage = Partial
             /\ g[i].stage \in {DualPassFinal, StreamOnly} =>
                  i > 1 /\ g[i-1].stage = StreamFinal
  <2>1. CASE i = n + 1
    <3>1. CASE n = 0
      BY <1>1, <1>2, <2>1, <3>1 DEF LegalStages, Partial, StreamFinal,
           DualPassFinal, StreamOnly
    <3>2. CASE n # 0
      <4>1. i - 1 = n /\ n \in 1..n /\ i > 1
        BY <1>1, <2>1, <3>2
      <4>2. g[i] = h /\ g[i-1] = l[n]
        BY <1>1, <2>1, <4>1
      <4> QED BY <1>2, <3>2, <4>1, <4>2 DEF LegalStages, Partial, StreamFinal,
                DualPassFinal, StreamOnly
    <3> QED BY <3>1, <3>2
  <2>2. CASE i # n + 1
    <3>1. i \in 1..n /\ (i = 1 \/ i - 1 \in 1..n)
      BY <1>1, <2>2
    <3>2. g[i] = l[i] /\ (i = 1 \/ g[i-1] = l[i-1])
      BY <1>1, <3>1
    <3> QED BY <3>1, <3>2 DEF MonotonicStages
  <2> QED BY <2>1, <2>2
<1> QED BY <1>1, <1>3 DEF MonotonicStages, g

\* The ending of a finished utterance's log: the verifier's stage when there is
\* a verifier, with the text of the stream_final when the verifier failed.
EndsWell(items) ==
  LET last == items[Len(items)]
  IN  /\ last.stage \in IF HasFinalizer THEN {DualPassFinal, StreamOnly} ELSE {StreamFinal}
      /\ last.stage = StreamOnly => items[Len(items) - 1].text = last.text

\* Every log a flush can leave is monotonic and ends with its final stage.
LEMMA FinishedLogsEndWell ==
  ASSUME TypeOK, MonotonicStages(log), NEW l \in FinishedLogs
  PROVE  MonotonicStages(l) /\ EndsWell(l)
<1>1. PICK h \in Hypotheses : /\ h.stage = StreamFinal /\ Appendable(log, h)
                              /\ \E v \in VerifierEntries(h) : l = Append(log, h) \o v
  BY DEF FinishedLogs
<1>2. PICK v \in VerifierEntries(h) : l = Append(log, h) \o v
  BY <1>1
<1> DEFINE g == Append(log, h)
<1>3. log \in Seq(Hypotheses)
  BY DEF TypeOK
<1>4. g \in Seq(Hypotheses) /\ Len(g) \in Nat /\ Len(g) > 0 /\ g[Len(g)] = h
  BY <1>3
<1>5. MonotonicStages(g)
  BY <1>1, <1>3, AppendMonotonic DEF Appendable
<1> HIDE DEF g
<1>6. CASE ~HasFinalizer
  <2>1. v = <<>>
    BY <1>6 DEF VerifierEntries
  <2>2. l = g
    BY <1>2, <1>4, <2>1 DEF g
  <2> QED BY <1>1, <1>4, <1>5, <1>6, <2>2 DEF EndsWell, StreamFinal, StreamOnly
<1>7. CASE HasFinalizer
  <2>1. PICK w \in Hypotheses : /\ v = <<w>>
                                /\ w.stage \in {DualPassFinal, StreamOnly}
                                /\ w.stage = StreamOnly => w.text = h.text
    <3>1. CASE v = <<[stage |-> StreamOnly, text |-> h.text]>>
      <4>1. [stage |-> StreamOnly, text |-> h.text] \in Hypotheses
        BY DEF Hypotheses, Stages
      <4> QED BY <3>1, <4>1
    <3>2. ASSUME NEW t \in Texts, v = <<[stage |-> DualPassFinal, text |-> t]>>
          PROVE  \E w \in Hypotheses : /\ v = <<w>>
                                       /\ w.stage \in {DualPassFinal, StreamOnly}
                                       /\ w.stage = StreamOnly => w.text = h.text
      <4>1. [stage |-> DualPassFinal, text |-> t] \in Hypotheses
        BY DEF Hypotheses, Stages
      <4>2. [stage |-> DualPassFinal, text |-> t].stage # StreamOnly
        BY DEF DualPassFinal, StreamOnly
      <4> QED BY <3>2, <4>1, <4>2
    <3> QED BY <1>7, <3>1, <3>2 DEF VerifierEntries, Fallback
  <2>2. l = Append(g, w)
    BY <1>2, <1>4, <2>1 DEF g
  <2>3. w.stage \in LegalStages(g)
    BY <1>1, <1>4, <2>1 DEF LegalStages, StreamFinal, Partial
  <2>4. MonotonicStages(l)
    BY <1>4, <1>5, <2>2, <2>3, AppendMonotonic
  <2>5. Len(l) = Len(g) + 1 /\ l[Len(g) + 1] = w /\ l[Len(g)] = h
    BY <1>4, <2>2
  <2>6. Len(l) - 1 = Len(g)
    BY <1>4, <2>5
  <2> QED BY <1>7, <2>1, <2>4, <2>5, <2>6 DEF EndsWell
<1> QED BY <1>6, <1>7

\* The inductive form of UtterancesWellFormed: the live log is monotonic too,
\* and a serving session has not yet recorded its current utterance.
UtteranceInv ==
  /\ UtterancesWellFormed
  /\ MonotonicStages(log)
  /\ state \in Serving =>
       \A i \in 1..Len(completed) : completed[i].utterance < utterance

\* A new session has no utterances.
LEMMA UtteranceInit == Init => UtteranceInv
BY DEF Init, UtteranceInv, UtterancesWellFormed, MonotonicStages

\* Recording an utterance that ends well, with audio, under the index no
\* recorded utterance has, keeps the list well formed.
LEMMA RecordWellFormed ==
  ASSUME TypeOK, UtteranceInv, state \in Serving, audio # <<>>,
         NEW l \in FinishedLogs,
         completed' = Append(completed,
           [utterance |-> utterance, items |-> l, audio |-> audio]),
         utterance' \in Nat, utterance' >= utterance
  PROVE  /\ UtterancesWellFormed'
         /\ utterance' > utterance =>
              \A i \in 1..Len(completed') : completed'[i].utterance < utterance'
<1> DEFINE record == [utterance |-> utterance, items |-> l, audio |-> audio]
           n == Len(completed)
<1>1. completed \in Seq(Utterances) /\ record \in Utterances /\ utterance \in Nat
  BY RecordedTyped DEF TypeOK
<1>2. MonotonicStages(l) /\ EndsWell(l)
  BY FinishedLogsEndWell DEF UtteranceInv
<1>3. record.utterance = utterance /\ record.items = l /\ record.audio = audio
  OBVIOUS
<1> HIDE DEF record
<1>4. /\ n \in Nat /\ Len(completed') = n + 1 /\ completed'[n + 1] = record
      /\ \A i \in 1..n : completed'[i] = completed[i]
  BY <1>1 DEF record
<1>5. \A i \in 1..n : completed[i].utterance \in Nat /\ completed[i].utterance < utterance
  <2> TAKE i \in 1..n
  <2>1. completed[i] \in Utterances
    BY <1>1, ElementTyped
  <2> QED BY <2>1 DEF Utterances, UtteranceInv
<1>6. ASSUME NEW i \in 1..n + 1
      PROVE  /\ i > 1 => completed'[i-1].utterance < completed'[i].utterance
             /\ completed'[i].utterance <= utterance'
             /\ utterance' > utterance => completed'[i].utterance < utterance'
  <2>1. CASE i = n + 1
    <3>1. completed'[i] = record /\ (i > 1 => i - 1 \in 1..n)
      BY <1>4, <2>1
    <3>2. i > 1 => completed'[i-1].utterance < utterance
      BY <1>4, <1>5, <3>1
    <3> QED BY <1>1, <1>3, <3>1, <3>2
  <2>2. CASE i # n + 1
    <3>1. i \in 1..n /\ (i > 1 => i - 1 \in 1..n)
      BY <1>4, <2>2
    <3>2. completed'[i] = completed[i] /\ (i > 1 => completed'[i-1] = completed[i-1])
      BY <1>4, <3>1
    <3>3. i > 1 => completed[i-1].utterance < completed[i].utterance
      BY <3>1 DEF UtteranceInv, UtterancesWellFormed
    <3> QED BY <1>1, <1>5, <3>1, <3>2, <3>3
  <2> QED BY <2>1, <2>2
<1>7. ASSUME NEW i \in 1..n + 1
      PROVE  /\ MonotonicStages(completed'[i].items)
             /\ completed'[i].audio # <<>>
             /\ EndsWell(completed'[i].items)
  <2>1. CASE i = n + 1
    BY <1>2, <1>3, <1>4, <2>1
  <2>2. CASE i # n + 1
    <3>1. i \in 1..n /\ completed'[i] = completed[i]
      BY <1>4, <2>2
    <3> QED BY <3>1 DEF UtteranceInv, UtterancesWellFormed, EndsWell
  <2> QED BY <2>1, <2>2
<1>8. UtterancesWellFormed'
  BY <1>4, <1>6, <1>7 DEF UtterancesWellFormed, EndsWell
<1> QED BY <1>4, <1>6, <1>8

\* No step spoils the finished utterances.
LEMMA UtteranceStep == TypeOK /\ UtteranceInv /\ [Next]_vars => UtteranceInv'
<1> SUFFICES ASSUME TypeOK, UtteranceInv, [Next]_vars PROVE UtteranceInv'
  OBVIOUS
<1>1. ASSUME UNCHANGED <<completed, utterance>>, MonotonicStages(log'),
             state' \in Serving => state \in Serving
      PROVE  UtteranceInv'
  BY <1>1 DEF UtteranceInv, UtterancesWellFormed
<1>2. ASSUME completed' = <<>>, MonotonicStages(log')
      PROVE  UtteranceInv'
  BY <1>2 DEF UtteranceInv, UtterancesWellFormed
<1>3. MonotonicStages(<<>>)
  BY DEF MonotonicStages
<1>4. MonotonicStages(log) /\ log \in Seq(Hypotheses) /\ utterance \in Nat
  BY DEF UtteranceInv, TypeOK
<1>5. CASE UNCHANGED vars
  BY <1>1, <1>4, <1>5 DEF vars
<1>6. CASE Next
  <2>1. CASE Unchanged
    BY <1>1, <1>4, <2>1 DEF Unchanged, utteranceVars
  <2>2. CASE Decodes
    <3>1. PICK seq \in FrameSequences, p \in Payloads, h \in Hypotheses :
            \/ IngestAccepted(seq, p, log)
            \/ Appendable(log, h) /\ IngestAccepted(seq, p, Append(log, h))
      BY <2>2 DEF Decodes
    <3>2. state \in Serving /\ UNCHANGED <<completed, utterance>>
      BY <3>1 DEF IngestAccepted, IngestVerdict, TakesAudio
    <3>3. MonotonicStages(log')
      <4>1. CASE IngestAccepted(seq, p, log)
        BY <1>4, <4>1 DEF IngestAccepted
      <4>2. CASE Appendable(log, h) /\ IngestAccepted(seq, p, Append(log, h))
        <5>1. MonotonicStages(Append(log, h))
          BY <1>4, <4>2, AppendMonotonic DEF Appendable
        <5> QED BY <4>2, <5>1 DEF IngestAccepted
      <4> QED BY <3>1, <4>1, <4>2
    <3> QED BY <1>1, <3>2, <3>3
  <2>3. CASE DecodingFails
    BY <1>1, <1>4, <2>3 DEF DecodingFails, IngestFailed, utteranceVars, Serving
  <2>4. CASE FinalizingFails
    BY <1>1, <1>4, <2>4 DEF FinalizingFails, FinalizeFails, utteranceVars, Serving
  <2>5. ASSUME NEW s, NEW b, Finishes(s, b)
        PROVE  UtteranceInv'
    <3>1. PICK l \in FinishedLogs : UtteranceClosed(l, s, b)
      BY <2>5 DEF Finishes
    <3>2. state \in Serving /\ audio # <<>>
      BY <2>5 DEF Finishes, FlushRefused, TakesAudio
    <3>3. /\ completed' = Append(completed,
               [utterance |-> utterance, items |-> l, audio |-> audio])
          /\ utterance' = utterance + 1 /\ log' = <<>>
      BY <3>1 DEF UtteranceClosed, CompleteUtterance, NextUtterance
    <3>4. utterance' \in Nat /\ utterance' >= utterance /\ utterance' > utterance
      BY <1>4, <3>3
    <3>5. /\ UtterancesWellFormed'
          /\ \A i \in 1..Len(completed') : completed'[i].utterance < utterance'
      BY <3>2, <3>3, <3>4, RecordWellFormed
    <3> QED BY <1>3, <3>3, <3>5 DEF UtteranceInv
  <2>6. CASE GetsStuck
    <3>1. PICK l \in FinishedLogs : UtteranceStuck(l)
      BY <2>6 DEF GetsStuck
    <3>2. state \in Serving /\ audio # <<>>
      BY <2>6 DEF GetsStuck, FlushRefused, TakesAudio
    <3>3. /\ completed' = Append(completed,
               [utterance |-> utterance, items |-> l, audio |-> audio])
          /\ utterance' = utterance /\ log' = l /\ state' = "draining"
      BY <3>1 DEF UtteranceStuck, CompleteUtterance
    <3>4. UtterancesWellFormed'
      <4>1. utterance' \in Nat /\ utterance' >= utterance
        BY <1>4, <3>3
      <4> QED BY <3>2, <3>3, <4>1, RecordWellFormed
    <3>5. MonotonicStages(log')
      BY <1>4, <3>3, FinishedLogsEndWell
    <3> QED BY <3>3, <3>4, <3>5 DEF UtteranceInv, Serving
  <2>7. CASE Renews
    BY <1>2, <1>3, <2>7 DEF Renews, ResetApplied
  <2>8. CASE RenewalRaises
    BY <1>2, <1>4, <2>8 DEF RenewalRaises, ResetRaised
  <2>9. CASE StopWithoutFlush
    BY <1>1, <1>4, <2>9 DEF StopWithoutFlush, CloseSession, Serving
  <2> QED BY <1>6, <2>1, <2>2, <2>3, <2>4, <2>5, <2>6, <2>7, <2>8, <2>9, StepKinds
<1> QED BY <1>5, <1>6

\* Every finished utterance has an identifier of its own, some audio, and a
\* revision log that ends in the stage the endpoint verifier's outcome calls for.
THEOREM UtterancesStayWellFormed == Spec => []UtterancesWellFormed
<1>1. UtteranceInv => UtterancesWellFormed
  BY DEF UtteranceInv
<1> QED BY <1>1, UtteranceInit, UtteranceStep, TypeCorrect, PTL DEF Spec

-----------------------------------------------------------------------------
(* The stream and its utterances *)

\* What is added to a sequence leaves its inner pieces alone.
LEMMA PieceOfConcat ==
  ASSUME NEW S, NEW s \in Seq(S), NEW p \in Seq(S),
         NEW a \in 0..Len(s), NEW b \in 0..Len(s)
  PROVE  SubSeq(s \o p, a + 1, b) = SubSeq(s, a + 1, b)
<1>1. CASE b < a + 1
  BY <1>1
<1>2. CASE a + 1 <= b
  <2>1. a + 1 \in 1..Len(s) /\ b \in 1..Len(s)
    BY <1>2
  <2> QED BY <2>1, SubSeqOfConcat1
<1> QED BY <1>1, <1>2

\* What is added to a sequence lengthens what follows any of its points.
LEMMA AfterConcat ==
  ASSUME NEW S, NEW s \in Seq(S), NEW p \in Seq(S), NEW k \in 0..Len(s)
  PROVE  After(s \o p, k) = After(s, k) \o p
<1> DEFINE n == Len(s)
           m == Len(p)
           whole == s \o p
<1>1. n \in Nat /\ m \in Nat /\ whole \in Seq(S) /\ Len(whole) = n + m
  OBVIOUS
<1>2. SubSeq(whole, k + 1, n) = SubSeq(s, k + 1, n)
  BY <1>1, PieceOfConcat
<1>3. SubSeq(whole, n + 1, n + m) = p
  <2>1. CASE m = 0
    <3>1. SubSeq(whole, n + 1, n + m) = <<>>
      BY <1>1, <2>1, SubSeqEmpty
    <3> QED BY <2>1, <3>1
  <2>2. CASE m # 0
    <3>1. n + 1 \in n + 1..n + m /\ n + m \in n + 1..n + m
      BY <1>1, <2>2
    <3>2. SubSeq(whole, n + 1, n + m) = SubSeq(p, n + 1 - n, n + m - n)
      BY <3>1, SubSeqOfConcat2
    <3>3. n + 1 - n = 1 /\ n + m - n = m
      BY <1>1
    <3> QED BY <3>2, <3>3, SubSeqFull
  <2> QED BY <2>1, <2>2
<1> HIDE DEF whole
<1>4. SubSeq(whole, k + 1, n + m) = SubSeq(whole, k + 1, n) \o SubSeq(whole, n + 1, n + m)
  <2>1. k + 1 \in 1..Len(whole) + 1 /\ n \in (k + 1) - 1..Len(whole) /\ n + m \in n..Len(whole)
    BY <1>1
  <2> QED BY <1>1, <2>1, ConcatAdjacentSubSeq
<1> QED BY <1>1, <1>2, <1>3, <1>4 DEF whole, After

\* Nothing follows the end of a sequence.
LEMMA AfterEnd ==
  ASSUME NEW S, NEW s \in Seq(S)
  PROVE  After(s, Len(s)) = <<>>
BY SubSeqEmpty DEF After

\* Do the cut points divide what was sent into the audio of the finished
\* utterances and what is left?
Divides(cut, done, sent, left) ==
  /\ cut \in [0..Len(done) -> 0..Len(sent)]
  /\ \A i \in 1..Len(done) :
       /\ cut[i-1] <= cut[i]
       /\ done[i].audio = SubSeq(sent, cut[i-1] + 1, cut[i])
  /\ left = After(sent, cut[Len(done)])
  /\ ~ResetMayRaise => cut[0] = 0

\* The partition of the stream, with its parts as parameters.
LEMMA PartitionHasCuts ==
  /\ UtterancesPartitionStream <=> \E cut : Divides(cut, completed, received, audio)
  /\ UtterancesPartitionStream' <=> \E cut : Divides(cut, completed', received', audio')
BY DEF UtterancesPartitionStream, Divides

\* A new stream is divided by its start.
LEMMA FreshIsDivided == \E cut : Divides(cut, <<>>, <<>>, <<>>)
<1> DEFINE cut == [i \in 0..0 |-> 0]
<1>1. Len(<<>>) = 0
  OBVIOUS
<1>2. cut \in [0..0 -> 0..0] /\ cut[0] = 0
  OBVIOUS
<1>3. After(<<>>, 0) = <<>>
  BY <1>1, AfterEnd, EmptySeq
<1> HIDE DEF cut
<1>4. Divides(cut, <<>>, <<>>, <<>>)
  BY <1>1, <1>2, <1>3 DEF Divides
<1> QED BY <1>4

\* When recognizer.reset() may raise, a stream whose utterances were forgotten
\* is divided by its end.
LEMMA ForgottenIsDivided ==
  ASSUME ResetMayRaise, NEW sent \in Seq(Samples)
  PROVE  \E cut : Divides(cut, <<>>, sent, <<>>)
<1> DEFINE cut == [i \in 0..0 |-> Len(sent)]
<1>1. Len(<<>>) = 0 /\ Len(sent) \in 0..Len(sent)
  OBVIOUS
<1>2. cut \in [0..0 -> 0..Len(sent)] /\ cut[0] = Len(sent)
  BY <1>1
<1>3. After(sent, Len(sent)) = <<>>
  BY AfterEnd
<1> HIDE DEF cut
<1>4. Divides(cut, <<>>, sent, <<>>)
  BY <1>1, <1>2, <1>3 DEF Divides
<1> QED BY <1>4

\* A frame lengthens what is left and moves no cut point.
LEMMA GrownIsDivided ==
  ASSUME NEW done \in Seq(Utterances), NEW sent \in Seq(Samples), NEW left,
         NEW p \in Seq(Samples), NEW cut, Divides(cut, done, sent, left)
  PROVE  Divides(cut, done, sent \o p, left \o p)
<1> DEFINE n == Len(done)
<1>1. /\ n \in Nat /\ Len(sent) \in Nat /\ Len(p) \in Nat
      /\ Len(sent \o p) = Len(sent) + Len(p)
  OBVIOUS
<1>2. cut \in [0..n -> 0..Len(sent)] /\ \A i \in 0..n : cut[i] \in 0..Len(sent)
  BY DEF Divides
<1>3. cut \in [0..n -> 0..Len(sent \o p)]
  <2>1. 0..Len(sent) \subseteq 0..Len(sent \o p)
    BY <1>1
  <2> QED BY <1>2, <2>1
<1>4. ASSUME NEW i \in 1..n
      PROVE  /\ cut[i-1] <= cut[i]
             /\ done[i].audio = SubSeq(sent \o p, cut[i-1] + 1, cut[i])
  <2>1. i \in 0..n /\ i - 1 \in 0..n
    BY <1>1
  <2>2. SubSeq(sent \o p, cut[i-1] + 1, cut[i]) = SubSeq(sent, cut[i-1] + 1, cut[i])
    BY <1>2, <2>1, PieceOfConcat
  <2> QED BY <2>2 DEF Divides
<1>5. left \o p = After(sent \o p, cut[n])
  <2>1. cut[n] \in 0..Len(sent)
    BY <1>1, <1>2
  <2>2. After(sent \o p, cut[n]) = After(sent, cut[n]) \o p
    BY <2>1, AfterConcat
  <2> QED BY <2>2 DEF Divides
<1> QED BY <1>3, <1>4, <1>5 DEF Divides

\* A finished utterance with all that is left moves the last cut point to the
\* end.
LEMMA RecordedIsDivided ==
  ASSUME NEW done \in Seq(Utterances), NEW sent \in Seq(Samples),
         NEW record \in Utterances, NEW cut, Divides(cut, done, sent, record.audio)
  PROVE  \E c : Divides(c, Append(done, record), sent, <<>>)
<1> DEFINE n == Len(done)
           m == Len(sent)
           c == [i \in 0..n + 1 |-> IF i <= n THEN cut[i] ELSE m]
           grown == Append(done, record)
<1>1. /\ n \in Nat /\ m \in Nat
      /\ Len(grown) = n + 1 /\ grown[n + 1] = record
      /\ \A i \in 1..n : grown[i] = done[i]
  OBVIOUS
<1>2. cut \in [0..n -> 0..m] /\ \A i \in 0..n : cut[i] \in 0..m
  BY DEF Divides
<1>3. c[n + 1] = m /\ \A i \in 0..n : c[i] = cut[i]
  BY <1>1
<1>4. c \in [0..n + 1 -> 0..m]
  <2>1. \A i \in 0..n + 1 : (IF i <= n THEN cut[i] ELSE m) \in 0..m
    BY <1>1, <1>2
  <2> QED BY <2>1
<1> HIDE DEF c, grown
<1>5. ASSUME NEW i \in 1..n + 1
      PROVE  /\ c[i-1] <= c[i]
             /\ grown[i].audio = SubSeq(sent, c[i-1] + 1, c[i])
  <2>1. CASE i = n + 1
    <3>1. c[i] = m /\ c[i-1] = cut[n] /\ cut[n] \in 0..m
      BY <1>1, <1>2, <1>3, <2>1
    <3>2. grown[i].audio = After(sent, cut[n])
      BY <1>1, <2>1 DEF Divides
    <3> QED BY <1>1, <3>1, <3>2 DEF After
  <2>2. CASE i # n + 1
    <3>1. i \in 1..n /\ i \in 0..n /\ i - 1 \in 0..n
      BY <1>1, <2>2
    <3>2. c[i] = cut[i] /\ c[i-1] = cut[i-1] /\ grown[i] = done[i]
      BY <1>1, <1>3, <3>1
    <3> QED BY <3>1, <3>2 DEF Divides
  <2> QED BY <2>1, <2>2
<1>6. c[0] = cut[0]
  BY <1>1, <1>3
<1>7. After(sent, c[n + 1]) = <<>>
  BY <1>3, AfterEnd
<1>8. Divides(c, grown, sent, <<>>)
  BY <1>1, <1>4, <1>5, <1>6, <1>7 DEF Divides
<1> QED BY <1>8 DEF grown

\* What an accepted frame does to the stream: it is appended whole, for the
\* limit checks leave room for all of it in the ring buffer.
LEMMA DecodesAppends ==
  ASSUME TypeOK, Decodes
  PROVE  \E p \in Payloads :
           /\ p \in Seq(Samples)
           /\ audio' = audio \o p /\ heard' = heard \o p /\ received' = received \o p
           /\ total' = total + Len(p) /\ completed' = completed
           /\ state \in Serving
           /\ total + Len(p) <= MaxSessionSamples
           /\ Len(audio) + Len(p) <= MaxUtteranceSamples
<1>1. PICK seq \in FrameSequences, p \in Payloads, h \in Hypotheses :
        \/ IngestAccepted(seq, p, log)
        \/ IngestAccepted(seq, p, Append(log, h))
  BY DEF Decodes
<1>2. /\ IngestVerdict(seq, p) = "decode"
      /\ audio' = Newest(audio \o p, MaxUtteranceSamples)
      /\ heard' = heard \o p /\ received' = received \o p
      /\ total' = total + Len(p) /\ completed' = completed
  BY <1>1 DEF IngestAccepted, Buffered
<1>3. state \in Serving /\ ~OverLimit(p)
  BY <1>2 DEF IngestVerdict, TakesAudio
<1>4. /\ audio \in Seq(Samples) /\ p \in Seq(Samples) /\ total \in Nat
      /\ MaxUtteranceSamples \in Nat /\ MaxSessionSamples \in Nat
  BY SessionAssumption DEF TypeOK
<1>5. /\ Len(audio) + Len(p) <= MaxUtteranceSamples
      /\ total + Len(p) <= MaxSessionSamples
  BY <1>3, <1>4 DEF OverLimit
<1>6. audio' = audio \o p
  <2>1. Len(audio \o p) <= MaxUtteranceSamples
    BY <1>4, <1>5
  <2> QED BY <1>2, <2>1 DEF Newest
<1> QED BY <1>2, <1>3, <1>4, <1>5, <1>6

\* What the end of an utterance does to the stream: all the buffered audio
\* goes to the finished utterance.
LEMMA FinishRecords ==
  ASSUME TypeOK, (\E s, b : Finishes(s, b)) \/ GetsStuck
  PROVE  \E record \in Utterances :
           /\ record.audio = audio
           /\ completed' = Append(completed, record)
           /\ audio' = <<>>
           /\ UNCHANGED <<received, total>>
<1>1. PICK l \in FinishedLogs : CompleteUtterance(l) /\ UNCHANGED <<received, total>>
  BY DEF Finishes, GetsStuck, UtteranceClosed, UtteranceStuck, stream
<1> DEFINE record == [utterance |-> utterance, items |-> l, audio |-> audio]
<1>2. record \in Utterances /\ record.audio = audio
  BY RecordedTyped
<1>3. completed' = Append(completed, record) /\ audio' = <<>>
  BY <1>1 DEF CompleteUtterance
<1> HIDE DEF record
<1> QED BY <1>1, <1>2, <1>3

\* A new session has received nothing.
LEMMA PartitionInit == Init => UtterancesPartitionStream
BY FreshIsDivided, PartitionHasCuts DEF Init

\* Every step keeps the stream divided into its utterances.
LEMMA PartitionStep ==
  TypeOK /\ UtterancesPartitionStream /\ [Next]_vars => UtterancesPartitionStream'
<1> SUFFICES ASSUME TypeOK, UtterancesPartitionStream, [Next]_vars
             PROVE  UtterancesPartitionStream'
  OBVIOUS
<1>0. /\ completed \in Seq(Utterances) /\ received \in Seq(Samples)
      /\ audio \in Seq(Samples)
  BY DEF TypeOK, Utterances
<1>1. PICK cut : Divides(cut, completed, received, audio)
  BY PartitionHasCuts
<1>2. ASSUME UNCHANGED <<completed, received, audio>>
      PROVE  UtterancesPartitionStream'
  BY <1>1, <1>2, PartitionHasCuts
<1>3. CASE UNCHANGED vars
  BY <1>2, <1>3 DEF vars
<1>4. CASE Next
  <2>1. CASE Unchanged
    BY <1>2, <2>1 DEF Unchanged, stream, utteranceVars
  <2>2. CASE Decodes
    <3>1. PICK p \in Payloads :
            /\ p \in Seq(Samples)
            /\ audio' = audio \o p /\ received' = received \o p
            /\ completed' = completed
      BY <2>2, DecodesAppends
    <3>2. Divides(cut, completed, received \o p, audio \o p)
      BY <1>0, <1>1, <3>1, GrownIsDivided
    <3> QED BY <3>1, <3>2, PartitionHasCuts
  <2>3. CASE DecodingFails
    BY <1>2, <2>3 DEF DecodingFails, IngestFailed, stream, utteranceVars
  <2>4. CASE FinalizingFails
    BY <1>2, <2>4 DEF FinalizingFails, FinalizeFails, stream, utteranceVars
  <2>5. ASSUME (\E s, b : Finishes(s, b)) \/ GetsStuck
        PROVE  UtterancesPartitionStream'
    <3>1. PICK record \in Utterances :
            /\ record.audio = audio
            /\ completed' = Append(completed, record)
            /\ audio' = <<>> /\ received' = received
      BY <2>5, FinishRecords
    <3>2. \E c : Divides(c, Append(completed, record), received, <<>>)
      BY <1>0, <1>1, <3>1, RecordedIsDivided
    <3> QED BY <3>1, <3>2, PartitionHasCuts
  <2>6. CASE Renews
    <3>1. completed' = <<>> /\ received' = <<>> /\ audio' = <<>>
      BY <2>6 DEF Renews, ResetApplied, NewStream
    <3> QED BY <3>1, FreshIsDivided, PartitionHasCuts
  <2>7. CASE RenewalRaises
    <3>1. ResetMayRaise /\ completed' = <<>> /\ received' = received /\ audio' = <<>>
      BY <2>7 DEF RenewalRaises, ResetRaised
    <3> QED BY <1>0, <3>1, ForgottenIsDivided, PartitionHasCuts
  <2>8. CASE StopWithoutFlush
    BY <1>2, <2>8 DEF StopWithoutFlush, CloseSession, stream
  <2> QED BY <1>4, <2>1, <2>2, <2>3, <2>4, <2>5, <2>6, <2>7, <2>8, StepKinds
<1> QED BY <1>3, <1>4

\* No sample is lost, repeated or reordered on the way from the accepted frames
\* to the audio of the utterances.
THEOREM StreamStaysPartitioned == Spec => []UtterancesPartitionStream
BY PartitionInit, PartitionStep, TypeCorrect, PTL DEF Spec

\* A new session is within its limits.
LEMMA LimitsInit == Init => LimitsHold
BY SessionAssumption DEF Init, LimitsHold

\* No step exceeds a limit.
LEMMA LimitsStep == TypeOK /\ LimitsHold /\ [Next]_vars => LimitsHold'
<1> SUFFICES ASSUME TypeOK, LimitsHold, [Next]_vars PROVE LimitsHold'
  OBVIOUS
<1>0. /\ completed \in Seq(Utterances) /\ received \in Seq(Samples)
      /\ audio \in Seq(Samples) /\ total \in Nat
      /\ MaxUtteranceSamples \in Nat /\ MaxSessionSamples \in Nat
  BY SessionAssumption DEF TypeOK, Utterances
<1>1. Len(<<>>) = 0
  OBVIOUS
<1>2. ASSUME UNCHANGED <<completed, received, audio, total>>
      PROVE  LimitsHold'
  BY <1>2 DEF LimitsHold
<1>3. CASE UNCHANGED vars
  BY <1>2, <1>3 DEF vars
<1>4. CASE Next
  <2>1. CASE Unchanged
    BY <1>2, <2>1 DEF Unchanged, stream, utteranceVars
  <2>2. CASE Decodes
    <3>1. PICK p \in Payloads :
            /\ p \in Seq(Samples)
            /\ audio' = audio \o p /\ received' = received \o p
            /\ total' = total + Len(p) /\ completed' = completed
            /\ total + Len(p) <= MaxSessionSamples
            /\ Len(audio) + Len(p) <= MaxUtteranceSamples
      BY <2>2, DecodesAppends
    <3>2. /\ Len(audio') = Len(audio) + Len(p)
          /\ Len(received') = Len(received) + Len(p)
      BY <1>0, <3>1
    <3> QED BY <3>1, <3>2 DEF LimitsHold
  <2>3. CASE DecodingFails
    BY <1>2, <2>3 DEF DecodingFails, IngestFailed, stream, utteranceVars
  <2>4. CASE FinalizingFails
    BY <1>2, <2>4 DEF FinalizingFails, FinalizeFails, stream, utteranceVars
  <2>5. ASSUME (\E s, b : Finishes(s, b)) \/ GetsStuck
        PROVE  LimitsHold'
    <3>1. PICK record \in Utterances :
            /\ record.audio = audio
            /\ completed' = Append(completed, record)
            /\ audio' = <<>> /\ UNCHANGED <<received, total>>
      BY <2>5, FinishRecords
    <3>2. /\ Len(completed') = Len(completed) + 1
          /\ completed'[Len(completed) + 1] = record
          /\ \A i \in 1..Len(completed) : completed'[i] = completed[i]
      BY <1>0, <3>1
    <3>3. ASSUME NEW i \in 1..Len(completed')
          PROVE  Len(completed'[i].audio) <= MaxUtteranceSamples
      <4>1. CASE i = Len(completed) + 1
        BY <3>1, <3>2, <4>1 DEF LimitsHold
      <4>2. CASE i # Len(completed) + 1
        <5>1. i \in 1..Len(completed) /\ completed'[i] = completed[i]
          BY <1>0, <3>2, <4>2
        <5> QED BY <5>1 DEF LimitsHold
      <4> QED BY <4>1, <4>2
    <3> QED BY <1>0, <1>1, <3>1, <3>3 DEF LimitsHold
  <2>6. CASE Renews
    BY <1>0, <1>1, <2>6 DEF Renews, ResetApplied, NewStream, LimitsHold
  <2>7. CASE RenewalRaises
    BY <1>0, <1>1, <2>7 DEF RenewalRaises, ResetRaised, LimitsHold
  <2>8. CASE StopWithoutFlush
    BY <1>2, <2>8 DEF StopWithoutFlush, CloseSession, stream
  <2> QED BY <1>4, <2>1, <2>2, <2>3, <2>4, <2>5, <2>6, <2>7, <2>8, StepKinds
<1> QED BY <1>3, <1>4

\* The session never takes more than its limits, counts what it took, and
\* gives no verifier pass more audio than one utterance may have.
THEOREM LimitsAlwaysHold == Spec => []LimitsHold
BY LimitsInit, LimitsStep, TypeCorrect, PTL DEF Spec

-----------------------------------------------------------------------------
(* The decoder *)

\* The decoder of a new session has heard nothing.
LEMMA DecoderInit == Init => DecoderInSync
<1> SUFFICES ASSUME Init PROVE DecoderInSync
  OBVIOUS
<1>1. audio = <<>> /\ heard = <<>> /\ Len(heard) = 0
  BY DEF Init
<1>2. audio = After(heard, 0) /\ 0 \in 0..Len(heard)
  <2>1. heard \in Seq(Samples)
    BY <1>1
  <2>2. After(heard, Len(heard)) = <<>>
    BY <2>1, AfterEnd
  <2> QED BY <1>1, <2>2
<1> QED BY <1>1, <1>2 DEF DecoderInSync

\* No step that leaves the session serving puts the decoder out of step.
LEMMA DecoderStep == TypeOK /\ DecoderInSync /\ [Next]_vars => DecoderInSync'
<1> SUFFICES ASSUME TypeOK, DecoderInSync, [Next]_vars PROVE DecoderInSync'
  OBVIOUS
<1>0. heard \in Seq(Samples) /\ audio \in Seq(Samples)
  BY DEF TypeOK
<1>1. ASSUME UNCHANGED <<state, heard, audio>> PROVE DecoderInSync'
  BY <1>1 DEF DecoderInSync
<1>2. ASSUME state' \notin Serving PROVE DecoderInSync'
  BY <1>2 DEF DecoderInSync
<1>3. ASSUME audio' = <<>>, heard' \in Seq(Samples), ~ResetMayRaise => heard' = <<>>
      PROVE  DecoderInSync'
  <2>1. After(heard', Len(heard')) = <<>> /\ Len(heard') \in 0..Len(heard')
    BY <1>3, AfterEnd
  <2> QED BY <1>3, <2>1 DEF DecoderInSync
<1>4. CASE UNCHANGED vars
  BY <1>1, <1>4 DEF vars
<1>5. CASE Next
  <2>1. CASE Unchanged
    BY <1>1, <2>1 DEF Unchanged, utteranceVars
  <2>2. CASE Decodes
    <3>1. PICK p \in Payloads :
            /\ p \in Seq(Samples)
            /\ audio' = audio \o p /\ heard' = heard \o p
            /\ state \in Serving
      BY <2>2, DecodesAppends
    <3>2. PICK k \in 0..Len(heard) : audio = After(heard, k)
      BY <3>1 DEF DecoderInSync
    <3>3. After(heard \o p, k) = After(heard, k) \o p
      BY <1>0, <3>1, AfterConcat
    <3>4. audio' = After(heard', k)
      BY <3>1, <3>2, <3>3
    <3>5. k \in 0..Len(heard')
      <4>1. Len(heard') = Len(heard) + Len(p) /\ Len(p) \in Nat /\ Len(heard) \in Nat
        BY <1>0, <3>1
      <4> QED BY <4>1
    <3>6. ~ResetMayRaise => heard' = audio'
      BY <3>1 DEF DecoderInSync
    <3> QED BY <3>4, <3>5, <3>6 DEF DecoderInSync
  <2>3. CASE DecodingFails
    BY <1>2, <2>3 DEF DecodingFails, IngestFailed, Serving
  <2>4. CASE FinalizingFails
    BY <1>2, <2>4 DEF FinalizingFails, FinalizeFails, Serving
  <2>5. ASSUME NEW s, NEW b, Finishes(s, b) PROVE DecoderInSync'
    <3>1. audio' = <<>> /\ heard' = <<>>
      BY <2>5 DEF Finishes, UtteranceClosed, CompleteUtterance, DecoderReset
    <3> QED BY <1>3, <3>1, EmptySeq
  <2>6. CASE GetsStuck
    BY <1>2, <2>6 DEF GetsStuck, UtteranceStuck, Serving
  <2>7. CASE Renews
    <3>1. audio' = <<>> /\ heard' = <<>>
      BY <2>7 DEF Renews, ResetApplied, DecoderReset
    <3> QED BY <1>3, <3>1, EmptySeq
  <2>8. CASE RenewalRaises
    <3>1. ResetMayRaise /\ audio' = <<>> /\ heard' \in {heard, <<>>}
      BY <2>8 DEF RenewalRaises, ResetRaised
    <3>2. heard' \in Seq(Samples)
      BY <1>0, <3>1, EmptySeq, Zenon
    <3> QED BY <1>3, <3>1, <3>2
  <2>9. CASE StopWithoutFlush
    BY <1>2, <2>9 DEF StopWithoutFlush, CloseSession, Serving
  <2> QED BY <1>5, <2>1, <2>2, <2>3, <2>4, <2>5, <2>6, <2>7, <2>8, <2>9, StepKinds
<1> QED BY <1>4, <1>5

\* A serving session's decoder has heard the audio of the current utterance,
\* and nothing else unless one of its resets has raised.
THEOREM DecoderStaysInSync == Spec => []DecoderInSync
BY DecoderInit, DecoderStep, TypeCorrect, PTL DEF Spec
=============================================================================
