----------------------------- MODULE RevisionLog -----------------------------
(***************************************************************************)
(* The revision history of one utterance (cascade/revisions.py).           *)
(*                                                                         *)
(* A log is a sequence of revisions; the revision number of an entry is    *)
(* its position and it replaces the entry before it.  Only the stage and   *)
(* the text of a revision are kept: scores, lanes and timings are data the *)
(* properties do not look at.  The text is a member of Texts; Blank stands *)
(* for every text that is empty after strip().                             *)
(***************************************************************************)
EXTENDS Naturals, Sequences

CONSTANTS Texts,   \* the transcripts a backend may return
          Blank    \* the one that is empty after strip()

ASSUME TextAssumption == Blank \in Texts

Partial       == "partial"
StreamFinal   == "stream_final"
DualPassFinal == "dual_pass_final"
StreamOnly    == "stream_only"

Stages == {Partial, StreamFinal, DualPassFinal, StreamOnly}

Hypotheses == [stage : Stages, text : Texts]

\* The table of legal transitions: the stages that may follow the log's
\* latest revision.
LegalStages(log) ==
  IF log = <<>> \/ log[Len(log)].stage = Partial THEN {Partial, StreamFinal}
  ELSE IF log[Len(log)].stage = StreamFinal THEN {DualPassFinal, StreamOnly}
  ELSE {}

\* append() raises ValueError instead of appending when this is false.
Appendable(log, hypothesis) ==
  /\ hypothesis.stage = Partial => hypothesis.text # Blank
  /\ hypothesis.stage \in LegalStages(log)

-----------------------------------------------------------------------------
\* What every log looks like, whoever appended to it: partials, then one
\* stream_final, then at most one final stage.
MonotonicStages(log) ==
  \A i \in 1..Len(log) :
    /\ log[i].stage = Partial => i = 1 \/ log[i-1].stage = Partial
    /\ log[i].stage = StreamFinal => i = 1 \/ log[i-1].stage = Partial
    /\ log[i].stage \in {DualPassFinal, StreamOnly} =>
         i > 1 /\ log[i-1].stage = StreamFinal
=============================================================================
