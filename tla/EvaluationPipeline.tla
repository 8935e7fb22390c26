-------------------------- MODULE EvaluationPipeline --------------------------
(***************************************************************************)
(* From an extracted data set to a published score: the preparation of a   *)
(* manifest (evaluation/aishell.py), the manifest runner (runner.py), the  *)
(* evaluator (scripts/evaluate_manifest.py), and the JSON files through    *)
(* which they hand each other evidence (evidence_io.py).                   *)
(*                                                                         *)
(* The commands run in any order and at the same time, with any arguments; *)
(* meanwhile files are replaced, the data set is extracted again and       *)
(* outputs are deleted.  A digest is the content it was computed from, and *)
(* a hypothesis is what it was computed from: the audio and the models.    *)
(***************************************************************************)
EXTENDS Naturals, Sequences, FiniteSets, SequencesExt

CONSTANTS
  Order,         \* the utterances in the order of their paths
  SplitOf,       \* split of each utterance
  SpeakerOf,     \* speaker of each utterance
  Original,      \* content of each WAV file in the archives
  Contents,      \* contents of audio files
  Texts,         \* contents of the transcript
  OriginalText,  \* its content in the archives
  Weights,       \* contents of a model file
  FirstWeights,  \* the content each of them has at first
  Plausible,     \* those of at least MINIMUM_ARTIFACT_BYTES
  Extractions,   \* argument sets of the extraction: [splits, limit]
  Preparations,  \* argument sets of the preparation:
                 \* [splits, speakers, authorized, bound]
  Runs,          \* argument sets of the runner: [real, dual, warmup], and what
                 \* its interpreter can say of its environment: [known]
  Absent,        \* no such file, or null
  Torn,          \* a file whose writing was interrupted
  MaxFaults,     \* model bound on crashes and failures
  MaxChanges,    \* model bound on replaced files
  Restores       \* files and markers may get back a content they had before

Utterances == ToSet(Order)
Splits == {SplitOf[u] : u \in Utterances}
ModelFiles == {"streaming", "verifier"}
Commands == {"prepare", "run", "evaluate"}

\* What the commands publish: rows, markers, manifests, results and reports.
Rows == Seq([id : Utterances, audio : Contents, text : Texts])
Loads == [ModelFiles -> Weights \cup {Absent}]
\* The machine, and the versions of the packages that use a model file.
Environments == SUBSET ({"host"} \cup ModelFiles)
ResultRows ==
  Seq([id : Utterances, audio : Contents, text : Texts, hyp : [audio : Contents, by : Loads]])
Markers ==
  [splits : SUBSET Splits, limit : Nat, audio : [Utterances -> Contents \cup {Absent}], text : Texts]
Selections ==
  [splits : SUBSET Splits, speakers : Nat, extraction : Nat,
   chosen : SUBSET {SpeakerOf[u] : u \in Utterances}, rows : Nat]
Manifests ==
  [kind : {"manifest"}, authorized : BOOLEAN, frozen : {FALSE}, marker : Markers \cup {Absent},
   selection : Selections, rows : Rows]
Results ==
  [kind : {"result"}, authorized : BOOLEAN, frozen : BOOLEAN, marker : Markers \cup {Absent},
   selection : Selections, real : BOOLEAN, dual : BOOLEAN, artifacts : Loads,
   warmup : Contents \cup {Absent}, known : Environments, rows : ResultRows]
Reports == [kind : {"report"}, evaluated : BOOLEAN, source : Results \cup {Absent}]

ASSUME PipelineAssumption ==
  /\ Order \in Seq(Utterances) /\ IsInjective(Order)
  /\ Original \in [Utterances -> Contents]
  /\ OriginalText \in Texts
  /\ FirstWeights \in Weights
  /\ Plausible \subseteq Weights
  /\ Extractions \subseteq [splits : SUBSET Splits, limit : Nat]
  /\ Preparations \subseteq [splits : SUBSET Splits, speakers : Nat, authorized : BOOLEAN, bound : BOOLEAN]
  /\ Runs \subseteq [real : BOOLEAN, dual : BOOLEAN, warmup : Contents \cup {Absent},
                    known : Environments]
  /\ Absent \notin Utterances \cup Contents \cup Texts \cup Weights
  /\ \A x \in {Absent, Torn} : x \notin Manifests \cup Results \cup Reports
  /\ Restores \in BOOLEAN
  /\ MaxFaults \in Nat /\ MaxChanges \in Nat

VARIABLES
  ext,     \* the extraction root: WAV files, transcript, marker
  model,   \* the model files
  json,    \* output of each command, with its temporary sibling
  cmd,     \* the command of each kind that is running
  used,    \* contents the files and the marker have had
  faults,
  changes

vars == <<ext, model, json, cmd, used, faults, changes>>
world == <<ext, model, used, faults, changes>>

-----------------------------------------------------------------------------
(* The extraction root *)

\* The speakers of a split that have a WAV file, and the first k of them.
Speakers(audio, s) == {SpeakerOf[u] : u \in {x \in Utterances : SplitOf[x] = s /\ audio[x] # Absent}}
FirstOf(S, k) == IF k = 0 THEN S ELSE {n \in S : Cardinality({j \in S : j < n}) < k}

\* What extract_aishell publishes for a selection.
Fresh(splits, limit) ==
  LET wanted(u) == /\ SplitOf[u] \in splits
                   /\ SpeakerOf[u] \in FirstOf(Speakers(Original, SplitOf[u]), limit)
      audio == [u \in Utterances |-> IF wanted(u) THEN Original[u] ELSE Absent]
  IN  [audio |-> audio, text |-> OriginalText,
       marker |-> [splits |-> splits, limit |-> limit, audio |-> audio, text |-> OriginalText]]

\* validate_aishell_extraction recomputes the tree.
ExtractionValid == ext.marker.audio = ext.audio /\ ext.marker.text = ext.text

Idle ==
  [pc |-> "idle", args |-> Absent, marker |-> Absent, text |-> Absent, todo |-> {},
   rows |-> <<>>, source |-> Absent, artifacts |-> Absent, loaded |-> Absent,
   item |-> Absent, payload |-> Absent]

Init ==
  /\ \E e \in Extractions : ext = Fresh(e.splits, e.limit)
  /\ model = [f \in ModelFiles |-> FirstWeights]
  /\ json = [c \in Commands |-> [file |-> Absent, tmp |-> Absent]]
  /\ cmd = [c \in Commands |-> Idle]
  /\ used = {FirstWeights, OriginalText, ext.marker} \cup {Original[u] : u \in Utterances}
  /\ faults = 0
  /\ changes = 0

At(c, pc) == cmd[c].pc = pc
Go(c, pc) == cmd' = [cmd EXCEPT ![c].pc = pc]
Raise(c) == cmd' = [cmd EXCEPT ![c] = Idle]
Continue(c, state) == cmd' = [cmd EXCEPT ![c] = state]

\* ensure_new_json_path.
New(c) == json[c] = [file |-> Absent, tmp |-> Absent]

\* The contents of the rows' audio.
AudioOf(rows) == {rows[k].audio : k \in 1..Len(rows)}
SplitsOf(rows) == {SplitOf[rows[k].id] : k \in 1..Len(rows)}
SpeakersOf(rows) == {SpeakerOf[rows[k].id] : k \in 1..Len(rows)}

-----------------------------------------------------------------------------
(* write_json_new *)

Publish(c, payload) == Continue(c, [cmd[c] EXCEPT !.pc = "write", !.payload = payload])

CreateTmp(c) ==
  /\ At(c, "write")
  /\ IF New(c) THEN /\ json' = [json EXCEPT ![c].tmp = Torn]
                    /\ Go(c, "fill")
     ELSE UNCHANGED json /\ Raise(c)

FillTmp(c) ==
  /\ At(c, "fill")
  /\ json' = [json EXCEPT ![c].tmp = cmd[c].payload]
  /\ Go(c, "link")

\* Mutant: the output is opened under its own name and written there.
LinkTmp_InPlace(c) ==
  \/ At(c, "fill") /\ json' = [json EXCEPT ![c].file = Torn] /\ Go(c, "link")
  \/ At(c, "link") /\ json' = [json EXCEPT ![c].file = cmd[c].payload] /\ Go(c, "unlink")

LinkTmp(c) ==
  /\ At(c, "link")
  /\ json' = [json EXCEPT ![c].file = json[c].tmp]
  /\ Go(c, "unlink")

UnlinkTmp(c) ==
  /\ At(c, "unlink")
  /\ json' = [json EXCEPT ![c].tmp = Absent]
  /\ Raise(c)

Write(c) == CreateTmp(c) \/ FillTmp(c) \/ LinkTmp(c) \/ UnlinkTmp(c)

-----------------------------------------------------------------------------
(* prepare_aishell_manifest *)

\* An authorized evaluation takes one whole split, bound to its extraction.
ArgumentsValid(a) ==
  a.authorized => Cardinality(a.splits) = 1 /\ a.speakers = 0 /\ a.bound

\* The extraction is valid, has the splits, and is whole if that matters.
Covers(a) ==
  a.bound => /\ ExtractionValid
             /\ a.splits \subseteq ext.marker.splits
             /\ a.authorized => ext.marker.limit = 0

BeginPrepare(a) ==
  /\ At("prepare", "idle") /\ New("prepare")
  /\ ArgumentsValid(a) /\ Covers(a)
  /\ Continue("prepare", [Idle EXCEPT !.pc = "list", !.args = a,
                                      !.marker = IF a.bound THEN ext.marker ELSE Absent])

\* The transcript, and the directories of each split.
List ==
  LET p == cmd["prepare"]
      selected == {u \in Utterances :
                     /\ ext.audio[u] # Absent
                     /\ SplitOf[u] \in p.args.splits
                     /\ SpeakerOf[u] \in FirstOf(Speakers(ext.audio, SplitOf[u]), p.args.speakers)}
  IN  /\ At("prepare", "list")
      /\ IF \A s \in p.args.splits : Speakers(ext.audio, s) # {}
         THEN Continue("prepare", [p EXCEPT !.pc = "scan", !.text = ext.text, !.todo = selected])
         ELSE Raise("prepare")

\* The next WAV file in the order of the paths; its content must be new.
Scan ==
  LET p == cmd["prepare"]
  IN  /\ At("prepare", "scan")
      /\ \E k \in 1..Len(Order) :
           LET u == Order[k]
           IN  /\ u \in p.todo /\ \A j \in 1..k - 1 : Order[j] \notin p.todo
               /\ IF ext.audio[u] \notin {Absent} \cup AudioOf(p.rows)
                  THEN Continue("prepare", [p EXCEPT !.todo = @ \ {u},
                         !.rows = Append(@, [id |-> u, audio |-> ext.audio[u], text |-> p.text])])
                  ELSE Raise("prepare")

\* Mutant: the extraction is not validated again after the scan.
Unmoved_Once == TRUE

\* The extraction is validated again, with the same evidence.
Unmoved ==
  cmd["prepare"].args.bound => ExtractionValid /\ ext.marker = cmd["prepare"].marker

Selection(p) ==
  [splits |-> p.args.splits, speakers |-> p.args.speakers,
   extraction |-> IF p.args.bound THEN p.marker.limit ELSE 0,
   chosen |-> SpeakersOf(p.rows), rows |-> Len(p.rows)]

EndScan ==
  LET p == cmd["prepare"]
  IN  /\ At("prepare", "scan") /\ p.todo = {}
      /\ IF Unmoved
         THEN Publish("prepare",
                [kind |-> "manifest", authorized |-> p.args.authorized, frozen |-> FALSE,
                 marker |-> p.marker, selection |-> Selection(p), rows |-> p.rows])
         ELSE Raise("prepare")

Prepare == (\E a \in Preparations : BeginPrepare(a)) \/ List \/ Scan \/ EndScan

-----------------------------------------------------------------------------
(* Checks of the evidence the runner and the evaluator share *)

\* validate_dataset_provenance and validate_dataset_selection.
DatasetValid(m) ==
  /\ m.marker # Absent
  /\ m.selection.speakers = 0 /\ m.selection.extraction = 0
  /\ m.selection.splits = SplitsOf(m.rows)
  /\ m.selection.rows = Len(m.rows)
  /\ m.selection.chosen = SpeakersOf(m.rows)

\* _validate_manifest; the preparation refused rows that share their audio.
ManifestValid(m) ==
  /\ m \notin {Absent, Torn}
  /\ m.kind = "manifest" /\ ~m.frozen
  /\ m.authorized => Cardinality(SplitsOf(m.rows)) = 1 /\ DatasetValid(m)

-----------------------------------------------------------------------------
(* run_manifest *)

\* Mutant: the warm-up audio may be one of the rows.
WarmupSeparate_Any(m, a) == m.authorized /\ a.real => a.warmup # Absent

\* An authorized run of a real backend warms up with audio of its own.
WarmupSeparate(m, a) ==
  m.authorized /\ a.real => a.warmup \notin {Absent} \cup AudioOf(m.rows)

Files(a) == IF ~a.real THEN {} ELSE IF a.dual THEN ModelFiles ELSE {"streaming"}
Nothing == [f \in ModelFiles |-> Absent]

\* What is decoded first: the warm-up, if there is one.  It has no row.
FirstItem(a) ==
  IF a.warmup = Absent THEN Absent ELSE [id |-> Absent, audio |-> a.warmup, text |-> Absent]

BeginRun(a) ==
  LET m == json["prepare"].file
  IN  /\ At("run", "idle") /\ New("run")
      /\ ManifestValid(m)
      /\ WarmupSeparate(m, a)
      /\ Continue("run", [Idle EXCEPT !.pc = "hash", !.args = a, !.source = m, !.item = FirstItem(a),
                                      !.artifacts = Nothing, !.loaded = Nothing])

Unhashed == {f \in Files(cmd["run"].args) : cmd["run"].artifacts[f] = Absent}

\* _model_artifacts, before the adapters are built.
HashBefore(f) ==
  /\ At("run", "hash") /\ f \in Unhashed
  /\ cmd' = [cmd EXCEPT !["run"].artifacts[f] = model[f]]

StartRows ==
  /\ At("run", "hash") /\ Unhashed = {}
  /\ Go("run", IF cmd["run"].item = Absent THEN "row" ELSE "decode")

NextRow == cmd["run"].source.rows[Len(cmd["run"].rows) + 1]
RowsLeft == Len(cmd["run"].rows) < Len(cmd["run"].source.rows)

\* The digest is that of the bytes that are decoded.
AudioExpected(row, content) == content # Absent /\ content = row.audio

ReadRow ==
  LET content == ext.audio[NextRow.id]
  IN  /\ At("run", "row") /\ RowsLeft
      /\ IF AudioExpected(NextRow, content)
         THEN Continue("run", [cmd["run"] EXCEPT !.pc = "decode",
                                                 !.item = [NextRow EXCEPT !.audio = content]])
         ELSE Raise("run")

\* An adapter opens its model files when it is used for the first time.
Loaded(f) ==
  IF f \in Files(cmd["run"].args) /\ cmd["run"].loaded[f] = Absent
  THEN [cmd["run"].loaded EXCEPT ![f] = model[f]] ELSE cmd["run"].loaded

\* The streaming decoder hears the utterance.
Decode ==
  /\ At("run", "decode")
  /\ Continue("run", [cmd["run"] EXCEPT !.pc = IF cmd["run"].args.dual THEN "verify" ELSE "result",
                                          !.loaded = Loaded("streaming")])

\* The endpoint verifier hears it again.
Verify ==
  /\ At("run", "verify")
  /\ Continue("run", [cmd["run"] EXCEPT !.pc = "result", !.loaded = Loaded("verifier")])

\* The row of the utterance, with what its hypothesis was computed from.
RowOf(item, loaded) ==
  [id |-> item.id, audio |-> item.audio, text |-> item.text,
   hyp |-> [audio |-> item.audio, by |-> loaded]]

Result ==
  LET r == cmd["run"]
  IN  /\ At("run", "result")
      /\ Continue("run", [r EXCEPT !.pc = "row", !.item = Absent,
            !.rows = IF r.item.id = Absent THEN @ ELSE Append(@, RowOf(r.item, r.loaded))])

EndRows == At("run", "row") /\ ~RowsLeft /\ Go("run", "rehash")

\* Mutant: the model files are not hashed again.
HashAfter_Never == At("run", "rehash") /\ Go("run", "done")

\* The artifacts are hashed again and must be the same.
HashAfter ==
  /\ At("run", "rehash")
  /\ IF \A f \in Files(cmd["run"].args) : cmd["run"].artifacts[f] = model[f]
     THEN Go("run", "done") ELSE Raise("run")

EndRun ==
  LET r == cmd["run"]
      effective == r.source.authorized /\ r.args.real
  IN  /\ At("run", "done")
      /\ Publish("run",
           [kind |-> "result", authorized |-> effective, frozen |-> effective,
            marker |-> r.source.marker, selection |-> r.source.selection,
            real |-> r.args.real, dual |-> r.args.dual, artifacts |-> r.artifacts,
            warmup |-> r.args.warmup, known |-> r.args.known, rows |-> r.rows])

Run ==
  \/ \E a \in Runs : BeginRun(a)
  \/ \E f \in ModelFiles : HashBefore(f)
  \/ StartRows \/ ReadRow \/ Decode \/ Verify \/ Result \/ EndRows \/ HashAfter \/ EndRun

-----------------------------------------------------------------------------
(* evaluate_manifest.py *)

\* No artifact is smaller than a file of its kind can be.
SizesPlausible(m) == \A f \in Files(m) : m.artifacts[f] \in Plausible

\* _validate_model: a real backend, with the artifacts it needs and no others.
ModelValid(m) ==
  /\ m.real
  /\ {f \in ModelFiles : m.artifacts[f] # Absent} = Files(m)
  /\ SizesPlausible(m)

\* The machine is described, and every package the backend needs has a version.
EnvironmentKnown(m) == {"host"} \cup Files(m) \subseteq m.known

\* _validate_runner: the run was authorized, described and warmed up.
RunnerValid(m) == m.authorized /\ EnvironmentKnown(m) /\ m.warmup # Absent

\* evaluate: the reasons not to score, none of which may apply.
Scorable(m) ==
  /\ m \notin {Absent, Torn}
  /\ m.kind = "result" /\ m.authorized /\ m.frozen
  /\ ModelValid(m) /\ RunnerValid(m)
  /\ m.warmup \notin AudioOf(m.rows)
  /\ m.rows # <<>>
  /\ Cardinality(AudioOf(m.rows)) = Len(m.rows)
  /\ Cardinality(SplitsOf(m.rows)) = 1
  /\ DatasetValid(m)

\* main, given the output of the preparation or of the runner.
Evaluate(c) ==
  LET m == json[c].file
  IN  /\ At("evaluate", "idle") /\ m # Absent
      /\ Publish("evaluate", [kind |-> "report", evaluated |-> Scorable(m),
                              source |-> IF Scorable(m) THEN m ELSE Absent])

-----------------------------------------------------------------------------
(* Faults and the environment *)

\* The process dies; what it wrote stays.
Crash(c) ==
  /\ faults < MaxFaults /\ ~At(c, "idle")
  /\ faults' = faults + 1
  /\ Raise(c)
  /\ UNCHANGED <<ext, model, json, used, changes>>

\* A model or a system call raises; write_json_new removes its temporary file.
Fail(c) ==
  /\ faults < MaxFaults /\ ~At(c, "idle")
  /\ faults' = faults + 1
  /\ json' = IF cmd[c].pc \in {"fill", "link", "unlink"}
             THEN [json EXCEPT ![c].tmp = Absent] ELSE json
  /\ Raise(c)
  /\ UNCHANGED <<ext, model, used, changes>>

Change == changes < MaxChanges /\ changes' = changes + 1 /\ UNCHANGED <<cmd, faults>>

\* A content a file may get in place of the given one.
Replacement(S, now) == IF Restores THEN S \ {now} ELSE S \ used

ReplaceWav(u) ==
  /\ Change /\ ext.audio[u] # Absent
  /\ \E c \in Replacement(Contents, ext.audio[u]) :
       /\ ext' = [ext EXCEPT !.audio[u] = c]
       /\ used' = used \cup {c}
  /\ UNCHANGED <<model, json>>

ReplaceTranscript ==
  /\ Change
  /\ \E t \in Replacement(Texts, ext.text) :
       /\ ext' = [ext EXCEPT !.text = t]
       /\ used' = used \cup {t}
  /\ UNCHANGED <<model, json>>

ReplaceModel(f) ==
  /\ Change
  /\ \E w \in Replacement(Weights, model[f]) :
       /\ model' = [model EXCEPT ![f] = w]
       /\ used' = used \cup {w}
  /\ UNCHANGED <<ext, json>>

\* Another selection is extracted in place of the one that is there.
Reextract(splits, limit) ==
  /\ Change
  /\ Restores \/ (ExtractionValid /\ Fresh(splits, limit).marker \notin used)
  /\ ext' = Fresh(splits, limit)
  /\ used' = used \cup {ext'.marker}
  /\ UNCHANGED <<model, json>>

\* The user deletes an output and what is left of its writing.
RemoveOutput(c) ==
  /\ Change /\ ~New(c) /\ At(c, "idle")
  /\ json' = [json EXCEPT ![c] = [file |-> Absent, tmp |-> Absent]]
  /\ UNCHANGED <<ext, model, used>>

Environment ==
  \/ \E u \in Utterances : ReplaceWav(u)
  \/ ReplaceTranscript
  \/ \E f \in ModelFiles : ReplaceModel(f)
  \/ \E e \in Extractions : Reextract(e.splits, e.limit)
  \/ \E c \in Commands : RemoveOutput(c)

Next ==
  \/ (Prepare \/ Run \/ \E c \in {"prepare", "run"} : Evaluate(c)) /\ UNCHANGED <<json, world>>
  \/ \E c \in Commands : Write(c) /\ UNCHANGED world
  \/ \E c \in Commands : Crash(c) \/ Fail(c)
  \/ Environment

Spec == Init /\ [][Next]_vars

-----------------------------------------------------------------------------
(* Properties *)

\* A score is of a whole split as it was extracted: the rows of the evaluated
\* result are all the utterances of one split, each with the audio and the
\* reference the completion marker vouches for and a hypothesis computed from
\* that audio by the very model files the report lists; the warm-up is none of
\* the rows.  Six checks in three programs, made at different times, have to
\* fit together for it (prepare_aishell_manifest, run_manifest, evaluate).
EvaluatedHonest ==
  LET e == json["evaluate"].file
      m == e.source
  IN  e \notin {Absent, Torn} /\ e.evaluated =>
        /\ \E s \in Splits : {m.rows[k].id : k \in 1..Len(m.rows)} = {u \in Utterances : SplitOf[u] = s}
        /\ m.warmup \notin AudioOf(m.rows)
        /\ \A k \in 1..Len(m.rows) :
             LET row == m.rows[k]
             IN  /\ row.audio = Original[row.id] /\ row.text = OriginalText
                 /\ row.hyp = [audio |-> row.audio, by |-> m.artifacts]

\* Every published result, scored or not, lists the model files its hypotheses
\* were computed by, although the adapters open them lazily, between the two
\* hashings of run_manifest, and each only when it is needed.
RunEvidenceBound ==
  LET m == json["run"].file
  IN  m \notin {Absent, Torn} =>
        /\ Len(m.rows) = m.selection.rows
        /\ \A k \in 1..Len(m.rows) : m.rows[k].hyp = [audio |-> m.rows[k].audio, by |-> m.artifacts]

\* What the runner freezes the evaluator scores, apart from what run_manifest
\* publishes without a check: the sizes of the artifacts, which may be too small
\* for a model, and the packages and the machine, of which it may know nothing.
RunnerFeedsEvaluator ==
  LET m == json["run"].file
  IN  m \notin {Absent, Torn} /\ m.frozen /\ SizesPlausible(m) /\ EnvironmentKnown(m)
        => Scorable(m)

\* An output appears complete and is never overwritten; only the user deletes
\* it (write_json_new, with crashes and failures at each of its steps).
OutputsAppearWhole ==
  [][\A c \in Commands :
       \/ json'[c].file \in {json[c].file, Absent}
       \/ json[c].file = Absent /\ json'[c].file # Torn]_json
=============================================================================
