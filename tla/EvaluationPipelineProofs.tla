---------------------- MODULE EvaluationPipelineProofs ----------------------
(***************************************************************************)
(* The evidence chain of EvaluationPipeline, for any utterances, models,   *)
(* arguments and number of faults and changes: outputs appear whole, what  *)
(* the runner freezes is scored, a published result lists the models that  *)
(* were heard, and a score is of a whole split as it was extracted.        *)
(*                                                                         *)
(* The invariant says of every command what its local state stands for:    *)
(* the rows a preparation has scanned and those it has left are the whole  *)
(* selection; the rows of a run are the first of its manifest, and a model *)
(* file that is still what it was when it was first hashed has been that   *)
(* all the time.  The last two theorems assume ~Restores: a digest taken   *)
(* before and after cannot notice a content that was exchanged and put     *)
(* back in between.                                                        *)
(***************************************************************************)
EXTENDS EvaluationPipeline, FiniteSetTheorems, TLAPS

(* Types *)

Payloads(c) == CASE c = "prepare" -> Manifests [] c = "run" -> Results [] OTHER -> Reports

Writing == {"write", "fill", "link", "unlink"}
Running == {"hash", "row", "decode", "verify", "result", "rehash", "done"}

\* What is decoded: a row of the manifest, or the warm-up.
RowItems == [id : Utterances, audio : Contents, text : Texts]
WarmupItems == [id : {Absent}, audio : Contents, text : {Absent}]

Preparing ==
  [pc : {"idle", "list", "scan"} \cup Writing, args : Preparations \cup {Absent},
   marker : Markers \cup {Absent}, text : Texts \cup {Absent}, todo : SUBSET Utterances,
   rows : Rows, source : {Absent}, artifacts : {Absent}, loaded : {Absent}, item : {Absent},
   payload : Manifests \cup {Absent}]

RunStates ==
  [pc : {"idle"} \cup Running \cup Writing, args : Runs \cup {Absent},
   marker : {Absent}, text : {Absent}, todo : {{}},
   rows : ResultRows, source : Manifests \cup {Absent}, artifacts : Loads \cup {Absent},
   loaded : Loads \cup {Absent}, item : RowItems \cup WarmupItems \cup {Absent},
   payload : Results \cup {Absent}]

Evaluating ==
  [pc : {"idle"} \cup Writing, args : {Absent}, marker : {Absent}, text : {Absent}, todo : {{}},
   rows : {<<>>}, source : {Absent}, artifacts : {Absent}, loaded : {Absent}, item : {Absent},
   payload : Reports \cup {Absent}]

TypeOK ==
  /\ ext \in [audio : [Utterances -> Contents \cup {Absent}], text : Texts, marker : Markers]
  /\ model \in [ModelFiles -> Weights]
  /\ json \in [Commands -> [file : {Absent} \cup Manifests \cup Results \cup Reports,
                           tmp : {Absent, Torn} \cup Manifests \cup Results \cup Reports]]
  /\ cmd \in [Commands -> Preparing \cup RunStates \cup Evaluating]
  /\ cmd["prepare"] \in Preparing /\ cmd["run"] \in RunStates /\ cmd["evaluate"] \in Evaluating

-----------------------------------------------------------------------------
(* What is true of everything that is published *)

IdsOf(rows) == {rows[k].id : k \in 1..Len(rows)}

\* All the utterances of one split, as they were in the archives.
Whole(rows) ==
  /\ \E s \in Splits : IdsOf(rows) = {u \in Utterances : SplitOf[u] = s}
  /\ \A k \in 1..Len(rows) : rows[k].audio = Original[rows[k].id] /\ rows[k].text = OriginalText

ManifestSound(m) ==
  /\ Cardinality(AudioOf(m.rows)) = Len(m.rows)
  /\ m.selection.rows = Len(m.rows)
  /\ ~Restores /\ m.authorized => Whole(m.rows)

HeardBy(rows, artifacts) ==
  \A k \in 1..Len(rows) : rows[k].hyp = [audio |-> rows[k].audio, by |-> artifacts]

ResultSound(m) ==
  /\ Len(m.rows) = m.selection.rows
  /\ m.frozen /\ SizesPlausible(m) /\ EnvironmentKnown(m) => Scorable(m)
  /\ ~Restores => HeardBy(m.rows, m.artifacts)
  /\ ~Restores /\ m.authorized => Whole(m.rows)

ReportSound(e) ==
  ~Restores /\ e.evaluated =>
    /\ Whole(e.source.rows) /\ HeardBy(e.source.rows, e.source.artifacts)
    /\ e.source.warmup \notin AudioOf(e.source.rows)

Sound(c, m) ==
  /\ m \in Payloads(c)
  /\ c = "prepare" => ManifestSound(m)
  /\ c = "run" => ResultSound(m)
  /\ c = "evaluate" => ReportSound(m)

-----------------------------------------------------------------------------
(* The inductive invariant *)

\* Contents that are or were in use, and the files an extraction consists of.
WorldInv ==
  /\ \A f \in ModelFiles : model[f] \in used
  /\ ext.marker \in used /\ OriginalText \in used /\ \A u \in Utterances : Original[u] \in used
  /\ \E e \in Extractions : ext.marker = Fresh(e.splits, e.limit).marker
  /\ \A u \in Utterances : ext.audio[u] = Absent <=> ext.marker.audio[u] = Absent

\* The rows that were scanned and those that are left are the whole selection,
\* and a file that is what the marker says was so when it was read.
ScanInv ==
  LET p == cmd["prepare"]
  IN  p.pc = "scan" =>
        /\ p.text \in Texts
        /\ \A k \in 1..Len(p.rows) : p.rows[k].text = p.text
        /\ Cardinality(AudioOf(p.rows)) = Len(p.rows)
        /\ ~Restores /\ p.args.authorized /\ ext.marker = p.marker =>
             /\ IdsOf(p.rows) \cup p.todo = {u \in Utterances : SplitOf[u] \in p.args.splits}
             /\ \A k \in 1..Len(p.rows) :
                  LET u == p.rows[k].id
                  IN  ext.audio[u] = p.marker.audio[u] => p.rows[k].audio = p.marker.audio[u]
             /\ ext.text = p.marker.text => p.text = p.marker.text

PrepareInv ==
  LET p == cmd["prepare"]
  IN  /\ p.pc \in {"list", "scan"} =>
           /\ p.args \in Preparations /\ ArgumentsValid(p.args)
           /\ p.args.bound => /\ p.marker \in Markers /\ p.marker \in used
                              /\ p.args.splits \subseteq p.marker.splits
           /\ p.args.authorized => p.marker.limit = 0
      /\ p.pc = "list" => p.rows = <<>>
      /\ ScanInv

\* The rows of the run are the first ones of the manifest.
RowsInv(r) ==
  /\ Len(r.rows) <= Len(r.source.rows)
  /\ \A k \in 1..Len(r.rows) :
       /\ r.rows[k].id = r.source.rows[k].id
       /\ r.rows[k].audio = r.source.rows[k].audio
       /\ r.rows[k].text = r.source.rows[k].text

ItemInv(r) ==
  r.pc \in {"decode", "verify", "result"} =>
    \/ r.item \in WarmupItems
    \/ Len(r.rows) < Len(r.source.rows) /\ r.item = r.source.rows[Len(r.rows) + 1]

\* A model file is loaded between its two hashings; as long as it has the first
\* of them, it has always had it.
ModelInv(r) ==
  /\ \A f \in ModelFiles \ Files(r.args) : r.artifacts[f] = Absent /\ r.loaded[f] = Absent
  /\ \A f \in ModelFiles : r.artifacts[f] # Absent => r.artifacts[f] \in used
  /\ r.pc # "hash" => \A f \in Files(r.args) : r.artifacts[f] # Absent
  /\ r.pc = "hash" => r.loaded = Nothing
  /\ ~Restores => \A f \in ModelFiles :
       r.artifacts[f] # Absent /\ model[f] = r.artifacts[f] /\ r.loaded[f] # Absent =>
         r.loaded[f] = r.artifacts[f]
  /\ ~Restores /\ r.pc = "done" => \A f \in ModelFiles : r.loaded[f] # Absent =>
       r.loaded[f] = r.artifacts[f]

\* The models a row was heard by.
HeardInv(r) ==
  /\ r.pc \in {"verify", "result"} /\ "streaming" \in Files(r.args) => r.loaded["streaming"] # Absent
  /\ r.pc = "result" \/ r.rows # <<>> => \A f \in Files(r.args) : r.loaded[f] # Absent
  /\ HeardBy(r.rows, r.loaded)

\* A run that has begun and not yet anything to publish.
RunSound(r) ==
  /\ r.args \in Runs /\ r.source \in Manifests /\ r.artifacts \in Loads /\ r.loaded \in Loads
  /\ ManifestValid(r.source) /\ ManifestSound(r.source) /\ WarmupSeparate(r.source, r.args)
  /\ r.pc = "hash" => r.rows = <<>> /\ r.item \in WarmupItems \cup {Absent}
  /\ r.pc \in {"rehash", "done"} => Len(r.rows) = Len(r.source.rows)
  /\ RowsInv(r) /\ ItemInv(r) /\ ModelInv(r) /\ HeardInv(r)

RunInv == cmd["run"].pc \in Running => RunSound(cmd["run"])

JsonInv(c) ==
  /\ json[c].file # Absent => Sound(c, json[c].file)
  /\ cmd[c].pc \in Writing => Sound(c, cmd[c].payload)
  /\ cmd[c].pc \in {"fill", "link"} => json[c].file = Absent
  /\ cmd[c].pc = "link" => json[c].tmp = cmd[c].payload

Inv == TypeOK /\ WorldInv /\ PrepareInv /\ RunInv /\ \A c \in Commands : JsonInv(c)

-----------------------------------------------------------------------------
(* Steps of one command *)

LEMMA ThreeCommands ==
  /\ Commands = {"prepare", "run", "evaluate"}
  /\ Payloads("prepare") = Manifests /\ Payloads("run") = Results /\ Payloads("evaluate") = Reports
  /\ \A c \in Commands : Payloads(c) \subseteq Manifests \cup Results \cup Reports
  BY DEF Commands, Payloads

\* The states of each command.
StatesOf(c) == CASE c = "prepare" -> Preparing [] c = "run" -> RunStates [] OTHER -> Evaluating

LEMMA CommandTypes ==
  ASSUME TypeOK, NEW c \in Commands
  PROVE  cmd[c] \in StatesOf(c) /\ json[c].file \in {Absent} \cup Manifests \cup Results \cup Reports
         /\ DOMAIN cmd = Commands
  BY DEF TypeOK, Commands, StatesOf

WithPc(r, pc) == [r EXCEPT !.pc = pc]
WithPayload(r, pc, m) == [r EXCEPT !.pc = pc, !.payload = m]

LEMMA AnyPc ==
  ASSUME NEW c \in Commands, NEW r \in StatesOf(c), NEW pc \in Writing
  PROVE  /\ WithPc(r, pc) \in StatesOf(c)
         /\ WithPc(r, pc).pc = pc /\ WithPc(r, pc).payload = r.payload
<1>1. CASE c = "prepare"
  <2>1. r \in Preparing /\ StatesOf(c) = Preparing
    BY <1>1, ThreeCommands DEF StatesOf
  <2> QED
    BY <2>1 DEF Preparing, WithPc, WithPayload
<1>2. CASE c = "run"
  <2>1. r \in RunStates /\ StatesOf(c) = RunStates
    BY <1>2, ThreeCommands DEF StatesOf
  <2> QED
    BY <2>1 DEF RunStates, WithPc, WithPayload
<1>3. CASE c = "evaluate"
  <2>1. r \in Evaluating /\ StatesOf(c) = Evaluating
    BY <1>3, ThreeCommands DEF StatesOf
  <2> QED
    BY <2>1 DEF Evaluating, WithPc, WithPayload
<1> QED
  BY <1>1, <1>2, <1>3, ThreeCommands

LEMMA AnyPayload ==
  ASSUME NEW c \in Commands, NEW r \in StatesOf(c), NEW pc \in Writing, NEW m \in Payloads(c)
  PROVE  /\ WithPayload(r, pc, m) \in StatesOf(c)
         /\ WithPayload(r, pc, m).pc = pc
         /\ WithPayload(r, pc, m).payload = m
<1>1. CASE c = "prepare"
  <2>1. r \in Preparing /\ StatesOf(c) = Preparing /\ m \in Manifests
    BY <1>1, ThreeCommands DEF StatesOf
  <2> QED
    BY <2>1 DEF Preparing, WithPc, WithPayload
<1>2. CASE c = "run"
  <2>1. r \in RunStates /\ StatesOf(c) = RunStates /\ m \in Results
    BY <1>2, ThreeCommands DEF StatesOf
  <2> QED
    BY <2>1 DEF RunStates, WithPc, WithPayload
<1>3. CASE c = "evaluate"
  <2>1. r \in Evaluating /\ StatesOf(c) = Evaluating /\ m \in Reports
    BY <1>3, ThreeCommands DEF StatesOf
  <2> QED
    BY <2>1 DEF Evaluating, WithPc, WithPayload
<1> QED
  BY <1>1, <1>2, <1>3, ThreeCommands

LEMMA IdleState ==
  /\ \A c \in Commands : Idle \in StatesOf(c)
  /\ Idle.pc = "idle" /\ Idle.rows = <<>>
<1>1. <<>> \in Rows /\ <<>> \in ResultRows
  BY DEF Rows, ResultRows
<1> QED
  BY <1>1, ThreeCommands DEF Idle, StatesOf, Preparing, RunStates, Evaluating

LEMMA PrepareFrame ==
  ASSUME PrepareInv, cmd'["prepare"] = cmd["prepare"], ext' = ext, used \subseteq used'
  PROVE  PrepareInv'
  BY DEF PrepareInv, ScanInv

LEMMA RunFrame ==
  ASSUME RunInv, cmd'["run"] = cmd["run"], model' = model, used \subseteq used'
  PROVE  RunInv'
<1> DEFINE r == cmd["run"]
<1>1. ModelInv(r) => ModelInv(r)'
  BY DEF ModelInv
<1> QED
  BY <1>1 DEF RunInv, RunSound

LEMMA JsonFrame ==
  ASSUME NEW c \in Commands, JsonInv(c), json'[c] = json[c], cmd'[c] = cmd[c]
  PROVE  JsonInv(c)'
  BY DEF JsonInv

\* A command goes on: what is left to show is what its new state means.
LEMMA CommandKeeps ==
  ASSUME Inv, NEW c \in Commands, NEW r \in StatesOf(c), cmd' = [cmd EXCEPT ![c] = r],
         ext' = ext, model' = model, used' = used,
         json' \in [Commands -> [file : {Absent} \cup Manifests \cup Results \cup Reports,
                                 tmp : {Absent, Torn} \cup Manifests \cup Results \cup Reports]],
         \A d \in Commands : d # c => json'[d] = json[d],
         JsonInv(c)', c = "prepare" => PrepareInv', c = "run" => RunInv'
  PROVE  Inv'
<1> USE DEF Inv
<1>1. cmd'[c] = r /\ DOMAIN cmd' = Commands /\ \A d \in Commands : d # c => cmd'[d] = cmd[d]
  BY CommandTypes
<1>2. \A d \in Commands : cmd'[d] \in StatesOf(d)
  BY <1>1, CommandTypes
<1>3. cmd' \in [Commands -> Preparing \cup RunStates \cup Evaluating]
  <2>1. \A d \in Commands : cmd'[d] \in Preparing \cup RunStates \cup Evaluating
    BY <1>2 DEF StatesOf, Commands
  <2>2. cmd' = [d \in Commands |-> cmd'[d]]
    BY <1>1, CommandTypes
  <2> QED
    BY <2>1, <2>2
<1>4. TypeOK'
  BY <1>2, <1>3, ThreeCommands DEF TypeOK, StatesOf
<1>5. PrepareInv'
  BY <1>1, PrepareFrame, ThreeCommands
<1>6. RunInv'
  BY <1>1, RunFrame, ThreeCommands
<1>7. ASSUME NEW d \in Commands PROVE JsonInv(d)'
  BY <1>1, JsonFrame
<1>8. WorldInv'
  BY DEF WorldInv
<1> QED
  BY <1>4, <1>5, <1>6, <1>7, <1>8

\* A command ends, whatever becomes of its temporary file.
LEMMA EndKeeps ==
  ASSUME Inv, NEW c \in Commands, Raise(c), ext' = ext, model' = model, used' = used,
         json' \in [Commands -> [file : {Absent} \cup Manifests \cup Results \cup Reports,
                                 tmp : {Absent, Torn} \cup Manifests \cup Results \cup Reports]],
         \A d \in Commands : d # c => json'[d] = json[d],
         json'[c].file = json[c].file
  PROVE  Inv'
<1> USE DEF Inv
<1>1. cmd' = [cmd EXCEPT ![c] = Idle] /\ cmd'[c] = Idle /\ Idle \in StatesOf(c)
      /\ cmd'[c].pc = "idle"
  BY IdleState, CommandTypes DEF Raise
<1>2. JsonInv(c)'
  BY <1>1 DEF JsonInv, Writing
<1>3. (c = "prepare" => PrepareInv') /\ (c = "run" => RunInv')
  BY <1>1 DEF PrepareInv, ScanInv, RunInv, Running
<1> QED
  BY <1>1, <1>2, <1>3, CommandKeeps

\* A command has something to publish.
LEMMA PublishKeeps ==
  ASSUME Inv, NEW c \in Commands, NEW m, Sound(c, m), Publish(c, m),
         ext' = ext, model' = model, used' = used, json' = json
  PROVE  Inv'
<1> USE DEF Inv
<1> DEFINE r == WithPayload(cmd[c], "write", m)
<1>1. cmd[c] \in StatesOf(c) /\ m \in Payloads(c) /\ "write" \in Writing
  BY CommandTypes DEF Sound, Writing
<1>2. r \in StatesOf(c) /\ r.pc = "write" /\ r.payload = m
  BY <1>1, AnyPayload
<1>3. cmd' = [cmd EXCEPT ![c] = r] /\ cmd'[c] = r
  BY CommandTypes DEF Publish, Continue, WithPayload
<1> HIDE DEF r
<1>4. JsonInv(c)'
  BY <1>2, <1>3 DEF JsonInv
<1>5. (c = "prepare" => PrepareInv') /\ (c = "run" => RunInv')
  BY <1>2, <1>3 DEF PrepareInv, ScanInv, RunInv, Running
<1> QED
  BY <1>2, <1>3, <1>4, <1>5, CommandKeeps DEF TypeOK

-----------------------------------------------------------------------------
(* write_json_new *)

\* A step of the writing of an output; the output and its temporary sibling are
\* touched by the command that writes them only.
LEMMA WritingKeeps ==
  ASSUME Inv, NEW c \in Commands, cmd[c].pc \in Writing, NEW pc \in Writing, Go(c, pc), UNCHANGED world,
         NEW file \in {Absent} \cup Manifests \cup Results \cup Reports,
         NEW tmp \in {Absent, Torn} \cup Manifests \cup Results \cup Reports,
         json' = [json EXCEPT ![c] = [file |-> file, tmp |-> tmp]],
         file # Absent => Sound(c, file),
         pc \in {"fill", "link"} => file = Absent,
         pc = "link" => tmp = cmd[c].payload
  PROVE  Inv'
<1> USE DEF Inv
<1> DEFINE r == WithPc(cmd[c], pc)
<1>1. cmd[c] \in StatesOf(c)
  BY CommandTypes
<1>2. r \in StatesOf(c) /\ r.pc = pc /\ r.payload = cmd[c].payload
  BY <1>1, AnyPc
<1>3. cmd' = [cmd EXCEPT ![c] = r] /\ cmd'[c] = r
  BY CommandTypes DEF Go, WithPc
<1> HIDE DEF r
<1>4. /\ json' \in [Commands -> [file : {Absent} \cup Manifests \cup Results \cup Reports,
                                 tmp : {Absent, Torn} \cup Manifests \cup Results \cup Reports]]
      /\ json'[c] = [file |-> file, tmp |-> tmp]
      /\ \A d \in Commands : d # c => json'[d] = json[d]
  BY DEF TypeOK
<1>5. JsonInv(c)'
  BY <1>2, <1>3, <1>4 DEF JsonInv
<1>6. (c = "prepare" => PrepareInv') /\ (c = "run" => RunInv')
  BY <1>2, <1>3 DEF PrepareInv, ScanInv, RunInv, Running, Writing
<1> QED
  BY <1>2, <1>3, <1>4, <1>5, <1>6, CommandKeeps DEF world

LEMMA JsonTypes ==
  ASSUME TypeOK, NEW c \in Commands
  PROVE  /\ json[c] = [file |-> json[c].file, tmp |-> json[c].tmp]
         /\ json[c].file \in {Absent} \cup Manifests \cup Results \cup Reports
         /\ json[c].tmp \in {Absent, Torn} \cup Manifests \cup Results \cup Reports
         /\ \A x : [json EXCEPT ![c].file = x] = [json EXCEPT ![c] = [file |-> x, tmp |-> json[c].tmp]]
         /\ \A x : [json EXCEPT ![c].tmp = x] = [json EXCEPT ![c] = [file |-> json[c].file, tmp |-> x]]
  BY DEF TypeOK

LEMMA WriteKeeps ==
  ASSUME Inv, NEW c \in Commands, Write(c), UNCHANGED world
  PROVE  Inv'
<1> USE DEF Inv
<1>0. json[c].file # Absent => Sound(c, json[c].file)
  BY DEF JsonInv
<1>1. CASE CreateTmp(c)
  <2>1. CASE New(c)
    <3>1. json[c].file = Absent /\ cmd[c].pc \in Writing /\ "fill" \in Writing /\ Go(c, "fill")
          /\ json' = [json EXCEPT ![c] = [file |-> Absent, tmp |-> Torn]]
      BY <1>1, <2>1, JsonTypes DEF CreateTmp, New, At, Writing
    <3> QED
      BY <3>1, WritingKeeps
  <2>2. CASE ~New(c)
    BY <1>1, <2>2, EndKeeps DEF CreateTmp, world, TypeOK
  <2> QED
    BY <2>1, <2>2
<1>2. CASE FillTmp(c)
  <2> DEFINE m == cmd[c].payload
  <2>1. cmd[c].pc \in Writing /\ "link" \in Writing /\ Go(c, "link") /\ json[c].file = Absent
    BY <1>2 DEF FillTmp, At, Writing, JsonInv
  <2>2. m \in {Absent, Torn} \cup Manifests \cup Results \cup Reports
    BY <2>1, ThreeCommands DEF JsonInv, Sound
  <2>3. json' = [json EXCEPT ![c].tmp = m]
    BY <1>2 DEF FillTmp
  <2> HIDE DEF m
  <2>4. json' = [json EXCEPT ![c] = [file |-> Absent, tmp |-> m]]
    BY <2>1, <2>3, JsonTypes
  <2>5. m = cmd[c].payload
    BY DEF m
  <2> QED
    BY <2>1, <2>2, <2>4, <2>5, WritingKeeps
<1>3. CASE LinkTmp(c)
  <2> DEFINE m == json[c].tmp
  <2>1. cmd[c].pc \in Writing /\ "unlink" \in Writing /\ Go(c, "unlink")
        /\ m = cmd[c].payload /\ Sound(c, m)
    BY <1>3 DEF LinkTmp, At, Writing, JsonInv
  <2>2. m \in Manifests \cup Results \cup Reports
    BY <2>1, ThreeCommands DEF Sound
  <2>3. json' = [json EXCEPT ![c].file = m] /\ json[c] = [file |-> json[c].file, tmp |-> m]
    BY <1>3, JsonTypes DEF LinkTmp
  <2> HIDE DEF m
  <2>4. json' = [json EXCEPT ![c] = [file |-> m, tmp |-> m]]
    <3>1. [json[c] EXCEPT !.file = m] = [file |-> m, tmp |-> m]
      BY <2>3
    <3> QED
      BY <2>3, <3>1
  <2>5. m \in {Absent} \cup Manifests \cup Results \cup Reports
        /\ m \in {Absent, Torn} \cup Manifests \cup Results \cup Reports
    BY <2>2
  <2>6. "unlink" \notin {"fill", "link"} /\ "unlink" # "link"
    OBVIOUS
  <2> QED
    BY <2>1, <2>5, <2>6, <2>4, WritingKeeps
<1>4. CASE UnlinkTmp(c)
  <2>1. json' = [json EXCEPT ![c] = [file |-> json[c].file, tmp |-> Absent]] /\ Raise(c)
    BY <1>4, JsonTypes DEF UnlinkTmp
  <2> QED
    BY <2>1, JsonTypes, EndKeeps DEF TypeOK, world
<1> QED
  BY <1>1, <1>2, <1>3, <1>4 DEF Write

-----------------------------------------------------------------------------
(* Faults and the environment *)

LEMMA CrashKeeps ==
  ASSUME Inv, NEW c \in Commands, Crash(c)
  PROVE  Inv'
  BY EndKeeps DEF Crash, Inv, TypeOK

LEMMA FailKeeps ==
  ASSUME Inv, NEW c \in Commands, Fail(c)
  PROVE  Inv'
<1> USE DEF Inv
<1>1. json' \in {json, [json EXCEPT ![c] = [file |-> json[c].file, tmp |-> Absent]]}
  BY JsonTypes DEF Fail
<1> QED
  BY <1>1, JsonTypes, EndKeeps DEF Fail, TypeOK

\* The files change under the commands.
LEMMA WorldKeeps ==
  ASSUME Inv, cmd' = cmd, json' = json, used \subseteq used',
         ext' \in [audio : [Utterances -> Contents \cup {Absent}], text : Texts, marker : Markers],
         model' \in [ModelFiles -> Weights],
         WorldInv', ScanInv', ~Restores => \A f \in ModelFiles : model'[f] = model[f] \/ model'[f] \notin used
  PROVE  Inv'
<1> USE DEF Inv
<1>1. TypeOK'
  BY DEF TypeOK
<1>2. PrepareInv'
  BY DEF PrepareInv
<1>3. RunInv'
  <2> DEFINE r == cmd["run"]
  <2>1. r.pc \in Running => (ModelInv(r) => ModelInv(r)')
    BY DEF ModelInv
  <2> QED
    BY <2>1 DEF RunInv, RunSound
<1>4. \A c \in Commands : JsonInv(c)'
  BY DEF JsonInv
<1> QED
  BY <1>1, <1>2, <1>3, <1>4

\* The elements of a sequence; the set of them kept abstract for the provers.
LEMMA ElementOf ==
  ASSUME NEW S, NEW s \in Seq(S), NEW k \in 1..Len(s)
  PROVE  s[k] \in S
  OBVIOUS

LEMMA RowTypes ==
  /\ \A rows \in Rows : \A k \in 1..Len(rows) : rows[k] \in RowItems
  /\ \A rows \in ResultRows : \A k \in 1..Len(rows) :
       rows[k] \in [id : Utterances, audio : Contents, text : Texts, hyp : [audio : Contents, by : Loads]]
  /\ \A rows \in Rows \cup ResultRows : \A k \in 1..Len(rows) :
       rows[k].id \in Utterances /\ rows[k].audio \in Contents /\ rows[k].text \in Texts
<1>1. \A rows \in Rows : \A k \in 1..Len(rows) : rows[k] \in RowItems
  BY ElementOf DEF Rows, RowItems
<1>2. \A rows \in ResultRows : \A k \in 1..Len(rows) :
       rows[k] \in [id : Utterances, audio : Contents, text : Texts, hyp : [audio : Contents, by : Loads]]
  BY ElementOf DEF ResultRows
<1>3. ASSUME NEW rows \in Rows \cup ResultRows, NEW k \in 1..Len(rows)
      PROVE  rows[k].id \in Utterances /\ rows[k].audio \in Contents /\ rows[k].text \in Texts
  BY <1>1, <1>2 DEF RowItems
<1> QED
  BY <1>1, <1>2, <1>3

\* What an extraction publishes is what was in the archives.
LEMMA FreshFacts ==
  ASSUME NEW splits \in SUBSET Splits, NEW limit \in Nat
  PROVE  LET x == Fresh(splits, limit)
         IN  /\ x \in [audio : [Utterances -> Contents \cup {Absent}], text : Texts, marker : Markers]
             /\ x.marker.audio = x.audio /\ x.marker.text = OriginalText /\ x.text = OriginalText
             /\ x.marker.splits = splits /\ x.marker.limit = limit
             /\ \A u \in Utterances : x.audio[u] \in {Original[u], Absent}
             /\ \A u \in Utterances : x.audio[u] # Absent <=>
                  SplitOf[u] \in splits /\ SpeakerOf[u] \in FirstOf(Speakers(Original, SplitOf[u]), limit)
<1> DEFINE wanted(u) == /\ SplitOf[u] \in splits
                        /\ SpeakerOf[u] \in FirstOf(Speakers(Original, SplitOf[u]), limit)
           audio == [u \in Utterances |-> IF wanted(u) THEN Original[u] ELSE Absent]
<1>1. Fresh(splits, limit) =
        [audio |-> audio, text |-> OriginalText,
         marker |-> [splits |-> splits, limit |-> limit, audio |-> audio, text |-> OriginalText]]
  BY DEF Fresh
<1> HIDE DEF wanted
<1>2. \A u \in Utterances : Original[u] \in Contents /\ Original[u] # Absent
  BY PipelineAssumption
<1>3. audio \in [Utterances -> Contents \cup {Absent}]
      /\ (\A u \in Utterances : audio[u] \in {Original[u], Absent})
      /\ (\A u \in Utterances : audio[u] # Absent <=> wanted(u))
  BY <1>2
<1> HIDE DEF audio
<1>4. OriginalText \in Texts
  BY PipelineAssumption
<1> QED
  BY <1>1, <1>3, <1>4 DEF Markers, wanted

LEMMA ExtractionTypes ==
  ASSUME NEW e \in Extractions
  PROVE  e.splits \in SUBSET Splits /\ e.limit \in Nat
  BY PipelineAssumption

\* The marker vouches for the contents of the archives.
LEMMA MarkerFacts ==
  ASSUME WorldInv
  PROVE  /\ ext.marker.text = OriginalText
         /\ \A u \in Utterances : ext.marker.audio[u] \in {Original[u], Absent}
         /\ \A u \in Utterances : Original[u] \in used
<1>1. PICK e \in Extractions : ext.marker = Fresh(e.splits, e.limit).marker
  BY DEF WorldInv
<1> DEFINE x == Fresh(e.splits, e.limit)
<1>2. x.marker.audio = x.audio /\ x.marker.text = OriginalText
      /\ \A u \in Utterances : x.audio[u] \in {Original[u], Absent}
  BY ExtractionTypes, FreshFacts
<1> QED
  BY <1>1, <1>2 DEF WorldInv

LEMMA ReplaceWavKeeps ==
  ASSUME Inv, NEW u \in Utterances, ReplaceWav(u)
  PROVE  Inv'
<1> USE DEF Inv
<1>1. PICK c \in Replacement(Contents, ext.audio[u]) :
        ext' = [ext EXCEPT !.audio[u] = c] /\ used' = used \cup {c}
  BY DEF ReplaceWav
<1>2. c \in Contents /\ c # Absent /\ (~Restores => c \notin used)
  BY PipelineAssumption DEF Replacement
<1>3. cmd' = cmd /\ json' = json /\ model' = model /\ ext.audio[u] # Absent
  BY DEF ReplaceWav, Change
<1>4. ext'.marker = ext.marker /\ ext'.text = ext.text /\ ext'.audio = [ext.audio EXCEPT ![u] = c]
      /\ ext' \in [audio : [Utterances -> Contents \cup {Absent}], text : Texts, marker : Markers]
  <2>1. ext \in [audio : [Utterances -> Contents \cup {Absent}], text : Texts, marker : Markers]
    BY DEF TypeOK
  <2> QED
    BY <1>1, <1>2, <2>1
<1>5. \A v \in Utterances : ext'.audio[v] = IF v = u THEN c ELSE ext.audio[v]
  BY <1>4 DEF TypeOK
<1>6. WorldInv'
  BY <1>1, <1>2, <1>3, <1>4, <1>5 DEF WorldInv
<1>7. ScanInv'
  <2> DEFINE p == cmd["prepare"]
  <2>1. p.rows \in Rows
    BY DEF TypeOK, Preparing
  <2>2. ASSUME ~Restores, ext.marker = p.marker, NEW v \in Utterances,
               ext'.audio[v] = p.marker.audio[v]
        PROVE  ext.audio[v] = p.marker.audio[v]
    BY <1>2, <1>5, <2>2, MarkerFacts
  <2>3. \A k \in 1..Len(p.rows) : p.rows[k].id \in Utterances
    BY <2>1, RowTypes
  <2> QED
    BY <1>3, <1>4, <2>2, <2>3, Zenon DEF ScanInv, PrepareInv
<1> QED
  BY <1>1, <1>3, <1>4, <1>6, <1>7, WorldKeeps DEF TypeOK

LEMMA ReplaceTranscriptKeeps ==
  ASSUME Inv, ReplaceTranscript
  PROVE  Inv'
<1> USE DEF Inv
<1>1. PICK t \in Replacement(Texts, ext.text) :
        ext' = [ext EXCEPT !.text = t] /\ used' = used \cup {t}
  BY DEF ReplaceTranscript
<1>2. t \in Texts /\ (~Restores => t \notin used)
  BY DEF Replacement
<1>3. cmd' = cmd /\ json' = json /\ model' = model
  BY DEF ReplaceTranscript, Change
<1>4. ext'.marker = ext.marker /\ ext'.text = t /\ ext'.audio = ext.audio
      /\ ext' \in [audio : [Utterances -> Contents \cup {Absent}], text : Texts, marker : Markers]
  BY <1>1, <1>2 DEF TypeOK
<1>5. WorldInv'
  BY <1>1, <1>3, <1>4 DEF WorldInv
<1>6. ScanInv'
  <2>1. ASSUME ~Restores, ext.marker = cmd["prepare"].marker
        PROVE  ext'.text # cmd["prepare"].marker.text
    BY <1>2, <1>4, <2>1, MarkerFacts DEF WorldInv
  <2> QED
    BY <1>3, <1>4, <2>1 DEF ScanInv, PrepareInv
<1> QED
  BY <1>1, <1>3, <1>4, <1>5, <1>6, WorldKeeps DEF TypeOK

LEMMA ReplaceModelKeeps ==
  ASSUME Inv, NEW f \in ModelFiles, ReplaceModel(f)
  PROVE  Inv'
<1> USE DEF Inv
<1>1. PICK w \in Replacement(Weights, model[f]) :
        model' = [model EXCEPT ![f] = w] /\ used' = used \cup {w}
  BY DEF ReplaceModel
<1>2. w \in Weights /\ (~Restores => w \notin used)
  BY DEF Replacement
<1>3. cmd' = cmd /\ json' = json /\ ext' = ext
  BY DEF ReplaceModel, Change
<1>4. model' \in [ModelFiles -> Weights] /\ \A g \in ModelFiles : model'[g] = IF g = f THEN w ELSE model[g]
  BY <1>1, <1>2 DEF TypeOK
<1>5. WorldInv' /\ ScanInv'
  BY <1>1, <1>3, <1>4 DEF WorldInv, ScanInv, PrepareInv
<1> QED
  BY <1>1, <1>2, <1>3, <1>4, <1>5, WorldKeeps DEF TypeOK

LEMMA ReextractKeeps ==
  ASSUME Inv, NEW e \in Extractions, Reextract(e.splits, e.limit)
  PROVE  Inv'
<1> USE DEF Inv
<1> DEFINE x == Fresh(e.splits, e.limit)
<1>1. ext' = x /\ used' = used \cup {x.marker} /\ cmd' = cmd /\ json' = json /\ model' = model
      /\ (~Restores => x.marker \notin used)
  BY DEF Reextract, Change
<1>2. x \in [audio : [Utterances -> Contents \cup {Absent}], text : Texts, marker : Markers]
      /\ x.marker.audio = x.audio
  BY ExtractionTypes, FreshFacts
<1>3. WorldInv'
  BY <1>1, <1>2 DEF WorldInv
<1>4. ScanInv'
  <2>1. ASSUME ~Restores, cmd["prepare"].pc = "scan", cmd["prepare"].args.authorized
        PROVE  x.marker # cmd["prepare"].marker
    BY <1>1, <2>1 DEF PrepareInv, ArgumentsValid
  <2> HIDE DEF x
  <2> QED
    BY <1>1, <2>1 DEF ScanInv, PrepareInv
<1> QED
  BY <1>1, <1>2, <1>3, <1>4, WorldKeeps DEF TypeOK

LEMMA RemoveOutputKeeps ==
  ASSUME Inv, NEW c \in Commands, RemoveOutput(c)
  PROVE  Inv'
<1> USE DEF Inv
<1>1. /\ json' = [json EXCEPT ![c] = [file |-> Absent, tmp |-> Absent]] /\ cmd[c].pc = "idle"
      /\ cmd' = cmd /\ ext' = ext /\ model' = model /\ used' = used
  BY DEF RemoveOutput, Change, At
<1>2. /\ json' \in [Commands -> [file : {Absent} \cup Manifests \cup Results \cup Reports,
                                 tmp : {Absent, Torn} \cup Manifests \cup Results \cup Reports]]
      /\ json'[c].file = Absent
      /\ \A d \in Commands : d # c => json'[d] = json[d]
  BY <1>1 DEF TypeOK
<1>3. TypeOK' /\ WorldInv'
  BY <1>1, <1>2 DEF TypeOK, WorldInv
<1>4. PrepareInv' /\ RunInv'
  BY <1>1, PrepareFrame, RunFrame
<1>5. ASSUME NEW d \in Commands PROVE JsonInv(d)'
  <2>1. CASE d = c
    BY <1>1, <1>2, <2>1 DEF JsonInv, Writing
  <2>2. CASE d # c
    BY <1>1, <1>2, <2>2, JsonFrame
  <2> QED
    BY <2>1, <2>2
<1> QED
  BY <1>3, <1>4, <1>5

-----------------------------------------------------------------------------
(* Sequences of rows *)

LEMMA FiniteImage ==
  ASSUME NEW n \in Nat, NEW f
  PROVE  IsFiniteSet({f[k] : k \in 1..n})
<1> DEFINE g == [k \in 1..n |-> f[k]]
           T == {f[k] : k \in 1..n}
<1>1. g \in Surjection(1..n, T)
  BY DEF Surjection
<1>2. IsFiniteSet(1..n)
  BY FS_Interval
<1> QED
  BY <1>1, <1>2, FS_Surjection

LEMMA FiniteAudio ==
  ASSUME NEW rows, Len(rows) \in Nat
  PROVE  IsFiniteSet(AudioOf(rows)) /\ IsFiniteSet(SplitsOf(rows))
<1> DEFINE n == Len(rows)
           audio == [k \in 1..n |-> rows[k].audio]
           split == [k \in 1..n |-> SplitOf[rows[k].id]]
<1>1. AudioOf(rows) = {audio[k] : k \in 1..n} /\ SplitsOf(rows) = {split[k] : k \in 1..n}
  BY DEF AudioOf, SplitsOf
<1> HIDE DEF audio, split
<1>2. IsFiniteSet({audio[k] : k \in 1..n}) /\ IsFiniteSet({split[k] : k \in 1..n})
  BY FiniteImage
<1> QED
  BY <1>1, <1>2

LEMMA FiniteSplits == IsFiniteSet(Splits)
<1>1. Len(Order) \in Nat /\ Utterances = {Order[k] : k \in 1..Len(Order)}
  BY PipelineAssumption DEF Utterances, ToSet
<1>2. Splits = {[j \in 1..Len(Order) |-> SplitOf[Order[j]]][k] : k \in 1..Len(Order)}
  BY <1>1 DEF Splits
<1> QED
  BY <1>1, <1>2, FiniteImage

\* A row more.
LEMMA AppendRow ==
  ASSUME NEW rows \in Rows \cup ResultRows, NEW row
  PROVE  LET more == Append(rows, row)
         IN  /\ Len(more) = Len(rows) + 1 /\ Len(rows) \in Nat
             /\ \A k \in 1..Len(rows) : more[k] = rows[k]
             /\ more[Len(rows) + 1] = row
             /\ AudioOf(more) = AudioOf(rows) \cup {row.audio}
             /\ IdsOf(more) = IdsOf(rows) \cup {row.id}
<1> DEFINE more == Append(rows, row)
<1>1. /\ Len(more) = Len(rows) + 1 /\ Len(rows) \in Nat
      /\ \A k \in 1..Len(rows) : more[k] = rows[k]
      /\ more[Len(rows) + 1] = row
  BY DEF Rows, ResultRows
<1> HIDE DEF more
<1>2. 1..Len(more) = 1..Len(rows) \cup {Len(rows) + 1}
  BY <1>1
<1>3. AudioOf(more) = AudioOf(rows) \cup {row.audio}
  BY <1>1, <1>2 DEF AudioOf
<1>4. IdsOf(more) = IdsOf(rows) \cup {row.id}
  BY <1>1, <1>2 DEF IdsOf
<1> QED
  BY <1>1, <1>3, <1>4 DEF more

LEMMA EmptyRows ==
  /\ <<>> \in Rows /\ <<>> \in ResultRows /\ Len(<<>>) = 0
  /\ AudioOf(<<>>) = {} /\ IdsOf(<<>>) = {}
<1>1. Len(<<>>) = 0 /\ 1..0 = {}
  OBVIOUS
<1> QED
  BY <1>1 DEF Rows, ResultRows, AudioOf, IdsOf

-----------------------------------------------------------------------------
(* prepare_aishell_manifest *)

\* An extraction of whole splits has every utterance of them.
LEMMA WholeExtraction ==
  ASSUME WorldInv, ext.marker.limit = 0, NEW u \in Utterances, SplitOf[u] \in ext.marker.splits
  PROVE  ext.audio[u] # Absent
<1>1. PICK e \in Extractions : ext.marker = Fresh(e.splits, e.limit).marker
  BY DEF WorldInv
<1> DEFINE x == Fresh(e.splits, e.limit)
<1>2. /\ x.marker.audio = x.audio /\ x.marker.splits = e.splits /\ x.marker.limit = e.limit
      /\ x.audio[u] # Absent <=>
           SplitOf[u] \in e.splits /\ SpeakerOf[u] \in FirstOf(Speakers(Original, SplitOf[u]), e.limit)
  BY ExtractionTypes, FreshFacts
<1>3. Original[u] # Absent
  BY PipelineAssumption
<1>4. SpeakerOf[u] \in FirstOf(Speakers(Original, SplitOf[u]), 0)
  BY <1>3 DEF FirstOf, Speakers
<1> HIDE DEF x
<1>5. ext.marker.audio[u] # Absent
  BY <1>1, <1>2, <1>4 DEF x
<1> QED
  BY <1>5 DEF WorldInv

LEMMA BeginPrepareKeeps ==
  ASSUME Inv, NEW a \in Preparations, BeginPrepare(a), UNCHANGED <<json, world>>
  PROVE  Inv'
<1> USE DEF Inv
<1> DEFINE marker == IF a.bound THEN ext.marker ELSE Absent
           r == [Idle EXCEPT !.pc = "list", !.args = a, !.marker = marker]
<1>1. "prepare" \in Commands /\ StatesOf("prepare") = Preparing
  BY ThreeCommands DEF StatesOf
<1>2. marker \in Markers \cup {Absent}
  BY DEF TypeOK
<1> HIDE DEF marker
<1>3. r \in Preparing /\ r.pc = "list" /\ r.args = a /\ r.marker = marker /\ r.rows = <<>>
  BY <1>2, EmptyRows DEF Idle, Preparing
<1> HIDE DEF r
<1>4. cmd' = [cmd EXCEPT !["prepare"] = r] /\ cmd'["prepare"] = r /\ ArgumentsValid(a) /\ Covers(a)
  BY <1>1, CommandTypes DEF BeginPrepare, Continue, r, marker
<1>5. PrepareInv'
  <2>1. a.bound => marker = ext.marker /\ marker \in Markers /\ marker \in used
                   /\ a.splits \subseteq marker.splits /\ (a.authorized => marker.limit = 0)
    BY <1>4 DEF marker, Covers, TypeOK, WorldInv
  <2>2. ArgumentsValid(a)' /\ used' = used
    BY <1>4 DEF world, ArgumentsValid
  <2> QED
    BY <1>3, <1>4, <2>1, <2>2 DEF PrepareInv, ScanInv, ArgumentsValid
<1>6. JsonInv("prepare")'
  BY <1>1, <1>3, <1>4 DEF JsonInv, Writing
<1> QED
  BY <1>1, <1>3, <1>4, <1>5, <1>6, CommandKeeps DEF world, TypeOK

LEMMA ListKeeps ==
  ASSUME Inv, List, UNCHANGED <<json, world>>
  PROVE  Inv'
<1> USE DEF Inv
<1> DEFINE p == cmd["prepare"]
           selected == {u \in Utterances :
                     /\ ext.audio[u] # Absent
                     /\ SplitOf[u] \in p.args.splits
                     /\ SpeakerOf[u] \in FirstOf(Speakers(ext.audio, SplitOf[u]), p.args.speakers)}
           text == ext.text
           r == [p EXCEPT !.pc = "scan", !.text = text, !.todo = selected]
<1>1. "prepare" \in Commands /\ StatesOf("prepare") = Preparing /\ p \in Preparing /\ p.pc = "list"
  BY ThreeCommands, CommandTypes DEF StatesOf, List, At
<1>2. cmd' = [cmd EXCEPT !["prepare"] = r] \/ Raise("prepare")
  BY DEF List, Continue
<1>3. CASE cmd' = [cmd EXCEPT !["prepare"] = r]
  <2>1. selected \in SUBSET Utterances /\ text \in Texts
    BY DEF TypeOK
  <2>2. ~Restores /\ p.args.authorized /\ ext.marker = p.marker =>
          selected = {u \in Utterances : SplitOf[u] \in p.args.splits}
    <3> SUFFICES ASSUME p.args.authorized, ext.marker = p.marker, NEW u \in Utterances,
                        SplitOf[u] \in p.args.splits
                 PROVE  u \in selected
      OBVIOUS
    <3>1. p.args.speakers = 0 /\ ext.marker.limit = 0 /\ SplitOf[u] \in ext.marker.splits
      BY <1>1 DEF PrepareInv, ArgumentsValid
    <3>2. ext.audio[u] # Absent
      BY <3>1, WholeExtraction
    <3>3. SpeakerOf[u] \in FirstOf(Speakers(ext.audio, SplitOf[u]), p.args.speakers)
      BY <3>1, <3>2 DEF FirstOf, Speakers
    <3> QED
      BY <3>2, <3>3
  <2> HIDE DEF selected, text, p
  <2>3. /\ r \in Preparing /\ r.pc = "scan" /\ r.text = text /\ r.todo = selected
        /\ r.args = p.args /\ r.marker = p.marker /\ r.rows = p.rows
    BY <1>1, <2>1 DEF Preparing
  <2> HIDE DEF r
  <2>4. cmd'["prepare"] = r
    BY <1>1, <1>3, CommandTypes
  <2>5. p.rows = <<>>
    BY <1>1 DEF PrepareInv, p
  <2>6. ScanInv'
    <3>1. Cardinality({}) = 0 /\ 1..0 = {}
      BY FS_EmptySet
    <3>2. text = ext.text /\ ext' = ext
      BY DEF text, world
    <3> QED
      BY <2>1, <2>2, <2>3, <2>4, <2>5, <3>1, <3>2, EmptyRows DEF ScanInv
  <2>7. PrepareInv'
    BY <1>1, <2>3, <2>4, <2>6 DEF PrepareInv, ArgumentsValid, world, p
  <2>8. JsonInv("prepare")'
    BY <1>1, <2>3, <2>4 DEF JsonInv, Writing
  <2> QED
    BY <1>1, <1>3, <2>3, <2>7, <2>8, CommandKeeps DEF world, TypeOK
<1>4. CASE Raise("prepare")
  BY <1>1, <1>4, EndKeeps DEF world, TypeOK
<1> QED
  BY <1>2, <1>3, <1>4

LEMMA ScanKeeps ==
  ASSUME Inv, Scan, UNCHANGED <<json, world>>
  PROVE  Inv'
<1> USE DEF Inv
<1> DEFINE p == cmd["prepare"]
<1>1. "prepare" \in Commands /\ StatesOf("prepare") = Preparing /\ p \in Preparing /\ p.pc = "scan"
  BY ThreeCommands, CommandTypes DEF StatesOf, Scan, At
<1>2. PICK u \in p.todo :
        \/ /\ ext.audio[u] \notin {Absent} \cup AudioOf(p.rows)
           /\ Continue("prepare", [p EXCEPT !.todo = @ \ {u},
                         !.rows = Append(@, [id |-> u, audio |-> ext.audio[u], text |-> p.text])])
        \/ Raise("prepare")
  BY DEF Scan
<1>3. CASE Raise("prepare")
  BY <1>1, <1>3, EndKeeps DEF world, TypeOK
<1>4. CASE ~Raise("prepare")
  <2> DEFINE row == [id |-> u, audio |-> ext.audio[u], text |-> p.text]
             rows == p.rows
             more == Append(rows, row)
             todo == p.todo \ {u}
             r == [p EXCEPT !.todo = todo, !.rows = more]
  <2>1. cmd' = [cmd EXCEPT !["prepare"] = r] /\ ext.audio[u] \notin {Absent} \cup AudioOf(rows)
    BY <1>2, <1>4 DEF Continue
  <2>2. u \in Utterances /\ rows \in Rows /\ todo \in SUBSET Utterances
    BY <1>1 DEF Preparing
  <2>3. p.text \in Texts /\ ext.audio[u] \in Contents
    BY <1>1, <2>1, <2>2 DEF PrepareInv, ScanInv, TypeOK
  <2>4. row \in RowItems /\ row.id = u /\ row.audio = ext.audio[u] /\ row.text = p.text
    BY <2>2, <2>3 DEF RowItems
  <2> HIDE DEF row
  <2>5. more \in Rows
    BY <2>2, <2>4 DEF Rows, RowItems
  <2>6. /\ Len(more) = Len(rows) + 1 /\ Len(rows) \in Nat
        /\ \A k \in 1..Len(rows) : more[k] = rows[k]
        /\ more[Len(rows) + 1] = row
        /\ AudioOf(more) = AudioOf(rows) \cup {row.audio}
        /\ IdsOf(more) = IdsOf(rows) \cup {row.id}
    BY <2>2, AppendRow
  <2> HIDE DEF more, rows, todo
  <2>7. /\ r \in Preparing /\ r.pc = "scan" /\ r.text = p.text /\ r.todo = todo
        /\ r.args = p.args /\ r.marker = p.marker /\ r.rows = more
    BY <1>1, <2>2, <2>5 DEF Preparing
  <2> HIDE DEF r
  <2>8. cmd'["prepare"] = r
    BY <1>1, <2>1, CommandTypes
  <2>9. Cardinality(AudioOf(more)) = Len(more)
    <3>1. Cardinality(AudioOf(rows)) = Len(rows)
      BY <1>1 DEF PrepareInv, ScanInv, rows
    <3> QED
      BY <2>1, <2>4, <2>6, <3>1, FiniteAudio, FS_AddElement
  <2>10. \A k \in 1..Len(more) : more[k].text = p.text
    <3>1. \A k \in 1..Len(rows) : rows[k].text = p.text
      BY <1>1 DEF PrepareInv, ScanInv, rows
    <3> QED
      BY <2>4, <2>6, <3>1
  <2>11. ASSUME ~Restores, p.args.authorized, ext.marker = p.marker
         PROVE  /\ IdsOf(more) \cup todo = {v \in Utterances : SplitOf[v] \in p.args.splits}
                /\ \A k \in 1..Len(more) :
                     ext.audio[more[k].id] = p.marker.audio[more[k].id] => more[k].audio = p.marker.audio[more[k].id]
                /\ ext.text = p.marker.text => p.text = p.marker.text
    <3>1. /\ IdsOf(rows) \cup p.todo = {v \in Utterances : SplitOf[v] \in p.args.splits}
          /\ \A k \in 1..Len(rows) :
               ext.audio[rows[k].id] = p.marker.audio[rows[k].id] => rows[k].audio = p.marker.audio[rows[k].id]
          /\ ext.text = p.marker.text => p.text = p.marker.text
      BY <1>1, <2>11 DEF PrepareInv, ScanInv, rows
    <3>2. IdsOf(more) \cup todo = IdsOf(rows) \cup p.todo
      BY <2>4, <2>6 DEF todo
    <3> QED
      BY <2>4, <2>6, <3>1, <3>2
  <2>12. ScanInv'
    BY <2>3, <2>7, <2>8, <2>9, <2>10, <2>11 DEF ScanInv, world
  <2>13. PrepareInv'
    BY <1>1, <2>7, <2>8, <2>12 DEF PrepareInv, ArgumentsValid, world
  <2>14. JsonInv("prepare")'
    BY <1>1, <2>7, <2>8 DEF JsonInv, Writing
  <2> QED
    BY <1>1, <2>1, <2>7, <2>13, <2>14, CommandKeeps DEF world, TypeOK
<1> QED
  BY <1>3, <1>4

LEMMA EndScanKeeps ==
  ASSUME Inv, EndScan, UNCHANGED <<json, world>>
  PROVE  Inv'
<1> USE DEF Inv
<1> DEFINE p == cmd["prepare"]
           rows == p.rows
           selection == Selection(p)
           m == [kind |-> "manifest", authorized |-> p.args.authorized, frozen |-> FALSE,
                 marker |-> p.marker, selection |-> selection, rows |-> rows]
<1>1. /\ "prepare" \in Commands /\ StatesOf("prepare") = Preparing /\ p \in Preparing
      /\ p.pc = "scan" /\ p.todo = {}
  BY ThreeCommands, CommandTypes DEF StatesOf, EndScan, At
<1>2. CASE ~Unmoved
  BY <1>1, <1>2, EndKeeps DEF EndScan, world, TypeOK
<1>3. CASE Unmoved
  <2>1. Publish("prepare", m)
    BY <1>3 DEF EndScan
  <2>2. /\ p.args \in Preparations /\ rows \in Rows /\ p.marker \in Markers \cup {Absent}
        /\ p.args.bound => p.marker \in Markers
    BY <1>1 DEF PrepareInv, Preparing
  <2>3. /\ p.args.splits \in SUBSET Splits /\ p.args.speakers \in Nat
        /\ p.args.authorized \in BOOLEAN /\ p.args.bound \in BOOLEAN
    BY <2>2, PipelineAssumption
  <2>4. selection \in Selections /\ selection.rows = Len(rows)
    <3>1. Len(rows) \in Nat
      BY <2>2 DEF Rows
    <3>2. SpeakersOf(rows) \in SUBSET {SpeakerOf[u] : u \in Utterances}
      BY <2>2, RowTypes DEF SpeakersOf
    <3>3. (IF p.args.bound THEN p.marker.limit ELSE 0) \in Nat
      BY <2>2 DEF Markers
    <3> QED
      BY <2>3, <3>1, <3>2, <3>3 DEF Selection, Selections
  <2> HIDE DEF selection
  <2>5. m \in Manifests /\ m.rows = rows /\ m.selection = selection /\ m.authorized = p.args.authorized
    BY <2>2, <2>3, <2>4 DEF Manifests
  <2>6. ASSUME ~Restores, p.args.authorized
        PROVE  Whole(rows)
    <3>1. /\ Cardinality(p.args.splits) = 1 /\ p.args.bound /\ ext.marker = p.marker
          /\ ext.marker.audio = ext.audio /\ ext.marker.text = ext.text
      BY <1>1, <1>3, <2>6 DEF PrepareInv, ArgumentsValid, Unmoved, ExtractionValid
    <3>2. /\ IdsOf(rows) = {u \in Utterances : SplitOf[u] \in p.args.splits}
          /\ \A k \in 1..Len(rows) : rows[k].audio = p.marker.audio[rows[k].id]
          /\ \A k \in 1..Len(rows) : rows[k].text = p.marker.text
      BY <1>1, <2>6, <3>1 DEF PrepareInv, ScanInv
    <3>3. PICK s : p.args.splits = {s}
      <4>1. IsFiniteSet(p.args.splits)
        BY <2>3, FiniteSplits, FS_Subset
      <4> QED
        BY <3>1, <4>1, FS_Singleton
    <3>4. s \in Splits /\ IdsOf(rows) = {u \in Utterances : SplitOf[u] = s}
      BY <2>3, <3>2, <3>3
    <3>5. \A k \in 1..Len(rows) : rows[k].id \in Utterances /\ rows[k].audio \in Contents
      BY <2>2, RowTypes
    <3>6. Absent \notin Contents
      BY PipelineAssumption
    <3>7. \A k \in 1..Len(rows) : rows[k].audio = Original[rows[k].id] /\ rows[k].text = OriginalText
      BY <3>1, <3>2, <3>5, <3>6, MarkerFacts
    <3> QED
      BY <3>4, <3>7 DEF Whole
  <2>7. Cardinality(AudioOf(rows)) = Len(rows)
    BY <1>1 DEF PrepareInv, ScanInv
  <2> HIDE DEF m, rows
  <2>8. Sound("prepare", m)
    BY <2>4, <2>5, <2>6, <2>7, ThreeCommands DEF Sound, ManifestSound
  <2> QED
    BY <1>1, <2>1, <2>8, PublishKeeps DEF world
<1> QED
  BY <1>2, <1>3

-----------------------------------------------------------------------------
(* run_manifest *)

LEMMA RunFacts ==
  ASSUME Inv
  PROVE  /\ "run" \in Commands /\ StatesOf("run") = RunStates /\ cmd["run"] \in RunStates
         /\ cmd["run"].rows \in ResultRows
         /\ cmd["run"].pc \in Running => RunSound(cmd["run"])
  BY ThreeCommands, CommandTypes DEF StatesOf, Inv, RunInv, RunStates

\* A step of a run that goes on keeps the invariant if it keeps the run's own.
LEMMA RunStepKeeps ==
  ASSUME Inv, NEW r \in RunStates, r.pc \in Running, RunSound(r),
         cmd' = [cmd EXCEPT !["run"] = r], UNCHANGED <<json, world>>
  PROVE  Inv'
<1> USE DEF Inv
<1>1. "run" \in Commands /\ StatesOf("run") = RunStates
  BY RunFacts
<1>2. cmd'["run"] = r
  BY <1>1, CommandTypes
<1>3. model' = model /\ used' = used /\ json' = json /\ ext' = ext
  BY DEF world
<1>4. RunInv'
  <2>1. ModelInv(r)' = ModelInv(r)
    BY <1>3 DEF ModelInv
  <2> QED
    BY <1>2, <1>3, <2>1 DEF RunInv, RunSound
<1>5. JsonInv("run")'
  BY <1>1, <1>2, <1>3 DEF JsonInv, Writing, Running
<1> QED
  BY <1>1, <1>2, <1>3, <1>4, <1>5, CommandKeeps DEF TypeOK

LEMMA BeginRunKeeps ==
  ASSUME Inv, NEW a \in Runs, BeginRun(a), UNCHANGED <<json, world>>
  PROVE  Inv'
<1> USE DEF Inv
<1> DEFINE m == json["prepare"].file
           item == FirstItem(a)
           r == [Idle EXCEPT !.pc = "hash", !.args = a, !.source = m, !.item = item,
                             !.artifacts = Nothing, !.loaded = Nothing]
<1>1. cmd' = [cmd EXCEPT !["run"] = r] /\ ManifestValid(m) /\ WarmupSeparate(m, a)
  BY DEF BeginRun, Continue
<1>2. m \in Manifests /\ ManifestSound(m)
  <2>1. "prepare" \in Commands /\ Payloads("prepare") = Manifests
    BY ThreeCommands
  <2>2. m # Absent
    BY <1>1 DEF ManifestValid
  <2> QED
    BY <2>1, <2>2 DEF JsonInv, Sound
<1>3. item \in WarmupItems \cup {Absent}
  <2>1. a.warmup \in Contents \cup {Absent}
    BY PipelineAssumption
  <2> QED
    BY <2>1 DEF FirstItem, WarmupItems
<1>4. Nothing \in Loads /\ \A f \in ModelFiles : Nothing[f] = Absent
  BY DEF Nothing, Loads
<1> HIDE DEF m, item
<1>5. /\ r \in RunStates /\ r.pc = "hash" /\ r.args = a /\ r.source = m /\ r.item = item
      /\ r.artifacts = Nothing /\ r.loaded = Nothing /\ r.rows = <<>>
  BY <1>2, <1>3, <1>4, EmptyRows DEF Idle, RunStates, Running
<1> HIDE DEF r
<1>6. Len(m.rows) \in Nat
  BY <1>2 DEF Manifests, Rows
<1>7. RowsInv(r) /\ ItemInv(r) /\ HeardInv(r)
  <2>1. 1..0 = {} /\ Len(r.rows) = 0
    BY <1>5, EmptyRows
  <2> QED
    BY <1>5, <1>6, <2>1 DEF RowsInv, ItemInv, HeardInv, HeardBy
<1>8. ModelInv(r)
  BY <1>4, <1>5 DEF ModelInv
<1>9. RunSound(r) /\ r.pc \in Running
  BY <1>1, <1>2, <1>3, <1>4, <1>5, <1>7, <1>8 DEF RunSound, Running
<1> QED
  BY <1>1, <1>5, <1>9, RunStepKeeps

LEMMA HashBeforeKeeps ==
  ASSUME Inv, NEW f \in ModelFiles, HashBefore(f), UNCHANGED <<json, world>>
  PROVE  Inv'
<1> USE DEF Inv
<1> DEFINE o == cmd["run"]
           artifacts == [o.artifacts EXCEPT ![f] = model[f]]
           r == [o EXCEPT !.artifacts = artifacts]
<1>1. /\ o \in RunStates /\ o.pc = "hash" /\ RunSound(o) /\ "hash" \in Running
      /\ f \in Files(o.args)
  BY RunFacts DEF HashBefore, At, Running, Unhashed
<1>2. cmd' = [cmd EXCEPT !["run"] = r]
  BY RunFacts, CommandTypes DEF HashBefore
<1>3. model[f] \in Weights /\ model[f] # Absent /\ model[f] \in used
  BY PipelineAssumption DEF TypeOK, WorldInv
<1>4. /\ artifacts \in Loads /\ artifacts[f] = model[f]
      /\ \A g \in ModelFiles : g # f => artifacts[g] = o.artifacts[g]
  BY <1>1, <1>3 DEF RunSound, Loads
<1> HIDE DEF artifacts
<1>5. /\ r \in RunStates /\ r.pc = o.pc /\ r.args = o.args /\ r.source = o.source /\ r.item = o.item
      /\ r.artifacts = artifacts /\ r.loaded = o.loaded /\ r.rows = o.rows
  BY <1>1, <1>4 DEF RunStates
<1> HIDE DEF r, o
<1>6. RowsInv(r) /\ ItemInv(r) /\ HeardInv(r)
  BY <1>1, <1>5 DEF RunSound, RowsInv, ItemInv, HeardInv, HeardBy
<1>7. ModelInv(r)
  <2>1. o.loaded = Nothing /\ \A g \in ModelFiles : Nothing[g] = Absent
    BY <1>1 DEF RunSound, ModelInv, Nothing
  <2> QED
    BY <1>1, <1>3, <1>4, <1>5, <2>1 DEF RunSound, ModelInv
<1>8. RunSound(r) /\ r.pc \in Running
  BY <1>1, <1>4, <1>5, <1>6, <1>7 DEF RunSound
<1> QED
  BY <1>2, <1>5, <1>8, RunStepKeeps

LEMMA RunPc ==
  ASSUME NEW o \in RunStates, NEW pc \in Running
  PROVE  LET r == WithPc(o, pc)
         IN  /\ r \in RunStates /\ r.pc = pc /\ r.args = o.args /\ r.source = o.source
             /\ r.item = o.item /\ r.artifacts = o.artifacts /\ r.loaded = o.loaded /\ r.rows = o.rows
  BY DEF RunStates, WithPc

\* A run goes on to another step of it.
LEMMA RunPcKeeps ==
  ASSUME Inv, NEW pc \in Running, Go("run", pc), UNCHANGED <<json, world>>,
         cmd["run"].pc \in Running,
         RunSound(WithPc(cmd["run"], pc))
  PROVE  Inv'
<1> DEFINE r == WithPc(cmd["run"], pc)
<1>1. r \in RunStates /\ r.pc = pc
  BY RunFacts, RunPc
<1>2. cmd' = [cmd EXCEPT !["run"] = r]
  BY RunFacts, CommandTypes DEF Go, WithPc, Inv
<1> HIDE DEF r
<1> QED
  BY <1>1, <1>2, RunStepKeeps DEF r

LEMMA StartRowsKeeps ==
  ASSUME Inv, StartRows, UNCHANGED <<json, world>>
  PROVE  Inv'
<1> USE DEF Inv
<1> DEFINE o == cmd["run"]
           pc == IF o.item = Absent THEN "row" ELSE "decode"
           r == WithPc(o, pc)
<1>1. /\ o \in RunStates /\ o.pc = "hash" /\ RunSound(o) /\ o.pc \in Running /\ pc \in Running
      /\ \A f \in Files(o.args) : o.artifacts[f] # Absent
  BY RunFacts DEF StartRows, At, Running, Unhashed
<1>2. Go("run", pc) /\ (pc = "decode" => o.item # Absent) /\ pc \in {"row", "decode"}
  BY DEF StartRows
<1> HIDE DEF pc
<1>3. /\ r \in RunStates /\ r.pc = pc /\ r.args = o.args /\ r.source = o.source
      /\ r.item = o.item /\ r.artifacts = o.artifacts /\ r.loaded = o.loaded /\ r.rows = o.rows
  BY <1>1, RunPc
<1> HIDE DEF r, o
<1>4. o.rows = <<>> /\ (pc = "decode" => o.item \in WarmupItems)
  BY <1>1, <1>2 DEF RunSound
<1>5. RowsInv(r) /\ ItemInv(r) /\ HeardInv(r)
  BY <1>1, <1>2, <1>3, <1>4 DEF RunSound, RowsInv, ItemInv, HeardInv, HeardBy
<1>6. ModelInv(r)
  BY <1>1, <1>2, <1>3 DEF RunSound, ModelInv
<1>7. RunSound(r)
  BY <1>1, <1>2, <1>3, <1>5, <1>6 DEF RunSound
<1> QED
  BY <1>1, <1>2, <1>7, RunPcKeeps DEF r, o

LEMMA EndRowsKeeps ==
  ASSUME Inv, EndRows, UNCHANGED <<json, world>>
  PROVE  Inv'
<1> USE DEF Inv
<1> DEFINE o == cmd["run"]
           r == WithPc(o, "rehash")
<1>1. /\ o \in RunStates /\ o.pc = "row" /\ RunSound(o) /\ o.pc \in Running /\ "rehash" \in Running
      /\ Go("run", "rehash") /\ ~(Len(o.rows) < Len(o.source.rows))
  BY RunFacts DEF EndRows, At, Running, RowsLeft
<1>2. /\ r \in RunStates /\ r.pc = "rehash" /\ r.args = o.args /\ r.source = o.source
      /\ r.item = o.item /\ r.artifacts = o.artifacts /\ r.loaded = o.loaded /\ r.rows = o.rows
  BY <1>1, RunPc
<1>3. Len(o.rows) \in Nat /\ Len(o.source.rows) \in Nat
  BY <1>1, RunFacts DEF RunSound, Manifests, Rows, ResultRows
<1> HIDE DEF r, o
<1>4. RowsInv(r) /\ ItemInv(r) /\ HeardInv(r)
  BY <1>1, <1>2 DEF RunSound, RowsInv, ItemInv, HeardInv, HeardBy
<1>5. ModelInv(r) /\ Len(r.rows) = Len(r.source.rows)
  BY <1>1, <1>2, <1>3 DEF RunSound, ModelInv, RowsInv
<1>6. RunSound(r)
  BY <1>1, <1>2, <1>4, <1>5 DEF RunSound
<1> QED
  BY <1>1, <1>6, RunPcKeeps DEF r, o

LEMMA HashAfterKeeps ==
  ASSUME Inv, HashAfter, UNCHANGED <<json, world>>
  PROVE  Inv'
<1> USE DEF Inv
<1> DEFINE o == cmd["run"]
           r == WithPc(o, "done")
<1>1. o \in RunStates /\ o.pc = "rehash" /\ RunSound(o) /\ o.pc \in Running /\ "done" \in Running
  BY RunFacts DEF HashAfter, At, Running
<1>2. CASE ~(\A f \in Files(o.args) : o.artifacts[f] = model[f])
  BY <1>2, RunFacts, EndKeeps DEF HashAfter, world, TypeOK
<1>3. CASE \A f \in Files(o.args) : o.artifacts[f] = model[f]
  <2>1. /\ r \in RunStates /\ r.pc = "done" /\ r.args = o.args /\ r.source = o.source
        /\ r.item = o.item /\ r.artifacts = o.artifacts /\ r.loaded = o.loaded /\ r.rows = o.rows
    BY <1>1, RunPc
  <2>2. Go("run", "done")
    BY <1>3 DEF HashAfter
  <2> HIDE DEF r, o
  <2>3. RowsInv(r) /\ ItemInv(r) /\ HeardInv(r)
    BY <1>1, <2>1 DEF RunSound, RowsInv, ItemInv, HeardInv, HeardBy
  <2>4. ModelInv(r) /\ Len(r.rows) = Len(r.source.rows)
    BY <1>1, <1>3, <2>1 DEF RunSound, ModelInv
  <2>5. RunSound(r)
    BY <1>1, <2>1, <2>3, <2>4 DEF RunSound
  <2> QED
    BY <1>1, <2>2, <2>5, RunPcKeeps DEF r, o
<1> QED
  BY <1>2, <1>3

LEMMA ReadRowKeeps ==
  ASSUME Inv, ReadRow, UNCHANGED <<json, world>>
  PROVE  Inv'
<1> USE DEF Inv
<1> DEFINE o == cmd["run"]
           row == o.source.rows[Len(o.rows) + 1]
           r == [o EXCEPT !.pc = "decode", !.item = row]
<1>1. o \in RunStates /\ o.pc = "row" /\ RunSound(o) /\ Len(o.rows) < Len(o.source.rows)
  BY RunFacts DEF ReadRow, At, Running, RowsLeft
<1>2. row \in RowItems
  <2>1. o.source.rows \in Rows /\ o.rows \in ResultRows
    BY <1>1 DEF RunSound, Manifests, RunStates
  <2>2. Len(o.rows) \in Nat /\ Len(o.source.rows) \in Nat
    BY <2>1 DEF Rows, ResultRows
  <2> QED
    BY <1>1, <2>1, <2>2, RowTypes
<1>3. cmd' = [cmd EXCEPT !["run"] = r] \/ Raise("run")
  <2> DEFINE content == ext.audio[row.id]
  <2>1. CASE AudioExpected(row, content)
    <3>1. [row EXCEPT !.audio = content] = row
      BY <1>2, <2>1 DEF AudioExpected, RowItems
    <3> QED
      BY <2>1, <3>1 DEF ReadRow, NextRow, Continue
  <2>2. CASE ~AudioExpected(row, content)
    BY <2>2 DEF ReadRow, NextRow
  <2> QED
    BY <2>1, <2>2
<1>4. CASE Raise("run")
  BY <1>4, RunFacts, EndKeeps DEF world, TypeOK
<1>5. CASE cmd' = [cmd EXCEPT !["run"] = r]
  <2>1. row = o.source.rows[Len(o.rows) + 1]
    OBVIOUS
  <2> HIDE DEF row
  <2>2. /\ r \in RunStates /\ r.pc = "decode" /\ r.args = o.args /\ r.source = o.source
        /\ r.item = row /\ r.artifacts = o.artifacts /\ r.loaded = o.loaded /\ r.rows = o.rows
    BY <1>1, <1>2 DEF RunStates, Running
  <2> HIDE DEF r, o
  <2>3. RowsInv(r) /\ ItemInv(r) /\ HeardInv(r)
    BY <1>1, <2>1, <2>2 DEF RunSound, RowsInv, ItemInv, HeardInv, HeardBy
  <2>4. ModelInv(r)
    BY <1>1, <2>2 DEF RunSound, ModelInv
  <2>5. RunSound(r) /\ r.pc \in Running
    BY <1>1, <2>2, <2>3, <2>4 DEF RunSound, Running
  <2> QED
    BY <1>5, <2>2, <2>5, RunStepKeeps DEF r
<1> QED
  BY <1>3, <1>4, <1>5

\* A model file is opened, if it is needed and this is the first use.
LEMMA LoadKeeps ==
  ASSUME Inv, NEW f \in ModelFiles, NEW pc \in {"verify", "result"},
         cmd["run"].pc \in {"decode", "verify"},
         cmd' = [cmd EXCEPT !["run"] = [cmd["run"] EXCEPT !.pc = pc, !.loaded = Loaded(f)]],
         "streaming" \in Files(cmd["run"].args) =>
           f = "streaming" \/ cmd["run"].loaded["streaming"] # Absent,
         pc = "result" => \A g \in Files(cmd["run"].args) : g = f \/ cmd["run"].loaded[g] # Absent,
         UNCHANGED <<json, world>>
  PROVE  Inv'
<1> USE DEF Inv
<1> DEFINE o == cmd["run"]
           loaded == Loaded(f)
           r == [o EXCEPT !.pc = pc, !.loaded = loaded]
<1>1. o \in RunStates /\ RunSound(o) /\ pc \in Running /\ o.pc \in {"decode", "verify"}
  BY RunFacts DEF Running
<1>2. /\ loaded \in Loads
      /\ \A g \in ModelFiles : loaded[g] = IF g = f /\ f \in Files(o.args) /\ o.loaded[g] = Absent
                                           THEN model[f] ELSE o.loaded[g]
  BY <1>1 DEF Loaded, Loads, RunSound, TypeOK
<1>3. model[f] # Absent
  BY PipelineAssumption DEF TypeOK
<1>4. Files(o.args) \subseteq ModelFiles
  BY DEF Files, ModelFiles
<1>5. /\ r \in RunStates /\ r.pc = pc /\ r.args = o.args /\ r.source = o.source /\ r.item = o.item
      /\ r.artifacts = o.artifacts /\ r.loaded = loaded /\ r.rows = o.rows
  <2> HIDE DEF loaded, o
  <2> QED
    BY <1>1, <1>2 DEF RunStates
<1>6. o.rows # <<>> => loaded = o.loaded
  <2>1. o.rows # <<>> => \A g \in Files(o.args) : o.loaded[g] # Absent
    BY <1>1 DEF RunSound, HeardInv
  <2> QED
    BY <2>1 DEF Loaded
<1>7. "streaming" \in Files(o.args) => loaded["streaming"] # Absent
  BY <1>2, <1>3, <1>4
<1>8. pc = "result" => \A g \in Files(o.args) : loaded[g] # Absent
  BY <1>2, <1>3, <1>4
<1>9. o.rows # <<>> => \A g \in Files(o.args) : loaded[g] # Absent
  BY <1>1, <1>6 DEF RunSound, HeardInv
<1> HIDE DEF loaded, r, o
<1>10. RowsInv(r) /\ ItemInv(r)
  BY <1>1, <1>5 DEF RunSound, RowsInv, ItemInv
<1>11. HeardInv(r)
  <2>1. HeardBy(o.rows, loaded)
    <3>1. CASE o.rows = <<>>
      <4>1. 1..Len(o.rows) = {}
        BY <3>1, EmptyRows
      <4> QED
        BY <4>1 DEF HeardBy
    <3>2. CASE o.rows # <<>>
      BY <1>1, <1>6, <3>2 DEF RunSound, HeardInv
    <3> QED
      BY <3>1, <3>2
  <2> QED
    BY <1>5, <1>7, <1>8, <1>9, <2>1 DEF HeardInv
<1>12. ModelInv(r)
  BY <1>1, <1>2, <1>5 DEF RunSound, ModelInv
<1>13. RunSound(r)
  BY <1>1, <1>2, <1>5, <1>10, <1>11, <1>12 DEF RunSound
<1> QED
  BY <1>1, <1>5, <1>13, RunStepKeeps DEF r, o, loaded

LEMMA DecodeKeeps ==
  ASSUME Inv, Decode, UNCHANGED <<json, world>>
  PROVE  Inv'
<1> DEFINE o == cmd["run"]
           pc == IF o.args.dual THEN "verify" ELSE "result"
<1>1. o.pc = "decode" /\ "streaming" \in ModelFiles /\ pc \in {"verify", "result"}
      /\ cmd' = [cmd EXCEPT !["run"] = [o EXCEPT !.pc = pc, !.loaded = Loaded("streaming")]]
  BY DEF Decode, At, ModelFiles, Continue
<1>2. pc = "result" => Files(o.args) \subseteq {"streaming"}
  BY DEF Files
<1> HIDE DEF pc
<1> QED
  BY <1>1, <1>2, LoadKeeps

LEMMA VerifyKeeps ==
  ASSUME Inv, Verify, UNCHANGED <<json, world>>
  PROVE  Inv'
<1> DEFINE o == cmd["run"]
<1>1. o.pc = "verify" /\ "verifier" \in ModelFiles /\ o.pc \in Running
      /\ cmd' = [cmd EXCEPT !["run"] = [o EXCEPT !.pc = "result", !.loaded = Loaded("verifier")]]
  BY DEF Verify, At, ModelFiles, Continue, Running
<1>2. "streaming" \in Files(o.args) => o.loaded["streaming"] # Absent
  BY <1>1, RunFacts DEF RunSound, HeardInv
<1>3. Files(o.args) \subseteq {"streaming", "verifier"}
  BY DEF Files, ModelFiles
<1> QED
  BY <1>1, <1>2, <1>3, LoadKeeps

LEMMA ResultKeeps ==
  ASSUME Inv, Result, UNCHANGED <<json, world>>
  PROVE  Inv'
<1> USE DEF Inv
<1> DEFINE o == cmd["run"]
           rows == IF o.item.id = Absent THEN o.rows ELSE Append(o.rows, RowOf(o.item, o.loaded))
           r == [o EXCEPT !.pc = "row", !.item = Absent, !.rows = rows]
<1>1. o \in RunStates /\ o.pc = "result" /\ RunSound(o) /\ o.rows \in ResultRows
  BY RunFacts DEF Result, At, Running
<1>2. cmd' = [cmd EXCEPT !["run"] = r]
  BY RunFacts, CommandTypes DEF Result, Continue
<1>3. \A g \in Files(o.args) : o.loaded[g] # Absent
  BY <1>1 DEF RunSound, HeardInv
<1>4. /\ rows \in ResultRows
      /\ Len(rows) <= Len(o.source.rows)
      /\ \A k \in 1..Len(rows) : rows[k].id = o.source.rows[k].id
                                 /\ rows[k].audio = o.source.rows[k].audio
                                 /\ rows[k].text = o.source.rows[k].text
      /\ HeardBy(rows, o.loaded)
  <2>1. CASE o.item \in WarmupItems
    <3>1. rows = o.rows
      BY <2>1 DEF WarmupItems
    <3> QED
      BY <1>1, <3>1 DEF RunSound, RowsInv, HeardInv
  <2>2. CASE Len(o.rows) < Len(o.source.rows) /\ o.item = o.source.rows[Len(o.rows) + 1]
    <3> DEFINE item == o.item
               row == RowOf(item, o.loaded)
    <3>1. Len(o.rows) \in Nat /\ Len(o.source.rows) \in Nat /\ o.source.rows \in Rows
      <4>1. o.source.rows \in Rows
        BY <1>1 DEF RunSound, Manifests
      <4> QED
        BY <1>1, <4>1 DEF Rows, ResultRows
    <3>2. item \in RowItems
      BY <2>2, <3>1, RowTypes
    <3>3. item.id # Absent /\ item.audio \in Contents
      BY <3>2, PipelineAssumption DEF RowItems
    <3>4. /\ row.id = item.id /\ row.audio = item.audio /\ row.text = item.text
          /\ row.hyp = [audio |-> row.audio, by |-> o.loaded]
          /\ row \in [id : Utterances, audio : Contents, text : Texts, hyp : [audio : Contents, by : Loads]]
      <4>1. o.loaded \in Loads
        BY <1>1 DEF RunSound
      <4> QED
        BY <3>2, <4>1 DEF RowOf, RowItems
    <3>5. rows = Append(o.rows, row)
      BY <3>3
    <3> HIDE DEF row, rows, item
    <3>6. rows \in ResultRows
      BY <1>1, <3>4, <3>5 DEF ResultRows
    <3>7. Len(rows) = Len(o.rows) + 1 /\ (\A k \in 1..Len(o.rows) : rows[k] = o.rows[k])
          /\ rows[Len(o.rows) + 1] = row
      BY <1>1, <3>5, AppendRow
    <3>8. RowsInv(o) /\ HeardBy(o.rows, o.loaded)
      BY <1>1 DEF RunSound, HeardInv
    <3>9. item = o.source.rows[Len(o.rows) + 1]
      BY <2>2 DEF item
    <3>10. ASSUME NEW k \in 1..Len(rows)
           PROVE  /\ rows[k].id = o.source.rows[k].id /\ rows[k].audio = o.source.rows[k].audio
                  /\ rows[k].text = o.source.rows[k].text
                  /\ rows[k].hyp = [audio |-> rows[k].audio, by |-> o.loaded]
      <4>1. CASE k = Len(o.rows) + 1
        BY <3>4, <3>7, <3>9, <4>1
      <4>2. CASE k \in 1..Len(o.rows)
        BY <3>7, <3>8, <4>2 DEF RowsInv, HeardBy
      <4> QED
        BY <3>1, <3>7, <4>1, <4>2
    <3>11. Len(rows) <= Len(o.source.rows)
      BY <2>2, <3>1, <3>7
    <3>12. HeardBy(rows, o.loaded)
      BY <3>10 DEF HeardBy
    <3> QED
      BY <3>6, <3>10, <3>11, <3>12
  <2> QED
    BY <1>1, <2>1, <2>2 DEF RunSound, ItemInv
<1> HIDE DEF rows
<1>5. /\ r \in RunStates /\ r.pc = "row" /\ r.args = o.args /\ r.source = o.source
      /\ r.item = Absent /\ r.artifacts = o.artifacts /\ r.loaded = o.loaded /\ r.rows = rows
  BY <1>1, <1>4 DEF RunStates, Running
<1> HIDE DEF r, o
<1>6. RowsInv(r) /\ ItemInv(r) /\ HeardInv(r)
  BY <1>3, <1>4, <1>5 DEF RowsInv, ItemInv, HeardInv
<1>7. ModelInv(r)
  BY <1>1, <1>5 DEF RunSound, ModelInv
<1>8. RunSound(r) /\ r.pc \in Running
  BY <1>1, <1>5, <1>6, <1>7 DEF RunSound, Running
<1> QED
  BY <1>2, <1>5, <1>8, RunStepKeeps

\* The rows of a run that has come to its end are those of the manifest.
LEMMA SameRows ==
  ASSUME NEW r, RowsInv(r), Len(r.rows) = Len(r.source.rows)
  PROVE  /\ AudioOf(r.rows) = AudioOf(r.source.rows) /\ SplitsOf(r.rows) = SplitsOf(r.source.rows)
         /\ SpeakersOf(r.rows) = SpeakersOf(r.source.rows)
         /\ Whole(r.source.rows) => Whole(r.rows)
<1>1. AudioOf(r.rows) = AudioOf(r.source.rows)
  BY DEF RowsInv, AudioOf
<1>2. SplitsOf(r.rows) = SplitsOf(r.source.rows)
  BY DEF RowsInv, SplitsOf
<1>3. SpeakersOf(r.rows) = SpeakersOf(r.source.rows)
  BY DEF RowsInv, SpeakersOf
<1>4. IdsOf(r.rows) = IdsOf(r.source.rows)
  BY DEF RowsInv, IdsOf
<1> QED
  BY <1>1, <1>2, <1>3, <1>4 DEF Whole, RowsInv

LEMMA EndRunKeeps ==
  ASSUME Inv, EndRun, UNCHANGED <<json, world>>
  PROVE  Inv'
<1> USE DEF Inv
<1> DEFINE o == cmd["run"]
           src == o.source
           effective == src.authorized /\ o.args.real
           m == [kind |-> "result", authorized |-> effective, frozen |-> effective,
                 marker |-> src.marker, selection |-> src.selection,
                 real |-> o.args.real, dual |-> o.args.dual, artifacts |-> o.artifacts,
                 warmup |-> o.args.warmup, known |-> o.args.known, rows |-> o.rows]
<1>1. o.pc = "done" /\ RunSound(o) /\ o.rows \in ResultRows /\ Publish("run", m)
  BY RunFacts DEF EndRun, At, Running
<1>2. /\ src \in Manifests /\ o.args \in Runs /\ o.artifacts \in Loads /\ o.loaded \in Loads
      /\ ManifestValid(src) /\ ManifestSound(src) /\ WarmupSeparate(src, o.args)
      /\ RowsInv(o) /\ ModelInv(o) /\ HeardInv(o) /\ Len(o.rows) = Len(src.rows)
  BY <1>1 DEF RunSound
<1>3. /\ o.args.real \in BOOLEAN /\ o.args.dual \in BOOLEAN /\ o.args.warmup \in Contents \cup {Absent}
      /\ o.args.known \in Environments
  BY <1>2, PipelineAssumption
<1>4. /\ src.authorized \in BOOLEAN /\ src.marker \in Markers \cup {Absent} /\ src.selection \in Selections
      /\ src.rows \in Rows /\ Len(src.rows) \in Nat
  <2>1. /\ src.authorized \in BOOLEAN /\ src.marker \in Markers \cup {Absent}
        /\ src.selection \in Selections /\ src.rows \in Rows
    BY <1>2 DEF Manifests
  <2> QED
    BY <2>1 DEF Rows
<1>5. effective \in BOOLEAN /\ (effective => src.authorized /\ o.args.real)
  BY <1>3, <1>4
<1> HIDE DEF effective, src
<1>6. /\ m \in Results /\ m.rows = o.rows /\ m.selection = src.selection /\ m.marker = src.marker
      /\ m.authorized = effective /\ m.frozen = effective /\ m.artifacts = o.artifacts
      /\ m.real = o.args.real /\ m.dual = o.args.dual /\ m.warmup = o.args.warmup /\ m.kind = "result"
  BY <1>1, <1>2, <1>3, <1>4, <1>5 DEF Results
<1> HIDE DEF m
<1>7. /\ AudioOf(o.rows) = AudioOf(src.rows) /\ SplitsOf(o.rows) = SplitsOf(src.rows)
      /\ SpeakersOf(o.rows) = SpeakersOf(src.rows) /\ (Whole(src.rows) => Whole(o.rows))
  BY <1>2, SameRows DEF src
<1>8. ~Restores => HeardBy(o.rows, o.artifacts)
  <2> SUFFICES ASSUME ~Restores, NEW k \in 1..Len(o.rows)
               PROVE  o.rows[k].hyp = [audio |-> o.rows[k].audio, by |-> o.artifacts]
    BY DEF HeardBy
  <2>1. o.rows # <<>>
    BY EmptyRows
  <2>2. \A f \in Files(o.args) : o.loaded[f] # Absent
    BY <1>2, <2>1 DEF HeardInv
  <2>3. \A f \in ModelFiles : o.loaded[f] = o.artifacts[f]
    BY <1>1, <1>2, <2>2 DEF ModelInv
  <2>4. o.loaded = o.artifacts
    BY <1>2, <2>3 DEF Loads
  <2> QED
    BY <1>2, <2>4 DEF HeardInv, HeardBy
<1>9. ASSUME effective, SizesPlausible(m), EnvironmentKnown(m)
      PROVE  Scorable(m)
  <2>1. DatasetValid(src) /\ Cardinality(SplitsOf(src.rows)) = 1
    BY <1>5, <1>9, <1>2 DEF ManifestValid
  <2>2. DatasetValid(m)
    BY <1>2, <1>6, <1>7, <2>1 DEF DatasetValid
  <2>3. ModelValid(m)
    <3>1. {f \in ModelFiles : o.artifacts[f] # Absent} = Files(o.args)
      BY <1>1, <1>2 DEF ModelInv, Files, ModelFiles
    <3>2. Files(m) = Files(o.args)
      BY <1>6 DEF Files
    <3> QED
      BY <1>5, <1>6, <1>9, <3>1, <3>2 DEF ModelValid
  <2>4. o.args.warmup \notin {Absent} \cup AudioOf(src.rows)
    BY <1>2, <1>5, <1>9 DEF WarmupSeparate
  <2>5. m.rows # <<>>
    <3>1. SplitsOf(<<>>) = {}
      BY EmptyRows DEF SplitsOf
    <3>2. Cardinality(SplitsOf(<<>>)) = 0
      BY <3>1, FS_EmptySet
    <3>3. SplitsOf(<<>>) # SplitsOf(o.rows)
      BY <1>7, <2>1, <3>2
    <3> QED
      BY <1>6, <3>3
  <2>6. Cardinality(AudioOf(src.rows)) = Len(src.rows)
    BY <1>2 DEF ManifestSound
  <2>7. m \notin {Absent, Torn}
    BY <1>6, PipelineAssumption
  <2> QED
    BY <1>2, <1>6, <1>7, <1>9, <2>1, <2>2, <2>3, <2>4, <2>5, <2>6, <2>7 DEF Scorable, RunnerValid
<1>10. ResultSound(m)
  <2>1. Len(m.rows) = m.selection.rows
    BY <1>2, <1>6 DEF ManifestSound
  <2>2. ~Restores /\ m.authorized => Whole(m.rows)
    BY <1>2, <1>5, <1>6, <1>7 DEF ManifestSound
  <2> QED
    BY <1>6, <1>8, <1>9, <2>1, <2>2 DEF ResultSound
<1>11. Sound("run", m)
  BY <1>6, <1>10, ThreeCommands DEF Sound
<1> QED
  BY <1>1, <1>11, RunFacts, PublishKeeps DEF world, m, src, effective

-----------------------------------------------------------------------------
(* evaluate_manifest.py *)

LEMMA EvaluateKeeps ==
  ASSUME Inv, NEW c \in {"prepare", "run"}, Evaluate(c), UNCHANGED <<json, world>>
  PROVE  Inv'
<1> USE DEF Inv
<1> DEFINE m == json[c].file
           source == IF Scorable(m) THEN m ELSE Absent
           e == [kind |-> "report", evaluated |-> Scorable(m), source |-> source]
<1>1. Publish("evaluate", e) /\ m # Absent /\ c \in Commands /\ "evaluate" \in Commands
  BY ThreeCommands DEF Evaluate
<1>2. Sound(c, m)
  BY <1>1 DEF JsonInv
<1>3. Scorable(m) \in BOOLEAN
  BY DEF Scorable
<1>4. Scorable(m) => m \in Results /\ ResultSound(m)
  <2>1. CASE c = "prepare"
    <3>1. m \in Manifests
      BY <1>2, <2>1, ThreeCommands DEF Sound
    <3>2. m.kind = "manifest"
      BY <3>1 DEF Manifests
    <3> QED
      BY <3>2 DEF Scorable
  <2>2. CASE c = "run"
    BY <1>2, <2>2, ThreeCommands DEF Sound
  <2> QED
    BY <2>1, <2>2
<1>5. source \in Results \cup {Absent}
  BY <1>4
<1> HIDE DEF m
<1>6. e \in Reports /\ e.evaluated = Scorable(m) /\ e.source = source
  BY <1>3, <1>5 DEF Reports
<1> HIDE DEF e
<1>7. ReportSound(e)
  <2> SUFFICES ASSUME ~Restores, e.evaluated
               PROVE  /\ Whole(e.source.rows) /\ HeardBy(e.source.rows, e.source.artifacts)
                      /\ e.source.warmup \notin AudioOf(e.source.rows)
    BY DEF ReportSound
  <2>1. Scorable(m) /\ e.source = m
    BY <1>6
  <2> QED
    BY <1>4, <2>1 DEF Scorable, ResultSound
<1>8. Sound("evaluate", e)
  BY <1>6, <1>7, ThreeCommands DEF Sound
<1> QED
  BY <1>1, <1>8, PublishKeeps DEF world, e, m

-----------------------------------------------------------------------------
(* Invariance *)

LEMMA InitInv == Init => Inv
<1> SUFFICES ASSUME Init PROVE Inv
  OBVIOUS
<1>1. PICK x \in Extractions : ext = Fresh(x.splits, x.limit)
  BY DEF Init
<1> DEFINE y == Fresh(x.splits, x.limit)
<1>2. y \in [audio : [Utterances -> Contents \cup {Absent}], text : Texts, marker : Markers]
      /\ y.marker.audio = y.audio
  BY ExtractionTypes, FreshFacts
<1>3. \A c \in Commands : cmd[c] = Idle
  BY DEF Init
<1>4. TypeOK
  <2>1. cmd \in [Commands -> Preparing \cup RunStates \cup Evaluating]
    BY IdleState, ThreeCommands DEF Init, StatesOf
  <2>2. cmd["prepare"] \in Preparing /\ cmd["run"] \in RunStates /\ cmd["evaluate"] \in Evaluating
    BY <1>3, IdleState, ThreeCommands DEF StatesOf
  <2>3. model \in [ModelFiles -> Weights]
    BY PipelineAssumption DEF Init
  <2> HIDE DEF y
  <2> QED
    BY <1>1, <1>2, <2>1, <2>2, <2>3 DEF Init, TypeOK, y
<1>5. WorldInv
  <2> HIDE DEF y
  <2>1. ext = y /\ y.marker = Fresh(x.splits, x.limit).marker
    BY <1>1 DEF y
  <2> QED
    BY <1>2, <2>1 DEF Init, WorldInv
<1>6. PrepareInv /\ RunInv
  BY <1>3, IdleState, ThreeCommands DEF PrepareInv, ScanInv, RunInv, Running
<1>7. \A c \in Commands : JsonInv(c)
  BY <1>3, IdleState DEF Init, JsonInv, Writing
<1> QED
  BY <1>4, <1>5, <1>6, <1>7 DEF Inv

LEMMA StepInv ==
  ASSUME Inv, [Next]_vars
  PROVE  Inv'
<1>1. CASE Prepare /\ UNCHANGED <<json, world>>
  BY <1>1, BeginPrepareKeeps, ListKeeps, ScanKeeps, EndScanKeeps DEF Prepare
<1>2. CASE Run /\ UNCHANGED <<json, world>>
  BY <1>2, BeginRunKeeps, HashBeforeKeeps, StartRowsKeeps, ReadRowKeeps, DecodeKeeps, VerifyKeeps,
     ResultKeeps, EndRowsKeeps, HashAfterKeeps, EndRunKeeps DEF Run
<1>3. CASE (\E c \in {"prepare", "run"} : Evaluate(c)) /\ UNCHANGED <<json, world>>
  BY <1>3, EvaluateKeeps
<1>4. CASE \E c \in Commands : Write(c) /\ UNCHANGED world
  BY <1>4, WriteKeeps
<1>5. CASE \E c \in Commands : Crash(c) \/ Fail(c)
  BY <1>5, CrashKeeps, FailKeeps
<1>6. CASE Environment
  BY <1>6, ReplaceWavKeeps, ReplaceTranscriptKeeps, ReplaceModelKeeps, ReextractKeeps,
     RemoveOutputKeeps DEF Environment
<1>7. CASE UNCHANGED vars
  BY <1>7 DEF vars, Inv, TypeOK, WorldInv, PrepareInv, ScanInv, RunInv, RunSound, ModelInv, JsonInv
<1> QED
  BY <1>1, <1>2, <1>3, <1>4, <1>5, <1>6, <1>7 DEF Next

THEOREM Invariance == Spec => []Inv
  BY InitInv, StepInv, PTL DEF Spec

\* The types of everything the commands read and write.
THEOREM TypeCorrect == Spec => []TypeOK
  BY Invariance, PTL DEF Inv

-----------------------------------------------------------------------------
(* The properties of the pipeline *)

\* Apart from the sizes of the artifacts and the description of the environment,
\* which run_manifest publishes as it finds them, the evaluator
\* (evaluate_manifest.py) has no reason to refuse a frozen result, whatever files
\* change and whichever process dies.
THEOREM FrozenIsScored == Spec => []RunnerFeedsEvaluator
<1>1. Inv => RunnerFeedsEvaluator
  <2>1. Inv => LET m == json["run"].file IN m # Absent => ResultSound(m)
    BY ThreeCommands DEF Inv, JsonInv, Sound
  <2> QED
    BY <2>1 DEF RunnerFeedsEvaluator, ResultSound
<1> QED
  BY <1>1, Invariance, PTL

\* Every published result lists the model files its hypotheses were computed by
\* (run_manifest, _model_artifacts), if no file gets back a content it had
\* before: two hashings cannot notice an exchange that was undone.
THEOREM EvidenceIsOfTheRun ==
  ASSUME ~Restores
  PROVE  Spec => []RunEvidenceBound
<1>1. Inv => RunEvidenceBound
  <2>1. Inv => LET m == json["run"].file IN m # Absent => ResultSound(m)
    BY ThreeCommands DEF Inv, JsonInv, Sound
  <2> QED
    BY <2>1 DEF RunEvidenceBound, ResultSound, HeardBy
<1> QED
  BY <1>1, Invariance, PTL

\* A score (evaluate) is of a whole split as it was extracted, heard by the
\* models the report lists, under the same assumption.
THEOREM ScoresAreHonest ==
  ASSUME ~Restores
  PROVE  Spec => []EvaluatedHonest
<1>1. Inv => EvaluatedHonest
  <2>1. Inv => LET e == json["evaluate"].file IN e # Absent => ReportSound(e)
    BY ThreeCommands DEF Inv, JsonInv, Sound
  <2> QED
    BY <2>1 DEF EvaluatedHonest, ReportSound, Whole, IdsOf, HeardBy
<1> QED
  BY <1>1, Invariance, PTL

\* A step that leaves the outputs alone, or makes one appear complete.
AppearsWhole ==
  \A c \in Commands :
    \/ json'[c].file \in {json[c].file, Absent}
    \/ json[c].file = Absent /\ json'[c].file # Torn

\* An output file (write_json_new) appears complete and is never overwritten,
\* whatever crashes or fails.
THEOREM OutputsWhole == Spec => OutputsAppearWhole
<1>1. ASSUME Inv, [Next]_vars
      PROVE  AppearsWhole
  <2> USE DEF Inv
  <2>0. DOMAIN json = Commands /\ \A c \in Commands : DOMAIN json[c] = {"file", "tmp"}
    BY <1>1 DEF TypeOK
  <2>1. ASSUME NEW c \in Commands, NEW x, json' = [json EXCEPT ![c].tmp = x]
        PROVE  AppearsWhole
    BY <2>0, <2>1 DEF AppearsWhole
  <2>2. ASSUME NEW c \in Commands, NEW x, json' = [json EXCEPT ![c].file = x],
               json[c].file = Absent, x # Torn
        PROVE  AppearsWhole
    BY <2>0, <2>2 DEF AppearsWhole
  <2>3. ASSUME NEW c \in Commands, RemoveOutput(c)
        PROVE  AppearsWhole
    <3>1. json' = [json EXCEPT ![c] = [file |-> Absent, tmp |-> Absent]]
      BY <2>3 DEF RemoveOutput
    <3> QED
      BY <2>0, <3>1 DEF AppearsWhole
  <2>4. json' = json => AppearsWhole
    BY DEF AppearsWhole
  <2>5. ASSUME NEW c \in Commands, Write(c)
        PROVE  AppearsWhole
    <3>1. CASE CreateTmp(c)
      BY <2>1, <2>4, <3>1 DEF CreateTmp
    <3>2. CASE FillTmp(c)
      <4> DEFINE payload == cmd[c].payload
      <4>1. json' = [json EXCEPT ![c].tmp = payload]
        BY <3>2 DEF FillTmp
      <4> HIDE DEF payload
      <4> QED
        BY <2>1, <4>1
    <3>3. CASE LinkTmp(c)
      <4> DEFINE tmp == json[c].tmp
      <4>1. json' = [json EXCEPT ![c].file = tmp] /\ json[c].file = Absent /\ tmp = cmd[c].payload
        BY <1>1, <3>3 DEF LinkTmp, At, JsonInv
      <4>2. tmp \in Manifests \cup Results \cup Reports
        BY <1>1, <3>3, <4>1, ThreeCommands DEF LinkTmp, At, JsonInv, Writing, Sound
      <4>3. tmp # Torn
        BY <4>2, PipelineAssumption
      <4> HIDE DEF tmp
      <4> QED
        BY <2>2, <4>1, <4>3
    <3>4. CASE UnlinkTmp(c)
      BY <2>1, <3>4 DEF UnlinkTmp
    <3> QED
      BY <2>5, <3>1, <3>2, <3>3, <3>4 DEF Write
  <2>6. CASE \E c \in Commands : Crash(c) \/ Fail(c)
    BY <2>1, <2>4, <2>6 DEF Crash, Fail
  <2>7. CASE Environment
    BY <2>3, <2>4, <2>7 DEF Environment, ReplaceWav, ReplaceTranscript, ReplaceModel, Reextract
  <2>8. CASE (Prepare \/ Run \/ \E c \in {"prepare", "run"} : Evaluate(c)) /\ UNCHANGED <<json, world>>
    BY <2>4, <2>8
  <2>9. CASE UNCHANGED vars
    BY <2>4, <2>9 DEF vars
  <2> QED
    BY <1>1, <2>5, <2>6, <2>7, <2>8, <2>9 DEF Next
<1>2. Spec => [][AppearsWhole]_json
  <2>1. Inv /\ [Next]_vars => [AppearsWhole]_json
    BY <1>1
  <2> QED
    BY <2>1, Invariance, PTL DEF Spec
<1> QED
  BY <1>2 DEF OutputsAppearWhole, AppearsWhole
=============================================================================
