----------------------- MODULE AishellExtractionProofs -----------------------
(***************************************************************************)
(* Proofs about AishellExtraction: what is published is complete, what is  *)
(* reported is true and what is published stays, for all contents of the   *)
(* archives, all requests and any number of crashes, failures and          *)
(* replacements of an archive, as long as one command at a time works on   *)
(* the output directory.                                                   *)
(*                                                                         *)
(* The inductive invariant follows a command through its run: what it has  *)
(* read of an archive is a prefix of the archive's list, what it has taken *)
(* are the speakers with the smallest numbers among those it has scanned,  *)
(* and the staging directory holds exactly that.  All of it holds only as  *)
(* long as the archives still have the signatures they were verified with; *)
(* the marker is written after that was checked a last time, so a marker   *)
(* is truthful in whatever directory a crash leaves it.                    *)
(***************************************************************************)
EXTENDS AishellExtraction, FiniteSetTheorems, TLAPS

\* One command at a time works on an output directory.
SingleCommand == \A p, q \in Procs : p = q

-----------------------------------------------------------------------------
(* Types *)

Contents == Versions \cup {Absent, Torn}

\* What may stand under each name of a directory.
Trees ==
  { t \in [Names -> Contents \cup Markers] :
      /\ \A n \in DataNames \cup {Scratch} : t[n] \in Contents
      /\ t[Marker] \in Markers \cup {Absent}
      /\ t[MarkerTmp] \in Markers \cup {Absent, Torn} }

Early    == {"look", "clear", "rmtree", "mkdir"}
Scanning == {"unpack", "member", "copy", "nested", "wavs", "unscratch"}
Binding  == {"fill", "link", "unlink", "recheck"}

Pcs      == {"idle", "bind", "promote", "done"} \cup Early \cup Scanning \cup Binding

Invocations ==
  [pc : Pcs,
   req : Requests \cup {Absent}, sig : [Archives -> Nat] \cup {Absent},
   dir : Dirs \cup {Absent}, reused : BOOLEAN, a : Archives, i : Nat \ {0},
   member : DataNames \cup {Absent}, seen : SUBSET DataNames, chosen : SUBSET Speakers,
   last : UNION { [S -> Nat] : S \in SUBSET {"train", "dev", "test"} }]

TypeOK ==
  /\ at \in [{"target", "staging"} -> Dirs \cup {Absent}]
  /\ tree \in [Dirs -> Trees]
  /\ archive \in [Archives -> [content : Versions, sig : Nat]]
  /\ proc \in [Procs -> Invocations]

-----------------------------------------------------------------------------
(* The inductive invariant *)

\* The data a request asks for.
Wanted(req) == {Transcript} \cup Resources \cup ReferenceSpeakers(req)
Selection(req) == [n \in DataNames |-> IF n \in Wanted(req) THEN req.manifest ELSE Absent]

\* Every marker, finished or still temporary, in whatever directory, names the
\* complete selection of its own request.
Truthful(m) == m \in Markers => m.tree = Selection(m.req)

DiskInv ==
  /\ at["target"] # Absent => at["staging"] # at["target"]
  /\ \A d \in Dirs : Truthful(tree[d][Marker]) /\ Truthful(tree[d][MarkerTmp])
  /\ at["target"] # Absent => \E req \in Requests : Complete(tree[at["target"]], req)

\* A command knows the archives by their signatures.
RequestInv(p) ==
  proc[p].pc # "idle" =>
    /\ proc[p].req \in Requests /\ proc[p].sig \in [Archives -> Nat]
    /\ \A a \in Archives :
         /\ proc[p].sig[a] <= archive[a].sig
         /\ proc[p].sig[a] = archive[a].sig => archive[a].content = proc[p].req.manifest

\* What a command reports is there.
ResultInv(p) ==
  /\ proc[p].reused \/ proc[p].pc = "done" =>
       at["target"] # Absent /\ Complete(tree[at["target"]], proc[p].req)
  /\ proc[p].reused => proc[p].pc \in {"clear", "rmtree", "done"}

\* The directory a command works in is the staging directory.
StagingInv(p) ==
  /\ proc[p].pc = "rmtree" => at["staging"] # Absent /\ proc[p].dir = at["staging"]
  /\ proc[p].pc \in Scanning \cup Binding \cup {"bind", "promote"} => at["staging"] # Absent

EarlyInv(p) ==
  proc[p].pc \in Early =>
    /\ proc[p].a = "audio" /\ proc[p].i = 1
    /\ proc[p].seen = {} /\ proc[p].chosen = {} /\ proc[p].last = [s \in {} |-> 0]

\* The speaker whose nested archive is open, and the members before it.
Open(p)    == IF proc[p].pc \in {"nested", "wavs", "unscratch"} THEN {proc[p].member} ELSE {}
Scanned(p) == proc[p].seen \ Open(p)

MemberInv(p) ==
  /\ proc[p].pc = "copy" => proc[p].member \in DataNames
  /\ Open(p) \subseteq Speakers

\* The members that were read are the first ones of the archive's list.
ListInv(p) ==
  LET r == proc[p]
      audio == Members["audio"][r.req.manifest]
  IN  /\ r.pc = "copy" => r.member \notin r.seen
      /\ r.pc = "copy" /\ r.a = "resources" => r.member \in Resources
      /\ Open(p) \subseteq Speakers \cap r.seen
      /\ r.a = "audio" => /\ r.seen \cup (IF r.pc = "copy" THEN {r.member} ELSE {})
                               = {audio[j] : j \in 1..r.i - 1}
                          /\ r.i - 1 <= Len(audio)
      /\ r.a = "resources" => /\ r.seen \cap ({Transcript} \cup Speakers) = ToSet(audio)
                              /\ Open(p) = {} /\ Transcript \in r.seen

\* The speakers of a split with smaller numbers.
Before(S, n) == {k \in S : k[1] = n[1] /\ k[2] < n[2]}

OfSplit(S, s) == {n \in S : n[1] = s}

\* The speakers of S a request asks for.
Choice(S, req) ==
  {n \in S : n[1] \in req.splits /\ (req.limit # 0 => Cardinality(Before(S, n)) < req.limit)}

\* A split of which fewer than the limit were taken was taken as a whole.
Exhausted(C, S, req) ==
  \A s \in req.splits : req.limit # 0 /\ Cardinality(OfSplit(C, s)) < req.limit => OfSplit(S, s) \subseteq C

\* As long as they are in order, the speakers taken are those with the smallest
\* numbers among the ones scanned.
ChosenInv(p) ==
  LET r == proc[p]
      S == Scanned(p) \cap Speakers
  IN  /\ IsFiniteSet(r.seen)
      /\ \A n \in S : n[1] \in DOMAIN r.last /\ n[2] <= r.last[n[1]]
      /\ r.chosen = Choice(S, r.req) /\ Exhausted(r.chosen, S, r.req)

\* The staging directory has what was read.
TreeInv(p) ==
  LET r == proc[p]
      v == r.req.manifest
  IN  /\ \A n \in Speakers : n \notin Open(p) \/ r.pc = "nested" =>
           Staged[n] = IF n \in r.chosen THEN v ELSE Absent
      /\ \A n \in {Transcript} \cup Resources : n \in r.seen => Staged[n] = v
      /\ r.pc \in {"nested", "wavs"} => Staged[Scratch] = v
      /\ r.pc = "wavs" => Selected(p, r.member)
      /\ r.pc = "unscratch" => Staged[r.member] = IF Selected(p, r.member) THEN v ELSE Absent

ScanInv(p) ==
  proc[p].pc \in Scanning /\ Unchanged(p, Archives) => ListInv(p) /\ ChosenInv(p) /\ TreeInv(p)

\* Before the marker is written, and from then on until the promotion.
BindInv(p) ==
  /\ proc[p].pc = "bind" /\ Unchanged(p, Archives) => Data(Staged) = Selection(proc[p].req)
  /\ proc[p].pc \in Binding => Data(Staged) = Selection(proc[p].req)
  /\ proc[p].pc = "link" => Staged[MarkerTmp] # Torn
  /\ proc[p].pc = "promote" => MarkerValid(Staged, proc[p].req)

RunInv(p) ==
  /\ RequestInv(p) /\ ResultInv(p) /\ StagingInv(p) /\ EarlyInv(p)
  /\ MemberInv(p) /\ ScanInv(p) /\ BindInv(p)

Inv == TypeOK /\ DiskInv /\ \A p \in Procs : RunInv(p)

-----------------------------------------------------------------------------
(* Names and values *)

LEMMA NamesApart ==
  /\ Marker \notin DataNames /\ MarkerTmp \notin DataNames /\ Scratch \notin DataNames
  /\ Marker # MarkerTmp /\ Marker # Scratch /\ MarkerTmp # Scratch
  /\ Transcript \notin Resources \cup Speakers /\ Resources \cap Speakers = {}
  /\ {Transcript} \cup Resources \cup Speakers = DataNames
  /\ Names = DataNames \cup {Marker, MarkerTmp, Scratch}
<1>1. \A n \in Speakers : n[1] # "file"
  BY ExtractionAssumption
<1>2. /\ Transcript[1] = "file" /\ Marker[1] = "file" /\ MarkerTmp[1] = "file"
      /\ Scratch[1] = "file" /\ \A n \in Resources : n[1] = "file"
  BY DEF Transcript, Marker, MarkerTmp, Scratch, Resources, Lexicon, SpeakerInfo
<1>3. /\ Transcript[2] = "transcript" /\ Marker[2] = "marker" /\ MarkerTmp[2] = "marker.tmp"
      /\ Scratch[2] = "current-speaker"
      /\ \A n \in Resources : n[2] \in {"lexicon.txt", "speaker.info"}
  BY DEF Transcript, Marker, MarkerTmp, Scratch, Resources, Lexicon, SpeakerInfo
<1> HIDE DEF Transcript, Marker, MarkerTmp, Scratch, Resources
<1> QED
  BY <1>1, <1>2, <1>3 DEF DataNames, Names

LEMMA SpeakersHaveSplits ==
  /\ \A n \in Speakers : n[1] \in {"train", "dev", "test"} /\ n[2] \in Nat
  /\ \A n, k \in Speakers : n[1] = k[1] /\ n[2] = k[2] => n = k
  /\ \A n \in Speakers : Transcript[1] # n[1]
  BY ExtractionAssumption DEF Transcript

LEMMA DirsAreNumbers == Dirs \subseteq Nat /\ Absent \notin Dirs
<1>1. Cardinality(Procs) \in Nat
  BY ExtractionAssumption, FS_CardinalityType
<1> QED
  BY <1>1, ExtractionAssumption DEF Dirs

LEMMA EmptyIsTree == Empty \in Trees
  BY NamesApart DEF Empty, Trees, Contents

LEMMA IdleIsInvocation == Idle \in Invocations
<1>1. [s \in {} |-> 0] \in UNION { [S -> Nat] : S \in SUBSET {"train", "dev", "test"} }
  OBVIOUS
<1> QED
  BY <1>1 DEF Idle, Invocations, Archives, Pcs

LEMMA Manifests ==
  ASSUME NEW req \in Requests
  PROVE  req.manifest \in Versions /\ req.limit \in Nat /\ req.splits \subseteq {"dev", "test"}
  BY ExtractionAssumption

LEMMA SelectedSpeakers ==
  ASSUME NEW req \in Requests
  PROVE  ReferenceSpeakers(req) \subseteq Speakers /\ Wanted(req) \subseteq DataNames
  BY NamesApart DEF ReferenceSpeakers, Wanted

-----------------------------------------------------------------------------
(* Steps of the one command *)

LEMMA OneCommand ==
  ASSUME SingleCommand, NEW p \in Procs, TypeOK', DiskInv', RunInv(p)'
  PROVE  Inv'
<1>1. \A q \in Procs : q = p
  BY DEF SingleCommand
<1>2. ASSUME NEW q \in Procs PROVE RunInv(q)'
  BY <1>1
<1> QED
  BY <1>2 DEF Inv

LEMMA RaiseKeeps ==
  ASSUME SingleCommand, TypeOK, NEW p \in Procs, Raise(p), DiskInv',
         at' \in [{"target", "staging"} -> Dirs \cup {Absent}], tree' \in [Dirs -> Trees],
         archive' \in [Archives -> [content : Versions, sig : Nat]]
  PROVE  Inv'
<1>1. proc' \in [Procs -> Invocations] /\ proc'[p] = Idle
  BY IdleIsInvocation DEF Raise, TypeOK
<1>2. TypeOK'
  BY <1>1 DEF TypeOK
<1>3. proc'[p].pc = "idle" /\ proc'[p].reused = FALSE
  BY <1>1 DEF Idle
<1>4. RunInv(p)'
  BY <1>3 DEF RunInv, RequestInv, ResultInv, StagingInv, EarlyInv, MemberInv, Open, ScanInv,
              BindInv, Early, Scanning, Binding
<1> QED
  BY <1>2, <1>4, OneCommand

\* Nothing that the invariant says of the directories changes with them.
LEMMA SameDisk ==
  ASSUME DiskInv, UNCHANGED disk
  PROVE  DiskInv' /\ Staged' = Staged
  BY DEF DiskInv, disk, Staged, Truthful, Complete

\* An entry is put into the staging directory: the published one stays.
LEMMA PutKeeps ==
  ASSUME TypeOK, DiskInv, at["staging"] # Absent, NEW n \in Names, NEW c \in Contents \cup Markers,
         Put(n, c), at' = at,
         n \in DataNames \cup {Scratch} => c \in Contents,
         n = Marker => c \in Markers \cup {Absent},
         n = MarkerTmp => c \in Markers \cup {Absent, Torn},
         n \in {Marker, MarkerTmp} => Truthful(c)
  PROVE  /\ tree' \in [Dirs -> Trees] /\ DiskInv'
         /\ Staged' = [Staged EXCEPT ![n] = c]
         /\ at["target"] # Absent => tree'[at["target"]] = tree[at["target"]]
<1> DEFINE d == at["staging"]
<1>1. d \in Dirs /\ tree[d] \in Trees
  BY DEF TypeOK
<1>2. tree' = [tree EXCEPT ![d] = [tree[d] EXCEPT ![n] = c]]
  BY DEF Put
<1>3. [tree[d] EXCEPT ![n] = c] \in Trees
  BY <1>1, NamesApart DEF Trees
<1>4. tree' \in [Dirs -> Trees] /\ tree'[d] = [tree[d] EXCEPT ![n] = c]
      /\ \A e \in Dirs \ {d} : tree'[e] = tree[e]
  BY <1>1, <1>2, <1>3 DEF TypeOK
<1>5. at["target"] # Absent => at["target"] \in Dirs \ {d}
  BY DEF TypeOK, DiskInv
<1>6. \A e \in Dirs : Truthful(tree'[e][Marker]) /\ Truthful(tree'[e][MarkerTmp])
  <2> SUFFICES ASSUME NEW e \in Dirs
               PROVE  Truthful(tree'[e][Marker]) /\ Truthful(tree'[e][MarkerTmp])
    OBVIOUS
  <2>1. Truthful(tree[e][Marker]) /\ Truthful(tree[e][MarkerTmp])
    BY DEF DiskInv
  <2>2. CASE e # d
    BY <2>1, <2>2, <1>4
  <2>3. CASE e = d
    <3>1. tree[d] \in [Names -> Contents \cup Markers]
      BY <1>1 DEF Trees
    <3>2. /\ tree'[e][Marker] = IF n = Marker THEN c ELSE tree[e][Marker]
          /\ tree'[e][MarkerTmp] = IF n = MarkerTmp THEN c ELSE tree[e][MarkerTmp]
      BY <2>3, <3>1, <1>4, NamesApart
    <3> QED
      BY <3>2, <2>1
  <2> QED
    BY <2>2, <2>3
<1>7. at["target"] # Absent => tree'[at["target"]] = tree[at["target"]]
  BY <1>4, <1>5
<1>8. DiskInv'
  BY <1>6, <1>7 DEF DiskInv, Truthful, Complete
<1> QED
  BY <1>4, <1>7, <1>8 DEF Staged

\* A marker that is valid says the truth about its directory.
LEMMA ValidComplete ==
  ASSUME NEW t \in Trees, NEW req \in Requests, Truthful(t[Marker]), MarkerValid(t, req)
  PROVE  Complete(t, req)
<1>1. t \in [Names -> Contents \cup Markers] /\ t[Marker] \in Markers \cup {Absent}
  BY DEF Trees
<1>2. t[Marker] # Absent /\ t[Scratch] = Absent /\ t[MarkerTmp] = Absent
      /\ t[Marker] = MarkerFor(t, req)
  BY DEF MarkerValid, TreeValid
<1>3. t[Marker].req = req /\ t[Marker].tree = Data(t)
  BY <1>2 DEF MarkerFor
<1>4. Data(t) = Selection(req)
  BY <1>1, <1>2, <1>3 DEF Truthful
<1>5. \A n \in DataNames : t[n] = IF n \in Wanted(req) THEN req.manifest ELSE Absent
  BY <1>4 DEF Data, Selection
<1>6. \A n \in Names : t[n] = IF n \in Wanted(req) THEN req.manifest
                              ELSE IF n = Marker THEN t[Marker] ELSE Absent
  BY <1>2, <1>5, NamesApart, SelectedSpeakers
<1> QED
  BY <1>1, <1>2, <1>6 DEF Complete, Wanted

LEMMA SameRequest ==
  ASSUME TypeOK, NEW p \in Procs, RequestInv(p), proc[p].pc # "idle", archive' = archive,
         proc'[p].req = proc[p].req, proc'[p].sig = proc[p].sig
  PROVE  /\ RequestInv(p)' /\ proc[p].req \in Requests
         /\ Unchanged(p, Archives)' => Unchanged(p, Archives)
         /\ Unchanged(p, Archives) =>
              \A a \in Archives : archive[a].content = proc[p].req.manifest
  BY DEF RequestInv, Unchanged

\* A step that only moves a command on.
LEMMA GoKeeps ==
  ASSUME TypeOK, NEW p \in Procs, NEW pc \in Pcs, Go(p, pc)
  PROVE  /\ proc' \in [Procs -> Invocations]
         /\ proc'[p] = [proc[p] EXCEPT !.pc = pc]
         /\ proc'[p].pc = pc /\ proc'[p].req = proc[p].req /\ proc'[p].sig = proc[p].sig
         /\ proc'[p].dir = proc[p].dir /\ proc'[p].reused = proc[p].reused
         /\ proc'[p].a = proc[p].a /\ proc'[p].i = proc[p].i /\ proc'[p].member = proc[p].member
         /\ proc'[p].seen = proc[p].seen /\ proc'[p].chosen = proc[p].chosen
         /\ proc'[p].last = proc[p].last
<1>0. proc[p] \in Invocations
  BY DEF TypeOK
<1>1. [proc[p] EXCEPT !.pc = pc] \in Invocations
  BY <1>0 DEF Invocations
<1>2. proc' = [proc EXCEPT ![p] = [proc[p] EXCEPT !.pc = pc]]
  BY DEF Go
<1>3. proc'[p] = [proc[p] EXCEPT !.pc = pc] /\ proc' \in [Procs -> Invocations]
  BY <1>1, <1>2 DEF TypeOK
<1> QED
  BY <1>0, <1>3 DEF Invocations

\* A step of a command that neither unpacks nor writes the marker.
LEMMA EarlyKeeps ==
  ASSUME SingleCommand, TypeOK', DiskInv', NEW p \in Procs, RequestInv(p)', ResultInv(p)',
         StagingInv(p)', EarlyInv(p)', proc'[p].pc \in {"idle", "done"} \cup Early
  PROVE  Inv'
<1>1. MemberInv(p)' /\ ScanInv(p)' /\ BindInv(p)'
  BY DEF MemberInv, Open, ScanInv, BindInv, Scanning, Binding, Early
<1> QED
  BY <1>1, OneCommand DEF RunInv

-----------------------------------------------------------------------------
(* The actions: before anything is unpacked *)

LEMMA InitInv == SingleCommand /\ Init => Inv
<1> SUFFICES ASSUME SingleCommand, Init PROVE Inv
  OBVIOUS
<1>1. TypeOK
  BY EmptyIsTree, IdleIsInvocation DEF Init, TypeOK
<1>2. DiskInv
  <2>1. \A d \in Dirs : tree[d][Marker] = Absent /\ tree[d][MarkerTmp] = Absent
    BY NamesApart DEF Init, Empty
  <2> QED
    BY <2>1, ExtractionAssumption DEF Init, DiskInv, Truthful
<1>3. ASSUME NEW p \in Procs PROVE RunInv(p)
  <2>1. proc[p].pc = "idle" /\ proc[p].reused = FALSE
    BY DEF Init, Idle
  <2> QED
    BY <2>1 DEF RunInv, RequestInv, ResultInv, StagingInv, EarlyInv, MemberInv, Open, ScanInv,
                BindInv, Early, Scanning, Binding
<1> QED
  BY <1>1, <1>2, <1>3 DEF Inv

LEMMA BeginKeeps ==
  ASSUME SingleCommand, Inv, NEW p \in Procs, Begin(p), UNCHANGED archive
  PROVE  Inv'
<1> USE DEF Inv, TypeOK
<1>0. DiskInv'
  BY SameDisk DEF Begin
<1>1. CASE Raise(p)
  BY <1>0, <1>1, RaiseKeeps DEF Begin, disk
<1>2. CASE ~Raise(p)
  <2> PICK req \in Requests :
         /\ \A a \in Archives : archive[a].content = req.manifest
         /\ proc' = [proc EXCEPT ![p] = [Idle EXCEPT !.pc = "look", !.req = req, !.sig = Sigs]]
    BY <1>2 DEF Begin
  <2>1. /\ proc'[p] \in Invocations
        /\ proc'[p].pc = "look" /\ proc'[p].req = req /\ proc'[p].sig = Sigs
        /\ proc'[p].reused = FALSE /\ proc'[p].a = "audio" /\ proc'[p].i = 1
        /\ proc'[p].seen = {} /\ proc'[p].chosen = {} /\ proc'[p].last = [s \in {} |-> 0]
    BY IdleIsInvocation DEF Idle, Invocations, Sigs, Early, Pcs
  <2>2. TypeOK'
    BY <2>1 DEF Begin, disk
  <2>3. RequestInv(p)'
    BY <2>1 DEF RequestInv, Sigs
  <2>4. ResultInv(p)' /\ StagingInv(p)' /\ EarlyInv(p)'
    BY <2>1 DEF ResultInv, StagingInv, EarlyInv, Scanning, Binding
  <2> QED
    BY <1>0, <2>1, <2>2, <2>3, <2>4, EarlyKeeps DEF Early
<1> QED
  BY <1>1, <1>2

LEMMA LookKeeps ==
  ASSUME SingleCommand, Inv, NEW p \in Procs, Look(p), UNCHANGED archive
  PROVE  Inv'
<1> USE DEF Inv, RunInv
<1>0. DiskInv' /\ UNCHANGED disk /\ at' = at /\ tree' = tree
  BY SameDisk DEF Look, disk
<1>1. CASE Raise(p)
  BY <1>0, <1>1, RaiseKeeps DEF TypeOK
<1>2. proc[p].pc = "look" /\ proc[p].reused = FALSE /\ proc[p].req \in Requests
      /\ proc[p] \in Invocations
  BY DEF Look, At, ResultInv, RequestInv, TypeOK, Invocations
<1>3. ASSUME ~Raise(p), at["target"] # Absent PROVE Inv'
  <2>1. /\ MarkerValid(tree[at["target"]], proc[p].req)
        /\ proc' = [proc EXCEPT ![p].pc = "clear", ![p].reused = TRUE]
    BY <1>3 DEF Look
  <2>2. proc' = [proc EXCEPT ![p] = [proc[p] EXCEPT !.pc = "clear", !.reused = TRUE]]
    BY <1>2, <2>1 DEF TypeOK
  <2>3. [proc[p] EXCEPT !.pc = "clear", !.reused = TRUE] \in Invocations
    BY <1>2 DEF Invocations, Pcs, Early
  <2>4. proc'[p] = [proc[p] EXCEPT !.pc = "clear", !.reused = TRUE] /\ TypeOK'
    BY <1>0, <2>2, <2>3 DEF TypeOK
  <2>5. /\ proc'[p].pc = "clear" /\ proc'[p].req = proc[p].req /\ proc'[p].sig = proc[p].sig
        /\ proc'[p].a = proc[p].a /\ proc'[p].i = proc[p].i /\ proc'[p].seen = proc[p].seen
        /\ proc'[p].chosen = proc[p].chosen /\ proc'[p].last = proc[p].last
    BY <1>2, <2>4 DEF Invocations
  <2>6. RequestInv(p)'
    BY <1>2, <2>5, SameRequest
  <2>7. EarlyInv(p)' /\ StagingInv(p)'
    BY <1>2, <2>5 DEF EarlyInv, Early, StagingInv, Scanning, Binding
  <2>8. ResultInv(p)'
    <3>1. Complete(tree[at["target"]], proc[p].req)
      BY <1>2, <1>3, <2>1, ValidComplete DEF TypeOK, DiskInv
    <3> QED
      BY <1>0, <1>3, <2>5, <3>1 DEF ResultInv, Complete
  <2> QED
    BY <1>0, <2>4, <2>5, <2>6, <2>7, <2>8, EarlyKeeps DEF Early
<1>4. ASSUME ~Raise(p), at["target"] = Absent PROVE Inv'
  <2> PICK pc \in {"clear", "mkdir", "promote"} :
         /\ Go(p, pc)
         /\ pc = "promote" => at["staging"] # Absent /\ MarkerValid(Staged, proc[p].req)
    BY <1>4 DEF Look
  <2>1. TypeOK' /\ proc'[p].pc = pc
    BY <1>0, GoKeeps DEF Pcs, Early, TypeOK
  <2>2. RequestInv(p)'
    BY <1>2, GoKeeps, SameRequest DEF Pcs, Early
  <2>3. EarlyInv(p)'
    BY <1>2, GoKeeps DEF EarlyInv, Early, Pcs
  <2>4. ResultInv(p)' /\ StagingInv(p)'
    BY <1>0, <1>2, GoKeeps DEF ResultInv, StagingInv, Scanning, Binding, Pcs, Early
  <2>5. pc = "promote" => MarkerValid(Staged, proc[p].req)'
    <3>1. Staged' = Staged /\ proc'[p].req = proc[p].req
      BY <1>0, GoKeeps DEF Staged, Pcs, Early
    <3> QED
      BY <3>1
  <2>6. MemberInv(p)' /\ ScanInv(p)' /\ BindInv(p)'
    BY <2>1, <2>5 DEF MemberInv, Open, ScanInv, BindInv, Scanning, Binding
  <2> QED
    BY <1>0, <2>1, <2>2, <2>3, <2>4, <2>6, OneCommand
<1> QED
  BY <1>1, <1>3, <1>4

LEMMA OpenStagingKeeps ==
  ASSUME SingleCommand, Inv, NEW p \in Procs, OpenStaging(p), UNCHANGED archive
  PROVE  Inv'
<1> USE DEF Inv, RunInv
<1>0. DiskInv' /\ at' = at /\ tree' = tree
  BY SameDisk DEF OpenStaging, disk
<1>1. proc[p].pc = "clear" /\ proc[p].req \in Requests /\ proc[p] \in Invocations
  BY DEF OpenStaging, At, RequestInv, TypeOK
<1>2. CASE at["staging"] = Absent
  <2> PICK pc \in {"done", "mkdir"} : Go(p, pc) /\ (proc[p].reused <=> pc = "done")
    BY <1>1, <1>2 DEF OpenStaging, Invocations
  <2>1. TypeOK' /\ proc'[p].pc = pc
    BY <1>0, GoKeeps DEF Pcs, Early, TypeOK
  <2>2. RequestInv(p)'
    BY <1>1, GoKeeps, SameRequest DEF Pcs, Early
  <2>3. EarlyInv(p)' /\ StagingInv(p)'
    BY <1>1, GoKeeps DEF EarlyInv, StagingInv, Scanning, Binding, Early, Pcs
  <2>4. ResultInv(p)'
    <3>0. pc \in Pcs /\ proc[p].reused \in BOOLEAN
      BY <1>1 DEF Pcs, Early, Invocations
    <3>1. /\ proc'[p].pc = pc /\ proc'[p].req = proc[p].req /\ proc'[p].reused = proc[p].reused
      BY <3>0, GoKeeps
    <3>2. Complete(tree[at["target"]], proc[p].req) => Complete(tree[at["target"]], proc[p].req)'
      BY <1>0, <3>1
    <3> QED
      BY <1>0, <1>1, <3>0, <3>1, <3>2 DEF ResultInv
  <2> QED
    BY <1>0, <2>1, <2>2, <2>3, <2>4, EarlyKeeps DEF Early
<1>3. CASE at["staging"] # Absent
  <2>1. proc' = [proc EXCEPT ![p] = [proc[p] EXCEPT !.pc = "rmtree", !.dir = at["staging"]]]
    BY <1>1, <1>3 DEF OpenStaging, TypeOK
  <2>2. [proc[p] EXCEPT !.pc = "rmtree", !.dir = at["staging"]] \in Invocations
    <3>1. "rmtree" \in Pcs /\ at["staging"] \in Dirs \cup {Absent}
      BY DEF Pcs, Early, TypeOK
    <3> QED
      BY <1>1, <3>1 DEF Invocations
  <2>3. proc'[p] = [proc[p] EXCEPT !.pc = "rmtree", !.dir = at["staging"]] /\ TypeOK'
    BY <1>0, <2>1, <2>2 DEF TypeOK
  <2>4. /\ proc'[p].pc = "rmtree" /\ proc'[p].dir = at["staging"]
        /\ proc'[p].req = proc[p].req /\ proc'[p].sig = proc[p].sig
        /\ proc'[p].reused = proc[p].reused
        /\ proc'[p].a = proc[p].a /\ proc'[p].i = proc[p].i /\ proc'[p].seen = proc[p].seen
        /\ proc'[p].chosen = proc[p].chosen /\ proc'[p].last = proc[p].last
    BY <1>1, <2>3 DEF Invocations
  <2>5. RequestInv(p)'
    BY <1>1, <2>4, SameRequest
  <2>6. EarlyInv(p)' /\ StagingInv(p)'
    BY <1>0, <1>1, <1>3, <2>4 DEF EarlyInv, Early, StagingInv, Scanning, Binding
  <2>7. ResultInv(p)'
    BY <1>0, <1>1, <2>4 DEF ResultInv, Complete
  <2> QED
    BY <1>0, <2>3, <2>4, <2>5, <2>6, <2>7, EarlyKeeps DEF Early
<1> QED
  BY <1>2, <1>3

LEMMA RemoveEntryKeeps ==
  ASSUME SingleCommand, Inv, NEW p \in Procs, RemoveEntry(p), UNCHANGED archive
  PROVE  Inv'
<1> USE DEF Inv, RunInv
<1> DEFINE d == at["staging"]
<1>1. /\ proc[p].pc = "rmtree" /\ proc[p].dir = d /\ d # Absent /\ d \in Dirs
      /\ at' = at /\ proc' = proc /\ tree[d] \in Trees
  BY DEF RemoveEntry, At, StagingInv, TypeOK
<1> PICK n \in Names : tree' = [tree EXCEPT ![d] = [tree[d] EXCEPT ![n] = Absent]]
  BY <1>1 DEF RemoveEntry
<1>2. Put(n, Absent)
  BY <1>1 DEF Put
<1>3. /\ tree' \in [Dirs -> Trees] /\ DiskInv'
      /\ at["target"] # Absent => tree'[at["target"]] = tree[at["target"]]
  BY <1>1, <1>2, PutKeeps, ExtractionAssumption DEF Contents, Truthful
<1>4. TypeOK' /\ RequestInv(p)'
  BY <1>1, <1>3, SameRequest DEF TypeOK
<1>5. EarlyInv(p)' /\ StagingInv(p)'
  BY <1>1 DEF EarlyInv, Early, StagingInv, Scanning, Binding
<1>6. ResultInv(p)'
  BY <1>1, <1>3 DEF ResultInv, Complete
<1> QED
  BY <1>1, <1>3, <1>4, <1>5, <1>6, EarlyKeeps DEF Early

LEMMA RemoveDirKeeps ==
  ASSUME SingleCommand, Inv, NEW p \in Procs, RemoveDir(p), UNCHANGED archive
  PROVE  Inv'
<1> USE DEF Inv, RunInv
<1>1. /\ proc[p].pc = "rmtree" /\ proc[p].dir = at["staging"] /\ at["staging"] # Absent
      /\ proc[p].req \in Requests /\ proc[p] \in Invocations /\ tree' = tree
      /\ Staged = Empty
  BY DEF RemoveDir, At, StagingInv, RequestInv, TypeOK, Staged
<1> DEFINE pc == IF proc[p].reused THEN "done" ELSE "mkdir"
<1>2. /\ at' = [at EXCEPT !["staging"] = Absent]
      /\ proc' = [proc EXCEPT ![p] = [proc[p] EXCEPT !.pc = pc, !.dir = Absent]]
  BY <1>1 DEF RemoveDir, TypeOK
<1>3. at' \in [{"target", "staging"} -> Dirs \cup {Absent}]
      /\ at'["staging"] = Absent /\ at'["target"] = at["target"]
  BY <1>2 DEF TypeOK
<1>4. DiskInv'
  <2>1. \A d \in Dirs : Truthful(tree[d][Marker])' /\ Truthful(tree[d][MarkerTmp])'
    BY <1>1 DEF DiskInv, Truthful
  <2> QED
    BY <1>1, <1>3, <2>1 DEF DiskInv, Complete
<1>5. [proc[p] EXCEPT !.pc = pc, !.dir = Absent] \in Invocations
  <2>1. pc \in Pcs
    BY DEF Pcs, Early
  <2> HIDE DEF pc
  <2> QED
    BY <1>1, <2>1 DEF Invocations
<1>6. proc'[p] = [proc[p] EXCEPT !.pc = pc, !.dir = Absent] /\ TypeOK'
  BY <1>1, <1>2, <1>3, <1>5 DEF TypeOK
<1>7. /\ proc'[p].pc = pc /\ proc'[p].req = proc[p].req /\ proc'[p].sig = proc[p].sig
      /\ proc'[p].reused = proc[p].reused
      /\ proc'[p].a = proc[p].a /\ proc'[p].i = proc[p].i /\ proc'[p].seen = proc[p].seen
      /\ proc'[p].chosen = proc[p].chosen /\ proc'[p].last = proc[p].last
  BY <1>1, <1>6 DEF Invocations
<1>8. RequestInv(p)'
  BY <1>1, <1>7, SameRequest
<1>9. EarlyInv(p)' /\ StagingInv(p)'
  BY <1>1, <1>7 DEF EarlyInv, Early, StagingInv, Scanning, Binding
<1>10. ResultInv(p)'
  BY <1>1, <1>3, <1>7 DEF ResultInv, Complete
<1> QED
  BY <1>4, <1>6, <1>7, <1>8, <1>9, <1>10, EarlyKeeps DEF Early

LEMMA MakeStagingKeeps ==
  ASSUME SingleCommand, Inv, NEW p \in Procs, MakeStaging(p), UNCHANGED archive
  PROVE  Inv'
<1> USE DEF Inv, RunInv
<1>1. CASE Raise(p)
  <2>1. CASE at["staging"] # Absent
    BY <1>1, <2>1, SameDisk, RaiseKeeps DEF MakeStaging, TypeOK, disk
  <2>2. CASE at["staging"] = Absent
    <3>1. Go(p, "unpack") /\ "unpack" \in Pcs
      BY <2>2 DEF MakeStaging, Pcs, Scanning
    <3>2. proc'[p].pc = "unpack"
      BY <3>1, GoKeeps
    <3> QED
      BY <1>1, <3>2 DEF Raise, Idle, TypeOK
  <2> QED
    BY <2>1, <2>2
<1>2. ASSUME ~Raise(p) PROVE Inv'
  <2>1. at["staging"] = Absent /\ Go(p, "unpack") /\ proc[p].pc = "mkdir"
        /\ proc[p].req \in Requests /\ proc[p] \in Invocations
    BY <1>2 DEF MakeStaging, At, RequestInv, TypeOK
  <2> PICK d \in Dirs : /\ d \notin Held
                        /\ at' = [at EXCEPT !["staging"] = d]
                        /\ tree' = [tree EXCEPT ![d] = Empty]
    BY <2>1 DEF MakeStaging
  <2>2. /\ at' \in [{"target", "staging"} -> Dirs \cup {Absent}] /\ at'["staging"] = d
        /\ at'["target"] = at["target"] /\ d # Absent
        /\ tree' \in [Dirs -> Trees] /\ tree'[d] = Empty
        /\ \A e \in Dirs \ {d} : tree'[e] = tree[e]
    BY EmptyIsTree, DirsAreNumbers DEF TypeOK
  <2>3. at["target"] # Absent => at["target"] \in Dirs \ {d}
    BY DEF Held, TypeOK
  <2>4. DiskInv'
    <3>1. Empty[Marker] = Absent /\ Empty[MarkerTmp] = Absent
      BY NamesApart DEF Empty
    <3>2. ASSUME NEW e \in Dirs
          PROVE  Truthful(tree'[e][Marker]) /\ Truthful(tree'[e][MarkerTmp])
      <4>1. CASE e = d
        BY <2>2, <3>1, <4>1, ExtractionAssumption DEF Truthful
      <4>2. CASE e # d
        BY <2>2, <4>2 DEF DiskInv
      <4> QED
        BY <4>1, <4>2
    <3>3. at["target"] # Absent =>
            (\E req \in Requests : Complete(tree[at["target"]], req))'
      <4>1. at["target"] # Absent => tree'[at'["target"]] = tree[at["target"]]
        BY <2>2, <2>3
      <4> QED
        BY <4>1 DEF DiskInv
    <3> QED
      BY <2>2, <2>3, <3>2, <3>3 DEF DiskInv
  <2>5. "unpack" \in Pcs
    BY DEF Pcs, Scanning
  <2>6. TypeOK' /\ proc'[p].pc = "unpack"
    BY <2>1, <2>2, <2>5, GoKeeps DEF TypeOK
  <2>7. RequestInv(p)'
    BY <2>1, <2>5, GoKeeps, SameRequest
  <2>8. EarlyInv(p)' /\ StagingInv(p)' /\ MemberInv(p)' /\ BindInv(p)'
    BY <2>2, <2>6 DEF EarlyInv, Early, StagingInv, MemberInv, Open, BindInv, Scanning, Binding
  <2>9. ResultInv(p)'
    BY <2>1, <2>5, <2>6, GoKeeps DEF ResultInv
  <2>10. proc'[p].a = "audio" /\ proc'[p].i = 1 /\ proc'[p].seen = {} /\ proc'[p].chosen = {}
    BY <2>1, <2>5, GoKeeps DEF EarlyInv, Early
  <2>11. Open(p)' = {} /\ Scanned(p)' = {}
    BY <2>6, <2>10 DEF Open, Scanned
  <2>12. ListInv(p)'
    <3> DEFINE audio == Members["audio"][proc'[p].req.manifest]
    <3>1. audio \in Seq({Transcript} \cup Speakers)
      BY <2>1, <2>5, GoKeeps, Manifests, ExtractionAssumption
    <3>2. {audio[j] : j \in 1..proc'[p].i - 1} = {} /\ proc'[p].i - 1 <= Len(audio)
      BY <2>10, <3>1
    <3> QED
      BY <2>6, <2>10, <2>11, <3>2 DEF ListInv
  <2>13. ChosenInv(p)'
    BY <2>10, <2>11, FS_EmptySet DEF ChosenInv, Choice, Exhausted, OfSplit
  <2>14. TreeInv(p)'
    <3>1. \A n \in DataNames : Staged'[n] = Absent
      BY <2>2, NamesApart DEF Staged, Empty
    <3> QED
      BY <2>6, <2>10, <2>11, <3>1, NamesApart DEF TreeInv
  <2> QED
    BY <2>4, <2>6, <2>7, <2>8, <2>9, <2>12, <2>13, <2>14, OneCommand DEF ScanInv
<1> QED
  BY <1>1, <1>2

-----------------------------------------------------------------------------
(* The actions: unpacking *)

\* A scanning command that goes on scanning: what is left to show is what it
\* read, took and wrote, and only if no archive was replaced.
LEMMA ScanningKeeps ==
  ASSUME SingleCommand, Inv, NEW p \in Procs, proc[p].pc \in Scanning, proc'[p].pc \in Scanning,
         proc' \in [Procs -> Invocations], tree' \in [Dirs -> Trees], at' = at, archive' = archive,
         DiskInv', proc'[p].req = proc[p].req, proc'[p].sig = proc[p].sig,
         proc'[p].reused = proc[p].reused, MemberInv(p)',
         ( /\ ListInv(p) /\ ChosenInv(p) /\ TreeInv(p)
           /\ \A a \in Archives : archive[a].content = proc[p].req.manifest )
           => ListInv(p)' /\ ChosenInv(p)' /\ TreeInv(p)'
  PROVE  Inv'
<1> USE DEF Inv, RunInv
<1>1. TypeOK'
  BY DEF TypeOK
<1>2. proc[p].pc # "idle"
  BY DEF Scanning
<1>3. RequestInv(p)' /\ (Unchanged(p, Archives)' => Unchanged(p, Archives))
      /\ (Unchanged(p, Archives) =>
            \A a \in Archives : archive[a].content = proc[p].req.manifest)
  BY <1>2, SameRequest
<1>4. ResultInv(p)' /\ StagingInv(p)' /\ EarlyInv(p)' /\ BindInv(p)'
  BY DEF ResultInv, StagingInv, EarlyInv, BindInv, Scanning, Early, Binding
<1>5. ScanInv(p)'
  BY <1>3 DEF ScanInv
<1> QED
  BY <1>1, <1>3, <1>4, <1>5, OneCommand

LEMMA OpenArchiveKeeps ==
  ASSUME SingleCommand, Inv, NEW p \in Procs, OpenArchive(p), UNCHANGED archive
  PROVE  Inv'
<1> USE DEF Inv
<1>0. DiskInv' /\ at' = at /\ tree' = tree /\ Staged' = Staged
  BY SameDisk DEF OpenArchive, disk
<1>1. CASE Raise(p)
  BY <1>0, <1>1, RaiseKeeps DEF TypeOK
<1>2. ASSUME ~Raise(p) PROVE Inv'
  <2>1. Go(p, "member") /\ "member" \in Pcs /\ proc[p].pc = "unpack"
    BY <1>2 DEF OpenArchive, At, Pcs, Scanning
  <2>2. /\ proc' \in [Procs -> Invocations]
        /\ proc'[p].pc = "member" /\ proc'[p].i = proc[p].i
        /\ proc'[p].req = proc[p].req /\ proc'[p].sig = proc[p].sig
        /\ proc'[p].reused = proc[p].reused /\ proc'[p].a = proc[p].a
        /\ proc'[p].member = proc[p].member /\ proc'[p].seen = proc[p].seen
        /\ proc'[p].chosen = proc[p].chosen /\ proc'[p].last = proc[p].last
    BY <2>1, GoKeeps
  <2>3. Open(p)' = {} /\ Open(p) = {} /\ Scanned(p)' = Scanned(p)
    BY <2>1, <2>2 DEF Open, Scanned
  <2>4. ListInv(p) => ListInv(p)'
    BY <2>1, <2>2, <2>3 DEF ListInv
  <2>5. ChosenInv(p) => ChosenInv(p)'
    BY <2>1, <2>2, <2>3 DEF ChosenInv, Chosen
  <2>6. TreeInv(p) => TreeInv(p)'
    BY <1>0, <2>1, <2>2, <2>3 DEF TreeInv
  <2>7. proc[p].pc \in Scanning /\ proc'[p].pc \in Scanning /\ tree' \in [Dirs -> Trees]
        /\ MemberInv(p)'
    BY <1>0, <2>1, <2>2, <2>3 DEF Scanning, TypeOK, MemberInv
  <2> QED
    BY <1>0, <2>2, <2>4, <2>5, <2>6, <2>7, ScanningKeeps
<1> QED
  BY <1>1, <1>2

\* The lists of the archives.
LEMMA Lists ==
  ASSUME TypeOK, NEW p \in Procs
  PROVE  /\ List(p) \in Seq(DataNames)
         /\ proc[p].a = "audio" => List(p) \in Seq({Transcript} \cup Speakers)
         /\ proc[p].a = "resources" => List(p) \in Seq(Resources)
         /\ proc[p].i \in Nat \ {0} /\ proc[p].a \in {"audio", "resources"}
         /\ More(p) => List(p)[proc[p].i] \in DataNames
<1>1. proc[p] \in Invocations /\ proc[p].a \in Archives
      /\ archive[proc[p].a].content \in Versions
  BY DEF TypeOK, Invocations
<1>2. /\ proc[p].a = "audio" => List(p) \in Seq({Transcript} \cup Speakers)
      /\ proc[p].a = "resources" => List(p) \in Seq(Resources)
  BY <1>1, ExtractionAssumption DEF List
<1>3. proc[p].i \in Nat \ {0} /\ proc[p].a \in {"audio", "resources"}
  BY <1>1 DEF Invocations, Archives
<1>4. {Transcript} \cup Speakers \subseteq DataNames /\ Resources \subseteq DataNames
  BY NamesApart
<1>5. List(p) \in Seq(DataNames)
  BY <1>2, <1>3, <1>4
<1>6. More(p) => List(p)[proc[p].i] \in DataNames
  BY <1>3, <1>5 DEF More
<1> QED
  BY <1>2, <1>3, <1>5, <1>6

\* The speaker whose archive is opened next is not one of those already read.
LEMMA BeginCopyKeeps ==
  ASSUME SingleCommand, Inv, NEW p \in Procs, BeginCopy(p), UNCHANGED archive
  PROVE  Inv'
<1> USE DEF Inv
<1> DEFINE n == List(p)[proc[p].i]
<1>0. at' = at /\ proc[p].pc = "member" /\ proc[p] \in Invocations /\ More(p)
  BY DEF BeginCopy, At, TypeOK
<1>1. CASE Raise(p) /\ tree' = tree
  BY <1>0, <1>1, RaiseKeeps, SameDisk DEF TypeOK, disk
<1>2. ASSUME ~(Raise(p) /\ tree' = tree) PROVE Inv'
  <2>1. /\ n \notin proc[p].seen /\ at["staging"] # Absent /\ Staged[Output(n)] = Absent
        /\ Put(Output(n), Torn)
        /\ proc' = [proc EXCEPT ![p] = [proc[p] EXCEPT !.pc = "copy", !.member = n, !.i = @ + 1]]
    BY <1>0, <1>2 DEF BeginCopy, TypeOK
  <2>2. n \in DataNames /\ proc[p].i \in Nat \ {0}
    BY <1>0, Lists
  <2>3. Output(n) \in DataNames \cup {Scratch} /\ Output(n) \in Names
        /\ (Output(n) = Scratch \/ (Output(n) = n /\ n \notin Speakers))
    BY <2>2, NamesApart DEF Output
  <2>4. /\ tree' \in [Dirs -> Trees] /\ DiskInv'
        /\ Staged' = [Staged EXCEPT ![Output(n)] = Torn]
    BY <1>0, <2>1, <2>3, PutKeeps, NamesApart DEF Contents
  <2>5. [proc[p] EXCEPT !.pc = "copy", !.member = n, !.i = @ + 1] \in Invocations
    <3>1. "copy" \in Pcs
      BY DEF Pcs, Scanning
    <3>2. proc[p].i + 1 \in Nat \ {0}
      BY <2>2
    <3> HIDE DEF n
    <3> QED
      BY <1>0, <2>2, <3>1, <3>2 DEF Invocations
  <2>6. /\ proc' \in [Procs -> Invocations]
        /\ proc'[p] = [proc[p] EXCEPT !.pc = "copy", !.member = n, !.i = @ + 1]
    BY <2>1, <2>5 DEF TypeOK
  <2>7. /\ proc'[p].pc = "copy" /\ proc'[p].member = n /\ proc'[p].i = proc[p].i + 1
        /\ proc'[p].req = proc[p].req /\ proc'[p].sig = proc[p].sig
        /\ proc'[p].reused = proc[p].reused /\ proc'[p].a = proc[p].a
        /\ proc'[p].seen = proc[p].seen
        /\ proc'[p].chosen = proc[p].chosen /\ proc'[p].last = proc[p].last
    BY <1>0, <2>6 DEF Invocations
  <2>8. Open(p)' = {} /\ Open(p) = {} /\ Scanned(p)' = Scanned(p)
    BY <1>0, <2>7 DEF Open, Scanned
  <2>9. ASSUME ListInv(p), ChosenInv(p), TreeInv(p),
               \A a \in Archives : archive[a].content = proc[p].req.manifest
        PROVE  ListInv(p)' /\ ChosenInv(p)' /\ TreeInv(p)'
    <3>1. proc[p].a = "audio" => List(p) = Members["audio"][proc[p].req.manifest]
      BY <2>9 DEF List, Archives
    <3>2. ListInv(p)'
      <4> DEFINE audio == Members["audio"][proc[p].req.manifest]
      <4>1. CASE proc[p].a = "audio"
        <5>1. n = audio[proc[p].i] /\ proc[p].i <= Len(audio)
          BY <1>0, <3>1, <4>1 DEF More
        <5>2. proc[p].seen = {audio[j] : j \in 1..proc[p].i - 1}
          BY <1>0, <2>9, <4>1 DEF ListInv
        <5>3. proc[p].seen \cup {n} = {audio[j] : j \in 1..(proc[p].i + 1) - 1}
          <6> HIDE DEF audio
          <6> QED
            BY <2>2, <5>1, <5>2
        <5>4. (proc[p].i + 1) - 1 <= Len(audio)
          BY <2>2, <5>1
        <5> HIDE DEF n, audio
        <5>5. proc'[p].seen \cup (IF proc'[p].pc = "copy" THEN {proc'[p].member} ELSE {})
                = {audio[j] : j \in 1..proc'[p].i - 1}
          BY <2>7, <5>3
        <5> USE DEF audio
        <5> QED
          BY <2>1, <2>7, <2>8, <4>1, <5>4, <5>5 DEF ListInv, n
      <4>2. CASE proc[p].a = "resources"
        <5>1. n \in Resources
          BY <1>0, <4>2, Lists DEF More
        <5> QED
          BY <2>1, <2>7, <2>8, <2>9, <4>2, <5>1 DEF ListInv
      <4> QED
        BY <4>1, <4>2, Lists
    <3>3. ChosenInv(p)'
      BY <2>7, <2>8, <2>9 DEF ChosenInv, Chosen
    <3>4. TreeInv(p)'
      <4>1. Staged \in Trees
        BY <2>1 DEF TypeOK, Staged
      <4>2. \A k \in DataNames : k # n \/ n \in Speakers => Staged'[k] = Staged[k]
        BY <2>3, <2>4, <4>1, NamesApart DEF Trees
      <4>3. \A k \in Speakers : Staged'[k] = Staged[k]
        BY <4>2, <2>3, NamesApart
      <4>4. \A k \in {Transcript} \cup Resources : k \in proc[p].seen => Staged'[k] = Staged[k]
        BY <2>1, <4>2, NamesApart
      <4> HIDE DEF n
      <4>5. \A k \in Speakers : Staged'[k] = IF k \in proc'[p].chosen
                                             THEN proc'[p].req.manifest ELSE Absent
        BY <2>7, <2>8, <2>9, <4>3 DEF TreeInv
      <4>6. \A k \in {Transcript} \cup Resources :
              k \in proc'[p].seen => Staged'[k] = proc'[p].req.manifest
        BY <2>7, <2>9, <4>4 DEF TreeInv
      <4> QED
        BY <2>7, <4>5, <4>6 DEF TreeInv
    <3> QED
      BY <3>2, <3>3, <3>4
  <2>10. proc[p].pc \in Scanning /\ proc'[p].pc \in Scanning /\ MemberInv(p)'
    BY <1>0, <2>2, <2>7, <2>8 DEF Scanning, MemberInv
  <2> HIDE DEF n
  <2> QED
    BY <1>0, <2>4, <2>6, <2>7, <2>9, <2>10, ScanningKeeps
<1> QED
  BY <1>1, <1>2

LEMMA EndCopyKeeps ==
  ASSUME SingleCommand, Inv, NEW p \in Procs, EndCopy(p), UNCHANGED archive
  PROVE  Inv'
<1> USE DEF Inv
<1> DEFINE m == proc[p].member
           pc == IF m \in Speakers THEN "nested" ELSE "member"
           v == archive[proc[p].a].content
<1>0. at' = at /\ proc[p].pc = "copy" /\ proc[p] \in Invocations /\ at["staging"] # Absent
      /\ m \in DataNames
  BY DEF EndCopy, At, TypeOK, RunInv, StagingInv, Scanning, MemberInv
<1>1. /\ Put(Output(m), v)
      /\ proc' = [proc EXCEPT ![p] = [proc[p] EXCEPT !.pc = pc, !.seen = @ \cup {m}]]
  BY <1>0 DEF EndCopy, Member, TypeOK
<1>2. v \in Versions /\ proc[p].seen \subseteq DataNames /\ proc[p].a \in Archives
  BY <1>0 DEF TypeOK, Invocations
<1>3. Output(m) \in DataNames \cup {Scratch} /\ Output(m) \in Names
      /\ Output(m) = (IF m \in Speakers THEN Scratch ELSE m)
  BY <1>0, NamesApart DEF Output
<1>4. /\ tree' \in [Dirs -> Trees] /\ DiskInv'
      /\ Staged' = [Staged EXCEPT ![Output(m)] = v]
  BY <1>0, <1>1, <1>2, <1>3, PutKeeps, NamesApart DEF Contents
<1>5. [proc[p] EXCEPT !.pc = pc, !.seen = @ \cup {m}] \in Invocations
  <2>1. pc \in Pcs
    BY DEF Pcs, Scanning
  <2>2. proc[p].seen \cup {m} \in SUBSET DataNames
    BY <1>0, <1>2
  <2> HIDE DEF m, pc
  <2> QED
    BY <1>0, <2>1, <2>2 DEF Invocations
<1>6. /\ proc' \in [Procs -> Invocations]
      /\ proc'[p] = [proc[p] EXCEPT !.pc = pc, !.seen = @ \cup {m}]
  BY <1>1, <1>5 DEF TypeOK
<1>7. /\ proc'[p].pc = pc /\ proc'[p].member = m /\ proc'[p].i = proc[p].i
      /\ proc'[p].req = proc[p].req /\ proc'[p].sig = proc[p].sig
      /\ proc'[p].reused = proc[p].reused /\ proc'[p].a = proc[p].a
      /\ proc'[p].seen = proc[p].seen \cup {m}
      /\ proc'[p].chosen = proc[p].chosen /\ proc'[p].last = proc[p].last
  BY <1>0, <1>6 DEF Invocations
<1>8. /\ Open(p) = {} /\ Open(p)' = (IF m \in Speakers THEN {m} ELSE {})
      /\ MemberInv(p)'
  BY <1>0, <1>7 DEF Open, MemberInv
<1>9. ASSUME ListInv(p), ChosenInv(p), TreeInv(p),
             \A a \in Archives : archive[a].content = proc[p].req.manifest
      PROVE  ListInv(p)' /\ ChosenInv(p)' /\ TreeInv(p)'
  <2> HIDE DEF m
  <2>1. v = proc[p].req.manifest /\ m \notin proc[p].seen
    BY <1>0, <1>2, <1>9 DEF ListInv, m
  <2>2. ListInv(p)'
    <3>1. CASE proc[p].a = "audio"
      <4>1. proc'[p].seen \cup (IF proc'[p].pc = "copy" THEN {proc'[p].member} ELSE {})
              = proc[p].seen \cup {m}
        BY <1>7
      <4> QED
        BY <1>0, <1>7, <1>8, <1>9, <3>1, <4>1 DEF ListInv, m
    <3>2. CASE proc[p].a = "resources"
      <4>1. m \in Resources
        BY <1>0, <1>9, <3>2 DEF ListInv, m
      <4>2. m \notin Speakers /\ m # Transcript
        BY <4>1, NamesApart
      <4>3. proc'[p].seen \cap ({Transcript} \cup Speakers)
              = proc[p].seen \cap ({Transcript} \cup Speakers)
        BY <1>7, <4>2
      <4> QED
        BY <1>7, <1>8, <1>9, <3>2, <4>2, <4>3 DEF ListInv
    <3> QED
      BY <1>2, <3>1, <3>2 DEF Archives
  <2>3. ChosenInv(p)'
    <3>1. (Scanned(p) \cap Speakers)' = Scanned(p) \cap Speakers
      BY <1>7, <1>8, <2>1 DEF Scanned
    <3>2. IsFiniteSet(proc[p].seen \cup {m})
      BY <1>9, FS_AddElement DEF ChosenInv
    <3>3. \A s : Chosen(p, s)' = Chosen(p, s)
      BY <1>7 DEF Chosen
    <3> QED
      BY <1>7, <1>9, <3>1, <3>2, <3>3 DEF ChosenInv
  <2>4. TreeInv(p)'
    <3>1. Staged \in [Names -> Contents \cup Markers]
      BY <1>0 DEF TypeOK, Staged, Trees
    <3>2. Staged'[Output(m)] = v /\ \A k \in Names : k # Output(m) => Staged'[k] = Staged[k]
      BY <1>3, <1>4, <3>1
    <3>3. \A k \in Speakers : Staged'[k] = Staged[k]
      BY <1>3, <3>2, NamesApart
    <3>4. \A k \in Speakers : k \notin Open(p)' \/ proc'[p].pc = "nested" =>
            Staged'[k] = IF k \in proc'[p].chosen THEN proc'[p].req.manifest ELSE Absent
      BY <1>7, <1>8, <1>9, <3>3 DEF TreeInv
    <3>5. \A k \in {Transcript} \cup Resources : k \in proc'[p].seen =>
            Staged'[k] = proc'[p].req.manifest
      <4> SUFFICES ASSUME NEW k \in {Transcript} \cup Resources, k \in proc'[p].seen
                   PROVE  Staged'[k] = proc'[p].req.manifest
        OBVIOUS
      <4>1. k \notin Speakers /\ k # Scratch /\ k \in Names
        BY NamesApart
      <4>2. CASE k = m
        BY <1>3, <1>7, <2>1, <3>2, <4>1, <4>2
      <4>3. CASE k # m
        BY <1>3, <1>7, <1>9, <3>2, <4>1, <4>3 DEF TreeInv
      <4> QED
        BY <4>2, <4>3
    <3>6. proc'[p].pc = "nested" => Staged'[Scratch] = proc'[p].req.manifest
      BY <1>3, <1>7, <2>1, <3>2
    <3>7. proc'[p].pc \notin {"wavs", "unscratch"}
      BY <1>7
    <3> QED
      BY <3>4, <3>5, <3>6, <3>7 DEF TreeInv
  <2> QED
    BY <2>2, <2>3, <2>4
<1>10. proc[p].pc \in Scanning /\ proc'[p].pc \in Scanning
  BY <1>0, <1>7 DEF Scanning
<1> QED
  BY <1>0, <1>4, <1>6, <1>7, <1>8, <1>9, <1>10, ScanningKeeps

\* Moving on while the archive of one speaker is open changes nothing that was
\* read or taken.
LEMMA SameSpeaker ==
  ASSUME TypeOK, NEW p \in Procs, NEW pc \in {"wavs", "unscratch"}, Go(p, pc),
         proc[p].pc \in {"nested", "wavs"}
  PROVE  /\ proc[p].pc \in Scanning /\ proc'[p].pc \in Scanning
         /\ proc' \in [Procs -> Invocations]
         /\ proc'[p].pc = pc /\ proc'[p].req = proc[p].req /\ proc'[p].sig = proc[p].sig
         /\ proc'[p].reused = proc[p].reused /\ proc'[p].member = proc[p].member
         /\ proc'[p].seen = proc[p].seen /\ proc'[p].chosen = proc[p].chosen
         /\ Open(p) = {proc[p].member} /\ Open(p)' = {proc[p].member}
         /\ MemberInv(p) => MemberInv(p)'
         /\ ListInv(p) => ListInv(p)'
         /\ ChosenInv(p) => ChosenInv(p)'
         /\ Selected(p, proc[p].member)' = Selected(p, proc[p].member)
<1>0. pc \in Pcs
  BY DEF Pcs, Scanning
<1>1. /\ proc' \in [Procs -> Invocations]
      /\ proc'[p].pc = pc /\ proc'[p].req = proc[p].req /\ proc'[p].sig = proc[p].sig
      /\ proc'[p].reused = proc[p].reused /\ proc'[p].member = proc[p].member
      /\ proc'[p].a = proc[p].a /\ proc'[p].i = proc[p].i /\ proc'[p].last = proc[p].last
      /\ proc'[p].seen = proc[p].seen /\ proc'[p].chosen = proc[p].chosen
  BY <1>0, GoKeeps
<1>2. Open(p) = {proc[p].member} /\ Open(p)' = {proc[p].member} /\ Scanned(p)' = Scanned(p)
  BY <1>1 DEF Open, Scanned
<1>3. \A s : Chosen(p, s)' = Chosen(p, s)
  BY <1>1 DEF Chosen
<1>4. MemberInv(p) => MemberInv(p)'
  BY <1>1, <1>2 DEF MemberInv
<1>5. ListInv(p) => ListInv(p)'
  BY <1>1, <1>2 DEF ListInv
<1>6. ChosenInv(p) => ChosenInv(p)'
  BY <1>1, <1>2, <1>3 DEF ChosenInv
<1>7. Selected(p, proc[p].member)' = Selected(p, proc[p].member)
  BY <1>1, <1>3 DEF Selected
<1>8. proc[p].pc \in Scanning /\ proc'[p].pc \in Scanning
  BY <1>1 DEF Scanning
<1> QED
  BY <1>1, <1>2, <1>4, <1>5, <1>6, <1>7, <1>8

LEMMA BeginSpeakerKeeps ==
  ASSUME SingleCommand, Inv, NEW p \in Procs, BeginSpeaker(p), UNCHANGED archive
  PROVE  Inv'
<1> USE DEF Inv
<1> DEFINE m == proc[p].member
<1>0. /\ at' = at /\ proc[p].pc = "nested" /\ at["staging"] # Absent
      /\ Open(p) = {m} /\ m \in Speakers /\ m \in DataNames
      /\ Staged \in [Names -> Contents \cup Markers]
  BY NamesApart
     DEF BeginSpeaker, At, RunInv, StagingInv, MemberInv, Open, Scanning, TypeOK, Staged, Trees
<1>1. CASE Raise(p) /\ tree' = tree
  BY <1>0, <1>1, RaiseKeeps, SameDisk DEF TypeOK, disk
<1>2. ASSUME ~(Raise(p) /\ tree' = tree), ~Selected(p, m) PROVE Inv'
  <2>1. tree' = tree /\ Go(p, "unscratch") /\ Staged' = Staged /\ DiskInv'
        /\ tree' \in [Dirs -> Trees]
    BY <1>0, <1>2, SameDisk DEF BeginSpeaker, Member, disk, TypeOK
  <2>2. ASSUME ListInv(p), ChosenInv(p), TreeInv(p) PROVE TreeInv(p)'
    <3>1. m \notin proc[p].chosen
      BY <1>0, <2>2 DEF ChosenInv, Scanned, Choice
    <3>2. Staged[m] = Absent
      BY <1>0, <2>2, <3>1 DEF TreeInv
    <3>3. ~Selected(p, m)' /\ proc'[p].member = m
      BY <1>0, <1>2, <2>1, SameSpeaker
    <3> QED
      BY <1>0, <2>1, <2>2, <3>2, <3>3, SameSpeaker DEF TreeInv
  <2> QED
    BY <1>0, <2>1, <2>2, SameSpeaker, ScanningKeeps DEF RunInv
<1>3. ASSUME ~(Raise(p) /\ tree' = tree), Selected(p, m) PROVE Inv'
  <2>1. Put(m, Torn) /\ Go(p, "wavs")
    BY <1>0, <1>3 DEF BeginSpeaker, Member
  <2>2. /\ tree' \in [Dirs -> Trees] /\ DiskInv'
        /\ Staged' = [Staged EXCEPT ![m] = Torn]
    BY <1>0, <2>1, PutKeeps, NamesApart DEF Contents
  <2>3. ASSUME TreeInv(p) PROVE TreeInv(p)'
    <3>1. \A k \in Names : k # m => Staged'[k] = Staged[k]
      BY <1>0, <2>2
    <3>2. Selected(p, m)' /\ proc'[p].member = m /\ Open(p)' = {m}
      BY <1>0, <1>3, <2>1, SameSpeaker
    <3>3. \A k \in Speakers : k \notin Open(p)' =>
            Staged'[k] = IF k \in proc'[p].chosen THEN proc'[p].req.manifest ELSE Absent
      BY <1>0, <2>1, <2>3, <3>1, <3>2, NamesApart, SameSpeaker DEF TreeInv
    <3>4. \A k \in {Transcript} \cup Resources : k \in proc'[p].seen =>
            Staged'[k] = proc'[p].req.manifest
      BY <1>0, <2>1, <2>3, <3>1, NamesApart, SameSpeaker DEF TreeInv
    <3>5. Staged'[Scratch] = proc'[p].req.manifest
      BY <1>0, <2>1, <2>3, <3>1, NamesApart, SameSpeaker DEF TreeInv
    <3>6. proc'[p].pc = "wavs"
      BY <1>0, <2>1, SameSpeaker
    <3> QED
      BY <3>2, <3>3, <3>4, <3>5, <3>6 DEF TreeInv
  <2> QED
    BY <1>0, <2>1, <2>2, <2>3, SameSpeaker, ScanningKeeps DEF RunInv
<1> QED
  BY <1>1, <1>2, <1>3

LEMMA EndSpeakerKeeps ==
  ASSUME SingleCommand, Inv, NEW p \in Procs, EndSpeaker(p), UNCHANGED archive
  PROVE  Inv'
<1> USE DEF Inv
<1> DEFINE m == proc[p].member
           c == Staged[Scratch]
<1>0. /\ at' = at /\ proc[p].pc = "wavs" /\ at["staging"] # Absent
      /\ Open(p) = {m} /\ m \in Speakers /\ m \in DataNames
      /\ Staged \in Trees
  BY NamesApart
     DEF EndSpeaker, At, RunInv, StagingInv, MemberInv, Open, Scanning, TypeOK, Staged
<1>1. Put(m, c) /\ Go(p, "unscratch")
  BY <1>0 DEF EndSpeaker, Member
<1>2. Staged \in [Names -> Contents \cup Markers] /\ c \in Contents
  BY <1>0 DEF Trees
<1>3. /\ tree' \in [Dirs -> Trees] /\ DiskInv'
      /\ Staged' = [Staged EXCEPT ![m] = c]
  BY <1>0, <1>1, <1>2, PutKeeps, NamesApart
<1>4. ASSUME TreeInv(p) PROVE TreeInv(p)'
  <2>1. \A k \in Names : k # m => Staged'[k] = Staged[k]
    BY <1>2, <1>3
  <2>2. Selected(p, m)' /\ proc'[p].member = m /\ Open(p)' = {m} /\ proc'[p].pc = "unscratch"
    BY <1>0, <1>1, <1>4, SameSpeaker DEF TreeInv
  <2>3. \A k \in Speakers : k \notin Open(p)' =>
          Staged'[k] = IF k \in proc'[p].chosen THEN proc'[p].req.manifest ELSE Absent
    BY <1>0, <1>1, <1>4, <2>1, <2>2, NamesApart, SameSpeaker DEF TreeInv
  <2>4. \A k \in {Transcript} \cup Resources : k \in proc'[p].seen =>
          Staged'[k] = proc'[p].req.manifest
    BY <1>0, <1>1, <1>4, <2>1, NamesApart, SameSpeaker DEF TreeInv
  <2>5. Staged'[m] = proc'[p].req.manifest
    BY <1>0, <1>1, <1>2, <1>3, <1>4, NamesApart, SameSpeaker DEF TreeInv
  <2> QED
    BY <2>2, <2>3, <2>4, <2>5 DEF TreeInv
<1> QED
  BY <1>0, <1>1, <1>3, <1>4, SameSpeaker, ScanningKeeps DEF RunInv

\* Whether a speaker is taken, given those taken before it.
Takes(C, m, req) ==
  m[1] \in req.splits /\ (req.limit # 0 => Cardinality(OfSplit(C, m[1])) < req.limit)

Extended(C, m, req) == IF Takes(C, m, req) THEN C \cup {m} ELSE C

\* The speaker has the largest number of its split so far.
Latest(S, m) == \A n \in S : n[1] = m[1] => n[2] < m[2]

\* One more speaker of a scan in order: the choice is still the one of the
\* smallest numbers.  S are the speakers scanned before m, C those taken.
LEMMA NextChoice ==
  ASSUME NEW S \in SUBSET Speakers, IsFiniteSet(S), NEW m \in Speakers, m \notin S,
         NEW req \in Requests, NEW C, Latest(S, m),
         C = Choice(S, req), Exhausted(C, S, req)
  PROVE  /\ Extended(C, m, req) = Choice(S \cup {m}, req)
         /\ Exhausted(Extended(C, m, req), S \cup {m}, req)
<1> DEFINE D == Extended(C, m, req)
           limit == req.limit
           T == OfSplit(S, m[1])
           taken == Takes(C, m, req)
<1>0. limit \in Nat /\ C \subseteq S /\ D = IF taken THEN C \cup {m} ELSE C
  BY Manifests DEF Choice, Extended
<1>1. \A n \in S : Before(S \cup {m}, n) = Before(S, n)
  <2> SUFFICES ASSUME NEW n \in S, m[1] = n[1], m[2] < n[2] PROVE FALSE
    BY DEF Before
  <2> QED
    BY SpeakersHaveSplits DEF Latest
<1>2. Before(S \cup {m}, m) = T
  BY SpeakersHaveSplits DEF Before, OfSplit, Latest
<1>3. IsFiniteSet(T) /\ Cardinality(T) \in Nat /\ OfSplit(C, m[1]) \subseteq T
  BY <1>0, FS_Subset, FS_CardinalityType DEF OfSplit
<1>4. /\ Cardinality(OfSplit(C, m[1])) \in Nat
      /\ Cardinality(OfSplit(C, m[1])) <= Cardinality(T)
  BY <1>3, FS_Subset, FS_CardinalityType
<1>5. taken <=> m[1] \in req.splits /\ (limit # 0 => Cardinality(T) < limit)
  <2>1. ASSUME m[1] \in req.splits, limit # 0, Cardinality(OfSplit(C, m[1])) < limit
        PROVE  OfSplit(C, m[1]) = T
    BY <2>1, <1>3 DEF Exhausted, OfSplit
  <2> HIDE DEF T
  <2> QED
    BY <1>0, <1>3, <1>4, <2>1 DEF Takes
<1>6. D = Choice(S \cup {m}, req)
  <2> DEFINE P(n) == n[1] \in req.splits /\ (limit # 0 => Cardinality(Before(S \cup {m}, n)) < limit)
  <2>1. \A n \in S : n \in C <=> P(n)
    BY <1>1 DEF Choice
  <2>2. P(m) <=> taken
    BY <1>2, <1>5
  <2>3. Choice(S \cup {m}, req) = {n \in S \cup {m} : P(n)}
    BY DEF Choice
  <2> HIDE DEF P, taken
  <2> QED
    BY <1>0, <2>1, <2>2, <2>3
<1>7. ASSUME NEW s \in req.splits, limit # 0, Cardinality(OfSplit(D, s)) < limit,
             NEW n \in S \cup {m}, n[1] = s
      PROVE  n \in D
  <2>1. C \subseteq D /\ D \subseteq S \cup {m} /\ IsFiniteSet(S \cup {m})
    BY <1>0, FS_AddElement
  <2>2. IsFiniteSet(OfSplit(D, s)) /\ OfSplit(C, s) \subseteq OfSplit(D, s)
    BY <2>1, FS_Subset DEF OfSplit
  <2>3. /\ Cardinality(OfSplit(C, s)) <= Cardinality(OfSplit(D, s))
        /\ Cardinality(OfSplit(C, s)) \in Nat /\ Cardinality(OfSplit(D, s)) \in Nat
    BY <2>2, FS_Subset, FS_CardinalityType
  <2>4. Cardinality(OfSplit(C, s)) < limit
    BY <1>0, <1>7, <2>3
  <2>5. CASE n = m
    BY <1>0, <1>7, <2>4, <2>5 DEF Takes
  <2>6. CASE n \in S
    <3>1. n \in OfSplit(S, s) /\ OfSplit(S, s) \subseteq C
      BY <1>7, <2>4, <2>6 DEF OfSplit, Exhausted
    <3> QED
      BY <2>1, <3>1
  <2> QED
    BY <2>5, <2>6
<1> QED
  BY <1>6, <1>7 DEF Exhausted, OfSplit

LEMMA NextSpeakerKeeps ==
  ASSUME SingleCommand, Inv, NEW p \in Procs, NextSpeaker(p), UNCHANGED archive
  PROVE  Inv'
<1> USE DEF Inv
<1> DEFINE m == proc[p].member
           last == proc[p].last
           chosen == IF Selected(p, m) THEN proc[p].chosen \cup {m} ELSE proc[p].chosen
           seenLast == [s \in DOMAIN last \cup {m[1]} |-> IF s = m[1] THEN m[2] ELSE last[s]]
<1>0. /\ at' = at /\ proc[p].pc = "unscratch" /\ at["staging"] # Absent
      /\ Open(p) = {m} /\ m \in Speakers /\ m \in DataNames
      /\ Staged \in [Names -> Contents \cup Markers] /\ proc[p] \in Invocations
      /\ proc[p].req \in Requests
  BY NamesApart
     DEF NextSpeaker, At, RunInv, RequestInv, StagingInv, MemberInv, Open, Scanning, TypeOK,
         Staged, Trees
<1>1. Put(Scratch, Absent)
  BY <1>0 DEF NextSpeaker
<1>2. /\ tree' \in [Dirs -> Trees] /\ DiskInv'
      /\ Staged' = [Staged EXCEPT ![Scratch] = Absent]
  BY <1>0, <1>1, PutKeeps, NamesApart DEF Contents
<1>3. CASE Raise(p)
  BY <1>0, <1>2, <1>3, RaiseKeeps DEF TypeOK
<1>4. ASSUME ~Raise(p) PROVE Inv'
  <2>1. /\ Ordered(p, m)
        /\ proc' = [proc EXCEPT ![p] =
                      [proc[p] EXCEPT !.pc = "member", !.chosen = chosen, !.last = seenLast]]
    BY <1>0, <1>4 DEF NextSpeaker, Member, TypeOK
  <2>2. last \in UNION { [S -> Nat] : S \in SUBSET {"train", "dev", "test"} }
    BY <1>0 DEF Invocations
  <2>3. DOMAIN last \subseteq {"train", "dev", "test"} /\ \A s \in DOMAIN last : last[s] \in Nat
    BY <2>2
  <2>4. /\ seenLast \in UNION { [S -> Nat] : S \in SUBSET {"train", "dev", "test"} }
        /\ DOMAIN seenLast = DOMAIN last \cup {m[1]}
        /\ seenLast[m[1]] = m[2]
        /\ \A s \in DOMAIN last : s # m[1] => seenLast[s] = last[s]
    <3>1. DOMAIN last \cup {m[1]} \in SUBSET {"train", "dev", "test"}
      BY <1>0, <2>3, SpeakersHaveSplits
    <3>2. seenLast \in [DOMAIN last \cup {m[1]} -> Nat]
      BY <1>0, <2>3, SpeakersHaveSplits
    <3> QED
      BY <3>1, <3>2
  <2>5. chosen \subseteq Speakers
    BY <1>0 DEF Invocations
  <2>6. [proc[p] EXCEPT !.pc = "member", !.chosen = chosen, !.last = seenLast] \in Invocations
    <3>1. "member" \in Pcs
      BY DEF Pcs, Scanning
    <3> HIDE DEF chosen, seenLast
    <3> QED
      BY <1>0, <2>4, <2>5, <3>1 DEF Invocations
  <2> HIDE DEF chosen, seenLast
  <2>7. /\ proc' \in [Procs -> Invocations]
        /\ proc'[p] = [proc[p] EXCEPT !.pc = "member", !.chosen = chosen, !.last = seenLast]
    BY <2>1, <2>6 DEF TypeOK
  <2>8. /\ proc'[p].pc = "member" /\ proc'[p].i = proc[p].i
        /\ proc'[p].req = proc[p].req /\ proc'[p].sig = proc[p].sig
        /\ proc'[p].reused = proc[p].reused /\ proc'[p].a = proc[p].a
        /\ proc'[p].member = m /\ proc'[p].seen = proc[p].seen
        /\ proc'[p].chosen = chosen /\ proc'[p].last = seenLast
    BY <1>0, <2>7 DEF Invocations
  <2>9. Open(p)' = {} /\ MemberInv(p)'
    BY <2>8 DEF Open, MemberInv
  <2>10. ASSUME ListInv(p), ChosenInv(p), TreeInv(p)
         PROVE  ListInv(p)' /\ ChosenInv(p)' /\ TreeInv(p)'
    <3> DEFINE S == Scanned(p) \cap Speakers
    <3>1. /\ S = (proc[p].seen \cap Speakers) \ {m} /\ m \in proc[p].seen
          /\ (Scanned(p) \cap Speakers)' = S \cup {m} /\ m \notin S
      BY <1>0, <2>8, <2>9, <2>10 DEF Scanned, ListInv
    <3>2. ListInv(p)'
      BY <1>0, <2>8, <2>9, <2>10 DEF ListInv
    <3>3. \A n \in S : n[1] \in DOMAIN last /\ n[2] <= last[n[1]]
      BY <2>10 DEF ChosenInv
    <3>4. \A n \in S : n[1] = m[1] => n[2] < m[2]
      BY <1>0, <2>1, <2>3, <3>3, SpeakersHaveSplits DEF Ordered
    <3>5. \A n \in S \cup {m} : n[1] \in DOMAIN seenLast /\ n[2] <= seenLast[n[1]]
      BY <1>0, <2>4, <3>3, <3>4, SpeakersHaveSplits
    <3>6. chosen = Choice(S \cup {m}, proc[p].req) /\ Exhausted(chosen, S \cup {m}, proc[p].req)
      <4>1. S \in SUBSET Speakers /\ IsFiniteSet(S)
        BY <2>10, <3>1, FS_Subset DEF ChosenInv
      <4>2. proc[p].chosen = Choice(S, proc[p].req) /\ Exhausted(proc[p].chosen, S, proc[p].req)
        BY <2>10 DEF ChosenInv
      <4>3. chosen = IF Takes(proc[p].chosen, m, proc[p].req)
                     THEN proc[p].chosen \cup {m} ELSE proc[p].chosen
        BY DEF chosen, Selected, Chosen, OfSplit, Takes
      <4>4. m \notin S
        BY <3>1
      <4> DEFINE C == proc[p].chosen
                 req == proc[p].req
      <4>5. /\ S \in SUBSET Speakers /\ IsFiniteSet(S) /\ m \in Speakers /\ m \notin S
            /\ req \in Requests /\ Latest(S, m)
            /\ C = Choice(S, req) /\ Exhausted(C, S, req)
            /\ chosen = Extended(C, m, req)
        BY <1>0, <3>4, <4>1, <4>2, <4>3, <4>4 DEF Latest, Extended
      <4> HIDE DEF S, m, C, req
      <4>6. chosen = Choice(S \cup {m}, req) /\ Exhausted(chosen, S \cup {m}, req)
        BY <4>5, NextChoice
      <4> QED
        BY <4>6 DEF req
    <3>7. ChosenInv(p)'
      <4> HIDE DEF S
      <4>1. IsFiniteSet(proc'[p].seen)
        BY <2>8, <2>10 DEF ChosenInv
      <4> QED
        BY <2>8, <3>1, <3>5, <3>6, <4>1 DEF ChosenInv
    <3>8. TreeInv(p)'
      <4>1. \A k \in DataNames : Staged'[k] = Staged[k]
        BY <1>0, <1>2, NamesApart
      <4>2. m \notin proc[p].chosen
        BY <2>10, <3>1 DEF ChosenInv, Choice
      <4>3. \A k \in Speakers :
              Staged'[k] = IF k \in chosen THEN proc[p].req.manifest ELSE Absent
        <5> SUFFICES ASSUME NEW k \in Speakers
                     PROVE  Staged'[k] = IF k \in chosen THEN proc[p].req.manifest ELSE Absent
          OBVIOUS
        <5>1. CASE k = m
          BY <1>0, <2>10, <4>1, <4>2, <5>1, NamesApart DEF TreeInv, chosen
        <5>2. CASE k # m
          BY <1>0, <2>10, <4>1, <5>2, NamesApart DEF TreeInv, chosen
        <5> QED
          BY <5>1, <5>2
      <4> QED
        BY <2>8, <2>9, <2>10, <4>1, <4>3, NamesApart DEF TreeInv
    <3> QED
      BY <3>2, <3>7, <3>8
  <2>11. proc[p].pc \in Scanning /\ proc'[p].pc \in Scanning
    BY <1>0, <2>8 DEF Scanning
  <2> QED
    BY <1>0, <1>2, <2>7, <2>8, <2>9, <2>10, <2>11, ScanningKeeps DEF RunInv
<1> QED
  BY <1>3, <1>4

\* The end of a list: everything that was asked for was read, and nothing else
\* was taken.
LEMMA EndArchiveKeeps ==
  ASSUME SingleCommand, Inv, NEW p \in Procs, EndArchive(p), UNCHANGED archive
  PROVE  Inv'
<1> USE DEF Inv
<1> DEFINE r == proc[p]
           audio == Members["audio"][r.req.manifest]
<1>0. /\ at' = at /\ tree' = tree /\ Staged' = Staged /\ DiskInv'
      /\ r.pc = "member" /\ at["staging"] # Absent /\ r \in Invocations /\ r.req \in Requests
      /\ Staged \in [Names -> Contents \cup Markers] /\ tree' \in [Dirs -> Trees]
      /\ Open(p) = {} /\ Scanned(p) = r.seen /\ ~More(p) /\ r.seen \subseteq DataNames
  BY SameDisk
     DEF EndArchive, At, RunInv, RequestInv, StagingInv, Open, Scanned, Scanning, TypeOK,
         Staged, Trees, disk, Invocations
<1>1. CASE Raise(p)
  BY <1>0, <1>1, RaiseKeeps DEF TypeOK
<1>2. ASSUME ~Raise(p), r.a = "audio" PROVE Inv'
  <2>1. /\ ArchiveComplete(p)
        /\ proc' = [proc EXCEPT ![p] = [r EXCEPT !.pc = "unpack", !.a = "resources", !.i = 1]]
    BY <1>0, <1>2 DEF EndArchive, TypeOK
  <2>2. [r EXCEPT !.pc = "unpack", !.a = "resources", !.i = 1] \in Invocations
    <3>1. "unpack" \in Pcs /\ "resources" \in Archives /\ 1 \in Nat \ {0}
      BY DEF Pcs, Scanning, Archives
    <3> HIDE DEF r
    <3> QED
      BY <1>0, <3>1 DEF Invocations
  <2>3. /\ proc' \in [Procs -> Invocations]
        /\ proc'[p] = [r EXCEPT !.pc = "unpack", !.a = "resources", !.i = 1]
    BY <2>1, <2>2 DEF TypeOK
  <2>4. /\ proc'[p].pc = "unpack" /\ proc'[p].a = "resources" /\ proc'[p].i = 1
        /\ proc'[p].req = r.req /\ proc'[p].sig = r.sig
        /\ proc'[p].reused = r.reused /\ proc'[p].member = r.member /\ proc'[p].seen = r.seen
        /\ proc'[p].chosen = r.chosen /\ proc'[p].last = r.last
    BY <1>0, <2>3 DEF Invocations
  <2>5. Open(p)' = {} /\ Scanned(p)' = Scanned(p) /\ MemberInv(p)'
    BY <1>0, <2>4 DEF Open, Scanned, MemberInv
  <2>6. ASSUME ListInv(p), ChosenInv(p), TreeInv(p),
               \A a \in Archives : archive[a].content = r.req.manifest
        PROVE  ListInv(p)' /\ ChosenInv(p)' /\ TreeInv(p)'
    <3>1. audio \in Seq({Transcript} \cup Speakers) /\ List(p) = audio
      BY <1>0, <1>2, <2>6, Manifests, ExtractionAssumption DEF List, Archives
    <3>2. r.i - 1 = Len(audio) /\ r.seen = {audio[j] : j \in 1..r.i - 1}
      BY <1>0, <1>2, <2>6, <3>1, Lists DEF ListInv, More
    <3>3. r.seen = ToSet(audio) /\ r.seen \subseteq {Transcript} \cup Speakers
      <4>1. r.seen = {audio[j] : j \in 1..Len(audio)}
        BY <3>2
      <4> HIDE DEF audio, r
      <4> QED
        BY <3>1, <4>1 DEF ToSet
    <3>4. Transcript \in r.seen
      BY <1>2, <2>1 DEF ArchiveComplete
    <3>5. ListInv(p)'
      <4>1. r.seen \cap ({Transcript} \cup Speakers) = ToSet(audio)
        BY <3>3
      <4> QED
        BY <1>0, <2>4, <2>5, <3>4, <4>1 DEF ListInv
    <3>6. ChosenInv(p)'
      BY <2>4, <2>5, <2>6 DEF ChosenInv
    <3>7. TreeInv(p)'
      BY <1>0, <2>4, <2>5, <2>6 DEF TreeInv
    <3> QED
      BY <3>5, <3>6, <3>7
  <2>7. proc[p].pc \in Scanning /\ proc'[p].pc \in Scanning
    BY <1>0, <2>4 DEF Scanning
  <2> QED
    BY <1>0, <2>3, <2>4, <2>5, <2>6, <2>7, ScanningKeeps DEF RunInv
<1>3. ASSUME ~Raise(p), r.a = "resources" PROVE Inv'
  <2>1. ArchiveComplete(p) /\ Go(p, "bind")
    BY <1>3 DEF EndArchive
  <2>2. "bind" \in Pcs
    BY DEF Pcs
  <2>3. /\ proc' \in [Procs -> Invocations]
        /\ proc'[p].pc = "bind" /\ proc'[p].req = r.req /\ proc'[p].sig = r.sig
        /\ proc'[p].reused = r.reused
    BY <2>1, <2>2, GoKeeps
  <2>4. /\ RequestInv(p)' /\ (Unchanged(p, Archives)' => Unchanged(p, Archives))
        /\ Unchanged(p, Archives) =>
             \A a \in Archives : archive[a].content = r.req.manifest
    BY <1>0, <2>3, SameRequest DEF RunInv
  <2>5. ResultInv(p)' /\ StagingInv(p)' /\ EarlyInv(p)' /\ MemberInv(p)' /\ ScanInv(p)'
    BY <1>0, <2>3
       DEF RunInv, ResultInv, StagingInv, EarlyInv, MemberInv, Open, ScanInv, Scanning, Early,
           Binding
  <2>6. ASSUME Unchanged(p, Archives) PROVE Data(Staged) = Selection(r.req)
    <3> DEFINE S == r.seen \cap Speakers
               R == ToSet(audio)
    <3>1. ListInv(p) /\ ChosenInv(p) /\ TreeInv(p)
      BY <1>0, <2>6 DEF RunInv, ScanInv, Scanning
    <3>2. /\ r.seen \cap ({Transcript} \cup Speakers) = R /\ Transcript \in r.seen
          /\ Resources \subseteq r.seen
      BY <1>3, <2>1, <3>1 DEF ListInv, ArchiveComplete
    <3>3. r.chosen = Choice(S, r.req)
      BY <1>0, <3>1 DEF ChosenInv
    <3>4. S = Speakers \cap R
      BY <3>2, NamesApart
    <3>5. \A n \in S : Before(S, n) = {k \in R : k[1] = n[1] /\ k[2] < n[2]}
      <4>1. R \subseteq {Transcript} \cup Speakers
        BY <3>2
      <4> HIDE DEF R, S
      <4> QED
        BY <3>4, <4>1, SpeakersHaveSplits DEF Before
    <3>6. Choice(S, r.req) = ReferenceSpeakers(r.req)
      <4>1. ReferenceSpeakers(r.req) =
              {n \in S : /\ n[1] \in r.req.splits
                         /\ r.req.limit # 0 =>
                              Cardinality({k \in R : k[1] = n[1] /\ k[2] < n[2]}) < r.req.limit}
        BY <3>4 DEF ReferenceSpeakers
      <4> HIDE DEF R, S, r
      <4> QED
        BY <3>5, <4>1 DEF Choice
    <3>7. \A n \in Speakers :
            Staged[n] = IF n \in ReferenceSpeakers(r.req) THEN r.req.manifest ELSE Absent
      BY <1>0, <3>1, <3>3, <3>6 DEF TreeInv
    <3>8. \A n \in {Transcript} \cup Resources : Staged[n] = r.req.manifest
      BY <3>1, <3>2 DEF TreeInv
    <3>9. \A n \in DataNames :
            Staged[n] = IF n \in Wanted(r.req) THEN r.req.manifest ELSE Absent
      <4> SUFFICES ASSUME NEW n \in DataNames
                   PROVE  Staged[n] = IF n \in Wanted(r.req) THEN r.req.manifest ELSE Absent
        OBVIOUS
      <4>1. CASE n \in Speakers
        BY <3>7, <4>1, NamesApart DEF Wanted
      <4>2. CASE n \in {Transcript} \cup Resources
        BY <3>8, <4>2 DEF Wanted
      <4> QED
        BY <4>1, <4>2, NamesApart
    <3> QED
      BY <3>9 DEF Data, Selection
  <2>7. BindInv(p)'
    <3>1. (Data(Staged) = Selection(r.req)) => (Data(Staged) = Selection(proc[p].req))'
      BY <1>0, <2>3
    <3> QED
      BY <2>3, <2>4, <2>6, <3>1 DEF BindInv, Binding
  <2> QED
    BY <1>0, <2>3, <2>4, <2>5, <2>7, OneCommand DEF RunInv, TypeOK
<1> QED
  BY <1>0, <1>1, <1>2, <1>3 DEF Invocations, Archives

-----------------------------------------------------------------------------
(* The actions: marker and promotion *)

\* A step that goes on with the marker: what is left to show is what the step
\* says of the staging directory.
LEMMA BindingKeeps ==
  ASSUME SingleCommand, Inv, NEW p \in Procs, proc[p].pc \in Binding \cup {"bind"},
         NEW pc \in Binding \cup {"promote"}, Go(p, pc),
         tree' \in [Dirs -> Trees], at' = at, archive' = archive, DiskInv',
         Data(Staged') = Selection(proc[p].req),
         pc = "link" => Staged'[MarkerTmp] # Torn,
         pc = "promote" => MarkerValid(Staged', proc[p].req)
  PROVE  Inv'
<1> USE DEF Inv
<1>0. pc \in Pcs
  BY DEF Pcs
<1>1. /\ proc' \in [Procs -> Invocations]
      /\ proc'[p].pc = pc /\ proc'[p].req = proc[p].req /\ proc'[p].sig = proc[p].sig
      /\ proc'[p].reused = proc[p].reused
  BY <1>0, GoKeeps
<1>2. RequestInv(p)'
  BY <1>1, SameRequest DEF RunInv, Binding
<1>3. ResultInv(p)' /\ StagingInv(p)' /\ EarlyInv(p)' /\ MemberInv(p)' /\ ScanInv(p)'
  BY <1>1
     DEF RunInv, ResultInv, StagingInv, EarlyInv, MemberInv, Open, ScanInv, Scanning, Early,
         Binding
<1>4. BindInv(p)'
  <2>1. (Data(Staged) = Selection(proc[p].req))'
    BY <1>1
  <2>2. pc = "promote" => MarkerValid(Staged, proc[p].req)'
    BY <1>1
  <2> QED
    BY <1>1, <2>1, <2>2 DEF BindInv, Binding
<1> QED
  BY <1>1, <1>2, <1>3, <1>4, OneCommand DEF RunInv, TypeOK

\* The temporary file and the marker are no data.
LEMMA MarkerIsNoData ==
  ASSUME TypeOK, at["staging"] # Absent, NEW n \in {Marker, MarkerTmp, Scratch}, NEW c,
         Staged' = [Staged EXCEPT ![n] = c]
  PROVE  Data(Staged') = Data(Staged)
<1>1. Staged \in [Names -> Contents \cup Markers]
  BY DEF TypeOK, Staged, Trees
<1>2. \A k \in DataNames : Staged'[k] = Staged[k]
  BY <1>1, NamesApart
<1> QED
  BY <1>2 DEF Data

LEMMA BindKeeps ==
  ASSUME SingleCommand, Inv, NEW p \in Procs, Bind(p), UNCHANGED archive
  PROVE  Inv'
<1> USE DEF Inv
<1>0. at' = at /\ proc[p].pc = "bind" /\ at["staging"] # Absent
  BY DEF Bind, At, RunInv, StagingInv
<1>1. CASE Raise(p) /\ tree' = tree
  BY <1>0, <1>1, RaiseKeeps, SameDisk DEF TypeOK, disk
<1>2. ASSUME ~(Raise(p) /\ tree' = tree) PROVE Inv'
  <2>1. Put(MarkerTmp, Torn) /\ Go(p, "fill") /\ Unchanged(p, Archives)
    BY <1>2 DEF Bind
  <2>2. /\ tree' \in [Dirs -> Trees] /\ DiskInv' /\ Staged' = [Staged EXCEPT ![MarkerTmp] = Torn]
    BY <1>0, <2>1, PutKeeps, NamesApart, ExtractionAssumption DEF Contents, Truthful
  <2>3. Data(Staged') = Selection(proc[p].req)
    BY <1>0, <2>1, <2>2, MarkerIsNoData DEF RunInv, BindInv
  <2>4. "fill" \in Binding
    BY DEF Binding
  <2> QED
    BY <1>0, <2>1, <2>2, <2>3, <2>4, BindingKeeps
<1> QED
  BY <1>1, <1>2

LEMMA FillMarkerKeeps ==
  ASSUME SingleCommand, Inv, NEW p \in Procs, FillMarker(p), UNCHANGED archive
  PROVE  Inv'
<1> USE DEF Inv
<1> DEFINE c == MarkerFor(Staged, proc[p].req)
<1>0. /\ at' = at /\ proc[p].pc = "fill" /\ at["staging"] # Absent
      /\ Data(Staged) = Selection(proc[p].req) /\ proc[p].req \in Requests /\ Staged \in Trees
  BY DEF FillMarker, At, RunInv, RequestInv, StagingInv, BindInv, Binding, Staged, TypeOK
<1>1. Put(MarkerTmp, c) /\ Go(p, "link")
  BY <1>0 DEF FillMarker
<1>2. c \in Markers /\ Truthful(c) /\ c # Torn
  <2>1. Data(Staged) \in [DataNames -> Versions \cup {Absent, Torn}]
    BY <1>0, NamesApart DEF Data, Trees, Contents
  <2>2. c \in Markers
    BY <1>0, <2>1 DEF MarkerFor, Markers
  <2>3. c.req = proc[p].req /\ c.tree = Selection(proc[p].req)
    BY <1>0 DEF MarkerFor
  <2> QED
    BY <2>2, <2>3, ExtractionAssumption DEF Truthful
<1> HIDE DEF c
<1>3. /\ tree' \in [Dirs -> Trees] /\ DiskInv' /\ Staged' = [Staged EXCEPT ![MarkerTmp] = c]
  BY <1>0, <1>1, <1>2, PutKeeps, NamesApart
<1>4. Data(Staged') = Selection(proc[p].req)
  BY <1>0, <1>3, MarkerIsNoData
<1>5. Staged'[MarkerTmp] # Torn /\ "link" \in Binding
  BY <1>0, <1>2, <1>3, NamesApart DEF Trees, Binding
<1> QED
  BY <1>0, <1>1, <1>3, <1>4, <1>5, BindingKeeps DEF Binding

LEMMA LinkMarkerKeeps ==
  ASSUME SingleCommand, Inv, NEW p \in Procs, LinkMarker(p), UNCHANGED archive
  PROVE  Inv'
<1> USE DEF Inv
<1> DEFINE c == Staged[MarkerTmp]
<1>0. /\ at' = at /\ proc[p].pc = "link" /\ at["staging"] # Absent
      /\ Data(Staged) = Selection(proc[p].req) /\ Staged \in Trees /\ c # Torn
  BY DEF LinkMarker, At, RunInv, StagingInv, BindInv, Binding, Staged, TypeOK
<1>1. CASE Raise(p) /\ tree' = tree
  BY <1>0, <1>1, RaiseKeeps, SameDisk DEF TypeOK, disk
<1>2. ASSUME ~(Raise(p) /\ tree' = tree) PROVE Inv'
  <2>1. Put(Marker, c) /\ Go(p, "unlink") /\ c # Absent
    BY <1>2 DEF LinkMarker
  <2>2. c \in Markers /\ Truthful(c)
    BY <1>0, <2>1 DEF Trees, DiskInv, Staged, TypeOK
  <2> HIDE DEF c
  <2>3. /\ tree' \in [Dirs -> Trees] /\ DiskInv' /\ Staged' = [Staged EXCEPT ![Marker] = c]
    BY <1>0, <2>1, <2>2, PutKeeps, NamesApart
  <2>4. Data(Staged') = Selection(proc[p].req)
    BY <1>0, <2>3, MarkerIsNoData
  <2>5. "unlink" \in Binding
    BY DEF Binding
  <2> QED
    BY <1>0, <2>1, <2>3, <2>4, <2>5, BindingKeeps DEF Binding
<1> QED
  BY <1>1, <1>2

LEMMA UnlinkMarkerKeeps ==
  ASSUME SingleCommand, Inv, NEW p \in Procs, UnlinkMarker(p), UNCHANGED archive
  PROVE  Inv'
<1> USE DEF Inv
<1>0. /\ at' = at /\ proc[p].pc = "unlink" /\ at["staging"] # Absent
      /\ Data(Staged) = Selection(proc[p].req)
  BY DEF UnlinkMarker, At, RunInv, StagingInv, BindInv, Binding
<1>1. Put(MarkerTmp, Absent) /\ Go(p, "recheck")
  BY <1>0 DEF UnlinkMarker
<1>2. /\ tree' \in [Dirs -> Trees] /\ DiskInv' /\ Staged' = [Staged EXCEPT ![MarkerTmp] = Absent]
  BY <1>0, <1>1, PutKeeps, NamesApart, ExtractionAssumption DEF Contents, Truthful
<1>3. Data(Staged') = Selection(proc[p].req)
  BY <1>0, <1>2, MarkerIsNoData
<1>4. "recheck" \in Binding
  BY DEF Binding
<1> QED
  BY <1>0, <1>1, <1>2, <1>3, <1>4, BindingKeeps DEF Binding

LEMMA RecheckKeeps ==
  ASSUME SingleCommand, Inv, NEW p \in Procs, Recheck(p), UNCHANGED archive
  PROVE  Inv'
<1> USE DEF Inv
<1>0. /\ at' = at /\ tree' = tree /\ Staged' = Staged /\ proc[p].pc = "recheck" /\ DiskInv'
      /\ Data(Staged) = Selection(proc[p].req)
  BY SameDisk DEF Recheck, At, RunInv, BindInv, Binding, disk
<1>1. CASE Raise(p)
  BY <1>0, <1>1, RaiseKeeps DEF TypeOK
<1>2. ASSUME ~Raise(p) PROVE Inv'
  <2>1. Go(p, "promote") /\ MarkerValid(Staged, proc[p].req)
    BY <1>2 DEF Recheck
  <2>2. MarkerValid(Staged', proc[p].req) /\ Data(Staged') = Selection(proc[p].req)
    BY <1>0, <2>1
  <2> QED
    BY <1>0, <2>1, <2>2, BindingKeeps DEF Binding, TypeOK
<1> QED
  BY <1>1, <1>2

LEMMA PromoteKeeps ==
  ASSUME SingleCommand, Inv, NEW p \in Procs, Promote(p), UNCHANGED archive
  PROVE  Inv'
<1> USE DEF Inv
<1>0. /\ tree' = tree /\ proc[p].pc = "promote" /\ at["staging"] # Absent
      /\ MarkerValid(Staged, proc[p].req) /\ proc[p].req \in Requests /\ Staged \in Trees
      /\ at["staging"] \in Dirs
  BY DEF Promote, At, RunInv, RequestInv, StagingInv, BindInv, Staged, TypeOK
<1>1. CASE Raise(p) /\ at' = at
  BY <1>0, <1>1, RaiseKeeps, SameDisk DEF TypeOK, disk
<1>2. ASSUME ~(Raise(p) /\ at' = at) PROVE Inv'
  <2>1. /\ at["target"] = Absent
        /\ at' = [at EXCEPT !["target"] = at["staging"], !["staging"] = Absent]
        /\ Go(p, "done") /\ "done" \in Pcs
    BY <1>2 DEF Promote, Pcs
  <2>2. /\ at' \in [{"target", "staging"} -> Dirs \cup {Absent}]
        /\ at'["target"] = at["staging"] /\ at'["staging"] = Absent
    BY <2>1 DEF TypeOK
  <2>3. Complete(Staged, proc[p].req)
    BY <1>0, ValidComplete DEF DiskInv, Staged
  <2>4. tree'[at'["target"]] = Staged
    BY <1>0, <2>2 DEF Staged
  <2>5. /\ proc' \in [Procs -> Invocations]
        /\ proc'[p].pc = "done" /\ proc'[p].req = proc[p].req /\ proc'[p].sig = proc[p].sig
    BY <2>1, GoKeeps
  <2>6. Complete(tree[at["target"]], proc[p].req)'
    BY <2>3, <2>4, <2>5
  <2>7. DiskInv'
    <3>1. (at["target"] # Absent => \E req \in Requests : Complete(tree[at["target"]], req))'
      BY <1>0, <2>3, <2>4
    <3>2. \A d \in Dirs : Truthful(tree[d][Marker])' /\ Truthful(tree[d][MarkerTmp])'
      BY <1>0 DEF DiskInv
    <3> QED
      BY <2>2, <3>1, <3>2 DEF DiskInv
  <2>8. RequestInv(p)'
    BY <1>0, <2>5, SameRequest DEF RunInv
  <2>9. ResultInv(p)' /\ StagingInv(p)' /\ EarlyInv(p)'
    BY <1>0, <2>2, <2>5, <2>6
       DEF ResultInv, StagingInv, EarlyInv, Early, Scanning, Binding
  <2> QED
    BY <1>0, <2>2, <2>5, <2>7, <2>8, <2>9, EarlyKeeps DEF TypeOK
<1> QED
  BY <1>1, <1>2

LEMMA ReturnKeeps ==
  ASSUME SingleCommand, Inv, NEW p \in Procs, Return(p), UNCHANGED archive
  PROVE  Inv'
  BY SameDisk, RaiseKeeps DEF Return, Inv, TypeOK, disk

-----------------------------------------------------------------------------
(* The actions: faults *)

LEMMA CrashKeeps ==
  ASSUME SingleCommand, Inv, NEW p \in Procs, Crash(p)
  PROVE  Inv'
  BY SameDisk, RaiseKeeps DEF Crash, Inv, TypeOK, disk

\* What is taken back is taken from the staging directory.
LEMMA IoErrorKeeps ==
  ASSUME SingleCommand, Inv, NEW p \in Procs, IoError(p)
  PROVE  Inv'
<1> USE DEF Inv
<1> DEFINE d == at["staging"]
           U == Unfinished(p)
           t == [n \in Names |-> IF n \in U THEN Absent ELSE tree[d][n]]
<1>1. at' = at /\ archive' = archive /\ Raise(p) /\ d \in Dirs /\ tree[d] \in Trees
      /\ tree' = [tree EXCEPT ![d] = t] /\ d # Absent
  BY DEF IoError, TypeOK
<1>2. t \in Trees
  <2> HIDE DEF U, d
  <2> QED
    BY <1>1, NamesApart DEF Trees, Contents
<1>3. t[Marker] \in {Absent, tree[d][Marker]} /\ t[MarkerTmp] \in {Absent, tree[d][MarkerTmp]}
  BY NamesApart
<1> HIDE DEF t
<1>4. /\ tree' \in [Dirs -> Trees] /\ tree'[d] = t /\ \A e \in Dirs \ {d} : tree'[e] = tree[e]
  BY <1>1, <1>2 DEF TypeOK
<1>5. at["target"] # Absent => at["target"] \in Dirs \ {d}
  BY DEF TypeOK, DiskInv
<1>6. ASSUME NEW e \in Dirs
      PROVE  Truthful(tree'[e][Marker]) /\ Truthful(tree'[e][MarkerTmp])
  <2>1. Truthful(tree[e][Marker]) /\ Truthful(tree[e][MarkerTmp]) /\ Truthful(Absent)
    BY ExtractionAssumption DEF DiskInv, Truthful
  <2>2. CASE e = d
    BY <1>3, <1>4, <2>1, <2>2
  <2>3. CASE e # d
    BY <1>4, <2>1, <2>3
  <2> QED
    BY <2>2, <2>3
<1>7. DiskInv'
  <2>1. (at["target"] # Absent => \E req \in Requests : Complete(tree[at["target"]], req))'
    <3>1. at["target"] # Absent => tree'[at'["target"]] = tree[at["target"]]
      BY <1>1, <1>4, <1>5
    <3> QED
      BY <1>1, <3>1 DEF DiskInv
  <2> QED
    BY <1>1, <1>6, <2>1 DEF DiskInv
<1> QED
  BY <1>1, <1>4, <1>7, RaiseKeeps DEF TypeOK

\* Whoever replaces an archive changes its signature: the command notices.
LEMMA ArchiveReplacedKeeps ==
  ASSUME SingleCommand, Inv, ArchiveReplaced
  PROVE  Inv'
<1> USE DEF Inv
<1>1. at' = at /\ tree' = tree /\ proc' = proc /\ DiskInv' /\ Staged' = Staged
  BY SameDisk DEF ArchiveReplaced, disk
<1> PICK b \in Archives, v \in Versions :
       archive' = [archive EXCEPT ![b] = [content |-> v, sig |-> archive[b].sig + 1]]
  BY DEF ArchiveReplaced
<1>2. /\ archive' \in [Archives -> [content : Versions, sig : Nat]]
      /\ \A a \in Archives : /\ archive[a].sig \in Nat /\ archive'[a].sig \in Nat
                             /\ archive[a].sig <= archive'[a].sig
                             /\ a # b => archive'[a] = archive[a]
                             /\ a = b => archive'[a].sig = archive[a].sig + 1
  <2>1. [content |-> v, sig |-> archive[b].sig + 1] \in [content : Versions, sig : Nat]
    BY DEF TypeOK
  <2> QED
    BY <2>1 DEF TypeOK
<1>3. TypeOK'
  BY <1>1, <1>2 DEF TypeOK
<1>4. ASSUME NEW p \in Procs PROVE RunInv(p)'
  <2>1. RequestInv(p)'
    BY <1>1, <1>2 DEF RunInv, RequestInv
  <2>2. proc[p].pc # "idle" => (Unchanged(p, Archives)' => Unchanged(p, Archives))
    BY <1>1, <1>2 DEF Unchanged, RunInv, RequestInv
  <2>3. ResultInv(p)' /\ StagingInv(p)' /\ EarlyInv(p)' /\ MemberInv(p)'
    BY <1>1 DEF RunInv, ResultInv, StagingInv, EarlyInv, MemberInv, Open, Complete
  <2>4. Open(p)' = Open(p) /\ Scanned(p)' = Scanned(p)
    BY <1>1 DEF Open, Scanned
  <2>5. (ListInv(p) => ListInv(p)') /\ (ChosenInv(p) => ChosenInv(p)')
    BY <1>1, <2>4 DEF ListInv, ChosenInv
  <2>6. TreeInv(p) => TreeInv(p)'
    BY <1>1, <2>4 DEF TreeInv, Selected, Chosen
  <2>7. ScanInv(p)'
    BY <1>1, <2>2, <2>5, <2>6 DEF RunInv, ScanInv, Scanning
  <2>8. BindInv(p)'
    <3>1. (MarkerValid(Staged, proc[p].req) => MarkerValid(Staged, proc[p].req)')
          /\ (Data(Staged) = Selection(proc[p].req) => (Data(Staged) = Selection(proc[p].req))')
      BY <1>1
    <3> QED
      BY <1>1, <2>2, <3>1 DEF RunInv, BindInv
  <2> QED
    BY <2>1, <2>3, <2>7, <2>8 DEF RunInv
<1> QED
  BY <1>1, <1>3, <1>4

-----------------------------------------------------------------------------
(* The theorems *)

LEMMA StepInv == SingleCommand /\ Inv /\ [Next]_vars => Inv'
<1> SUFFICES ASSUME SingleCommand, Inv, [Next]_vars PROVE Inv'
  OBVIOUS
<1>1. CASE UNCHANGED vars
  <2>1. at' = at /\ tree' = tree /\ archive' = archive /\ proc' = proc /\ Staged' = Staged
    BY <1>1 DEF vars, Staged
  <2>2. \A p : Open(p)' = Open(p) /\ Scanned(p)' = Scanned(p)
    BY <2>1 DEF Open, Scanned
  <2>3. TypeOK' /\ DiskInv'
    BY <2>1, SameDisk DEF Inv, TypeOK, disk
  <2>4. ASSUME NEW p \in Procs PROVE RunInv(p)'
    <3>1. Unchanged(p, Archives)' = Unchanged(p, Archives)
      BY <2>1 DEF Unchanged
    <3>2. (ListInv(p) => ListInv(p)') /\ (ChosenInv(p) => ChosenInv(p)')
      BY <2>1, <2>2 DEF ListInv, ChosenInv
    <3>3. TreeInv(p) => TreeInv(p)'
      BY <2>1, <2>2 DEF TreeInv, Selected, Chosen
    <3>4. RequestInv(p)' /\ ResultInv(p)' /\ StagingInv(p)' /\ EarlyInv(p)' /\ MemberInv(p)'
      BY <2>1, <2>2
         DEF Inv, RunInv, RequestInv, ResultInv, StagingInv, EarlyInv, MemberInv
    <3>5. ScanInv(p)'
      BY <2>1, <3>1, <3>2, <3>3 DEF Inv, RunInv, ScanInv
    <3>6. (MarkerValid(Staged, proc[p].req) => MarkerValid(Staged, proc[p].req)')
          /\ (Data(Staged) = Selection(proc[p].req) => (Data(Staged) = Selection(proc[p].req))')
      BY <2>1
    <3>7. BindInv(p)'
      BY <2>1, <3>1, <3>6 DEF Inv, RunInv, BindInv
    <3> QED
      BY <3>4, <3>5, <3>7 DEF RunInv
  <2> QED
    BY <2>3, <2>4 DEF Inv
<1>2. CASE ArchiveReplaced
  BY <1>2, ArchiveReplacedKeeps
<1>3. ASSUME NEW p \in Procs, Start(p) PROVE Inv'
  BY <1>3, BeginKeeps DEF Start
<1>4. ASSUME NEW p \in Procs, Step(p) PROVE Inv'
  <2>1. UNCHANGED archive
    BY <1>4 DEF Step
  <2>2. ASSUME Look(p) \/ OpenStaging(p) \/ RemoveEntry(p) \/ RemoveDir(p) \/ MakeStaging(p)
        PROVE  Inv'
    BY <2>1, <2>2, LookKeeps, OpenStagingKeeps, RemoveEntryKeeps, RemoveDirKeeps,
       MakeStagingKeeps
  <2>3. CASE Unpack(p)
    BY <2>1, <2>3, OpenArchiveKeeps, BeginCopyKeeps, EndCopyKeeps, BeginSpeakerKeeps,
       EndSpeakerKeeps, NextSpeakerKeeps, EndArchiveKeeps DEF Unpack
  <2>4. CASE Publish(p)
    BY <2>1, <2>4, BindKeeps, FillMarkerKeeps, LinkMarkerKeeps, UnlinkMarkerKeeps, RecheckKeeps,
       PromoteKeeps DEF Publish
  <2>5. CASE Return(p)
    BY <2>1, <2>5, ReturnKeeps
  <2> QED
    BY <1>4, <2>2, <2>3, <2>4, <2>5 DEF Step
<1>5. ASSUME NEW p \in Procs, Crash(p) \/ IoError(p) PROVE Inv'
  BY <1>5, CrashKeeps, IoErrorKeeps
<1> QED
  BY <1>1, <1>2, <1>3, <1>4, <1>5 DEF Next

\* The published directory has one name only, so what is put under the other one
\* does not reach it.
LEMMA TargetUntouched ==
  ASSUME TypeOK, DiskInv, at["target"] # Absent, NEW n, NEW c, Put(n, c)
  PROVE  tree'[at["target"]] = tree[at["target"]]
  BY DEF TypeOK, DiskInv, Put

LEMMA TargetStays ==
  ASSUME Inv, Next, at["target"] # Absent
  PROVE  at'["target"] = at["target"] /\ tree'[at["target"]] = tree[at["target"]]
<1> USE DEF Inv
<1>1. CASE ArchiveReplaced
  BY <1>1 DEF ArchiveReplaced, disk
<1>2. ASSUME NEW p \in Procs, Start(p) \/ Crash(p)
      PROVE  at'["target"] = at["target"] /\ tree'[at["target"]] = tree[at["target"]]
  BY <1>2 DEF Start, Begin, Crash, disk
<1>3. ASSUME NEW p \in Procs, IoError(p)
      PROVE  at'["target"] = at["target"] /\ tree'[at["target"]] = tree[at["target"]]
  BY <1>3 DEF IoError, TypeOK, DiskInv
<1>4. ASSUME NEW p \in Procs, Step(p)
      PROVE  at'["target"] = at["target"] /\ tree'[at["target"]] = tree[at["target"]]
  <2>1. CASE Look(p) \/ OpenStaging(p) \/ Return(p)
    BY <2>1 DEF Look, OpenStaging, Return, disk
  <2>2. CASE RemoveEntry(p)
    <3>1. proc[p].dir = at["staging"]
      BY <2>2 DEF RemoveEntry, At, RunInv, StagingInv
    <3> QED
      BY <2>2, <3>1 DEF RemoveEntry, TypeOK, DiskInv
  <2>3. CASE RemoveDir(p)
    BY <2>3 DEF RemoveDir, TypeOK
  <2>4. CASE MakeStaging(p)
    <3>1. CASE at["staging"] # Absent
      BY <2>4, <3>1 DEF MakeStaging, disk
    <3>2. CASE at["staging"] = Absent
      <4> PICK d \in Dirs : /\ d \notin Held
                            /\ at' = [at EXCEPT !["staging"] = d]
                            /\ tree' = [tree EXCEPT ![d] = Empty]
        BY <2>4, <3>2 DEF MakeStaging
      <4>1. at["target"] \in Held
        BY DEF Held, TypeOK
      <4> QED
        BY <4>1 DEF TypeOK
    <3> QED
      BY <3>1, <3>2
  <2>5. CASE Unpack(p)
    <3>1. /\ at' = at
          /\ tree' = tree \/ \E n \in {Scratch} \cup {Output(List(p)[proc[p].i]), Output(Member(p)),
                                                     Member(p)} : \E c : Put(n, c)
      BY <2>5 DEF Unpack, OpenArchive, BeginCopy, EndCopy, BeginSpeaker, EndSpeaker, NextSpeaker,
                  EndArchive, disk
    <3> QED
      BY <3>1, TargetUntouched
  <2>6. CASE Promote(p)
    BY <2>6 DEF Promote
  <2>7. CASE Publish(p) /\ ~Promote(p)
    <3>1. /\ at' = at
          /\ tree' = tree \/ \E n \in {Marker, MarkerTmp} : \E c : Put(n, c)
      BY <2>7 DEF Publish, Bind, FillMarker, LinkMarker, UnlinkMarker, Recheck, disk
    <3> QED
      BY <3>1, TargetUntouched
  <2> QED
    BY <1>4, <2>1, <2>2, <2>3, <2>4, <2>5, <2>6, <2>7 DEF Step
<1> QED
  BY <1>1, <1>2, <1>3, <1>4 DEF Next

\* One command at a time works on a directory that has at most one name, and the
\* archives it has read are those of its request or it notices.
THEOREM Invariance == SingleCommand /\ Spec => []Inv
<1> SUFFICES ASSUME SingleCommand PROVE Spec => []Inv
  OBVIOUS
<1>1. Init => Inv
  BY InitInv
<1>2. Inv /\ [Next]_vars => Inv'
  BY StepInv
<1> QED
  BY <1>1, <1>2, PTL DEF Spec

\* Every variable keeps its type; the members read, taken and written by a command
\* are members of the archives (aishell_extract.py, extract_aishell).
THEOREM TypeCorrect == SingleCommand /\ Spec => []TypeOK
<1>1. Inv => TypeOK
  BY DEF Inv
<1> QED
  BY <1>1, Invariance, PTL

\* "No partial tree is published under the requested output": for every content
\* of the archives, every request, and whatever crashes, failures and
\* replacements there are (extract_aishell, _promote_staging).
THEOREM PublishedIsComplete == SingleCommand /\ Spec => []PublishedComplete
<1>1. Inv => PublishedComplete
  BY DEF Inv, DiskInv, PublishedComplete
<1> QED
  BY <1>1, Invariance, PTL

\* A command that reports success reports the tree that was asked for, also when
\* it reused what another command had left (extract_aishell's result).
THEOREM ResultIsTruthful == SingleCommand /\ Spec => []ResultTruthful
<1>1. Inv => ResultTruthful
  BY DEF Inv, RunInv, ResultInv, ResultTruthful, At
<1> QED
  BY <1>1, Invariance, PTL

\* A published directory is never written, replaced or removed again: neither the
\* removal of a staging directory nor a failing copy reaches it
\* (_remove_staging, _promote_staging).
THEOREM PublishedStays == SingleCommand /\ Spec => NeverOverwritten
<1>1. Inv /\ [Next]_vars =>
        [at["target"] # Absent =>
           /\ at'["target"] = at["target"]
           /\ tree'[at["target"]] = tree[at["target"]]]_vars
  BY TargetStays
<1> QED
  BY <1>1, Invariance, PTL DEF Spec, NeverOverwritten
=============================================================================
