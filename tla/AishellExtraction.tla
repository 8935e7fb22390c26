-------------------------- MODULE AishellExtraction --------------------------
(***************************************************************************)
(* extract_aishell (evaluation/aishell_extract.py): verify the two         *)
(* archives, unpack the selected speakers into a staging directory, bind   *)
(* the tree to a marker and rename the directory to its final name.        *)
(*                                                                         *)
(* Directories survive a crash of the command.  They are known by an       *)
(* identity, since a rename moves a directory under the hands of whoever   *)
(* holds it open.  A directory maps names to contents; the content of a    *)
(* file is the version of the archive it was read from, and SHA-256 is     *)
(* injective, so digests are contents.                                     *)
(***************************************************************************)
EXTENDS Naturals, Sequences, FiniteSets, SequencesExt

CONSTANTS
  Procs,       \* invocations of the command that may run at the same time
  Versions,    \* versions of an archive
  Members,     \* the members of each archive in each version, in order
  Speakers,    \* <<split, number>>: WAV directories of one speaker
  Requests,    \* arguments: [manifest, splits, limit], limit 0 for none
  Absent,      \* no such entry
  Torn,        \* a file whose writing was interrupted
  MaxFaults,   \* model bound on crashes and failures
  MaxChanges   \* model bound on replacements of an archive

Archives == {"audio", "resources"}
Transcript == <<"file", "transcript">>
Lexicon == <<"file", "lexicon.txt">>
SpeakerInfo == <<"file", "speaker.info">>
Marker == <<"file", "marker">>
MarkerTmp == <<"file", "marker.tmp">>
Scratch == <<"file", "current-speaker">>  \* the nested archive of one speaker

Resources == {Lexicon, SpeakerInfo}
DataNames == {Transcript} \cup Resources \cup Speakers
Names == DataNames \cup {Marker, MarkerTmp, Scratch}

\* What a marker may say.
Markers == [req : Requests, tree : [DataNames -> Versions \cup {Absent, Torn}]]

ASSUME ExtractionAssumption ==
  /\ IsFiniteSet(Procs)
  /\ Speakers \subseteq {"train", "dev", "test"} \X Nat
  /\ \A v \in Versions : /\ Members["audio"][v] \in Seq({Transcript} \cup Speakers)
                         /\ Members["resources"][v] \in Seq(Resources)
  /\ Requests \subseteq [manifest : Versions, splits : (SUBSET {"dev", "test"}) \ {{}}, limit : Nat]
  /\ Absent # Torn
  /\ \A x \in {Absent, Torn} : x \notin Versions /\ x \notin Markers /\ x \notin Nat
  /\ MaxFaults \in Nat
  /\ MaxChanges \in Nat

\* Enough identities for the target, the staging directory and those that are
\* held open while they are removed.
Dirs == 1..(2 + Cardinality(Procs))

VARIABLES
  at,       \* the directory under each of the two names
  tree,     \* the entries of each directory
  archive,  \* the archives: content, and a signature that changes with it
  proc,     \* the invocations
  faults

vars == <<at, tree, archive, proc, faults>>

Empty == [n \in Names |-> Absent]

Idle ==
  [pc |-> "idle", req |-> Absent, sig |-> Absent, dir |-> Absent, reused |-> FALSE,
   a |-> "audio", i |-> 1, member |-> Absent, seen |-> {}, chosen |-> {}, last |-> [s \in {} |-> 0]]

Init ==
  /\ at = [n \in {"target", "staging"} |-> Absent]
  /\ tree = [d \in Dirs |-> Empty]
  /\ archive \in [Archives -> [content : Versions, sig : {0}]]
  /\ proc = [p \in Procs |-> Idle]
  /\ faults = 0

At(p, pc) == proc[p].pc = pc
Go(p, pc) == proc' = [proc EXCEPT ![p].pc = pc]
Raise(p) == proc' = [proc EXCEPT ![p] = Idle]

\* What is under a name now.
Staged == tree[at["staging"]]
Put(n, content) == tree' = [tree EXCEPT ![at["staging"]][n] = content]
disk == <<at, tree>>

-----------------------------------------------------------------------------
(* Validation *)

Data(t) == [n \in DataNames |-> t[n]]
Of(t, s) == {n \in Speakers : n[1] = s /\ t[n] # Absent}

\* _validate_wav: the audio of the speaker is all there.
WavsValid(t, n) == t[n] # Torn

\* _validate_tree: nothing is missing, nothing is there that should not be.
TreeValid(t, req, marked) ==
  /\ t[Scratch] = Absent /\ t[MarkerTmp] = Absent
  /\ (t[Marker] # Absent) = marked
  /\ \A n \in {Transcript} \cup Resources : t[n] # Absent
  /\ \A n \in Speakers : t[n] # Absent => n[1] \in req.splits /\ WavsValid(t, n)
  /\ \A s \in req.splits :
       /\ Of(t, s) # {}
       /\ req.limit # 0 => Cardinality(Of(t, s)) <= req.limit
  /\ \A s, u \in req.splits : \A n \in Of(t, s), k \in Of(t, u) : n[2] = k[2] => s = u

\* The marker names the manifest, the selection and the contents of the tree.
MarkerFor(t, req) == [req |-> req, tree |-> Data(t)]

\* Mutant: a marker is believed without looking at the tree.
MarkerValid_Unchecked(t, req) ==
  t[Marker] \notin {Absent, Torn} /\ t[Marker].req = req

\* Mutant: the marker is not compared with the arguments.
MarkerValid_AnyRequest(t, req) ==
  /\ t[Marker] \notin {Absent, Torn}
  /\ t[Marker].tree = Data(t)
  /\ TreeValid(t, t[Marker].req, TRUE)

\* _load_and_validate_marker.
MarkerValid(t, req) == TreeValid(t, req, TRUE) /\ t[Marker] = MarkerFor(t, req)

-----------------------------------------------------------------------------
(* Arguments, archives and what is there already *)

Sigs == [a \in Archives |-> archive[a].sig]

\* _load_download_manifest and _verify_archive: the archives have the digests in
\* the download manifest.
Begin(p) ==
  /\ At(p, "idle")
  /\ \E req \in Requests :
       IF \A a \in Archives : archive[a].content = req.manifest
       THEN proc' = [proc EXCEPT ![p] = [Idle EXCEPT !.pc = "look", !.req = req, !.sig = Sigs]]
       ELSE Raise(p)
  /\ UNCHANGED disk

\* Mutant: a staging directory that is not complete is refused.
Look_RefusesStaging(p) ==
  LET req == proc[p].req
  IN  /\ At(p, "look")
      /\ IF at["target"] # Absent
         THEN IF MarkerValid(tree[at["target"]], req)
              THEN proc' = [proc EXCEPT ![p].pc = "clear", ![p].reused = TRUE]
              ELSE Raise(p)
         ELSE IF at["staging"] = Absent THEN Go(p, "mkdir")
         ELSE IF MarkerValid(Staged, req) THEN Go(p, "promote")
         ELSE Raise(p)
      /\ UNCHANGED disk

\* Mutant: a target with another marker is rebuilt in place.
Look_RebuildsTarget(p) ==
  LET req == proc[p].req
  IN  /\ At(p, "look")
      /\ IF at["target"] # Absent
         THEN IF MarkerValid(tree[at["target"]], req)
              THEN proc' = [proc EXCEPT ![p].pc = "clear", ![p].reused = TRUE] /\ UNCHANGED at
              ELSE /\ at' = [at EXCEPT !["target"] = Absent, !["staging"] = at["target"]]
                   /\ Go(p, "clear")
         ELSE /\ Go(p, IF at["staging"] = Absent THEN "mkdir"
                       ELSE IF MarkerValid(Staged, req) THEN "promote" ELSE "clear")
              /\ UNCHANGED at
      /\ UNCHANGED tree

\* A published tree is used as it is or refused; a staging directory is
\* promoted when it is complete and removed when it is not.
Look(p) ==
  LET req == proc[p].req
  IN  /\ At(p, "look")
      /\ IF at["target"] # Absent
         THEN IF MarkerValid(tree[at["target"]], req)
              THEN proc' = [proc EXCEPT ![p].pc = "clear", ![p].reused = TRUE]
              ELSE Raise(p)
         ELSE IF at["staging"] = Absent THEN Go(p, "mkdir")
         ELSE IF MarkerValid(Staged, req) THEN Go(p, "promote")
         ELSE Go(p, "clear")
      /\ UNCHANGED disk

\* _remove_staging opens the directory and removes what it finds in it.
OpenStaging(p) ==
  /\ At(p, "clear")
  /\ IF at["staging"] = Absent
     THEN Go(p, IF proc[p].reused THEN "done" ELSE "mkdir")
     ELSE proc' = [proc EXCEPT ![p].pc = "rmtree", ![p].dir = at["staging"]]
  /\ UNCHANGED disk

RemoveEntry(p) ==
  /\ At(p, "rmtree")
  /\ \E n \in Names :
       /\ tree[proc[p].dir][n] # Absent
       /\ tree' = [tree EXCEPT ![proc[p].dir][n] = Absent]
  /\ UNCHANGED <<at, proc>>

RemoveDir(p) ==
  /\ At(p, "rmtree")
  /\ tree[proc[p].dir] = Empty
  /\ IF at["staging"] # Absent /\ Staged = Empty
     THEN /\ at' = [at EXCEPT !["staging"] = Absent]
          /\ proc' = [proc EXCEPT ![p].pc = IF proc[p].reused THEN "done" ELSE "mkdir",
                                  ![p].dir = Absent]
     ELSE UNCHANGED at /\ Raise(p)
  /\ UNCHANGED tree

Held == {at[n] : n \in DOMAIN at} \cup {proc[q].dir : q \in Procs}

MakeStaging(p) ==
  /\ At(p, "mkdir")
  /\ IF at["staging"] = Absent
     THEN /\ \E d \in Dirs : /\ \A e \in Dirs \ Held : d <= e
                             /\ d \notin Held
                             /\ at' = [at EXCEPT !["staging"] = d]
                             /\ tree' = [tree EXCEPT ![d] = Empty]
          /\ Go(p, "unpack")
     ELSE UNCHANGED disk /\ Raise(p)

-----------------------------------------------------------------------------
(* Unpacking: one archive member after the other *)

\* _assert_archive_unchanged.
Unchanged(p, as) == \A a \in as : archive[a].sig = proc[p].sig[a]

List(p) == Members[proc[p].a][archive[proc[p].a].content]
More(p) == proc[p].i <= Len(List(p))
Member(p) == proc[p].member
Chosen(p, s) == {n \in proc[p].chosen : n[1] = s}

\* Speakers are taken in archive order until their split has enough.
Selected(p, n) ==
  /\ n[1] \in proc[p].req.splits
  /\ proc[p].req.limit # 0 => Cardinality(Chosen(p, n[1])) < proc[p].req.limit

\* The archive was not replaced between its verification and its opening.
OpenArchive(p) ==
  /\ At(p, "unpack")
  /\ IF at["staging"] # Absent /\ Unchanged(p, {proc[p].a})
     THEN Go(p, "member") ELSE Raise(p)
  /\ UNCHANGED disk

\* Where a member is copied to; a speaker is an archive again.
Output(n) == IF n \in Speakers THEN Scratch ELSE n

\* _copy_member opens its output exclusively.
BeginCopy(p) ==
  LET n == List(p)[proc[p].i]
  IN  /\ At(p, "member") /\ More(p)
      /\ IF n \notin proc[p].seen /\ at["staging"] # Absent /\ Staged[Output(n)] = Absent
         THEN /\ Put(Output(n), Torn)
              /\ proc' = [proc EXCEPT ![p].pc = "copy", ![p].member = n, ![p].i = @ + 1]
         ELSE UNCHANGED tree /\ Raise(p)
      /\ UNCHANGED at

EndCopy(p) ==
  /\ At(p, "copy")
  /\ IF at["staging"] = Absent THEN UNCHANGED tree /\ Raise(p)
     ELSE /\ Put(Output(Member(p)), archive[proc[p].a].content)
          /\ proc' = [proc EXCEPT ![p].pc = IF Member(p) \in Speakers THEN "nested" ELSE "member",
                                  ![p].seen = @ \cup {Member(p)}]
  /\ UNCHANGED at

\* _extract_nested_speaker: WAV after WAV.
BeginSpeaker(p) ==
  /\ At(p, "nested")
  /\ IF ~Selected(p, Member(p)) THEN UNCHANGED tree /\ Go(p, "unscratch")
     ELSE IF at["staging"] = Absent THEN UNCHANGED tree /\ Raise(p)
     ELSE IF Staged[Member(p)] # Absent THEN UNCHANGED tree /\ Raise(p)
     ELSE Put(Member(p), Torn) /\ Go(p, "wavs")
  /\ UNCHANGED at

EndSpeaker(p) ==
  /\ At(p, "wavs")
  /\ IF at["staging"] = Absent THEN UNCHANGED tree /\ Raise(p)
     ELSE Put(Member(p), Staged[Scratch]) /\ Go(p, "unscratch")
  /\ UNCHANGED at

\* Speakers must be ordered in each split.
Ordered(p, n) == n[1] \in DOMAIN proc[p].last => proc[p].last[n[1]] < n[2]

NextSpeaker(p) ==
  LET n == Member(p)
  IN  /\ At(p, "unscratch")
      /\ IF at["staging"] = Absent THEN UNCHANGED tree ELSE Put(Scratch, Absent)
      /\ IF Ordered(p, n)
         THEN proc' = [proc EXCEPT ![p].pc = "member",
                         ![p].chosen = IF Selected(p, n) THEN @ \cup {n} ELSE @,
                         ![p].last = [s \in DOMAIN @ \cup {n[1]} |->
                                        IF s = n[1] THEN n[2] ELSE @[s]]]
         ELSE Raise(p)
      /\ UNCHANGED at

\* Nothing that was asked for is missing from the archive.
ArchiveComplete(p) ==
  IF proc[p].a = "audio"
  THEN Transcript \in proc[p].seen /\ \A s \in proc[p].req.splits : Chosen(p, s) # {}
  ELSE Resources \subseteq proc[p].seen

EndArchive(p) ==
  /\ At(p, "member") /\ ~More(p)
  /\ IF ~ArchiveComplete(p) THEN Raise(p)
     ELSE IF proc[p].a = "audio"
     THEN proc' = [proc EXCEPT ![p].pc = "unpack", ![p].a = "resources", ![p].i = 1]
     ELSE Go(p, "bind")
  /\ UNCHANGED disk

Unpack(p) ==
  OpenArchive(p) \/ BeginCopy(p) \/ EndCopy(p) \/ BeginSpeaker(p) \/ EndSpeaker(p)
  \/ NextSpeaker(p) \/ EndArchive(p)

-----------------------------------------------------------------------------
(* The marker (write_json_new) and the promotion *)

\* Neither archive changed while it was read, and the tree has its layout.
Bind(p) ==
  /\ At(p, "bind")
  /\ IF /\ Unchanged(p, Archives)
        /\ at["staging"] # Absent /\ TreeValid(Staged, proc[p].req, FALSE)
     THEN Put(MarkerTmp, Torn) /\ Go(p, "fill")
     ELSE UNCHANGED tree /\ Raise(p)
  /\ UNCHANGED at

FillMarker(p) ==
  /\ At(p, "fill")
  /\ IF at["staging"] = Absent THEN UNCHANGED tree /\ Raise(p)
     ELSE Put(MarkerTmp, MarkerFor(Staged, proc[p].req)) /\ Go(p, "link")
  /\ UNCHANGED at

LinkMarker(p) ==
  /\ At(p, "link")
  /\ IF at["staging"] = Absent \/ Staged[Marker] # Absent \/ Staged[MarkerTmp] = Absent
     THEN UNCHANGED tree /\ Raise(p)
     ELSE Put(Marker, Staged[MarkerTmp]) /\ Go(p, "unlink")
  /\ UNCHANGED at

UnlinkMarker(p) ==
  /\ At(p, "unlink")
  /\ IF at["staging"] = Absent THEN UNCHANGED tree ELSE Put(MarkerTmp, Absent)
  /\ Go(p, "recheck")
  /\ UNCHANGED at

Recheck(p) ==
  /\ At(p, "recheck")
  /\ IF at["staging"] # Absent /\ MarkerValid(Staged, proc[p].req)
     THEN Go(p, "promote") ELSE Raise(p)
  /\ UNCHANGED disk

\* _promote_staging.
Promote(p) ==
  /\ At(p, "promote")
  /\ IF at["target"] = Absent /\ at["staging"] # Absent
     THEN /\ at' = [at EXCEPT !["target"] = at["staging"], !["staging"] = Absent]
          /\ Go(p, "done")
     ELSE UNCHANGED at /\ Raise(p)
  /\ UNCHANGED tree

\* The result is returned.
Return(p) == At(p, "done") /\ Raise(p) /\ UNCHANGED disk

Publish(p) ==
  Bind(p) \/ FillMarker(p) \/ LinkMarker(p) \/ UnlinkMarker(p) \/ Recheck(p) \/ Promote(p)

Step(p) ==
  /\ Look(p) \/ OpenStaging(p) \/ RemoveEntry(p) \/ RemoveDir(p) \/ MakeStaging(p)
     \/ Unpack(p) \/ Publish(p) \/ Return(p)
  /\ UNCHANGED <<archive, faults>>

Start(p) == Begin(p) /\ UNCHANGED <<archive, faults>>

-----------------------------------------------------------------------------
(* Faults *)

\* The command is killed: what it wrote stays.
Crash(p) ==
  /\ ~At(p, "idle") /\ ~At(p, "done")
  /\ faults < MaxFaults
  /\ faults' = faults + 1
  /\ Raise(p)
  /\ UNCHANGED <<disk, archive>>

\* What a failing copy or a failing write of the marker takes back.
Unfinished(p) ==
  CASE At(p, "copy") -> {Output(Member(p))}
    [] At(p, "nested") -> {Scratch}
    [] At(p, "wavs") -> {Scratch}
    [] OTHER -> {MarkerTmp}

IoError(p) ==
  /\ proc[p].pc \in {"copy", "nested", "wavs", "fill", "link", "unlink"}
  /\ faults < MaxFaults
  /\ faults' = faults + 1
  /\ at["staging"] # Absent
  /\ tree' = [tree EXCEPT ![at["staging"]] =
                [n \in Names |-> IF n \in Unfinished(p) THEN Absent ELSE @[n]]]
  /\ Raise(p)
  /\ UNCHANGED <<at, archive>>

\* Somebody replaces an archive.
ArchiveReplaced ==
  /\ \E a \in Archives, v \in Versions :
       /\ archive[a].sig < MaxChanges
       /\ archive' = [archive EXCEPT ![a] = [content |-> v, sig |-> @.sig + 1]]
  /\ UNCHANGED <<disk, proc, faults>>

Next == ArchiveReplaced \/ \E p \in Procs : Start(p) \/ Step(p) \/ Crash(p) \/ IoError(p)

Spec == Init /\ [][Next]_vars

\* A command that runs goes on, and the operator runs it again with every
\* request.
FairSpec ==
  /\ Spec
  /\ \A p \in Procs : WF_vars(Step(p))
  /\ \A p \in Procs : SF_vars(Start(p) /\ proc'[p].pc = "look")

-----------------------------------------------------------------------------
(* Properties *)

\* The reference definition of the selection: the speakers of each requested
\* split with the smallest numbers, as many as the limit allows.
ReferenceSpeakers(req) ==
  {n \in Speakers \cap ToSet(Members["audio"][req.manifest]) :
     /\ n[1] \in req.splits
     /\ req.limit # 0 =>
          Cardinality({k \in ToSet(Members["audio"][req.manifest]) :
                         k[1] = n[1] /\ k[2] < n[2]}) < req.limit}

\* The tree a request asks for, read from the archives its manifest names.
Complete(t, req) ==
  /\ t = [n \in Names |->
            IF n \in {Transcript} \cup Resources \cup ReferenceSpeakers(req)
            THEN req.manifest
            ELSE IF n = Marker THEN t[Marker] ELSE Absent]
  /\ t[Marker] = MarkerFor(t, req)

\* "No partial tree is published under the requested output": whatever crashes,
\* failures and replaced archives came before, what is under the target's name is
\* the complete selection of one request, from one version, with its marker.
PublishedComplete ==
  at["target"] # Absent => \E req \in Requests : Complete(tree[at["target"]], req)

\* A command that reports success reports the tree that was asked for, also when
\* it reused a tree or a staging directory another command left.
ResultTruthful ==
  \A p \in Procs :
    At(p, "done") => at["target"] # Absent /\ Complete(tree[at["target"]], proc[p].req)

\* A published directory is never written, replaced or removed again.
NeverOverwritten ==
  [][at["target"] # Absent =>
       /\ at'["target"] = at["target"]
       /\ tree'[at["target"]] = tree[at["target"]]]_vars

\* Files of both kinds can be unpacked from this version.
Sound(v) ==
  LET ms == Members["audio"][v]
  IN  /\ Transcript \in ToSet(ms)
      /\ \A j, k \in 1..Len(ms) :
           j < k /\ {ms[j], ms[k]} \subseteq Speakers /\ ms[j][1] = ms[k][1] => ms[j][2] < ms[k][2]
      /\ Resources \subseteq ToSet(Members["resources"][v])

\* A staging directory left by a crash never blocks: whoever runs the command
\* again gets the tree, as long as the archives are those of a manifest.
RerunPublishes ==
  (\E v \in Versions : Sound(v) /\ <>[](\A a \in Archives : archive[a].content = v))
    => <>(at["target"] # Absent)
=============================================================================
