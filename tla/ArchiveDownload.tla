--------------------------- MODULE ArchiveDownload ---------------------------
(***************************************************************************)
(* The downloader of the AISHELL archives (scripts/download_aishell.py):   *)
(* the normal command, which downloads, resumes or verifies each archive   *)
(* and publishes a manifest, and the migration of a directory that an      *)
(* older downloader left without receipts.                                 *)
(*                                                                         *)
(* The state of the directory survives a crash, the state of the running   *)
(* command does not; every step below is one effect on the directory.      *)
(* Contents are sequences of blocks, a block is known by the version of    *)
(* the upstream object it came from, and SHA-256 is injective, so a digest *)
(* is the content itself.  ETag and Last-Modified identify the version.    *)
(***************************************************************************)
EXTENDS Naturals, Sequences

CONSTANTS
  Archives,        \* names of the archives
  Order,           \* ARCHIVES: the archives in the order they are handled
  Versions,        \* versions of an upstream object
  Size,            \* blocks in each version
  LegacyVersion,   \* the version a legacy manifest recorded
  Absent,          \* no such file
  Torn,            \* a JSON file whose writing was interrupted
  MaxFaults,       \* model bound on crashes and failures
  MaxChanges       \* model bound on changes of an upstream object

Contents == Seq(Versions)

\* What a receipt says: a JSON file is a version, a receipt or a list of records.
Receipts == [version : Versions, content : Contents, migrated : BOOLEAN]

ASSUME DownloadAssumption ==
  /\ Order \in Seq(Archives)
  /\ \A a \in Archives : \E k \in 1..Len(Order) : Order[k] = a
  /\ \A j, k \in 1..Len(Order) : Order[j] = Order[k] => j = k
  /\ Size \in [Versions -> Nat \ {0}]
  /\ LegacyVersion \in Versions
  /\ Absent \notin Versions /\ Absent \notin Contents /\ Absent \notin Receipts
  /\ MaxFaults \in Nat
  /\ MaxChanges \in Nat

VARIABLES
  upstream,  \* the version of each archive the server offers
  partial,   \* NAME.tgz.part
  archive,   \* NAME.tgz
  json,      \* every JSON file, each with its temporary sibling
  legacy,    \* there is a legacy manifest for the directory
  run,       \* the command that is running
  faults,
  changes

disk == <<partial, archive, json>>
vars == <<upstream, partial, archive, json, legacy, run, faults, changes>>

Sidecar(a) == <<"sidecar", a>>      \* NAME.tgz.part.json
Receipt(a) == <<"receipt", a>>      \* NAME.tgz.download.json
Manifest == <<"manifest", "run">>   \* download_manifest.json
Migrated == <<"manifest", "migration">>  \* the output of the migration
JsonFiles ==
  {Sidecar(a) : a \in Archives} \cup {Receipt(a) : a \in Archives} \cup {Manifest, Migrated}

File(n) == json[n].file
Tmp(n) == json[n].tmp

\* The whole object of a version.
Whole(v) == [k \in 1..Size[v] |-> v]

Idle ==
  [cmd |-> "none", pc |-> "idle", i |-> 1, probe |-> Absent, body |-> Absent,
   how |-> "none", from |-> 0, records |-> <<>>, name |-> Absent,
   payload |-> Absent, recovered |-> FALSE, then |-> "idle"]

At(pc) == run.pc = pc
Current == Order[run.i]
Busy == run.i <= Len(Order)  \* archives are left in the loop

\* What the receipt of an archive says; a migration binds it to its source.
ReceiptPayload(a, v) ==
  [version |-> v, content |-> archive[a], migrated |-> run.cmd = "migrate"]

\* The manifest's record of an archive.
Record(a) ==
  [version |-> run.probe, content |-> archive[a], how |-> run.how, from |-> run.from]

\* An exception: the command ends and leaves the directory as it is.
Raise == run' = Idle

\* A fresh directory, or one in which the old downloader completed both
\* archives, recorded them and left some sidecars behind.  An archive may have
\* been replaced since.
Init ==
  /\ upstream \in [Archives -> Versions]
  /\ partial = [a \in Archives |-> Absent]
  /\ legacy \in BOOLEAN
  /\ archive \in [Archives -> IF legacy THEN {Whole(v) : v \in Versions} ELSE {Absent}]
  /\ \E left \in IF legacy THEN SUBSET Archives ELSE {{}} :
       json = [n \in JsonFiles |->
                 [file |-> IF \E a \in left : n = Sidecar(a) THEN LegacyVersion ELSE Absent,
                  tmp |-> Absent]]
  /\ run = Idle
  /\ faults = 0
  /\ changes = 0

-----------------------------------------------------------------------------
(* _write_json_new: a temporary file, written, synced and linked into place *)

StartWrite(n, payload, then) ==
  run' = [run EXCEPT !.pc = "json", !.name = n, !.payload = payload, !.then = then]

WriteRefused ==
  /\ At("json")
  /\ File(run.name) # Absent \/ Tmp(run.name) \notin {Absent, run.payload}
  /\ Raise
  /\ UNCHANGED disk

\* A complete temporary file of the same payload is taken over.
RecoverTmp ==
  /\ At("json")
  /\ File(run.name) = Absent
  /\ Tmp(run.name) = run.payload
  /\ run' = [run EXCEPT !.pc = "promote", !.recovered = TRUE]
  /\ UNCHANGED disk

SetTmp(content) == json' = [json EXCEPT ![run.name].tmp = content]

CreateTmp ==
  /\ At("json")
  /\ File(run.name) = Absent
  /\ Tmp(run.name) = Absent
  /\ SetTmp(Torn)
  /\ run' = [run EXCEPT !.pc = "fill", !.recovered = FALSE]
  /\ UNCHANGED <<partial, archive>>

FillTmp ==
  /\ At("fill")
  /\ SetTmp(run.payload)
  /\ run' = [run EXCEPT !.pc = "promote"]
  /\ UNCHANGED <<partial, archive>>

LinkJson ==
  /\ At("promote")
  /\ json' = [json EXCEPT ![run.name].file = Tmp(run.name)]
  /\ run' = [run EXCEPT !.pc = "tidy"]
  /\ UNCHANGED <<partial, archive>>

UnlinkTmp ==
  /\ At("tidy")
  /\ SetTmp(Absent)
  /\ run' = [run EXCEPT !.pc = run.then, !.name = Absent, !.payload = Absent]
  /\ UNCHANGED <<partial, archive>>

\* An I/O error: the temporary file goes, unless it was there before.
WriteFails ==
  /\ faults < MaxFaults
  /\ faults' = faults + 1
  /\ At("fill") \/ At("promote") \/ At("tidy")
  /\ IF run.recovered THEN UNCHANGED json ELSE SetTmp(Absent)
  /\ Raise
  /\ UNCHANGED <<partial, archive>>

WriteJson == WriteRefused \/ RecoverTmp \/ CreateTmp \/ FillTmp \/ LinkJson \/ UnlinkTmp

-----------------------------------------------------------------------------
(* _download: a new archive, or the rest of one *)

\* HEAD: the validators of the version the server offers now.
Probe(a) == upstream[a]

\* Mutant: a sidecar is only accepted beside a partial file.
SidecarAgrees_WithPartial(a, v) == File(Sidecar(a)) = v /\ partial[a] # Absent

\* The sidecar, if any, was written for the version the server offers now.
SidecarAgrees(a, v) == File(Sidecar(a)) = v

PartialLength(a) == IF partial[a] = Absent THEN 0 ELSE Len(partial[a])

DownloadRefused(a, v) ==
  \/ File(Receipt(a)) # Absent
  \/ PartialLength(a) > Size[v]
  \/ File(Sidecar(a)) # Absent /\ ~SidecarAgrees(a, v)
  \/ File(Sidecar(a)) = Absent /\ partial[a] # Absent

\* The checks of what is there, and the sidecar that pins the version.
Pin ==
  LET v == Probe(Current)
      probed == [run EXCEPT !.probe = v, !.from = PartialLength(Current),
                            !.how = "downloaded"]
  IN  /\ At("archive") /\ Busy /\ archive[Current] = Absent
      /\ run' = IF DownloadRefused(Current, v) THEN Idle
                ELSE IF File(Sidecar(Current)) # Absent THEN [probed EXCEPT !.pc = "pinned"]
                ELSE [probed EXCEPT !.pc = "json", !.name = Sidecar(Current),
                                    !.payload = v, !.then = "pinned"]
      /\ UNCHANGED disk

\* Mutant: whatever the server sends is appended.
ResponseAccepted_Any(served, v) == TRUE

\* The response carries the validators of the probe, and its range continues
\* the partial file.
ResponseAccepted(served, v) == served = v

\* GET, of the rest if there is a partial file.
Get ==
  LET served == upstream[Current]
  IN  /\ At("pinned")
      /\ PartialLength(Current) < Size[run.probe]
      /\ IF ResponseAccepted(served, run.probe)
         THEN /\ partial' = [partial EXCEPT ![Current] = IF @ = Absent THEN <<>> ELSE @]
              /\ run' = [run EXCEPT !.pc = "stream", !.body = served]
         ELSE /\ Raise
              /\ UNCHANGED partial
      /\ UNCHANGED <<archive, json>>

ReadBlock ==
  /\ At("stream")
  /\ Len(partial[Current]) < Size[run.probe]
  /\ partial' = [partial EXCEPT ![Current] = Append(@, run.body)]
  /\ UNCHANGED <<archive, json, run>>

\* The last block is written and synced.
EndBody ==
  /\ At("stream")
  /\ Len(partial[Current]) = Size[run.probe]
  /\ run' = [run EXCEPT !.pc = "whole"]
  /\ UNCHANGED disk

\* The partial file was complete already.
AlreadyComplete ==
  /\ At("pinned")
  /\ PartialLength(Current) = Size[run.probe]
  /\ run' = [run EXCEPT !.pc = "whole", !.how = "promoted"]
  /\ UNCHANGED disk

\* _promote_new_file: link, then unlink.
LinkArchive ==
  /\ At("whole")
  /\ archive' = [archive EXCEPT ![Current] = partial[Current]]
  /\ run' = [run EXCEPT !.pc = "linked"]
  /\ UNCHANGED <<partial, json>>

\* Mutant: the sidecar goes together with the partial file.
UnlinkPartial_AndSidecar ==
  /\ At("linked")
  /\ partial' = [partial EXCEPT ![Current] = Absent]
  /\ json' = [json EXCEPT ![Sidecar(Current)].file = Absent]
  /\ run' = [run EXCEPT !.pc = "receipt"]
  /\ UNCHANGED archive

UnlinkPartial ==
  /\ At("linked")
  /\ partial' = [partial EXCEPT ![Current] = Absent]
  /\ run' = [run EXCEPT !.pc = "receipt"]
  /\ UNCHANGED <<archive, json>>

Download == Pin \/ Get \/ ReadBlock \/ EndBody \/ AlreadyComplete \/ LinkArchive \/ UnlinkPartial

-----------------------------------------------------------------------------
(* A receipt, and what it makes superfluous *)

\* Mutant: only the digest in the receipt is compared, not the validators.
ReceiptAgrees_AnyVersion(a, v) == File(Receipt(a)).content = archive[a]

\* _validate_receipt.
ReceiptAgrees(a, v) ==
  /\ File(Receipt(a)).version = v
  /\ File(Receipt(a)).content = archive[a]

WriteReceipt ==
  /\ At("receipt")
  /\ IF File(Receipt(Current)) = Absent
     THEN StartWrite(Receipt(Current), ReceiptPayload(Current, run.probe), "retire")
     ELSE run' = [run EXCEPT !.pc = "retire"]
  /\ UNCHANGED disk

\* The receipt is read back before the sidecar, its only other copy, goes.
RetireSidecar ==
  /\ At("retire")
  /\ IF ReceiptAgrees(Current, run.probe)
     THEN /\ json' = [json EXCEPT ![Sidecar(Current)].file = Absent]
          /\ run' = [run EXCEPT !.pc = "clean"]
     ELSE Raise /\ UNCHANGED json
  /\ UNCHANGED <<partial, archive>>

\* The end of an archive's turn.
RetirePartial ==
  /\ At("clean")
  /\ partial' = [partial EXCEPT ![Current] = Absent]
  /\ run' = [run EXCEPT !.pc = IF run.cmd = "migrate" THEN "publish" ELSE "archive",
                        !.records = Append(@, Record(Current)), !.i = @ + 1,
                        !.probe = Absent, !.body = Absent, !.how = "none", !.from = 0]
  /\ UNCHANGED <<archive, json>>

\* Mutant: an archive without a receipt is accepted beside any sidecar.
VerifyRefused_AnySidecar(a, v) ==
  \/ Len(archive[a]) # Size[v]
  \/ partial[a] \notin {Absent, archive[a]}
  \/ File(Receipt(a)) # Absent /\ ~ReceiptAgrees(a, v)
  \/ File(Receipt(a)) = Absent /\ File(Sidecar(a)) = Absent

\* _verify_completed_download: an archive that is there already.
VerifyRefused(a, v) ==
  \/ Len(archive[a]) # Size[v]
  \/ partial[a] \notin {Absent, archive[a]}
  \/ File(Receipt(a)) # Absent /\ ~ReceiptAgrees(a, v)
  \/ File(Sidecar(a)) # Absent /\ ~SidecarAgrees(a, v)
  \/ File(Receipt(a)) = Absent /\ File(Sidecar(a)) = Absent

Verify ==
  LET v == Probe(Current)
  IN  /\ At("archive") /\ Busy /\ archive[Current] # Absent
      /\ run' = IF VerifyRefused(Current, v) THEN Idle
                ELSE [run EXCEPT !.pc = "receipt", !.probe = v, !.from = Len(archive[Current]),
                                 !.how = IF File(Receipt(Current)) = Absent
                                         THEN "revalidated" ELSE "reused"]
      /\ UNCHANGED disk

\* run(): every archive has its record.
WriteManifest ==
  /\ At("archive") /\ ~Busy
  /\ StartWrite(Manifest, run.records, "idle")
  /\ UNCHANGED disk

-----------------------------------------------------------------------------
(* migrate_legacy_download_manifest *)

\* _load_legacy_download_manifest: what the old downloader recorded.
LegacyRecord == [version |-> LegacyVersion, content |-> Whole(LegacyVersion)]

\* _attest_legacy_archive: the legacy record, the server and the directory agree.
AttestRefused(a, v) ==
  \/ v # LegacyRecord.version
  \/ archive[a] # LegacyRecord.content
  \/ File(Receipt(a)) \notin {Absent, ReceiptPayload(a, v)}
  \/ Tmp(Receipt(a)) \notin {Absent, ReceiptPayload(a, v)}
  \/ File(Sidecar(a)) # Absent /\ ~SidecarAgrees(a, v)
  \/ partial[a] \notin {Absent, archive[a]}

\* Mutant: an archive's receipt is published before the next one is attested.
AfterAttest_Publish == IF Busy THEN "publish" ELSE "attest"

\* Every archive is attested before anything is written.
AfterAttest == "attest"

Attest ==
  /\ At("attest") /\ Busy
  /\ run' = IF AttestRefused(Current, Probe(Current)) THEN Idle
            ELSE [run EXCEPT !.i = IF AfterAttest = "attest" THEN @ + 1 ELSE @,
                             !.pc = AfterAttest]
  /\ UNCHANGED disk

\* The records the migration will publish.
LegacyRecords ==
  [k \in 1..Len(Order) |->
     [version |-> LegacyVersion, content |-> archive[Order[k]], how |-> "attested", from |-> 0]]

Attested ==
  /\ At("attest") /\ ~Busy
  /\ run' = IF Tmp(Migrated) \in {Absent, LegacyRecords}
            THEN [run EXCEPT !.pc = "publish", !.i = 1] ELSE Idle
  /\ UNCHANGED disk

\* _publish_legacy_archive_attestation, then the manifest.
Publish ==
  /\ At("publish")
  /\ IF Busy THEN run' = [run EXCEPT !.pc = "receipt", !.probe = LegacyVersion,
                                     !.how = "attested"]
     ELSE StartWrite(Migrated, run.records, "idle")
  /\ UNCHANGED disk

-----------------------------------------------------------------------------
Begin(cmd, output, pc) ==
  /\ At("idle")
  /\ File(output) = Absent
  /\ run' = [Idle EXCEPT !.cmd = cmd, !.pc = pc]
  /\ UNCHANGED <<disk, upstream, legacy, faults, changes>>

BeginRun == Begin("download", Manifest, "archive")
BeginMigration == legacy /\ Begin("migrate", Migrated, "attest")

\* One step of a running command.
Step ==
  /\ WriteJson \/ Download \/ WriteReceipt \/ RetireSidecar \/ RetirePartial
     \/ Verify \/ WriteManifest \/ Attest \/ Attested \/ Publish
  /\ UNCHANGED <<upstream, legacy, faults, changes>>

WriteFault == WriteFails /\ UNCHANGED <<upstream, legacy, changes>>

\* A crash, or an exception that leaves the directory as it is: the connection
\* breaks, the server refuses or sends less, a file cannot be read.
Interrupted ==
  /\ ~At("idle")
  /\ faults < MaxFaults
  /\ faults' = faults + 1
  /\ Raise
  /\ UNCHANGED <<disk, upstream, legacy, changes>>

\* The server replaces an object.
UpstreamChanges ==
  /\ changes < MaxChanges
  /\ changes' = changes + 1
  /\ \E a \in Archives, v \in Versions :
       upstream[a] # v /\ upstream' = [upstream EXCEPT ![a] = v]
  /\ UNCHANGED <<disk, legacy, run, faults>>

Next ==
  BeginRun \/ BeginMigration \/ Step \/ WriteFault \/ Interrupted \/ UpstreamChanges

Spec == Init /\ [][Next]_vars

\* A command that runs goes on, and the operator starts each command again.
FairSpec == Spec /\ WF_vars(Step) /\ SF_vars(BeginRun) /\ SF_vars(BeginMigration)

-----------------------------------------------------------------------------
(* Properties *)

\* DATA_PROTOCOL: the sidecar pins the object.  However often a download is
\* interrupted and resumed while the server replaces the object, a partial file
\* holds blocks of one version, the one in the sidecar, and a finished one that
\* was downloaded here is the whole of it.
NeverMixed ==
  \A a \in Archives :
    /\ partial[a] # Absent => \E v \in Versions :
         /\ partial[a] = SubSeq(Whole(v), 1, Len(partial[a]))
         /\ archive[a] = Absent => File(Sidecar(a)) = v
    /\ archive[a] # Absent => \E v \in Versions : archive[a] = Whole(v)

\* "Promotion retains the temporary validator until a durable receipt binds"
\* the archive: after any crash what is on the disk can still be traced to the
\* version it was downloaded from.
ValidatorRetained ==
  ~legacy =>
    \A a \in Archives :
      partial[a] # Absent \/ archive[a] # Absent =>
        File(Sidecar(a)) # Absent \/ File(Receipt(a)) # Absent

\* A receipt tells the truth: its digest is that of the archive, and the archive
\* is the whole of the version whose validators the receipt carries, or one the
\* directory's legacy sidecar vouched for.
ReceiptsTruthful ==
  \A a \in Archives :
    File(Receipt(a)) # Absent =>
      /\ File(Receipt(a)).content = archive[a]
      /\ ~legacy => archive[a] = Whole(File(Receipt(a)).version)

\* A published manifest records archives with receipts for the same content, and
\* nothing temporary is left beside them.
ManifestBacked ==
  \A n \in {Manifest, Migrated} :
    File(n) # Absent =>
      \A k \in 1..Len(Order) :
        LET a == Order[k]
        IN  /\ File(Receipt(a)) # Absent
            /\ File(n)[k].content = archive[a]
            /\ File(n)[k].version = File(Receipt(a)).version
            /\ partial[a] = Absent
            /\ File(Sidecar(a)) = Absent

\* The migration "matches both records before writing anything": one receipt of
\* a migration vouches for all the archives of the legacy manifest.
MigrationVouchesAll ==
  \A a \in Archives :
    File(Receipt(a)) # Absent /\ File(Receipt(a)).migrated =>
      \A b \in Archives : archive[b] = Whole(LegacyVersion)

\* An archive of a legacy directory that the normal command gave a receipt,
\* beside one that only the migration could attest.
HalfRun ==
  /\ legacy
  /\ \E a, b \in Archives :
       /\ \/ File(Receipt(a)) # Absent /\ ~File(Receipt(a)).migrated
          \/ Tmp(Receipt(a)) \notin {Absent, Torn} /\ ~Tmp(Receipt(a)).migrated
       /\ File(Receipt(b)) = Absent /\ File(Sidecar(b)) = Absent

\* What an operator has to repair by hand: a torn temporary file; a complete one
\* of a manifest, whose records differ when it is written again; an object that
\* is no longer offered; a half-run legacy directory.
Blocked ==
  \/ \E n \in JsonFiles : Tmp(n) = Torn /\ File(n) = Absent
  \/ Tmp(Manifest) # Absent /\ File(Manifest) = Absent
  \/ HalfRun
  \/ \E a \in Archives :
       \/ archive[a] \notin {Absent, Whole(upstream[a])}
       \/ File(Sidecar(a)) \notin {Absent, upstream[a]}
       \/ Tmp(Sidecar(a)) \notin {Absent, upstream[a]}
       \/ File(Receipt(a)) # Absent /\ File(Receipt(a)).version # upstream[a]
       \/ legacy /\ upstream[a] # LegacyVersion

\* Downloads are resumable: an operator who starts the commands again after
\* every interruption gets the manifest, unless something is left that only a
\* repair by hand can remove.
RestartsFinish == <>[](File(Manifest) # Absent \/ Blocked)

=============================================================================
