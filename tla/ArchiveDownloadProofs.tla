------------------------- MODULE ArchiveDownloadProofs -------------------------
(***************************************************************************)
(* Proofs about ArchiveDownload for any archives, versions, sizes, faults  *)
(* and changes of the server's objects.                                    *)
(*                                                                         *)
(* The properties speak of the directory between two steps of a command.   *)
(* The inductive invariant adds what the running command knows about the   *)
(* directory at each of its places.                                        *)
(***************************************************************************)
EXTENDS ArchiveDownload, TLAPS

-----------------------------------------------------------------------------
(* Types *)

Hows == {"none", "downloaded", "promoted", "revalidated", "reused", "attested"}
Records == [version : Versions, content : Contents, how : Hows, from : Nat]
Payloads == Versions \cup Receipts \cup Seq(Records)

Writing == {"json", "fill", "promote", "tidy"}
Getting == {"pinned", "stream", "whole"}
Landing == {"receipt", "retire", "clean"}
Places == {"idle", "archive", "linked", "attest", "publish"} \cup Writing \cup Getting \cup Landing

Commands ==
  [cmd : {"none", "download", "migrate"}, pc : Places, i : 1..Len(Order) + 1,
   probe : Versions \cup {Absent}, body : Versions \cup {Absent}, how : Hows,
   from : Nat, records : Seq(Records), name : JsonFiles \cup {Absent},
   payload : Payloads \cup {Absent}, recovered : BOOLEAN, then : Places]

\* The type invariant of the directory and the running command.
TypeOK ==
  /\ upstream \in [Archives -> Versions]
  /\ partial \in [Archives -> Contents \cup {Absent}]
  /\ archive \in [Archives -> Contents \cup {Absent}]
  /\ json \in [JsonFiles -> [file : Payloads \cup {Absent}, tmp : Payloads \cup {Absent, Torn}]]
  /\ legacy \in BOOLEAN
  /\ run \in Commands

-----------------------------------------------------------------------------
(* The inductive invariant *)

\* The first blocks of a version.
Prefix(s, v) == s \in Seq({v}) /\ Len(s) <= Size[v]

AllLegacy == \A b \in Archives : archive[b] = Whole(LegacyVersion)

\* A partial file and an archive of the directory.
ContentInv ==
  \A a \in Archives :
    /\ partial[a] # Absent => \E v \in Versions :
         /\ Prefix(partial[a], v)
         /\ archive[a] = Absent => File(Sidecar(a)) = v
    /\ archive[a] # Absent => \E v \in Versions : archive[a] = Whole(v)

\* What vouches for them.
VouchInv ==
  \A a \in Archives :
    /\ File(Sidecar(a)) \in Versions \cup {Absent}
    /\ File(Receipt(a)) \in Receipts \cup {Absent}
    /\ File(Receipt(a)) # Absent =>
         /\ File(Receipt(a)).content = archive[a]
         /\ ~legacy => archive[a] = Whole(File(Receipt(a)).version)
         /\ File(Receipt(a)).migrated => AllLegacy
    /\ ~legacy =>
         /\ partial[a] # Absent \/ archive[a] # Absent =>
              File(Sidecar(a)) # Absent \/ File(Receipt(a)) # Absent
         /\ archive[a] # Absent /\ File(Sidecar(a)) # Absent =>
              archive[a] = Whole(File(Sidecar(a)))

\* An archive that is done, and its record.
Backed(a, r) ==
  /\ File(Receipt(a)) # Absent
  /\ r.content = archive[a]
  /\ r.version = File(Receipt(a)).version
  /\ partial[a] = Absent
  /\ File(Sidecar(a)) = Absent

ManifestInv ==
  \A n \in {Manifest, Migrated} :
    File(n) # Absent => \A k \in 1..Len(Order) : Backed(Order[k], File(n)[k])

\* The download of an archive that is not there.
GettingInv ==
  /\ Busy /\ run.probe \in Versions
  /\ archive[Current] = Absent
  /\ File(Sidecar(Current)) = run.probe
  /\ At("stream") => run.body = run.probe /\ partial[Current] # Absent
  /\ At("whole") => partial[Current] = Whole(run.probe)

\* An archive that is there, on its way to a receipt.
Landed ==
  /\ Busy /\ run.probe \in Versions
  /\ archive[Current] # Absent
  /\ ~legacy => archive[Current] = Whole(run.probe)

PinWrite ==
  /\ Busy /\ run.probe \in Versions
  /\ run.name = Sidecar(Current) /\ run.payload = run.probe /\ run.then = "pinned"
  /\ archive[Current] = Absent /\ partial[Current] = Absent

ReceiptWrite ==
  /\ Landed
  /\ run.name = Receipt(Current) /\ run.then = "retire"
  /\ run.payload = ReceiptPayload(Current, run.probe)

ManifestWrite ==
  /\ ~Busy
  /\ run.name \in {Manifest, Migrated} /\ run.then = "idle"
  /\ run.payload = run.records

WritingInv ==
  /\ PinWrite \/ ReceiptWrite \/ ManifestWrite
  /\ run.pc \in {"fill", "promote"} => File(run.name) = Absent
  /\ At("promote") => Tmp(run.name) = run.payload
  /\ At("tidy") => File(run.name) = run.payload

\* The migration attests every archive before it writes.
MigrationInv ==
  run.cmd = "migrate" =>
    /\ legacy
    /\ At("attest") => /\ run.records = <<>>
                       /\ \A k \in 1..run.i - 1 : archive[Order[k]] = Whole(LegacyVersion)
    /\ run.pc \notin {"idle", "attest"} => AllLegacy

RecordsInv ==
  run.pc \notin {"idle", "attest"} =>
    /\ Len(run.records) = run.i - 1
    /\ \A k \in 1..run.i - 1 : Backed(Order[k], run.records[k])

\* What the command knows at its place.
RunInv ==
  /\ run.pc \in Getting => GettingInv
  /\ At("linked") => Landed /\ archive[Current] = Whole(run.probe)
                     /\ File(Sidecar(Current)) = run.probe
  /\ run.pc \in Landing => Landed
  /\ At("retire") => File(Receipt(Current)) # Absent
  /\ At("clean") => /\ File(Receipt(Current)) # Absent
                    /\ File(Receipt(Current)).version = run.probe
                    /\ File(Sidecar(Current)) = Absent
  /\ run.pc \in Writing => WritingInv
  /\ run.cmd # "migrate" => run.pc \notin {"attest", "publish"}

DiskInv == ContentInv /\ VouchInv /\ ManifestInv
Inv == TypeOK /\ DiskInv /\ RunInv /\ MigrationInv /\ RecordsInv

-----------------------------------------------------------------------------
(* Prefixes of a version *)

\* A whole version is its size of blocks of that version.
LEMMA WholeTyped ==
  ASSUME NEW v \in Versions
  PROVE  /\ Whole(v) \in Seq({v}) /\ Whole(v) \in Contents
         /\ Len(Whole(v)) = Size[v] /\ Size[v] \in Nat \ {0}
         /\ Whole(v) # Absent
<1>1. Size[v] \in Nat \ {0}
  BY DownloadAssumption
<1>2. Whole(v) \in Seq({v}) /\ Len(Whole(v)) = Size[v]
  BY <1>1 DEF Whole
<1>3. Whole(v) \in Contents
  BY <1>1 DEF Whole, Contents
<1> QED BY <1>1, <1>2, <1>3, DownloadAssumption

\* The beginning of a version is a content, and not the absence of one.
LEMMA PrefixTyped ==
  ASSUME NEW v \in Versions, NEW s, Prefix(s, v)
  PROVE  s \in Contents /\ s # Absent
<1>1. s \in Seq(Versions)
  BY DEF Prefix
<1> QED BY <1>1, DownloadAssumption DEF Contents

\* What the sidecar pins: blocks of one version are the beginning of it, ...
LEMMA PrefixOfWhole ==
  ASSUME NEW v \in Versions, NEW s, Prefix(s, v)
  PROVE  s = SubSeq(Whole(v), 1, Len(s))
<1>1. Whole(v) \in Seq({v}) /\ Len(Whole(v)) = Size[v] /\ Size[v] \in Nat
  BY WholeTyped
<1>2. s \in Seq({v}) /\ Len(s) \in Nat /\ Len(s) <= Size[v]
  BY DEF Prefix
<1>3. \A k \in 1..Len(s) : s[k] = v
  BY <1>2
<1>4. \A k \in 1..Len(s) : Whole(v)[k] = v
  BY <1>1, <1>2 DEF Whole
<1>5. /\ SubSeq(Whole(v), 1, Len(s)) \in Seq({v})
      /\ Len(SubSeq(Whole(v), 1, Len(s))) = Len(s)
      /\ \A k \in 1..Len(s) : SubSeq(Whole(v), 1, Len(s))[k] = Whole(v)[k]
  BY <1>1, <1>2
<1> QED BY <1>2, <1>3, <1>4, <1>5

\* ... and as many as it has are all of it.
LEMMA PrefixIsWhole ==
  ASSUME NEW v \in Versions, NEW s, Prefix(s, v), Len(s) = Size[v]
  PROVE  s = Whole(v)
<1>1. Whole(v) \in Seq({v}) /\ Len(Whole(v)) = Size[v] /\ Size[v] \in Nat
  BY WholeTyped
<1>2. s \in Seq({v})
  BY DEF Prefix
<1>3. \A k \in 1..Size[v] : s[k] = v /\ Whole(v)[k] = v
  BY <1>1, <1>2 DEF Whole
<1> QED BY <1>1, <1>2, <1>3

\* One block more of the same version is still its beginning.
LEMMA PrefixGrows ==
  ASSUME NEW v \in Versions, NEW s, Prefix(s, v), Len(s) < Size[v]
  PROVE  Prefix(Append(s, v), v)
<1>1. Size[v] \in Nat
  BY WholeTyped
<1>2. s \in Seq({v}) /\ Len(s) \in Nat
  BY DEF Prefix
<1>3. Append(s, v) \in Seq({v}) /\ Len(Append(s, v)) = Len(s) + 1
  BY <1>2
<1> QED BY <1>1, <1>2, <1>3 DEF Prefix

\* An empty file is the beginning of every version, ...
LEMMA EmptyPrefix == ASSUME NEW v \in Versions PROVE Prefix(<<>>, v)
<1>1. Size[v] \in Nat
  BY WholeTyped
<1> QED BY <1>1 DEF Prefix

\* ... and a whole version is its own.
LEMMA WholeIsPrefix == ASSUME NEW v \in Versions PROVE Prefix(Whole(v), v)
<1>1. Size[v] \in Nat
  BY WholeTyped
<1> QED BY <1>1, WholeTyped DEF Prefix

-----------------------------------------------------------------------------
(* Files and archives *)

\* The names of the JSON files differ.
LEMMA Names ==
  /\ \A a \in Archives : Sidecar(a) \in JsonFiles /\ Receipt(a) \in JsonFiles
  /\ Manifest \in JsonFiles /\ Migrated \in JsonFiles /\ Manifest # Migrated
  /\ \A a, b \in Archives :
       /\ Sidecar(a) # Receipt(b)
       /\ Sidecar(a) = Sidecar(b) => a = b
       /\ Receipt(a) = Receipt(b) => a = b
  /\ \A a \in Archives :
       /\ Sidecar(a) # Manifest /\ Sidecar(a) # Migrated
       /\ Receipt(a) # Manifest /\ Receipt(a) # Migrated
BY DEF Sidecar, Receipt, Manifest, Migrated, JsonFiles

\* Setting one half of one file leaves everything else.
LEMMA SetFile ==
  ASSUME TypeOK, NEW n \in JsonFiles, NEW f, json' = [json EXCEPT ![n].file = f]
  PROVE  /\ File(n)' = f
         /\ \A m \in JsonFiles : m # n => File(m)' = File(m)
         /\ \A m \in JsonFiles : Tmp(m)' = Tmp(m)
BY DEF TypeOK, File, Tmp

\* Writing a temporary name touches no other name and no final one.
LEMMA SetTemporary ==
  ASSUME TypeOK, NEW n \in JsonFiles, NEW t, json' = [json EXCEPT ![n].tmp = t]
  PROVE  /\ Tmp(n)' = t
         /\ \A m \in JsonFiles : m # n => Tmp(m)' = Tmp(m)
         /\ \A m \in JsonFiles : File(m)' = File(m)
BY DEF TypeOK, File, Tmp

\* The archive whose turn it is has not had it before.
LEMMA Turns ==
  ASSUME TypeOK, Busy
  PROVE  /\ run.i \in 1..Len(Order) /\ Current \in Archives
         /\ \A k \in 1..run.i - 1 : Order[k] # Current /\ Order[k] \in Archives
<1>1. run.i \in 1..Len(Order) + 1 /\ Len(Order) \in Nat
  BY DownloadAssumption DEF TypeOK, Commands
<1>2. run.i \in 1..Len(Order)
  BY <1>1 DEF Busy
<1>3. \A k \in 1..Len(Order) : Order[k] \in Archives
  BY DownloadAssumption
<1>4. Current \in Archives
  BY <1>2, <1>3 DEF Current
<1>5. ASSUME NEW k \in 1..run.i - 1
      PROVE  Order[k] # Current /\ Order[k] \in Archives
  <2>1. k \in 1..Len(Order) /\ k # run.i
    BY <1>1, <1>2
  <2>2. \A j, l \in 1..Len(Order) : Order[j] = Order[l] => j = l
    BY DownloadAssumption
  <2> QED BY <1>2, <1>3, <2>1, <2>2 DEF Current
<1> QED BY <1>2, <1>4, <1>5

\* After all turns every archive had one.
LEMMA AllTurns ==
  ASSUME TypeOK, ~Busy
  PROVE  /\ run.i - 1 = Len(Order)
         /\ \A a \in Archives : \E k \in 1..run.i - 1 : Order[k] = a
<1>1. run.i \in 1..Len(Order) + 1 /\ Len(Order) \in Nat
  BY DownloadAssumption DEF TypeOK, Commands
<1>2. run.i - 1 = Len(Order)
  BY <1>1 DEF Busy
<1> QED BY <1>2, DownloadAssumption

-----------------------------------------------------------------------------
(* Steps that leave the directory, or its files, as they are *)

\* The directory is judged by its final names alone.
LEMMA DiskKept ==
  ASSUME DiskInv, UNCHANGED <<partial, archive, legacy>>,
         \A n \in JsonFiles : File(n)' = File(n)
  PROVE  DiskInv'
<1>1. \A a \in Archives : File(Sidecar(a))' = File(Sidecar(a)) /\ File(Receipt(a))' = File(Receipt(a))
  BY Names
<1>2. \A n \in {Manifest, Migrated} : File(n)' = File(n)
  BY Names
<1>3. ContentInv'
  BY <1>1 DEF DiskInv, ContentInv
<1>4. VouchInv'
  BY <1>1 DEF DiskInv, VouchInv, AllLegacy
<1>5. ManifestInv'
  <2>1. ASSUME NEW n \in {Manifest, Migrated}, File(n)' # Absent, NEW k \in 1..Len(Order)
        PROVE  Backed(Order[k], File(n)[k])'
    <3>1. Order[k] \in Archives
      BY DownloadAssumption
    <3>2. Backed(Order[k], File(n)[k])
      BY <2>1, <1>2 DEF DiskInv, ManifestInv
    <3> QED BY <3>1, <3>2, <1>1, <1>2 DEF Backed
  <2> QED BY <2>1 DEF ManifestInv
<1> QED BY <1>3, <1>4, <1>5 DEF DiskInv

\* Nothing is written, so nothing changes.
LEMMA FilesKept == ASSUME UNCHANGED json PROVE \A n \in JsonFiles : File(n)' = File(n) /\ Tmp(n)' = Tmp(n)
BY DEF File, Tmp

\* A command that has ended knows nothing.
LEMMA RaiseKeeps ==
  ASSUME Raise
  PROVE  RunInv' /\ MigrationInv' /\ RecordsInv'
<1>1. run'.pc = "idle" /\ run'.cmd = "none"
  BY DEF Raise, Idle
<1>2. RunInv'
  BY <1>1 DEF RunInv, At, Getting, Landing, Writing
<1>3. MigrationInv' /\ RecordsInv'
  BY <1>1 DEF MigrationInv, RecordsInv
<1> QED BY <1>2, <1>3

\* No command runs.
LEMMA IdleTyped == Idle \in Commands
<1>1. 1 \in 1..Len(Order) + 1
  BY DownloadAssumption
<1>2. <<>> \in Seq(Records)
  OBVIOUS
<1> QED BY <1>1, <1>2 DEF Idle, Commands, Places, Hows

\* The first directory: empty, or the one an older download left.
LEMMA InitInv == Init => Inv
<1> SUFFICES ASSUME Init PROVE Inv
  OBVIOUS
<1>1. \A n \in JsonFiles : File(n) \in {Absent, LegacyVersion} /\ Tmp(n) = Absent
  BY DEF Init, File, Tmp
<1>2. /\ \A a \in Archives : File(Receipt(a)) = Absent
      /\ File(Manifest) = Absent /\ File(Migrated) = Absent
      /\ ~legacy => \A a \in Archives : File(Sidecar(a)) = Absent
  BY Names DEF Init, File
<1>3. \A a \in Archives :
        /\ partial[a] = Absent
        /\ archive[a] # Absent => \E v \in Versions : archive[a] = Whole(v)
        /\ ~legacy => archive[a] = Absent
        /\ archive[a] \in Contents \cup {Absent}
  <2> TAKE a \in Archives
  <2> DEFINE Wholes == {Whole(v) : v \in Versions}
  <2>1. archive \in [Archives -> IF legacy THEN Wholes ELSE {Absent}] /\ partial[a] = Absent
    BY DEF Init
  <2>2. CASE legacy
    <3> HIDE DEF Wholes
    <3>1. archive[a] \in Wholes
      BY <2>1, <2>2
    <3>2. \E v \in Versions : archive[a] = Whole(v)
      BY <3>1 DEF Wholes
    <3> QED BY <2>1, <2>2, <3>2, WholeTyped
  <2>3. CASE ~legacy
    <3> HIDE DEF Wholes
    <3>1. archive[a] = Absent
      BY <2>1, <2>3
    <3> QED BY <2>1, <2>3, <3>1
  <2>4. legacy \in BOOLEAN
    BY DEF Init
  <2> QED BY <2>2, <2>3, <2>4
<1>4. TypeOK
  <2>1. json \in [JsonFiles -> [file : Payloads \cup {Absent}, tmp : Payloads \cup {Absent, Torn}]]
    BY DownloadAssumption DEF Init, Payloads
  <2>2. partial \in [Archives -> Contents \cup {Absent}] /\ archive \in [Archives -> Contents \cup {Absent}]
    <3>1. archive \in [Archives -> Contents \cup {Absent}]
      <4> DEFINE S == IF legacy THEN {Whole(v) : v \in Versions} ELSE {Absent}
      <4>1. archive \in [Archives -> S]
        BY DEF Init
      <4> HIDE DEF S
      <4> QED BY <4>1, <1>3
    <3>2. partial \in [Archives -> Contents \cup {Absent}]
      BY DEF Init
    <3> QED BY <3>1, <3>2
  <2> QED BY <2>1, <2>2, IdleTyped DEF Init, TypeOK
<1>5. DiskInv
  <2>1. ContentInv
    BY <1>3 DEF ContentInv
  <2>2. VouchInv
    BY <1>1, <1>2, <1>3, Names, DownloadAssumption DEF VouchInv
  <2>3. ManifestInv
    BY <1>2 DEF ManifestInv
  <2> QED BY <2>1, <2>2, <2>3 DEF DiskInv
<1>6. run.pc = "idle" /\ run.cmd = "none"
  BY DEF Init, Idle
<1>7. RunInv /\ MigrationInv /\ RecordsInv
  BY <1>6 DEF RunInv, At, Getting, Landing, Writing, MigrationInv, RecordsInv
<1> QED BY <1>4, <1>5, <1>7 DEF Inv

-----------------------------------------------------------------------------
(* Every step keeps the types *)

\* The fields of the running command.
LEMMA RunTyped ==
  ASSUME TypeOK
  PROVE  /\ run.pc \in Places /\ run.cmd \in {"none", "download", "migrate"}
         /\ run.i \in 1..Len(Order) + 1
         /\ run.probe \in Versions \cup {Absent} /\ run.body \in Versions \cup {Absent}
         /\ run.how \in Hows /\ run.from \in Nat /\ run.records \in Seq(Records)
         /\ run.name \in JsonFiles \cup {Absent} /\ run.payload \in Payloads \cup {Absent}
         /\ run.then \in Places
BY DEF TypeOK, Commands

\* The target of a write is a JSON file and its payload a JSON value.
LEMMA WriteTyped ==
  ASSUME Inv, run.pc \in Writing
  PROVE  run.name \in JsonFiles /\ run.payload \in Payloads
<1>1. PinWrite \/ ReceiptWrite \/ ManifestWrite
  BY DEF Inv, RunInv, WritingInv
<1>2. CASE PinWrite
  BY <1>2, Names, Turns DEF PinWrite, Inv, Payloads
<1>3. CASE ReceiptWrite
  <2>1. Current \in Archives /\ Busy /\ run.probe \in Versions /\ archive[Current] # Absent
    BY <1>3, Turns DEF ReceiptWrite, Landed, Inv
  <2>2. archive[Current] \in Contents
    BY <2>1 DEF Inv, TypeOK
  <2> QED BY <1>3, <2>1, <2>2, Names DEF ReceiptWrite, ReceiptPayload, Receipts, Payloads
<1>4. CASE ManifestWrite
  BY <1>4, Names, RunTyped DEF ManifestWrite, Inv, Payloads
<1> QED BY <1>1, <1>2, <1>3, <1>4

\* A write of one name keeps the type of all of them.
LEMMA JsonTyped ==
  ASSUME TypeOK, NEW n \in JsonFiles
  PROVE  /\ \A f \in Payloads \cup {Absent} : json' = [json EXCEPT ![n].file = f] =>
              json' \in [JsonFiles -> [file : Payloads \cup {Absent}, tmp : Payloads \cup {Absent, Torn}]]
         /\ \A t \in Payloads \cup {Absent, Torn} : json' = [json EXCEPT ![n].tmp = t] =>
              json' \in [JsonFiles -> [file : Payloads \cup {Absent}, tmp : Payloads \cup {Absent, Torn}]]
<1> DEFINE F == Payloads \cup {Absent}
           T == Payloads \cup {Absent, Torn}
<1>1. json \in [JsonFiles -> [file : F, tmp : T]]
  BY DEF TypeOK
<1> HIDE DEF F, T
<1>2. ASSUME NEW f \in F, json' = [json EXCEPT ![n].file = f]
      PROVE  json' \in [JsonFiles -> [file : F, tmp : T]]
  BY <1>1, <1>2
<1>3. ASSUME NEW t \in T, json' = [json EXCEPT ![n].tmp = t]
      PROVE  json' \in [JsonFiles -> [file : F, tmp : T]]
  BY <1>1, <1>3
<1> QED BY <1>2, <1>3 DEF F, T

\* Every step keeps the types.
LEMMA TypeStep ==
  ASSUME Inv, Next
  PROVE  TypeOK'
<1> USE RunTyped
<1> DEFINE RunType == run' \in Commands
           JsonType == json' \in [JsonFiles -> [file : Payloads \cup {Absent},
                                                tmp : Payloads \cup {Absent, Torn}]]
<1>0. TypeOK /\ (Raise => RunType)
  BY IdleTyped DEF Inv, Raise
<1>1. CASE BeginRun \/ BeginMigration
  <2>1. RunType
    <3>1. {"archive", "attest"} \subseteq Places
      BY DEF Places
    <3> QED BY <1>1, <3>1, IdleTyped DEF BeginRun, BeginMigration, Begin, Commands
  <2> QED BY <1>0, <1>1, <2>1 DEF BeginRun, BeginMigration, Begin, TypeOK, disk
<1>2. CASE Interrupted
  BY <1>0, <1>2 DEF Interrupted, TypeOK, disk
<1>3. CASE UpstreamChanges
  <2>1. upstream' \in [Archives -> Versions]
    BY <1>0, <1>3 DEF UpstreamChanges, TypeOK
  <2> QED BY <1>0, <1>3, <2>1 DEF UpstreamChanges, TypeOK, disk
<1>4. CASE WriteFault
  <2>1. Raise /\ UNCHANGED <<partial, archive, upstream, legacy>> /\ (UNCHANGED json \/ SetTmp(Absent))
    BY <1>4 DEF WriteFault, WriteFails
  <2>2. run.name \in JsonFiles
    BY <1>4, WriteTyped DEF WriteFault, WriteFails, At, Writing
  <2>3. JsonType
    BY <1>0, <2>1, <2>2, JsonTyped DEF SetTmp, TypeOK
  <2> QED BY <1>0, <2>1, <2>3 DEF TypeOK
<1>5. CASE Step
  <2> SUFFICES RunType /\ JsonType
               /\ partial' \in [Archives -> Contents \cup {Absent}]
               /\ archive' \in [Archives -> Contents \cup {Absent}]
    BY <1>0, <1>5 DEF Step, TypeOK
  <2>1. CASE WriteJson
    <3>1. run.name \in JsonFiles /\ run.payload \in Payloads
      BY <2>1, WriteTyped DEF WriteJson, WriteRefused, RecoverTmp, CreateTmp, FillTmp, LinkJson, UnlinkTmp,
                              At, Writing
    <3>2. RunType /\ UNCHANGED <<partial, archive>>
      <4>1. UNCHANGED <<partial, archive>>
        BY <2>1 DEF WriteJson, WriteRefused, RecoverTmp, CreateTmp, FillTmp, LinkJson, UnlinkTmp, disk
      <4>2. {"fill", "promote", "tidy"} \subseteq Places /\ run \in Commands
        BY <1>0 DEF Places, Writing, TypeOK
      <4>3. CASE Raise
        BY <4>1, <4>3, <1>0
      <4>4. CASE RecoverTmp \/ CreateTmp
        <5>1. \E x \in {"fill", "promote"}, b \in BOOLEAN :
                run' = [run EXCEPT !.pc = x, !.recovered = b]
          BY <4>4 DEF RecoverTmp, CreateTmp
        <5>2. PICK x \in {"fill", "promote"}, b \in BOOLEAN :
                run' = [run EXCEPT !.pc = x, !.recovered = b]
          BY <5>1
        <5>3. x \in Places
          BY <4>2
        <5>4. run' \in Commands
          BY <4>2, <5>2, <5>3 DEF Commands
        <5> QED BY <4>1, <5>4
      <4>5. CASE FillTmp
        BY <4>1, <4>2, <4>5 DEF FillTmp, Commands
      <4>6. CASE LinkJson
        BY <4>1, <4>2, <4>6 DEF LinkJson, Commands
      <4>7. CASE UnlinkTmp
        <5>1. run' = [run EXCEPT !.pc = run.then, !.name = Absent, !.payload = Absent]
          BY <4>7 DEF UnlinkTmp
        <5>2. run.then \in Places
          BY <1>0
        <5> QED BY <4>1, <4>2, <5>1, <5>2 DEF Commands
      <4> QED BY <2>1, <4>1, <4>3, <4>4, <4>5, <4>6, <4>7 DEF WriteJson, WriteRefused
    <3>3. JsonType
      <4>1. CASE LinkJson
        <5>1. Tmp(run.name) = run.payload
          BY <4>1 DEF Inv, RunInv, WritingInv, LinkJson, At, Writing
        <5> QED BY <1>0, <3>1, <4>1, <5>1, JsonTyped DEF LinkJson
      <4>2. CASE UNCHANGED json
        BY <1>0, <4>2 DEF TypeOK
      <4>3. CASE CreateTmp \/ FillTmp \/ UnlinkTmp
        BY <1>0, <3>1, <4>3, JsonTyped DEF CreateTmp, FillTmp, UnlinkTmp, SetTmp
      <4> QED BY <2>1, <4>1, <4>2, <4>3 DEF WriteJson, WriteRefused, RecoverTmp, disk
    <3> QED BY <1>0, <3>2, <3>3 DEF TypeOK
  <2>2. CASE Pin \/ Verify
    <3>1. Current \in Archives
      BY <1>0, <2>2, Turns DEF Pin, Verify
    <3>2. Probe(Current) \in Versions /\ PartialLength(Current) \in Nat
      BY <1>0, <3>1 DEF TypeOK, Probe, PartialLength, Contents
    <3>3. archive[Current] # Absent => Len(archive[Current]) \in Nat
      BY <1>0, <3>1 DEF TypeOK, Contents
    <3>4. Sidecar(Current) \in JsonFiles /\ Probe(Current) \in Payloads
      BY <3>1, <3>2, Names DEF Payloads
    <3>5. RunType
      <4>1. CASE run' = Idle
        BY <4>1, IdleTyped
      <4>2. CASE Pin
        <5> DEFINE v == Probe(Current)
                   probed == [run EXCEPT !.probe = v, !.from = PartialLength(Current),
                                         !.how = "downloaded"]
        <5>1. probed \in Commands
          BY <1>0, <3>2 DEF TypeOK, Commands, Hows
        <5>2. \/ run' = Idle
              \/ run' = [probed EXCEPT !.pc = "pinned"]
              \/ run' = [probed EXCEPT !.pc = "json", !.name = Sidecar(Current),
                                       !.payload = v, !.then = "pinned"]
          BY <4>2 DEF Pin
        <5>3. v \in Payloads /\ {"pinned", "json"} \subseteq Places
          BY <3>4 DEF Places, Getting, Writing
        <5> HIDE DEF probed, v
        <5> QED BY <4>1, <5>1, <5>2, <5>3, <3>4 DEF Commands
      <4>3. CASE Verify /\ run' # Idle
        <5>1. "receipt" \in Places /\ {"revalidated", "reused"} \subseteq Hows
          BY DEF Places, Landing, Hows
        <5>2. \E h \in {"revalidated", "reused"} :
                run' = [run EXCEPT !.pc = "receipt", !.probe = Probe(Current),
                                   !.from = Len(archive[Current]), !.how = h]
          BY <4>3 DEF Verify
        <5>3. archive[Current] # Absent /\ run \in Commands
          BY <1>0, <4>3 DEF Verify, TypeOK
        <5> QED BY <3>2, <3>3, <5>1, <5>2, <5>3 DEF Commands
      <4> QED BY <2>2, <4>1, <4>2, <4>3
    <3> QED BY <1>0, <2>2, <3>5 DEF Pin, Verify, TypeOK, disk
  <2>3. CASE Get \/ ReadBlock \/ EndBody \/ AlreadyComplete \/ LinkArchive \/ UnlinkPartial
    <3>1. Busy /\ Current \in Archives /\ run.probe \in Versions
      BY <1>0, <2>3, Turns DEF Inv, RunInv, GettingInv, Landed, Get, ReadBlock, EndBody, AlreadyComplete,
                               LinkArchive, UnlinkPartial, At, Getting
    <3>2. RunType
      <4>1. CASE Get
        <5>1. upstream[Current] \in Versions /\ "stream" \in Places
          BY <1>0, <3>1 DEF TypeOK, Places, Getting
        <5> QED BY <1>0, <4>1, <5>1 DEF Get, TypeOK, Commands
      <4>2. CASE ReadBlock \/ EndBody \/ LinkArchive \/ UnlinkPartial
        <5>1. {"whole", "linked", "receipt"} \subseteq Places
          BY DEF Places, Getting, Landing
        <5> QED BY <1>0, <4>2, <5>1 DEF ReadBlock, EndBody, LinkArchive, UnlinkPartial, TypeOK, Commands
      <4>3. CASE AlreadyComplete
        <5>1. "whole" \in Places /\ "promoted" \in Hows
          BY DEF Places, Getting, Hows
        <5> QED BY <1>0, <4>3, <5>1 DEF AlreadyComplete, TypeOK, Commands
      <4> QED BY <2>3, <4>1, <4>2, <4>3
    <3>3. UNCHANGED json
      BY <2>3 DEF Get, ReadBlock, EndBody, AlreadyComplete, LinkArchive, UnlinkPartial, disk
    <3>4. partial' \in [Archives -> Contents \cup {Absent}]
      <4>1. CASE ReadBlock
        <5>1. partial[Current] \in Contents /\ run.body \in Versions
          BY <1>0, <3>1, <4>1 DEF Inv, RunInv, GettingInv, ReadBlock, At, Getting, TypeOK
        <5>2. Append(partial[Current], run.body) \in Contents
          BY <5>1 DEF Contents
        <5> QED BY <1>0, <4>1, <5>2 DEF ReadBlock, TypeOK
      <4>2. CASE Get
        <5>1. <<>> \in Contents
          BY DEF Contents
        <5> QED BY <1>0, <4>2, <5>1 DEF Get, TypeOK
      <4> QED BY <1>0, <2>3, <4>1, <4>2 DEF EndBody, AlreadyComplete, LinkArchive, UnlinkPartial, TypeOK, disk
    <3>5. archive' \in [Archives -> Contents \cup {Absent}]
      <4>1. CASE LinkArchive
        BY <1>0, <3>1, <4>1 DEF LinkArchive, TypeOK
      <4> QED BY <1>0, <2>3, <4>1 DEF Get, ReadBlock, EndBody, AlreadyComplete, UnlinkPartial, TypeOK, disk
    <3> QED BY <1>0, <3>2, <3>3, <3>4, <3>5 DEF TypeOK
  <2>4. CASE WriteReceipt \/ RetireSidecar \/ RetirePartial
    <3>1. Busy /\ Current \in Archives /\ run.probe \in Versions /\ archive[Current] # Absent
      BY <1>0, <2>4, Turns DEF Inv, RunInv, Landed, WriteReceipt, RetireSidecar, RetirePartial, At, Landing
    <3>2. archive[Current] \in Contents
      BY <1>0, <3>1 DEF TypeOK
    <3>3. Receipt(Current) \in JsonFiles /\ Sidecar(Current) \in JsonFiles
      BY <3>1, Names
    <3>4. CASE WriteReceipt
      <4>1. ReceiptPayload(Current, run.probe) \in Payloads
        BY <3>1, <3>2 DEF ReceiptPayload, Receipts, Payloads
      <4>2. RunType
        <5>1. {"json", "retire"} \subseteq Places
          BY DEF Places, Writing, Landing
        <5> QED BY <1>0, <3>3, <3>4, <4>1, <5>1 DEF WriteReceipt, StartWrite, TypeOK, Commands
      <4> QED BY <1>0, <3>4, <4>2 DEF WriteReceipt, TypeOK, disk
    <3>5. CASE RetireSidecar
      <4>1. RunType
        <5>1. "clean" \in Places
          BY DEF Places, Landing
        <5> QED BY <1>0, <3>5, <5>1 DEF RetireSidecar, TypeOK, Commands
      <4>2. JsonType
        <5>1. CASE UNCHANGED json
          BY <1>0, <5>1 DEF TypeOK
        <5> QED BY <1>0, <3>3, <3>5, <5>1, JsonTyped DEF RetireSidecar
      <4> QED BY <1>0, <3>5, <4>1, <4>2 DEF RetireSidecar, TypeOK
    <3>6. CASE RetirePartial
      <4>1. Record(Current) \in Records
        BY <1>0, <3>1, <3>2 DEF Record, Records, TypeOK
      <4>2. Append(run.records, Record(Current)) \in Seq(Records)
        BY <1>0, <4>1
      <4>3. run.i + 1 \in 1..Len(Order) + 1
        BY <1>0, <3>1, Turns, DownloadAssumption
      <4>4. RunType
        <5>1. {"publish", "archive"} \subseteq Places /\ "none" \in Hows
          BY DEF Places, Hows
        <5> DEFINE next == IF run.cmd = "migrate" THEN "publish" ELSE "archive"
        <5>2. next \in Places
          BY <5>1
        <5>3. run' = [run EXCEPT !.pc = next, !.records = Append(run.records, Record(Current)),
                                 !.i = run.i + 1, !.probe = Absent, !.body = Absent,
                                 !.how = "none", !.from = 0]
          BY <1>0, <3>6 DEF RetirePartial, TypeOK, Commands
        <5>4. run \in Commands
          BY <1>0 DEF TypeOK
        <5> HIDE DEF next
        <5> QED BY <4>2, <4>3, <5>1, <5>2, <5>3, <5>4 DEF Commands
      <4> QED BY <1>0, <3>6, <4>4 DEF RetirePartial, TypeOK
    <3> QED BY <2>4, <3>4, <3>5, <3>6
  <2>5. CASE WriteManifest \/ Publish
    <3>1. RunType
      <4>1. {"json", "idle", "receipt"} \subseteq Places /\ "attested" \in Hows
        BY DEF Places, Writing, Landing, Hows
      <4>2. run.records \in Payloads /\ run \in Commands /\ LegacyVersion \in Versions
        BY <1>0, DownloadAssumption DEF Payloads, TypeOK
      <4>3. CASE WriteManifest
        BY <4>1, <4>2, <4>3, Names DEF WriteManifest, StartWrite, Commands
      <4>4. CASE Publish /\ Busy
        <5>1. run' = [run EXCEPT !.pc = "receipt", !.probe = LegacyVersion, !.how = "attested"]
          BY <4>4 DEF Publish
        <5> QED BY <4>1, <4>2, <5>1 DEF Commands
      <4>5. CASE Publish /\ ~Busy
        <5>1. run' = [run EXCEPT !.pc = "json", !.name = Migrated,
                                 !.payload = run.records, !.then = "idle"]
          BY <4>5 DEF Publish, StartWrite
        <5> QED BY <4>1, <4>2, <5>1, Names DEF Commands
      <4> QED BY <2>5, <4>3, <4>4, <4>5
    <3> QED BY <1>0, <2>5, <3>1 DEF WriteManifest, Publish, TypeOK, disk
  <2>6. CASE Attest \/ Attested
    <3>1. RunType
      <4>1. CASE Attest
        <5>1. run.i + 1 \in 1..Len(Order) + 1
          <6>1. run.i \in 1..Len(Order) /\ Len(Order) \in Nat
            BY <1>0, <4>1, Turns, DownloadAssumption DEF Attest
          <6> QED BY <6>1
        <5>2. "attest" \in Places /\ run \in Commands
          BY <1>0 DEF Places, TypeOK
        <5>3. run' = Idle \/ run' = [run EXCEPT !.i = run.i + 1, !.pc = "attest"]
          BY <4>1, <5>2 DEF Attest, AfterAttest, Commands
        <5> QED BY <5>1, <5>2, <5>3, IdleTyped DEF Commands
      <4>2. CASE Attested
        <5>1. "publish" \in Places /\ run \in Commands /\ 1 \in 1..Len(Order) + 1
          BY <1>0, DownloadAssumption DEF Places, TypeOK
        <5> QED BY <4>2, <5>1, IdleTyped DEF Attested, Commands
      <4> QED BY <2>6, <4>1, <4>2
    <3> QED BY <1>0, <2>6, <3>1 DEF Attest, Attested, TypeOK, disk
  <2> QED BY <1>5, <2>1, <2>2, <2>3, <2>4, <2>5, <2>6 DEF Step, Download
<1> QED BY <1>1, <1>2, <1>3, <1>4, <1>5 DEF Next

-----------------------------------------------------------------------------
(* Steps of a command that change no published file *)

Rest == DiskInv /\ RunInv /\ MigrationInv /\ RecordsInv

FilesSame ==
  /\ UNCHANGED <<partial, archive, legacy>>
  /\ \A n \in JsonFiles : File(n)' = File(n)

\* Steps that leave the directory alone, ...
LEMMA QuietIsSame == ASSUME UNCHANGED <<disk, legacy>> PROVE FilesSame
BY FilesKept DEF FilesSame, disk

\* ... and those that only touch a temporary name, leave its files the same.
LEMMA TemporaryIsSame ==
  ASSUME Inv, NEW n \in JsonFiles, NEW t, json' = [json EXCEPT ![n].tmp = t],
         UNCHANGED <<partial, archive, legacy>>
  PROVE  FilesSame
BY SetTemporary DEF FilesSame, Inv

\* The same files are in the same order.
LEMMA SameKeepsDisk == ASSUME Inv, FilesSame PROVE DiskInv'
BY DiskKept DEF FilesSame, Inv

\* A command that ends early leaves a directory in order.
LEMMA EndKeeps == ASSUME Inv, FilesSame, Raise PROVE Rest'
BY SameKeepsDisk, RaiseKeeps DEF Rest

\* A command between its first archive and its end goes on to its next place.
Onward ==
  /\ run'.cmd = run.cmd /\ run'.i = run.i /\ run'.records = run.records
  /\ run.pc \notin {"idle", "attest"} /\ run'.pc \notin {"idle", "attest"}

\* With the same files, a record is backed as before.
LEMMA BackedSame ==
  ASSUME FilesSame, NEW a \in Archives, NEW r, Backed(a, r)
  PROVE  Backed(a, r)'
BY Names DEF FilesSame, Backed

\* A command that goes on with the same records keeps them backed.
LEMMA OnwardKeeps ==
  ASSUME Inv, FilesSame, Onward
  PROVE  MigrationInv' /\ RecordsInv'
<1>1. MigrationInv'
  BY DEF Inv, MigrationInv, Onward, FilesSame, At, AllLegacy
<1>2. RecordsInv'
  <2>1. Len(run.records) = run.i - 1 /\ \A k \in 1..run.i - 1 : Backed(Order[k], run.records[k])
    BY DEF Inv, RecordsInv, Onward
  <2>2. \A k \in 1..run.i - 1 : Order[k] \in Archives
    BY RunTyped, DownloadAssumption DEF Inv
  <2>3. ASSUME NEW k \in 1..run.i - 1
        PROVE  Backed(Order[k], run.records[k])'
    BY <2>1, <2>2, Names DEF Backed, FilesSame, Onward
  <2> QED BY <2>1, <2>3 DEF RecordsInv, Onward, Backed
<1> QED BY <1>1, <1>2

\* The write under way stays what it is.
LEMMA WriteSame ==
  ASSUME Inv, run.pc \in Writing, UNCHANGED <<partial, archive, legacy>>, Onward,
         run'.probe = run.probe, run'.name = run.name, run'.payload = run.payload,
         run'.then = run.then
  PROVE  (PinWrite \/ ReceiptWrite \/ ManifestWrite)'
<1>1. PinWrite \/ ReceiptWrite \/ ManifestWrite
  BY DEF Inv, RunInv, WritingInv
<1>2. PinWrite => PinWrite'
  BY DEF PinWrite, Onward, Busy, Current
<1>3. ReceiptWrite => ReceiptWrite'
  BY DEF ReceiptWrite, Landed, ReceiptPayload, Onward, Busy, Current
<1>4. ManifestWrite => ManifestWrite'
  BY DEF ManifestWrite, Onward, Busy
<1> QED BY <1>1, <1>2, <1>3, <1>4

\* At a place of a write, only the write matters.
LEMMA WritingSuffices ==
  ASSUME run'.pc \in Writing, WritingInv'
  PROVE  RunInv'
BY DEF RunInv, At, Getting, Landing, Writing

\* At these places a command has still to look at the directory.
LEMMA NothingIsKnown ==
  ASSUME run'.pc \in {"archive", "attest", "publish", "idle"},
         run'.cmd # "migrate" => run'.pc \notin {"attest", "publish"}
  PROVE  RunInv'
BY DEF RunInv, At, Getting, Landing, Writing

-----------------------------------------------------------------------------
(* The steps of a write *)

\* Until the link, a write only touches its temporary name.
LEMMA TemporarySteps ==
  ASSUME Inv, RecoverTmp \/ CreateTmp \/ FillTmp, UNCHANGED legacy
  PROVE  Rest'
<1>1. run.pc \in Writing /\ run.name \in JsonFiles
  BY WriteTyped DEF RecoverTmp, CreateTmp, FillTmp, At, Writing
<1>2. FilesSame
  BY <1>1, QuietIsSame, TemporaryIsSame DEF RecoverTmp, CreateTmp, FillTmp, SetTmp, disk
<1>3. /\ run'.cmd = run.cmd /\ run'.i = run.i /\ run'.records = run.records
      /\ run'.probe = run.probe /\ run'.name = run.name /\ run'.payload = run.payload
      /\ run'.then = run.then
  BY DEF RecoverTmp, CreateTmp, FillTmp, Inv, TypeOK, Commands
<1>4. run'.pc \in {"fill", "promote"} /\ (CreateTmp => run'.pc = "fill")
  BY DEF RecoverTmp, CreateTmp, FillTmp, Inv, TypeOK, Commands
<1>5. Onward
  BY <1>3, <1>4 DEF Onward, RecoverTmp, CreateTmp, FillTmp, At
<1>6. File(run.name) = Absent
  BY DEF RecoverTmp, CreateTmp, FillTmp, Inv, RunInv, WritingInv, At, Writing
<1>7. File(run.name)' = Absent
  BY <1>1, <1>2, <1>3, <1>6 DEF FilesSame, File
<1>8. ~CreateTmp => Tmp(run.name)' = run'.payload
  <2>1. CASE RecoverTmp
    BY <1>1, <1>3, <2>1, FilesKept DEF RecoverTmp, disk, Tmp
  <2>2. CASE FillTmp
    <3>1. PICK n \in JsonFiles : n = run.name
      BY <1>1
    <3>2. json' = [json EXCEPT ![n].tmp = run.payload] /\ TypeOK
      BY <2>2, <3>1 DEF FillTmp, SetTmp, Inv
    <3>3. Tmp(n)' = run.payload
      BY <3>2, SetTemporary
    <3> QED BY <1>3, <3>1, <3>3 DEF Tmp
  <2> QED BY <2>1, <2>2
<1>9. WritingInv'
  <2>1. (PinWrite \/ ReceiptWrite \/ ManifestWrite)'
    BY <1>1, <1>2, <1>3, <1>5, WriteSame DEF FilesSame
  <2>2. At("promote")' => ~CreateTmp
    BY <1>4 DEF At
  <2> QED BY <1>4, <1>7, <1>8, <2>1, <2>2 DEF WritingInv, At
<1> QED BY <1>2, <1>4, <1>5, <1>9, SameKeepsDisk, OnwardKeeps, WritingSuffices DEF Rest, Writing

\* The file appears whole, under a name that was free.
LEMMA LinkKeeps ==
  ASSUME Inv, LinkJson, UNCHANGED legacy
  PROVE  Rest'
<1> USE RunTyped
<1>1. run.pc \in Writing /\ At("promote") /\ WritingInv /\ TypeOK
  BY DEF LinkJson, At, Writing, Inv, RunInv
<1>2. PICK n \in JsonFiles : n = run.name
  BY <1>1, WriteTyped
<1>3. File(n) = Absent /\ Tmp(n) = run.payload
  BY <1>1, <1>2 DEF WritingInv, At
<1>4. File(n)' = run.payload /\ \A m \in JsonFiles : m # n => File(m)' = File(m)
  <2>1. json' = [json EXCEPT ![n].file = run.payload]
    BY <1>2, <1>3 DEF LinkJson
  <2> QED BY <1>1, <2>1, SetFile
<1>5. UNCHANGED <<partial, archive, legacy>>
  BY DEF LinkJson
<1>6. /\ run'.cmd = run.cmd /\ run'.i = run.i /\ run'.records = run.records
      /\ run'.probe = run.probe /\ run'.name = run.name /\ run'.payload = run.payload
      /\ run'.then = run.then /\ run'.pc = "tidy"
  BY <1>1 DEF LinkJson, TypeOK, Commands
<1>7. Onward
  BY <1>1, <1>6 DEF Onward, At
<1>8. RunInv'
  <2>1. (PinWrite \/ ReceiptWrite \/ ManifestWrite)'
    BY <1>1, <1>5, <1>6, <1>7, WriteSame
  <2>2. File(run.name)' = run'.payload
    BY <1>2, <1>4, <1>6 DEF File
  <2> QED BY <1>6, <2>1, <2>2, WritingSuffices DEF WritingInv, At, Writing
<1>9. MigrationInv'
  BY <1>5, <1>7 DEF Inv, MigrationInv, Onward, At, AllLegacy
<1>10. RecordsInv /\ DiskInv /\ MigrationInv /\ run.pc = "promote"
  BY <1>1 DEF Inv, At
<1>11. ASSUME NEW a \in Archives, NEW r, Backed(a, r), \A b \in Archives : n # Sidecar(b)
       PROVE  Backed(a, r)'
  <2>1. n # Receipt(a) /\ n # Sidecar(a)
    BY <1>3, <1>11 DEF Backed
  <2> QED BY <1>4, <1>5, <1>11, <2>1, Names DEF Backed
\* A sidecar is linked before there is anything to vouch for.
<1>12. CASE PinWrite
  <2>1. PICK c \in Archives : c = Current
    BY <1>1, <1>12, Turns DEF PinWrite
  <2>2. /\ n = Sidecar(c) /\ run.payload = run.probe /\ run.probe \in Versions
        /\ archive[c] = Absent /\ partial[c] = Absent
    BY <1>2, <1>12, <2>1 DEF PinWrite
  <2>3. \A a \in Archives : File(Receipt(a))' = File(Receipt(a))
                            /\ (a # c => File(Sidecar(a))' = File(Sidecar(a)))
    BY <1>4, <2>2, Names
  <2>4. File(Sidecar(c))' = run.probe
    BY <1>4, <2>2
  <2>5. ContentInv'
    BY <1>5, <1>10, <2>2, <2>3 DEF DiskInv, ContentInv
  <2>6. VouchInv'
    <3>1. AllLegacy' <=> AllLegacy
      BY <1>5 DEF AllLegacy
    <3>2. \A a \in Archives : File(Receipt(a)) \in Receipts \cup {Absent}
      BY <1>10 DEF DiskInv, VouchInv
    <3>3. ASSUME NEW a \in Archives
          PROVE  /\ File(Sidecar(a))' \in Versions \cup {Absent}
                 /\ ~legacy =>
                      /\ partial[a] # Absent \/ archive[a] # Absent =>
                           File(Sidecar(a))' # Absent \/ File(Receipt(a)) # Absent
                      /\ archive[a] # Absent /\ File(Sidecar(a))' # Absent =>
                           archive[a] = Whole(File(Sidecar(a))')
      <4>1. CASE a = c
        BY <2>2, <2>4, <4>1
      <4>2. CASE a # c
        BY <1>10, <2>3, <4>2 DEF DiskInv, VouchInv
      <4> QED BY <4>1, <4>2
    <3>4. \A a \in Archives : File(Receipt(a)) # Absent =>
            /\ File(Receipt(a)).content = archive[a]
            /\ ~legacy => archive[a] = Whole(File(Receipt(a)).version)
            /\ File(Receipt(a)).migrated => AllLegacy
      BY <1>10 DEF DiskInv, VouchInv
    <3> QED BY <1>5, <2>3, <3>1, <3>2, <3>3, <3>4 DEF VouchInv
  <2>7. File(Receipt(c)) = Absent
    <3>1. File(Receipt(c)) # Absent =>
            File(Receipt(c)) \in Receipts /\ File(Receipt(c)).content = archive[c]
      BY <1>10 DEF DiskInv, VouchInv
    <3> QED BY <2>2, <3>1, DownloadAssumption DEF Receipts
  <2>8. ManifestInv'
    <3>1. File(Manifest)' = File(Manifest) /\ File(Migrated)' = File(Migrated)
      BY <1>4, <2>2, Names
    <3>2. ASSUME NEW m \in {Manifest, Migrated}, File(m) # Absent
          PROVE  FALSE
      <4>1. PICK k \in 1..Len(Order) : Order[k] = c
        BY DownloadAssumption
      <4>2. Backed(c, File(m)[k])
        BY <1>10, <3>2, <4>1 DEF DiskInv, ManifestInv
      <4> QED BY <4>2, <2>7 DEF Backed
    <3> QED BY <3>1, <3>2 DEF ManifestInv
  <2>9. RecordsInv'
    <3>1. \A k \in 1..run.i - 1 : Order[k] # c /\ Order[k] \in Archives
      BY <1>1, <1>12, <2>1, Turns DEF PinWrite
    <3>2. \A k \in 1..run.i - 1 : Backed(Order[k], run.records[k])
      BY <1>10 DEF RecordsInv
    <3>3. ASSUME NEW k \in 1..run.i - 1 PROVE Backed(Order[k], run.records[k])'
      BY <1>5, <1>6, <2>3, <3>1, <3>2 DEF Backed
    <3> QED BY <1>6, <1>10, <3>3 DEF RecordsInv
  <2> QED BY <1>8, <1>9, <2>5, <2>6, <2>8, <2>9 DEF Rest, DiskInv
<1>13. ASSUME \A b \in Archives : n # Sidecar(b)
       PROVE  RecordsInv'
  <2>1. \A k \in 1..run.i - 1 : Order[k] \in Archives
    BY <1>1, DownloadAssumption
  <2>2. \A k \in 1..run.i - 1 : Backed(Order[k], run.records[k])
    BY <1>10 DEF RecordsInv
  <2>3. ASSUME NEW k \in 1..run.i - 1 PROVE Backed(Order[k], run.records[k])'
    <3>1. PICK r : r = run.records[k]
      OBVIOUS
    <3>2. Backed(Order[k], r)'
      BY <1>11, <1>13, <2>1, <2>2, <3>1
    <3> QED BY <1>6, <3>1, <3>2 DEF Backed
  <2> QED BY <1>6, <1>10, <2>3 DEF RecordsInv
\* A receipt says what the command knows.
<1>14. CASE ReceiptWrite
  <2>1. PICK c \in Archives : c = Current
    BY <1>1, <1>14, Turns DEF ReceiptWrite, Landed
  <2>2. n = Receipt(c) /\ archive[c] # Absent /\ run.probe \in Versions
        /\ (~legacy => archive[c] = Whole(run.probe))
    BY <1>2, <1>14, <2>1 DEF ReceiptWrite, Landed
  <2>3. PICK p : p = run.payload
    OBVIOUS
  <2>4. p = [version |-> run.probe, content |-> archive[c], migrated |-> run.cmd = "migrate"]
    BY <1>14, <2>1, <2>3 DEF ReceiptWrite, ReceiptPayload
  <2>5. p \in Receipts /\ p.content = archive[c] /\ p.version = run.probe
        /\ (p.migrated => run.cmd = "migrate")
    BY <1>1, <2>2, <2>4 DEF Receipts, TypeOK
  <2>6. p # Absent
    BY <2>5, DownloadAssumption
  <2>7. \A a \in Archives : File(Sidecar(a))' = File(Sidecar(a))
                            /\ (a # c => File(Receipt(a))' = File(Receipt(a)))
    BY <1>4, <2>2, Names
  <2>8. File(Receipt(c))' = p
    BY <1>4, <2>2, <2>3
  <2>9. p.migrated => AllLegacy
    BY <1>10, <2>5 DEF MigrationInv
  <2>10. ContentInv'
    BY <1>5, <1>10, <2>7 DEF DiskInv, ContentInv
  <2>11. VouchInv'
    BY <1>5, <1>10, <2>2, <2>5, <2>6, <2>7, <2>8, <2>9 DEF DiskInv, VouchInv, AllLegacy
  <2>12. ManifestInv'
    <3>1. File(Manifest)' = File(Manifest) /\ File(Migrated)' = File(Migrated)
      BY <1>4, <2>2, Names
    <3>2. ASSUME NEW m \in {Manifest, Migrated}, File(m) # Absent
          PROVE  FALSE
      <4>1. PICK k \in 1..Len(Order) : Order[k] = c
        BY DownloadAssumption
      <4>2. Backed(c, File(m)[k])
        BY <1>10, <3>2, <4>1 DEF DiskInv, ManifestInv
      <4> QED BY <4>2, <1>3, <2>2 DEF Backed
    <3> QED BY <3>1, <3>2 DEF ManifestInv
  <2>13. RecordsInv'
    BY <1>13, <2>2, Names
  <2> QED BY <1>8, <1>9, <2>10, <2>11, <2>12, <2>13 DEF Rest, DiskInv
\* A manifest is its command's records.
<1>15. CASE ManifestWrite
  <2>1. n \in {Manifest, Migrated} /\ run.payload = run.records /\ ~Busy
    BY <1>2, <1>15 DEF ManifestWrite
  <2>2. \A a \in Archives : File(Sidecar(a))' = File(Sidecar(a)) /\ File(Receipt(a))' = File(Receipt(a))
    BY <1>4, <2>1, Names
  <2>3. ContentInv' /\ VouchInv'
    BY <1>5, <1>10, <2>2 DEF DiskInv, ContentInv, VouchInv, AllLegacy
  <2>4. ManifestInv'
    <3>1. ASSUME NEW m \in {Manifest, Migrated}, File(m)' # Absent, NEW k \in 1..Len(Order)
          PROVE  Backed(Order[k], File(m)[k])'
      <4>1. Order[k] \in Archives
        BY DownloadAssumption
      <4>2. PICK r : r = File(m)'[k]
        OBVIOUS
      <4>3. Backed(Order[k], r)
        <5>1. CASE m = n
          <6>1. r = run.records[k] /\ k \in 1..run.i - 1
            BY <1>1, <1>4, <2>1, <4>2, <5>1, AllTurns
          <6> QED BY <1>10, <6>1 DEF RecordsInv
        <5>2. CASE m # n
          <6>1. File(m)' = File(m)
            BY <1>4, <3>1, <5>2, Names
          <6> QED BY <1>10, <3>1, <4>2, <6>1 DEF DiskInv, ManifestInv
        <5> QED BY <5>1, <5>2
      <4> QED BY <1>5, <2>2, <4>1, <4>2, <4>3 DEF Backed
    <3> QED BY <3>1 DEF ManifestInv
  <2>5. RecordsInv'
    BY <1>13, <2>1, Names
  <2> QED BY <1>8, <1>9, <2>3, <2>4, <2>5 DEF Rest, DiskInv
<1> QED BY <1>1, <1>12, <1>14, <1>15 DEF WritingInv

\* The write is done, and the command goes on with what it wrote.
LEMMA UnlinkKeeps ==
  ASSUME Inv, UnlinkTmp, UNCHANGED legacy
  PROVE  Rest'
<1> USE RunTyped
<1>1. run.pc = "tidy" /\ run.name \in JsonFiles /\ TypeOK
  BY WriteTyped DEF UnlinkTmp, At, Writing, Inv
<1>2. FilesSame
  BY <1>1, TemporaryIsSame DEF UnlinkTmp, SetTmp
<1>3. /\ run'.cmd = run.cmd /\ run'.i = run.i /\ run'.records = run.records
      /\ run'.probe = run.probe /\ run'.pc = run.then
  BY <1>1 DEF UnlinkTmp, TypeOK, Commands
<1>4. WritingInv /\ At("tidy")
  BY <1>1 DEF Inv, RunInv, Writing, At
<1>5. CASE PinWrite
  <2>1. run'.pc = "pinned" /\ Onward
    BY <1>1, <1>3, <1>5 DEF PinWrite, Onward
  <2>2. Current \in Archives /\ Current' = Current /\ Busy'
    BY <1>1, <1>3, <1>5, Turns DEF PinWrite, Current, Busy
  <2>3. File(Sidecar(Current)) = run.probe
    BY <1>4, <1>5 DEF WritingInv, PinWrite
  <2>4. PICK c \in Archives : c = Current
    BY <2>2
  <2>5. File(Sidecar(c))' = run.probe
    BY <1>2, <2>3, <2>4, Names DEF FilesSame
  <2>6. GettingInv'
    BY <1>2, <1>3, <1>5, <2>1, <2>2, <2>4, <2>5 DEF GettingInv, PinWrite, FilesSame, At, File
  <2>7. RunInv'
    BY <2>1, <2>6 DEF RunInv, At, Getting, Landing, Writing
  <2> QED BY <1>2, <2>1, <2>7, SameKeepsDisk, OnwardKeeps DEF Rest
<1>6. CASE ReceiptWrite
  <2>1. run'.pc = "retire" /\ Onward
    BY <1>1, <1>3, <1>6 DEF ReceiptWrite, Onward
  <2>2. PICK c \in Archives : c = Current
    BY <1>1, <1>6, Turns DEF ReceiptWrite, Landed
  <2>3. Current' = Current /\ Busy'
    BY <1>3, <1>6 DEF ReceiptWrite, Landed, Current, Busy
  <2>4. File(Receipt(c)) = run.payload
    BY <1>4, <1>6, <2>2 DEF WritingInv, ReceiptWrite
  <2>5. run.payload # Absent
    <3>1. archive[c] \in Contents /\ run.probe \in Versions
      BY <1>1, <1>6, <2>2 DEF ReceiptWrite, Landed, TypeOK
    <3>2. run.payload \in Receipts
      BY <1>6, <2>2, <3>1 DEF ReceiptWrite, ReceiptPayload, Receipts
    <3> QED BY <3>2, DownloadAssumption
  <2>6. File(Receipt(c))' # Absent
    BY <1>2, <2>4, <2>5, Names DEF FilesSame
  <2>7. Landed'
    BY <1>2, <1>3, <1>6, <2>3 DEF ReceiptWrite, Landed, FilesSame
  <2>8. RunInv'
    BY <2>1, <2>2, <2>3, <2>6, <2>7 DEF RunInv, At, Getting, Landing, Writing, File
  <2> QED BY <1>2, <2>1, <2>8, SameKeepsDisk, OnwardKeeps DEF Rest
<1>7. CASE ManifestWrite
  <2>1. run'.pc = "idle"
    BY <1>3, <1>7 DEF ManifestWrite
  <2>2. RunInv' /\ RecordsInv'
    BY <2>1, NothingIsKnown DEF RecordsInv
  <2>3. MigrationInv'
    BY <1>2, <1>3, <2>1 DEF MigrationInv, FilesSame, At, Inv
  <2> QED BY <1>2, <2>2, <2>3, SameKeepsDisk DEF Rest
<1> QED BY <1>4, <1>5, <1>6, <1>7 DEF WritingInv

-----------------------------------------------------------------------------
(* The steps of a download *)

\* The command knows what it pins.
LEMMA PinKeeps ==
  ASSUME Inv, Pin, UNCHANGED legacy
  PROVE  Rest'
<1> USE RunTyped
<1>1. TypeOK /\ run.pc = "archive" /\ Busy /\ archive[Current] = Absent /\ FilesSame /\ UNCHANGED disk
  BY QuietIsSame DEF Pin, At, Inv
<1>2. PICK c \in Archives : c = Current
  BY <1>1, Turns
<1>3. PICK v \in Versions : v = Probe(Current)
  BY <1>1, <1>2 DEF Probe, TypeOK
<1>4. CASE Raise
  BY <1>1, <1>4, EndKeeps
<1>5. CASE ~Raise
  <2> DEFINE probed == [run EXCEPT !.probe = v, !.from = PartialLength(Current), !.how = "downloaded"]
  <2>1. ~DownloadRefused(c, v)
    BY <1>2, <1>3, <1>5 DEF Pin, Raise
  <2>2. run' = IF File(Sidecar(c)) # Absent THEN [probed EXCEPT !.pc = "pinned"]
               ELSE [probed EXCEPT !.pc = "json", !.name = Sidecar(c), !.payload = v, !.then = "pinned"]
    BY <1>2, <1>3, <2>1 DEF Pin
  <2>3. /\ run'.cmd = run.cmd /\ run'.i = run.i /\ run'.records = run.records /\ run'.probe = v
        /\ run'.pc = IF File(Sidecar(c)) # Absent THEN "pinned" ELSE "json"
        /\ File(Sidecar(c)) = Absent =>
             run'.name = Sidecar(c) /\ run'.payload = v /\ run'.then = "pinned"
    BY <1>1, <2>2 DEF TypeOK, Commands
  <2>4. Onward
    BY <1>1, <2>3 DEF Onward
  <2>5. Current' = c /\ Busy' /\ File(Sidecar(c))' = File(Sidecar(c)) /\ archive'[c] = Absent
    BY <1>1, <1>2, <2>3, Names DEF Current, Busy, FilesSame
  <2>6. CASE File(Sidecar(c)) # Absent
    <3>1. File(Sidecar(c)) = v
      BY <2>1, <2>6 DEF DownloadRefused, SidecarAgrees
    <3>2. GettingInv'
      BY <2>3, <2>5, <2>6, <3>1 DEF GettingInv, At, File
    <3>3. RunInv'
      BY <2>3, <2>6, <3>2 DEF RunInv, At, Getting, Landing, Writing
    <3> QED BY <1>1, <2>4, <3>3, SameKeepsDisk, OnwardKeeps DEF Rest
  <2>7. CASE File(Sidecar(c)) = Absent
    <3>1. partial[c] = Absent
      BY <2>1, <2>7 DEF DownloadRefused
    <3>2. PinWrite'
      BY <1>1, <2>3, <2>5, <2>7, <3>1 DEF PinWrite, FilesSame
    <3>3. RunInv'
      BY <2>3, <2>7, <3>2, WritingSuffices DEF WritingInv, Writing, At
    <3> QED BY <1>1, <2>4, <3>3, SameKeepsDisk, OnwardKeeps DEF Rest
  <2> QED BY <2>6, <2>7
<1> QED BY <1>4, <1>5

\* What a download has of its archive is a beginning of the version it pinned.
LEMMA GettingPrefix ==
  ASSUME Inv, run.pc \in Getting, NEW c \in Archives, c = Current, partial[c] # Absent
  PROVE  Prefix(partial[c], run.probe)
<1>1. GettingInv
  BY DEF Inv, RunInv
<1>2. PICK v \in Versions : Prefix(partial[c], v) /\ (archive[c] = Absent => File(Sidecar(c)) = v)
  BY DEF Inv, DiskInv, ContentInv
<1> QED BY <1>1, <1>2 DEF GettingInv

\* A body of the pinned length is complete, and any other ends the command.
LEMMA CompleteKeeps ==
  ASSUME Inv, EndBody \/ AlreadyComplete, UNCHANGED legacy
  PROVE  Rest'
<1> USE RunTyped
<1>1. TypeOK /\ run.pc \in Getting /\ FilesSame /\ GettingInv /\ UNCHANGED disk /\ run.pc \notin {"idle", "attest"}
  BY QuietIsSame DEF EndBody, AlreadyComplete, At, Inv, RunInv, Getting
<1>2. PICK c \in Archives : c = Current
  BY <1>1, Turns DEF GettingInv
<1>3. partial[c] # Absent /\ Len(partial[c]) = Size[run.probe] /\ run.probe \in Versions
  <2>1. Size[run.probe] # 0
    BY <1>1, WholeTyped DEF GettingInv
  <2> QED BY <1>1, <1>2, <2>1 DEF EndBody, AlreadyComplete, PartialLength, GettingInv
<1>4. partial[c] = Whole(run.probe)
  BY <1>1, <1>2, <1>3, GettingPrefix, PrefixIsWhole
<1>5. /\ run'.cmd = run.cmd /\ run'.i = run.i /\ run'.records = run.records /\ run'.probe = run.probe
      /\ run'.pc = "whole"
  BY <1>1 DEF EndBody, AlreadyComplete, TypeOK, Commands
<1>6. Onward
  BY <1>1, <1>5 DEF Onward
<1>7. Current' = c /\ Busy' /\ File(Sidecar(c))' = File(Sidecar(c)) /\ archive'[c] = Absent
  BY <1>1, <1>2, <1>5, Names DEF Current, Busy, FilesSame, GettingInv
<1>8. GettingInv'
  BY <1>1, <1>2, <1>4, <1>5, <1>7 DEF GettingInv, At, File, FilesSame
<1>9. RunInv'
  BY <1>5, <1>8 DEF RunInv, At, Getting, Landing, Writing
<1> QED BY <1>1, <1>6, <1>9, SameKeepsDisk, OnwardKeeps DEF Rest

\* An archive that is not there has no receipt and no manifest.
LEMMA NoReceipt ==
  ASSUME Inv, NEW c \in Archives, archive[c] = Absent
  PROVE  File(Receipt(c)) = Absent /\ \A n \in {Manifest, Migrated} : File(n) = Absent
<1>1. File(Receipt(c)) # Absent =>
        File(Receipt(c)) \in Receipts /\ File(Receipt(c)).content = archive[c]
  BY DEF Inv, DiskInv, VouchInv
<1>2. File(Receipt(c)) = Absent
  BY <1>1, DownloadAssumption DEF Receipts
<1>3. ASSUME NEW n \in {Manifest, Migrated}, File(n) # Absent PROVE FALSE
  <2>1. PICK k \in 1..Len(Order) : Order[k] = c
    BY DownloadAssumption
  <2>2. Backed(c, File(n)[k])
    BY <1>3, <2>1 DEF Inv, DiskInv, ManifestInv
  <2> QED BY <1>2, <2>2 DEF Backed
<1> QED BY <1>2, <1>3

\* The records are of the archives before the current one.
LEMMA RecordsElsewhere ==
  ASSUME Inv, Busy, Onward, NEW c, c = Current,
         \A a \in Archives \ {c} :
           /\ partial'[a] = partial[a] /\ archive'[a] = archive[a]
           /\ File(Receipt(a))' = File(Receipt(a)) /\ File(Sidecar(a))' = File(Sidecar(a))
  PROVE  RecordsInv'
<1>1. Len(run.records) = run.i - 1 /\ \A k \in 1..run.i - 1 : Backed(Order[k], run.records[k])
  BY DEF Inv, RecordsInv, Onward
<1>2. \A k \in 1..run.i - 1 : Order[k] # c /\ Order[k] \in Archives
  BY Turns DEF Inv
<1>3. ASSUME NEW k \in 1..run.i - 1 PROVE Backed(Order[k], run.records[k])'
  BY <1>1, <1>2 DEF Backed, Onward
<1> QED BY <1>1, <1>3 DEF RecordsInv, Onward

\* A response is accepted only for the pinned version, from the byte asked for.
LEMMA GetKeeps ==
  ASSUME Inv, Get, UNCHANGED legacy
  PROVE  Rest'
<1> USE RunTyped
<1>1. TypeOK /\ run.pc = "pinned" /\ GettingInv /\ UNCHANGED <<archive, json>>
  BY DEF Get, At, Inv, RunInv, Getting
<1>2. PICK c \in Archives : c = Current
  BY <1>1, Turns DEF GettingInv
<1>3. CASE upstream[c] # run.probe
  <2>1. Raise /\ UNCHANGED partial
    BY <1>2, <1>3 DEF Get, ResponseAccepted
  <2> QED BY <1>1, <2>1, EndKeeps, QuietIsSame DEF disk
<1>4. CASE upstream[c] = run.probe
  <2>1. /\ partial' = [partial EXCEPT ![c] = IF partial[c] = Absent THEN <<>> ELSE partial[c]]
        /\ run' = [run EXCEPT !.pc = "stream", !.body = run.probe]
    BY <1>2, <1>4 DEF Get, ResponseAccepted
  <2>2. /\ run'.cmd = run.cmd /\ run'.i = run.i /\ run'.records = run.records /\ run'.probe = run.probe
        /\ run'.pc = "stream" /\ run'.body = run.probe
    BY <1>1, <2>1 DEF TypeOK, Commands
  <2>3. /\ \A a \in Archives \ {c} : partial'[a] = partial[a]
        /\ partial'[c] = IF partial[c] = Absent THEN <<>> ELSE partial[c]
    BY <1>1, <2>1 DEF TypeOK
  <2>4. Prefix(partial'[c], run.probe) /\ partial'[c] # Absent /\ run.probe \in Versions
    <3>1. run.probe \in Versions
      BY <1>1 DEF GettingInv
    <3>2. <<>> # Absent
      BY <3>1, EmptyPrefix, PrefixTyped
    <3>3. Prefix(partial'[c], run.probe)
      BY <1>1, <1>2, <2>3, <3>1, EmptyPrefix, GettingPrefix DEF Getting
    <3> QED BY <2>3, <3>1, <3>2, <3>3
  <2>5. \A n \in JsonFiles : File(n)' = File(n)
    BY <1>1, FilesKept
  <2>6. \A a \in Archives : File(Sidecar(a))' = File(Sidecar(a)) /\ File(Receipt(a))' = File(Receipt(a))
    BY <2>5, Names
  <2>7. File(Sidecar(c)) = run.probe /\ archive[c] = Absent
    BY <1>1, <1>2 DEF GettingInv
  <2>8. ContentInv'
    BY <1>1, <2>3, <2>4, <2>6, <2>7 DEF Inv, DiskInv, ContentInv
  <2>9. VouchInv'
    <3>1. AllLegacy' <=> AllLegacy
      BY <1>1 DEF AllLegacy
    <3>2. File(Sidecar(c)) # Absent
      BY <2>4, <2>7, DownloadAssumption
    <3> QED BY <1>1, <2>3, <2>6, <3>1, <3>2 DEF Inv, DiskInv, VouchInv
  <2>10. ManifestInv'
    BY <2>5, <2>7, NoReceipt, Names DEF ManifestInv
  <2>11. Onward
    BY <1>1, <2>2 DEF Onward
  <2>12. RecordsInv'
    BY <1>1, <1>2, <2>3, <2>6, <2>11, RecordsElsewhere DEF GettingInv
  <2>13. MigrationInv'
    BY <1>1, <2>11 DEF Inv, MigrationInv, Onward, At, AllLegacy
  <2>14. GettingInv'
    BY <1>1, <1>2, <2>2, <2>4, <2>6 DEF GettingInv, Current, Busy, At, File
  <2>15. RunInv'
    BY <2>2, <2>14 DEF RunInv, At, Getting, Landing, Writing
  <2> QED BY <2>8, <2>9, <2>10, <2>12, <2>13, <2>15 DEF Rest, DiskInv
<1> QED BY <1>3, <1>4

\* A block of the body is a block of the pinned version.
LEMMA ReadKeeps ==
  ASSUME Inv, ReadBlock, UNCHANGED legacy
  PROVE  Rest'
<1>1. TypeOK /\ run.pc = "stream" /\ GettingInv /\ UNCHANGED <<archive, json, run>>
      /\ At("stream")
  BY DEF ReadBlock, At, Inv, RunInv, Getting
<1>2. PICK c \in Archives : c = Current
  BY <1>1, Turns DEF GettingInv
<1>3. run.body = run.probe /\ partial[c] # Absent /\ run.probe \in Versions
  BY <1>1, <1>2 DEF GettingInv
<1>4. /\ \A a \in Archives \ {c} : partial'[a] = partial[a]
      /\ partial'[c] = Append(partial[c], run.probe)
  BY <1>1, <1>2, <1>3 DEF ReadBlock, TypeOK
<1>5. Prefix(partial'[c], run.probe)
  <2>1. Prefix(partial[c], run.probe) /\ Len(partial[c]) < Size[run.probe]
    BY <1>1, <1>2, <1>3, GettingPrefix DEF ReadBlock, Getting
  <2> QED BY <1>3, <1>4, <2>1, PrefixGrows
<1>6. partial'[c] # Absent
  BY <1>3, <1>5, PrefixTyped
<1>7. \A n \in JsonFiles : File(n)' = File(n)
  BY <1>1, FilesKept
<1>8. \A a \in Archives : File(Sidecar(a))' = File(Sidecar(a)) /\ File(Receipt(a))' = File(Receipt(a))
  BY <1>7, Names
<1>9. File(Sidecar(c)) = run.probe /\ archive[c] = Absent
  BY <1>1, <1>2 DEF GettingInv
<1>10. ContentInv'
  BY <1>1, <1>3, <1>4, <1>5, <1>8, <1>9 DEF Inv, DiskInv, ContentInv
<1>11. VouchInv'
  <2>1. AllLegacy' <=> AllLegacy
    BY <1>1 DEF AllLegacy
  <2> QED BY <1>1, <1>3, <1>4, <1>8, <2>1 DEF Inv, DiskInv, VouchInv
<1>12. ManifestInv'
  BY <1>7, <1>9, NoReceipt, Names DEF ManifestInv
<1>13. Onward
  BY <1>1 DEF Onward
<1>14. RecordsInv'
  BY <1>1, <1>2, <1>4, <1>8, <1>13, RecordsElsewhere DEF GettingInv
<1>15. MigrationInv'
  BY <1>1 DEF Inv, MigrationInv, At, AllLegacy
<1>16. GettingInv'
  BY <1>1, <1>2, <1>6 DEF GettingInv, Current, Busy, At, File
<1>17. RunInv'
  BY <1>1, <1>16 DEF RunInv, At, Getting, Landing, Writing
<1> QED BY <1>10, <1>11, <1>12, <1>14, <1>15, <1>17 DEF Rest, DiskInv

\* The archive appears whole under a name that was free.
LEMMA PromoteKeeps ==
  ASSUME Inv, LinkArchive, UNCHANGED legacy
  PROVE  Rest'
<1>1. TypeOK /\ run.pc = "whole" /\ GettingInv /\ UNCHANGED <<partial, json>> /\ At("whole")
  BY DEF LinkArchive, At, Inv, RunInv, Getting
<1>2. PICK c \in Archives : c = Current
  BY <1>1, Turns DEF GettingInv
<1>3. /\ partial[c] = Whole(run.probe) /\ run.probe \in Versions
      /\ File(Sidecar(c)) = run.probe /\ archive[c] = Absent
  BY <1>1, <1>2 DEF GettingInv
<1>4. /\ \A a \in Archives \ {c} : archive'[a] = archive[a]
      /\ archive'[c] = Whole(run.probe)
  BY <1>1, <1>2, <1>3 DEF LinkArchive, TypeOK
<1>5. Whole(run.probe) # Absent /\ run.probe # Absent
  BY <1>3, WholeTyped, DownloadAssumption
<1>6. \A n \in JsonFiles : File(n)' = File(n)
  BY <1>1, FilesKept
<1>7. \A a \in Archives : File(Sidecar(a))' = File(Sidecar(a)) /\ File(Receipt(a))' = File(Receipt(a))
  BY <1>6, Names
<1>8. File(Receipt(c)) = Absent
  BY <1>3, NoReceipt
<1>9. ContentInv'
  BY <1>1, <1>3, <1>4, <1>7 DEF Inv, DiskInv, ContentInv
<1>10. AllLegacy => FALSE
  BY <1>3, WholeTyped, DownloadAssumption DEF AllLegacy
<1>11. VouchInv'
  <2>1. ASSUME NEW a \in Archives, a # c, File(Receipt(a))' # Absent
        PROVE  /\ File(Receipt(a))'.content = archive'[a]
               /\ ~legacy' => archive'[a] = Whole(File(Receipt(a))'.version)
               /\ ~File(Receipt(a))'.migrated
    BY <1>4, <1>7, <1>10, <2>1 DEF Inv, DiskInv, VouchInv
  <2>2. ASSUME NEW a \in Archives, ~legacy'
        PROVE  /\ partial'[a] # Absent \/ archive'[a] # Absent =>
                    File(Sidecar(a))' # Absent \/ File(Receipt(a))' # Absent
               /\ archive'[a] # Absent /\ File(Sidecar(a))' # Absent =>
                    archive'[a] = Whole(File(Sidecar(a))')
    <3>1. CASE a = c
      BY <1>3, <1>4, <1>5, <1>7, <3>1
    <3>2. CASE a # c
      BY <1>1, <1>4, <1>7, <2>2, <3>2 DEF Inv, DiskInv, VouchInv
    <3> QED BY <3>1, <3>2
  <2>3. \A a \in Archives : /\ File(Sidecar(a))' \in Versions \cup {Absent}
                            /\ File(Receipt(a))' \in Receipts \cup {Absent}
    BY <1>7 DEF Inv, DiskInv, VouchInv
  <2> QED BY <1>7, <1>8, <2>1, <2>2, <2>3 DEF VouchInv
<1>12. ManifestInv'
  BY <1>3, <1>6, NoReceipt, Names DEF ManifestInv
<1>13. /\ run'.cmd = run.cmd /\ run'.i = run.i /\ run'.records = run.records /\ run'.probe = run.probe
       /\ run'.pc = "linked"
  BY <1>1 DEF LinkArchive, TypeOK, Commands
<1>14. Onward
  BY <1>1, <1>13 DEF Onward
<1>15. RecordsInv'
  BY <1>1, <1>2, <1>4, <1>7, <1>14, RecordsElsewhere DEF GettingInv
<1>16. MigrationInv'
  <2>1. run.cmd # "migrate"
    BY <1>1, <1>10 DEF Inv, MigrationInv
  <2> QED BY <1>13, <2>1 DEF MigrationInv
<1>17. Current' = c /\ Busy'
  BY <1>1, <1>2, <1>13 DEF GettingInv, Current, Busy
<1>18. RunInv'
  <2>1. Landed' /\ archive'[c] = Whole(run'.probe) /\ File(Sidecar(c))' = run'.probe
    BY <1>3, <1>4, <1>5, <1>7, <1>13, <1>17 DEF Landed
  <2> QED BY <1>13, <1>17, <2>1 DEF RunInv, At, Getting, Landing, Writing, File
<1> QED BY <1>9, <1>11, <1>12, <1>15, <1>16, <1>18 DEF Rest, DiskInv

\* The partial name goes, the sidecar stays until there is a receipt.
LEMMA UnlinkPartialKeeps ==
  ASSUME Inv, UnlinkPartial, UNCHANGED legacy
  PROVE  Rest'
<1>1. TypeOK /\ run.pc = "linked" /\ At("linked") /\ Landed /\ UNCHANGED <<archive, json>>
  BY DEF UnlinkPartial, At, Inv, RunInv
<1>2. PICK c \in Archives : c = Current
  BY <1>1, Turns DEF Landed
<1>3. \A a \in Archives : partial'[a] = IF a = c THEN Absent ELSE partial[a]
  BY <1>1, <1>2 DEF UnlinkPartial, TypeOK
<1>4. \A n \in JsonFiles : File(n)' = File(n)
  BY <1>1, FilesKept
<1>5. \A a \in Archives : File(Sidecar(a))' = File(Sidecar(a)) /\ File(Receipt(a))' = File(Receipt(a))
  BY <1>4, Names
<1>6. DiskInv'
  <2>1. ContentInv'
    BY <1>1, <1>3, <1>5 DEF Inv, DiskInv, ContentInv
  <2>2. AllLegacy' <=> AllLegacy
    BY <1>1 DEF AllLegacy
  <2>3. VouchInv'
    BY <1>1, <1>3, <1>5, <2>2 DEF Inv, DiskInv, VouchInv
  <2>4. ManifestInv'
    <3>1. ASSUME NEW n \in {Manifest, Migrated}, File(n)' # Absent, NEW k \in 1..Len(Order)
          PROVE  Backed(Order[k], File(n)[k])'
      <4>1. Order[k] \in Archives /\ File(n)' = File(n)
        BY <1>4, Names, DownloadAssumption
      <4>2. Backed(Order[k], File(n)[k])
        BY <3>1, <4>1 DEF Inv, DiskInv, ManifestInv
      <4> QED BY <1>1, <1>3, <1>5, <4>1, <4>2 DEF Backed
    <3> QED BY <3>1 DEF ManifestInv
  <2> QED BY <2>1, <2>3, <2>4 DEF DiskInv
<1>7. /\ run'.cmd = run.cmd /\ run'.i = run.i /\ run'.records = run.records /\ run'.probe = run.probe
      /\ run'.pc = "receipt"
  BY <1>1 DEF UnlinkPartial, TypeOK, Commands
<1>8. Onward
  BY <1>1, <1>7 DEF Onward
<1>9. RecordsInv'
  BY <1>1, <1>2, <1>3, <1>5, <1>8, RecordsElsewhere DEF Landed
<1>10. MigrationInv'
  BY <1>1, <1>8 DEF Inv, MigrationInv, Onward, At, AllLegacy
<1>11. RunInv'
  <2>1. Landed'
    BY <1>1, <1>7 DEF Landed, Current, Busy
  <2> QED BY <1>7, <2>1 DEF RunInv, At, Getting, Landing, Writing
<1> QED BY <1>6, <1>9, <1>10, <1>11 DEF Rest

-----------------------------------------------------------------------------
(* Receipts and what they make superfluous *)

\* A receipt is written only where there is none.
LEMMA ReceiptKeeps ==
  ASSUME Inv, WriteReceipt, UNCHANGED legacy
  PROVE  Rest'
<1> USE RunTyped
<1>1. TypeOK /\ run.pc = "receipt" /\ Landed /\ FilesSame
  BY QuietIsSame DEF WriteReceipt, At, Inv, RunInv, Landing
<1>2. PICK c \in Archives : c = Current
  BY <1>1, Turns DEF Landed
<1>3. /\ run'.cmd = run.cmd /\ run'.i = run.i /\ run'.records = run.records /\ run'.probe = run.probe
      /\ run'.pc = IF File(Receipt(c)) = Absent THEN "json" ELSE "retire"
      /\ File(Receipt(c)) = Absent =>
           /\ run'.name = Receipt(c) /\ run'.then = "retire"
           /\ run'.payload = ReceiptPayload(c, run.probe)
  BY <1>1, <1>2 DEF WriteReceipt, StartWrite, TypeOK, Commands
<1>4. Onward
  BY <1>1, <1>3 DEF Onward
<1>5. Landed' /\ Current' = c /\ File(Receipt(c))' = File(Receipt(c))
  BY <1>1, <1>2, <1>3, Names DEF Landed, Current, Busy, FilesSame
<1>6. CASE File(Receipt(c)) = Absent
  <2>1. ReceiptWrite'
    BY <1>1, <1>3, <1>5, <1>6 DEF ReceiptWrite, ReceiptPayload, FilesSame
  <2>2. RunInv'
    BY <1>3, <1>6, <2>1, WritingSuffices DEF WritingInv, Writing, At
  <2> QED BY <1>1, <1>4, <2>2, SameKeepsDisk, OnwardKeeps DEF Rest
<1>7. CASE File(Receipt(c)) # Absent
  <2>1. RunInv'
    BY <1>3, <1>5, <1>7 DEF RunInv, At, Getting, Landing, Writing, File
  <2> QED BY <1>1, <1>4, <2>1, SameKeepsDisk, OnwardKeeps DEF Rest
<1> QED BY <1>6, <1>7

\* The sidecar goes once the receipt agrees with it.
LEMMA RetireSidecarKeeps ==
  ASSUME Inv, RetireSidecar, UNCHANGED legacy
  PROVE  Rest'
<1>1. TypeOK /\ run.pc = "retire" /\ Landed /\ UNCHANGED <<partial, archive>>
      /\ File(Receipt(Current)) # Absent
  BY DEF RetireSidecar, At, Inv, RunInv, Landing
<1>2. PICK c \in Archives : c = Current
  BY <1>1, Turns DEF Landed
<1>3. CASE ~ReceiptAgrees(c, run.probe)
  BY <1>1, <1>2, <1>3, EndKeeps, QuietIsSame DEF RetireSidecar, disk
<1>4. CASE ReceiptAgrees(c, run.probe)
  <2>1. json' = [json EXCEPT ![Sidecar(c)].file = Absent] /\ run' = [run EXCEPT !.pc = "clean"]
    BY <1>2, <1>4 DEF RetireSidecar
  <2>2. Sidecar(c) \in JsonFiles
    BY Names
  <2>3. File(Sidecar(c))' = Absent /\ \A m \in JsonFiles : m # Sidecar(c) => File(m)' = File(m)
    BY <1>1, <2>1, <2>2, SetFile
  <2>4. \A a \in Archives : /\ File(Receipt(a))' = File(Receipt(a))
                            /\ File(Sidecar(a))' = IF a = c THEN Absent ELSE File(Sidecar(a))
    BY <2>3, Names
  <2>5. archive[c] # Absent
    BY <1>1, <1>2 DEF Landed
  <2>6. DiskInv'
    <3>1. ContentInv'
      BY <1>1, <2>4, <2>5 DEF Inv, DiskInv, ContentInv
    <3>2. AllLegacy' <=> AllLegacy
      BY <1>1 DEF AllLegacy
    <3>3. VouchInv'
      BY <1>1, <1>2, <2>4, <3>2 DEF Inv, DiskInv, VouchInv
    <3>4. ManifestInv'
      <4>1. ASSUME NEW n \in {Manifest, Migrated}, File(n)' # Absent, NEW k \in 1..Len(Order)
            PROVE  Backed(Order[k], File(n)[k])'
        <5>1. Order[k] \in Archives /\ File(n)' = File(n)
          BY <2>3, Names, DownloadAssumption
        <5>2. Backed(Order[k], File(n)[k])
          BY <4>1, <5>1 DEF Inv, DiskInv, ManifestInv
        <5> QED BY <1>1, <2>4, <5>1, <5>2 DEF Backed
      <4> QED BY <4>1 DEF ManifestInv
    <3> QED BY <3>1, <3>3, <3>4 DEF DiskInv
  <2>7. /\ run'.cmd = run.cmd /\ run'.i = run.i /\ run'.records = run.records /\ run'.probe = run.probe
        /\ run'.pc = "clean"
    BY <1>1, <2>1 DEF TypeOK, Commands
  <2>8. Onward
    BY <1>1, <2>7 DEF Onward
  <2>9. RecordsInv'
    BY <1>1, <1>2, <2>4, <2>8, RecordsElsewhere DEF Landed
  <2>10. MigrationInv'
    BY <1>1, <2>8 DEF Inv, MigrationInv, Onward, At, AllLegacy
  <2>11. RunInv'
    <3>1. Landed' /\ Current' = c
      BY <1>1, <1>2, <2>7 DEF Landed, Current, Busy
    <3>2. File(Receipt(c))' # Absent /\ File(Receipt(c))'.version = run'.probe
      BY <1>1, <1>2, <1>4, <2>4, <2>7 DEF ReceiptAgrees
    <3> QED BY <2>3, <2>7, <3>1, <3>2 DEF RunInv, At, Getting, Landing, Writing, File
  <2> QED BY <2>6, <2>9, <2>10, <2>11 DEF Rest
<1> QED BY <1>3, <1>4

\* The archive gets its record.
LEMMA RetirePartialKeeps ==
  ASSUME Inv, RetirePartial, UNCHANGED legacy
  PROVE  Rest'
<1> USE RunTyped
<1>1. TypeOK /\ run.pc = "clean" /\ Landed /\ UNCHANGED <<archive, json>> /\ Busy
      /\ File(Receipt(Current)) # Absent /\ File(Receipt(Current)).version = run.probe
      /\ File(Sidecar(Current)) = Absent
  BY DEF RetirePartial, At, Inv, RunInv, Landing, Landed
<1>2. PICK c \in Archives : c = Current
  BY <1>1, Turns
<1>3. \A a \in Archives : partial'[a] = IF a = c THEN Absent ELSE partial[a]
  BY <1>1, <1>2 DEF RetirePartial, TypeOK
<1>4. \A n \in JsonFiles : File(n)' = File(n)
  BY <1>1, FilesKept
<1>5. \A a \in Archives : File(Sidecar(a))' = File(Sidecar(a)) /\ File(Receipt(a))' = File(Receipt(a))
  BY <1>4, Names
<1>6. ASSUME NEW a \in Archives, NEW r, Backed(a, r)
      PROVE  Backed(a, r)'
  BY <1>1, <1>3, <1>5, <1>6 DEF Backed
<1>7. DiskInv'
  <2>1. ContentInv'
    BY <1>1, <1>3, <1>5 DEF Inv, DiskInv, ContentInv
  <2>2. AllLegacy' <=> AllLegacy
    BY <1>1 DEF AllLegacy
  <2>3. VouchInv'
    BY <1>1, <1>3, <1>5, <2>2 DEF Inv, DiskInv, VouchInv
  <2>4. ManifestInv'
    <3>1. ASSUME NEW n \in {Manifest, Migrated}, File(n)' # Absent, NEW k \in 1..Len(Order)
          PROVE  Backed(Order[k], File(n)[k])'
      <4>1. Order[k] \in Archives /\ File(n)' = File(n)
        BY <1>4, Names, DownloadAssumption
      <4>2. Backed(Order[k], File(n)[k])
        BY <3>1, <4>1 DEF Inv, DiskInv, ManifestInv
      <4> QED BY <1>1, <1>3, <1>5, <4>1, <4>2 DEF Backed
    <3> QED BY <3>1 DEF ManifestInv
  <2> QED BY <2>1, <2>3, <2>4 DEF DiskInv
<1>8. PICK r : r = Record(c)
  OBVIOUS
<1>9. r.content = archive[c] /\ r.version = run.probe
  BY <1>8 DEF Record
<1>10. /\ run'.cmd = run.cmd /\ run'.i = run.i + 1 /\ run'.records = Append(run.records, r)
       /\ run'.pc = IF run.cmd = "migrate" THEN "publish" ELSE "archive"
  BY <1>1, <1>2, <1>8 DEF RetirePartial, TypeOK, Commands
<1>11. RecordsInv'
  <2>1. Len(run.records) = run.i - 1 /\ \A k \in 1..run.i - 1 : Backed(Order[k], run.records[k])
    BY <1>1 DEF Inv, RecordsInv
  <2>2. run.i \in 1..Len(Order) /\ Len(Order) \in Nat /\ \A k \in 1..Len(Order) : Order[k] \in Archives
    <3>1. run.i \in 1..Len(Order)
      BY <1>1, Turns
    <3>2. Len(Order) \in Nat /\ \A k \in 1..Len(Order) : Order[k] \in Archives
      BY DownloadAssumption
    <3> QED BY <3>1, <3>2
  <2>3. run.records \in Seq(Records) /\ run.i \in Nat
    BY <1>1, <2>2
  <2>4. /\ Len(Append(run.records, r)) = run.i
        /\ \A k \in 1..run.i - 1 : Append(run.records, r)[k] = run.records[k]
        /\ Append(run.records, r)[run.i] = r
    BY <2>1, <2>3
  <2>5. Backed(c, r)'
    BY <1>1, <1>2, <1>3, <1>5, <1>9 DEF Backed
  <2>6. ASSUME NEW k \in 1..run.i
        PROVE  Backed(Order[k], run.records[k])'
    <3>1. CASE k = run.i
      <4>1. Order[k] = c /\ run'.records[k] = r
        BY <1>2, <1>10, <2>4, <3>1 DEF Current
      <4> QED BY <2>5, <4>1 DEF Backed
    <3>2. CASE k # run.i
      <4>1. k \in 1..run.i - 1 /\ Order[k] \in Archives
        BY <2>2, <2>3, <3>2
      <4>2. PICK q : q = run.records[k]
        OBVIOUS
      <4>3. Backed(Order[k], q)'
        BY <1>6, <2>1, <4>1, <4>2
      <4>4. run'.records[k] = q
        BY <1>10, <2>4, <4>1, <4>2
      <4> QED BY <4>3, <4>4 DEF Backed
    <3> QED BY <3>1, <3>2
  <2>7. run'.i - 1 = run.i
    BY <1>10, <2>3
  <2> QED BY <1>10, <2>4, <2>6, <2>7 DEF RecordsInv
<1>12. MigrationInv'
  BY <1>1, <1>10 DEF Inv, MigrationInv, At, AllLegacy
<1>13. RunInv'
  BY <1>10, NothingIsKnown
<1> QED BY <1>7, <1>11, <1>12, <1>13 DEF Rest

\* An archive that was there already goes on to its receipt if it agrees.
LEMMA VerifyKeeps ==
  ASSUME Inv, Verify, UNCHANGED legacy
  PROVE  Rest'
<1> USE RunTyped
<1>1. TypeOK /\ run.pc = "archive" /\ Busy /\ archive[Current] # Absent /\ FilesSame
  BY QuietIsSame DEF Verify, At, Inv
<1>2. PICK c \in Archives : c = Current
  BY <1>1, Turns
<1>3. PICK v \in Versions : v = Probe(Current)
  BY <1>1, <1>2 DEF Probe, TypeOK
<1>4. CASE Raise
  BY <1>1, <1>4, EndKeeps
<1>5. CASE ~Raise
  <2>1. ~VerifyRefused(c, v)
    BY <1>2, <1>3, <1>5 DEF Verify, Raise
  <2>2. /\ run'.cmd = run.cmd /\ run'.i = run.i /\ run'.records = run.records /\ run'.probe = v
        /\ run'.pc = "receipt"
    BY <1>1, <1>2, <1>3, <2>1 DEF Verify, TypeOK, Commands
  <2>3. Onward
    BY <1>1, <2>2 DEF Onward
  <2>4. ~legacy => archive[c] = Whole(v)
    <3>1. CASE File(Receipt(c)) # Absent
      BY <2>1, <3>1 DEF VerifyRefused, ReceiptAgrees, Inv, DiskInv, VouchInv
    <3>2. CASE File(Receipt(c)) = Absent
      BY <1>1, <1>2, <2>1, <3>2 DEF VerifyRefused, SidecarAgrees, Inv, DiskInv, VouchInv
    <3> QED BY <3>1, <3>2
  <2>5. Landed'
    BY <1>1, <1>2, <2>2, <2>4 DEF Landed, Current, Busy, FilesSame
  <2>6. RunInv'
    BY <2>2, <2>5 DEF RunInv, At, Getting, Landing, Writing
  <2> QED BY <1>1, <2>3, <2>6, SameKeepsDisk, OnwardKeeps DEF Rest
<1> QED BY <1>4, <1>5

\* The manifest of either command.
LEMMA ManifestKeeps ==
  ASSUME Inv, WriteManifest \/ (Publish /\ ~Busy), UNCHANGED legacy
  PROVE  Rest'
<1>1. TypeOK /\ run.pc \in {"archive", "publish"} /\ ~Busy /\ FilesSame
  BY QuietIsSame DEF WriteManifest, Publish, At, Inv
<1>2. /\ run'.cmd = run.cmd /\ run'.i = run.i /\ run'.records = run.records
      /\ run'.pc = "json" /\ run'.name \in {Manifest, Migrated} /\ run'.payload = run.records
      /\ run'.then = "idle"
  BY <1>1 DEF WriteManifest, Publish, StartWrite, TypeOK, Commands
<1>3. Onward
  BY <1>1, <1>2 DEF Onward
<1>4. ManifestWrite'
  BY <1>1, <1>2 DEF ManifestWrite, Busy
<1>5. RunInv'
  BY <1>2, <1>4, WritingSuffices DEF WritingInv, Writing, At
<1> QED BY <1>1, <1>3, <1>5, SameKeepsDisk, OnwardKeeps DEF Rest

-----------------------------------------------------------------------------
(* The steps of the migration *)

\* One more archive is attested, or the migration ends before it wrote anything.
LEMMA AttestKeeps ==
  ASSUME Inv, Attest, UNCHANGED legacy
  PROVE  Rest'
<1> USE RunTyped
<1>1. TypeOK /\ run.pc = "attest" /\ At("attest") /\ Busy /\ FilesSame
  BY QuietIsSame DEF Attest, At, Inv
<1>2. PICK c \in Archives : c = Current
  BY <1>1, Turns
<1>3. CASE Raise
  BY <1>1, <1>3, EndKeeps
<1>4. CASE ~Raise
  <2>1. archive[c] = Whole(LegacyVersion)
    BY <1>2, <1>4 DEF Attest, AttestRefused, LegacyRecord, Raise
  <2>2. run' = [run EXCEPT !.i = run.i + 1, !.pc = "attest"]
    BY <1>1, <1>4 DEF Attest, AfterAttest, Raise, TypeOK, Commands
  <2>3. /\ run'.cmd = run.cmd /\ run'.i = run.i + 1 /\ run'.pc = "attest"
        /\ run'.records = run.records
    BY <1>1, <2>2 DEF TypeOK, Commands
  <2>4. MigrationInv /\ run.cmd = "migrate"
    BY <1>1 DEF Inv, RunInv
  <2>5. run.i \in 1..Len(Order) /\ Len(Order) \in Nat
    BY <1>1, Turns, DownloadAssumption
  <2>6. MigrationInv'
    <3>1. \A k \in 1..run.i - 1 : archive[Order[k]] = Whole(LegacyVersion)
      BY <1>1, <2>4 DEF MigrationInv
    <3>2. \A k \in 1..run'.i - 1 : k = run.i \/ k \in 1..run.i - 1
      BY <2>3, <2>5
    <3>3. \A k \in 1..run'.i - 1 : archive'[Order[k]] = Whole(LegacyVersion)
      BY <1>1, <1>2, <2>1, <3>1, <3>2 DEF FilesSame, Current
    <3> QED BY <1>1, <2>3, <2>4, <3>3 DEF MigrationInv, FilesSame, At
  <2>7. RunInv' /\ RecordsInv'
    BY <2>3, <2>4, NothingIsKnown DEF RecordsInv
  <2> QED BY <1>1, <2>6, <2>7, SameKeepsDisk DEF Rest
<1> QED BY <1>3, <1>4

\* All archives are attested, and the writes begin.
LEMMA AttestedKeeps ==
  ASSUME Inv, Attested, UNCHANGED legacy
  PROVE  Rest'
<1> USE RunTyped
<1>1. TypeOK /\ run.pc = "attest" /\ At("attest") /\ ~Busy /\ FilesSame
  BY QuietIsSame DEF Attested, At, Inv
<1>2. CASE Raise
  BY <1>1, <1>2, EndKeeps
<1>3. CASE ~Raise
  <2>1. run'.cmd = run.cmd /\ run'.i = 1 /\ run'.pc = "publish" /\ run'.records = run.records
    BY <1>1, <1>3 DEF Attested, Raise, TypeOK, Commands
  <2>2. MigrationInv /\ run.cmd = "migrate"
    BY <1>1 DEF Inv, RunInv
  <2>3. AllLegacy
    <3>1. \A k \in 1..run.i - 1 : archive[Order[k]] = Whole(LegacyVersion)
      BY <1>1, <2>2 DEF MigrationInv
    <3> QED BY <1>1, <3>1, AllTurns DEF AllLegacy
  <2>4. MigrationInv'
    BY <1>1, <2>1, <2>2, <2>3 DEF MigrationInv, FilesSame, At, AllLegacy
  <2>5. RunInv'
    BY <2>1, <2>2, NothingIsKnown
  <2>6. RecordsInv'
    <3>1. run'.records = <<>>
      BY <1>1, <2>1, <2>2 DEF MigrationInv
    <3> QED BY <2>1, <3>1 DEF RecordsInv
  <2> QED BY <1>1, <2>4, <2>5, <2>6, SameKeepsDisk DEF Rest
<1> QED BY <1>2, <1>3

\* The migration publishes the next receipt of an attested archive.
LEMMA PublishKeeps ==
  ASSUME Inv, Publish, Busy, UNCHANGED legacy
  PROVE  Rest'
<1> USE RunTyped
<1>1. TypeOK /\ run.pc = "publish" /\ FilesSame
  BY QuietIsSame DEF Publish, At, Inv
<1>2. PICK c \in Archives : c = Current
  BY <1>1, Turns
<1>3. legacy /\ AllLegacy
  BY <1>1 DEF Inv, RunInv, MigrationInv
<1>4. archive[c] # Absent
  BY <1>3, WholeTyped, DownloadAssumption DEF AllLegacy
<1>5. /\ run'.cmd = run.cmd /\ run'.i = run.i /\ run'.records = run.records
      /\ run'.probe = LegacyVersion /\ run'.pc = "receipt"
  BY <1>1 DEF Publish, TypeOK, Commands
<1>6. Onward
  BY <1>1, <1>5 DEF Onward
<1>7. Landed'
  BY <1>1, <1>2, <1>3, <1>4, <1>5, DownloadAssumption DEF Landed, Current, Busy, FilesSame
<1>8. RunInv'
  BY <1>5, <1>7 DEF RunInv, At, Getting, Landing, Writing
<1> QED BY <1>1, <1>6, <1>8, SameKeepsDisk, OnwardKeeps DEF Rest

-----------------------------------------------------------------------------
(* A command begins, and the world goes on *)

\* A command begins with no records.
LEMMA BeginKeeps ==
  ASSUME Inv, BeginRun \/ BeginMigration
  PROVE  Rest'
<1>1. FilesSame
  BY QuietIsSame DEF BeginRun, BeginMigration, Begin
<1>2. \/ BeginRun /\ run'.cmd = "download" /\ run'.pc = "archive"
      \/ BeginMigration /\ run'.cmd = "migrate" /\ run'.pc = "attest"
  BY DEF BeginRun, BeginMigration, Begin, Idle
<1>3. run'.i = 1 /\ run'.records = <<>>
  BY DEF BeginRun, BeginMigration, Begin, Idle
<1>4. RunInv'
  BY <1>2, NothingIsKnown
<1>5. MigrationInv'
  BY <1>1, <1>2, <1>3 DEF MigrationInv, BeginMigration, FilesSame, At
<1>6. RecordsInv'
  BY <1>3 DEF RecordsInv
<1> QED BY <1>1, <1>4, <1>5, <1>6, SameKeepsDisk DEF Rest

\* Steps of the server alone.
LEMMA StutterKeeps ==
  ASSUME Inv, UNCHANGED <<disk, legacy, run>>
  PROVE  Rest'
<1>1. UNCHANGED <<partial, archive, json, legacy, run>>
  BY DEF disk
<1>2. DiskInv'
  BY QuietIsSame, SameKeepsDisk
<1>3. RunInv'
  BY <1>1 DEF Inv, RunInv, GettingInv, Landed, WritingInv, PinWrite, ReceiptWrite, ManifestWrite,
              ReceiptPayload, At, Current, Busy, File, Tmp
<1>4. MigrationInv' /\ RecordsInv'
  BY <1>1 DEF Inv, MigrationInv, RecordsInv, AllLegacy, Backed, At, File
<1> QED BY <1>2, <1>3, <1>4 DEF Rest

\* A crash, or a write that fails, leaves a directory in order.
LEMMA FaultKeeps ==
  ASSUME Inv, WriteFault \/ Interrupted
  PROVE  Rest'
<1>1. CASE Interrupted
  BY <1>1, EndKeeps, QuietIsSame DEF Interrupted
<1>2. CASE WriteFault
  <2>1. run.name \in JsonFiles
    BY <1>2, WriteTyped DEF WriteFault, WriteFails, At, Writing
  <2>2. FilesSame
    BY <1>2, <2>1, TemporaryIsSame, QuietIsSame DEF WriteFault, WriteFails, SetTmp, disk
  <2> QED BY <1>2, <2>2, EndKeeps DEF WriteFault, WriteFails
<1> QED BY <1>1, <1>2

\* Whatever the running command does next.
LEMMA StepKeeps ==
  ASSUME Inv, Step
  PROVE  Rest'
<1>1. UNCHANGED legacy
  BY DEF Step
<1>2. CASE WriteJson
  <2>1. CASE WriteRefused
    BY <1>1, <2>1, EndKeeps, QuietIsSame DEF WriteRefused
  <2> QED BY <1>1, <1>2, <2>1, TemporarySteps, LinkKeeps, UnlinkKeeps DEF WriteJson
<1>3. CASE Download
  BY <1>1, <1>3, PinKeeps, GetKeeps, ReadKeeps, CompleteKeeps, PromoteKeeps, UnlinkPartialKeeps
  DEF Download
<1>4. CASE WriteReceipt \/ RetireSidecar \/ RetirePartial \/ Verify
  BY <1>1, <1>4, ReceiptKeeps, RetireSidecarKeeps, RetirePartialKeeps, VerifyKeeps
<1>5. CASE WriteManifest \/ Publish
  BY <1>1, <1>5, ManifestKeeps, PublishKeeps
<1>6. CASE Attest \/ Attested
  BY <1>1, <1>6, AttestKeeps, AttestedKeeps
<1> QED BY <1>2, <1>3, <1>4, <1>5, <1>6 DEF Step

\* Every step keeps the invariant.
LEMMA NextKeeps ==
  ASSUME Inv, [Next]_vars
  PROVE  Inv'
<1>1. CASE UNCHANGED vars
  <2>1. TypeOK'
    BY <1>1 DEF Inv, TypeOK, vars
  <2>2. Rest'
    BY <1>1, StutterKeeps DEF vars, disk
  <2> QED BY <2>1, <2>2 DEF Inv, Rest
<1>2. CASE Next
  <2>1. TypeOK'
    BY <1>2, TypeStep
  <2>2. Rest'
    <3>1. CASE BeginRun \/ BeginMigration
      BY <3>1, BeginKeeps
    <3>2. CASE Step
      BY <3>2, StepKeeps
    <3>3. CASE WriteFault \/ Interrupted
      BY <3>3, FaultKeeps
    <3>4. CASE UpstreamChanges
      BY <3>4, StutterKeeps DEF UpstreamChanges
    <3> QED BY <1>2, <3>1, <3>2, <3>3, <3>4 DEF Next
  <2> QED BY <2>1, <2>2 DEF Inv, Rest
<1> QED BY <1>1, <1>2

-----------------------------------------------------------------------------
(* The theorems *)

\* The inductive invariant holds in every reachable state.
LEMMA Invariance == Spec => []Inv
<1>1. Init => Inv
  BY InitInv
<1>2. Inv /\ [Next]_vars => Inv'
  BY NextKeeps
<1> QED BY <1>1, <1>2, PTL DEF Spec

\* Whatever the commands, the crashes and the server do, every file of the
\* directory holds what its reader expects, a torn temporary file apart, and the
\* running command is at a place of its code.
THEOREM DirectoryTyped == Spec => []TypeOK
<1>1. Inv => TypeOK
  BY DEF Inv
<1> QED BY <1>1, Invariance, PTL

\* _download appends to a partial file over many runs, between which the object
\* may change on the server: the partial file is the beginning of one version, the
\* one its sidecar pins, and an archive promoted from it is the whole of one.
THEOREM DownloadsNeverMix == Spec => []NeverMixed
<1>1. Inv => NeverMixed
  <2> SUFFICES ASSUME Inv, NEW a \in Archives
               PROVE  /\ partial[a] # Absent => \E v \in Versions :
                           /\ partial[a] = SubSeq(Whole(v), 1, Len(partial[a]))
                           /\ archive[a] = Absent => File(Sidecar(a)) = v
                      /\ archive[a] # Absent => \E v \in Versions : archive[a] = Whole(v)
    BY DEF NeverMixed
  <2>1. ContentInv
    BY DEF Inv, DiskInv
  <2> QED BY <2>1, PrefixOfWhole DEF ContentInv
<1> QED BY <1>1, Invariance, PTL

\* The sidecar with the validators is retired only after the receipt that repeats
\* them is in place: bytes this code downloaded never lose their version.
THEOREM ValidatorsStay == Spec => []ValidatorRetained
<1>1. Inv => ValidatorRetained
  BY DEF Inv, DiskInv, VouchInv, ValidatorRetained
<1> QED BY <1>1, Invariance, PTL

\* A receipt describes the archive beside it (_validate_receipt trusts it in every
\* later run), and a migrated one stands only over archives that all match.
THEOREM ReceiptsStayTruthful == Spec => []ReceiptsTruthful
<1>1. Inv => ReceiptsTruthful
  BY DEF Inv, DiskInv, VouchInv, ReceiptsTruthful
<1> QED BY <1>1, Invariance, PTL

\* The manifest run() writes once names archives whose receipts are in place and
\* agree, with nothing partial left: no later run, crash or migration undoes that.
THEOREM ManifestsStayBacked == Spec => []ManifestBacked
<1>1. Inv => ManifestBacked
  BY DEF Inv, DiskInv, ManifestInv, Backed, ManifestBacked
<1> QED BY <1>1, Invariance, PTL

\* The migration attests every archive of the legacy manifest before it writes its
\* first receipt, and a failed attestation ends it.
THEOREM MigrationsVouchForAll == Spec => []MigrationVouchesAll
<1>1. Inv => MigrationVouchesAll
  BY DEF Inv, DiskInv, VouchInv, AllLegacy, MigrationVouchesAll
<1> QED BY <1>1, Invariance, PTL

=============================================================================
