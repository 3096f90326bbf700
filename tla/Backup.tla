------------------------------- MODULE Backup -------------------------------
(***************************************************************************)
(* The backup on the computer of the partitions an installation will       *)
(* write: Adapter.backup, Adb.backup_partition and pull_binary, and the    *)
(* copy backup_legacy makes of it for the older installers.                *)
(*                                                                         *)
(* Each partition is copied to a private directory on the phone, hashed    *)
(* there and at its source, pulled, hashed again, and only then takes its  *)
(* name.  The whole counts once "backup" is in the journal; an attempt     *)
(* that ends before starts again from nothing.  Android may write to a     *)
(* partition meanwhile, a command may fail or its answer be lost, the user *)
(* may pause, and the process may be killed.                               *)
(***************************************************************************)
EXTENDS Naturals

CONSTANTS
    Files,       \* what is backed up
    Metadata,    \* those of them that are a few sectors of the disk
    MaxAttempts, \* attempts made
    MaxChanges   \* writes of Android to what is backed up

FilesAssumption == Files # {} /\ Metadata \subseteq Files
AttemptsAssumption == MaxAttempts \in Nat
ChangesAssumption == MaxChanges \in Nat

VARIABLES
    source,    \* the partitions: how often Android wrote to them, or new
    pc,        \* where the attempt is
    attempt,   \* its number
    todo,      \* files it has not done yet
    current,   \* the file it is at
    expected,  \* the hash of the copy on the phone
    stage,     \* the copy on the phone
    dirs,      \* attempts whose directory is on the phone
    partial,   \* the file being pulled
    local,     \* the files on the computer
    sums,      \* checksums.json
    recorded,  \* the directory named in the journal
    completed, \* is "backup" in the journal?
    legacy,    \* the copy for the older installers, and its manifest
    changes    \* writes of Android so far

vars == <<source, pc, attempt, todo, current, expected, stage, dirs, partial, local, sums,
          recorded, completed, legacy, changes>>
step == <<attempt, todo, current, expected>>
phone == <<source, stage, dirs, changes>>
disk == <<partial, local, sums, legacy>>
journal == <<recorded, completed>>

None == [value |-> 0, by |-> 0]
Torn == 0
New == MaxChanges + 2
Originals == 1..(MaxChanges + 1)
Contents == [value : 0..(MaxChanges + 2), by : 0..MaxAttempts]
Copy(value) == [value |-> value, by |-> attempt]
NoFiles == [f \in Files |-> None]

-----------------------------------------------------------------------------
(* An attempt *)

At(p) == pc = p
Goto(p) == pc' = p

\* Variant: what an earlier attempt has done is left out of this one.
OnlyMissing == {f \in Files : local[f] = None}

\* Every attempt starts again with all of them.
Everything == Files

\* Adapter.backup: nothing to do, but to see that nothing was damaged; or all of it.
Begin ==
    /\ At("off") /\ attempt < MaxAttempts /\ ~completed
    /\ attempt' = attempt + 1
    /\ todo' = Everything
    /\ Goto("next")
    /\ UNCHANGED <<current, expected, phone, disk, journal>>

\* Variant: the directory is made before it is recorded.
MakeFirst(f) ==
    /\ At("next") /\ f \in todo /\ todo \cap Metadata = {}
    /\ current' = f /\ todo' = todo \ {f}
    /\ dirs' = dirs \cup {attempt}
    /\ Goto("mkdir")
    /\ UNCHANGED <<attempt, expected, source, stage, changes, disk, journal>>

\* The sectors come first.  pull_binary copies them through a directory of its own,
\* which it removes if it can, and nobody records.
NextMetadata(f) ==
    /\ At("next") /\ f \in todo \cap Metadata
    /\ current' = f /\ todo' = todo \ {f}
    /\ Goto("copy")
    /\ UNCHANGED <<attempt, expected, phone, disk, journal>>

\* The next partition, unless the user pauses.  _backup_directory: the first time, a
\* directory with a random name is recorded ...
NextFile(f) ==
    /\ At("next") /\ f \in todo /\ todo \cap Metadata = {}
    /\ current' = f /\ todo' = todo \ {f}
    /\ recorded' = attempt
    /\ Goto("mkdir")
    /\ UNCHANGED <<attempt, expected, phone, disk, completed>>

\* ... and made.
MakeDirectory ==
    /\ At("mkdir")
    /\ dirs' = dirs \cup {attempt}
    /\ recorded' = attempt
    /\ Goto("copy")
    /\ UNCHANGED <<step, source, stage, changes, disk, completed>>

\* dd, and the hash of what it made; Android may write meanwhile.
CopyOnPhone ==
    /\ At("copy")
    /\ stage' \in {Copy(source[current]), Copy(Torn)}
    /\ expected' = stage'.value
    /\ Goto("compare")
    /\ UNCHANGED <<attempt, todo, current, source, dirs, changes, disk, journal>>

\* Variant: the hash of the copy is taken for that of the partition.
AnySource == TRUE

\* The partition is read a second time.
SourceAgrees == expected = source[current]

Compare ==
    /\ At("compare") /\ SourceAgrees
    /\ Goto("pull")
    /\ UNCHANGED <<step, phone, disk, journal>>

\* adb pull, as many bytes as the partition has; a link may deliver others.
Pull ==
    /\ At("pull")
    /\ partial' \in {Copy(stage.value), Copy(Torn)}
    /\ Goto("hash")
    /\ UNCHANGED <<step, phone, local, sums, legacy, journal>>

\* Variant: the number of bytes is enough.
AnyContent == TRUE

\* The hash on the computer is the one on the phone.
PulledAgrees == partial.value = expected

\* Sectors are written to the file as it is ...
WriteBegins ==
    /\ At("hash") /\ PulledAgrees /\ current \in Metadata
    /\ local' = [local EXCEPT ![current] = Copy(Torn)]
    /\ stage' = None
    /\ Goto("write")
    /\ UNCHANGED <<step, source, dirs, changes, partial, sums, legacy, journal>>

WriteEnds ==
    /\ At("write")
    /\ local' = [local EXCEPT ![current] = partial]
    /\ partial' = None
    /\ Goto("next")
    /\ UNCHANGED <<step, phone, sums, legacy, journal>>

\* ... a partition is synced under another name, and only then renamed.
Rename ==
    /\ At("hash") /\ PulledAgrees /\ current \notin Metadata
    /\ local' = [local EXCEPT ![current] = partial]
    /\ partial' = None
    /\ Goto("remove")
    /\ UNCHANGED <<step, phone, sums, legacy, journal>>

\* finally: the copy on the phone is removed, if the phone can be reached.
RemoveCopy ==
    /\ At("remove")
    /\ stage' \in {None, stage}
    /\ Goto("next")
    /\ UNCHANGED <<step, source, dirs, changes, disk, journal>>

\* cleanup_backup: rmdir, which fails for a directory that is not empty.  The journal
\* forgets it once the phone says that it is gone.
RemovesDirectory(empty) ==
    \/ /\ empty /\ attempt \in dirs
       /\ dirs' = dirs \ {attempt} /\ recorded' \in {0, recorded}
    \/ UNCHANGED <<dirs, recorded>>

Cleanup ==
    /\ At("next") /\ todo = {}
    /\ RemovesDirectory(stage = None)
    /\ Goto("sum")
    /\ UNCHANGED <<step, source, stage, changes, disk, completed>>

\* Variant: the list of the sums is among the files it lists.
SumsOfAll ==
    /\ At("sum")
    /\ sums' = [f \in Files \cup {"checksums.json"} |-> IF f \in Files THEN local[f] ELSE None]
    /\ Goto("record")
    /\ UNCHANGED <<step, phone, partial, local, legacy, journal>>

\* checksums.json of what lies in the directory now ...
WriteSums ==
    /\ At("sum")
    /\ sums' = local
    /\ Goto("record")
    /\ UNCHANGED <<step, phone, partial, local, legacy, journal>>

\* ... and the journal.
Record ==
    /\ At("record")
    /\ completed' = TRUE
    /\ Goto("off")
    /\ UNCHANGED <<step, phone, disk, recorded>>

\* A command fails, or the user pauses: copy, partial file and directory are removed
\* as far as the phone can be reached.
Fails ==
    /\ pc \notin {"off", "sum", "record", "legacy"}
    /\ partial' = None
    /\ stage' \in {None, stage}
    /\ RemovesDirectory(stage' = None)
    /\ Goto("off")
    /\ UNCHANGED <<step, source, changes, local, sums, legacy, completed>>

\* After that there is nothing to remove.
FailsLate ==
    /\ pc \in {"sum", "record", "legacy"} /\ Goto("off")
    /\ UNCHANGED <<step, phone, disk, journal>>

\* The process is killed.
Crash ==
    /\ ~At("off") /\ Goto("off")
    /\ UNCHANGED <<step, phone, disk, journal>>

-----------------------------------------------------------------------------
(* The use of it *)

\* Variant: what is recorded is believed.
AnyFiles == TRUE

\* "Computer backup is damaged", otherwise.
FilesAgree == sums # NoFiles /\ local = sums

\* The installation goes on, and writes.
Write(f) ==
    /\ At("off") /\ completed /\ FilesAgree
    /\ source' = [source EXCEPT ![f] = New]
    /\ UNCHANGED <<pc, step, stage, dirs, changes, disk, journal>>

\* backup_legacy: a directory that must be new, copies compared with the checksums, and
\* the manifest at the end.
CopyLegacy(f) ==
    /\ At("off") \/ At("legacy")
    /\ completed /\ FilesAgree /\ legacy.manifest = NoFiles
    /\ At("off") => legacy.files = NoFiles
    /\ legacy' = [legacy EXCEPT !.files[f] = local[f]]
    /\ Goto("legacy")
    /\ UNCHANGED <<step, phone, partial, local, sums, journal>>

\* Variant: the manifest is written when the first file is there.
ManifestFirst ==
    /\ At("legacy")
    /\ legacy' = [legacy EXCEPT !.manifest = sums]
    /\ Goto("off")
    /\ UNCHANGED <<step, phone, partial, local, sums, journal>>

LegacyManifest ==
    /\ At("legacy") /\ \A f \in Files : legacy.files[f] # None
    /\ legacy' = [legacy EXCEPT !.manifest = sums]
    /\ Goto("off")
    /\ UNCHANGED <<step, phone, partial, local, sums, journal>>

-----------------------------------------------------------------------------
(* What happens around it *)

\* Android writes to one of its partitions.
AndroidWrites(f) ==
    /\ changes < MaxChanges /\ source[f] # New
    /\ source' = [source EXCEPT ![f] = @ + 1]
    /\ changes' = changes + 1
    /\ UNCHANGED <<pc, step, stage, dirs, disk, journal>>

\* A file of a backup that is complete is damaged.
Damage(f) ==
    /\ At("off") /\ completed
    /\ local' = [local EXCEPT ![f].value = Torn]
    /\ UNCHANGED <<pc, step, phone, partial, sums, legacy, journal>>

-----------------------------------------------------------------------------

Init ==
    /\ source = [f \in Files |-> 1]
    /\ pc = "off" /\ attempt = 0 /\ todo = {} /\ current \in Files
    /\ expected = 0 /\ stage = None /\ dirs = {} /\ partial = None
    /\ local = NoFiles /\ sums = NoFiles
    /\ recorded = 0 /\ completed = FALSE
    /\ legacy = [files |-> NoFiles, manifest |-> NoFiles]
    /\ changes = 0

Attempt == \/ Begin \/ \E f \in Files : NextMetadata(f) \/ NextFile(f)
           \/ MakeDirectory \/ CopyOnPhone \/ Compare \/ Pull
           \/ WriteBegins \/ WriteEnds \/ Rename
           \/ RemoveCopy \/ Cleanup \/ WriteSums \/ Record

Use == LegacyManifest \/ \E f \in Files : Write(f) \/ CopyLegacy(f)

Around == Crash \/ \E f \in Files : AndroidWrites(f) \/ Damage(f)

Next == Attempt \/ Fails \/ FailsLate \/ Use \/ Around

Spec == Init /\ [][Next]_vars

-----------------------------------------------------------------------------
(* Properties *)

\* Every variable holds what its declaration says.
TypeOK ==
    /\ source \in [Files -> 1..(MaxChanges + 2)]
    /\ pc \in {"off", "next", "mkdir", "copy", "compare", "pull", "hash", "write", "remove",
               "sum", "record", "legacy"}
    /\ attempt \in 0..MaxAttempts /\ todo \subseteq Files /\ current \in Files
    /\ expected \in 0..(MaxChanges + 2)
    /\ stage \in Contents /\ dirs \subseteq 1..MaxAttempts /\ partial \in Contents
    /\ local \in [Files -> Contents] /\ sums \in [Files -> Contents]
    /\ recorded \in 0..MaxAttempts /\ completed \in BOOLEAN
    /\ legacy \in [files : [Files -> Contents], manifest : [Files -> Contents]]
    /\ changes \in 0..MaxChanges

\* A file that has its name holds what its partition held at one moment before the
\* installation wrote anything: never a mixture of two moments, a pull cut off, or what
\* the installation wrote.  Damage afterwards is the exception, and shows in the sums.
NamedIsOriginal ==
    \A f \in Files \ Metadata :
        local[f] # None => local[f].value \in Originals \/ (completed /\ local[f] # sums[f])

\* A backup that counts was made from its first file to its last by one attempt.
OneAttempt == completed => \A f, g \in Files : sums[f].by = sums[g].by /\ sums[f].value \in Originals

\* The installation writes only while every file of a complete backup is what its
\* checksum says.
WritesOnBackup ==
    [][\A f \in Files : source[f] # New /\ source'[f] = New =>
          completed /\ \A g \in Files : local[g].value \in Originals]_vars

\* A directory that an attempt leaves on the phone is named in the journal, until the
\* next one begins.
LeftIsRecorded == attempt \in dirs => recorded = attempt

\* The copy for the older installers has its manifest only when it is the backup.
LegacyIsBackup ==
    legacy.manifest # NoFiles =>
        legacy.files = legacy.manifest /\ \A f \in Files : legacy.files[f].value \in Originals
=============================================================================
