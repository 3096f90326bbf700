------------------------------ MODULE MCInstall ------------------------------
(***************************************************************************)
(* What an installation needs, for TLC: the command-line installer, with   *)
(* commands that end with their process and with commands that outlive it, *)
(* and the sizes of the new system (Installation); the backup before it    *)
(* (Backup); the repair of its package (Hotfix).  Each runs alone, while   *)
(* the others stay as they are.                                            *)
(***************************************************************************)
EXTENDS Installation

VARIABLES
    subject,  \* which of them runs
    source, pc, attempt, todo, current, expected, stage, dirs, partial, local, sums,
    recorded, completed, legacy, changes,  \* of Backup
    ships, file, manifest, manifests, members, from, applier, obsolete, removed  \* of Hotfix

backupVars == <<source, pc, attempt, todo, current, expected, stage, dirs, partial, local, sums,
                recorded, completed, legacy, changes>>
hotfixVars == <<ships, file, manifest, manifests, members, from, applier, obsolete, removed>>

Copies == INSTANCE Backup WITH
    Files <- {"gpt", "misc", "boot"}, Metadata <- {"gpt"}, MaxAttempts <- 2, MaxChanges <- 1
Repair == INSTANCE Hotfix WITH Patches <- {1, 2}, Deps <- {"a"}

ASSUME CopiesAssumption == Copies!FilesAssumption /\ Copies!AttemptsAssumption /\ Copies!ChangesAssumption
ASSUME RepairAssumption == Repair!PatchesAssumption

MCInit ==
    /\ subject \in {"install", "sizes", "backup", "hotfix"}
    /\ Init /\ Size!Init /\ Copies!Init /\ Repair!Init
    /\ subject # "install" =>
           /\ card = Nothing /\ store.image = Nothing /\ boot = Nothing
           /\ target = [os |-> "none", once |-> "none"] /\ vendor = "complete"
    /\ subject # "sizes" => android = 0 /\ image = Size!None
    /\ subject # "backup" => current = "gpt"
    /\ subject # "hotfix" => \A r \in DOMAIN ships : ships[r] = {}

MCNext ==
    /\ UNCHANGED subject
    /\ \/ subject = "install" /\ Next /\ UNCHANGED <<sizeVars, backupVars, hotfixVars>>
       \/ subject = "sizes" /\ Size!Next /\ UNCHANGED <<vars, backupVars, hotfixVars>>
       \/ subject = "backup" /\ Copies!Next /\ UNCHANGED <<vars, sizeVars, hotfixVars>>
       \/ subject = "hotfix" /\ Repair!Next /\ UNCHANGED <<vars, sizeVars, backupVars>>

MCSpec == MCInit /\ [][MCNext]_<<subject, vars, sizeVars, backupVars, hotfixVars>>

-----------------------------------------------------------------------------

\* A backup that counts is of the originals, by one attempt, and whole whenever something
\* is written; what an attempt leaves on the phone is in the journal; and the copy for the
\* older installers is that backup (the properties of Backup).
BackupHolds ==
    /\ [](Copies!NamedIsOriginal /\ Copies!OneAttempt /\ Copies!LeftIsRecorded /\ Copies!LegacyIsBackup)
    /\ Copies!WritesOnBackup

\* A repaired package is accepted, and an accepted one is of one release, never an older
\* one; an interrupted repair is no reason to refuse the next (the properties of Hotfix).
RepairHolds ==
    /\ [](Repair!CompletedIsAccepted /\ Repair!AcceptedIsOneRelease /\ Repair!RefusedForCause)
    /\ Repair!NeverOlder
=============================================================================
