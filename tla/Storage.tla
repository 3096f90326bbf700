------------------------------ MODULE Storage -------------------------------
(***************************************************************************)
(* The table of a phone (Partitions) and the journals that remove a root   *)
(* from one (Snapshots): they edit and check tables by the same rules      *)
(* (Layout), of phones that they do not share.                             *)
(***************************************************************************)
EXTENDS Partitions

CONSTANTS
    Disks,     \* of Snapshots: tables of phones with a root,
    Originals, \* tables that an installation may have saved,
    MaxAlter   \* and changes made to an exported journal

VARIABLES
    disk, record, altered, state  \* of Snapshots, and encrypted

journalVars == <<disk, record, altered, state>>

Saved == INSTANCE Snapshots

ASSUME SavedAssumption == Saved!DisksAssumption /\ Saved!MaxAlterAssumption

-----------------------------------------------------------------------------

\* A journal nobody changed is accepted; one that was changed is accepted only if it removes
\* the root, nothing else, and as its user agreed (the properties of Snapshots).
JournalsRemoveTheRoot ==
    Saved!OwnJournalAccepted /\ Saved!OthersUntouched /\ Saved!GainsOnlyTheRoot /\ Saved!ResetNotSuppressed
=============================================================================
