------------------------------ MODULE Snapshots ------------------------------
(***************************************************************************)
(* The journal of a removal: what `prepare` saves, export and import, and  *)
(* what Uninstaller.validate_snapshots accepts before anything is armed.   *)
(*                                                                         *)
(* A journal is a directory of files.  It is exported, kept anywhere, and  *)
(* imported again; meanwhile its tables and its record may be changed,     *)
(* with checksums and sizes made to fit or not.  What is accepted must     *)
(* still be the removal of one root.  The phone is compared when the       *)
(* removal is armed; what runs then is in Uninstall and Partitions.        *)
(***************************************************************************)
EXTENDS Layout

CONSTANTS
    Disks,     \* tables of phones with a root
    Originals, \* tables that an installation may have saved
    MaxAlter   \* changes made to an exported journal

DisksAssumption == \A t \in Disks \cup Originals : t \in Tables /\ Valid(t)
MaxAlterAssumption == MaxAlter \in Nat

VARIABLES
    disk,      \* the table of the phone
    encrypted, \* is the phone's data encrypted?
    record,    \* the journal
    altered,   \* changes made to it
    state      \* where it is

vars == <<disk, encrypted, record, altered, state>>

Expands(t) == Of(t, Data).end + 1 = Of(t, Root).start

\* with_table: the edited table is checked again.
Calculated(r) ==
    IF r.version = 3
    THEN {t \in {Removed(x) : x \in {y \in {r.before} : CanRemove(y)}} : Valid(t)}
    ELSE {t \in {Restored(x, r.before) : x \in {y \in {r.after} : CanRestore(y, r.before)}} :
             Valid(t) /\ ~Has(t, Root)}

Grows(r) == IF r.version = 3 THEN Expands(r.before) ELSE GaveUp(r.after, r.before)

\* What the plan and the metadata say of the tables.
Geometry(before, after) ==
    [nodes |-> <<SlotOf(before, Data), SlotOf(before, Root)>>,
     root |-> Of(before, Root),
     previous |-> Size(Of(before, Data)),
     android |-> Size(Of(after, Data))]

-----------------------------------------------------------------------------
(* The plan: prepare *)

NoRecord == [version |-> 0]

Journal(version, after, grows, action) ==
    [version |-> version, action |-> action, authorized |-> action = "reset",
     shown |-> [wipe |-> IF version = 1 THEN grows ELSE action = "reset",
                action |-> action, source |-> version = 2,
                released |-> IF version = 3 /\ ~grows THEN Size(Of(disk, Root)) ELSE 0],
     encrypted |-> encrypted, evidence |-> version = 3,
     before |-> disk, after |-> after, geometry |-> Geometry(disk, after), sums |-> TRUE]

\* Data that can grow is kept; it is reset if its user agreed, whatever kept it from growing.
Actions(grows) == IF grows THEN {"reset"} \cup IF encrypted THEN {} ELSE {"grow"} ELSE {"gap"}

\* By a record: its allocation has been compared with the root.
PrepareByRecord(old) ==
    /\ state = "none" /\ CanRestore(old, disk)
    /\ \E action \in Actions(GaveUp(old, disk)) :
          record' = Journal(2, Restored(old, disk), GaveUp(old, disk), action)
    /\ state' = "ready" /\ UNCHANGED <<disk, encrypted, altered>>

PrepareByDevice ==
    /\ state = "none" /\ CanRemove(disk)
    /\ \E action \in Actions(Expands(disk)) :
          record' = Journal(3, Removed(disk), Expands(disk), action)
    /\ state' = "ready" /\ UNCHANGED <<disk, encrypted, altered>>

\* The program before this one: data was always reset; the record says nothing of it.
PrepareOld(old) ==
    /\ state = "none" /\ CanRestore(old, disk)
    /\ record' = Journal(1, Restored(old, disk), GaveUp(old, disk), "none")
    /\ state' \in {"ready", "begun"} /\ UNCHANGED <<disk, encrypted, altered>>

-----------------------------------------------------------------------------
(* Export, what happens to a directory, import *)

Export == state = "ready" /\ state' = "away" /\ UNCHANGED <<disk, encrypted, record, altered>>

\* The table with one entry removed, or one of its bounds changed.
Changed(t) ==
    {[t EXCEPT ![i] = Empty] : i \in Used(t)}
        \cup {[t EXCEPT ![i].start = s] : i \in Used(t), s \in First..Last}
        \cup {[t EXCEPT ![i].end = s] : i \in Used(t), s \in First..Last}

Measurable(before, after) == Has(before, Data) /\ Has(before, Root) /\ Has(after, Data)
Measured(r) ==
    IF Measurable(r.before, r.after) THEN [r EXCEPT !.geometry = Geometry(r.before, r.after)] ELSE r

\* With the checksums and sizes made to fit.
AlteredTables(r) ==
    {Measured(o) : o \in {[r EXCEPT !.before = t] : t \in Changed(r.before)}
                             \cup {[r EXCEPT !.after = t] : t \in Changed(r.after)}}

\* The record's claims, in the metadata alone or in the plan with it.
AlteredClaims(r) ==
    {[r EXCEPT !.version = v, !.shown.source = (v = 2)] : v \in 1..3}
        \cup {[r EXCEPT !.action = a, !.shown.action = a] : a \in {"gap", "reset", "grow", "none"}}
        \cup {[r EXCEPT !.action = a, !.shown.action = a, !.authorized = (a = "reset"), !.shown.wipe = (a = "reset")] :
                  a \in {"gap", "reset", "grow"}}
        \cup {[r EXCEPT !.authorized = ~@], [r EXCEPT !.shown.wipe = ~@], [r EXCEPT !.encrypted = ~@],
              [r EXCEPT !.evidence = ~@], [r EXCEPT !.sums = FALSE], [r EXCEPT !.geometry.root = Empty]}

Alter ==
    /\ state = "away" /\ altered < MaxAlter
    /\ record' \in (AlteredTables(record) \cup AlteredClaims(record)) \ {record}
    /\ altered' = altered + 1
    /\ UNCHANGED <<disk, encrypted, state>>

\* A record that is here already is not replaced.
Import == state = "away" /\ state' = "ready" /\ UNCHANGED <<disk, encrypted, record, altered>>

-----------------------------------------------------------------------------
(* Uninstaller: __init__ and validate_snapshots *)

DataActionAgrees(r) ==
    r.version >= 2 =>
        /\ r.action = r.shown.action /\ r.action \in {"gap", "reset", "grow"}
        /\ (r.action = "gap") = ~Grows(r)
        /\ r.authorized = (r.action = "reset")
        /\ r.action = "grow" => ~r.encrypted

Wipes(r) == IF r.version >= 2 THEN r.action = "reset" ELSE Grows(r)

EvidenceComplete(r) ==
    r.version = 3 => /\ r.evidence /\ ~r.shown.source
                     /\ r.shown.released = IF Grows(r) THEN 0 ELSE Size(Of(r.before, Root))

\* Variant: the saved layout is taken for what it says, if both tables are tables.
AcceptsByChecksum(r) ==
    /\ r.sums /\ r.version \in 1..3 /\ Valid(r.before) /\ Valid(r.after)
    /\ Single(r.before, Data) /\ Single(r.before, Root) /\ Single(r.after, Data)
    /\ EvidenceComplete(r) /\ DataActionAgrees(r)
    /\ r.geometry = Geometry(r.before, r.after) /\ r.shown.wipe = Wipes(r)

\* Variant: what userdata had before is compared with what it gets, without its rounding.
AcceptsExactly(r) ==
    /\ r.sums /\ r.version \in 1..3
    /\ Valid(r.before) /\ (r.version < 3 => Valid(r.after))
    /\ Calculated(r) = {r.after}
    /\ EvidenceComplete(r) /\ DataActionAgrees(r)
    /\ r.geometry = Geometry(r.before, r.after) /\ r.shown.wipe = Wipes(r)
    /\ Grows(r) => r.geometry.android = r.geometry.previous + Size(Of(r.before, Root))

Accepts(r) ==
    /\ r.sums /\ r.version \in 1..3
    /\ Valid(r.before) /\ (r.version < 3 => Valid(r.after))
    /\ Calculated(r) = {r.after}
    /\ EvidenceComplete(r) /\ DataActionAgrees(r)
    /\ r.geometry = Geometry(r.before, r.after) /\ r.shown.wipe = Wipes(r)

\* dispatch "start": an old removal that has not begun is to be planned again.
Validate ==
    /\ state = "begun" \/ (state = "ready" /\ record.version # 1)
    /\ state' = IF ~Accepts(record) THEN "refused" ELSE IF state = "begun" THEN "accepted" ELSE "valid"
    /\ UNCHANGED <<disk, encrypted, record, altered>>

\* Variant: the volume is not examined again.
ArmAsRecorded ==
    /\ state = "valid" /\ disk = record.before
    /\ state' = "armed" /\ UNCHANGED <<disk, encrypted, record, altered>>

\* The phone is compared with the record: its table, and whether its data may grow.
Arm ==
    /\ state = "valid" /\ disk = record.before
    /\ record.action = "grow" => ~encrypted
    /\ state' = "armed" /\ UNCHANGED <<disk, encrypted, record, altered>>

-----------------------------------------------------------------------------

Init ==
    /\ disk \in Disks /\ encrypted \in BOOLEAN
    /\ record = NoRecord /\ altered = 0 /\ state = "none"

Next ==
    \/ \E old \in Originals : PrepareByRecord(old) \/ PrepareOld(old)
    \/ PrepareByDevice
    \/ Export \/ Alter \/ Import
    \/ Validate \/ Arm

Spec == Init /\ [][Next]_vars

-----------------------------------------------------------------------------
(* Properties *)

Taken == state \in {"accepted", "valid", "armed"}

\* Every variable holds what its declaration says.
TypeOK ==
    /\ disk \in Disks /\ encrypted \in BOOLEAN /\ altered \in 0..MaxAlter
    /\ state \in {"none", "ready", "begun", "away", "valid", "accepted", "refused", "armed"}
    /\ state # "none" => record.version \in 1..3 /\ {record.before, record.after} \subseteq Tables

\* A journal that nobody changed is accepted: what `prepare` and the program before it plan,
\* `validate_snapshots` computes again, whatever the layout and its rounding.
OwnJournalAccepted == state = "refused" => altered > 0

\* Whatever was changed in a journal, what is accepted removes the root and leaves the entries
\* of others as they are: "recomputing checksums cannot authorize changes to NV/unrelated
\* entries".
OthersUntouched ==
    Taken => /\ ~Has(record.after, Root) /\ Valid(record.after)
             /\ \A i \in Slots : record.before[i].name \notin {Root, Data} => record.after[i] = record.before[i]

\* And userdata keeps its sectors, and gets none beyond the root it removes but those that the
\* installation lost by rounding down to a MiB: no "different root range".
GainsOnlyTheRoot ==
    Taken =>
        LET now == Of(record.before, Data)
            then == Of(record.after, Data)
            root == Of(record.before, Root)
        IN  /\ then.start = now.start /\ then.end >= now.end
            /\ then.end > now.end => now.end + 1 = root.start /\ then.end - root.end \in 0..(Align - 1)

\* A removal that reaches the phone and gives sectors to userdata either was shown as a reset
\* and authorised as one, or finds data that can grow: a record cannot suppress "a required
\* reset".
ResetNotSuppressed ==
    /\ Taken /\ record.after # record.before /\ Of(record.after, Data) # Of(record.before, Data) =>
          record.shown.wipe \/ record.action = "grow"
    /\ state = "armed" /\ record.action = "grow" => ~encrypted
    /\ state = "armed" /\ record.action = "reset" => record.shown.wipe /\ record.authorized
=============================================================================
