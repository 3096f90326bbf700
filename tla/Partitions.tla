----------------------------- MODULE Partitions -----------------------------
(***************************************************************************)
(* The partition table of an e5 phone from one installation in internal    *)
(* storage through its removal to the next: plan_install and Adapter's     *)
(* e5_free, the initramfs that shrinks userdata or carves it, the planning *)
(* of a removal and its worker.                                            *)
(*                                                                         *)
(* Every reader and writer of the table has another view of it: the        *)
(* computer reads the disk and asks the running kernel, which knows the    *)
(* table of its own start; the plan and the saved tables are older still;  *)
(* both copies are written one after the other.  Other programs may add a  *)
(* partition, backups on the computer may be lost, and the power may fail. *)
(* What is written into the partitions is in PartTwoStage and Uninstall.   *)
(***************************************************************************)
EXTENDS Layout

CONSTANTS
    Txns,    \* installations planned
    Factory, \* tables a phone may have before any of them
    Needs,   \* sizes asked for
    Contents, \* sectors that Android's files take
    Slack    \* by how many Android's filesystem may fall short of its partition

FactoryTable(t) == t \in Tables /\ Valid(t) /\ Single(t, Data) /\ ~Has(t, Root)
ASSUME TxnsAssumption == {"none", "device"} \cap Txns = {}
ASSUME FactoryAssumption == \A t \in Factory : FactoryTable(t)
ASSUME NeedsAssumption == \A n \in Needs : n \in Nat /\ n >= MinPart /\ n % Align = 0
ASSUME ContentsAssumption == Contents \in Nat
ASSUME SlackAssumption == Slack \in Nat

VARIABLES
    first,     \* the copy of the table at the start of the disk
    last,      \* the one at its end
    kernel,    \* the table as the running system read it when it started
    unlisted,  \* where old filesystems begin that no partition names
    encrypted, \* is Android's data encrypted or mapped?
    fs,        \* sectors of its filesystem
    root,      \* what the root partition holds, and of which installation
    pc,        \* what runs
    request,   \* what the next start of the initramfs is to do
    records,   \* the installations
    removal,   \* the removal
    prompt     \* what the user was shown before the question whether to erase

vars == <<first, last, kernel, unlisted, encrypted, fs, root, pc, request, records, removal, prompt>>
table == <<first, last>>
fixed == <<unlisted, encrypted>>
computer == <<records, removal, prompt>>

NoTxn == "none"
NoTable == [i \in Slots |-> Empty]
NoPlan == [kind |-> "none", start |-> 0, need |-> 0, size |-> 0, asked |-> FALSE]
NoRecord == [state |-> "none", plan |-> NoPlan, original |-> NoTable, intact |-> FALSE]
NoRoot == [state |-> "none", by |-> NoTxn]
NoRequest == [kind |-> "none", by |-> NoTxn]
NoEvidence == [layout |-> NoTable, fs |-> 0, root |-> NoRoot]
NoRemoval == [state |-> "none", by |-> NoTxn, action |-> "none", before |-> NoTable,
              after |-> NoTable, fs |-> 0, shown |-> NoEvidence]

Userdata(t) == Size(Of(t, Data))
At(p) == pc = p
Goto(p) == pc' = p

\* read_gpt: two copies that agree.
Readable == At("android") /\ first = last /\ Valid(first)

-----------------------------------------------------------------------------
(* The plan of an installation: plan_install *)

\* Variant: a gap is free space whatever begins in it.
AnyGaps == Gaps(first)

\* Variant: the start of a gap is not looked at.
AllGaps == Gaps(first)

\* Adapter.read_gpt.
SafeGaps == {g \in Gaps(first) : g.start \notin unlisted}

RoomForAndroid(need, wipe) ==
    Userdata(kernel) - need >= MinPart + IF wipe THEN 0 ELSE Contents

\* part_userdata_policy, and the plan: encrypted data cannot be kept.
Wipes(asked) == encrypted \/ asked

PlanFor(need, asked) ==
    LET gaps == Fitting(SafeGaps, need)
        wipe == Wipes(asked)
    IN  IF gaps # {} /\ Unused(first) # {}
        THEN [kind |-> "gap", start |-> LastOfLargest(gaps).start, need |-> need,
              size |-> Userdata(kernel), asked |-> asked]
        ELSE IF RoomForAndroid(need, wipe)
        THEN [kind |-> IF wipe THEN "wipe" ELSE "shrink", start |-> 0, need |-> need,
              size |-> Userdata(kernel) - need, asked |-> asked]
        ELSE NoPlan

\* dispatch "plan".  Whether there is a root already is asked of the kernel.
Plan(t, need, asked) ==
    /\ records[t].state = "none" /\ Readable /\ removal.state # "armed"
    /\ ~Has(kernel, Root) /\ PlanFor(need, asked) # NoPlan
    /\ records' = [records EXCEPT ![t] = [NoRecord EXCEPT !.state = "planned", !.plan = PlanFor(need, asked)]]
    /\ UNCHANGED <<table, kernel, fixed, fs, root, pc, request, removal, prompt>>

\* Service.run: it is computed again, and must be the same.
PlanIsFresh(t) == PlanFor(records[t].plan.need, records[t].plan.asked) = records[t].plan

\* Sectors userdata keeps, in whole MiB: part_target.
Target(need) == Down(Userdata(kernel)) - need

\* The backup is made, then the table is written or a request is left.  What becomes of a
\* second request beside a first is in FlashInstall.
Execute(t) ==
    /\ records[t].state = "planned" /\ Readable /\ request = NoRequest
    /\ ~Has(kernel, Root) /\ PlanIsFresh(t)
    /\ records' = [records EXCEPT ![t].state = "run", ![t].original = first, ![t].intact = TRUE]
    /\ request' = [kind |-> records[t].plan.kind, by |-> t]
    /\ Goto(IF records[t].plan.kind = "gap" THEN "gap" ELSE "android")
    /\ UNCHANGED <<table, kernel, fixed, fs, root, removal, prompt>>

-----------------------------------------------------------------------------
(* Writing a table: the copy at the end first *)

WritesLast(from, t, to) ==
    /\ At(from) /\ first = last /\ last' = t /\ Goto(to)
    /\ UNCHANGED <<first, kernel, fixed, fs, root, request, computer>>

WritesFirst(from, to) ==
    /\ At(from) /\ first' = last /\ Goto(to)
    /\ UNCHANGED <<last, kernel, fixed, fs, computer>>

Asked == records[request.by].plan

\* e5_free, on a running Android: gpt_add_root.
GapLast ==
    /\ request.kind = "gap" /\ CanAddRoot(first, Asked.start, Asked.need)
    /\ WritesLast("gap", WithRoot(first, Asked.start, Asked.need), "gap2")

\* The marker is written before the copies, where the partition is to begin, and is in the
\* partition once the first copy names one.  If the script stops in between it lies where no
\* partition is, and its record is not run again.
GapFirst ==
    /\ WritesFirst("gap2", "android")
    /\ root' = [state |-> "empty", by |-> request.by] /\ request' = NoRequest

\* The script stops, or never starts: the record is not run again.
GapStops ==
    /\ pc \in {"gap", "gap2"} /\ Goto("android")
    /\ request' = NoRequest
    /\ UNCHANGED <<table, kernel, fixed, fs, root, computer>>

-----------------------------------------------------------------------------
(* The initramfs *)

Restart ==
    /\ At("android") /\ Goto("down")
    /\ UNCHANGED <<table, kernel, fixed, fs, root, request, computer>>

\* The kernel takes the first copy.  Recovery comes before everything else; a slot that
\* failed too often leaves Android.
Boot ==
    /\ At("down") /\ request.kind # "reset"
    /\ kernel' = first
    /\ pc' \in {"android"} \cup IF request = NoRequest THEN {} ELSE {"boot"}
    /\ UNCHANGED <<table, fixed, fs, root, request, computer>>

RecoveryWipes ==
    /\ At("down") /\ request.kind = "reset"
    /\ kernel' = first /\ fs' = Userdata(first)
    /\ request' = NoRequest /\ Goto("android")
    /\ UNCHANGED <<table, fixed, root, computer>>

\* Anything fails, or the power does.  What was written stays.
Stops ==
    /\ pc \notin {"android", "down", "gap"} /\ Goto("down")
    /\ request' = IF request.kind = "gap" THEN NoRequest ELSE request
    /\ UNCHANGED <<table, kernel, fixed, fs, root, computer>>

\* The sizes in the request; Target when it was left, which was by the same kernel's table.
Wanted == Asked.need
Keeps == Down(Asked.size + Asked.need) - Asked.need

\* Variant: the table is changed first, the filesystem after it.
ShrinkLater ==
    /\ At("boot") /\ request.kind = "shrink"
    /\ Goto(IF Has(first, Root) THEN "image" ELSE "resize")
    /\ UNCHANGED <<table, kernel, fixed, fs, root, request, computer>>

\* install_part_pending: the filesystem first ...
Shrink ==
    /\ At("boot") /\ request.kind = "shrink" /\ fs >= Keeps /\ Keeps >= Contents
    /\ fs' = Keeps
    /\ Goto(IF Has(first, Root) THEN "image" ELSE "resize")
    /\ UNCHANGED <<table, kernel, fixed, root, request, computer>>

\* ... then the end of userdata ...
ResizeLast == At("resize") /\ CanResize(first, Keeps) /\ WritesLast("resize", Resized(first, Keeps), "resize2")
ResizeFirst == WritesFirst("resize2", "add") /\ UNCHANGED <<root, request>>

\* ... then the root, in the largest free range there is.
AddLast == At("add") /\ CanAllocate(first, Wanted) /\ WritesLast("add", Allocated(first, Wanted), "add2")
AddFirst == WritesFirst("add2", "image") /\ UNCHANGED <<root, request>>

\* A root found, of the size at least, is as good as one added.
Image ==
    /\ At("image") /\ Of(first, Root).start % Align = 0 /\ Size(Of(first, Root)) >= Wanted
    /\ root' = [state |-> "installed", by |-> request.by]
    /\ records' = [records EXCEPT ![request.by].state = "done"]
    /\ request' = NoRequest /\ Goto("down")
    /\ UNCHANGED <<table, kernel, fixed, fs, removal, prompt>>

\* part_prepare_pending: both edits at once, the request checked against the kernel.
CarveLast ==
    /\ request.kind = "wipe" /\ ~Has(kernel, Root) /\ Userdata(kernel) = Asked.size + Asked.need
    /\ CanCarve(first, Keeps, Wanted, Asked.size + Asked.need)
    /\ WritesLast("boot", Carved(first, Keeps, Wanted), "carve2")

CarveFirst == WritesFirst("carve2", "carved") /\ UNCHANGED <<root, request>>

\* The marker in the new root, then the request to recovery.
CarveEnds ==
    /\ At("carved") /\ Goto("down")
    /\ root' = [state |-> "empty", by |-> request.by]
    /\ request' = [kind |-> "reset", by |-> request.by]
    /\ UNCHANGED <<table, kernel, fixed, fs, computer>>

\* verify_geometry: the nodes of the running kernel.
Geometry(t) ==
    LET plan == records[t].plan IN
    /\ Single(kernel, Root) /\ Size(Of(kernel, Root)) = plan.need
    /\ IF plan.kind = "gap" THEN Userdata(kernel) = plan.size /\ Of(kernel, Root).start = plan.start
       ELSE Userdata(kernel) = Down(plan.size + plan.need) - plan.need
            /\ Of(kernel, Root).start = Of(kernel, Data).end + 1

\* The second stage writes the system into the partition it made.
Resume(t) ==
    /\ At("android") /\ records[t].state = "run" /\ records[t].plan.kind # "shrink"
    /\ root = [state |-> "empty", by |-> t] /\ Geometry(t)
    /\ root' = [root EXCEPT !.state = "installed"]
    /\ records' = [records EXCEPT ![t].state = "done"]
    /\ UNCHANGED <<table, kernel, fixed, fs, pc, request, removal, prompt>>

-----------------------------------------------------------------------------
(* The plan of a removal: uninstall.prepare *)

\* A record whose saved table and plan explain what is on the disk.
Matches(t) ==
    LET record == records[t] IN
    /\ record.intact /\ CanRestore(record.original, first)
    /\ Valid(Restored(record.original, first))
    /\ record.plan.need = Size(Of(first, Root))
    /\ GaveUp(record.original, first)
       \/ (record.plan.kind = "gap" /\ record.plan.start = Of(first, Root).start)

\* Ext4Evidence: the markers of a finished installation are read from the partition itself.
HoldsSystem == root.state = "installed"

\* inspect_installation: the partition is what the kernel says, idle, and holds a system.
Proven ==
    /\ HoldsSystem /\ Single(kernel, Root)
    /\ Of(kernel, Root) = Of(first, Root)

\* android_volume, and eligible: the filesystem fits the partition and, but for 4 MiB and what
\* a mapping takes, fills it; and it is neither encrypted nor mapped.
NearlyFills(size, t) == size <= Userdata(t) /\ Userdata(t) - size <= Slack
VolumeKnown == NearlyFills(fs, kernel)
Preservable == VolumeKnown /\ ~encrypted

Evidence == [layout |-> first, fs |-> fs, root |-> root]

\* Variant: any answer to any question will do.
Answered == prompt # NoEvidence

\* The answer is to this question.
Authorised == prompt = Evidence

Removes(by, after, expands) ==
    /\ Valid(after) /\ SlotOf(kernel, Root) = SlotOf(first, Root)
    /\ Of(kernel, Data).start = Of(first, Data).start
    /\ expands \/ VolumeKnown
    /\ IF expands /\ ~Preservable /\ ~Authorised
       THEN prompt' = Evidence /\ UNCHANGED removal
       ELSE /\ removal' = [state |-> "planned", by |-> by, before |-> first, after |-> after, fs |-> fs,
                           action |-> IF ~expands THEN "gap" ELSE IF Preservable THEN "grow" ELSE "reset",
                           shown |-> prompt]
            /\ prompt' = NoEvidence

PlanRemoval ==
    /\ Readable /\ removal.state # "armed" /\ Has(kernel, Root) /\ Single(first, Root)
    /\ \/ \E t \in Txns :
            /\ Matches(t)
            /\ \A u \in Txns : Matches(u) => Restored(records[u].original, first) = Restored(records[t].original, first)
            /\ Removes(t, Restored(records[t].original, first), GaveUp(records[t].original, first))
       \/ /\ ~\E t \in Txns : Matches(t)
          /\ CanRemove(first) /\ Proven
          /\ Removes("device", Removed(first), Follows(first))
    /\ UNCHANGED <<table, kernel, fixed, fs, root, pc, request, records>>

\* layout_state.
LayoutIsBefore == first = removal.before /\ last = removal.before

\* Uninstaller.arm.
Arm ==
    /\ At("android") /\ removal.state = "planned" /\ LayoutIsBefore
    /\ Userdata(kernel) = Userdata(removal.before)
    /\ removal.by = "device" => Proven
    /\ removal.action = "grow" => Preservable /\ fs = removal.fs
    /\ removal' = [removal EXCEPT !.state = "armed"]
    /\ request' = [kind |-> "remove", by |-> removal.by]
    /\ UNCHANGED <<table, kernel, fixed, fs, root, pc, records, prompt>>

\* Variant: the device does not compare.
AnySnapshot == TRUE

\* snapshot_known: each copy is one or the other.
SnapshotKnown == {first, last} \subseteq {removal.before, removal.after}

\* Recovery is asked for before the table changes, and not again once it has.
RemoveAsks ==
    /\ At("boot") /\ request.kind = "remove" /\ SnapshotKnown
    /\ IF <<first, last>> = <<removal.after, removal.after>>
       THEN Goto("removed") /\ UNCHANGED request
       ELSE /\ Goto("remove")
            /\ request' = IF removal.action = "reset" THEN [request EXCEPT !.kind = "reset"] ELSE request
    /\ UNCHANGED <<table, kernel, fixed, fs, root, computer>>

RemoveLast ==
    /\ At("remove") /\ last' = removal.after /\ Goto("remove2")
    /\ UNCHANGED <<first, kernel, fixed, fs, root, request, computer>>

RemoveFirst ==
    /\ WritesFirst("remove2", "removed")
    /\ root' = NoRoot /\ UNCHANGED request

\* The filesystem grows into what userdata has got, or recovery makes a new one.
RemoveEnds ==
    /\ At("removed")
    /\ fs' = IF removal.action = "grow" THEN Userdata(first) ELSE fs
    /\ removal' = [removal EXCEPT !.state = "done"]
    /\ request' = IF removal.action = "reset" THEN request ELSE NoRequest
    /\ Goto("down")
    /\ UNCHANGED <<table, kernel, fixed, root, records, prompt>>

-----------------------------------------------------------------------------
(* What happens around it *)

\* Another program adds a partition.  The kernel does not learn of it.
ForeignPartition(s) ==
    /\ Readable /\ ~Has(first, "foreign") /\ Unused(first) # {} /\ {s, s + 1} \subseteq Free(first)
    /\ first' = [first EXCEPT ![LeastUnused(first)] = [name |-> "foreign", start |-> s, end |-> s + 1]]
    /\ last' = first'
    /\ UNCHANGED <<kernel, fixed, fs, root, pc, request, computer>>

\* The backup of an installation is lost or damaged.
LoseBackup(t) ==
    /\ records[t].state = "done" /\ records[t].intact
    /\ records' = [records EXCEPT ![t].intact = FALSE]
    /\ UNCHANGED <<table, kernel, fixed, fs, root, pc, request, removal, prompt>>

-----------------------------------------------------------------------------

Init ==
    /\ first \in Factory /\ last = first /\ kernel = first
    /\ unlisted \in {{}} \cup {{g.start} : g \in Gaps(first)}
    /\ encrypted \in BOOLEAN
    /\ fs \in {size \in 0..Userdata(first) : NearlyFills(size, first)}
    /\ root = NoRoot /\ pc = "android" /\ request = NoRequest
    /\ records = [t \in Txns |-> NoRecord] /\ removal = NoRemoval /\ prompt = NoEvidence

Installs == \E t \in Txns : \/ Execute(t) \/ Resume(t)
                            \/ \E need \in Needs, asked \in BOOLEAN : Plan(t, need, asked)
OnAndroid == Installs \/ GapLast \/ GapFirst \/ GapStops \/ PlanRemoval \/ Arm
Initramfs == \/ Shrink \/ ResizeLast \/ ResizeFirst \/ AddLast \/ AddFirst \/ Image
             \/ CarveLast \/ CarveFirst \/ CarveEnds \/ RemoveAsks \/ RemoveLast \/ RemoveFirst \/ RemoveEnds
Around == \/ Restart \/ Boot \/ RecoveryWipes \/ Stops
          \/ \E s \in First..Last : ForeignPartition(s)
          \/ \E t \in Txns : LoseBackup(t)

Next == OnAndroid \/ Initramfs \/ Around

Spec == Init /\ [][Next]_vars

-----------------------------------------------------------------------------
(* Properties *)

\* Every variable holds what its declaration says.
TypeOK ==
    /\ first \in Tables /\ last \in Tables /\ kernel \in Tables
    /\ unlisted \subseteq First..Last /\ encrypted \in BOOLEAN /\ fs \in Nat
    /\ root.state \in {"none", "empty", "installed"} /\ root.by \in Txns \cup {NoTxn}
    /\ pc \in {"android", "gap", "gap2", "down", "boot", "resize", "resize2", "add", "add2", "image",
               "carve2", "carved", "remove", "remove2", "removed"}
    /\ request.kind \in {"none", "gap", "shrink", "wipe", "reset", "remove"}
    /\ \A t \in Txns : records[t].state \in {"none", "planned", "run", "done"}
    /\ removal.state \in {"none", "planned", "armed", "done"}
    /\ removal.action \in {"none", "gap", "grow", "reset"}

\* No two partitions share a sector, in either copy of the table, after any edit of any of
\* the programs and between the two writes.
TablesValid == Valid(first) /\ Valid(last)

\* The partitions of others are never moved or removed, whatever the age of the plan.
OthersStay ==
    [][\A i \in Slots : first[i].name \notin {"none", Root, Data} => first'[i] = first[i]]_vars

\* Android's filesystem is never larger than its partition, in the table that the next
\* start reads, unless its user agreed to lose it.
FileSystemFits ==
    \/ request.kind = "reset"
    \/ \E t \in Txns : records[t].state = "run" /\ records[t].plan.kind = "wipe"
    \/ fs <= Userdata(first)

\* Android keeps its reserve beside a system installed in what userdata gave up, and beside
\* its files, in whole MiB, if they stayed: of the partition as it is written, not as planned.
AndroidKeepsRoom ==
    root.state = "installed" =>
        LET kind == records[root.by].plan.kind IN
        /\ kind \in {"wipe", "shrink"} => Userdata(first) >= MinPart
        /\ kind = "shrink" => fs >= MinPart + Down(Contents)

\* A plan that takes free space leaves the old filesystems in it alone, on a phone whose
\* userdata no plan has shrunk: README, section 10.
GapSparesUnlisted ==
    /\ \A t \in Txns : records[t].plan.kind \notin {"shrink", "wipe"}
    /\ root.by \in Txns /\ records[root.by].plan.kind = "gap"
    => Sectors(Of(first, Root)) \cap unlisted = {}

\* A removal by a record leaves the table that the installation found, entry by entry.
RemovalRestores ==
    [][removal.state = "armed" /\ removal'.state = "done" /\ removal.by \in Txns =>
          first' = records[removal.by].original /\ last' = first']_vars

\* What this program installed it can remove: a backup that is there explains the table, if
\* no other program changed it and there was no old filesystem to go around.
Removable ==
    \A t \in Txns :
        /\ root = [state |-> "installed", by |-> t] /\ records[t].intact /\ unlisted = {}
        /\ Of(records[t].original, Data).start % Align = 0 /\ ~Has(records[t].original, Root)
        /\ first = last /\ (Has(first, "foreign") => Has(records[t].original, "foreign"))
        => Matches(t)

\* Data is erased by a removal only if the user agreed when shown just that state.
ErasesAsShown ==
    removal.action = "reset" =>
        removal.shown.layout = removal.before /\ removal.shown.fs = removal.fs

\* No table ever has two partitions in one sector; Android's filesystem fits its partition,
\* and keeps its room beside a system; and a plan for free space leaves old filesystems alone
\* (TablesValid, FileSystemFits, AndroidKeepsRoom, GapSparesUnlisted).
AndroidKeepsItsData == TablesValid /\ FileSystemFits /\ AndroidKeepsRoom /\ GapSparesUnlisted

\* What was installed can be removed, and data is erased only as its user was shown; the
\* partitions of others stay whatever the age of a plan, and a removal by a record leaves the
\* table that the installation found (Removable, ErasesAsShown, OthersStay, RemovalRestores).
RemovesAsShown == [](Removable /\ ErasesAsShown) /\ OthersStay /\ RemovalRestores

\* Nothing that no partition names is overwritten: "Retain unlisted old filesystems".
\* Does not hold: README, section 10.
UnlistedKept == root.state # "none" => Sectors(Of(first, Root)) \cap unlisted = {}

\* A root has the size that its installation confirmed.
\* Does not hold: README, section 10.
InstalledAsPlanned == root.state = "installed" => Size(Of(first, Root)) = records[root.by].plan.need
=============================================================================
