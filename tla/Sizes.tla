-------------------------------- MODULE Sizes --------------------------------
(***************************************************************************)
(* The size of a new system and the room for it on userdata: what is       *)
(* planned (plan_install), what the flasher makes of it (part_target,      *)
(* choose_userdata_size, ensure_userdata_space), and the image that        *)
(* userdata-image.sh makes, while Android goes on writing.                 *)
(*                                                                         *)
(* The coordinator rounds up to 4 MiB, the flasher to 1 MiB; each computes *)
(* the room from another reading of the free space.  What is written       *)
(* besides is in FlashInstall, the partition table in Partitions.          *)
(***************************************************************************)
EXTENDS Integers

CONSTANTS
    Mib,      \* units of size in 1 MiB
    Step,     \* in 4 MiB
    Disk,     \* size of userdata
    Raw,      \* size of the packaged system
    Least,    \* 2 GiB
    Reserve,  \* 1 GiB
    Budget,   \* 512 MiB
    Extra,    \* 256 MiB
    Upload,   \* the compressed system and the boot image
    Tools,    \* the filesystem tools
    Used,     \* sizes of Android's files to begin with
    Changes,  \* units that Android writes or deletes at a time
    MaxWrites \* and how often meanwhile

UnitsAssumption == {Mib, Step} \subseteq Nat \ {0} /\ Step % Mib = 0 /\ Raw % Mib = 0 /\ Raw <= Least
RoomAssumption == {Disk, Raw, Least, Reserve, Budget, Extra, Upload, Tools, MaxWrites} \cup Used \subseteq Nat
ChangesAssumption == Changes \subseteq Nat

VARIABLES
    android, \* what Android's files take
    writes,  \* how often that changed
    plan,    \* the confirmed plan
    base,    \* android when the sizes were last computed
    uploads, \* what the installer has put into the temporary directory
    part,    \* the image in the making
    image,   \* the image in use
    kept,    \* what the images before it take
    phase

vars == <<android, writes, plan, base, uploads, part, image, kept, phase>>

NoPlan == [method |-> "none", size |-> 0]
None == [size |-> 0, whole |-> FALSE]

Up(n, unit) == ((n + unit - 1) \div unit) * unit
Down(n, unit) == IF n < 0 THEN 0 ELSE (n \div unit) * unit

\* userdata_free.
Free == Disk - android - uploads - part.size - image.size - kept

Goto(p) == phase' = p

-----------------------------------------------------------------------------
(* The plan *)

\* Variant: what will be uploaded is not taken off.
PlanMaximumBare == Free - Reserve - Budget

\* All the payloads of the package, as the computer has them.
PlanMaximum == Free - Reserve - Budget - Upload - Tools

Plannable(method, size) ==
    /\ size >= Least
    /\ IF method = "image" THEN size <= PlanMaximum
       ELSE LET remains == Disk - size IN
            \* Used as userdata's size less what is free.
            remains >= Least /\ remains >= Disk - Free + Least

\* The size is given in GiB, with a fraction.
Plan(method, asked) ==
    /\ phase \in {"idle", "refused", "failed"}
    /\ Plannable(method, Up(asked, Step))
    /\ plan' = [method |-> method, size |-> Up(asked, Step)]
    /\ Goto("confirmed") /\ base' = android
    /\ UNCHANGED <<android, writes, uploads, part, image, kept>>

\* It is computed again when it is carried out.
Execute ==
    /\ phase = "confirmed"
    /\ IF Plannable(plan.method, plan.size) THEN Goto("run") /\ base' = android
       ELSE Goto("idle") /\ UNCHANGED base
    /\ UNCHANGED <<android, writes, plan, uploads, part, image, kept>>

-----------------------------------------------------------------------------
(* What the flasher makes of it.  args_for gives it the size in GiB. *)

\* Variant: rounded as the free space is.
SelectedDown == Down(plan.size - 1, Mib)

Selected == Up(plan.size, Mib)

ImageRange == Up(Raw, Mib)..Down(Free - Reserve - Budget - Upload, Mib)

\* Used as df says, in whole MiB.
PartRange == (Up(Raw, Mib) + Extra)..(Down(Disk, Mib) - Down(Disk - Free, Mib) - Least)

InRange == Selected \in IF plan.method = "image" THEN ImageRange ELSE PartRange

\* validate_plan: another size than the confirmed one is refused.
Choose ==
    /\ phase = "run"
    /\ IF InRange /\ part = None /\ (plan.method = "part" => Selected = plan.size)
       THEN Goto(IF plan.method = "image" THEN "collect" ELSE "partition")
       ELSE Goto("refused")
    /\ base' = android
    /\ UNCHANGED <<android, writes, plan, uploads, part, image, kept>>

-----------------------------------------------------------------------------
(* The image *)

Refuse == Goto("failed") /\ UNCHANGED <<android, writes, plan, base, uploads, part, image, kept>>

\* The phone's firmware, then the payloads, under fixed names.
Collect(firmware) ==
    /\ phase = "collect"
    /\ LET space == Free + uploads - firmware - Upload - Tools IN
       IF space < 0 THEN Refuse
       ELSE /\ uploads' = firmware + Upload + Tools /\ Goto("recheck")
            /\ UNCHANGED <<android, writes, plan, base, part, image, kept>>

\* Variant: the free space read before the uploads is enough.
NoRecheck == phase = "recheck" /\ Goto("unpack") /\ base' = android
             /\ UNCHANGED <<android, writes, plan, uploads, part, image, kept>>

\* ensure_userdata_space, of the free space after the uploads.
Recheck ==
    /\ phase = "recheck"
    /\ IF Selected + Reserve + Budget <= Free THEN Goto("unpack") /\ base' = android
       ELSE Goto("failed") /\ UNCHANGED base
    /\ UNCHANGED <<android, writes, plan, uploads, part, image, kept>>

\* gzip; what is left over when it fails is removed by the script.
Unpack ==
    /\ phase = "unpack"
    /\ IF Free < Raw THEN Refuse
       ELSE /\ part' = [size |-> Raw, whole |-> FALSE] /\ Goto("enlarge")
            /\ UNCHANGED <<android, writes, plan, base, uploads, image, kept>>

\* Variant: the file only promises its blocks.
EnlargeSparse ==
    /\ phase = "enlarge"
    /\ part' = [size |-> Selected, whole |-> FALSE] /\ Goto("commit")
    /\ UNCHANGED <<android, writes, plan, base, uploads, image, kept>>

\* Every block of it is allocated, and the filesystem made as large.  The payloads are removed.
Enlarge ==
    /\ phase = "enlarge"
    /\ IF Free < Selected - part.size
       THEN /\ part' = None /\ Goto("failed")
            /\ UNCHANGED <<android, writes, plan, base, uploads, image, kept>>
       ELSE /\ part' = [size |-> Selected, whole |-> TRUE] /\ Goto("commit")
            /\ uploads' = uploads - Upload - Tools
            /\ UNCHANGED <<android, writes, plan, base, image, kept>>

\* An image in use is kept; the firmware moves along.
Commit ==
    /\ phase = "commit"
    /\ image' = part /\ part' = None /\ kept' = kept + image.size
    /\ Goto("installed")
    /\ UNCHANGED <<android, writes, plan, base, uploads>>

\* The power fails: a script that is killed removes nothing, and the next one refuses it.
PowerCut ==
    /\ phase \in {"collect", "recheck", "unpack", "enlarge", "commit"} /\ Goto("failed")
    /\ UNCHANGED <<android, writes, plan, base, uploads, part, image, kept>>

\* verify_ext4_capacity, of the new system: within 4 MiB of what was planned.
Verify ==
    /\ phase = "installed"
    /\ Goto(IF image.size \in (plan.size - Step)..plan.size THEN "verified" ELSE "mismatch")
    /\ UNCHANGED <<android, writes, plan, base, uploads, part, image, kept>>

\* Android writes and deletes while it runs.
Android(change) ==
    /\ writes < MaxWrites /\ phase \notin {"idle", "installed", "verified", "mismatch", "partition"}
    /\ android + change >= 0 /\ Free - change >= 0
    /\ android' = android + change /\ writes' = writes + 1
    /\ UNCHANGED <<plan, base, uploads, part, image, kept, phase>>

-----------------------------------------------------------------------------

\* The image before this one, if any, has the size of the packaged system.
Init ==
    /\ android \in Used /\ writes = 0 /\ plan = NoPlan /\ base = android
    /\ uploads = 0 /\ part = None /\ kept = 0 /\ phase = "idle"
    /\ image \in {None, [size |-> Raw, whole |-> TRUE]} /\ Free >= 0

Computer == (\E method \in {"image", "part"}, asked \in 1..Disk : Plan(method, asked)) \/ Execute \/ Choose
Phone == (\E firmware \in 1..Budget : Collect(firmware)) \/ Recheck \/ Unpack \/ Enlarge \/ Commit \/ Verify
Next == Computer \/ Phone \/ PowerCut \/ (\E change \in Changes : Android(change) \/ Android(0 - change))

Spec == Init /\ [][Next]_vars

-----------------------------------------------------------------------------
(* Properties *)

\* Every variable holds what its declaration says, and userdata is never more than full.
TypeOK ==
    /\ android \in 0..Disk /\ base \in 0..Disk /\ writes \in 0..MaxWrites /\ Free \in 0..Disk
    /\ plan.method \in {"none", "image", "part"} /\ plan.size \in 0..Disk
    /\ phase \in {"idle", "confirmed", "run", "refused", "collect", "recheck", "unpack", "enlarge", "commit",
               "partition", "failed", "installed", "verified", "mismatch"}

\* An image that is offered by the coordinator is in the range of the flasher, however both
\* round and whatever earlier runs left in the temporary directory, unless Android wrote in
\* between.  (One in the making that was left over is refused for itself: Choose.)
PlannedImageFits ==
    phase = "run" /\ plan.method = "image" /\ android <= base => InRange

\* What the user confirmed is what is installed, and what the new system is measured by.
InstalledAsConfirmed ==
    /\ phase \in {"installed", "verified"} => image.size = plan.size /\ image.whole
    /\ phase # "mismatch"

\* The installer leaves Android its reserve: when the image is complete it is still there, but
\* for what Android itself wrote since the last look at the free space.
ReserveKept == phase \in {"commit", "installed"} /\ part.size + image.size > 0 => Free + (android - base) >= Reserve

\* A partition that the plan offers is in the flasher's range: "OpenWrt needs at least 2 GiB".
\* Does not hold: README, section 10.
PlannedPartFits == phase = "run" /\ plan.method = "part" /\ android <= base => InRange

\* An image in the range that is shown can be made, if Android writes nothing: the range has
\* the payloads and the budget taken off.
\* Does not hold: README, section 10.
OfferedImageFits ==
    phase = "recheck" /\ android <= base => Selected + Reserve + Budget <= Free
=============================================================================
