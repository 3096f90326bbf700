---------------------------- MODULE FlashInstall ----------------------------
(***************************************************************************)
(* The command-line installer, openwrt/bundle/flash.py, run from Android:  *)
(* onto a card (install_sd), into an image file on userdata (install),     *)
(* into a partition that the next boot carves (install_part), the one-time *)
(* start of what is installed (boot_openwrt) and the trial run (check).    *)
(* On the other side of the restart: install_part_pending and the choice   *)
(* of a root in the initramfs, boot/init.                                  *)
(*                                                                         *)
(* Every mode is a sequence of steps, each of which may fail; the process  *)
(* may be stopped and the power lost between any two, and within those     *)
(* that write.  A later run starts on what an earlier one left.            *)
(*                                                                         *)
(* Outside the repository, and as this code uses them: the boot loader,    *)
(* which uses up a try of slot B at each start, and Android.               *)
(***************************************************************************)
EXTENDS Naturals

CONSTANTS
    Runs,     \* invocations of the installer
    Modes,    \* those asked for: "sd", "data", "part", "boot", "check"
    NoRun

ASSUME RunsAssumption == NoRun \notin Runs
ASSUME ModesAssumption == Modes \subseteq {"sd", "data", "part", "boot", "check"}

VARIABLES
    left,     \* invocations not made yet
    host,     \* the process: its mode, and the step it is at
    tmp,      \* what lies in /data/local/tmp
    card,     \* the target on the card
    store,    \* /data/e5linux: images, firmware, request of a partition
    root,     \* the partition e5root
    boot,     \* contents of boot_b
    target,   \* boot-os, boot-os-next
    control,  \* boot control: which slot, how many tries
    mode,     \* what the device runs
    vendor,   \* are all the files an installation needs on this phone?
    orphan,   \* a command that writes the card, left behind
    history   \* what the properties are about

vars == <<left, host, tmp, card, store, root, boot, target, control, mode, vendor, orphan, history>>
device == <<card, store, root, boot, target, control, mode, vendor, orphan, history>>

Owner == Runs \cup {NoRun}
Nothing == [state |-> "none", by |-> NoRun]
By(state) == [state |-> state, by |-> host.run]

\* Variant: the target is recorded, and slot B selected, before the image is checked.
SelectsBeforeBoot ==
    [checks |-> "tools", tools |-> "preflight", preflight |-> "fits", fits |-> "consent",
     consent |-> "collect", collect |-> "upload", upload |-> "release", release |-> "chain",
     chain |-> "again", again |-> "erase", erase |-> "readback", readback |-> "grow",
     grow |-> "fill", fill |-> "verify", verify |-> "select", select |-> "arm",
     arm |-> "flash", flash |-> "bootcheck", bootcheck |-> "end"]

\* Variant: the card is erased before anything is collected.
ErasesFirst ==
    [checks |-> "tools", tools |-> "preflight", preflight |-> "fits", fits |-> "consent",
     consent |-> "release", release |-> "chain", chain |-> "again", again |-> "erase",
     erase |-> "readback", readback |-> "grow", grow |-> "collect", collect |-> "upload",
     upload |-> "fill", fill |-> "verify", verify |-> "flash", flash |-> "bootcheck",
     bootcheck |-> "select", select |-> "arm", arm |-> "end"]

\* The steps of each mode, in the order of the code: onto the card,
InstallSd ==
    [checks |-> "tools", tools |-> "preflight", preflight |-> "fits", fits |-> "consent",
     consent |-> "collect", collect |-> "upload", upload |-> "release", release |-> "chain",
     chain |-> "again", again |-> "erase", erase |-> "readback", readback |-> "grow",
     grow |-> "fill", fill |-> "verify", verify |-> "flash", flash |-> "bootcheck",
     bootcheck |-> "select", select |-> "arm", arm |-> "end"]

\* into an image on userdata,
InstallData ==
    [checks |-> "tools", tools |-> "plaintext", plaintext |-> "preflight",
     preflight |-> "clear", clear |-> "consent", consent |-> "collect",
     collect |-> "upload", upload |-> "image", image |-> "chain", chain |-> "keep",
     keep |-> "commit", commit |-> "settle", settle |-> "flash", flash |-> "bootcheck",
     bootcheck |-> "select", select |-> "arm", arm |-> "end"]

\* into a partition that the next boot makes,
InstallPart ==
    [checks |-> "tools", tools |-> "preflight", preflight |-> "plaintext",
     plaintext |-> "room", room |-> "consent", consent |-> "collect", collect |-> "upload",
     upload |-> "payload", payload |-> "request", request |-> "chain", chain |-> "flash",
     flash |-> "bootcheck", bootcheck |-> "select", select |-> "arm", arm |-> "end"]

\* what is installed, once,
BootInstalled == [checks |-> "tools", tools |-> "inspect", inspect |-> "arm", arm |-> "reboot"]

\* and the trial run.
CheckOnly ==
    [checks |-> "tools", tools |-> "preflight", preflight |-> "collect",
     collect |-> "discard", discard |-> "end"]

Following == [sd |-> InstallSd, data |-> InstallData, part |-> InstallPart,
              boot |-> BootInstalled, check |-> CheckOnly]

Steps == {"off", "checks", "tools", "plaintext", "preflight", "fits", "clear", "room", "inspect",
          "consent", "collect", "discard", "upload", "release", "chain", "again", "erase",
          "readback", "grow", "fill", "verify", "image", "keep", "commit", "settle", "payload",
          "request", "flash", "bootcheck", "select", "arm", "reboot", "end"}

Off == [mode |-> "check", run |-> NoRun, pc |-> "off", half |-> FALSE]
TargetOf == [sd |-> "sd", data |-> "openwrt", part |-> "part"]

-----------------------------------------------------------------------------
(* Helpers *)

\* The process is at this step, and an Android answers it.
At(pc) == host.pc = pc /\ ~host.half /\ mode = "android"
Goto(pc) == host' = [host EXCEPT !.pc = pc, !.half = FALSE]
Proceed == Goto(Following[host.mode][host.pc])

\* A step that looks and changes nothing on the device.
Passes(pc, accepted) ==
    /\ At(pc) /\ accepted
    /\ Proceed
    /\ UNCHANGED <<left, tmp, device>>

\* A long command: it has begun, and the target is neither old nor new.
Begins(pc) == At(pc) /\ host' = [host EXCEPT !.half = TRUE] /\ UNCHANGED <<left, tmp>>
Ends(pc) == host.pc = pc /\ host.half /\ mode = "android" /\ Proceed /\ UNCHANGED left

\* Variant: the priorities of the slots are not compared.
AnyControl == TRUE

\* validate_boot_control: Android successful, and B without the higher priority.
TrialAllowed == control = "a"

-----------------------------------------------------------------------------
(* The process: what it checks *)

\* main: the process starts in the mode it was asked for.
Start(r, m) ==
    /\ host.pc = "off" /\ r \in left
    /\ left' = left \ {r}
    /\ host' = [mode |-> m, run |-> r, pc |-> "checks", half |-> FALSE]
    /\ UNCHANGED <<tmp, device>>

\* android_checks: one device, root, slot A, unlocked.
AndroidChecks == Passes("checks", mode = "android")

\* android_tools: a private directory, made anew by every run.
AndroidTools ==
    /\ At("tools")
    /\ tmp' = tmp \cup {"tools"}
    /\ Proceed
    /\ UNCHANGED <<left, device>>

\* install_preflight: boot control, size and hash of the boot image, boot chain.
InstallPreflight ==
    /\ At("preflight") /\ TrialAllowed
    /\ tmp' = tmp \cup {"bootchain"}
    /\ Proceed
    /\ UNCHANGED <<left, device>>

\* The user's yes to the plan that is shown.
Consent == Passes("consent", TRUE)

\* The card is there, can be written and is large enough.
CardFits == Passes("fits", card.state # "none")

\* unmount_android_sd: Android lets go of the card's volumes.
ReleaseCard == Passes("release", card.state # "none")

\* After that the same node and capacity are found.
CardAgain == Passes("again", card.state # "none")

\* check_userdata_image_source, part_userdata_policy: userdata is not encrypted and
\* the user does not ask for a reset.
Plaintext == Passes("plaintext", TRUE)

\* No image half made or waiting to be exchanged.
StoreIsClear == Passes("clear", store.part.state = "none")

\* part_target: userdata has the room, and no e5root exists yet.
RoomForPart == Passes("room", root.state = "none")

\* inspect_linux_boot: slot B has an image of this family, by its first and last
\* blocks.  One torn between two images of the same size has both.
InspectBoot == Passes("inspect", boot.state # "none")

\* _bootchain("sync"): the other partitions that slot B starts from.
SyncChain == Passes("chain", TRUE)

-----------------------------------------------------------------------------
(* The process: what it prepares *)

\* pull_device_files: firmware out of Android, converted, and packed on the phone.
\* The phone's directories and archives are removed as they are used up.
CollectBegins ==
    /\ At("collect")
    /\ tmp' = tmp \cup {"e5pull"}
    /\ host' = [host EXCEPT !.half = TRUE]
    /\ UNCHANGED <<left, device>>

\* Variant: a file that is missing is not noticed.
AnyFiles ==
    /\ Ends("collect")
    /\ tmp' = (tmp \ {"e5pull"}) \cup {"files"}
    /\ UNCHANGED device

CollectEnds ==
    /\ Ends("collect") /\ vendor = "complete"
    /\ tmp' = (tmp \ {"e5pull"}) \cup {"files"}
    /\ UNCHANGED device

\* check deletes the archive it had made.
Discard ==
    /\ At("discard")
    /\ tmp' = tmp \ {"files"}
    /\ Proceed
    /\ UNCHANGED <<left, device>>

\* push: pieces, checked as a whole at the end.
Upload ==
    /\ At("upload")
    /\ tmp' = tmp \cup {"image", "boot"}
    /\ Proceed
    /\ UNCHANGED <<left, device>>

-----------------------------------------------------------------------------
(* The process: the card *)

EraseBegins ==
    /\ Begins("erase")
    /\ card' = By("torn")
    /\ UNCHANGED <<store, root, boot, target, control, mode, vendor, orphan, history>>

\* A card may report success and hold something else.
EraseEnds ==
    /\ Ends("erase")
    /\ card' \in {By("bare"), By("torn")}
    /\ UNCHANGED <<tmp, store, root, boot, target, control, mode, vendor, orphan, history>>

\* Variant: what was written is not read again.
BelievesCard == TRUE

\* The hash of what the card gives back is the image's.
CardReadsBack == card.state = "bare"

Readback ==
    /\ At("readback") /\ CardReadsBack
    /\ tmp' = tmp \ {"image"}
    /\ Proceed
    /\ UNCHANGED <<left, device>>

\* android-tf.sh grow: checked, enlarged, checked.
Grow == Passes("grow", card.state # "none")

\* Settings and marker first, then the device files.
FillBegins ==
    /\ Begins("fill")
    /\ card' = [card EXCEPT !.state = IF @ = "bare" THEN "marked" ELSE @]
    /\ UNCHANGED <<store, root, boot, target, control, mode, vendor, orphan, history>>

FillEnds ==
    /\ Ends("fill")
    /\ card' \in {card, [card EXCEPT !.state = IF @ = "marked" THEN "whole" ELSE @]}
    /\ UNCHANGED <<tmp, store, root, boot, target, control, mode, vendor, orphan, history>>

\* Variant: the files are looked for, their contents not compared.
FilesExist == card.state # "none"

\* Unmounted, mounted read-only, the firmware against the hashes taken before: of
\* the image itself this says nothing.
FilesVerify == card.state # "marked"

VerifyCard ==
    /\ At("verify") /\ FilesVerify
    /\ tmp' = tmp \ {"files"}
    /\ Proceed
    /\ UNCHANGED <<left, device>>

-----------------------------------------------------------------------------
(* The process: the image on userdata *)

\* userdata-image.sh: made under another name, enlarged, checked, looked into.
ImageBegins ==
    /\ Begins("image") /\ store.part.state = "none"
    /\ store' = [store EXCEPT !.part = By("torn")]
    /\ UNCHANGED <<card, root, boot, target, control, mode, vendor, orphan, history>>

ImageEnds ==
    /\ Ends("image")
    /\ store' = [store EXCEPT !.part = By("whole")]
    /\ tmp' = tmp \ {"image"}
    /\ UNCHANGED <<card, root, boot, target, control, mode, vendor, orphan, history>>

\* Variant: the image in use is replaced.
ReplaceOld ==
    /\ At("keep")
    /\ store' = store
    /\ Proceed
    /\ UNCHANGED <<left, tmp, card, root, boot, target, control, mode, vendor, orphan, history>>

\* The commit is one command of several moves: an image in use is kept ...
KeepOld ==
    /\ At("keep")
    /\ store' = IF store.image.state = "none" THEN store
                ELSE [store EXCEPT !.kept = @ \cup {store.image.by}, !.image = Nothing]
    /\ Proceed
    /\ UNCHANGED <<left, tmp, card, root, boot, target, control, mode, vendor, orphan, history>>

\* ... the new one takes its name ...
CommitImage ==
    /\ At("commit")
    /\ store' = [store EXCEPT !.image = store.part, !.part = Nothing]
    /\ Proceed
    /\ UNCHANGED <<left, tmp, card, root, boot, target, control, mode, vendor, orphan, history>>

\* ... and the firmware and the settings follow.
CommitFiles ==
    /\ At("settle")
    /\ store' = [store EXCEPT !.files = host.run]
    /\ tmp' = tmp \ {"files"}
    /\ Proceed
    /\ UNCHANGED <<left, card, root, boot, target, control, mode, vendor, orphan, history>>

-----------------------------------------------------------------------------
(* The process: the request for a partition *)

\* Image, firmware and settings are moved into place ...
StagePayload ==
    /\ At("payload")
    /\ store' = [store EXCEPT !.payload = host.run, !.files = host.run]
    /\ tmp' = tmp \ {"image", "files"}
    /\ Proceed
    /\ UNCHANGED <<left, card, root, boot, target, control, mode, vendor, orphan, history>>

\* ... and the request last, by a rename.
StageRequest ==
    /\ At("request")
    /\ store' = [store EXCEPT !.request = host.run]
    /\ Proceed
    /\ UNCHANGED <<left, tmp, card, root, boot, target, control, mode, vendor, orphan, history>>

-----------------------------------------------------------------------------
(* The process: slot B *)

FlashBegins ==
    /\ Begins("flash")
    /\ boot' = By("torn")
    /\ UNCHANGED <<card, store, root, target, control, mode, vendor, orphan, history>>

FlashEnds ==
    /\ Ends("flash")
    /\ boot' \in {By("whole"), By("torn")}
    /\ UNCHANGED <<tmp, card, store, root, target, control, mode, vendor, orphan, history>>

\* The partition's hash is that of boot.json.
BootCheck ==
    /\ At("bootcheck") /\ boot.state = "whole"
    /\ tmp' = tmp \ {"boot"}
    /\ Proceed
    /\ UNCHANGED <<left, device>>

\* Variant: a choice made for one boot is left.
RecordOnly ==
    /\ At("select")
    /\ target' = [target EXCEPT !.os = TargetOf[host.mode]]
    /\ Proceed
    /\ UNCHANGED <<left, tmp, card, store, root, boot, control, mode, vendor, orphan, history>>

\* boot-os, and no choice for one boot before it.
RecordTarget ==
    /\ At("select")
    /\ target' = [os |-> TargetOf[host.mode], once |-> "none"]
    /\ Proceed
    /\ UNCHANGED <<left, tmp, card, store, root, boot, control, mode, vendor, orphan, history>>

\* _arm_slot_b: derived from the block in use, and read back.
ArmSlotB ==
    /\ At("arm") /\ TrialAllowed
    /\ control' = "trial"
    /\ history' = [history EXCEPT !.armed = [mode |-> host.mode, run |-> host.run]]
    /\ Proceed
    /\ UNCHANGED <<left, tmp, card, store, root, boot, target, mode, vendor, orphan>>

\* boot_openwrt restarts the device itself; an installation asks the user to.
Reboot ==
    /\ At("reboot")
    /\ mode' = "off" /\ host' = Off
    /\ UNCHANGED <<left, tmp, card, store, root, boot, target, control, vendor, orphan, history>>

End ==
    /\ host.pc = "end"
    /\ host' = Off
    /\ UNCHANGED <<left, tmp, device>>

\* A failed check or command, a timeout, an interrupted process.  A command on the
\* device ends with it, or outlives the process; a script that fails removes the
\* image it was making, one that is killed does not.
Stop ==
    /\ host.pc # "off"
    /\ host' = Off
    /\ \/ UNCHANGED <<orphan, history>>
       \/ /\ host.pc = "erase" /\ host.half
          /\ orphan' = host.run
          /\ history' = [history EXCEPT !.outlived = TRUE]
    /\ store' \in {store} \cup IF host.pc = "image" /\ host.half
                                THEN {[store EXCEPT !.part = Nothing]} ELSE {}
    /\ UNCHANGED <<left, tmp, card, root, boot, target, control, mode, vendor>>

\* The command left behind goes on ...
OrphanWrites ==
    /\ orphan # NoRun
    /\ card' = [state |-> "torn", by |-> orphan]
    /\ UNCHANGED <<left, host, tmp, store, root, boot, target, control, mode, vendor, orphan, history>>

\* ... to its end.
OrphanEnds ==
    /\ orphan # NoRun
    /\ card' = [state |-> "bare", by |-> orphan]
    /\ orphan' = NoRun
    /\ UNCHANGED <<left, host, tmp, store, root, boot, target, control, mode, vendor, history>>

-----------------------------------------------------------------------------
(* The device *)

PowerLoss ==
    /\ mode # "off"
    /\ mode' = "off" /\ host' = Off /\ orphan' = NoRun
    /\ UNCHANGED <<left, tmp, card, store, root, boot, target, control, vendor, history>>

\* A try is used up; an image that cannot be started leads back here.
BootB ==
    /\ mode = "off" /\ control \in {"trial", "last"}
    /\ control' = IF control = "trial" THEN "last" ELSE "spent"
    /\ \/ mode' = IF store.request = NoRun THEN "initramfs" ELSE "pending"
       \/ mode' = "off" /\ boot.state # "whole"
    /\ boot.state = "none" => mode' = "off"
    /\ UNCHANGED <<left, host, tmp, card, store, root, boot, target, vendor, orphan, history>>

\* Android; the boot loader may deselect a slot without tries.
BootA ==
    /\ mode = "off" /\ control \in {"a", "spent"}
    /\ control' \in {control, "a"}
    /\ mode' = "android"
    /\ UNCHANGED <<left, host, tmp, card, store, root, boot, target, vendor, orphan, history>>

\* install_part_pending: the partition is carved, once userdata has shrunk ...
Carve ==
    /\ mode = "pending" /\ root.state = "none"
    /\ store.payload # NoRun /\ store.files # NoRun
    /\ root' = [state |-> "torn", by |-> NoRun, trial |-> "none"]
    /\ history' = [history EXCEPT !.carver = IF history.armed.mode = "part" THEN "asked" ELSE "unasked"]
    /\ UNCHANGED <<left, host, tmp, card, store, boot, target, control, mode, vendor, orphan>>

\* ... the image written, with a trial marker.  The request is removed, or userdata
\* cannot be mounted for it; slot B gets its tries back, and the device restarts.
FinishPart(cleaned) ==
    /\ mode = "pending" /\ root.state # "none"
    /\ store.payload # NoRun /\ store.files # NoRun
    /\ root' = [state |-> "whole", by |-> store.payload, trial |-> "new"]
    /\ store' = IF cleaned
                THEN [store EXCEPT !.request = NoRun, !.payload = NoRun, !.files = NoRun]
                ELSE store
    /\ control' = "trial" /\ mode' = "off"
    /\ history' = [history EXCEPT !.finished = @ \cup {store.request},
                                  !.again = @ \/ store.request \in history.finished]
    /\ UNCHANGED <<left, host, tmp, card, boot, target, vendor, orphan>>

\* A failure leaves the request for the next boot, and goes on with this one.
PartFails ==
    /\ mode = "pending"
    /\ root' \in {root} \cup IF root.state = "none" THEN {} ELSE {[root EXCEPT !.state = "torn"]}
    /\ mode' = "initramfs"
    /\ UNCHANGED <<left, host, tmp, card, store, boot, target, control, vendor, orphan, history>>

\* The system userdata asks for: for one boot, or for good.
Wanted == IF target.once # "none" THEN target.once ELSE target.os

\* A root that was cut off may still have an init and a marker.
PartStarts == root.state = "whole" /\ root.trial # "tried"
CardMayStart == card.state \in {"torn", "marked", "whole"}
CardMayFail == card.state # "whole"

Linux(what) ==
    /\ mode' = "linux"
    /\ history' = [history EXCEPT !.started = what]

\* Variant: the file is left empty.
MarkEmpty(trial) == IF trial = "new" THEN "empty" ELSE trial

\* The first boot of a partition is marked before it is started.
MarkTried(trial) == IF trial = "new" THEN "tried" ELSE trial

StartPart ==
    /\ mode = "initramfs" /\ Wanted = "part" /\ PartStarts
    /\ root' = [root EXCEPT !.trial = MarkTried(@)]
    /\ Linux("part")
    /\ UNCHANGED <<left, host, tmp, card, store, boot, target, control, vendor, orphan>>

\* Otherwise the card, if nothing else is named, and with it the one-time choice
\* is used up ...
StartCard ==
    /\ mode = "initramfs" /\ CardMayStart
    /\ \/ Wanted \in {"none", "sd"}
       \/ Wanted = "part" /\ ~PartStarts
    /\ target' = [target EXCEPT !.once = "none"]
    /\ Linux("sd")
    /\ UNCHANGED <<left, host, tmp, card, store, root, boot, control, vendor, orphan>>

\* ... or the image ...
StartImage ==
    /\ mode = "initramfs" /\ store.image.state = "whole"
    /\ \/ Wanted = "openwrt"
       \/ Wanted \in {"none", "sd"} /\ CardMayFail
       \/ Wanted = "part" /\ ~PartStarts /\ CardMayFail
    /\ target' = [target EXCEPT !.once = "none"]
    /\ Linux("openwrt")
    /\ UNCHANGED <<left, host, tmp, card, store, root, boot, control, vendor, orphan>>

\* ... or a card after all ...
StartCardAfterAll ==
    /\ mode = "initramfs" /\ CardMayStart
    /\ Wanted = "openwrt" /\ store.image.state # "whole"
    /\ target' = [target EXCEPT !.once = "none"]
    /\ Linux("sd")
    /\ UNCHANGED <<left, host, tmp, card, store, root, boot, control, vendor, orphan>>

\* ... or nothing: Android is selected when the timer runs out.
StartNothing ==
    /\ mode = "initramfs"
    /\ ~(Wanted = "part" /\ PartStarts)
    /\ CardMayFail /\ store.image.state # "whole"
    /\ control' = "a" /\ mode' = "off"
    /\ UNCHANGED <<left, host, tmp, card, store, root, boot, target, vendor, orphan, history>>

\* e5-boot-ok: the system is up, and selects itself again.
BootOk ==
    /\ mode = "linux"
    /\ root' = IF history.started = "part" THEN [root EXCEPT !.trial = "none"] ELSE root
    /\ control' = "trial"
    /\ UNCHANGED <<left, host, tmp, card, store, boot, target, mode, vendor, orphan, history>>

\* e5-next-boot android, and a restart.
LeaveLinux ==
    /\ mode = "linux"
    /\ control' = "a" /\ mode' = "off"
    /\ UNCHANGED <<left, host, tmp, card, store, root, boot, target, vendor, orphan, history>>

-----------------------------------------------------------------------------

Init ==
    /\ left = Runs /\ host = Off /\ tmp = {}
    /\ card \in {Nothing, [state |-> "other", by |-> NoRun], [state |-> "whole", by |-> NoRun]}
    /\ \E image \in {Nothing, [state |-> "whole", by |-> NoRun]} :
          store = [image |-> image, part |-> Nothing, kept |-> {}, files |-> NoRun,
                   payload |-> NoRun, request |-> NoRun]
    /\ root = [state |-> "none", by |-> NoRun, trial |-> "none"]
    /\ boot \in {Nothing, [state |-> "whole", by |-> NoRun]}
    /\ target \in [os : {"none", "sd", "openwrt"}, once : {"none", "openwrt"}]
    /\ control = "a" /\ mode = "android"
    /\ vendor \in {"complete", "lacking"}
    /\ orphan = NoRun
    /\ history = [armed |-> [mode |-> "check", run |-> NoRun], carver |-> "none",
                  started |-> "none", finished |-> {}, again |-> FALSE,
                  outlived |-> FALSE]

Checks == \/ AndroidChecks \/ AndroidTools \/ InstallPreflight \/ Consent \/ CardFits
          \/ ReleaseCard \/ CardAgain \/ Plaintext \/ StoreIsClear \/ RoomForPart
          \/ InspectBoot \/ SyncChain

Prepares == CollectBegins \/ CollectEnds \/ Discard \/ Upload

Card == \/ EraseBegins \/ EraseEnds \/ Readback \/ Grow \/ FillBegins \/ FillEnds \/ VerifyCard
        \/ OrphanWrites \/ OrphanEnds

Image == ImageBegins \/ ImageEnds \/ KeepOld \/ CommitImage \/ CommitFiles

Slot == \/ FlashBegins \/ FlashEnds \/ BootCheck \/ RecordTarget \/ ArmSlotB

Process == \/ \E r \in Runs, m \in Modes : Start(r, m)
           \/ Checks \/ Prepares \/ Card \/ Image \/ StagePayload \/ StageRequest
           \/ Slot \/ Reboot \/ End \/ Stop

Pending == Carve \/ PartFails \/ \E cleaned \in BOOLEAN : FinishPart(cleaned)

Initramfs == StartPart \/ StartCard \/ StartImage \/ StartCardAfterAll \/ StartNothing

Device == PowerLoss \/ BootB \/ BootA \/ Pending \/ Initramfs \/ BootOk \/ LeaveLinux

Next == Process \/ Device

Spec == Init /\ [][Next]_vars

-----------------------------------------------------------------------------
(* Properties *)

Content == [state : {"none", "other", "torn", "bare", "marked", "whole"}, by : Owner]

\* Every variable holds what its declaration says.
TypeOK ==
    /\ left \subseteq Runs
    /\ host \in [mode : Modes \cup {"check"}, run : Owner, pc : Steps, half : BOOLEAN]
    /\ tmp \subseteq {"tools", "bootchain", "e5pull", "files", "image", "boot"}
    /\ card \in Content
    /\ store \in [image : Content, part : Content, kept : SUBSET Owner, files : Owner,
                  payload : Owner, request : Owner]
    /\ root \in [state : {"none", "torn", "whole"}, by : Owner, trial : {"none", "new", "tried"}]
    /\ boot \in Content
    /\ target \in [os : {"none", "sd", "openwrt", "part"}, once : {"none", "openwrt"}]
    /\ control \in {"a", "trial", "last", "spent"}
    /\ mode \in {"android", "off", "pending", "initramfs", "linux"}
    /\ vendor \in {"complete", "lacking"}
    /\ orphan \in Owner
    /\ history \in [armed : [mode : Modes \cup {"check"}, run : Owner],
                    carver : {"none", "asked", "unasked"},
                    started : {"none", "sd", "openwrt", "part"},
                    finished : SUBSET Owner, again : BOOLEAN,
                    outlived : BOOLEAN]

\* What an installation is to have put in place by the time it selects slot B.
InPlace(m, r) ==
    CASE m = "sd" -> card = [state |-> "whole", by |-> r]
      [] m = "data" -> store.image = [state |-> "whole", by |-> r] /\ store.files = r
      [] m = "part" -> store.request = r /\ store.payload = r /\ store.files = r

Installations == {"sd", "data", "part"}

\* "Firmware and root readback precede boot writes": when an installation selects
\* slot B, its own root is complete, its own image is in the slot, and the target
\* recorded is the one it installed, with no one-time choice before it.
ArmsOwnSystem ==
    host.pc = "arm" /\ host'.pc = "end" =>
        /\ InPlace(host.mode, host.run)
        /\ boot = [state |-> "whole", by |-> host.run]
        /\ target = [os |-> TargetOf[host.mode], once |-> "none"]

\* As long as the boot loader would start slot B for an installation, the slot holds
\* that installation's image: no later run writes it while it is selected.
SelectedStays ==
    control # "a" /\ history.armed.mode \in Installations =>
        boot = [state |-> "whole", by |-> history.armed.run]

\* "So the last install wins" (init): after an installation on a card or in an image
\* the initramfs starts that system and no other, whole and of that run, whatever
\* runs were interrupted in between.
StartsLastInstalled ==
    mode = "initramfs" /\ mode' = "linux" /\ history.armed.mode \in {"sd", "data"} =>
        /\ history'.started = TargetOf[history.armed.mode]
        /\ history'.started = "sd" => card = [state |-> "whole", by |-> history.armed.run]
        /\ history'.started = "openwrt" =>
               store.image = [state |-> "whole", by |-> history.armed.run]

\* "Existing images are not deleted": an image of userdata is in its place or among
\* those kept, through every interruption.
ImageKept ==
    [][/\ store.kept \subseteq store'.kept
       /\ store.image.state = "whole" /\ store'.image # store.image =>
              store.image.by \in store'.kept]_vars

\* "A missing vendor file must not destroy a working SD install": a phone that lacks
\* one keeps its card, its images and its slot B.
LackingChangesNothing ==
    vendor = "lacking" =>
        /\ card.by = NoRun /\ boot.by = NoRun
        /\ store.image.by = NoRun /\ store.part = Nothing /\ store.request = NoRun

\* The groups that are checked as one.  When an installation selects slot B its own
\* system, image and target are in place, and the initramfs then starts the last system
\* installed: a command that outlived its process breaks both, but not that an image of
\* userdata is in its place or among those kept.
InstallsWhatStarts ==
    [][~history.outlived => ArmsOwnSystem /\ StartsLastInstalled]_vars /\ ImageKept

\* While slot B is selected no later run writes it; and a phone that lacks a file of its
\* vendor keeps its card, its images and its slot B, though commands outlive their process.
NothingIsLost == SelectedStays /\ LackingChangesNothing

\* "A check leaves nothing on the device": after one that succeeded.
\* Does not hold: README, section 10.
CheckLeavesNothing ==
    [][host.mode = "check" /\ host.pc = "end" => tmp' = {}]_vars

\* "No GPT changes": a partition is carved only if the last to select slot B was the
\* installation into a partition.
\* Does not hold: README, section 10.
CarvedAsAsked == history.carver # "unasked"

\* "A finished install restarts into the new system itself": it is not made again.
\* Does not hold: README, section 10.
FinishedOnce == ~history.again

=============================================================================
