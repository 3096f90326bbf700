------------------------------- MODULE Update -------------------------------
(***************************************************************************)
(* Update of a running OpenWrt over SSH: tools/e5-update.py on the         *)
(* computer, and on the device the command it sends, which runs            *)
(* device-stage-part-update.sh (or device-install-image.sh) and            *)
(* device-flash-boot.sh, and after the restart boot/part-update.sh in the  *)
(* initramfs.                                                              *)
(*                                                                         *)
(* A system in a partition (or on a card) is written offline: the running  *)
(* system stages image, firmware and settings on its own root and          *)
(* publishes a request; the initramfs copies all of it into memory and     *)
(* overwrites the root.  A system in an image file gets a new file, which  *)
(* the initramfs puts in place of the old one.                             *)
(*                                                                         *)
(* A command may fail, the connection be lost and the power be cut between *)
(* any two steps, and within those that write.                             *)
(***************************************************************************)
EXTENDS Naturals

CONSTANTS
    Sessions,  \* invocations of the updater, each with a version of its own
    Layouts,   \* where the system may live: "part", "image"
    MaxCuts,   \* how often the power is cut
    Old        \* the version in use before

ASSUME SessionsAssumption == {Old, "none"} \cap Sessions = {}
ASSUME LayoutsAssumption == Layouts \subseteq {"part", "image"}
ASSUME CutsAssumption == MaxCuts \in Nat

VARIABLES
    layout,   \* where the system lives
    suits,    \* sessions whose package is for this device, layout and capacity
    session,  \* where each session is
    tmp,      \* sessions whose upload lies in /tmp of the device
    script,   \* the command that holds the upgrade lock: whose, and where
    staged,   \* /.e5-update on the root: payload, request.ready, request
    root,     \* the root partition: version, how far it was made, trial marker
    image,    \* files on userdata: in use, new, old, half made
    boot,     \* boot_b
    tries,    \* tries that slot B has left; none selects Android
    ram,      \* the payload the initramfs copied into memory
    offline,  \* where the offline update is
    mode,     \* what the device runs
    running,  \* the version that was started last
    cuts,     \* power cuts so far
    history   \* versions that were started, and that have come up

vars == <<layout, suits, session, tmp, script, staged, root, image, boot, tries, ram, offline,
          mode, running, cuts, history>>
files == <<staged, root, image, boot>>
onDevice == <<files, tries, ram, offline, mode, running, cuts, history>>

None == "none"
Versions == Sessions \cup {Old}
Whole(v) == [by |-> v, state |-> "whole"]
Torn(v) == [by |-> v, state |-> "torn"]
NoImage == [by |-> Old, state |-> None]
NoScript == [by |-> Old, pc |-> None]

-----------------------------------------------------------------------------
(* The computer *)

Waiting(s) == session[s] = "waiting"
Moves(s, from, to) == session[s] = from /\ session' = [session EXCEPT ![s] = to]

\* main: it connects, and with the user interface the device and its boot are recorded.
Connect(s) ==
    /\ mode = "linux" /\ Moves(s, "off", "check")
    /\ UNCHANGED <<layout, suits, tmp, script, onDevice>>

\* Variant: a package is believed to fit.
AnyPackage(s) == TRUE

\* Profile, layout, capacity and what the package can do.
Suitable(s) == s \in suits

\* Nothing is staged before that; a check-only session ends here.
Preflight(s) ==
    /\ mode = "linux"
    /\ \/ Suitable(s) /\ Moves(s, "check", "upload")
       \/ Moves(s, "check", "ended")
    /\ UNCHANGED <<layout, suits, tmp, script, onDevice>>

\* The files go into a new directory of /tmp; each is hashed there.
Upload(s) ==
    /\ mode = "linux" /\ Moves(s, "upload", "commit")
    /\ tmp' = tmp \cup {s}
    /\ UNCHANGED <<layout, suits, script, onDevice>>

\* The command: it takes the upgrade lock, or fails at once.
Commit(s) ==
    /\ mode = "linux" /\ script = NoScript
    /\ Moves(s, "commit", "waiting")
    /\ script' = [by |-> s, pc |-> "stage"]
    /\ UNCHANGED <<layout, suits, tmp, onDevice>>

\* The connection breaks or times out, or a step fails: the upload is removed if the
\* device can still be reached.  The command goes on.
GiveUp(s) ==
    /\ session[s] \in {"check", "upload", "commit", "waiting"}
    /\ session' = [session EXCEPT ![s] = "failed"]
    /\ tmp' \in {tmp, tmp \ {s}}
    /\ UNCHANGED <<layout, suits, script, onDevice>>

-----------------------------------------------------------------------------
(* The command on the device *)

At(pc) == mode = "linux" /\ script.pc = pc
Uploaded == script.by \in tmp
Goes(pc) == script' = [script EXCEPT !.pc = pc]
Kept == <<layout, suits, session, tmp, tries, ram, offline, mode, running, cuts, history>>

\* set -e: the first step that fails is the last, and the session hears of it; without
\* a connection the next line that is written fails.
ScriptStops ==
    /\ mode = "linux" /\ script.pc # None
    /\ script.pc = "reboot" => Waiting(script.by)
    /\ script' = NoScript
    /\ session' = [s \in Sessions |-> IF s = script.by /\ Waiting(s) THEN "failed" ELSE session[s]]
    /\ UNCHANGED <<layout, suits, tmp, onDevice>>

\* Variant: a pending update is not looked for.
NeverPending == TRUE

\* "an update is already pending"
NothingPending == staged.request = None

\* Image and tools are copied onto the root.
StageRoot ==
    /\ layout = "part" /\ At("stage") /\ Uploaded /\ NothingPending
    /\ staged' = [staged EXCEPT !.payload = Torn(script.by)]
    /\ Goes("archive")
    /\ UNCHANGED <<root, image, boot, Kept>>

\* Variant: the request is published with the payload.
ArchivePublishes ==
    /\ layout = "part" /\ At("archive")
    /\ staged' = [payload |-> Whole(script.by), ready |-> None, request |-> script.by]
    /\ Goes("flash")
    /\ UNCHANGED <<root, image, boot, Kept>>

\* Firmware and settings of the running system follow; all is hashed and synced.
ArchiveRoot ==
    /\ layout = "part" /\ At("archive")
    /\ staged' = [staged EXCEPT !.payload = Whole(script.by), !.ready = script.by]
    /\ Goes("flash")
    /\ UNCHANGED <<root, image, boot, Kept>>

\* Variant: the image is unpacked over the one in use.
UnpackInPlace ==
    /\ layout = "image" /\ At("stage") /\ Uploaded
    /\ image' = [image EXCEPT !.used = Torn(script.by), !.part = Torn(script.by)]
    /\ Goes("archive")
    /\ UNCHANGED <<staged, root, boot, Kept>>

\* The image kept before is removed, and the new one unpacked next to the one in use.
UnpackImage ==
    /\ layout = "image" /\ At("stage") /\ Uploaded
    /\ image' = [image EXCEPT !.old = NoImage, !.part = Torn(script.by)]
    /\ Goes("archive")
    /\ UNCHANGED <<staged, root, boot, Kept>>

\* It gets settings and firmware, and the name under which the next boot finds it.
CommitImage ==
    /\ layout = "image" /\ At("archive")
    /\ image' = [image EXCEPT !.new = Whole(script.by), !.part = NoImage]
    /\ Goes("flash")
    /\ UNCHANGED <<staged, root, boot, Kept>>

\* The head of the boot image, its hash compared before it is written ...
FlashBegins ==
    /\ At("flash") /\ Uploaded
    /\ boot' = Torn(script.by)
    /\ Goes("readback")
    /\ UNCHANGED <<staged, root, image, Kept>>

FlashEnds ==
    /\ At("readback") /\ boot.state = "torn"
    /\ boot' = Whole(script.by)
    /\ UNCHANGED <<script, staged, root, image, Kept>>

\* Variant: it is not read again.
BelievesBoot == TRUE

\* ... and again as the partition gives it back.
BootReadsBack == boot = Whole(script.by)

\* Slot B is given its tries.
ArmSlotB ==
    /\ At("readback") /\ BootReadsBack
    /\ tries' = 2
    /\ Goes("publish")
    /\ UNCHANGED <<layout, suits, session, tmp, files, ram, offline, mode, running, cuts, history>>

\* Variant: the request is left as it is.
PublishNothing ==
    /\ At("publish")
    /\ Goes("reboot")
    /\ UNCHANGED <<staged, root, image, boot, Kept>>

\* request.ready becomes the request; an image is made the choice instead.
Publish ==
    /\ At("publish")
    /\ staged' = IF layout = "part" THEN [staged EXCEPT !.request = staged.ready, !.ready = None]
                 ELSE staged
    /\ Goes("reboot")
    /\ UNCHANGED <<root, image, boot, Kept>>

\* The command ends, a process that holds the lock restarts the device soon.
Answer(s) ==
    /\ At("reboot") /\ script.by = s
    /\ Moves(s, "waiting", "success")
    /\ UNCHANGED <<layout, suits, tmp, script, onDevice>>

\* Whatever ran in the system and lay in its memory is gone.
Down ==
    /\ mode' = "off" /\ script' = NoScript /\ tmp' = {} /\ ram' = None /\ offline' = None
    /\ session' = [s \in Sessions |->
                      IF session[s] \in {"check", "upload", "commit", "waiting"} THEN "failed"
                      ELSE session[s]]

Reboot ==
    /\ At("reboot") /\ Down
    /\ UNCHANGED <<layout, suits, files, tries, running, cuts, history>>

\* Somebody restarts it, while no update is under way.
Restart ==
    /\ mode \in {"linux", "halted"} /\ script = NoScript /\ Down
    /\ UNCHANGED <<layout, suits, files, tries, running, cuts, history>>

\* The power is cut.
PowerCut ==
    /\ mode \notin {"off", "android"} /\ cuts < MaxCuts
    /\ cuts' = cuts + 1
    /\ Down
    /\ UNCHANGED <<layout, suits, files, tries, running, history>>

-----------------------------------------------------------------------------
(* The boot loader *)

\* Each start of slot B uses up a try; an image cut off does not start.
BootB ==
    /\ mode = "off" /\ tries > 0
    /\ tries' = tries - 1
    /\ mode' = IF boot.state = "whole" THEN "init" ELSE "off"
    /\ UNCHANGED <<layout, suits, session, tmp, script, files, ram, offline, running, cuts, history>>

BootA ==
    /\ mode = "off" /\ tries = 0
    /\ mode' = "android"
    /\ UNCHANGED <<layout, suits, session, tmp, script, files, tries, ram, offline, running, cuts,
                   history>>

-----------------------------------------------------------------------------
(* The offline update in the initramfs *)

Offline(pc) == mode = "init" /\ offline = pc
Then(pc) == offline' = pc
Rest == <<layout, suits, session, tmp, script, image, boot, running, cuts, history>>

\* part_update_pending: where a request is looked for the root cannot be mounted, and the
\* boot goes on with the system that is there.
PassesBy ==
    /\ Offline(None) /\ layout = "part" /\ staged.request # None
    /\ Then("passed")
    /\ UNCHANGED <<staged, root, tries, ram, mode, Rest>>

\* Or it is, and there is a request on it; device, geometry, profile and memory
\* are compared, and EVERY payload is copied off it.
CopyPayload ==
    /\ Offline(None) /\ layout = "part" /\ staged.request # None
    /\ staged.payload.state = "whole"
    /\ ram' = staged.payload.by
    /\ Then("write")
    /\ UNCHANGED <<staged, root, tries, mode, Rest>>

\* The root is overwritten, the request on it with the rest.
WriteBegins ==
    /\ Offline("write") /\ ram # None
    /\ root' = [by |-> ram, state |-> "torn", marked |-> FALSE, trial |-> None]
    /\ staged' = [payload |-> NoImage, ready |-> None, request |-> None]
    /\ Then("readback")
    /\ UNCHANGED <<tries, ram, mode, Rest>>

WriteEnds ==
    /\ Offline("readback") /\ root.state = "torn"
    /\ root' = [root EXCEPT !.state = "bare"]
    /\ UNCHANGED <<staged, tries, ram, offline, mode, Rest>>

\* Variant: what was written is not read again.
BelievesRoot == TRUE

\* The partition gives back the image that was hashed in memory.
RootReadsBack == root.state = "bare"

\* Read back, checked, enlarged; then firmware and settings, among them the markers
\* by which the initramfs knows a root of its own.
RestoreBegins ==
    /\ Offline("readback") /\ RootReadsBack
    /\ root' = [root EXCEPT !.marked = TRUE]
    /\ Then("restore")
    /\ UNCHANGED <<staged, tries, ram, mode, Rest>>

\* The trial marker, and every restored file compared after a remount.
RestoreEnds ==
    /\ Offline("restore")
    /\ root' = [root EXCEPT !.state = IF @ = "bare" THEN "whole" ELSE @, !.trial = "new"]
    /\ Then("rearm")
    /\ UNCHANGED <<staged, tries, ram, mode, Rest>>

\* Slot B gets its tries again, and the device restarts.
Rearm ==
    /\ Offline("rearm")
    /\ tries' = 2 /\ Down
    /\ UNCHANGED <<layout, suits, files, running, cuts, history>>

\* part_fail: the device stays as it is until it is switched off.
OfflineFails ==
    /\ mode = "init" /\ layout = "part"
    /\ offline # "passed" /\ (offline # None \/ staged.request # None)
    /\ mode' = "halted" /\ Then(None)
    /\ UNCHANGED <<staged, root, tries, ram, Rest>>

-----------------------------------------------------------------------------
(* The choice of a root *)

Swapping == mode = "init" /\ layout = "image" /\ image.new # NoImage
SwapRest == <<layout, suits, session, tmp, script, staged, root, boot, tries, ram, mode, running,
              cuts, history>>

\* A new image is there: the one kept before is removed, the one in use is kept ...
KeepOld ==
    /\ Swapping /\ offline = None /\ image.used # NoImage
    /\ image' = [image EXCEPT !.old = image.used, !.used = NoImage]
    /\ Then("swap")
    /\ UNCHANGED SwapRest

\* ... and the new one takes its name.  A boot that finds none in use, because the last
\* one ended between the two, begins by removing the one kept all the same.
UseNew ==
    /\ Swapping /\ image.used = NoImage
    /\ image' = [image EXCEPT !.used = image.new, !.new = NoImage,
                              !.old = IF offline = "swap" THEN @ ELSE NoImage]
    /\ Then(None)
    /\ UNCHANGED SwapRest

Started(v) ==
    /\ mode' = "linux" /\ running' = v
    /\ history' = [history EXCEPT !.tried = @ \cup {v}]

StartImage ==
    /\ mode = "init" /\ layout = "image" /\ image.new = NoImage /\ image.used.state = "whole"
    /\ Started(image.used.by)
    /\ UNCHANGED <<layout, suits, session, tmp, script, files, tries, ram, offline, cuts>>

\* part_root: an init and a marker are all it looks for.
RootStarts == root.marked /\ root.trial # "tried"

Chooses == layout = "part" /\ (Offline("passed") \/ (Offline(None) /\ staged.request = None))

\* Variant: the file is left empty.
MarkEmpty(trial) == IF trial = "new" THEN "empty" ELSE trial

\* The first start of a root is marked in it.
MarkTried(trial) == IF trial = "new" THEN "tried" ELSE trial

StartRoot ==
    /\ Chooses /\ RootStarts
    /\ root' = [root EXCEPT !.trial = MarkTried(@)]
    /\ Started(root.by) /\ Then(None)
    /\ UNCHANGED <<layout, suits, session, tmp, script, staged, image, boot, tries, ram, cuts>>

\* Nothing to start, or it cannot be mounted again: a shell, and Android at the next restart.
StartNothing ==
    /\ Chooses /\ (RootStarts => offline = "passed")
    /\ tries' = 0 /\ mode' = "halted" /\ Then(None)
    /\ UNCHANGED <<layout, suits, session, tmp, script, files, ram, running, cuts, history>>

\* e5-boot-ok: the system is up, its trial over, and slot B has its tries again.
BootOk ==
    /\ mode = "linux"
    /\ root' = IF layout = "part" THEN [root EXCEPT !.trial = None] ELSE root
    /\ tries' = 2
    /\ history' = [history EXCEPT !.up = @ \cup {running}]
    /\ UNCHANGED <<layout, suits, session, tmp, script, staged, image, boot, ram, offline, mode,
                   running, cuts>>

-----------------------------------------------------------------------------

Init ==
    /\ layout \in Layouts /\ suits \in SUBSET Sessions
    /\ session = [s \in Sessions |-> "off"]
    /\ tmp = {} /\ script = NoScript
    /\ staged = [payload |-> NoImage, ready |-> None, request |-> None]
    /\ root = [by |-> Old, state |-> IF layout = "part" THEN "whole" ELSE None,
               marked |-> layout = "part", trial |-> None]
    /\ image = [used |-> IF layout = "image" THEN Whole(Old) ELSE NoImage,
                new |-> NoImage, old |-> NoImage, part |-> NoImage]
    /\ boot = Whole(Old) /\ tries = 2 /\ ram = None /\ offline = None
    /\ mode = "linux" /\ running = Old /\ cuts = 0
    /\ history = [tried |-> {}, up |-> {Old}]

Computer == \E s \in Sessions : \/ Connect(s) \/ Preflight(s) \/ Upload(s) \/ Commit(s) \/ GiveUp(s)

Command == \/ StageRoot \/ ArchiveRoot \/ UnpackImage \/ CommitImage \/ FlashBegins \/ FlashEnds
           \/ ArmSlotB \/ Publish \/ Reboot
           \/ \E s \in Sessions : Answer(s)

Update == CopyPayload \/ WriteBegins \/ WriteEnds \/ RestoreBegins \/ RestoreEnds \/ Rearm

Choice == KeepOld \/ UseNew \/ StartImage \/ StartRoot \/ StartNothing

Next == \/ Computer \/ Command \/ ScriptStops \/ Restart \/ PowerCut \/ BootB \/ BootA
        \/ Update \/ PassesBy \/ OfflineFails \/ Choice \/ BootOk

Spec == Init /\ [][Next]_vars

\* The process that restarts the device is the kernel's to run; the boot loader and the
\* initramfs go on by themselves.  Nobody need retry, answer or switch off anything.
LiveSpec == Spec /\ WF_vars(Reboot) /\ WF_vars(BootB) /\ WF_vars(Update) /\ WF_vars(Choice)

-----------------------------------------------------------------------------
(* Properties *)

Content == [by : Versions, state : {None, "torn", "whole"}]

\* Every variable holds what its declaration says.
TypeOK ==
    /\ layout \in Layouts /\ suits \subseteq Sessions /\ tmp \subseteq Sessions
    /\ session \in [Sessions -> {"off", "check", "upload", "commit", "waiting", "success",
                                 "failed", "ended"}]
    /\ script \in [by : Versions,
                   pc : {None, "stage", "archive", "flash", "readback", "publish", "reboot"}]
    /\ staged \in [payload : Content, ready : Sessions \cup {None}, request : Sessions \cup {None}]
    /\ root \in [by : Versions, state : {None, "torn", "bare", "whole"},
                 marked : BOOLEAN, trial : {None, "new", "tried"}]
    /\ image \in [used : Content, new : Content, old : Content, part : Content]
    /\ boot \in Content /\ tries \in 0..2 /\ ram \in Sessions \cup {None}
    /\ offline \in {None, "passed", "write", "readback", "restore", "rearm", "swap"}
    /\ mode \in {"linux", "off", "init", "android", "halted"}
    /\ running \in Versions /\ cuts \in 0..MaxCuts
    /\ history \in [tried : SUBSET Versions, up : SUBSET Versions]

\* What is about to be written over the root, or was, is of the same session as the
\* image in slot B: of several sessions, stopped anywhere, none replaces the boot image
\* or the payload under the request of another (device-stage-part-update.sh, e5-update.py).
RequestIsWhole ==
    staged.request # None =>
        staged.payload = Whole(staged.request) /\ boot = Whole(staged.request)

\* The root is not touched before everything that is to replace it is in memory and the
\* boot image that goes with it is in the slot (part-update.sh: "Copy EVERY payload off
\* the old root before unmounting/overwriting it").
OverwrittenByItsOwn ==
    [][root'.by # root.by => ram = root'.by /\ boot = Whole(ram)]_vars

\* A system that starts was read back as a whole, however often the power was cut: what
\* is left of a root half overwritten is never taken for a system.
StartsReadBack ==
    mode = "linux" =>
        IF layout = "part" THEN root.state \in {"bare", "whole"} /\ root.by = running
        ELSE image.used = Whole(running)

\* At every moment one whole image lies where the next boot looks for it.
AnImageStays ==
    layout = "image" => image.used.state = "whole" \/ image.new.state = "whole"

\* A package of another profile, or too large, changes nothing that outlives a restart.
UnsuitableChangesNothing ==
    \A s \in Sessions \ suits :
        /\ s \notin {root.by, boot.by, staged.payload.by, staged.ready, staged.request}
        /\ \A f \in DOMAIN image : image[f].by # s

\* A restored system that was started and did not come up is not started again: booting
\* it writes 0 into its trial marker (init).
TriedOnce ==
    [][mode = "init" /\ mode' = "linux" /\ layout = "part" /\ root.state = "whole" =>
          root.by \notin history.tried \ history.up]_vars

\* The groups that are checked as one.  What replaces a root is of one session, the one the
\* request is of: payload, boot image and what is in memory; and never one whose package
\* does not suit the device.
ReplacesByItsOwn == [](RequestIsWhole /\ UnsuitableChangesNothing) /\ OverwrittenByItsOwn

\* However often the power is cut in an update, what starts is whole, an image stays to be
\* started, and a trial that failed is not repeated.
StartsWholeSystems == [](StartsReadBack /\ AnImageStays) /\ TriedOnce

\* "Update verified; rebooting": a session that reported it leads to its own version
\* running, or to an initramfs that stopped with its reasons on the screen, or that could not
\* mount the root and starts what is there with the request left pending; whatever was cut
\* before.  From then on the power stays on.
SuccessRuns ==
    \A s \in Sessions :
        session[s] = "success" /\ script.by = s /\ cuts = MaxCuts ~>
            running = s \/ mode = "halted" \/ (offline = "passed" /\ staged.request = s)

\* "swapped in now, the old one kept" (init): there is an image to go back to.
\* Does not hold: README, section 10.
OldImageKept ==
    [][image.new # NoImage /\ image'.new = NoImage /\ mode = "init" =>
          image'.old.state = "whole"]_vars

\* "Kernel and modules of the root must come from the same build"
\* (openwrt/README.zh-CN.md): the boot image that started the system is of its version.
\* Does not hold: README, section 10.
SameBuild == [][mode = "init" /\ mode' = "linux" => boot.by = running']_vars
=============================================================================
