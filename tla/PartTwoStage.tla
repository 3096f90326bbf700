---------------------------- MODULE PartTwoStage ----------------------------
(***************************************************************************)
(* The two-stage installation into a partition of its own, for devices     *)
(* whose userdata is encrypted: openwrt/bundle/part-two-stage.py on the    *)
(* computer, boot/part-prepare.sh in the initramfs of the image it stages, *)
(* openwrt/bundle/part-write.sh on the Android that follows.               *)
(*                                                                         *)
(* First stage: the computer stages a boot image that carries a request;   *)
(* the initramfs carves a root partition out of userdata, marks it with    *)
(* the transaction's token and asks the stock recovery for a reset.        *)
(* Second stage, on the reset Android: the computer checks geometry and    *)
(* marker, writes the root, then the final boot image, then selects it.    *)
(* A reinstallation runs the second stage only.                            *)
(*                                                                         *)
(* The computer's process may stop at any point and its transaction be     *)
(* resumed; the script that writes the root may outlive it; the device may *)
(* lose power at any point.  Boot loader and recovery are not in the       *)
(* repository.  The table is carved in one step, a slot's control block is *)
(* written in one step, and there is no card with a system of its own.     *)
(***************************************************************************)
EXTENDS Naturals

CONSTANTS
    Txns,        \* transactions
    Reinstalls,  \* those made by reinstall(), the others by start()
    Gui,         \* run by the coordinator, which keeps a journal of effects
    Overlap,     \* may the computer start again while an old script still writes?
    NoTxn

ASSUME TxnsAssumption == Reinstalls \subseteq Txns /\ NoTxn \notin Txns
ASSUME ModesAssumption == Gui \in BOOLEAN /\ Overlap \in BOOLEAN

VARIABLES
    file,     \* phase in each transaction.json
    effects,  \* the coordinator's journal for each transaction
    host,     \* the computer's process
    writers,  \* part-write.sh: the one the computer waits for, and one left over
    lock,     \* the directory e5-part-write.lock
    root,     \* contents of the partition e5root
    boot,     \* contents of boot_b
    misc,     \* recovery message and boot control
    data,     \* userdata: as found, larger than its partition, formatted
    mode,     \* what the device runs
    fresh,    \* transactions planned before the boot Android is in
    history   \* what the properties are about

vars == <<file, effects, host, writers, lock, root, boot, misc, data, mode, fresh, history>>
records == <<file, effects>>
script == <<writers, lock>>
flash == <<root, boot, misc, data>>

Phases == {"none", "prepared", "awaiting-android", "writing", "installed", "complete"}
Tokens == Txns \cup {NoTxn}

Operations == {"bootchain-sync", "boot-prepare.img", "boot-part.img", "misc-trial", "root-part-write"}
EffectNames == Operations \X (Phases \cup {"any"})

\* The operations on the device, by place in start and finish ...
Operation == [chain1 |-> "bootchain-sync", boot1 |-> "boot-prepare.img", arm1 |-> "misc-trial",
              write |-> "root-part-write",
              chain2 |-> "bootchain-sync", boot2 |-> "boot-part.img", arm2 |-> "misc-trial"]

\* Variant: slot B is selected before its final image is written.
ArmedFirst == [chain1 |-> "boot1", boot1 |-> "arm1", arm1 |-> "await",
               write |-> "wrote",
               chain2 |-> "arm2", arm2 |-> "boot2", boot2 |-> "closing"]

\* ... and what follows each of them.
Following == [chain1 |-> "boot1", boot1 |-> "arm1", arm1 |-> "await",
              write |-> "wrote",
              chain2 |-> "boot2", boot2 |-> "arm2", arm2 |-> "closing"]
Calls == {"chain1", "boot1", "arm1", "write", "chain2", "boot2", "arm2"}

HostStates == Calls \cup {"off", "await", "reboot", "waiting", "check", "push", "wrote", "closing"}
Off == [pc |-> "off", txn |-> NoTxn, phase |-> "none", call |-> "no"]
Host == [pc : HostStates, txn : Tokens, phase : Phases, call : {"no", "begun", "half", "ended"}]

Owners == {"attached", "orphan"}
NoWriter == [pc |-> "none", txn |-> NoTxn]
Writer == [pc : {"none", "image", "verify"}, txn : Tokens]

\* "trial": slot B selected with two tries; "last": one left; "spent": none left.
Controls == {"a", "trial", "last", "spent"}
Modes == {"off", "android", "recovery", "recovered", "prepare", "marking", "requesting",
          "givingback", "halted", "initramfs", "fallback", "linux"}

Root == [state : {"absent", "blank", "marked", "torn", "whole"}, by : Tokens,
         trial : {"none", "new", "tried"}]
NoRoot == [state |-> "absent", by |-> NoTxn, trial |-> "none"]
Installed == [state |-> "whole", by |-> NoTxn, trial |-> "none"]

Boot == [kind : {"other", "torn", "prepare", "part"}, txn : Tokens]
Misc == [bcb : {"empty", "wipe"}, control : Controls]
History == [carves : 0..2,      \* how often userdata was divided, counted to two
            carver : Tokens,    \* for whom
            armed : Tokens,     \* the last to select a final image
            handed : BOOLEAN]   \* the preparation has given the slots back

-----------------------------------------------------------------------------
(* Helpers *)

\* Variant: one journal entry for both selections.
OneNamePerOperation(op, phase) == <<op, "any">>

\* action: the two synchronisations and selections are distinguished by the
\* phase of the transaction file, the other effects are made once.
EffectName(op, phase) ==
    <<op, IF op \in {"bootchain-sync", "misc-trial"} THEN phase ELSE "any">>

\* read_boot_control: slot B must not have the higher priority.
TrialAllowed == misc.control = "a"

\* Variant: any preparation marker will do.
AnyMarker(t) == root.state = "marked"

\* The marker at the head of the partition is this transaction's.
Prepared(t) == root.state = "marked" /\ root.by = t

\* verify_geometry: the partition was carved as planned.
GeometryMatches == root.state # "absent"

Save(t, phase) == file' = [file EXCEPT ![t] = phase]
Goto(pc) == host' = [host EXCEPT !.pc = pc, !.call = "no"]
GotoIn(pc, phase) == host' = [host EXCEPT !.pc = pc, !.phase = phase, !.call = "no"]

Writing == \E w \in Owners : writers[w] # NoWriter

-----------------------------------------------------------------------------
(* The computer: start, resume, reinstall *)

Idle == host.pc = "off" /\ (Overlap \/ ~Writing)

\* start: no root yet, no recovery message, Android selected; the record is saved
\* before anything is staged.
Start(t) ==
    /\ Idle /\ mode = "android"
    /\ t \notin Reinstalls /\ file[t] = "none"
    /\ root.state = "absent" /\ misc.bcb = "empty" /\ TrialAllowed
    /\ Save(t, "prepared")
    /\ host' = [pc |-> "chain1", txn |-> t, phase |-> "prepared", call |-> "no"]
    /\ UNCHANGED <<effects, script, flash, mode, fresh, history>>

\* reinstall: an existing root, no preparation; finish is called at once.
Reinstall(t) ==
    /\ Idle /\ mode = "android"
    /\ t \in Reinstalls /\ file[t] = "none"
    /\ GeometryMatches
    /\ Save(t, "writing")
    /\ host' = [pc |-> "check", txn |-> t, phase |-> "writing", call |-> "no"]
    /\ UNCHANGED <<effects, script, flash, mode, fresh, history>>

\* resume.  The coordinator waits for another boot of Android first.
Resume(t) ==
    /\ Idle /\ mode = "android"
    /\ file[t] # "none"
    /\ host' = [pc |-> IF Gui /\ t \notin Reinstalls THEN "waiting" ELSE "check",
                txn |-> t, phase |-> file[t], call |-> "no"]
    /\ UNCHANGED <<records, script, flash, mode, fresh, history>>

\* Before the reboot the record says that Android is awaited.
Await ==
    /\ host.pc = "await"
    /\ Save(host.txn, "awaiting-android")
    /\ GotoIn("reboot", "awaiting-android")
    /\ UNCHANGED <<effects, script, flash, mode, fresh, history>>

Reboot ==
    /\ host.pc = "reboot" /\ mode = "android"
    /\ mode' = "off"
    /\ writers' = [w \in Owners |-> NoWriter]
    /\ Goto("waiting")
    /\ UNCHANGED <<records, lock, flash, fresh, history>>

\* wait_android; the coordinator's also wants a boot identity that is not the plan's.
WaitAndroid ==
    /\ host.pc = "waiting" /\ mode = "android"
    /\ Gui => host.txn \in fresh
    /\ Gui \/ GeometryMatches
    /\ Goto("check")
    /\ UNCHANGED <<records, script, flash, mode, fresh, history>>

AlreadyComplete ==
    /\ host.pc = "check" /\ host.phase = "complete"
    /\ host' = Off
    /\ UNCHANGED <<records, script, flash, mode, fresh, history>>

\* finish, up to the first change: geometry, boot control, and the marker unless
\* the transaction had begun to write.
Check ==
    /\ host.pc = "check" /\ mode = "android"
    /\ host.phase # "complete"
    /\ GeometryMatches /\ TrialAllowed
    /\ \/ host.phase = "installed" /\ Goto("chain2")
       \/ host.phase = "writing" /\ Goto("push")
       \/ host.phase \in {"prepared", "awaiting-android"} /\ Prepared(host.txn) /\ Goto("push")
    /\ UNCHANGED <<records, script, flash, mode, fresh, history>>

\* The payload is on the device: from here on the record skips the marker.
Push ==
    /\ host.pc = "push" /\ mode = "android"
    /\ Save(host.txn, "writing")
    /\ GotoIn("write", "writing")
    /\ UNCHANGED <<effects, script, flash, mode, fresh, history>>

SaveInstalled ==
    /\ host.pc = "wrote"
    /\ Save(host.txn, "installed")
    /\ GotoIn("chain2", "installed")
    /\ UNCHANGED <<effects, script, flash, mode, fresh, history>>

SaveComplete ==
    /\ host.pc = "closing"
    /\ Save(host.txn, "complete")
    /\ host' = Off
    /\ UNCHANGED <<effects, script, flash, mode, fresh, history>>

-----------------------------------------------------------------------------
(* The computer: one operation on the device *)

Name == EffectName(Operation[host.pc], file[host.txn])

\* effect: an operation recorded as done is passed over.
SkipDone ==
    /\ host.pc \in Calls /\ host.call = "no"
    /\ Gui /\ effects[host.txn][Name] = "done"
    /\ Goto(Following[host.pc])
    /\ UNCHANGED <<records, script, flash, mode, fresh, history>>

\* effect: one that was begun is not sent again; without a journal it is.  Without
\* an Android to send it to it fails, begun or not.
Begin ==
    /\ host.pc \in Calls /\ host.call = "no"
    /\ \/ ~Gui /\ UNCHANGED effects
       \/ /\ Gui /\ effects[host.txn][Name] = "none"
          /\ effects' = [effects EXCEPT ![host.txn][Name] = "started"]
    /\ host' = IF mode = "android" THEN [host EXCEPT !.call = "begun"] ELSE Off
    /\ UNCHANGED <<file, script, flash, mode, fresh, history>>

\* The device reported success.
Finish ==
    /\ host.pc \in Calls /\ host.call = "ended"
    /\ IF Gui THEN effects' = [effects EXCEPT ![host.txn][Name] = "done"] ELSE UNCHANGED effects
    /\ Goto(Following[host.pc])
    /\ UNCHANGED <<file, script, flash, mode, fresh, history>>

\* android-bootchain.sh: the other partitions slot B boots from.
SyncChain ==
    /\ host.pc \in {"chain1", "chain2"} /\ host.call = "begun" /\ mode = "android"
    /\ host' = [host EXCEPT !.call = "ended"]
    /\ UNCHANGED <<records, script, flash, mode, fresh, history>>

BootImage == [kind |-> IF host.pc = "boot1" THEN "prepare" ELSE "part", txn |-> host.txn]
Torn == [kind |-> "torn", txn |-> NoTxn]

\* flash_boot: slot B is overwritten ...
FlashBegins ==
    /\ host.pc \in {"boot1", "boot2"} /\ host.call = "begun" /\ mode = "android"
    /\ boot' = Torn
    /\ host' = [host EXCEPT !.call = "half"]
    /\ UNCHANGED <<records, script, root, misc, data, mode, fresh, history>>

\* ... and read back.
FlashEnds ==
    /\ host.pc \in {"boot1", "boot2"} /\ host.call = "half" /\ mode = "android"
    /\ boot' = BootImage
    /\ host' = [host EXCEPT !.call = "ended"]
    /\ UNCHANGED <<records, script, root, misc, data, mode, fresh, history>>

\* _arm_slot_b: slot B is given two tries.
Arm ==
    /\ host.pc \in {"arm1", "arm2"} /\ host.call = "begun" /\ mode = "android"
    /\ TrialAllowed
    /\ misc' = [misc EXCEPT !.control = "trial"]
    /\ history' = [history EXCEPT !.armed = IF host.pc = "arm2" THEN host.txn ELSE @]
    /\ host' = [host EXCEPT !.call = "ended"]
    /\ UNCHANGED <<records, script, root, boot, data, mode, fresh>>

\* A failed check, a failed or interrupted command, a cancellation, a crash: the
\* computer stops where it is.  What it had sent may still be carried out.
Stop ==
    /\ host.pc # "off"
    /\ host' = Off
    /\ boot' \in {boot} \cup IF host.pc \in {"boot1", "boot2"} /\ host.call = "half"
                              THEN {BootImage} ELSE {}
    /\ writers' = IF writers["attached"] = NoWriter THEN writers
                  ELSE [attached |-> NoWriter, orphan |-> writers["attached"]]
    /\ UNCHANGED <<records, lock, root, misc, data, mode, fresh, history>>

-----------------------------------------------------------------------------
(* part-write.sh on Android *)

\* Variant: the lock is not looked at.
LockIgnored == TRUE

\* mkdir of the lock succeeds.
LockFree == ~lock

\* The lock is taken before anything is changed.
WriterStarts ==
    /\ host.pc = "write" /\ host.call = "begun" /\ mode = "android"
    /\ LockFree
    /\ lock' = TRUE
    /\ writers' = [writers EXCEPT !["attached"] = [pc |-> "image", txn |-> host.txn]]
    /\ host' = [host EXCEPT !.call = "half"]
    /\ UNCHANGED <<records, flash, mode, fresh, history>>

WriterWrites(w) ==
    /\ writers[w].pc = "image"
    /\ root' = [state |-> "torn", by |-> NoTxn, trial |-> "none"]
    /\ writers' = [writers EXCEPT ![w].pc = "verify"]
    /\ UNCHANGED <<records, host, lock, boot, misc, data, mode, fresh, history>>

\* Image, growth, device files and trial marker are in place and read back.
WriterEnds(w) ==
    /\ writers[w].pc = "verify"
    /\ root' = [state |-> "whole", by |-> writers[w].txn, trial |-> "new"]
    /\ writers' = [writers EXCEPT ![w] = NoWriter]
    /\ lock' = FALSE
    /\ host' = IF w = "attached" THEN [host EXCEPT !.call = "ended"] ELSE host
    /\ UNCHANGED <<records, boot, misc, data, mode, fresh, history>>

\* cleanup: the lock is removed, unless a mount cannot be undone.
WriterFails(w) ==
    /\ writers[w] # NoWriter
    /\ writers' = [writers EXCEPT ![w] = NoWriter]
    /\ lock' \in BOOLEAN
    /\ host' = IF w = "attached" THEN Off ELSE host
    /\ UNCHANGED <<records, flash, mode, fresh, history>>

-----------------------------------------------------------------------------
(* The device: boot loader and recovery *)

\* Power is lost, or someone restarts the device.  What the computer was waiting
\* for fails; a lock that was just made may not have reached the disk.
PowerLoss ==
    /\ mode # "off"
    /\ mode' = "off"
    /\ writers' = [w \in Owners |-> NoWriter]
    /\ lock' \in IF Writing THEN {lock, FALSE} ELSE {lock}
    /\ host' = IF host.call \in {"begun", "half"} THEN Off ELSE host
    /\ UNCHANGED <<records, flash, fresh, history>>

BootRecovery ==
    /\ mode = "off" /\ misc.bcb = "wipe"
    /\ mode' = "recovery"
    /\ UNCHANGED <<records, host, script, flash, fresh, history>>

\* A try is used up; an image that does not verify is not started.
BootB ==
    /\ mode = "off" /\ misc.bcb = "empty" /\ misc.control \in {"trial", "last"}
    /\ misc' = [misc EXCEPT !.control = IF @ = "trial" THEN "last" ELSE "spent"]
    /\ mode' = CASE boot.kind = "prepare" -> "prepare"
                 [] boot.kind = "part" -> "initramfs"
                 [] OTHER -> "off"
    /\ UNCHANGED <<records, host, script, root, boot, data, fresh, history>>

\* Android; with a userdata it cannot mount it offers its recovery.  The boot
\* loader may deselect a slot without tries.
BootA ==
    /\ mode = "off" /\ misc.bcb = "empty" /\ misc.control \in {"a", "spent"}
    /\ \E control \in {misc.control, "a"} : misc' = [misc EXCEPT !.control = control]
    /\ mode' = IF data = "oversized" THEN "recovery" ELSE "android"
    /\ fresh' = {t \in Txns : file[t] # "none"}
    /\ UNCHANGED <<records, host, script, root, boot, data, history>>

\* The reset also removes what lay in /data/local/tmp.
RecoveryWipes ==
    /\ mode = "recovery"
    /\ data' = "formatted" /\ lock' = FALSE
    /\ mode' = "recovered"
    /\ UNCHANGED <<records, host, writers, root, boot, misc, fresh, history>>

RecoveryEnds ==
    /\ mode = "recovered"
    /\ misc' = [misc EXCEPT !.bcb = "empty"]
    /\ mode' = "off"
    /\ UNCHANGED <<records, host, script, root, boot, data, fresh, history>>

-----------------------------------------------------------------------------
(* The device: part-prepare.sh and init *)

\* Variant: the request is not compared with the table.
RequestTaken == TRUE

\* The table is the one the request was made for, without a root.
RequestMatches == root.state = "absent"

\* A request that does not match is no failure: the boot goes on without it.
PrepareRejects ==
    /\ mode = "prepare" /\ ~RequestMatches
    /\ mode' = "fallback"
    /\ UNCHANGED <<records, host, script, flash, fresh, history>>

Carve ==
    /\ mode = "prepare" /\ RequestMatches
    /\ root' = [NoRoot EXCEPT !.state = "blank"]
    /\ data' = "oversized"
    /\ history' = [history EXCEPT !.carves = IF @ = 0 THEN 1 ELSE 2, !.carver = boot.txn]
    /\ mode' = "marking"
    /\ UNCHANGED <<records, host, script, boot, misc, fresh>>

Mark ==
    /\ mode = "marking"
    /\ root' = [root EXCEPT !.state = "marked", !.by = boot.txn]
    /\ mode' = "requesting"
    /\ UNCHANGED <<records, host, script, boot, misc, data, fresh, history>>

\* Variant: the slots are given back in the place of the request.
GiveBackFirst ==
    /\ mode = "requesting"
    /\ misc' = [misc EXCEPT !.control = "a"]
    /\ history' = [history EXCEPT !.handed = TRUE]
    /\ mode' = "givingback"
    /\ UNCHANGED <<records, host, script, root, boot, data, fresh>>

\* The reset is requested before the slots are given back.
RequestReset ==
    /\ mode = "requesting"
    /\ misc' = [misc EXCEPT !.bcb = "wipe"]
    /\ mode' = "givingback"
    /\ UNCHANGED <<records, host, script, root, boot, data, fresh, history>>

GiveBack ==
    /\ mode = "givingback"
    /\ misc' = [misc EXCEPT !.control = "a"]
    /\ history' = [history EXCEPT !.handed = TRUE]
    /\ mode' = "off"
    /\ UNCHANGED <<records, host, script, root, boot, data, fresh>>

\* Once the request is accepted a failure waits for inspection.
PrepareFails ==
    /\ \/ mode = "prepare" /\ RequestMatches
       \/ mode \in {"marking", "requesting", "givingback"}
    /\ mode' = "halted"
    /\ UNCHANGED <<records, host, script, flash, fresh, history>>

\* Variant: the file is left empty.
MarkEmpty(trial) == IF trial = "new" THEN "empty" ELSE trial

\* A first boot is marked before it is started.
MarkTried(trial) == IF trial = "new" THEN "tried" ELSE trial

\* init with e5.root=part: a root whose first boot did not come up is passed over.
SelectRoot ==
    /\ mode = "initramfs"
    /\ IF root.state = "whole" /\ root.trial # "tried"
       THEN /\ mode' = "linux"
            /\ root' = [root EXCEPT !.trial = MarkTried(@)]
       ELSE mode' = "fallback" /\ UNCHANGED root
    /\ UNCHANGED <<records, host, script, boot, misc, data, fresh, history>>

\* No root: Android is selected, and started when the timer runs out.
Fallback ==
    /\ mode = "fallback"
    /\ misc' = [misc EXCEPT !.control = "a"]
    /\ mode' = "off"
    /\ UNCHANGED <<records, host, script, root, boot, data, fresh, history>>

\* e5-boot-ok: the system is up and selects itself again.
BootOk ==
    /\ mode = "linux"
    /\ root' = [root EXCEPT !.trial = "none"]
    /\ misc' = [misc EXCEPT !.control = "trial"]
    /\ UNCHANGED <<records, host, script, boot, data, mode, fresh, history>>

\* e5-next-boot android, and a restart.
LeaveLinux ==
    /\ mode = "linux"
    /\ misc' = [misc EXCEPT !.control = "a"]
    /\ mode' = "off"
    /\ UNCHANGED <<records, host, script, root, boot, data, fresh, history>>

-----------------------------------------------------------------------------

Init ==
    /\ file = [t \in Txns |-> "none"]
    /\ effects = [t \in Txns |-> [n \in EffectNames |-> "none"]]
    /\ host = Off
    /\ writers = [w \in Owners |-> NoWriter] /\ lock = FALSE
    /\ root \in {NoRoot, Installed}
    /\ boot = [kind |-> "other", txn |-> NoTxn]
    /\ misc = [bcb |-> "empty", control |-> "a"]
    /\ data = "found" /\ mode = "android" /\ fresh = {}
    /\ history = [carves |-> 0, carver |-> NoTxn, armed |-> NoTxn, handed |-> FALSE]

Entry == \E t \in Txns : Start(t) \/ Reinstall(t) \/ Resume(t)

Record == Await \/ AlreadyComplete \/ Check \/ Push \/ SaveInstalled \/ SaveComplete

Command == \/ SkipDone \/ Begin \/ Finish \/ Reboot \/ WaitAndroid
           \/ SyncChain \/ FlashBegins \/ FlashEnds \/ Arm

Script == WriterStarts \/ \E w \in Owners : WriterWrites(w) \/ WriterEnds(w) \/ WriterFails(w)

Firmware == \/ PowerLoss \/ BootRecovery \/ BootB \/ BootA \/ RecoveryWipes \/ RecoveryEnds

Initramfs == \/ PrepareRejects \/ Carve \/ Mark \/ RequestReset \/ GiveBack \/ PrepareFails
             \/ SelectRoot \/ Fallback \/ BootOk \/ LeaveLinux

Next == Entry \/ Record \/ Command \/ Stop \/ Script \/ Firmware \/ Initramfs

Spec == Init /\ [][Next]_vars

-----------------------------------------------------------------------------
(* Properties *)

\* Every variable holds what its declaration says.
TypeOK ==
    /\ file \in [Txns -> Phases]
    /\ effects \in [Txns -> [EffectNames -> {"none", "started", "done"}]]
    /\ host \in Host
    /\ writers \in [Owners -> Writer]
    /\ lock \in BOOLEAN
    /\ root \in Root
    /\ boot \in Boot
    /\ misc \in Misc
    /\ data \in {"found", "oversized", "formatted"}
    /\ mode \in Modes
    /\ fresh \subseteq Txns
    /\ history \in History

\* "A second boot cannot repeat the carve" (part-prepare.sh): the slot has two
\* tries, the power may fail, a second transaction may have staged its own request,
\* and userdata is divided once.
CarvedOnce == history.carves <= 1

\* A transaction that was to prepare its partition writes the root only if it is
\* the one the partition was carved for: neither another transaction's preparation
\* nor a system already installed is overwritten, whatever was resumed in between.
PreparedBeforeWritten ==
    \A w \in Owners : writers[w].txn \in Txns \ Reinstalls => history.carver = writers[w].txn

\* From the moment the computer believes the root written until it is done, the
\* root is whole: no script left over from an earlier run tears it again.
InstalledStays == host.pc \in {"wrote", "chain2", "boot2", "arm2", "closing"} => root.state = "whole"

\* The boot loader is sent to slot B only for an image that can do what it is
\* selected for: this transaction's request, or the final image with a whole root
\* behind it ("must not arm a failed installation").
SelectsWhatBoots ==
    misc'.control = "trial" /\ misc.control # "trial" =>
        \/ mode = "linux"
        \/ host.pc = "arm1" /\ boot = [kind |-> "prepare", txn |-> host.txn]
        \/ host.pc = "arm2" /\ boot.kind = "part" /\ root.state = "whole"

ArmsWhatBoots == [][SelectsWhatBoots]_vars

\* A transaction becomes complete only when its own root is verified on the
\* partition, its final image is in slot B, and slot B was selected for it.
CompletesInstalled ==
    \A t \in Txns : file[t] # "complete" /\ file'[t] = "complete" =>
        /\ root.state = "whole" /\ root.by = t
        /\ boot = [kind |-> "part", txn |-> t]
        /\ history.armed = t

\* Once the preparation has given the slots back, a userdata that is larger than
\* its partition has a reset requested: no loss of power gets Android to start on it.
ResetHandedOver == data = "oversized" /\ history.handed => misc.bcb = "wipe"

\* On a device with one record the root is whole from the moment the computer believes it
\* written until it is done, whatever old script still runs (InstalledStays).
OneRecord == \A s, t \in Txns : file[s] # "none" /\ file[t] # "none" => s = t
RootStaysWhole == OneRecord => InstalledStays

\* And slot B is selected for what can start only, the request or the final image with a
\* whole root behind it; and the record becomes complete only with its own root and image
\* in place (SelectsWhatBoots, CompletesInstalled).
SelectsAndCompletes == [][OneRecord' => SelectsWhatBoots /\ CompletesInstalled]_vars

=============================================================================
