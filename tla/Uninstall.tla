----------------------------- MODULE Uninstall -----------------------------
(***************************************************************************)
(* The removal of an internal OpenWrt partition: installer/backend         *)
(* uninstall.py on the computer and uninstall_worker.py, the script of the *)
(* one-shot boot image it stages.                                          *)
(*                                                                         *)
(* The computer writes the worker's image to the inactive boot slot and    *)
(* selects that slot for a trial boot.  The worker, running from memory,   *)
(* restores the two copies of the partition table, grows the file system   *)
(* or leaves a reset request to the stock recovery, and gives the slots    *)
(* back to Android.  The computer then checks what Android finds.          *)
(*                                                                         *)
(* The computer's process may die at any point, and what it had started on *)
(* the device may run on; the device may lose power at any point.  The     *)
(* boot loader and the stock recovery are not in the repository: their     *)
(* actions are what the code and its documents say of them.                *)
(***************************************************************************)
EXTENDS Naturals

CONSTANTS
    DataActions,  \* plans considered: see PlanActions
    TrialBoots,   \* how many boots of a selected trial slot the boot loader may allow
    Overlap       \* may a script outlive its computer until that is started again?

\* plan.data_action.  "gap": the root lay in unallocated space; "reset": userdata
\* grows and Android is reset, which the user authorised; "grow": userdata and
\* its file system grow, nothing is formatted.
PlanActions == {"gap", "reset", "grow"}

ASSUME DataActionsAssumption == DataActions \subseteq PlanActions /\ DataActions # {}
ASSUME TrialBootsAssumption == TrialBoots \subseteq {1, 2} /\ TrialBoots # {}
ASSUME OverlapAssumption == Overlap \in BOOLEAN

VARIABLES
    action,    \* plan.data_action
    boots,     \* this boot loader's number of trial boots
    record,    \* the saved transaction
    host,      \* the computer's worker thread
    scripts,   \* the shell scripts it started on Android
    gpt,       \* the two copies of the partition table
    flash,     \* misc, the inactive boot slot, the file system of userdata, the root
    mode,      \* what the device runs
    step,      \* where the offline worker is
    sameBoot,  \* Android still runs the boot the record has to see gone
    history    \* counters the properties are about

vars == <<action, boots, record, host, scripts, gpt, flash, mode, step, sameBoot, history>>
device == <<gpt, flash, mode, step, sameBoot>>
computer == <<record, host, scripts>>
fixed == <<action, boots>>

EffectStates == {"none", "started", "done"}
\* The boot control block: as found; inactive slot selected with two tries; one
\* try left; none left; deselected by the boot loader; Android's final selection.
Controls == {"orig", "trial", "last", "spent", "demoted", "android"}
\* The inactive boot slot.
Images == {"openwrt", "torn", "uninstall", "android"}
Tables == {"before", "torn", "after"}

Statuses == {"ready", "running", "waiting", "failed", "cancelled", "completed"}
Record == [status : Statuses,
           arm : EffectStates, rearm : EffectStates, final : EffectStates,
           control : Controls \cup {"none"},  \* boot control in the computer's backup
           retry : Images \cup {"none"},      \* uninstall_retry_linux_sha256
           before : Controls \cup {"none"},   \* uninstall_growth_before_bc
           pending : BOOLEAN]                 \* uninstall_growth_pending

HostStates == {"off", "deciding", "recovering", "rereading", "preparing", "prepared",
               "scripting", "staged", "waiting", "regrowing", "rearming", "finishing",
               "restoring", "restored", "completing"}
Host == [pc : HostStates,
         resume : BOOLEAN,                    \* resume_growth
         seen : Controls \cup {"none"},       \* the boot control read by recover_arm
         fresh : BOOLEAN]                     \* the boot seen by run is the running one

\* A script checks what it was told to find, copies an image, verifies it and
\* selects a slot; "attached" is the one the computer waits for, "orphan" one
\* that outlived its computer (one at most: two would need two crashes inside
\* one shell command).
Owners == {"attached", "orphan"}
NoScript == [kind |-> "none", pc |-> "none", linux |-> "none", control |-> "none"]
Script == [kind : {"none", "arm", "rearm", "final"},
           pc : {"none", "check", "boot", "verify", "misc", "ok", "failed"},
           linux : Images \cup {"none"}, control : Controls \cup {"none"}]

Flash == [control : Controls, bcb : {"empty", "wipe"}, linux : Images,
          fs : {"small", "full"}, root : {"kept", "erased"}]
Steps == {"off", "check", "request", "copy1", "copying1", "copy2", "copying2",
          "grow", "boot", "booting", "select", "halted"}

-----------------------------------------------------------------------------
(* Helpers *)

\* Variant: the table Android uses.
EffectiveLayout == IF gpt["first"] # "torn" THEN gpt["first"] ELSE gpt["last"]

\* layout_state: both copies, byte for byte.
Layout == IF gpt["first"] = gpt["last"] /\ gpt["first"] # "torn" THEN gpt["first"] ELSE "unknown"

\* The userdata partition of the running system; a torn table is passed over.
Userdata == IF gpt["first"] # "torn" THEN gpt["first"] ELSE gpt["last"]

\* Variant: any control block that does not select the trial.
UntouchedIfUnselected(now, saved) == now # "trial"

\* The boot control block is, byte for byte, the one in the backup.
Untouched(now, saved) == now = saved

\* trial_control: the inactive slot must not have the higher priority.
TrialAllowed(control) == control \in {"orig", "demoted", "android"}

AndroidRuns == mode = "android"

AtMostTwice(n) == IF n = 0 THEN 1 ELSE 2

Goto(pc) == host' = [host EXCEPT !.pc = pc]

Stop(r, status) == record' = [r EXCEPT !.status = status] /\ Goto("off")

\* An effect records its start and sends its script.
Send(kind, linux, control) ==
    /\ record' = [record EXCEPT ![kind] = "started"]
    /\ scripts' = [scripts EXCEPT !["attached"] =
                      [kind |-> kind, pc |-> IF AndroidRuns THEN "check" ELSE "failed",
                       linux |-> linux, control |-> control]]
    /\ Goto("scripting")

-----------------------------------------------------------------------------
(* The computer *)

\* start, resume or retry.
Start ==
    /\ host.pc = "off" /\ record.status # "completed"
    /\ Overlap \/ scripts["orphan"] = NoScript
    /\ host' = [pc |-> "deciding", seen |-> "none", fresh |-> FALSE,
                resume |-> record.status \in {"failed", "cancelled"} /\ record.pending]
    /\ history' = [history EXCEPT !.asked = 0]
    /\ UNCHANGED <<fixed, record, scripts, device>>

\* run: an interrupted staging is read back, a finished one is waited for.
Decide ==
    /\ host.pc = "deciding"
    /\ Goto(CASE record.arm = "none" -> "preparing"
              [] record.arm = "started" -> "recovering"
              [] record.arm = "done" -> "waiting")
    /\ UNCHANGED <<fixed, record, scripts, device, history>>

RecoverWaits ==
    /\ host.pc = "recovering" /\ ~AndroidRuns
    /\ record' = [record EXCEPT !.status = "waiting"]
    /\ UNCHANGED <<fixed, host, scripts, device, history>>

\* recover_arm: with the old table the boot control is read, then the slot.
Recover ==
    /\ host.pc = "recovering" /\ AndroidRuns
    /\ \/ /\ Layout = "after"
          /\ record' = [record EXCEPT !.arm = "done"] /\ Goto("waiting")
       \/ /\ Layout = "before"
          /\ host' = [host EXCEPT !.pc = "rereading", !.seen = flash.control]
          /\ UNCHANGED record
       \/ /\ Layout = "unknown"
          /\ Stop(record, "failed")
    /\ UNCHANGED <<fixed, scripts, device, history>>

\* Variant: the image in the slot is taken for a finished staging.
StagedIfImage(control) == flash.linux = "uninstall"

\* The staging was finished: image and selection are both there.
Staged(control) == control = "trial" /\ flash.linux = "uninstall"

Reread ==
    /\ host.pc = "rereading" /\ AndroidRuns
    /\ \/ /\ Untouched(host.seen, record.control)
          /\ record' = [record EXCEPT !.arm = "none", !.retry = flash.linux]
          /\ Goto("preparing")
       \/ /\ Staged(host.seen)
          /\ record' = [record EXCEPT !.arm = "done"] /\ Goto("waiting")
       \/ /\ ~Untouched(host.seen, record.control) /\ ~Staged(host.seen)
          /\ Stop(record, "failed")
    /\ UNCHANGED <<fixed, scripts, device, history>>

\* arm, up to the effect: evidence and layout are checked, the backup is taken
\* if none is recorded, no recovery request and no other slot may be pending.
Prepare ==
    LET control == IF record.control = "none" THEN flash.control ELSE record.control
    IN  /\ host.pc = "preparing" /\ AndroidRuns
        /\ Layout = "before"
        /\ record.retry = "none" => flash.linux = "openwrt"
        /\ record.control = "none" => flash.bcb = "empty"
        /\ TrialAllowed(control)
        /\ record' = [record EXCEPT !.control = control, !.status = "running"]
        /\ Goto("prepared")
        /\ UNCHANGED <<fixed, scripts, device, history>>

SendArm ==
    /\ host.pc = "prepared"
    /\ Send("arm", IF record.retry = "none" THEN "openwrt" ELSE record.retry, record.control)
    /\ UNCHANGED <<fixed, device, history>>

\* The script's exit status arrives, and is recorded.
EffectDone ==
    LET s == scripts["attached"]
    IN  /\ host.pc = "scripting" /\ s.pc = "ok"
        /\ record' = [record EXCEPT ![s.kind] = "done"]
        /\ scripts' = [scripts EXCEPT !["attached"] = NoScript]
        /\ Goto(IF s.kind = "final" THEN "restored" ELSE "staged")
        /\ UNCHANGED <<fixed, device, history>>

EffectFails ==
    /\ host.pc = "scripting" /\ scripts["attached"].pc = "failed"
    /\ scripts' = [scripts EXCEPT !["attached"] = NoScript]
    /\ Stop(record, "failed")
    /\ UNCHANGED <<fixed, device, history>>

\* A reboot ends every script; the computer sees its own fail.
ScriptsDie == scripts' = [w \in Owners |->
    IF w = "attached" /\ scripts[w].kind # "none" THEN [scripts[w] EXCEPT !.pc = "failed"]
    ELSE NoScript]

\* The device is told to restart; the command may be lost.
Restart ==
    /\ host.pc = "staged"
    /\ record' = [record EXCEPT !.status = "waiting"]
    /\ Goto("waiting")
    /\ sameBoot' = IF record.rearm = "none" THEN sameBoot ELSE host.fresh
    /\ \/ AndroidRuns /\ mode' = "boot" /\ ScriptsDie
       \/ UNCHANGED <<mode, scripts>>
    /\ UNCHANGED <<fixed, gpt, flash, step, history>>

WaitAgain ==
    /\ host.pc = "waiting" /\ (~AndroidRuns \/ sameBoot)
    /\ record' = [record EXCEPT !.status = "waiting"]
    /\ UNCHANGED <<fixed, host, scripts, device, history>>

\* run: Android is back in another boot.
AndroidReturned ==
    /\ host.pc = "waiting" /\ AndroidRuns /\ ~sameBoot
    /\ IF Layout = "after"
       THEN /\ host' = [host EXCEPT !.fresh = TRUE,
                                    !.pc = IF host.resume THEN "regrowing" ELSE "finishing"]
            /\ UNCHANGED record
       ELSE Stop(record, "failed")
    /\ UNCHANGED <<fixed, scripts, device, history>>

\* Variant: the resumption of the growth is not used up.
KeepsResuming(pc) == Goto(pc)

\* run clears resume_growth before it calls rearm_growth.
ResumesOnce(pc) == host' = [host EXCEPT !.pc = pc, !.resume = FALSE]

\* rearm_growth: the same worker is selected again, unless the file system has
\* grown; an interrupted selection is decided by reading it back.
GrowthPossible == action = "grow" /\ Layout = "after"
RearmInterrupted ==
    record.rearm = "started" \/ (record.rearm = "done" /\ flash.control = "trial")

NothingToGrow ==
    /\ host.pc = "regrowing" /\ AndroidRuns
    /\ GrowthPossible /\ flash.fs = "full"
    /\ record' = [record EXCEPT !.pending = FALSE] /\ ResumesOnce("finishing")
    /\ UNCHANGED <<fixed, scripts, device, history>>

RearmVerified ==
    /\ host.pc = "regrowing" /\ AndroidRuns
    /\ GrowthPossible /\ flash.fs = "small" /\ flash.linux = "uninstall"
    /\ RearmInterrupted /\ flash.control = "trial"
    /\ record' = [record EXCEPT !.rearm = "done"] /\ ResumesOnce("staged")
    /\ UNCHANGED <<fixed, scripts, device, history>>

Rearm ==
    /\ host.pc = "regrowing" /\ AndroidRuns
    /\ GrowthPossible /\ flash.fs = "small" /\ flash.linux = "uninstall"
    /\ IF RearmInterrupted THEN flash.control = record.before /\ flash.control # "trial"
                           ELSE TrialAllowed(flash.control)
    /\ record' = [record EXCEPT !.rearm = "none", !.before = flash.control]
    /\ ResumesOnce("rearming")
    /\ UNCHANGED <<fixed, scripts, device, history>>

SendRearm ==
    /\ host.pc = "rearming"
    /\ Send("rearm", "uninstall", record.before)
    /\ UNCHANGED <<fixed, device, history>>

\* finish: capacity of the partition and of its file system, the recovery request
\* consumed, and in finish_boot no other selection pending.
Finished ==
    /\ Userdata = "after" /\ flash.fs = "full"
    /\ flash.bcb = "empty" /\ flash.control # "trial"

FinishRefused ==
    /\ host.pc = "finishing" /\ AndroidRuns /\ ~Finished
    /\ Stop([record EXCEPT !.pending = @ \/ (action = "grow" /\ flash.fs = "small")], "failed")
    /\ UNCHANGED <<fixed, scripts, device, history>>

BootIsAndroids == flash.linux = "android" /\ flash.control = "android"

FinishVerified ==
    /\ host.pc = "finishing" /\ AndroidRuns /\ Finished /\ BootIsAndroids
    /\ record' = [record EXCEPT !.final = IF @ = "none" THEN @ ELSE "done", !.status = "running"]
    /\ Goto("completing")
    /\ UNCHANGED <<fixed, scripts, device, history>>

FinishBoot ==
    /\ host.pc = "finishing" /\ AndroidRuns /\ Finished /\ ~BootIsAndroids
    /\ record' = [record EXCEPT !.final = "none", !.status = "running"]
    /\ Goto("restoring")
    /\ UNCHANGED <<fixed, scripts, device, history>>

SendFinal ==
    /\ host.pc = "restoring"
    /\ Send("final", "none", "none")
    /\ UNCHANGED <<fixed, device, history>>

Complete ==
    /\ host.pc \in {"restored", "completing"}
    /\ Stop([record EXCEPT !.pending = FALSE], "completed")
    /\ UNCHANGED <<fixed, scripts, device, history>>

\* A boundary: in both waits, before and after each effect.
Cancel ==
    /\ host.pc \in {"recovering", "prepared", "staged", "waiting", "rearming", "restoring", "restored"}
    /\ Stop(record, "cancelled")
    /\ UNCHANGED <<fixed, scripts, device, history>>

\* Any check or connection raises; the connection only outside the two waits.
HostFails ==
    /\ host.pc \notin {"off", "scripting", "completing"}
    /\ Stop(record, "failed")
    /\ UNCHANGED <<fixed, scripts, device, history>>

\* The computer's process dies; its script dies with the connection or runs on.
Crash ==
    /\ host.pc # "off"
    /\ Goto("off")
    /\ LET s == scripts["attached"]
       IN  \/ scripts' = [scripts EXCEPT !["attached"] = NoScript]
           \/ /\ s.pc \in {"check", "boot", "verify", "misc"} /\ scripts["orphan"] = NoScript
              /\ scripts' = [attached |-> NoScript, orphan |-> s]
    /\ UNCHANGED <<fixed, record, device, history>>

-----------------------------------------------------------------------------
(* The scripts on Android, each ended by its first failure *)

ScriptAt(w, pc) == AndroidRuns /\ scripts[w].pc = pc

ScriptGoes(w, pc) ==
    scripts' = [scripts EXCEPT ![w] = IF w = "orphan" /\ pc \in {"ok", "failed"} THEN NoScript
                                      ELSE [@ EXCEPT !.pc = pc]]

Image(w) == IF scripts[w].kind = "arm" THEN "uninstall" ELSE "android"

\* What the script was told to find is still there.
FindsExpected(w) ==
    LET s == scripts[w]
    IN  CASE s.kind = "arm" -> /\ Layout = "before" /\ flash.linux = s.linux
                               /\ Untouched(flash.control, s.control)
          [] s.kind = "rearm" -> flash.linux = s.linux /\ flash.control = s.control
          [] s.kind = "final" -> TRUE

\* Variant: a slot being written counts as empty.
OverwrittenEmpty(image) == IF flash.linux = image THEN image ELSE "none"

\* The copy of an image over the same image changes nothing.
Overwritten(image) == IF flash.linux = image THEN image ELSE "torn"

\* The copy of the boot image begins; a re-arming script copies none.
ScriptBegins(w) ==
    /\ ScriptAt(w, "check") /\ FindsExpected(w)
    /\ IF scripts[w].kind = "rearm" THEN ScriptGoes(w, "misc") /\ UNCHANGED flash
       ELSE /\ ScriptGoes(w, "boot")
            /\ flash' = [flash EXCEPT !.linux = Overwritten(Image(w))]
    /\ UNCHANGED <<fixed, record, host, gpt, mode, step, sameBoot, history>>

\* Variant: the status of the copy and its readback are not looked at.
ScriptCopiesUnchecked(w) ==
    /\ ScriptAt(w, "boot")
    /\ ScriptGoes(w, "misc")
    /\ \/ flash' = [flash EXCEPT !.linux = Image(w)]
       \/ UNCHANGED flash
    /\ UNCHANGED <<fixed, record, host, gpt, mode, step, sameBoot, history>>

ScriptCopies(w) ==
    /\ ScriptAt(w, "boot")
    /\ ScriptGoes(w, "verify")
    /\ flash' = [flash EXCEPT !.linux = Image(w)]
    /\ UNCHANGED <<fixed, record, host, gpt, mode, step, sameBoot, history>>

ScriptVerifies(w) ==
    /\ ScriptAt(w, "verify") /\ flash.linux = Image(w)
    /\ ScriptGoes(w, "misc")
    /\ UNCHANGED <<fixed, record, host, device, history>>

\* The 32 bytes of boot control lie in one sector: they are written or not.
ScriptSelects(w) ==
    LET control == IF scripts[w].kind = "final" THEN "android" ELSE "trial"
    IN  /\ ScriptAt(w, "misc")
        /\ ScriptGoes(w, "ok")
        /\ flash' = [flash EXCEPT !.control = control]
        /\ history' = IF control = "trial" /\ flash.control # "trial"
                      THEN [history EXCEPT !.trials = AtMostTwice(@),
                                           !.asked = IF w = "attached" THEN AtMostTwice(@) ELSE @]
                      ELSE history
        /\ UNCHANGED <<fixed, record, host, gpt, mode, step, sameBoot>>

\* A check, a copy or a readback fails; a failed selection is written back.
ScriptFails(w) ==
    /\ \E pc \in {"check", "boot", "verify", "misc"} : ScriptAt(w, pc)
    /\ ScriptGoes(w, "failed")
    /\ UNCHANGED <<fixed, record, host, device, history>>

-----------------------------------------------------------------------------
(* Power, boot loader and stock recovery *)

\* Power is lost or the user restarts the device.
PowerLoss ==
    /\ mode # "boot"
    /\ mode' = "boot" /\ step' = "off" /\ ScriptsDie
    /\ UNCHANGED <<fixed, record, host, gpt, flash, sameBoot, history>>

\* A selected trial slot is tried once or twice and counted down first; an image
\* that does not load falls through to the next decision.
TrialDue == flash.control = "trial" \/ (flash.control = "last" /\ boots = 2)

BootTrial ==
    /\ mode = "boot" /\ TrialDue
    /\ flash' = [flash EXCEPT !.control = IF @ = "trial" THEN "last" ELSE "spent"]
    /\ IF flash.linux = "uninstall" THEN mode' = "worker" /\ step' = "check"
                                    ELSE UNCHANGED <<mode, step>>
    /\ UNCHANGED <<fixed, record, host, scripts, gpt, sameBoot, history>>

\* Otherwise Android's slot starts, its recovery when one is requested.  The boot
\* loader may deselect the slot that failed.
BootAndroid ==
    /\ mode = "boot" /\ ~TrialDue
    /\ \E control \in {flash.control} \cup
           (IF flash.control \in {"last", "spent"} THEN {"demoted"} ELSE {}) :
           flash' = [flash EXCEPT !.control = control]
    /\ mode' = IF flash.bcb = "wipe" THEN "recovery" ELSE "android"
    /\ sameBoot' = FALSE
    /\ host' = [host EXCEPT !.fresh = FALSE]
    /\ UNCHANGED <<fixed, record, scripts, gpt, step, history>>

\* The stock recovery formats userdata, then clears its request.
RecoveryWipes ==
    /\ mode = "recovery"
    /\ flash' = [flash EXCEPT !.bcb = "empty", !.fs = IF Userdata = "after" THEN "full" ELSE @]
    /\ history' = [history EXCEPT !.wipes = AtMostTwice(@)]
    /\ mode' = "boot"
    /\ UNCHANGED <<fixed, record, host, scripts, gpt, step, sameBoot>>

-----------------------------------------------------------------------------
(* The offline worker *)

StepGoes(from, to) == mode = "worker" /\ step = from /\ step' = to

\* snapshot_known: each copy is the old or the new one.
SnapshotKnown == gpt["first"] # "torn" /\ gpt["last"] # "torn"

\* All checks before the first write; a finished table is not written again.
WorkerChecks ==
    /\ StepGoes("check", IF Layout = "after" THEN "grow" ELSE "request")
    /\ SnapshotKnown
    /\ action = "grow" => flash.bcb = "empty"
    /\ UNCHANGED <<fixed, computer, gpt, flash, mode, sameBoot, history>>

\* Variant: every enlargement of userdata requests a reset.
RequestsIfGrowing == IF action = "gap" THEN [flash EXCEPT !.root = "erased"]
                     ELSE [flash EXCEPT !.bcb = "wipe"]

\* A reset is requested before the table changes; a root in a gap is invalidated.
Requests == CASE action = "reset" -> [flash EXCEPT !.bcb = "wipe"]
              [] action = "gap" -> [flash EXCEPT !.root = "erased"]
              [] action = "grow" -> flash

WorkerRequests ==
    /\ StepGoes("request", "copy1")
    /\ flash' = Requests
    /\ UNCHANGED <<fixed, computer, gpt, mode, sameBoot, history>>

\* Variant: the primary copy goes first.
PrimaryFirst == <<"first", "last">>

\* snapshot_commit: the backup copy is written and verified before the primary.
CommitOrder == <<"last", "first">>

CopyStep == <<"copy1", "copy2">>
CopyingStep == <<"copying1", "copying2">>

WorkerCopies(i) ==
    /\ StepGoes(CopyStep[i], CopyingStep[i])
    /\ gpt' = [gpt EXCEPT ![CommitOrder[i]] = IF @ = "after" THEN @ ELSE "torn"]
    /\ UNCHANGED <<fixed, computer, flash, mode, sameBoot, history>>

WorkerCopied(i) ==
    /\ StepGoes(CopyingStep[i], IF i = 1 THEN "copy2" ELSE "grow")
    /\ gpt' = [gpt EXCEPT ![CommitOrder[i]] = "after"]
    /\ UNCHANGED <<fixed, computer, flash, mode, sameBoot, history>>

\* fs_grow, then the check that Android's boot image is still the recorded one.
WorkerGrows ==
    /\ StepGoes("grow", "boot")
    /\ flash' = [flash EXCEPT !.fs = IF action = "grow" THEN "full" ELSE @]
    /\ UNCHANGED <<fixed, computer, gpt, mode, sameBoot, history>>

WorkerCopiesBoot ==
    /\ StepGoes("boot", "booting")
    /\ flash' = [flash EXCEPT !.linux = Overwritten("android")]
    /\ UNCHANGED <<fixed, computer, gpt, mode, sameBoot, history>>

WorkerCopiedBoot ==
    /\ StepGoes("booting", "select")
    /\ flash' = [flash EXCEPT !.linux = "android"]
    /\ UNCHANGED <<fixed, computer, gpt, mode, sameBoot, history>>

WorkerSelectsAndroid ==
    /\ StepGoes("select", "off")
    /\ flash' = [flash EXCEPT !.control = "android"]
    /\ mode' = "boot"
    /\ UNCHANGED <<fixed, computer, gpt, sameBoot, history>>

\* Any check or command fails: the worker stops and waits for a power cycle.
WorkerFails ==
    /\ mode = "worker" /\ step # "halted"
    /\ step' = "halted"
    /\ UNCHANGED <<fixed, computer, gpt, flash, mode, sameBoot, history>>

-----------------------------------------------------------------------------
(* The specification *)

Init ==
    /\ action \in DataActions /\ boots \in TrialBoots
    /\ record = [status |-> "ready", arm |-> "none", rearm |-> "none", final |-> "none",
                 control |-> "none", retry |-> "none", before |-> "none", pending |-> FALSE]
    /\ host = [pc |-> "off", resume |-> FALSE, seen |-> "none", fresh |-> FALSE]
    /\ scripts = [w \in Owners |-> NoScript]
    /\ gpt = [copy \in {"first", "last"} |-> "before"]
    /\ flash = [control |-> "orig", bcb |-> "empty", linux |-> "openwrt",
                fs |-> IF action = "gap" THEN "full" ELSE "small", root |-> "kept"]
    /\ mode = "android" /\ step = "off" /\ sameBoot = TRUE
    /\ history = [wipes |-> 0, trials |-> 0, asked |-> 0]

Computer ==
    \/ Start \/ Decide \/ RecoverWaits \/ Recover \/ Reread \/ Prepare \/ SendArm
    \/ EffectDone \/ EffectFails \/ Restart \/ WaitAgain \/ AndroidReturned
    \/ NothingToGrow \/ RearmVerified \/ Rearm \/ SendRearm
    \/ FinishRefused \/ FinishVerified \/ FinishBoot \/ SendFinal \/ Complete
    \/ Cancel \/ HostFails \/ Crash

Shell(w) == \/ ScriptBegins(w) \/ ScriptCopies(w) \/ ScriptVerifies(w) \/ ScriptSelects(w)
            \/ ScriptFails(w)

Boots == PowerLoss \/ BootTrial \/ BootAndroid \/ RecoveryWipes

Worker ==
    \/ WorkerChecks \/ WorkerRequests \/ (\E i \in {1, 2} : WorkerCopies(i) \/ WorkerCopied(i))
    \/ WorkerGrows \/ WorkerCopiesBoot \/ WorkerCopiedBoot \/ WorkerSelectsAndroid \/ WorkerFails

Next == Computer \/ (\E w \in Owners : Shell(w)) \/ Boots \/ Worker

Spec == Init /\ [][Next]_vars

-----------------------------------------------------------------------------
(* Properties *)

\* Every variable has its type.
TypeOK ==
    /\ action \in DataActions /\ boots \in TrialBoots
    /\ record \in Record
    /\ host \in Host
    /\ scripts \in [Owners -> Script]
    /\ gpt \in [{"first", "last"} -> Tables]
    /\ flash \in Flash
    /\ mode \in {"android", "worker", "recovery", "boot"}
    /\ step \in Steps
    /\ sameBoot \in BOOLEAN
    /\ history \in [wipes : 0..2, trials : 0..2, asked : 0..2]

\* Wherever power is lost, the disk has a readable partition table, and the
\* primary copy is not touched before the backup copy is the new one
\* (snapshot_commit).
TableSurvives == gpt["first"] # "before" => gpt["last"] = "after"

\* The boot loader is never sent to a slot that holds no complete worker, whatever
\* script of which run of the computer selected it (commit_boot, rearm_growth).
TrialIsBootable == flash.control = "trial" => flash.linux = "uninstall"

\* A removal that keeps or releases space without growing a file system is staged
\* once, and Android is reset once at most: no crash, power loss or retry repeats
\* them ("Completed GPT work and formatting are never replayed").
RemovedOnce == (action # "grow" => history.trials < 2) /\ history.wipes < 2

\* Android is reset by an authorised reset only, never by a removal that grows
\* the file system or that releases a gap.
ResetIsAuthorised == (history.wipes > 0 \/ flash.bcb = "wipe") => action = "reset"

\* A staging recorded as done has selected the worker (effect, recover_arm).
ArmIsStaged == record.arm = "done" => flash.control # "orig"

\* Each offline run is asked for by a start, resume or retry of its own: waiting
\* for the device never selects the worker again (run, resume_growth).
RunsAreAsked == history.asked < 2

\* A completed removal has both tables restored, the whole partition in use, the
\* reset consumed and both slots Android's.
CompletedIsRemoved ==
    record.status = "completed" =>
        /\ gpt["first"] = "after" /\ gpt["last"] = "after"
        /\ flash.fs = "full" /\ flash.bcb = "empty"
        /\ flash.linux = "android" /\ flash.control = "android"
        /\ action = "gap" => flash.root = "erased"
        /\ action = "reset" => history.wipes = 1

=============================================================================
