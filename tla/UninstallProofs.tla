-------------------------- MODULE UninstallProofs ---------------------------
(***************************************************************************)
(* Proofs about Uninstall, for every kind of removal and every number of   *)
(* boots the boot loader allows a trial.  What holds only as long as no    *)
(* script outlives its computer is stated with the note of MCUninstall.    *)
(*                                                                         *)
(* First that the phone always starts something it can start.  Then that   *)
(* a removal does what it was asked for, and once: it stages its worker    *)
(* once, unless it grows the file system, and resets Android once at most; *)
(* no run of the computer selects the worker twice; and what is recorded   *)
(* as completed is removed.  All but the last also when scripts of a dead  *)
(* computer process overlap with those of the next one.                    *)
(***************************************************************************)
EXTENDS MCUninstall, TLAPS

-----------------------------------------------------------------------------
(* Types *)

\* Where the computer goes.
LEMMA HostTyped ==
    ASSUME TypeOK
    PROVE  /\ \A pc \in HostStates : [host EXCEPT !.pc = pc] \in Host
           /\ \A pc \in HostStates : [host EXCEPT !.pc = pc, !.resume = FALSE] \in Host
           /\ \A pc \in HostStates : [host EXCEPT !.fresh = TRUE, !.pc = pc] \in Host
           /\ \A pc \in HostStates : [host EXCEPT !.pc = pc, !.seen = flash.control] \in Host
           /\ [host EXCEPT !.fresh = FALSE] \in Host
  BY DEF TypeOK, Host, Flash

\* What it saves.
LEMMA RecordTyped ==
    ASSUME TypeOK
    PROVE  /\ \A r \in Record, st \in Statuses : [r EXCEPT !.status = st] \in Record
           /\ \A v \in EffectStates : [record EXCEPT !.arm = v] \in Record
           /\ \A v \in EffectStates : [record EXCEPT !.rearm = v] \in Record
           /\ \A v \in EffectStates, st \in Statuses :
                  [record EXCEPT !.final = v, !.status = st] \in Record
           /\ [record EXCEPT !.arm = "none", !.retry = flash.linux] \in Record
           /\ [record EXCEPT !.rearm = "none", !.before = flash.control] \in Record
           /\ \A c \in Controls, st \in Statuses :
                  [record EXCEPT !.control = c, !.status = st] \in Record
           /\ \A b \in BOOLEAN : [record EXCEPT !.pending = b] \in Record
<1>1. record \in Record /\ flash \in Flash
  BY DEF TypeOK
<1>2. flash.control \in Controls /\ flash.linux \in Images
  BY <1>1 DEF Flash
<1>3. "none" \in EffectStates
  BY DEF EffectStates
<1> QED
  BY <1>1, <1>2, <1>3 DEF Record

\* A step of the computer.
LEMMA ComputerTyped == TypeOK /\ Computer => TypeOK'
<1> SUFFICES ASSUME TypeOK, Computer PROVE TypeOK'
  OBVIOUS
<1> USE DEF TypeOK, fixed, device, computer
<1>a. /\ record.final \in EffectStates /\ record.control \in Controls \cup {"none"}
      /\ flash.control \in Controls /\ record.pending \in BOOLEAN
      /\ "none" \in EffectStates /\ "done" \in EffectStates
      /\ {"running", "waiting", "failed", "cancelled", "completed"} \subseteq Statuses
  BY DEF Record, Flash, EffectStates, Statuses
<1>b. /\ [record EXCEPT !.status = "failed"] \in Record
      /\ [record EXCEPT !.arm = "done"] \in Record
  BY <1>a, RecordTyped
<1>1. CASE Start
  BY <1>1
  DEF Start,
      Record, Statuses, EffectStates, Flash, Controls, Images, Host, HostStates
<1>2. CASE Decide
  BY <1>2
  DEF Decide, Goto,
      Record, Statuses, EffectStates, Flash, Controls, Images, Host, HostStates
<1>3. CASE RecoverWaits
  BY <1>3
  DEF RecoverWaits,
      Record, Statuses, EffectStates, Flash, Controls, Images, Host, HostStates
<1>4. CASE Recover
  <2>1. record' \in Record
    BY <1>b, <1>4 DEF Recover, Stop
  <2>2. host' \in Host
    BY <1>4, HostTyped DEF Recover, Stop, Goto, HostStates
  <2>3. QED
    BY <2>1, <2>2, <1>4 DEF Recover
<1>5. CASE Reread
  <2>1. record' \in Record
    BY <1>b, <1>5, RecordTyped DEF Reread, Stop
  <2>2. host' \in Host
    BY <1>5, HostTyped DEF Reread, Stop, Goto, HostStates
  <2>3. QED
    BY <2>1, <2>2, <1>5 DEF Reread
<1>6. CASE Prepare
  BY <1>a, <1>6, HostTyped, RecordTyped DEF Prepare, Stop, Goto, ResumesOnce, TrialAllowed, HostStates
<1>7. CASE SendArm
  BY <1>7
  DEF SendArm, Send, Goto, AndroidRuns, Owners, Script,
      Record, Statuses, EffectStates, Flash, Controls, Images, Host, HostStates
<1>8. CASE EffectDone
  BY <1>8
  DEF EffectDone, Goto, NoScript, Owners, Script,
      Record, Statuses, EffectStates, Flash, Controls, Images, Host, HostStates
<1>9. CASE EffectFails
  BY <1>9
  DEF EffectFails, Stop, Goto, NoScript, Owners, Script,
      Record, Statuses, EffectStates, Flash, Controls, Images, Host, HostStates
<1>10. CASE Restart
  BY <1>10
  DEF Restart, Goto, ScriptsDie, NoScript, Owners, Script,
      Record, Statuses, EffectStates, Flash, Controls, Images, Host, HostStates
<1>11. CASE WaitAgain
  BY <1>11
  DEF WaitAgain,
      Record, Statuses, EffectStates, Flash, Controls, Images, Host, HostStates
<1>12. CASE AndroidReturned
  <2>1. record' \in Record
    BY <1>b, <1>12 DEF AndroidReturned, Stop
  <2>2. host' \in Host
    BY <1>12, HostTyped DEF AndroidReturned, Stop, Goto, HostStates
  <2>3. QED
    BY <2>1, <2>2, <1>12 DEF AndroidReturned
<1>13. CASE NothingToGrow
  BY <1>a, <1>13, HostTyped, RecordTyped DEF NothingToGrow, Stop, Goto, ResumesOnce, TrialAllowed, HostStates
<1>14. CASE RearmVerified
  BY <1>14
  DEF RearmVerified, ResumesOnce,
      Record, Statuses, EffectStates, Flash, Controls, Images, Host, HostStates
<1>15. CASE Rearm
  BY <1>a, <1>15, HostTyped, RecordTyped DEF Rearm, Stop, Goto, ResumesOnce, TrialAllowed, HostStates
<1>16. CASE SendRearm
  BY <1>16
  DEF SendRearm, Send, Goto, AndroidRuns, Owners, Script,
      Record, Statuses, EffectStates, Flash, Controls, Images, Host, HostStates
<1>17. CASE FinishRefused
  BY <1>a, <1>17, HostTyped, RecordTyped DEF FinishRefused, Stop, Goto, ResumesOnce, TrialAllowed, HostStates
<1>18. CASE FinishVerified
  BY <1>a, <1>18, HostTyped, RecordTyped DEF FinishVerified, Stop, Goto, ResumesOnce, TrialAllowed, HostStates
<1>19. CASE FinishBoot
  BY <1>a, <1>19, HostTyped, RecordTyped DEF FinishBoot, Stop, Goto, ResumesOnce, TrialAllowed, HostStates
<1>20. CASE SendFinal
  BY <1>20
  DEF SendFinal, Send, Goto, AndroidRuns, Owners, Script,
      Record, Statuses, EffectStates, Flash, Controls, Images, Host, HostStates
<1>21. CASE Complete
  BY <1>a, <1>21, HostTyped, RecordTyped DEF Complete, Stop, Goto, ResumesOnce, TrialAllowed, HostStates
<1>22. CASE Cancel
  BY <1>22
  DEF Cancel, Stop, Goto,
      Record, Statuses, EffectStates, Flash, Controls, Images, Host, HostStates
<1>23. CASE HostFails
  BY <1>23
  DEF HostFails, Stop, Goto,
      Record, Statuses, EffectStates, Flash, Controls, Images, Host, HostStates
<1>24. CASE Crash
  BY <1>24
  DEF Crash, Goto, NoScript, Owners, Script,
      Record, Statuses, EffectStates, Flash, Controls, Images, Host, HostStates
<1>25. QED
  BY <1>1, <1>2, <1>3, <1>4, <1>5, <1>6, <1>7, <1>8, <1>9, <1>10, <1>11, <1>12, <1>13, <1>14, <1>15, <1>16, <1>17, <1>18, <1>19, <1>20, <1>21, <1>22, <1>23, <1>24 DEF Computer

\* What the properties count.
LEMMA HistoryTyped ==
    ASSUME TypeOK
    PROVE  /\ [history EXCEPT !.wipes = AtMostTwice(@)] \in [wipes : 0..2, trials : 0..2, asked : 0..2]
           /\ [history EXCEPT !.trials = AtMostTwice(@), !.asked = AtMostTwice(@)]
                  \in [wipes : 0..2, trials : 0..2, asked : 0..2]
           /\ [history EXCEPT !.trials = AtMostTwice(@), !.asked = @]
                  \in [wipes : 0..2, trials : 0..2, asked : 0..2]
<1>1. \A n : AtMostTwice(n) \in 0..2
  BY DEF AtMostTwice
<1>2. QED
  BY <1>1 DEF TypeOK

\* A step of a script.
LEMMA ShellTyped ==
    ASSUME TypeOK, NEW w \in Owners, Shell(w)
    PROVE  TypeOK'
<1> USE DEF TypeOK, fixed, device, computer, ScriptAt, ScriptGoes, NoScript, Owners, Script,
            Flash, Controls, Images, Host, HostStates
<1>1. CASE ScriptBegins(w)
  BY <1>1 DEF ScriptBegins, Overwritten, Image
<1>2. CASE ScriptCopies(w)
  BY <1>2 DEF ScriptCopies, Image
<1>3. CASE ScriptVerifies(w)
  BY <1>3 DEF ScriptVerifies
<1>4. CASE ScriptSelects(w)
  <2>1. flash' \in Flash /\ scripts' \in [Owners -> Script]
    BY <1>4 DEF ScriptSelects
  <2>2. history' \in [wipes : 0..2, trials : 0..2, asked : 0..2]
    BY <1>4, HistoryTyped DEF ScriptSelects
  <2>3. QED
    BY <2>1, <2>2, <1>4 DEF ScriptSelects
<1>5. CASE ScriptFails(w)
  BY <1>5 DEF ScriptFails
<1>6. QED
  BY <1>1, <1>2, <1>3, <1>4, <1>5 DEF Shell

\* A step of the boot loader, of the stock recovery or of the user.
LEMMA BootsTyped == TypeOK /\ Boots => TypeOK'
<1> SUFFICES ASSUME TypeOK, Boots PROVE TypeOK'
  OBVIOUS
<1> USE DEF TypeOK, fixed, device, computer, Flash, Controls, Images, Steps
<1>1. CASE PowerLoss
  BY <1>1 DEF PowerLoss, ScriptsDie, NoScript, Owners, Script
<1>2. CASE BootTrial
  BY <1>2 DEF BootTrial
<1>3. CASE BootAndroid
  BY <1>3 DEF BootAndroid, Host
<1>4. CASE RecoveryWipes
  <2>1. flash' \in Flash
    BY <1>4 DEF RecoveryWipes
  <2>2. history' \in [wipes : 0..2, trials : 0..2, asked : 0..2]
    BY <1>4, HistoryTyped DEF RecoveryWipes
  <2>3. QED
    BY <2>1, <2>2, <1>4 DEF RecoveryWipes
<1>5. QED
  BY <1>1, <1>2, <1>3, <1>4 DEF Boots

\* A step of the offline worker.
LEMMA WorkerTyped == TypeOK /\ Worker => TypeOK'
<1> SUFFICES ASSUME TypeOK, Worker PROVE TypeOK'
  OBVIOUS
<1> USE DEF TypeOK, fixed, device, computer, StepGoes, Flash, Controls, Images, Steps, Tables
<1>1. CASE WorkerChecks
  BY <1>1 DEF WorkerChecks
<1>2. CASE WorkerRequests
  BY <1>2, DataActionsAssumption DEF WorkerRequests, Requests, PlanActions
<1>3. ASSUME NEW i \in {1, 2}, WorkerCopies(i) PROVE TypeOK'
  BY <1>3 DEF WorkerCopies, CommitOrder, CopyStep, CopyingStep
<1>4. ASSUME NEW i \in {1, 2}, WorkerCopied(i) PROVE TypeOK'
  BY <1>4 DEF WorkerCopied, CommitOrder, CopyStep, CopyingStep
<1>5. CASE WorkerGrows
  BY <1>5 DEF WorkerGrows
<1>6. CASE WorkerCopiesBoot
  BY <1>6 DEF WorkerCopiesBoot, Overwritten
<1>7. CASE WorkerCopiedBoot
  BY <1>7 DEF WorkerCopiedBoot
<1>8. CASE WorkerSelectsAndroid
  BY <1>8 DEF WorkerSelectsAndroid
<1>9. CASE WorkerFails
  BY <1>9 DEF WorkerFails
<1>10. QED
  BY <1>1, <1>2, <1>3, <1>4, <1>5, <1>6, <1>7, <1>8, <1>9 DEF Worker

LEMMA InitTyped == Init => TypeOK
<1> SUFFICES ASSUME Init PROVE TypeOK
  OBVIOUS
<1>1. record \in Record /\ host \in Host /\ flash \in Flash
  BY DEF Init, Record, Statuses, EffectStates, Host, HostStates, Flash, Controls, Images
<1>2. scripts \in [Owners -> Script]
  BY DEF Init, NoScript, Script
<1>3. QED
  BY <1>1, <1>2 DEF Init, TypeOK, Tables, Steps

LEMMA StepTyped == TypeOK /\ [Next]_vars => TypeOK'
<1> SUFFICES ASSUME TypeOK, [Next]_vars PROVE TypeOK'
  OBVIOUS
<1>1. CASE UNCHANGED vars
  BY <1>1 DEF vars, TypeOK
<1>2. CASE Next
  BY <1>2, ComputerTyped, ShellTyped, BootsTyped, WorkerTyped DEF Next
<1>3. QED
  BY <1>1, <1>2

\* Every variable has its type.
THEOREM TypeCorrect == Spec => []TypeOK
<1>1. QED
  BY InitTyped, StepTyped, PTL DEF Spec

-----------------------------------------------------------------------------
(* The partition table *)

\* The primary copy is written only once the backup copy is the new one.
TableInv ==
    /\ TypeOK
    /\ TableSurvives
    /\ step \in {"copy2", "copying2"} => gpt["last"] = "after"

\* The computer itself touches neither the flash nor the worker's progress.
LEMMA ComputerKeeps == Computer => UNCHANGED <<gpt, flash, step>>
<1> SUFFICES ASSUME Computer PROVE UNCHANGED <<gpt, flash, step>>
  OBVIOUS
<1> USE DEF device
<1>1. CASE Start \/ Decide \/ RecoverWaits \/ Recover \/ Reread \/ Prepare \/ SendArm
  BY <1>1 DEF Start, Decide, RecoverWaits, Recover, Reread, Prepare, SendArm
<1>2. CASE EffectDone \/ EffectFails \/ Restart \/ WaitAgain \/ AndroidReturned
  BY <1>2 DEF EffectDone, EffectFails, Restart, WaitAgain, AndroidReturned
<1>3. CASE NothingToGrow \/ RearmVerified \/ Rearm \/ SendRearm
  BY <1>3 DEF NothingToGrow, RearmVerified, Rearm, SendRearm
<1>4. CASE FinishRefused \/ FinishVerified \/ FinishBoot \/ SendFinal \/ Complete
  BY <1>4 DEF FinishRefused, FinishVerified, FinishBoot, SendFinal, Complete
<1>5. CASE Cancel \/ HostFails \/ Crash
  BY <1>5 DEF Cancel, HostFails, Crash
<1>6. QED
  BY <1>1, <1>2, <1>3, <1>4, <1>5 DEF Computer

LEMMA ShellKeeps == ASSUME NEW w, Shell(w) PROVE UNCHANGED <<gpt, step>>
  BY DEF Shell, ScriptBegins, ScriptCopies, ScriptVerifies, ScriptSelects, ScriptFails, device

LEMMA BootsKeep == Boots => gpt' = gpt /\ step' \in {step, "off", "check"}
  BY DEF Boots, PowerLoss, BootTrial, BootAndroid, RecoveryWipes

LEMMA TableWorker == TableInv /\ Worker => TableInv'
<1> SUFFICES ASSUME TableInv, Worker PROVE TableInv'
  OBVIOUS
<1>a. TypeOK'
  BY WorkerTyped DEF TableInv
<1>b. gpt \in [{"first", "last"} -> Tables]
  BY DEF TableInv, TypeOK
<1> USE <1>a DEF TableInv, TableSurvives, StepGoes
<1>1. CASE WorkerChecks \/ WorkerRequests \/ WorkerFails
  BY <1>1 DEF WorkerChecks, WorkerRequests, WorkerFails
<1>2. CASE WorkerCopies(1) \/ WorkerCopied(1)
  BY <1>2, <1>b DEF WorkerCopies, WorkerCopied, CommitOrder, CopyStep, CopyingStep
<1>3. CASE WorkerCopies(2) \/ WorkerCopied(2)
  BY <1>3, <1>b DEF WorkerCopies, WorkerCopied, CommitOrder, CopyStep, CopyingStep
<1>4. CASE WorkerGrows \/ WorkerCopiesBoot \/ WorkerCopiedBoot \/ WorkerSelectsAndroid
  BY <1>4 DEF WorkerGrows, WorkerCopiesBoot, WorkerCopiedBoot, WorkerSelectsAndroid
<1>5. QED
  BY <1>1, <1>2, <1>3, <1>4 DEF Worker

LEMMA TableStep == TableInv /\ [Next]_vars => TableInv'
<1> SUFFICES ASSUME TableInv, [Next]_vars PROVE TableInv'
  OBVIOUS
<1>a. TypeOK'
  BY StepTyped DEF TableInv
<1>b. ASSUME gpt' = gpt, step' \in {step, "off", "check"} PROVE TableInv'
  BY <1>a, <1>b DEF TableInv, TableSurvives
<1>1. CASE UNCHANGED vars
  BY <1>1, <1>b DEF vars
<1>2. CASE Computer
  BY <1>2, <1>b, ComputerKeeps
<1>3. ASSUME NEW w \in Owners, Shell(w) PROVE TableInv'
  BY <1>3, <1>b, ShellKeeps
<1>4. CASE Boots
  BY <1>4, <1>b, BootsKeep
<1>5. CASE Worker
  BY <1>5, TableWorker
<1>6. QED
  BY <1>1, <1>2, <1>3, <1>4, <1>5 DEF Next

\* Wherever power is lost, one copy of the partition table is whole, and the
\* primary is touched only when the backup is the new one (snapshot_commit).
THEOREM TableAlwaysSurvives == Spec => []TableSurvives
<1>1. Init => TableInv
  BY InitTyped DEF Init, TableInv, TableSurvives
<1>2. TableInv => TableSurvives
  BY DEF TableInv
<1>3. QED
  BY <1>1, <1>2, TableStep, PTL DEF Spec

-----------------------------------------------------------------------------
(* The selection of a trial *)

Running(w) == scripts[w].pc \in {"check", "boot", "verify", "misc"}

\* What a script relies on from its check to its selection.
Undisturbed(w) ==
    /\ scripts[w].kind = "none" => scripts[w] = NoScript
    /\ scripts[w].kind = "arm" => scripts[w].control # "trial"
    /\ scripts[w].kind = "rearm" =>
           scripts[w].linux = "uninstall" /\ scripts[w].pc \notin {"boot", "verify"}
    /\ Running(w) =>
           /\ mode = "android"
           /\ scripts[w].kind = "final" => flash.control # "trial"
           /\ (scripts[w].kind = "arm" /\ scripts[w].pc # "check") => flash.control # "trial"
           /\ (scripts[w].kind # "final" /\ scripts[w].pc = "misc") => flash.linux = "uninstall"

\* One script runs at a time, and none beside the worker: what a script found
\* at its check is still so when it selects the slot.
TrialInv ==
    /\ TypeOK
    /\ TrialIsBootable
    /\ record.control # "trial"
    /\ host.pc = "restoring" => flash.control # "trial"
    /\ host.pc # "scripting" => scripts["attached"] = NoScript
    /\ host.pc # "off" => scripts["orphan"] = NoScript
    /\ mode = "worker" => flash.control # "trial"
    /\ \A w \in Owners : Undisturbed(w)

\* Between two scripts the computer only reads and saves.
LEMMA TrialQuiet ==
    ASSUME TrialInv, TypeOK', UNCHANGED <<scripts, flash, mode>>,
           record'.control # "trial", host.pc # "scripting",
           host'.pc = "restoring" => flash.control # "trial",
           host'.pc # "off" => scripts["orphan"] = NoScript
    PROVE  TrialInv'
  BY DEF TrialInv, TrialIsBootable, Undisturbed, Running, Owners, NoScript

\* A script that is sent starts alone.
LEMMA TrialSend ==
    ASSUME TrialInv, TypeOK', NEW kind \in {"arm", "rearm", "final"}, NEW linux, NEW control,
           host.pc \notin {"off", "scripting"}, Send(kind, linux, control),
           UNCHANGED <<flash, mode>>,
           kind = "arm" => control # "trial", kind = "rearm" => linux = "uninstall",
           kind = "final" => flash.control # "trial"
    PROVE  TrialInv'
<1> USE DEF TrialInv, Send, Goto, Owners
<1>1. record'.control = record.control /\ host'.pc = "scripting"
  BY DEF TypeOK, Record, Host
<1>2. /\ scripts'["attached"] = [kind |-> kind, pc |-> IF AndroidRuns THEN "check" ELSE "failed",
                                  linux |-> linux, control |-> control]
      /\ scripts'["orphan"] = NoScript
  BY DEF TypeOK
<1>3. Undisturbed("attached")'
  BY <1>2 DEF Undisturbed, Running, AndroidRuns
<1>4. Undisturbed("orphan")'
  BY <1>2 DEF Undisturbed, Running, NoScript
<1>5. QED
  BY <1>1, <1>2, <1>3, <1>4 DEF TrialIsBootable

\* The ends of a script, and of the computer.
LEMMA TrialEnds ==
    ASSUME TrialInv, TypeOK', EffectDone \/ EffectFails \/ Restart \/ Crash
    PROVE  TrialInv'
<1> USE DEF TrialInv, Goto, Stop, Owners, device
<1>a. /\ scripts["attached"].kind # "control" /\ record \in Record /\ host \in Host
      /\ scripts \in [Owners -> Script]
  BY DEF TypeOK, Script
<1>1. CASE EffectDone
  <2>1. record'.control = record.control /\ host'.pc \in {"restored", "staged"}
    BY <1>a, <1>1 DEF EffectDone, Record, Host
  <2>2. scripts' = [w \in Owners |-> NoScript] /\ UNCHANGED <<flash, mode>>
    BY <1>a, <1>1 DEF EffectDone
  <2>3. QED
    BY <2>1, <2>2 DEF TrialIsBootable, Undisturbed, Running, NoScript
<1>2. CASE EffectFails
  <2>1. record'.control = record.control /\ host'.pc = "off"
    BY <1>a, <1>2 DEF EffectFails, Record, Host
  <2>2. scripts' = [w \in Owners |-> NoScript] /\ UNCHANGED <<flash, mode>>
    BY <1>a, <1>2 DEF EffectFails
  <2>3. QED
    BY <2>1, <2>2 DEF TrialIsBootable, Undisturbed, Running, NoScript
<1>3. CASE Restart
  <2>1. record'.control = record.control /\ host.pc = "staged" /\ host'.pc = "waiting"
    BY <1>a, <1>3 DEF Restart, Record, Host
  <2>2. scripts = [w \in Owners |-> NoScript]
    BY <1>a, <2>1
  <2>3. scripts' = scripts /\ UNCHANGED flash /\ mode' \in {mode, "boot"}
    BY <2>2, <1>3 DEF Restart, ScriptsDie, NoScript
  <2>4. QED
    BY <2>1, <2>2, <2>3 DEF TrialIsBootable, Undisturbed, Running, NoScript
<1>4. CASE Crash
  <2>1. record' = record /\ host'.pc = "off" /\ UNCHANGED <<flash, mode>>
    BY <1>a, <1>4 DEF Crash, Host
  <2>2. /\ scripts'["attached"] = NoScript
        /\ scripts'["orphan"] \in {NoScript, scripts["attached"]}
    BY <1>a, <1>4 DEF Crash
  <2>3. Undisturbed("attached")' /\ Undisturbed("orphan")'
    BY <2>1, <2>2 DEF Undisturbed, Running, NoScript
  <2>4. QED
    BY <2>1, <2>2, <2>3 DEF TrialIsBootable
<1>5. QED
  BY <1>1, <1>2, <1>3, <1>4

LEMMA TrialComputer == ASSUME TrialInv, TypeOK', ~Disturbs, Computer PROVE TrialInv'
<1>a. record \in Record /\ host \in Host /\ record.control # "trial"
  BY DEF TrialInv, TypeOK
<1>b. host.pc # "off" => scripts["orphan"] = NoScript
  BY DEF TrialInv
<1> USE DEF Goto, Stop, ResumesOnce, device, Record, Host
<1>1. CASE Start
  <2>1. host'.pc = "deciding" /\ record' = record /\ scripts["orphan"] = NoScript
    BY <1>1 DEF Start, Disturbs
  <2>2. QED
    BY <1>a, <1>1, <2>1, TrialQuiet DEF Start
<1>2. CASE Decide
  <2>1. host'.pc \in {"preparing", "recovering", "waiting"}
    BY <1>a, <1>2 DEF Decide, EffectStates
  <2>2. QED
    BY <1>a, <1>b, <1>2, <2>1, TrialQuiet DEF Decide
<1>3. CASE RecoverWaits \/ WaitAgain
  BY <1>a, <1>b, <1>3, TrialQuiet DEF RecoverWaits, WaitAgain
<1>4. CASE Recover \/ Reread
  BY <1>a, <1>b, <1>4, TrialQuiet DEF Recover, Reread
<1>5. CASE Prepare
  <2>1. record'.control # "trial" /\ host'.pc = "prepared"
    BY <1>a, <1>5 DEF Prepare, TrialAllowed
  <2>2. QED
    BY <1>b, <1>5, <2>1, TrialQuiet DEF Prepare
<1>6. CASE SendArm
  BY <1>a, <1>6, TrialSend DEF SendArm
<1>7. CASE SendRearm
  BY <1>7, TrialSend DEF SendRearm
<1>8. CASE SendFinal
  BY <1>8, TrialSend DEF SendFinal, TrialInv
<1>9. CASE EffectDone \/ EffectFails \/ Restart \/ Crash
  BY <1>9, TrialEnds
<1>10. CASE AndroidReturned \/ FinishRefused \/ FinishVerified \/ Complete
  BY <1>a, <1>b, <1>10, TrialQuiet DEF AndroidReturned, FinishRefused, FinishVerified, Complete
<1>11. CASE NothingToGrow \/ RearmVerified \/ Rearm
  BY <1>a, <1>b, <1>11, TrialQuiet DEF NothingToGrow, RearmVerified, Rearm
<1>12. CASE FinishBoot
  BY <1>a, <1>b, <1>12, TrialQuiet DEF FinishBoot, Finished
<1>13. CASE Cancel \/ HostFails
  BY <1>a, <1>b, <1>13, TrialQuiet DEF Cancel, HostFails
<1>14. QED
  BY <1>1, <1>2, <1>3, <1>4, <1>5, <1>6, <1>7, <1>8, <1>9, <1>10, <1>11, <1>12, <1>13 DEF Computer

\* While a script runs the other one does not, nor does the worker.
LEMMA TrialShell ==
    ASSUME TrialInv, TypeOK', NEW w \in Owners, Shell(w)
    PROVE  TrialInv'
<1> DEFINE v == IF w = "attached" THEN "orphan" ELSE "attached"
<1>a. /\ UNCHANGED <<record, host, mode>> /\ Running(w) /\ mode = "android"
      /\ \E pc : ScriptGoes(w, pc)
  BY DEF Shell, ScriptBegins, ScriptCopies, ScriptVerifies, ScriptSelects, ScriptFails,
         ScriptAt, AndroidRuns, Running, device
<1>b. scripts[w] \in Script /\ scripts[w].kind # "none" /\ Undisturbed(w)
  BY <1>a DEF TrialInv, TypeOK, Undisturbed, Running, NoScript
<1>c. scripts[v] = NoScript /\ (w = "attached" => host.pc = "scripting")
      /\ (w = "orphan" => host.pc = "off")
  BY <1>a DEF TrialInv, Running, NoScript, Owners
<1>d. scripts'[v] = NoScript
  BY <1>a, <1>c DEF TrialInv, TypeOK, ScriptGoes, Owners
<1>e. ASSUME Undisturbed(w)', TrialIsBootable' PROVE TrialInv'
  <2>1. Undisturbed(v)'
    BY <1>d DEF Undisturbed, Running, NoScript
  <2>2. QED
    BY <1>a, <1>c, <1>d, <1>e, <2>1 DEF TrialInv, Owners
<1>f. ASSUME NEW pc, ScriptGoes(w, pc)
      PROVE  scripts'[w] \in {NoScript, [scripts[w] EXCEPT !.pc = pc]}
  BY <1>f DEF TrialInv, TypeOK, ScriptGoes
<1> HIDE DEF v
<1>1. CASE ScriptBegins(w)
  <2>a. scripts[w].kind \in {"arm", "rearm", "final"} /\ scripts[w].pc = "check" /\ flash \in Flash
    BY <1>1, <1>b DEF ScriptBegins, ScriptAt, Script, TrialInv, TypeOK
  <2>1. CASE scripts[w].kind = "rearm"
    <3>1. flash.linux = "uninstall" /\ flash' = flash /\ ScriptGoes(w, "misc")
      BY <1>1, <1>b, <2>1 DEF ScriptBegins, FindsExpected, Undisturbed
    <3>2. Undisturbed(w)'
      BY <1>a, <1>b, <1>f, <2>1, <3>1 DEF Undisturbed, Running, NoScript, Script
    <3>3. QED
      BY <1>e, <3>1, <3>2 DEF TrialInv, TrialIsBootable
  <2>2. CASE scripts[w].kind # "rearm"
    <3>1. flash.control # "trial"
      BY <1>1, <1>a, <1>b, <2>a, <2>2
      DEF ScriptBegins, FindsExpected, Untouched, Undisturbed, Running
    <3>2. flash'.control # "trial" /\ ScriptGoes(w, "boot")
      BY <1>1, <2>a, <2>2, <3>1 DEF ScriptBegins, Flash
    <3>3. Undisturbed(w)'
      BY <1>a, <1>b, <1>f, <2>2, <3>2 DEF Undisturbed, Running, NoScript, Script
    <3>4. QED
      BY <1>e, <3>2, <3>3 DEF TrialIsBootable
  <2>3. QED
    BY <2>1, <2>2
<1>2. CASE ScriptCopies(w)
  BY <1>2, <1>a, <1>b, <1>e, <1>f
  DEF ScriptCopies, ScriptAt, Undisturbed, Running, TrialInv, TrialIsBootable, NoScript,
      Script, TypeOK, Flash
<1>3. CASE ScriptVerifies(w)
  BY <1>3, <1>a, <1>b, <1>e, <1>f
  DEF ScriptVerifies, ScriptAt, Image, Undisturbed, Running, TrialInv, TrialIsBootable, NoScript,
      Script, device
<1>4. CASE ScriptSelects(w)
  BY <1>4, <1>a, <1>b, <1>e, <1>f
  DEF ScriptSelects, ScriptAt, Undisturbed, Running, TrialInv, TrialIsBootable, NoScript,
      Script, TypeOK, Flash
<1>5. CASE ScriptFails(w)
  BY <1>5, <1>a, <1>b, <1>e, <1>f
  DEF ScriptFails, Undisturbed, Running, TrialInv, TrialIsBootable, NoScript, Script, device
<1>6. QED
  BY <1>1, <1>2, <1>3, <1>4, <1>5 DEF Shell

\* A reboot ends every script; the boot loader uses up the trial it starts.
LEMMA TrialReboots == ASSUME TrialInv, TypeOK', Boots PROVE TrialInv'
<1>a. /\ scripts \in [Owners -> Script] /\ host \in Host /\ flash \in Flash
  BY DEF TrialInv, TypeOK
<1>1. CASE PowerLoss
  <2>1. \A w \in Owners : Undisturbed(w)'
    BY <1>1, <1>a DEF PowerLoss, ScriptsDie, TrialInv, Undisturbed, Running, NoScript, Owners, Script
  <2>2. QED
    BY <1>1, <1>a, <2>1 DEF PowerLoss, ScriptsDie, TrialInv, TrialIsBootable, NoScript, Owners
<1>2. CASE BootTrial
  BY <1>2, <1>a DEF BootTrial, TrialInv, TrialIsBootable, Undisturbed, Running, Flash
<1>3. CASE BootAndroid
  BY <1>3, <1>a DEF BootAndroid, TrialDue, TrialInv, TrialIsBootable, Undisturbed, Running, Flash, Host
<1>4. CASE RecoveryWipes
  BY <1>4, <1>a DEF RecoveryWipes, TrialInv, TrialIsBootable, Undisturbed, Running, Flash
<1>5. QED
  BY <1>1, <1>2, <1>3, <1>4 DEF Boots

\* The worker runs after its trial was counted down.
LEMMA TrialWorker == ASSUME TrialInv, TypeOK', Worker PROVE TrialInv'
<1>1. flash.control # "trial" /\ UNCHANGED <<record, host, scripts>> /\ mode = "worker"
  BY DEF Worker, WorkerChecks, WorkerRequests, WorkerCopies, WorkerCopied, WorkerGrows,
         WorkerCopiesBoot, WorkerCopiedBoot, WorkerSelectsAndroid, WorkerFails, StepGoes,
         TrialInv, computer
<1>2. flash'.control # "trial"
  <2>a. flash \in Flash /\ action \in PlanActions
    BY DataActionsAssumption DEF TrialInv, TypeOK
  <2>1. CASE WorkerRequests
    BY <1>1, <2>a, <2>1 DEF WorkerRequests, Requests, Flash, PlanActions
  <2>2. CASE WorkerGrows \/ WorkerCopiesBoot \/ WorkerCopiedBoot \/ WorkerSelectsAndroid
    BY <1>1, <2>a, <2>2
    DEF WorkerGrows, WorkerCopiesBoot, WorkerCopiedBoot, WorkerSelectsAndroid, Flash
  <2>3. ASSUME NEW i \in {1, 2}, WorkerCopies(i) \/ WorkerCopied(i) PROVE flash' = flash
    BY <2>3 DEF WorkerCopies, WorkerCopied
  <2>4. CASE WorkerChecks \/ WorkerFails
    BY <1>1, <2>4 DEF WorkerChecks, WorkerFails
  <2>5. QED
    BY <1>1, <2>1, <2>2, <2>3, <2>4 DEF Worker
<1>3. \A w \in Owners : Undisturbed(w)'
  BY <1>1 DEF TrialInv, Undisturbed, Running, NoScript
<1>4. QED
  BY <1>1, <1>2, <1>3 DEF TrialInv, TrialIsBootable

LEMMA TrialStep == ASSUME ~Disturbs, TrialInv, [Next]_vars PROVE TrialInv'
<1>1. TypeOK'
  BY StepTyped DEF TrialInv
<1>2. CASE UNCHANGED vars
  BY <1>2 DEF vars, TrialInv, TypeOK, TrialIsBootable, Undisturbed, Running
<1>3. CASE Next
  BY <1>1, <1>3, TrialComputer, TrialShell, TrialReboots, TrialWorker DEF Next
<1>4. QED
  BY <1>2, <1>3

LEMMA TrialInit == Init => TrialInv
  BY InitTyped DEF Init, TrialInv, TrialIsBootable, Undisturbed, Running, NoScript, Owners

\* Only a start brings the computer to its decision.
LEMMA StartsAlone ==
    ASSUME TypeOK, Overlap = FALSE, [Next]_vars
    PROVE  ~Disturbs
<1> SUFFICES ASSUME Disturbs PROVE FALSE
  OBVIOUS
<1>a. host \in Host /\ host.pc = "off" /\ host'.pc = "deciding" /\ scripts["orphan"] # NoScript
  BY DEF Disturbs, TypeOK
<1>1. ~UNCHANGED vars
  BY <1>a DEF vars
<1>2. ~Start
  BY <1>a DEF Start
<1>3. ~(Decide \/ RecoverWaits \/ Recover \/ Reread \/ Prepare \/ SendArm \/ EffectDone
        \/ EffectFails \/ Restart \/ WaitAgain \/ AndroidReturned \/ NothingToGrow \/ RearmVerified
        \/ Rearm \/ SendRearm \/ FinishRefused \/ FinishVerified \/ FinishBoot \/ SendFinal
        \/ Complete \/ Cancel \/ HostFails \/ Crash)
  BY <1>a DEF Decide, RecoverWaits, Recover, Reread, Prepare, SendArm, EffectDone, EffectFails,
              Restart, WaitAgain, AndroidReturned, NothingToGrow, RearmVerified, Rearm, SendRearm,
              FinishRefused, FinishVerified, FinishBoot, SendFinal, Complete, Cancel, HostFails, Crash
<1>4. ~Boots
  BY <1>a DEF Boots, PowerLoss, BootTrial, BootAndroid, RecoveryWipes, Host
<1>5. ~Worker
  BY <1>a DEF Worker, WorkerChecks, WorkerRequests, WorkerCopies, WorkerCopied, WorkerGrows,
              WorkerCopiesBoot, WorkerCopiedBoot, WorkerSelectsAndroid, WorkerFails, computer
<1>6. ASSUME NEW w \in Owners, Shell(w) PROVE FALSE
  BY <1>a, <1>6 DEF Shell, ScriptBegins, ScriptCopies, ScriptVerifies, ScriptSelects, ScriptFails
<1>7. QED
  BY <1>1, <1>2, <1>3, <1>4, <1>5, <1>6 DEF Next, Computer

\* When no script outlives its computer until the next run, the boot loader is
\* never sent to a slot without a complete worker, whatever fails in between
\* (commit_boot, rearm_growth).
THEOREM TrialAlwaysBootable == Overlap = FALSE => (Spec => []TrialIsBootable)
<1> SUFFICES ASSUME Overlap = FALSE PROVE Spec => []TrialIsBootable
  OBVIOUS
<1>1. TrialInv /\ [Next]_vars => TrialInv'
  BY TrialStep, StartsAlone DEF TrialInv
<1>2. TrialInv => TrialIsBootable
  BY DEF TrialInv
<1>3. QED
  BY TrialInit, <1>1, <1>2, PTL DEF Spec

\* A step of Uninstall, and of the note.
LEMMA NotedStep ==
    ASSUME [MCNext]_<<vars, alone>>
    PROVE  [Next]_vars /\ (alone' => alone /\ (~Disturbs \/ UNCHANGED vars))
<1>1. CASE MCNext
  <2>1. alone' <=> alone /\ ~Disturbs
    BY <1>1, Zenon DEF MCNext
  <2>2. QED
    BY <1>1, <2>1 DEF MCNext
<1>2. CASE UNCHANGED <<vars, alone>>
  <2>1. UNCHANGED vars /\ (alone' <=> alone)
    BY <1>2, Zenon
  <2>2. QED
    BY <2>1
<1>3. QED
  BY <1>1, <1>2

\* So it is, with any overlap, until a script was first left running beside the
\* next run of the computer.
THEOREM TrialBootableAlone == MCSpec => []TrialIsBootableAlone
<1> DEFINE AloneInv == alone => TrialInv
<1>1. MCInit => AloneInv
  BY TrialInit DEF MCInit
<1>2. AloneInv /\ [MCNext]_<<vars, alone>> => AloneInv'
  <2> SUFFICES ASSUME AloneInv, [MCNext]_<<vars, alone>>, alone' PROVE TrialInv'
    OBVIOUS
  <2>1. TrialInv /\ [Next]_vars /\ (~Disturbs \/ UNCHANGED vars)
    BY NotedStep
  <2>2. UNCHANGED vars => ~Disturbs
    BY <2>1 DEF vars, Disturbs, TrialInv
  <2>3. QED
    BY <2>1, <2>2, TrialStep
<1>3. AloneInv => TrialIsBootableAlone
  BY DEF TrialInv, TrialIsBootableAlone
<1>4. QED
  BY <1>1, <1>2, <1>3, PTL DEF MCSpec

-----------------------------------------------------------------------------
(* What was asked for, and once *)

\* Before the first backup nothing was sent to the device.
Fresh ==
    /\ record.arm = "none" /\ host.pc \in {"off", "deciding", "preparing"}
    /\ scripts = [w \in Owners |-> NoScript]
    /\ mode \in {"android", "boot"} /\ flash.control = "orig" /\ flash.bcb = "empty"

\* The computer goes on after the worker only with the new table.
LateStates == {"regrowing", "rearming", "finishing", "restoring", "restored", "completing"}

\* An arming script selects the worker on a device none was selected on; it can
\* not run beside a final one, for the table tells them apart.
AsChecked(w) ==
    /\ scripts[w].kind = "none" => scripts[w] = NoScript
    /\ scripts[w].kind = "arm" => scripts[w].control = "orig"
    /\ scripts[w].kind = "rearm" => action = "grow"
    /\ scripts[w].kind = "final" => Layout = "after"
    /\ Running(w) => mode = "android"
    /\ (scripts[w].kind = "arm" /\ scripts[w].pc \in {"boot", "verify", "misc"}) =>
           /\ Layout = "before"
           /\ history.trials = 0 \/ flash.control = "trial"
           /\ history.wipes = 0

\* The boot control never returns to what was found, and a reset that took
\* place leaves no trial to be tried again.
BootInv ==
    /\ history.trials > 0 => flash.control # "orig"
    /\ action # "reset" => flash.bcb = "empty" /\ history.wipes = 0
    /\ (flash.bcb = "wipe" \/ mode = "worker") => flash.control # "orig"
    /\ mode = "recovery" => flash.bcb = "wipe" /\ ~TrialDue
    /\ history.wipes > 0 =>
           /\ flash.bcb = "empty" /\ flash.control # "orig" /\ ~TrialDue
           /\ mode \notin {"worker", "recovery"}

HostInv ==
    /\ record.control \in {"none", "orig"}
    /\ record.control = "none" => Fresh
    /\ host.pc \in LateStates => Layout = "after"
    /\ host.pc = "rearming" => action = "grow"

OnceInv ==
    /\ TypeOK
    /\ RemovedOnce
    /\ HostInv
    /\ BootInv
    /\ \A w \in Owners : AsChecked(w)

-----------------------------------------------------------------------------
(* The computer *)

\* Between two scripts the computer only reads and saves.
LEMMA OnceQuiet ==
    ASSUME OnceInv, TypeOK', UNCHANGED <<action, boots, scripts, gpt, flash, mode>>,
           history'.trials = history.trials, history'.wipes = history.wipes, HostInv'
    PROVE  OnceInv'
<1>1. Layout' = Layout /\ TrialDue' = TrialDue
  BY DEF Layout, TrialDue
<1>2. BootInv' /\ RemovedOnce'
  BY <1>1 DEF OnceInv, BootInv, RemovedOnce
<1>3. \A w \in Owners : AsChecked(w)'
  BY <1>1 DEF OnceInv, AsChecked, Running
<1>4. QED
  BY <1>2, <1>3 DEF OnceInv

\* What the computer's own state has to keep for that.
LEMMA HostQuiet ==
    ASSUME OnceInv, TypeOK', UNCHANGED <<action, scripts, gpt, flash, mode>>,
           record'.control = record.control \/ record'.control = "orig",
           record'.control = "none" =>
               record'.arm = "none" /\ host'.pc \in {"off", "deciding", "preparing"},
           host'.pc \in LateStates => Layout = "after",
           host'.pc = "rearming" => action = "grow"
    PROVE  HostInv'
<1>1. Layout' = Layout
  BY DEF Layout
<1>2. QED
  BY <1>1 DEF OnceInv, HostInv, Fresh

\* A script is sent with what its effect was decided on.
LEMMA OnceSend ==
    ASSUME OnceInv, TypeOK', NEW kind \in {"arm", "rearm", "final"}, NEW linux, NEW control,
           record.control = "orig", Send(kind, linux, control),
           UNCHANGED <<action, boots, gpt, flash, mode, history>>,
           kind = "arm" => control = "orig", kind = "rearm" => action = "grow",
           kind = "final" => Layout = "after"
    PROVE  OnceInv'
<1>1. Layout' = Layout /\ TrialDue' = TrialDue
  BY DEF Layout, TrialDue
<1>2. record'.control = "orig" /\ host'.pc = "scripting"
  BY DEF OnceInv, TypeOK, Record, Host, Send, Goto
<1>3. HostInv'
  BY <1>2 DEF HostInv, LateStates
<1>4. BootInv' /\ RemovedOnce'
  BY <1>1 DEF OnceInv, BootInv, RemovedOnce
<1>5. /\ scripts'["attached"] = [kind |-> kind, pc |-> IF AndroidRuns THEN "check" ELSE "failed",
                                  linux |-> linux, control |-> control]
      /\ scripts'["orphan"] = scripts["orphan"]
  BY DEF OnceInv, TypeOK, Send, Owners
<1>6. AsChecked("attached")'
  BY <1>1, <1>5 DEF AsChecked, Running, AndroidRuns
<1>7. AsChecked("orphan")'
  BY <1>1, <1>5 DEF OnceInv, AsChecked, Running, Owners
<1>8. QED
  BY <1>3, <1>4, <1>6, <1>7 DEF OnceInv, Owners

\* Fewer scripts, and a device that at most leaves Android, keep what was found.
LEMMA OnceEnds ==
    ASSUME OnceInv, TypeOK', UNCHANGED <<action, boots, gpt, flash, history>>,
           mode' = mode \/ (mode' = "boot" /\ \A w \in Owners : ~Running(w)'),
           HostInv',
           \A w \in Owners : \/ scripts'[w] = NoScript
                             \/ \E v \in Owners : scripts'[w] = scripts[v]
                             \/ /\ scripts[w].kind # "none"
                                /\ scripts'[w] = [scripts[w] EXCEPT !.pc = "failed"]
    PROVE  OnceInv'
<1>1. Layout' = Layout /\ TrialDue' = TrialDue
  BY DEF Layout, TrialDue
<1>2. BootInv' /\ RemovedOnce'
  BY <1>1 DEF OnceInv, BootInv, RemovedOnce
<1>3. ASSUME NEW w \in Owners PROVE AsChecked(w)'
  <2>1. CASE scripts'[w] = NoScript
    BY <2>1 DEF AsChecked, Running, NoScript
  <2>2. CASE \E v \in Owners : scripts'[w] = scripts[v]
    <3>1. PICK v \in Owners : scripts'[w] = scripts[v]
      BY <2>2
    <3>2. QED
      BY <1>1, <3>1 DEF OnceInv, AsChecked, Running
  <2>3. CASE scripts[w].kind # "none" /\ scripts'[w] = [scripts[w] EXCEPT !.pc = "failed"]
    BY <1>1, <2>3 DEF OnceInv, TypeOK, Script, AsChecked, Running
  <2>4. QED
    BY <2>1, <2>2, <2>3
<1>4. QED
  BY <1>2, <1>3 DEF OnceInv

LEMMA OnceComputer == ASSUME OnceInv, TypeOK', Computer PROVE OnceInv'
<1>a. /\ record \in Record /\ host \in Host /\ scripts \in [Owners -> Script]
      /\ record.control \in {"none", "orig"}
      /\ record.control = "none" => Fresh
      /\ host.pc \in LateStates => Layout = "after"
      /\ host.pc = "rearming" => action = "grow"
  BY DEF OnceInv, TypeOK, HostInv
<1> USE DEF Goto, Stop, ResumesOnce, fixed, device
<1>1. CASE Start
  <2>1. HostInv'
    BY <1>a, <1>1, HostQuiet DEF Start, Fresh, LateStates
  <2>2. history'.trials = history.trials /\ history'.wipes = history.wipes
    BY <1>1 DEF Start, OnceInv, TypeOK
  <2>3. QED
    BY <1>1, <2>1, <2>2, OnceQuiet DEF Start
<1>2. CASE Decide
  <2>1. HostInv'
    BY <1>a, <1>2, HostQuiet DEF Decide, Fresh, LateStates, Host, Record, EffectStates
  <2>2. QED
    BY <1>2, <2>1, OnceQuiet DEF Decide
<1>3. CASE RecoverWaits \/ WaitAgain
  <2>1. HostInv'
    BY <1>a, <1>3, HostQuiet DEF RecoverWaits, WaitAgain, Fresh, LateStates, Record
  <2>2. QED
    BY <1>3, <2>1, OnceQuiet DEF RecoverWaits, WaitAgain
<1>4. CASE Recover
  <2>1. HostInv'
    BY <1>a, <1>4, HostQuiet DEF Recover, Fresh, LateStates, Record, Host
  <2>2. QED
    BY <1>4, <2>1, OnceQuiet DEF Recover
<1>5. CASE Reread
  <2>1. HostInv'
    BY <1>a, <1>5, HostQuiet DEF Reread, Fresh, LateStates, Record, Host
  <2>2. QED
    BY <1>5, <2>1, OnceQuiet DEF Reread
<1>6. CASE Prepare
  <2>1. record'.control = "orig" /\ host'.pc = "prepared"
    BY <1>a, <1>6 DEF Prepare, Fresh, Record, Host
  <2>2. HostInv'
    BY <1>6, <2>1, HostQuiet DEF Prepare, LateStates
  <2>3. QED
    BY <1>6, <2>2, OnceQuiet DEF Prepare
<1>7. CASE SendArm
  BY <1>a, <1>7, OnceSend DEF SendArm, Fresh
<1>8. CASE SendRearm
  BY <1>a, <1>8, OnceSend DEF SendRearm, Fresh
<1>9. CASE SendFinal
  BY <1>a, <1>9, OnceSend DEF SendFinal, Fresh, LateStates
<1>10. CASE EffectDone
  <2>1. /\ record.control = "orig" /\ scripts["attached"].kind # "control"
        /\ scripts["attached"].kind = "final" => Layout = "after"
    BY <1>a, <1>10 DEF EffectDone, Fresh, Script, OnceInv, AsChecked, Owners
  <2>2. /\ record'.control = "orig" /\ host'.pc \in {"restored", "staged"}
        /\ host'.pc = "restored" => Layout = "after"
    BY <1>a, <1>10, <2>1 DEF EffectDone, Record, Host
  <2>3. Layout' = Layout
    BY <1>10 DEF EffectDone, Layout
  <2>4. HostInv'
    BY <2>2, <2>3 DEF HostInv, LateStates
  <2>5. QED
    BY <1>a, <1>10, <2>4, OnceEnds DEF EffectDone, Owners
<1>11. CASE EffectFails
  <2>1. record'.control = "orig" /\ host'.pc = "off"
    BY <1>a, <1>11 DEF EffectFails, Fresh, Record, Host
  <2>2. HostInv'
    BY <2>1 DEF HostInv, LateStates
  <2>3. QED
    BY <1>a, <1>11, <2>2, OnceEnds DEF EffectFails, Owners
<1>12. CASE Restart
  <2>1. record'.control = "orig" /\ host'.pc = "waiting"
    BY <1>a, <1>12 DEF Restart, Fresh, Record, Host
  <2>2. HostInv'
    BY <2>1 DEF HostInv, LateStates
  <2>3. CASE mode' = "boot" /\ ScriptsDie
    BY <1>a, <1>12, <2>2, <2>3, OnceEnds DEF Restart, ScriptsDie, Owners, Script, Running, NoScript
  <2>4. CASE UNCHANGED <<mode, scripts>>
    BY <1>12, <2>2, <2>4, OnceQuiet DEF Restart
  <2>5. QED
    BY <1>12, <2>3, <2>4 DEF Restart
<1>13. CASE AndroidReturned
  <2>1. HostInv'
    BY <1>a, <1>13, HostQuiet DEF AndroidReturned, Fresh, LateStates, Record, Host
  <2>2. QED
    BY <1>13, <2>1, OnceQuiet DEF AndroidReturned
<1>14. CASE NothingToGrow \/ RearmVerified \/ Rearm
  <2>1. HostInv'
    BY <1>a, <1>14, HostQuiet
    DEF NothingToGrow, RearmVerified, Rearm, GrowthPossible, Fresh, LateStates, Record, Host
  <2>2. QED
    BY <1>14, <2>1, OnceQuiet DEF NothingToGrow, RearmVerified, Rearm
<1>15. CASE FinishRefused \/ FinishVerified \/ FinishBoot
  <2>1. HostInv'
    BY <1>a, <1>15, HostQuiet DEF FinishRefused, FinishVerified, FinishBoot, Fresh, LateStates, Record, Host
  <2>2. QED
    BY <1>15, <2>1, OnceQuiet DEF FinishRefused, FinishVerified, FinishBoot
<1>16. CASE Complete \/ Cancel \/ HostFails
  <2>1. HostInv'
    BY <1>a, <1>16, HostQuiet DEF Complete, Cancel, HostFails, Fresh, LateStates, Record, Host
  <2>2. QED
    BY <1>16, <2>1, OnceQuiet DEF Complete, Cancel, HostFails
<1>17. CASE Crash
  <2>1. record' = record /\ host'.pc = "off" /\ UNCHANGED <<gpt, flash, mode, action>>
    BY <1>a, <1>17 DEF Crash, Host
  <2>2. /\ scripts'["attached"] = NoScript
        /\ scripts'["orphan"] \in {NoScript, scripts["attached"], scripts["orphan"]}
        /\ scripts = [w \in Owners |-> NoScript] => scripts' = scripts
    BY <1>a, <1>17 DEF Crash, NoScript, Owners
  <2>3. HostInv'
    BY <1>a, <2>1, <2>2 DEF HostInv, Fresh, LateStates
  <2>4. QED
    BY <1>17, <2>1, <2>2, <2>3, OnceEnds DEF Crash, Owners
<1>18. QED
  BY <1>1, <1>2, <1>3, <1>4, <1>5, <1>6, <1>7, <1>8, <1>9, <1>10, <1>11, <1>12, <1>13, <1>14,
     <1>15, <1>16, <1>17 DEF Computer

-----------------------------------------------------------------------------
(* The device *)

\* A script selects the worker at most once, and a final one selects Android
\* where no arming script is past its check.
LEMMA OnceShell ==
    ASSUME OnceInv, TypeOK', NEW w \in Owners, Shell(w)
    PROVE  OnceInv'
<1>a. /\ UNCHANGED <<action, boots, record, host, gpt, mode>> /\ Running(w)
      /\ mode = "android" /\ \E pc : ScriptGoes(w, pc)
  BY DEF Shell, ScriptBegins, ScriptCopies, ScriptVerifies, ScriptSelects, ScriptFails,
         ScriptAt, AndroidRuns, Running, device, fixed
<1>b. /\ scripts \in [Owners -> Script] /\ flash \in Flash
      /\ scripts[w].kind # "none" /\ \A v \in Owners : AsChecked(v)
  BY <1>a DEF OnceInv, TypeOK, AsChecked, Running, NoScript
<1>c. Layout' = Layout
  BY <1>a DEF Layout
<1>d. HostInv'
  <2>1. record.control # "none"
    BY <1>b DEF OnceInv, HostInv, Fresh, NoScript
  <2>2. QED
    BY <1>a, <1>c, <2>1 DEF OnceInv, HostInv
<1>e. ASSUME NEW pc, ScriptGoes(w, pc)
      PROVE  /\ scripts'[w] \in {NoScript, [scripts[w] EXCEPT !.pc = pc]}
             /\ \A v \in Owners \ {w} : scripts'[v] = scripts[v]
  BY <1>b, <1>e DEF ScriptGoes
<1>1. CASE ScriptBegins(w) \/ ScriptCopies(w) \/ ScriptVerifies(w) \/ ScriptFails(w)
  <2>1. /\ history' = history
        /\ flash'.control = flash.control /\ flash'.bcb = flash.bcb
    BY <1>1, <1>b DEF ScriptBegins, ScriptCopies, ScriptVerifies, ScriptFails, device, Flash
  <2>2. BootInv' /\ RemovedOnce'
    BY <1>a, <2>1 DEF OnceInv, BootInv, RemovedOnce, TrialDue
  <2>3. AsChecked(w)'
    <3>1. CASE ScriptBegins(w)
      <4>1. scripts[w].kind = "arm" =>
                Layout = "before" /\ history.trials = 0 /\ history.wipes = 0
        BY <1>b, <3>1 DEF ScriptBegins, FindsExpected, Untouched, AsChecked, OnceInv, TypeOK, BootInv
      <4>2. QED
        BY <1>a, <1>b, <1>c, <1>e, <2>1, <4>1, <3>1
        DEF ScriptBegins, AsChecked, Running, NoScript, Script
    <3>2. CASE ScriptCopies(w) \/ ScriptVerifies(w) \/ ScriptFails(w)
      <4>1. PICK pc \in {"verify", "misc", "failed"} : ScriptGoes(w, pc)
                 /\ (pc # "failed" => scripts[w].pc \in {"boot", "verify"})
        BY <3>2 DEF ScriptCopies, ScriptVerifies, ScriptFails, ScriptAt
      <4>2. QED
        BY <1>a, <1>b, <1>c, <1>e, <2>1, <4>1 DEF AsChecked, Running, NoScript, Script
    <3>3. QED
      BY <1>1, <3>1, <3>2
  <2>4. \A v \in Owners \ {w} : AsChecked(v)'
    BY <1>a, <1>b, <1>c, <1>e, <2>1 DEF AsChecked, Running
  <2>5. QED
    BY <1>d, <2>2, <2>3, <2>4 DEF OnceInv
<1>2. CASE ScriptSelects(w)
  <2>1. scripts[w].pc = "misc" /\ ScriptGoes(w, "ok") /\ flash'.bcb = flash.bcb
    BY <1>2, <1>b DEF ScriptSelects, ScriptAt, Flash
  <2>2. AsChecked(w)'
    BY <1>a, <1>b, <1>c, <1>e, <2>1 DEF AsChecked, Running, NoScript, Script
  <2>3. CASE scripts[w].kind = "final"
    <3>1. flash'.control = "android" /\ history' = history /\ Layout = "after"
      BY <1>2, <1>b, <2>3 DEF ScriptSelects, Flash, AsChecked
    <3>2. BootInv' /\ RemovedOnce'
      BY <1>a, <2>1, <3>1 DEF OnceInv, BootInv, RemovedOnce, TrialDue
    <3>3. \A v \in Owners \ {w} : AsChecked(v)'
      BY <1>a, <1>b, <1>c, <1>e, <2>1, <3>1 DEF AsChecked, Running
    <3>4. QED
      BY <1>d, <2>2, <3>2, <3>3 DEF OnceInv
  <2>4. CASE scripts[w].kind # "final"
    <3>1. flash'.control = "trial" /\ history'.wipes = history.wipes
          /\ (flash.control = "trial" => history'.trials = history.trials)
      BY <1>2, <1>b, <2>4 DEF ScriptSelects, Flash, OnceInv, TypeOK
    <3>2. scripts[w].kind = "rearm" \/ (scripts[w].kind = "arm" /\ history.wipes = 0
              /\ (history.trials = 0 \/ flash.control = "trial"))
      BY <1>b, <2>1, <2>4 DEF AsChecked, Script
    <3>3. RemovedOnce'
      <4>1. CASE scripts[w].kind = "rearm"
        BY <1>a, <1>b, <3>1, <4>1 DEF OnceInv, RemovedOnce, AsChecked
      <4>2. CASE scripts[w].kind = "arm" /\ flash.control # "trial"
        <5>1. history'.trials = 1
          BY <1>2, <3>2, <4>2 DEF ScriptSelects, AtMostTwice, OnceInv, TypeOK
        <5>2. QED
          BY <3>1, <5>1 DEF OnceInv, RemovedOnce
      <4>3. CASE flash.control = "trial"
        BY <1>a, <3>1, <4>3 DEF OnceInv, RemovedOnce
      <4>4. QED
        BY <3>2, <4>1, <4>2, <4>3
    <3>4. history.wipes = 0
      BY <1>b, <3>2 DEF AsChecked, OnceInv, BootInv
    <3>5. BootInv'
      BY <1>a, <2>1, <3>1, <3>4 DEF OnceInv, BootInv
    <3>6. \A v \in Owners \ {w} : AsChecked(v)'
      BY <1>a, <1>b, <1>c, <1>e, <2>1, <3>1, <3>4 DEF AsChecked, Running
    <3>7. QED
      BY <1>d, <2>2, <3>3, <3>5, <3>6 DEF OnceInv
  <2>5. QED
    BY <2>3, <2>4
<1>3. QED
  BY <1>1, <1>2 DEF Shell

\* Outside Android no script runs, and Android is the only place to send one.
LEMMA OnceAway ==
    ASSUME OnceInv, TypeOK', UNCHANGED <<action, boots, record>>, Layout = "after" => Layout' = "after",
           \A w \in Owners : \/ scripts'[w] = scripts[w] /\ ~Running(w)
                             \/ scripts'[w] = NoScript
                             \/ scripts[w].kind # "none" /\ scripts'[w] = [scripts[w] EXCEPT !.pc = "failed"],
           host'.pc = host.pc,
           record.control = "none" => Fresh', BootInv', RemovedOnce'
    PROVE  OnceInv'
<1>1. ASSUME NEW w \in Owners PROVE AsChecked(w)'
  BY <1>1 DEF OnceInv, TypeOK, AsChecked, Running, NoScript, Script
<1>2. HostInv'
  BY DEF OnceInv, HostInv
<1>3. QED
  BY <1>1, <1>2 DEF OnceInv

LEMMA OnceBoots == ASSUME OnceInv, TypeOK', Boots PROVE OnceInv'
<1>a. /\ UNCHANGED <<action, boots, record, gpt>> /\ host'.pc = host.pc
      /\ scripts \in [Owners -> Script] /\ flash \in Flash
      /\ Layout' = Layout
  BY DEF OnceInv, TypeOK, Host, Boots, PowerLoss, BootTrial, BootAndroid, RecoveryWipes, fixed, Layout
<1>1. CASE PowerLoss
  <2>1. BootInv' /\ RemovedOnce'
    BY <1>1, <1>a DEF PowerLoss, OnceInv, BootInv, RemovedOnce, TrialDue
  <2>2. record.control = "none" => Fresh'
    BY <1>1, <1>a DEF PowerLoss, ScriptsDie, OnceInv, HostInv, Fresh, NoScript, Owners
  <2>3. \A w \in Owners : \/ scripts'[w] = NoScript
                          \/ scripts[w].kind # "none" /\ scripts'[w] = [scripts[w] EXCEPT !.pc = "failed"]
    BY <1>1 DEF PowerLoss, ScriptsDie
  <2>4. QED
    BY <1>a, <2>1, <2>2, <2>3, OnceAway
<1>2. CASE BootTrial
  <2>1. BootInv' /\ RemovedOnce'
    BY <1>2, <1>a DEF BootTrial, OnceInv, BootInv, RemovedOnce, TrialDue, Flash
  <2>2. record.control = "none" => Fresh'
    BY <1>2 DEF BootTrial, TrialDue, OnceInv, HostInv, Fresh
  <2>3. \A w \in Owners : scripts'[w] = scripts[w] /\ ~Running(w)
    BY <1>2 DEF BootTrial, OnceInv, AsChecked
  <2>4. QED
    BY <1>a, <2>1, <2>2, <2>3, OnceAway
<1>3. CASE BootAndroid
  <2>1. BootInv' /\ RemovedOnce'
    BY <1>3, <1>a DEF BootAndroid, OnceInv, BootInv, RemovedOnce, TrialDue, Flash
  <2>2. record.control = "none" => Fresh'
    BY <1>3, <1>a DEF BootAndroid, OnceInv, HostInv, Fresh, Flash
  <2>3. \A w \in Owners : scripts'[w] = scripts[w] /\ ~Running(w)
    BY <1>3 DEF BootAndroid, OnceInv, AsChecked
  <2>4. QED
    BY <1>a, <2>1, <2>2, <2>3, OnceAway
<1>4. CASE RecoveryWipes
  <2>1. history'.trials = history.trials /\ history'.wipes = 1 /\ history.wipes = 0
    BY <1>4 DEF RecoveryWipes, OnceInv, TypeOK, BootInv, AtMostTwice
  <2>2. flash'.bcb = "empty" /\ flash'.control = flash.control
    BY <1>4, <1>a DEF RecoveryWipes, Flash
  <2>3. BootInv' /\ RemovedOnce'
    BY <1>4, <1>a, <2>1, <2>2 DEF RecoveryWipes, OnceInv, BootInv, RemovedOnce, TrialDue
  <2>4. record.control = "none" => Fresh'
    BY <1>4 DEF RecoveryWipes, OnceInv, HostInv, Fresh
  <2>5. \A w \in Owners : scripts'[w] = scripts[w] /\ ~Running(w)
    BY <1>4 DEF RecoveryWipes, OnceInv, AsChecked
  <2>6. QED
    BY <1>a, <2>3, <2>4, <2>5, OnceAway
<1>5. QED
  BY <1>1, <1>2, <1>3, <1>4 DEF Boots

\* What the worker does to the table, the requests and the boot control.
LEMMA WorkerEffects ==
    ASSUME OnceInv, Worker
    PROVE  /\ UNCHANGED <<action, boots, record, host, scripts, history>>
           /\ mode = "worker" /\ mode' \in {"worker", "boot"}
           /\ Layout = "after" => Layout' = "after"
           /\ flash'.control \in {flash.control, "android"}
           /\ flash'.bcb = flash.bcb \/ (flash'.bcb = "wipe" /\ action = "reset")
<1> USE DEF StepGoes, fixed, computer
<1>a. /\ gpt \in [{"first", "last"} -> Tables] /\ flash \in Flash /\ action \in PlanActions
  BY DataActionsAssumption DEF OnceInv, TypeOK
<1>1. CASE WorkerChecks \/ WorkerFails
  BY <1>1 DEF WorkerChecks, WorkerFails, Layout
<1>2. CASE WorkerRequests
  BY <1>a, <1>2 DEF WorkerRequests, Requests, Layout, Flash, PlanActions
<1>3. ASSUME NEW i \in {1, 2}, WorkerCopies(i) \/ WorkerCopied(i)
      PROVE  /\ UNCHANGED <<action, boots, record, host, scripts, history, flash>>
             /\ mode = "worker" /\ mode' = "worker"
             /\ Layout = "after" => Layout' = "after"
  <2>1. CommitOrder[i] \in {"first", "last"}
    BY DEF CommitOrder
  <2>2. \A c \in {"first", "last"} : gpt[c] = "after" => gpt'[c] = "after"
    BY <1>3, <1>a, <2>1 DEF WorkerCopies, WorkerCopied
  <2>3. QED
    BY <1>3, <2>2 DEF WorkerCopies, WorkerCopied, Layout
<1>4. CASE WorkerGrows \/ WorkerCopiesBoot \/ WorkerCopiedBoot
  BY <1>a, <1>4 DEF WorkerGrows, WorkerCopiesBoot, WorkerCopiedBoot, Layout, Flash
<1>5. CASE WorkerSelectsAndroid
  BY <1>a, <1>5 DEF WorkerSelectsAndroid, Layout, Flash
<1>6. QED
  BY <1>1, <1>2, <1>3, <1>4, <1>5 DEF Worker

LEMMA OnceWorker == ASSUME OnceInv, TypeOK', Worker PROVE OnceInv'
<1>1. BootInv' /\ RemovedOnce'
  BY WorkerEffects DEF OnceInv, BootInv, RemovedOnce, TrialDue
<1>2. record.control # "none"
  BY WorkerEffects DEF OnceInv, HostInv, Fresh
<1>3. \A w \in Owners : scripts'[w] = scripts[w] /\ ~Running(w)
  BY WorkerEffects DEF OnceInv, AsChecked
<1>4. QED
  BY <1>1, <1>2, <1>3, WorkerEffects, OnceAway

-----------------------------------------------------------------------------
(* The theorems *)

LEMMA OnceInit == Init => OnceInv
<1> SUFFICES ASSUME Init PROVE OnceInv
  OBVIOUS
<1>1. BootInv /\ RemovedOnce
  BY DEF Init, BootInv, RemovedOnce
<1>2. HostInv
  BY DEF Init, HostInv, Fresh, LateStates
<1>3. \A w \in Owners : AsChecked(w)
  BY DEF Init, AsChecked, Running, NoScript
<1>4. QED
  BY <1>1, <1>2, <1>3, InitTyped DEF OnceInv

LEMMA OnceStep == OnceInv /\ [Next]_vars => OnceInv'
<1> SUFFICES ASSUME OnceInv, [Next]_vars PROVE OnceInv'
  OBVIOUS
<1>1. TypeOK'
  BY StepTyped DEF OnceInv
<1>2. CASE UNCHANGED vars
  <2>1. Layout' = Layout /\ TrialDue' = TrialDue
    BY <1>2 DEF vars, Layout, TrialDue
  <2>2. BootInv' /\ RemovedOnce' /\ HostInv'
    BY <1>2, <2>1 DEF vars, OnceInv, BootInv, RemovedOnce, HostInv, Fresh
  <2>3. \A w \in Owners : AsChecked(w)'
    BY <1>2, <2>1 DEF vars, OnceInv, AsChecked, Running
  <2>4. QED
    BY <1>1, <2>2, <2>3 DEF OnceInv
<1>3. CASE Next
  BY <1>1, <1>3, OnceComputer, OnceShell, OnceBoots, OnceWorker DEF Next
<1>4. QED
  BY <1>2, <1>3

\* A removal that grows no file system is staged once, and Android is reset once
\* at most, whatever is interrupted, retried or overlapping (recover_arm and the
\* worker: "never re-arm it once both restored GPT copies exist").
THEOREM AlwaysRemovedOnce == Spec => []RemovedOnce
<1>1. OnceInv => RemovedOnce
  BY DEF OnceInv
<1>2. QED
  BY OnceInit, OnceStep, <1>1, PTL DEF Spec

\* Android is reset only by a plan whose reset the user authorised.
THEOREM OnlyAuthorisedResets == Spec => []ResetIsAuthorised
<1>1. OnceInv => ResetIsAuthorised
  BY DEF OnceInv, BootInv, ResetIsAuthorised
<1>2. QED
  BY OnceInit, OnceStep, <1>1, PTL DEF Spec

-----------------------------------------------------------------------------
(* What is recorded as staged, and what was asked for *)

Begun == gpt["first"] # "before" \/ gpt["last"] # "before"

\* Whatever shows that the worker was selected is right: its record, a boot control
\* that was read, a script that returned, a table that was changed.
StagedInv ==
    /\ ArmIsStaged
    /\ Begun => flash.control # "orig"
    /\ host.seen \notin {"none", "orig"} => flash.control # "orig"
    /\ scripts["attached"].pc = "ok" => flash.control # "orig"

\* A start that resumes the growth finds the staging done, so it stages nothing;
\* the resumption is used up by the script it sends.
AskedInv ==
    /\ record.pending => record.arm = "done"
    /\ host.pc \in {"recovering", "rereading"} => record.arm = "started"
    /\ host.pc \in {"preparing", "prepared"} => record.arm = "none"
    /\ host.pc \in {"staged", "waiting"} \cup LateStates => record.arm = "done"
    /\ host.pc = "scripting" =>
           CASE scripts["attached"].kind = "arm" -> record.arm = "started"
             [] scripts["attached"].kind \in {"rearm", "final"} -> record.arm = "done"
             [] OTHER -> FALSE
    /\ host.pc # "off" /\ host.resume =>
           host.pc \in {"deciding", "waiting", "regrowing"} /\ history.asked = 0 /\ record.arm = "done"
    /\ host.pc \in {"deciding", "recovering", "rereading", "preparing", "prepared", "regrowing", "rearming"} =>
           history.asked = 0
    /\ Running("attached") /\ scripts["attached"].kind # "final" => history.asked = 0
    /\ host.pc # "scripting" => scripts["attached"] = NoScript
    /\ RunsAreAsked

\* Nothing gives the boot control back what was found.
LEMMA NeverAsFound ==
    ASSUME TypeOK, [Next]_vars, flash.control # "orig"
    PROVE  flash'.control # "orig"
<1>a. flash \in Flash /\ action \in PlanActions
  BY DataActionsAssumption DEF TypeOK
<1>1. CASE UNCHANGED vars
  BY <1>1 DEF vars
<1>2. CASE Computer
  BY <1>2, ComputerKeeps
<1>3. ASSUME NEW w \in Owners, Shell(w) PROVE flash'.control # "orig"
  BY <1>a, <1>3
  DEF Shell, ScriptBegins, ScriptCopies, ScriptVerifies, ScriptSelects, ScriptFails, device, Flash
<1>4. CASE Boots
  BY <1>a, <1>4 DEF Boots, PowerLoss, BootTrial, BootAndroid, RecoveryWipes, Flash
<1>5. CASE WorkerChecks \/ WorkerFails \/ \E i \in {1, 2} : WorkerCopies(i) \/ WorkerCopied(i)
  BY <1>5 DEF WorkerChecks, WorkerFails, WorkerCopies, WorkerCopied
<1>6. CASE WorkerRequests
  BY <1>a, <1>6 DEF WorkerRequests, Requests, Flash, PlanActions
<1>7. CASE WorkerGrows \/ WorkerCopiesBoot \/ WorkerCopiedBoot \/ WorkerSelectsAndroid
  BY <1>a, <1>7 DEF WorkerGrows, WorkerCopiesBoot, WorkerCopiedBoot, WorkerSelectsAndroid, Flash
<1>8. QED
  BY <1>1, <1>2, <1>3, <1>4, <1>5, <1>6, <1>7 DEF Next, Worker

LEMMA StagedComputer ==
    ASSUME OnceInv, StagedInv, AskedInv, TypeOK', Computer
    PROVE  StagedInv' /\ AskedInv'
<1>t. /\ record \in Record /\ host \in Host /\ scripts \in [Owners -> Script]
      /\ history \in [wipes : 0..2, trials : 0..2, asked : 0..2]
      /\ "attached" \in Owners /\ flash \in Flash
  BY DEF OnceInv, TypeOK, Owners
<1>f. UNCHANGED <<gpt, flash>>
  BY ComputerKeeps
<1>a. Layout = "after" => flash.control # "orig"
  BY DEF StagedInv, Layout, Begun
<1> USE DEF Goto, Stop, ResumesOnce, fixed, device, StagedInv, AskedInv, ArmIsStaged, RunsAreAsked, Running, Begun, LateStates
<1>1. CASE Start
  <2>1. /\ host.pc = "off" /\ host'.pc = "deciding" /\ host'.seen = "none" /\ history'.asked = 0
        /\ UNCHANGED <<record, scripts>>
    BY <1>1, <1>t DEF Start
  <2>2. host'.resume => record.pending
    BY <1>1 DEF Start
  <2>3. QED
    BY <1>f, <2>1, <2>2 DEF NoScript
<1>2. CASE Decide
  BY <1>2, <1>t, <1>f DEF Decide, Record, Host, EffectStates
<1>3. CASE RecoverWaits \/ WaitAgain
  BY <1>3, <1>t, <1>f DEF RecoverWaits, WaitAgain, Record
<1>4. CASE Recover
  <2>1. /\ host'.pc \in {"waiting", "rereading", "off"} /\ host'.resume = host.resume
        /\ host'.seen \in {host.seen, flash.control} /\ UNCHANGED <<scripts, history>>
    BY <1>4, <1>t DEF Recover, Host
  <2>2. /\ record'.pending = record.pending
        /\ record'.arm = record.arm \/ (record'.arm = "done" /\ Layout = "after")
        /\ host'.pc = "waiting" => record'.arm = "done"
        /\ host'.pc = "rereading" => record'.arm = record.arm
    BY <1>4, <1>t DEF Recover, Record, Host
  <2>3. QED
    BY <1>4, <1>t, <1>f, <1>a, <2>1, <2>2 DEF Recover
<1>5. CASE Reread
  BY <1>5, <1>t, <1>f DEF Reread, Staged, Record, Host
<1>6. CASE Prepare
  BY <1>6, <1>t, <1>f DEF Prepare, Record, Host
<1>7. CASE SendArm
  BY <1>7, <1>t, <1>f DEF SendArm, Send, Record, Host
<1>8. CASE SendRearm
  BY <1>8, <1>t, <1>f DEF SendRearm, Send, Record, Host
<1>9. CASE SendFinal
  BY <1>9, <1>t, <1>f DEF SendFinal, Send, Record, Host
<1>10. CASE EffectDone
  BY <1>10, <1>t, <1>f DEF EffectDone, NoScript, Record, Host, Script
<1>11. CASE EffectFails
  BY <1>11, <1>t, <1>f DEF EffectFails, NoScript, Record, Host
<1>12. CASE Restart
  <2>1. host.pc = "staged" /\ host'.pc = "waiting" /\ host'.resume = host.resume /\ host'.seen = host.seen
        /\ record'.arm = record.arm /\ record'.pending = record.pending /\ history' = history
    BY <1>12, <1>t DEF Restart, Record, Host
  <2>2. scripts["attached"] = NoScript
    BY <2>1
  <2>3. scripts'["attached"] = NoScript
    BY <1>12, <1>t, <2>2 DEF Restart, ScriptsDie, NoScript
  <2>4. QED
    BY <1>t, <1>f, <2>1, <2>2, <2>3 DEF NoScript
<1>13. CASE AndroidReturned
  <2>1. host.pc = "waiting" /\ host'.pc \in {"regrowing", "finishing", "off"}
        /\ host'.seen = host.seen /\ UNCHANGED <<scripts, history>>
    BY <1>13, <1>t DEF AndroidReturned, Host
  <2>2. host'.resume = host.resume /\ (host.resume => host'.pc # "finishing")
        /\ (host'.pc = "regrowing" => host.resume)
    BY <1>13, <1>t DEF AndroidReturned, Host
  <2>3. record'.arm = record.arm /\ record'.pending = record.pending
    BY <1>13, <1>t DEF AndroidReturned, Record
  <2>4. QED
    BY <1>t, <1>f, <2>1, <2>2, <2>3 DEF NoScript
<1>14. CASE NothingToGrow \/ RearmVerified \/ Rearm
  <2>1. host.pc = "regrowing" /\ host'.pc \in {"finishing", "staged", "rearming"}
        /\ host'.seen = host.seen /\ UNCHANGED <<scripts, history>>
    BY <1>14, <1>t DEF NothingToGrow, RearmVerified, Rearm, Host
  <2>2. ~host'.resume
    BY <1>14, <1>t DEF NothingToGrow, RearmVerified, Rearm, Host
  <2>3. record'.arm = record.arm /\ (record'.pending => record.pending)
    BY <1>14, <1>t DEF NothingToGrow, RearmVerified, Rearm, Record
  <2>4. QED
    BY <1>t, <1>f, <2>1, <2>2, <2>3 DEF NoScript
<1>15. CASE FinishRefused \/ FinishVerified \/ FinishBoot
  <2>1. record'.arm = "done" /\ host'.pc \in {"off", "completing", "restoring"} /\ host'.resume = host.resume
    BY <1>15, <1>t DEF FinishRefused, FinishVerified, FinishBoot, Record, Host
  <2>2. host.pc = "finishing" /\ host'.seen = host.seen /\ UNCHANGED <<scripts, history>>
    BY <1>15, <1>t DEF FinishRefused, FinishVerified, FinishBoot, Host
  <2>3. QED
    BY <1>t, <1>f, <2>1, <2>2
<1>16. CASE Complete \/ Cancel \/ HostFails
  <2>1. record'.arm = record.arm /\ (record'.pending => record.pending)
    BY <1>16, <1>t DEF Complete, Cancel, HostFails, Record
  <2>2. host'.pc = "off" /\ host'.seen = host.seen /\ host.pc # "scripting" /\ UNCHANGED <<scripts, history>>
    BY <1>16, <1>t DEF Complete, Cancel, HostFails, Host
  <2>3. QED
    BY <1>t, <1>f, <2>1, <2>2
<1>17. CASE Crash
  BY <1>17, <1>t, <1>f DEF Crash, NoScript, Host
<1>18. QED
  BY <1>1, <1>2, <1>3, <1>4, <1>5, <1>6, <1>7, <1>8, <1>9, <1>10, <1>11, <1>12, <1>13, <1>14,
     <1>15, <1>16, <1>17 DEF Computer

LEMMA StagedShell ==
    ASSUME OnceInv, StagedInv, AskedInv, TypeOK', NEW w \in Owners, Shell(w)
    PROVE  StagedInv' /\ AskedInv'
<1>t. /\ host \in Host /\ scripts \in [Owners -> Script] /\ flash \in Flash
      /\ history \in [wipes : 0..2, trials : 0..2, asked : 0..2]
      /\ Owners = {"attached", "orphan"}
  BY DEF OnceInv, TypeOK, Owners
<1>a. /\ UNCHANGED <<record, host, gpt>> /\ Running(w)
      /\ \E pc : ScriptGoes(w, pc)
  BY DEF Shell, ScriptBegins, ScriptCopies, ScriptVerifies, ScriptSelects, ScriptFails,
         ScriptAt, Running, device
<1>b. flash.control # "orig" => flash'.control # "orig"
  BY NeverAsFound DEF OnceInv, Next
<1>c. scripts'["attached"].kind = scripts["attached"].kind
  BY <1>a, <1>t DEF ScriptGoes, Script
<1>d. w = "attached" => host.pc = "scripting" /\ scripts["attached"].kind # "none"
  BY <1>a DEF AskedInv, Running, NoScript
<1> USE DEF StagedInv, AskedInv, ArmIsStaged, RunsAreAsked, Begun, LateStates
<1>1. CASE ScriptSelects(w)
  <2>1. flash'.control # "orig" /\ scripts[w].pc = "misc" /\ ScriptGoes(w, "ok")
    BY <1>1, <1>t DEF ScriptSelects, ScriptAt, Flash
  <2>2. history'.asked = history.asked \/ (w = "attached" /\ scripts[w].kind # "final"
                                            /\ history'.asked = AtMostTwice(history.asked))
    BY <1>1, <1>t DEF ScriptSelects
  <2>3. scripts'["attached"].pc \in {"check", "boot", "verify", "misc"} => w = "orphan" /\ scripts' = [scripts EXCEPT !["orphan"] = NoScript]
    BY <2>1, <1>t DEF ScriptGoes, Script
  <2>4. history'.asked < 2
    BY <1>a, <1>t, <2>2 DEF AtMostTwice
  <2>5. CASE w = "attached"
    BY <1>a, <1>c, <1>d, <1>t, <2>1, <2>3, <2>4, <2>5 DEF Running
  <2>6. CASE w = "orphan"
    <3>1. scripts'["attached"] = scripts["attached"] /\ history'.asked = history.asked
      BY <1>1, <1>t, <2>1, <2>6 DEF ScriptGoes, ScriptSelects
    <3>2. QED
      BY <1>a, <1>t, <2>1, <3>1 DEF Running
  <2>7. QED
    BY <1>t, <2>5, <2>6
<1>2. CASE ScriptBegins(w) \/ ScriptCopies(w) \/ ScriptVerifies(w) \/ ScriptFails(w)
  <2>1. PICK pc \in {"boot", "verify", "misc", "failed"} : ScriptGoes(w, pc)
    BY <1>2 DEF ScriptBegins, ScriptCopies, ScriptVerifies, ScriptFails
  <2>2. history' = history
    BY <1>2 DEF ScriptBegins, ScriptCopies, ScriptVerifies, ScriptFails, device
  <2>3. scripts'["attached"].pc \in {scripts["attached"].pc, pc} /\ (w = "orphan" => scripts'["attached"] = scripts["attached"])
        /\ (scripts'["attached"].pc # scripts["attached"].pc => w = "attached")
    BY <1>t, <2>1 DEF ScriptGoes, Script
  <2>4. QED
    BY <1>a, <1>b, <1>c, <1>d, <1>t, <2>2, <2>3 DEF Running
<1>3. QED
  BY <1>1, <1>2 DEF Shell

\* The device's own steps only take scripts away.
LEMMA StagedDevice ==
    ASSUME OnceInv, StagedInv, AskedInv, TypeOK', Boots \/ Worker
    PROVE  StagedInv' /\ AskedInv'
<1>t. /\ host \in Host /\ scripts \in [Owners -> Script]
      /\ history \in [wipes : 0..2, trials : 0..2, asked : 0..2] /\ "attached" \in Owners
  BY DEF OnceInv, TypeOK, Owners
<1>a. /\ record' = record /\ host'.pc = host.pc /\ host'.seen = host.seen
      /\ host'.resume = host.resume
      /\ history'.asked = history.asked
      /\ scripts' = scripts \/ ScriptsDie
  BY <1>t
  DEF Boots, PowerLoss, BootTrial, BootAndroid, RecoveryWipes, fixed, Host,
      Worker, WorkerChecks, WorkerRequests, WorkerCopies, WorkerCopied, WorkerGrows,
      WorkerCopiesBoot, WorkerCopiedBoot, WorkerSelectsAndroid, WorkerFails, computer
<1>b. flash.control # "orig" => flash'.control # "orig"
  BY NeverAsFound DEF OnceInv, Next
<1>c. Begun' => flash'.control # "orig"
  <2>1. CASE Boots
    BY <1>b, <2>1, BootsKeep DEF StagedInv, Begun
  <2>2. CASE Worker
    BY <1>b, <2>2, WorkerEffects DEF OnceInv, BootInv
  <2>3. QED
    BY <2>1, <2>2
<1>d. /\ scripts'["attached"] = scripts["attached"]
         \/ (scripts["attached"].kind # "none" /\ scripts'["attached"] = [scripts["attached"] EXCEPT !.pc = "failed"])
         \/ (scripts["attached"].kind = "none" /\ scripts'["attached"] = NoScript)
  BY <1>a, <1>t DEF ScriptsDie
<1>e. /\ scripts'["attached"].kind = scripts["attached"].kind
      /\ scripts'["attached"].pc \in {scripts["attached"].pc, "failed", "none"}
      /\ scripts["attached"] = NoScript => scripts'["attached"] = NoScript
  BY <1>d, <1>t DEF Script, NoScript
<1>1. QED
  BY <1>a, <1>b, <1>c, <1>e DEF StagedInv, AskedInv, ArmIsStaged, RunsAreAsked, LateStates, Running

LEMMA StagedInit == Init => StagedInv /\ AskedInv
  BY DEF Init, StagedInv, AskedInv, ArmIsStaged, RunsAreAsked, Begun, LateStates, Running, NoScript, Owners

LEMMA StagedStep ==
    ASSUME OnceInv, StagedInv, AskedInv, [Next]_vars
    PROVE  StagedInv' /\ AskedInv'
<1>1. TypeOK'
  BY StepTyped DEF OnceInv
<1>2. CASE UNCHANGED vars
  BY <1>2 DEF vars, StagedInv, AskedInv, ArmIsStaged, RunsAreAsked, Begun, LateStates, Running
<1>3. CASE Next
  BY <1>1, <1>3, StagedComputer, StagedShell, StagedDevice DEF Next
<1>4. QED
  BY <1>2, <1>3

\* A staging that is recorded as done has selected the worker, and no run of the
\* computer selects it twice: waiting never arms it again, whatever crashes, is
\* retried or overlaps (effect, recover_arm, resume_growth).
THEOREM ArmsOnlyAsAsked == Spec => []ArmsAsAsked
<1>1. StagedInv /\ AskedInv => ArmsAsAsked
  BY DEF StagedInv, AskedInv, ArmsAsAsked
<1>2. QED
  BY OnceInit, OnceStep, StagedInit, StagedStep, <1>1, PTL DEF Spec

-----------------------------------------------------------------------------
(* What a removal that is recorded as completed has found *)

\* Before the table changes the reset is requested, or the root invalidated.
Asked == /\ action = "gap" => flash.root = "erased"
         /\ action = "reset" => flash.bcb = "wipe" \/ history.wipes = 1

\* What finish has checked when it goes on to the boot slots.
Usable == /\ Layout = "after" /\ flash.fs = "full"
          /\ action = "reset" => history.wipes = 1

\* Both slots are Android's and nothing is left for the boot loader to do.
Settled == /\ flash.linux = "android" /\ flash.control = "android" /\ flash.bcb = "empty"
           /\ mode \in {"android", "boot"}

SendsFinal == scripts["attached"].kind = "final"

Checked == \/ host.pc \in {"restoring", "restored", "completing"}
           \/ SendsFinal \/ record.status = "completed"

Restored == \/ host.pc \in {"restored", "completing"} \/ record.status = "completed"
            \/ SendsFinal /\ scripts["attached"].pc = "ok"

RemovedInv ==
    /\ (Begun \/ step \in {"copy1", "copying1", "copy2", "copying2"}) => Asked
    /\ Checked => Usable
    /\ Restored => Settled
    /\ SendsFinal /\ scripts["attached"].pc = "misc" => flash.linux = "android"
    /\ record.status = "completed" => host.pc = "off" /\ scripts = [w \in Owners |-> NoScript]

\* A reset that was requested and is requested no longer has taken place.
LEMMA FinishedIsUsable ==
    ASSUME OnceInv, RemovedInv, host.pc = "finishing", Finished
    PROVE  Usable
<1>1. Layout = "after"
  BY DEF OnceInv, HostInv, LateStates
<1>2. Asked
  BY <1>1 DEF RemovedInv, Layout, Begun
<1>3. QED
  BY <1>1, <1>2 DEF Finished, Asked, Usable

\* The computer finishes what it has checked.
LEMMA RemovedComputer ==
    ASSUME TrialInv, OnceInv, RemovedInv, Computer
    PROVE  RemovedInv'
<1>t. /\ record \in Record /\ host \in Host /\ scripts \in [Owners -> Script]
      /\ history \in [wipes : 0..2, trials : 0..2, asked : 0..2] /\ Owners = {"attached", "orphan"}
      /\ host.pc # "scripting" => scripts["attached"] = NoScript
      /\ host.pc # "off" => scripts["orphan"] = NoScript
      /\ record.status = "completed" => host.pc = "off"
  BY DEF TrialInv, TypeOK, RemovedInv, Owners
<1>k. /\ UNCHANGED <<gpt, flash, step, action>> /\ history'.wipes = history.wipes
      /\ mode' \in {mode, "boot"}
  <2>1. UNCHANGED action /\ history'.wipes = history.wipes /\ mode' \in {mode, "boot"}
    BY <1>t DEF Computer, Start, Decide, RecoverWaits, Recover, Reread, Prepare, SendArm, EffectDone,
           EffectFails, Restart, WaitAgain, AndroidReturned, NothingToGrow, RearmVerified, Rearm,
           SendRearm, FinishRefused, FinishVerified, FinishBoot, SendFinal, Complete, Cancel,
           HostFails, Crash, fixed, device
  <2>2. QED
    BY <2>1, ComputerKeeps
<1>u. /\ (Usable => Usable') /\ (Settled => Settled')
      /\ ((Begun \/ step \in {"copy1", "copying1", "copy2", "copying2"}) => Asked)'
  BY <1>k DEF Usable, Settled, Asked, Begun, Layout, RemovedInv
<1>s. ASSUME Checked' => Usable, Restored' => Settled,
             SendsFinal' /\ scripts'["attached"].pc = "misc" => flash.linux = "android",
             record'.status = "completed" => host'.pc = "off" /\ scripts' = [w \in Owners |-> NoScript]
      PROVE  RemovedInv'
  BY <1>u, <1>k, <1>s DEF RemovedInv
<1>q. ASSUME UNCHANGED scripts, record'.status # "completed",
             host'.pc \notin {"restoring", "restored", "completing"}
      PROVE  RemovedInv'
  BY <1>q, <1>s DEF RemovedInv, Checked, Restored, SendsFinal
<1> USE DEF Goto, Stop, ResumesOnce
<1>1. CASE Start \/ Decide \/ RecoverWaits \/ WaitAgain
  <2>1. UNCHANGED scripts /\ record'.status # "completed" /\ host.pc # "scripting"
    BY <1>1, <1>t DEF Start, Decide, RecoverWaits, WaitAgain, Record
  <2>2. host'.pc \in {"deciding", "preparing", "recovering", "waiting"}
    BY <1>1, <1>t DEF Start, Decide, RecoverWaits, WaitAgain, Record, EffectStates, Host
  <2>3. QED
    BY <1>q, <2>1, <2>2
<1>2. CASE Recover \/ Reread \/ Prepare
  <2>1. UNCHANGED scripts /\ record'.status # "completed"
    BY <1>2, <1>t DEF Recover, Reread, Prepare, Record
  <2>2. host'.pc \in {"waiting", "rereading", "off", "preparing", "prepared"}
    BY <1>2, <1>t DEF Recover, Reread, Prepare, Host
  <2>3. QED
    BY <1>q, <2>1, <2>2
<1>3. CASE AndroidReturned \/ NothingToGrow \/ RearmVerified \/ Rearm
  <2>1. UNCHANGED scripts /\ record'.status # "completed"
    BY <1>3, <1>t DEF AndroidReturned, NothingToGrow, RearmVerified, Rearm, Record
  <2>2. host'.pc \in {"regrowing", "finishing", "off", "staged", "rearming"}
    BY <1>3, <1>t DEF AndroidReturned, NothingToGrow, RearmVerified, Rearm, Host
  <2>3. QED
    BY <1>q, <2>1, <2>2
<1>4. CASE FinishRefused \/ Cancel \/ HostFails
  <2>1. UNCHANGED scripts /\ record'.status # "completed" /\ host'.pc = "off"
    BY <1>4, <1>t DEF FinishRefused, Cancel, HostFails, Record, Host
  <2>2. QED
    BY <1>q, <2>1
<1>5. CASE SendArm \/ SendRearm
  <2>1. /\ host'.pc = "scripting" /\ record'.status # "completed"
        /\ scripts'["attached"].kind # "final"
    BY <1>5, <1>t DEF SendArm, SendRearm, Send, Record, Host
  <2>2. QED
    BY <1>s, <2>1 DEF Checked, Restored, SendsFinal
<1>6. CASE SendFinal
  <2>1. /\ host.pc = "restoring" /\ host'.pc = "scripting" /\ record'.status # "completed"
        /\ scripts'["attached"].pc \in {"check", "failed"}
    BY <1>6, <1>t DEF SendFinal, Send, Record, Host
  <2>2. QED
    BY <1>s, <2>1 DEF Checked, Restored, SendsFinal, RemovedInv
<1>7. CASE EffectDone \/ EffectFails
  <2>1. scripts' = [w \in Owners |-> NoScript] /\ record'.status # "completed"
    BY <1>7, <1>t DEF EffectDone, EffectFails, Record, Script
  <2>2. host'.pc \in {"off", "staged"} \/ (host'.pc = "restored" /\ SendsFinal /\ scripts["attached"].pc = "ok")
    BY <1>7, <1>t DEF EffectDone, EffectFails, Host, SendsFinal
  <2>3. (Usable /\ Settled) \/ host'.pc \in {"off", "staged"}
    BY <2>2 DEF RemovedInv, Checked, Restored
  <2>4. QED
    BY <1>s, <1>t, <2>1, <2>3 DEF Checked, Restored, SendsFinal, NoScript
<1>8. CASE Restart
  <2>1. /\ host.pc = "staged" /\ host'.pc = "waiting" /\ record'.status = "waiting"
    BY <1>8, <1>t DEF Restart, Record, Host
  <2>2. scripts["attached"] = NoScript /\ scripts'["attached"] = NoScript
    BY <1>8, <1>t, <2>1 DEF Restart, ScriptsDie, NoScript
  <2>3. QED
    BY <1>s, <2>1, <2>2 DEF Checked, Restored, SendsFinal, NoScript
<1>9. CASE FinishVerified
  <2>1. /\ host.pc = "finishing" /\ host'.pc = "completing" /\ record'.status = "running"
        /\ scripts' = scripts /\ Finished /\ Settled
    BY <1>9, <1>t DEF FinishVerified, Record, Host, Finished, BootIsAndroids, Settled, AndroidRuns
  <2>2. QED
    BY <1>s, <1>t, <2>1, FinishedIsUsable DEF NoScript, SendsFinal
<1>10. CASE FinishBoot
  <2>1. /\ host.pc = "finishing" /\ host'.pc = "restoring" /\ record'.status = "running"
        /\ scripts' = scripts /\ Finished
    BY <1>10, <1>t DEF FinishBoot, Record, Host
  <2>2. QED
    BY <1>s, <1>t, <2>1, FinishedIsUsable DEF NoScript, SendsFinal, Restored
<1>11. CASE Complete
  <2>1. /\ host.pc \in {"restored", "completing"} /\ host'.pc = "off" /\ scripts' = scripts
    BY <1>11, <1>t DEF Complete, Host
  <2>2. Usable /\ Settled /\ scripts = [w \in Owners |-> NoScript]
    BY <1>t, <2>1 DEF RemovedInv, Checked, Restored
  <2>3. QED
    BY <1>s, <1>t, <2>1, <2>2 DEF NoScript, SendsFinal
<1>12. CASE Crash
  <2>1. /\ host.pc # "off" /\ host'.pc = "off" /\ record' = record
        /\ scripts'["attached"] = NoScript
    BY <1>12, <1>t DEF Crash, Host
  <2>2. QED
    BY <1>s, <1>t, <2>1 DEF Checked, Restored, SendsFinal, NoScript
<1>13. QED
  BY <1>1, <1>2, <1>3, <1>4, <1>5, <1>6, <1>7, <1>8, <1>9, <1>10, <1>11, <1>12 DEF Computer

\* The slot a final script has verified is the one it selects.
LEMMA RemovedShell ==
    ASSUME TrialInv, OnceInv, RemovedInv, NEW w \in Owners, Shell(w)
    PROVE  RemovedInv'
<1>t. /\ host \in Host /\ scripts \in [Owners -> Script] /\ flash \in Flash
      /\ history \in [wipes : 0..2, trials : 0..2, asked : 0..2] /\ Owners = {"attached", "orphan"}
  BY DEF TrialInv, TypeOK, Owners
<1>a. /\ UNCHANGED <<action, record, host, gpt, step, mode>> /\ Running(w) /\ mode = "android"
      /\ \E pc : ScriptGoes(w, pc)
  BY DEF Shell, ScriptBegins, ScriptCopies, ScriptVerifies, ScriptSelects, ScriptFails,
         ScriptAt, AndroidRuns, Running, device, fixed
<1>b. scripts[w] # NoScript /\ scripts[w].pc \in {"check", "boot", "verify", "misc"}
  BY <1>a DEF Running, NoScript
<1>c. record.status # "completed"
  BY <1>b DEF RemovedInv
<1>d. /\ w = "attached" => host.pc = "scripting" /\ scripts["orphan"] = NoScript
      /\ w = "orphan" => host.pc = "off" /\ scripts["attached"] = NoScript
  BY <1>b, <1>t DEF TrialInv
<1>e. /\ flash'.fs = flash.fs /\ flash'.root = flash.root /\ flash'.bcb = flash.bcb
      /\ history'.wipes = history.wipes
  BY <1>t DEF Shell, ScriptBegins, ScriptCopies, ScriptVerifies, ScriptSelects, ScriptFails, device, Flash
<1>f. /\ ((Begun \/ step \in {"copy1", "copying1", "copy2", "copying2"}) => Asked)'
      /\ Usable => Usable'
  BY <1>a, <1>e DEF RemovedInv, Begun, Asked, Usable, Layout
<1>1. CASE w = "orphan"
  <2>1. scripts'["attached"] = NoScript
    BY <1>1, <1>a, <1>d, <1>t DEF ScriptGoes
  <2>2. QED
    BY <1>1, <1>a, <1>c, <1>d, <1>f, <2>1 DEF RemovedInv, Checked, Restored, SendsFinal, NoScript
<1>2. CASE w = "attached"
  <2>1. host'.pc = "scripting" /\ record'.status # "completed"
    BY <1>2, <1>a, <1>c, <1>d
  <2>2. scripts'["attached"].kind = scripts["attached"].kind
    BY <1>2, <1>a, <1>t DEF ScriptGoes, Script
  <2>3. Checked' => Usable'
    BY <2>1, <2>2, <1>f DEF RemovedInv, Checked, SendsFinal
  <2>4. ASSUME scripts'["attached"].pc \notin {"ok", "misc"} PROVE RemovedInv'
    BY <1>f, <2>1, <2>3, <2>4 DEF RemovedInv, Restored
  <2>5. ASSUME NEW pc, ScriptGoes(w, pc) PROVE scripts'["attached"].pc = pc
    BY <1>2, <1>t, <2>5 DEF ScriptGoes, Script
  <2>6. CASE ScriptBegins(w)
    <3>1. scripts["attached"].kind # "rearm" => scripts'["attached"].pc = "boot"
      BY <1>2, <2>5, <2>6 DEF ScriptBegins
    <3>2. scripts["attached"].kind = "rearm" => scripts'["attached"].pc = "misc"
      BY <1>2, <2>5, <2>6 DEF ScriptBegins
    <3>3. QED
      BY <1>f, <2>1, <2>2, <2>3, <2>4, <3>1, <3>2 DEF RemovedInv, Restored, SendsFinal
  <2>7. CASE ScriptCopies(w) \/ ScriptFails(w)
    BY <2>4, <2>5, <2>7 DEF ScriptCopies, ScriptFails
  <2>8. CASE ScriptVerifies(w)
    <3>1. scripts'["attached"].pc = "misc" /\ flash' = flash /\ flash.linux = Image(w)
      BY <2>5, <2>8 DEF ScriptVerifies, device
    <3>2. SendsFinal => flash'.linux = "android"
      BY <1>2, <3>1 DEF Image, SendsFinal
    <3>3. QED
      BY <1>f, <2>1, <2>2, <2>3, <3>1, <3>2 DEF RemovedInv, Restored, SendsFinal
  <2>9. CASE ScriptSelects(w)
    <3>1. /\ scripts'["attached"].pc = "ok" /\ scripts["attached"].pc = "misc"
          /\ flash'.linux = flash.linux /\ (SendsFinal => flash'.control = "android")
      BY <1>2, <1>t, <2>5, <2>9 DEF ScriptSelects, ScriptAt, Flash, SendsFinal
    <3>2. SendsFinal => flash.linux = "android" /\ Usable
      BY <3>1 DEF RemovedInv, Checked
    <3>3. Usable => flash.bcb = "empty"
      BY <1>t DEF Usable, OnceInv, BootInv
    <3>4. SendsFinal => Settled'
      BY <1>a, <1>e, <3>1, <3>2, <3>3 DEF Settled
    <3>5. QED
      BY <1>f, <2>1, <2>2, <2>3, <3>1, <3>4 DEF RemovedInv, Restored, SendsFinal
  <2>10. QED
    BY <2>6, <2>7, <2>8, <2>9 DEF Shell
<1>3. QED
  BY <1>1, <1>2, <1>t

\* Whatever restarts, nothing that was checked is lost.
LEMMA RemovedBoots ==
    ASSUME TrialInv, OnceInv, RemovedInv, Boots
    PROVE  RemovedInv'
<1>t. /\ host \in Host /\ scripts \in [Owners -> Script] /\ flash \in Flash
      /\ history \in [wipes : 0..2, trials : 0..2, asked : 0..2] /\ Owners = {"attached", "orphan"}
  BY DEF TrialInv, TypeOK, Owners
<1>a. /\ UNCHANGED <<action, record, gpt>> /\ host'.pc = host.pc /\ step' \in {step, "off", "check"}
      /\ scripts' = scripts \/ ScriptsDie
      /\ flash'.root = flash.root /\ flash'.linux = flash.linux
  BY <1>t DEF Boots, PowerLoss, BootTrial, BootAndroid, RecoveryWipes, fixed, Host, Flash
<1>b. /\ scripts'["attached"].kind = scripts["attached"].kind
      /\ scripts'["attached"].pc \in {scripts["attached"].pc, "failed", "none"}
      /\ scripts = [v \in Owners |-> NoScript] => scripts' = scripts
  BY <1>a, <1>t DEF ScriptsDie, Script, NoScript
<1>c. history.wipes = 1 => history'.wipes = 1
  BY <1>t DEF Boots, PowerLoss, BootTrial, BootAndroid, RecoveryWipes, OnceInv, BootInv
<1>d. flash.bcb = "wipe" => flash'.bcb = "wipe" \/ history'.wipes = 1
  BY <1>t DEF Boots, PowerLoss, BootTrial, BootAndroid, RecoveryWipes, OnceInv, BootInv, Flash, AtMostTwice
<1>e. flash.fs = "full" => flash'.fs = "full"
  BY <1>t DEF Boots, PowerLoss, BootTrial, BootAndroid, RecoveryWipes, Flash
<1>f. Settled => Settled'
  BY <1>t, <1>a DEF Settled, TrialDue, Boots, PowerLoss, BootTrial, BootAndroid, RecoveryWipes, Flash
<1>1. Usable => Usable'
  BY <1>a, <1>c, <1>e DEF Usable, Layout
<1>2. ((Begun \/ step \in {"copy1", "copying1", "copy2", "copying2"}) => Asked)'
  BY <1>a, <1>c, <1>d DEF RemovedInv, Begun, Asked
<1>3. QED
  BY <1>1, <1>2, <1>a, <1>b, <1>f DEF RemovedInv, Checked, Restored, SendsFinal

\* The worker writes no table before what it has to ask for.
LEMMA RemovedWorker ==
    ASSUME TrialInv, OnceInv, RemovedInv, Worker
    PROVE  RemovedInv'
<1>t. /\ scripts \in [Owners -> Script] /\ flash \in Flash /\ gpt \in [{"first", "last"} -> Tables]
      /\ history \in [wipes : 0..2, trials : 0..2, asked : 0..2] /\ action \in PlanActions
      /\ "attached" \in Owners
  BY DataActionsAssumption DEF TrialInv, TypeOK, Owners
<1>a. /\ UNCHANGED <<action, record, host, scripts, history>> /\ mode = "worker"
      /\ Layout = "after" => Layout' = "after"
  BY WorkerEffects
<1>b. ~Restored /\ ~Running("attached")
  BY <1>a, <1>t DEF RemovedInv, Settled, OnceInv, AsChecked
<1>c. flash.fs = "full" => flash'.fs = "full"
  BY <1>t DEF Worker, WorkerChecks, WorkerRequests, WorkerCopies, WorkerCopied, WorkerGrows,
         WorkerCopiesBoot, WorkerCopiedBoot, WorkerSelectsAndroid, WorkerFails, Requests, Flash,
         PlanActions
<1>d. ((Begun \/ step \in {"copy1", "copying1", "copy2", "copying2"}) => Asked)'
  <2>1. CASE WorkerChecks \/ WorkerFails
    BY <1>a, <2>1 DEF WorkerChecks, WorkerFails, StepGoes, RemovedInv, Begun, Asked
  <2>2. CASE WorkerRequests
    BY <1>a, <1>t, <2>2 DEF WorkerRequests, Requests, Asked, Flash, PlanActions
  <2>3. ASSUME NEW i \in {1, 2}, WorkerCopies(i) \/ WorkerCopied(i) PROVE Asked'
    <3>1. step \in {"copy1", "copying1", "copy2", "copying2"} /\ flash' = flash
      BY <2>3 DEF WorkerCopies, WorkerCopied, StepGoes, CopyStep, CopyingStep
    <3>2. QED
      BY <1>a, <3>1 DEF RemovedInv, Asked
  <2>4. CASE WorkerGrows \/ WorkerCopiesBoot \/ WorkerCopiedBoot \/ WorkerSelectsAndroid
    <3>1. /\ step' \in {"boot", "booting", "select", "off"} /\ gpt' = gpt
          /\ flash'.root = flash.root /\ flash'.bcb = flash.bcb
      BY <1>t, <2>4 DEF WorkerGrows, WorkerCopiesBoot, WorkerCopiedBoot, WorkerSelectsAndroid,
                        StepGoes, Flash
    <3>2. QED
      BY <1>a, <3>1 DEF RemovedInv, Begun, Asked
  <2>5. QED
    BY <2>1, <2>2, <2>3, <2>4 DEF Worker
<1>1. Usable => Usable'
  BY <1>a, <1>c DEF Usable
<1>2. QED
  BY <1>1, <1>a, <1>b, <1>d DEF RemovedInv, Checked, Restored, SendsFinal, Running

LEMMA RemovedStep ==
    ASSUME TrialInv, OnceInv, RemovedInv, [Next]_vars
    PROVE  RemovedInv'
<1>1. CASE UNCHANGED vars
  BY <1>1 DEF vars, RemovedInv, Begun, Asked, Checked, Usable, Restored, Settled, SendsFinal, Layout
<1>2. CASE Next
  BY <1>2, RemovedComputer, RemovedShell, RemovedBoots, RemovedWorker DEF Next
<1>3. QED
  BY <1>1, <1>2

LEMMA RemovedInit == Init => RemovedInv
  BY DEF Init, RemovedInv, Begun, Asked, Checked, Restored, SendsFinal, NoScript, Owners

\* A removal is recorded as completed only with both tables restored, the whole
\* partition in use, the reset consumed and both slots Android's, whatever crashed
\* and was retried, until a script was first left running beside the next run of
\* the computer (finish, finish_boot).
THEOREM CompletedRemovals == MCSpec => []CompletedIsRemovedAlone
<1> DEFINE AloneInv == OnceInv /\ (alone => TrialInv /\ RemovedInv)
<1>1. MCInit => AloneInv
  BY OnceInit, TrialInit, RemovedInit DEF MCInit
<1>2. AloneInv /\ [MCNext]_<<vars, alone>> => AloneInv'
  <2> SUFFICES ASSUME AloneInv, [MCNext]_<<vars, alone>> PROVE AloneInv'
    OBVIOUS
  <2>1. [Next]_vars /\ (alone' => alone /\ (~Disturbs \/ UNCHANGED vars))
    BY NotedStep
  <2>2. OnceInv'
    BY <2>1, OnceStep
  <2>3. ASSUME alone' PROVE TrialInv' /\ RemovedInv'
    <3>1. TrialInv /\ RemovedInv /\ (~Disturbs \/ UNCHANGED vars)
      BY <2>1, <2>3
    <3>2. UNCHANGED vars => ~Disturbs
      BY <3>1 DEF vars, Disturbs, TrialInv
    <3>3. QED
      BY <2>1, <3>1, <3>2, TrialStep, RemovedStep
  <2>4. QED
    BY <2>2, <2>3
<1>3. AloneInv => CompletedIsRemovedAlone
  <2> SUFFICES ASSUME AloneInv, alone, record.status = "completed" PROVE CompletedIsRemoved
    BY DEF CompletedIsRemovedAlone, CompletedIsRemoved
  <2>1. Usable /\ Settled
    BY DEF RemovedInv, Checked, Restored
  <2>2. action = "gap" => flash.root = "erased"
    BY <2>1 DEF RemovedInv, Usable, Layout, Begun, Asked
  <2>3. QED
    BY <2>1, <2>2 DEF CompletedIsRemoved, Usable, Settled, Layout
<1>4. QED
  BY <1>1, <1>2, <1>3, PTL DEF MCSpec
=============================================================================
