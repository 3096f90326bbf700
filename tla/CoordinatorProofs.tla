------------------------- MODULE CoordinatorProofs --------------------------
(***************************************************************************)
(* Proofs about Coordinator, for every number of installers, every number  *)
(* of writes and every bound.                                              *)
(*                                                                         *)
(* First what holds whoever runs.  Then one installer, whatever crashes    *)
(* and whichever saves fail: what it records as done or completed is so;   *)
(* and when it is never asked to cancel, it never sends a write twice, its *)
(* file never forgets, and it implements EffectJournal.  Both conditions   *)
(* are needed for that: see the runs cancel_race and stale_load.           *)
(***************************************************************************)
EXTENDS Coordinator, TLAPS

-----------------------------------------------------------------------------
(* Types *)

\* A worker save keeps every record typed.
LEMMA SaveTyped ==
    ASSUME TypeOK, NEW p \in Installers, NEW r \in Record, Save(p, r)
    PROVE  mem' \in [Installers -> Record] /\ disk' \in Record
  BY DEF TypeOK, Save

\* So does a stage save.
LEMMA StageTyped ==
    ASSUME TypeOK, NEW p \in Installers, NEW stage \in Stages, NEW status \in Statuses,
           StageSaved(p, stage, status)
    PROVE  mem' \in [Installers -> Record] /\ disk' \in Record
<1>1. [mem[p] EXCEPT !.stage = stage, !.status = status] \in Record
  BY DEF TypeOK, Record
<1> QED
  BY <1>1, SaveTyped DEF StageSaved

\* The records around a write.
LEMMA MarksTyped ==
    ASSUME TypeOK, NEW p \in Installers
    PROVE  Started(p) \in Record /\ Done(p) \in Record
<1>1. mem[p] \in Record /\ current[p] \in Effects
  BY DEF TypeOK
<1>2. \A v \in EffectStates : [mem[p].effects EXCEPT ![current[p]] = v] \in [Effects -> EffectStates]
  BY <1>1 DEF Record
<1> QED
  BY <1>1, <1>2 DEF Record, Started, Done, EffectStates

\* Where the threads go.
LEMMA WorkerTyped ==
    ASSUME TypeOK, NEW p \in Installers, NEW pc \in WorkerStates, Goto(p, pc)
    PROVE  worker' \in [Installers -> WorkerStates]
  BY DEF TypeOK, Goto

LEMMA MainTyped ==
    ASSUME TypeOK, NEW p \in Installers, NEW pc \in MainStates, MainGoes(p, pc)
    PROVE  main' \in [Installers -> MainStates]
  BY DEF TypeOK, MainGoes

LEMMA RaiseTyped ==
    ASSUME TypeOK, NEW p \in Installers, NEW pc \in WorkerStates, Raise(p, pc)
    PROVE  worker' \in [Installers -> WorkerStates] /\ lock' \subseteq Installers
  BY WorkerTyped DEF TypeOK, Raise

LEMMA NextEffectTyped ==
    ASSUME TypeOK, NEW p \in Installers, NextEffect(p)
    PROVE  /\ worker' \in [Installers -> WorkerStates]
           /\ current' \in [Installers -> Effects]
  BY NumEffectsAssumption DEF TypeOK, NextEffect, Goto, WorkerStates, Effects

LEMMA SpentTyped ==
    ASSUME TypeOK, NEW w \in {"cancels", "crashes", "saveFailures", "reboots"}, Spend(w)
    PROVE  spent' \in [cancels : Nat, crashes : Nat, saveFailures : Nat, reboots : Nat]
  BY DEF TypeOK, Spend

\* What a write leaves on the device.
LEMMA OutcomeTyped ==
    ASSUME TypeOK, NEW p \in Installers
    PROVE  /\ [device EXCEPT !.outcome[current[p]] = "written"] \in Device
           /\ [device EXCEPT !.begun[current[p]] = IF @ = 0 THEN 1 ELSE 2,
                             !.outcome[current[p]] = "torn"] \in Device
<1>1. device \in Device /\ current[p] \in Effects
  BY DEF TypeOK
<1>2. \A v \in {"torn", "written"} : [device.outcome EXCEPT ![current[p]] = v]
                                        \in [Effects -> {"untouched", "torn", "written"}]
  BY <1>1 DEF Device
<1>3. \A v \in 0..2 : [device.begun EXCEPT ![current[p]] = v] \in [Effects -> 0..2]
  BY <1>1 DEF Device
<1>4. [device EXCEPT !.outcome[current[p]] = "written"] \in Device
  BY <1>1, <1>2 DEF Device
<1>5. \A v \in 0..2 : [device EXCEPT !.begun[current[p]] = v, !.outcome[current[p]] = "torn"] \in Device
  BY <1>1, <1>2, <1>3 DEF Device
<1>6. [device EXCEPT !.begun[current[p]] = IF @ = 0 THEN 1 ELSE 2,
                     !.outcome[current[p]] = "torn"] \in Device
  <2>1. CASE device.begun[current[p]] = 0
    BY <2>1, <1>5
  <2>2. CASE device.begun[current[p]] # 0
    BY <2>2, <1>5
  <2> QED
    BY <2>1, <2>2
<1> QED
  BY <1>4, <1>6
\* Steps of the main thread and of its environment.
LEMMA MainStepTyped ==
    ASSUME TypeOK, NEW p \in Installers, User(p) \/ MainSaves(p) \/ Joined(p) \/ Crash(p)
    PROVE  TypeOK'
<1>1. CASE Load(p)
  BY <1>1, MainTyped DEF TypeOK, Load, MainStates
<1>2. CASE Reject(p)
  BY <1>2, MainTyped DEF TypeOK, Reject, MainStates
<1>3. CASE Launch(p)
  BY <1>3, MainTyped, WorkerTyped DEF TypeOK, Launch, MainStates, WorkerStates, Record
<1>4. CASE Cancel(p)
  BY <1>4, MainTyped, SpentTyped DEF TypeOK, Cancel, MainStates, Record
<1>5. CASE SerialiseJournal(p)
  BY <1>5, MainTyped DEF TypeOK, SerialiseJournal, MainStates
<1>6. CASE SerialiseFlags(p)
  <2>1. mem[p] \in Record /\ snapshot[p] \in Record
    BY DEF TypeOK
  <2>2. [snapshot[p] EXCEPT !.unsafe = mem[p].unsafe, !.cancel = mem[p].cancel,
                            !.bootId = mem[p].bootId] \in Record
    BY <2>1 DEF Record
  <2>3. snapshot' = [snapshot EXCEPT ![p] =
             [snapshot[p] EXCEPT !.unsafe = mem[p].unsafe, !.cancel = mem[p].cancel,
                                 !.bootId = mem[p].bootId]]
    BY <1>6 DEF SerialiseFlags, TypeOK
  <2> QED
    BY <1>6, <2>2, <2>3, MainTyped DEF TypeOK, SerialiseFlags, MainStates
<1>7. CASE SerialiseFails(p)
  BY <1>7, MainTyped DEF TypeOK, SerialiseFails, MainStates
<1>8. CASE ReplaceJournal(p)
  BY <1>8, MainTyped DEF TypeOK, ReplaceJournal, MainStates
<1>9. CASE Close(p)
  BY <1>9, MainTyped DEF TypeOK, Close, MainStates
<1>10. CASE Joined(p)
  BY <1>10, MainTyped DEF TypeOK, Joined, MainStates
<1>11. CASE Open(p)
  BY <1>11, MainTyped DEF TypeOK, Open, MainStates
<1>12. CASE Crash(p)
  BY <1>12, MainTyped, WorkerTyped, SpentTyped, OutcomeTyped DEF TypeOK, Crash, MainStates, WorkerStates
<1> QED
  BY <1>1, <1>2, <1>3, <1>4, <1>5, <1>6, <1>7, <1>8, <1>9, <1>10, <1>11, <1>12 DEF User, MainSaves

\* Steps of a worker up to its first write.
LEMMA DecidesTyped ==
    ASSUME TypeOK, NEW p \in Installers, Decides(p)
    PROVE  TypeOK'
<1>1. CASE Lock(p)
  BY <1>1, WorkerTyped DEF TypeOK, Lock, WorkerStates
<1>2. CASE LockBusy(p)
  BY <1>2, WorkerTyped DEF TypeOK, LockBusy, WorkerStates
<1>3. CASE ResumeWait(p)
  BY <1>3, StageTyped, WorkerTyped DEF TypeOK, ResumeWait, WorkerStates, Stages, Statuses
<1>4. CASE PlanChanged(p)
  BY <1>4, RaiseTyped DEF TypeOK, PlanChanged, WorkerStates
<1>5. CASE Prepare(p)
  BY <1>5, StageTyped, WorkerTyped DEF TypeOK, Prepare, WorkerStates, Stages, Statuses
<1>6. CASE RefuseReplay(p)
  BY <1>6, RaiseTyped DEF TypeOK, RefuseReplay, WorkerStates
<1>7. CASE Backup(p)
  BY <1>7, SaveTyped DEF TypeOK, Backup, Record, Device
<1>8. CASE CancelBackup(p)
  BY <1>8, RaiseTyped DEF TypeOK, CancelBackup, WorkerStates
<1>9. CASE EnterInstall(p)
  BY <1>9, WorkerTyped, NumEffectsAssumption DEF TypeOK, EnterInstall, WorkerStates, Effects
<1>10. CASE EnterUpdate(p)
  <2>1. [mem[p] EXCEPT !.bootId = device.boot] \in Record
    <3>1. device.boot \in Int
      BY DEF TypeOK, Device
    <3>2. mem[p] \in Record
      BY DEF TypeOK
    <3> QED
      BY <3>1, <3>2 DEF Record
  <2>2. 1 \in Effects
    BY NumEffectsAssumption DEF Effects
  <2> QED
    BY <1>10, <2>1, <2>2, SaveTyped, WorkerTyped DEF TypeOK, EnterUpdate, WorkerStates
<1>11. CASE PreflightFails(p)
  BY <1>11, RaiseTyped DEF TypeOK, PreflightFails, WorkerStates
<1> QED
  BY <1>1, <1>2, <1>3, <1>4, <1>5, <1>6, <1>7, <1>8, <1>9, <1>10, <1>11 DEF Decides

\* Steps of a worker around a write.
LEMMA WritesTyped ==
    ASSUME TypeOK, NEW p \in Installers, Writes(p)
    PROVE  TypeOK'
<1>1. CASE SkipDone(p)
  BY <1>1, NextEffectTyped DEF TypeOK, SkipDone
<1>2. CASE RecoveryRequired(p)
  BY <1>2, RaiseTyped DEF TypeOK, RecoveryRequired, WorkerStates
<1>3. CASE CancelEffect(p)
  BY <1>3, RaiseTyped DEF TypeOK, CancelEffect, WorkerStates
<1>4. CASE EnterEffect(p)
  BY <1>4, WorkerTyped DEF TypeOK, EnterEffect, WorkerStates
<1>5. CASE JournalStart(p)
  BY <1>5, SaveTyped, MarksTyped, WorkerTyped DEF TypeOK, JournalStart, WorkerStates
<1>6. CASE JournalStartFails(p)
  BY <1>6, MarksTyped, SpentTyped, RaiseTyped DEF TypeOK, JournalStartFails, WorkerStates
<1>7. CASE OperationFails(p)
  BY <1>7, RaiseTyped DEF TypeOK, OperationFails, WorkerStates
<1>8. CASE BeginWrite(p)
  BY <1>8, OutcomeTyped, WorkerTyped DEF TypeOK, BeginWrite, WorkerStates
<1>9. CASE WriteDone(p)
  BY <1>9, OutcomeTyped, WorkerTyped DEF TypeOK, WriteDone, WorkerStates
<1>10. CASE WriteFails(p)
  BY <1>10, OutcomeTyped, RaiseTyped DEF TypeOK, WriteFails, WorkerStates
<1>11. CASE JournalDone(p)
  BY <1>11, SaveTyped, MarksTyped, WorkerTyped DEF TypeOK, JournalDone, WorkerStates
<1>12. CASE JournalDoneFails(p)
  BY <1>12, MarksTyped, SpentTyped, RaiseTyped DEF TypeOK, JournalDoneFails, WorkerStates
<1>13. CASE Boundary(p)
  BY <1>13, NextEffectTyped DEF TypeOK, Boundary
<1>14. CASE CancelBoundary(p)
  BY <1>14, RaiseTyped DEF TypeOK, CancelBoundary, WorkerStates
<1> QED
  BY <1>1, <1>2, <1>3, <1>4, <1>5, <1>6, <1>7, <1>8, <1>9, <1>10, <1>11, <1>12, <1>13, <1>14 DEF Writes

\* Steps of a worker that waits for the installed system.
LEMMA WaitsTyped ==
    ASSUME TypeOK, NEW p \in Installers, Waits(p)
    PROVE  TypeOK'
<1>1. CASE AwaitBoot(p)
  BY <1>1, StageTyped, WorkerTyped DEF TypeOK, AwaitBoot, WorkerStates, Stages, Statuses
<1>2. CASE Poll(p)
  BY <1>2, WorkerTyped DEF TypeOK, Poll, WorkerStates
<1>3. CASE CancelPoll(p)
  BY <1>3, RaiseTyped DEF TypeOK, CancelPoll, WorkerStates
<1>4. CASE Unreachable(p)
  BY <1>4, StageTyped, WorkerTyped DEF TypeOK, Unreachable, WorkerStates, Stages, Statuses
<1>5. CASE Answered(p)
  BY <1>5, StageTyped, WorkerTyped DEF TypeOK, Answered, WorkerStates, Stages, Statuses
<1>6. CASE PollFails(p)
  BY <1>6, RaiseTyped DEF TypeOK, PollFails, WorkerStates
<1>7. CASE ConnectionLost(p)
  BY <1>7, StageTyped, WorkerTyped DEF TypeOK, ConnectionLost, WorkerStates, Stages, Statuses
<1>8. CASE CapacityMismatch(p)
  BY <1>8, RaiseTyped DEF TypeOK, CapacityMismatch, WorkerStates
<1>9. CASE Complete(p)
  BY <1>9, StageTyped, RaiseTyped DEF TypeOK, Complete, WorkerStates, Stages, Statuses
<1> QED
  BY <1>1, <1>2, <1>3, <1>4, <1>5, <1>6, <1>7, <1>8, <1>9 DEF Waits

\* The exception handlers of a worker.
LEMMA ReportsTyped ==
    ASSUME TypeOK, NEW p \in Installers, Reports(p)
    PROVE  TypeOK'
<1>1. CASE ReportFailure(p)
  <2>1. mem[p].stage \in Stages
    BY DEF TypeOK, Record
  <2> QED
    BY <1>1, <2>1, StageTyped, WorkerTyped DEF TypeOK, ReportFailure, WorkerStates, Statuses
<1>2. CASE ReportCancel(p)
  <2>1. mem[p].stage \in Stages
    BY DEF TypeOK, Record
  <2> QED
    BY <1>2, <2>1, StageTyped, WorkerTyped DEF TypeOK, ReportCancel, WorkerStates, Statuses
<1>3. CASE ReportLost(p)
  BY <1>3, WorkerTyped, SpentTyped DEF TypeOK, ReportLost, WorkerStates
<1> QED
  BY <1>1, <1>2, <1>3 DEF Reports

LEMMA RebootTyped == TypeOK /\ DeviceReboots => TypeOK'
<1> SUFFICES ASSUME TypeOK, DeviceReboots PROVE TypeOK'
  OBVIOUS
<1> DEFINE Booted(os) == [device EXCEPT !.os = os, !.boot = @ + 1]
<1>1. \A os \in {"old", "new"} : Booted(os) \in Device
  <2>1. device \in Device /\ device.boot + 1 \in Nat
    BY DEF TypeOK, Device
  <2> QED
    BY <2>1 DEF Device
<1>2. device.os \in {"old", "new"}
  BY DEF TypeOK, Device
<1>3. \E os \in {"old", "new"} : device' = Booted(os)
  BY <1>2 DEF DeviceReboots
<1>4. device' \in Device
  BY <1>1, <1>3
<1> QED
  BY <1>4, SpentTyped DEF TypeOK, DeviceReboots

LEMMA InitTyped == Init => TypeOK
<1> SUFFICES ASSUME Init PROVE TypeOK
  OBVIOUS
<1>1. Planned \in Record
  BY DEF Planned, Record, Statuses, Stages, EffectStates
<1>2. device \in Device
  BY DEF Init, Device
<1> QED
  BY <1>1, <1>2, NumEffectsAssumption DEF Init, TypeOK, MainStates, WorkerStates, Effects

LEMMA StepTyped == TypeOK /\ [Next]_vars => TypeOK'
<1> SUFFICES ASSUME TypeOK, [Next]_vars PROVE TypeOK'
  OBVIOUS
<1>1. CASE DeviceReboots
  BY <1>1, RebootTyped
<1>2. CASE UNCHANGED vars
  BY <1>2 DEF TypeOK, vars
<1>3. ASSUME NEW p \in Installers, User(p) \/ MainSaves(p) \/ Joined(p) \/ Crash(p) \/ Worker(p)
      PROVE  TypeOK'
  BY <1>3, MainStepTyped, DecidesTyped, WritesTyped, WaitsTyped, ReportsTyped DEF Worker
<1> QED
  BY <1>1, <1>2, <1>3 DEF Next

\* Every reachable state is typed, whatever the number of installers and writes.
THEOREM TypeCorrect == Spec => []TypeOK
<1> QED
  BY InitTyped, StepTyped, PTL DEF Spec

-----------------------------------------------------------------------------
(* The device lock *)

\* Exactly the workers inside the ExitStack hold the lock, one at a time.
Locked == \A p \in Installers : /\ worker[p] \in LockHolders <=> p \in lock
                                /\ p \in lock => lock = {p}

\* A package is inspected only while no worker runs.
Inspecting == \A p \in Installers : main[p] = "inspecting" => worker[p] = "none"

\* The main thread and its environment respect the lock.
LEMMA LockedMain ==
    ASSUME TypeOK, Locked, Inspecting, NEW p \in Installers, User(p) \/ MainSaves(p) \/ Joined(p) \/ Crash(p)
    PROVE  Locked' /\ Inspecting'
<1>1. CASE Load(p)
  BY <1>1 DEF Load, TypeOK, Locked, Inspecting, LockHolders, WorkerStates, Goto, MainGoes, Raise, NextEffect
<1>2. CASE Reject(p)
  BY <1>2 DEF Reject, TypeOK, Locked, Inspecting, LockHolders, WorkerStates, Goto, MainGoes, Raise, NextEffect
<1>3. CASE Launch(p)
  BY <1>3 DEF Launch, TypeOK, Locked, Inspecting, LockHolders, WorkerStates, Goto, MainGoes, Raise, NextEffect
<1>4. CASE Cancel(p)
  BY <1>4 DEF Cancel, TypeOK, Locked, Inspecting, LockHolders, WorkerStates, Goto, MainGoes, Raise, NextEffect
<1>5. CASE SerialiseJournal(p)
  BY <1>5 DEF SerialiseJournal, TypeOK, Locked, Inspecting, LockHolders, WorkerStates, Goto, MainGoes, Raise, NextEffect
<1>6. CASE SerialiseFlags(p)
  BY <1>6 DEF SerialiseFlags, TypeOK, Locked, Inspecting, LockHolders, WorkerStates, Goto, MainGoes, Raise, NextEffect
<1>7. CASE SerialiseFails(p)
  BY <1>7 DEF SerialiseFails, TypeOK, Locked, Inspecting, LockHolders, WorkerStates, Goto, MainGoes, Raise, NextEffect
<1>8. CASE ReplaceJournal(p)
  BY <1>8 DEF ReplaceJournal, TypeOK, Locked, Inspecting, LockHolders, WorkerStates, Goto, MainGoes, Raise, NextEffect
<1>9. CASE Close(p)
  BY <1>9 DEF Close, TypeOK, Locked, Inspecting, LockHolders, WorkerStates, Goto, MainGoes, Raise, NextEffect
<1>10. CASE Joined(p)
  BY <1>10 DEF Joined, TypeOK, Locked, Inspecting, LockHolders, WorkerStates, Goto, MainGoes, Raise, NextEffect
<1>11. CASE Open(p)
  BY <1>11 DEF Open, TypeOK, Locked, Inspecting, LockHolders, WorkerStates, Goto, MainGoes, Raise, NextEffect
<1>12. CASE Crash(p)
  BY <1>12 DEF Crash, TypeOK, Locked, Inspecting, LockHolders, WorkerStates, Goto, MainGoes, Raise, NextEffect
<1> QED
  BY <1>1, <1>2, <1>3, <1>4, <1>5, <1>6, <1>7, <1>8, <1>9, <1>10, <1>11, <1>12 DEF User, MainSaves

\* A worker takes the lock only when it is free and leaves it with every exception.
LEMMA LockedWorker ==
    ASSUME TypeOK, Locked, Inspecting, NEW p \in Installers, Worker(p)
    PROVE  Locked' /\ Inspecting'
<1>1. CASE Lock(p)
  BY <1>1 DEF Lock, TypeOK, Locked, Inspecting, LockHolders, WorkerStates, Goto, MainGoes, Raise, NextEffect
<1>2. CASE LockBusy(p)
  BY <1>2 DEF LockBusy, TypeOK, Locked, Inspecting, LockHolders, WorkerStates, Goto, MainGoes, Raise, NextEffect
<1>3. CASE ResumeWait(p)
  BY <1>3 DEF ResumeWait, TypeOK, Locked, Inspecting, LockHolders, WorkerStates, Goto, MainGoes, Raise, NextEffect
<1>4. CASE PlanChanged(p)
  BY <1>4 DEF PlanChanged, TypeOK, Locked, Inspecting, LockHolders, WorkerStates, Goto, MainGoes, Raise, NextEffect
<1>5. CASE Prepare(p)
  BY <1>5 DEF Prepare, TypeOK, Locked, Inspecting, LockHolders, WorkerStates, Goto, MainGoes, Raise, NextEffect
<1>6. CASE RefuseReplay(p)
  BY <1>6 DEF RefuseReplay, TypeOK, Locked, Inspecting, LockHolders, WorkerStates, Goto, MainGoes, Raise, NextEffect
<1>7. CASE Backup(p)
  BY <1>7 DEF Backup, TypeOK, Locked, Inspecting, LockHolders, WorkerStates, Goto, MainGoes, Raise, NextEffect
<1>8. CASE CancelBackup(p)
  BY <1>8 DEF CancelBackup, TypeOK, Locked, Inspecting, LockHolders, WorkerStates, Goto, MainGoes, Raise, NextEffect
<1>9. CASE EnterInstall(p)
  BY <1>9 DEF EnterInstall, TypeOK, Locked, Inspecting, LockHolders, WorkerStates, Goto, MainGoes, Raise, NextEffect
<1>10. CASE EnterUpdate(p)
  BY <1>10 DEF EnterUpdate, TypeOK, Locked, Inspecting, LockHolders, WorkerStates, Goto, MainGoes, Raise, NextEffect
<1>11. CASE PreflightFails(p)
  BY <1>11 DEF PreflightFails, TypeOK, Locked, Inspecting, LockHolders, WorkerStates, Goto, MainGoes, Raise, NextEffect
<1>12. CASE SkipDone(p)
  BY <1>12 DEF SkipDone, TypeOK, Locked, Inspecting, LockHolders, WorkerStates, Goto, MainGoes, Raise, NextEffect
<1>13. CASE RecoveryRequired(p)
  BY <1>13 DEF RecoveryRequired, TypeOK, Locked, Inspecting, LockHolders, WorkerStates, Goto, MainGoes, Raise, NextEffect
<1>14. CASE CancelEffect(p)
  BY <1>14 DEF CancelEffect, TypeOK, Locked, Inspecting, LockHolders, WorkerStates, Goto, MainGoes, Raise, NextEffect
<1>15. CASE EnterEffect(p)
  BY <1>15 DEF EnterEffect, TypeOK, Locked, Inspecting, LockHolders, WorkerStates, Goto, MainGoes, Raise, NextEffect
<1>16. CASE JournalStart(p)
  BY <1>16 DEF JournalStart, TypeOK, Locked, Inspecting, LockHolders, WorkerStates, Goto, MainGoes, Raise, NextEffect
<1>17. CASE JournalStartFails(p)
  BY <1>17 DEF JournalStartFails, TypeOK, Locked, Inspecting, LockHolders, WorkerStates, Goto, MainGoes, Raise, NextEffect
<1>18. CASE OperationFails(p)
  BY <1>18 DEF OperationFails, TypeOK, Locked, Inspecting, LockHolders, WorkerStates, Goto, MainGoes, Raise, NextEffect
<1>19. CASE BeginWrite(p)
  BY <1>19 DEF BeginWrite, TypeOK, Locked, Inspecting, LockHolders, WorkerStates, Goto, MainGoes, Raise, NextEffect
<1>20. CASE WriteDone(p)
  BY <1>20 DEF WriteDone, TypeOK, Locked, Inspecting, LockHolders, WorkerStates, Goto, MainGoes, Raise, NextEffect
<1>21. CASE WriteFails(p)
  BY <1>21 DEF WriteFails, TypeOK, Locked, Inspecting, LockHolders, WorkerStates, Goto, MainGoes, Raise, NextEffect
<1>22. CASE JournalDone(p)
  BY <1>22 DEF JournalDone, TypeOK, Locked, Inspecting, LockHolders, WorkerStates, Goto, MainGoes, Raise, NextEffect
<1>23. CASE JournalDoneFails(p)
  BY <1>23 DEF JournalDoneFails, TypeOK, Locked, Inspecting, LockHolders, WorkerStates, Goto, MainGoes, Raise, NextEffect
<1>24. CASE Boundary(p)
  BY <1>24 DEF Boundary, TypeOK, Locked, Inspecting, LockHolders, WorkerStates, Goto, MainGoes, Raise, NextEffect
<1>25. CASE CancelBoundary(p)
  BY <1>25 DEF CancelBoundary, TypeOK, Locked, Inspecting, LockHolders, WorkerStates, Goto, MainGoes, Raise, NextEffect
<1>26. CASE AwaitBoot(p)
  BY <1>26 DEF AwaitBoot, TypeOK, Locked, Inspecting, LockHolders, WorkerStates, Goto, MainGoes, Raise, NextEffect
<1>27. CASE Poll(p)
  BY <1>27 DEF Poll, TypeOK, Locked, Inspecting, LockHolders, WorkerStates, Goto, MainGoes, Raise, NextEffect
<1>28. CASE CancelPoll(p)
  BY <1>28 DEF CancelPoll, TypeOK, Locked, Inspecting, LockHolders, WorkerStates, Goto, MainGoes, Raise, NextEffect
<1>29. CASE Unreachable(p)
  BY <1>29 DEF Unreachable, TypeOK, Locked, Inspecting, LockHolders, WorkerStates, Goto, MainGoes, Raise, NextEffect
<1>30. CASE Answered(p)
  BY <1>30 DEF Answered, TypeOK, Locked, Inspecting, LockHolders, WorkerStates, Goto, MainGoes, Raise, NextEffect
<1>31. CASE PollFails(p)
  BY <1>31 DEF PollFails, TypeOK, Locked, Inspecting, LockHolders, WorkerStates, Goto, MainGoes, Raise, NextEffect
<1>32. CASE ConnectionLost(p)
  BY <1>32 DEF ConnectionLost, TypeOK, Locked, Inspecting, LockHolders, WorkerStates, Goto, MainGoes, Raise, NextEffect
<1>33. CASE CapacityMismatch(p)
  BY <1>33 DEF CapacityMismatch, TypeOK, Locked, Inspecting, LockHolders, WorkerStates, Goto, MainGoes, Raise, NextEffect
<1>34. CASE Complete(p)
  BY <1>34 DEF Complete, TypeOK, Locked, Inspecting, LockHolders, WorkerStates, Goto, MainGoes, Raise, NextEffect
<1>35. CASE ReportFailure(p)
  BY <1>35 DEF ReportFailure, TypeOK, Locked, Inspecting, LockHolders, WorkerStates, Goto, MainGoes, Raise, NextEffect
<1>36. CASE ReportCancel(p)
  BY <1>36 DEF ReportCancel, TypeOK, Locked, Inspecting, LockHolders, WorkerStates, Goto, MainGoes, Raise, NextEffect
<1>37. CASE ReportLost(p)
  BY <1>37 DEF ReportLost, TypeOK, Locked, Inspecting, LockHolders, WorkerStates, Goto, MainGoes, Raise, NextEffect
<1> QED
  BY <1>1, <1>2, <1>3, <1>4, <1>5, <1>6, <1>7, <1>8, <1>9, <1>10, <1>11, <1>12, <1>13, <1>14, <1>15, <1>16, <1>17, <1>18, <1>19, <1>20, <1>21, <1>22, <1>23, <1>24, <1>25, <1>26, <1>27, <1>28, <1>29, <1>30, <1>31, <1>32, <1>33, <1>34, <1>35, <1>36, <1>37 DEF Worker, Decides, Writes, Waits, Reports

-----------------------------------------------------------------------------
(* The journal *)

\* A write is journaled only after the backup was.
Kept(r) == Sound(r) /\ (kind # "update" /\ WriteJournaled(r) => r.backup)

InEntryPoint == {"executing", "effect", "journaling", "begin", "write", "commit", "boundary"}

\* What a worker knows of its record where it stands.
At(p) ==
    /\ worker[p] \in InEntryPoint =>
           mem[p].status = "running" /\ mem[p].stage = "prepare"
    /\ worker[p] \in InEntryPoint \ {"executing"} =>
           /\ kind # "update" => mem[p].backup
           /\ \A d \in Effects : d < current[p] => mem[p].effects[d] = "done"
    /\ worker[p] = "journaling" => mem[p].effects[current[p]] = "none"
    /\ worker[p] \in {"begin", "write", "commit"} =>
           mem[p].effects[current[p]] = "started" /\ mem[p].unsafe
    /\ worker[p] = "boundary" => mem[p].effects[current[p]] = "done"
    /\ worker[p] \in {"boundary", "cancelling"} =>
           \A e \in Effects : mem[p].effects[e] # "started"
    /\ worker[p] \in {"installed", "polling", "connecting", "verify"} => Committed(mem[p])

ShapeInv ==
    /\ TypeOK /\ Inspecting
    /\ Kept(disk)
    /\ \A p \in Installers : Kept(mem[p]) /\ Kept(snapshot[p]) /\ At(p)

\* Soundness reads four fields of a record and no other.
LEMMA KeptSame ==
    ASSUME NEW r, NEW s, Kept(r), s.status = r.status, s.stage = r.stage,
           s.backup = r.backup, s.effects = r.effects
    PROVE  Kept(s)
  BY DEF Kept, Sound, Ordered, Committed, WriteJournaled

\* A stage may be saved when its claim about the commit holds.
LEMMA KeptStage ==
    ASSUME NEW r \in Record, Kept(r), NEW stage \in Stages, NEW status \in Statuses,
           stage \in {"openwrt_boot", "verify_capacity", "complete"} => Committed(r),
           status = "completed" => Committed(r),
           status = "cancelled" => \A e \in Effects : r.effects[e] # "started"
    PROVE  Kept([r EXCEPT !.stage = stage, !.status = status])
  BY DEF Kept, Sound, Ordered, Committed, WriteJournaled, Record

\* Finished writes precede the first one that was not: nothing is started after it.
LEMMA NoneAfter ==
    ASSUME NEW r \in Record, Ordered(r), NEW c \in Effects, r.effects[c] # "done",
           NEW e \in Effects, e > c
    PROVE  r.effects[e] = "none"
  BY DEF Ordered, Effects

\* A committed record has every write done.
LEMMA CommittedAll ==
    ASSUME NEW r \in Record, Ordered(r), Committed(r), NEW e \in Effects
    PROVE  r.effects[e] = "done"
  BY NumEffectsAssumption DEF Ordered, Committed, Effects

\* Marking the next write keeps the record sound.
LEMMA KeptStarted ==
    ASSUME TypeOK, NEW p \in Installers, Kept(mem[p]), At(p), worker[p] = "journaling"
    PROVE  /\ Kept(Started(p))
           /\ Started(p).effects[current[p]] = "started" /\ Started(p).unsafe
           /\ \A e \in Effects : e # current[p] => Started(p).effects[e] = mem[p].effects[e]
<1> DEFINE r == mem[p]
           c == current[p]
           s == Started(p)
<1>1. r \in Record /\ c \in Effects /\ s \in Record
  BY MarksTyped DEF TypeOK
<1>2. /\ s.status = r.status /\ s.stage = r.stage /\ s.backup = r.backup /\ s.unsafe
      /\ s.effects = [r.effects EXCEPT ![c] = "started"]
  BY <1>1 DEF Started, Record
<1>3. /\ s.effects[c] = "started"
      /\ \A e \in Effects : e # c => s.effects[e] = r.effects[e]
  BY <1>1, <1>2 DEF Record
<1>4. /\ r.status = "running" /\ r.stage = "prepare"
      /\ kind # "update" => r.backup
      /\ \A d \in Effects : d < c => r.effects[d] = "done"
      /\ r.effects[c] = "none"
  BY DEF At, InEntryPoint
<1>5. \A e \in Effects : e > c => r.effects[e] = "none"
  BY <1>1, <1>4, NoneAfter DEF Kept, Sound
<1>6. Ordered(s)
  BY <1>1, <1>3, <1>4, <1>5 DEF Ordered, Effects
<1>7. Kept(s)
  BY <1>2, <1>4, <1>6 DEF Kept, Sound
<1> QED
  BY <1>2, <1>3, <1>7

\* So does recording its result, after which no write is marked as started.
LEMMA KeptDone ==
    ASSUME TypeOK, NEW p \in Installers, Kept(mem[p]), At(p), worker[p] = "commit"
    PROVE  /\ Kept(Done(p))
           /\ Done(p).effects[current[p]] = "done"
           /\ \A e \in Effects : Done(p).effects[e] # "started"
           /\ \A e \in Effects : e # current[p] => Done(p).effects[e] = mem[p].effects[e]
<1> DEFINE r == mem[p]
           c == current[p]
           s == Done(p)
<1>1. r \in Record /\ c \in Effects /\ s \in Record
  BY MarksTyped DEF TypeOK
<1>2. /\ s.status = r.status /\ s.stage = r.stage /\ s.backup = r.backup
      /\ s.effects = [r.effects EXCEPT ![c] = "done"]
  BY <1>1 DEF Done, Record
<1>3. /\ s.effects[c] = "done"
      /\ \A e \in Effects : e # c => s.effects[e] = r.effects[e]
  BY <1>1, <1>2 DEF Record
<1>4. /\ r.status = "running" /\ r.stage = "prepare"
      /\ kind # "update" => r.backup
      /\ \A d \in Effects : d < c => r.effects[d] = "done"
      /\ r.effects[c] = "started"
  BY DEF At, InEntryPoint
<1>5. \A e \in Effects : e > c => r.effects[e] = "none"
  BY <1>1, <1>4, NoneAfter DEF Kept, Sound
<1>6. Ordered(s)
  BY <1>1, <1>3, <1>4, <1>5 DEF Ordered, Effects
<1>7. \A e \in Effects : s.effects[e] # "started"
  BY <1>1, <1>3, <1>4, <1>5 DEF Effects
<1>8. Kept(s)
  BY <1>2, <1>4, <1>6 DEF Kept, Sound
<1> QED
  BY <1>3, <1>7, <1>8

\* A step of one process leaves what the others hold alone.
OthersStay(p) ==
    /\ UNCHANGED kind
    /\ \A q \in Installers \ {p} : /\ worker'[q] = worker[q] /\ mem'[q] = mem[q]
                                   /\ current'[q] = current[q] /\ snapshot'[q] = snapshot[q]

\* So it preserves the journals' soundness when it does for its own copies.
LEMMA ShapeOwn ==
    ASSUME ShapeInv, TypeOK', Inspecting', NEW p \in Installers, OthersStay(p),
           Kept(disk)', Kept(mem[p])', Kept(snapshot[p])', At(p)'
    PROVE  ShapeInv'
<1>1. ASSUME NEW q \in Installers, q # p PROVE Kept(mem[q])' /\ Kept(snapshot[q])' /\ At(q)'
  <2>1. /\ worker'[q] = worker[q] /\ mem'[q] = mem[q] /\ current'[q] = current[q]
        /\ snapshot'[q] = snapshot[q] /\ kind' = kind
    BY <1>1 DEF OthersStay
  <2>2. Kept(mem[q]) /\ Kept(snapshot[q]) /\ At(q)
    BY DEF ShapeInv
  <2> QED
    BY <2>1, <2>2 DEF Kept, Sound, Ordered, Committed, WriteJournaled, At
<1> QED
  BY <1>1 DEF ShapeInv

\* A step that changes no record only has to be where it may be.
LEMMA ShapeQuiet ==
    ASSUME ShapeInv, TypeOK', Inspecting', NEW p \in Installers, OthersStay(p),
           UNCHANGED <<disk, mem, snapshot>>, At(p)'
    PROVE  ShapeInv'
<1>1. Kept(disk) /\ Kept(mem[p]) /\ Kept(snapshot[p])
  BY DEF ShapeInv
<1>2. Kept(disk)' /\ Kept(mem[p])' /\ Kept(snapshot[p])'
  BY <1>1 DEF OthersStay, Kept, Sound, Ordered, Committed, WriteJournaled
<1> QED
  BY <1>2, ShapeOwn

\* A step that replaces the worker's record has to keep the new one sound.
LEMMA ShapeSaved ==
    ASSUME ShapeInv, TypeOK', Inspecting', NEW p \in Installers, OthersStay(p),
           NEW r, mem'[p] = r, disk' \in {disk, r}, UNCHANGED snapshot, Kept(r), At(p)'
    PROVE  ShapeInv'
<1>1. Kept(disk) /\ Kept(snapshot[p])
  BY DEF ShapeInv
<1>2. Kept(disk)' /\ Kept(mem[p])' /\ Kept(snapshot[p])'
  BY <1>1 DEF OthersStay, Kept, Sound, Ordered, Committed, WriteJournaled
<1> QED
  BY <1>2, ShapeOwn

\* The main thread saves only what it read or what the worker keeps sound.
LEMMA ShapeMain ==
    ASSUME ShapeInv, TypeOK', Inspecting', NEW p \in Installers,
           User(p) \/ MainSaves(p) \/ Joined(p) \/ Crash(p)
    PROVE  ShapeInv'
<1>at. At(p) /\ Kept(mem[p]) /\ Kept(snapshot[p]) /\ Kept(disk) /\ Inspecting
  BY DEF ShapeInv
<1>t. /\ TypeOK /\ mem \in [Installers -> Record] /\ snapshot \in [Installers -> Record]
      /\ worker \in [Installers -> WorkerStates] /\ current \in [Installers -> Effects]
      /\ mem[p] \in Record /\ snapshot[p] \in Record /\ current[p] \in Effects
  BY DEF ShapeInv, TypeOK
<1>1. CASE Load(p)
  <2>1. OthersStay(p) /\ mem'[p] = disk /\ disk' = disk /\ UNCHANGED snapshot
    BY <1>1, <1>t DEF Load, OthersStay
  <2>2. At(p)'
    BY <1>1 DEF Load, At, InEntryPoint
  <2> QED
    BY <1>at, <2>1, <2>2, ShapeSaved
<1>2. CASE Reject(p)
  <2>1. OthersStay(p) /\ UNCHANGED <<disk, mem, snapshot>>
    BY <1>2 DEF Reject, OthersStay, TypeOK, MainGoes, NextEffect, Goto, Raise
  <2>2. At(p)'
    BY <1>2, <1>at, <1>t DEF Reject, At, InEntryPoint, MainGoes, NextEffect, Goto, Raise, Committed
  <2> QED
    BY <2>1, <2>2, ShapeQuiet
<1>3. CASE Launch(p)
  <2> DEFINE r == [mem[p] EXCEPT !.cancel = FALSE]
  <2>1. OthersStay(p) /\ mem'[p] = r /\ UNCHANGED <<snapshot, current>> /\ disk' \in {disk, mem[p]}
    BY <1>3, <1>t DEF Launch, OthersStay, Goto
  <2>2. /\ r.status = mem[p].status /\ r.stage = mem[p].stage /\ r.unsafe = mem[p].unsafe
        /\ r.backup = mem[p].backup /\ r.effects = mem[p].effects
    BY <1>t DEF Record
  <2>3. Kept(r)
    BY <1>at, <2>2, KeptSame
  <2>4. At(p)'
    BY <1>3, <1>at, <1>t, <2>1, <2>2 DEF Launch, At, InEntryPoint, Goto, Committed
  <2>5. Kept(disk)' /\ Kept(mem[p])' /\ Kept(snapshot[p])'
    BY <1>at, <2>1, <2>3 DEF OthersStay, Kept, Sound, Ordered, Committed, WriteJournaled
  <2> QED
    BY <2>1, <2>4, <2>5, ShapeOwn
<1>4. CASE Cancel(p)
  <2> DEFINE r == [mem[p] EXCEPT !.cancel = TRUE]
  <2>1. OthersStay(p) /\ mem'[p] = r /\ UNCHANGED <<snapshot, current>> /\ disk' \in {disk, mem[p]}
    BY <1>4, <1>t DEF Cancel, OthersStay, Goto
  <2>2. /\ r.status = mem[p].status /\ r.stage = mem[p].stage /\ r.unsafe = mem[p].unsafe
        /\ r.backup = mem[p].backup /\ r.effects = mem[p].effects
    BY <1>t DEF Record
  <2>3. Kept(r)
    BY <1>at, <2>2, KeptSame
  <2>4. At(p)'
    BY <1>4, <1>at, <1>t, <2>1, <2>2 DEF Cancel, At, InEntryPoint, Goto, Committed
  <2>5. Kept(disk)' /\ Kept(mem[p])' /\ Kept(snapshot[p])'
    BY <1>at, <2>1, <2>3 DEF OthersStay, Kept, Sound, Ordered, Committed, WriteJournaled
  <2> QED
    BY <2>1, <2>4, <2>5, ShapeOwn
<1>5. CASE SerialiseJournal(p)
  <2>1. OthersStay(p) /\ UNCHANGED <<disk, mem, worker, current>>
    BY <1>5, <1>t DEF SerialiseJournal, OthersStay
  <2>2. Kept(snapshot'[p])
    BY <1>5, <1>at, <1>t DEF SerialiseJournal
  <2>3. At(p)'
    BY <1>at, <2>1 DEF At, InEntryPoint, OthersStay, Committed
  <2>4. Kept(disk)' /\ Kept(mem[p])' /\ Kept(snapshot[p])'
    BY <1>at, <2>1, <2>2 DEF OthersStay, Kept, Sound, Ordered, Committed, WriteJournaled
  <2> QED
    BY <2>1, <2>3, <2>4, ShapeOwn
<1>6. CASE SerialiseFlags(p)
  <2>1. OthersStay(p) /\ UNCHANGED <<disk, mem, worker, current>>
    BY <1>6, <1>t DEF SerialiseFlags, OthersStay
  <2>2. Kept(snapshot'[p])
    <3>1. /\ snapshot'[p].status = snapshot[p].status /\ snapshot'[p].stage = snapshot[p].stage
          /\ snapshot'[p].backup = snapshot[p].backup /\ snapshot'[p].effects = snapshot[p].effects
      BY <1>6, <1>t DEF SerialiseFlags, Record
    <3> QED
      BY <1>at, <3>1, KeptSame
  <2>3. At(p)'
    BY <1>at, <2>1 DEF At, InEntryPoint, OthersStay, Committed
  <2>4. Kept(disk)' /\ Kept(mem[p])' /\ Kept(snapshot[p])'
    BY <1>at, <2>1, <2>2 DEF OthersStay, Kept, Sound, Ordered, Committed, WriteJournaled
  <2> QED
    BY <2>1, <2>3, <2>4, ShapeOwn
<1>7. CASE SerialiseFails(p)
  <2>1. OthersStay(p) /\ UNCHANGED <<disk, mem, snapshot>>
    BY <1>7 DEF SerialiseFails, OthersStay, TypeOK, MainGoes, NextEffect, Goto, Raise
  <2>2. At(p)'
    BY <1>7, <1>at, <1>t DEF SerialiseFails, At, InEntryPoint, MainGoes, NextEffect, Goto, Raise, Committed
  <2> QED
    BY <2>1, <2>2, ShapeQuiet
<1>8. CASE ReplaceJournal(p)
  <2>1. OthersStay(p) /\ disk' = snapshot[p] /\ UNCHANGED <<mem, snapshot, worker, current>>
    BY <1>8, <1>t DEF ReplaceJournal, OthersStay
  <2>2. At(p)'
    BY <1>at, <2>1 DEF At, InEntryPoint, OthersStay, Committed
  <2>3. Kept(disk)' /\ Kept(mem[p])' /\ Kept(snapshot[p])'
    BY <1>at, <2>1 DEF OthersStay, Kept, Sound, Ordered, Committed, WriteJournaled
  <2> QED
    BY <2>1, <2>2, <2>3, ShapeOwn
<1>9. CASE Close(p)
  <2>1. OthersStay(p) /\ UNCHANGED <<disk, mem, snapshot>>
    BY <1>9 DEF Close, OthersStay, TypeOK, MainGoes, NextEffect, Goto, Raise
  <2>2. At(p)'
    BY <1>9, <1>at, <1>t DEF Close, At, InEntryPoint, MainGoes, NextEffect, Goto, Raise, Committed
  <2> QED
    BY <2>1, <2>2, ShapeQuiet
<1>10. CASE Joined(p)
  <2>1. OthersStay(p) /\ UNCHANGED <<disk, mem, snapshot>>
    BY <1>10 DEF Joined, OthersStay, TypeOK, MainGoes, NextEffect, Goto, Raise
  <2>2. At(p)'
    BY <1>10, <1>at, <1>t DEF Joined, At, InEntryPoint, MainGoes, NextEffect, Goto, Raise, Committed
  <2> QED
    BY <2>1, <2>2, ShapeQuiet
<1>11. CASE Open(p)
  <2>1. OthersStay(p) /\ UNCHANGED <<disk, mem, snapshot>>
    BY <1>11 DEF Open, OthersStay, TypeOK, MainGoes, NextEffect, Goto, Raise
  <2>2. At(p)'
    BY <1>11, <1>at, <1>t DEF Open, At, InEntryPoint, MainGoes, NextEffect, Goto, Raise, Committed
  <2> QED
    BY <2>1, <2>2, ShapeQuiet
<1>12. CASE Crash(p)
  <2>1. OthersStay(p) /\ UNCHANGED <<disk, mem, snapshot>>
    BY <1>12 DEF Crash, OthersStay, TypeOK, MainGoes, NextEffect, Goto, Raise
  <2>2. At(p)'
    BY <1>12, <1>at, <1>t DEF Crash, At, InEntryPoint, MainGoes, NextEffect, Goto, Raise, Committed
  <2> QED
    BY <2>1, <2>2, ShapeQuiet
<1> QED
  BY <1>1, <1>2, <1>3, <1>4, <1>5, <1>6, <1>7, <1>8, <1>9, <1>10, <1>11, <1>12 DEF User, MainSaves

\* Up to its first write a worker keeps what it read.
LEMMA ShapeDecides ==
    ASSUME ShapeInv, TypeOK', Inspecting', NEW p \in Installers, Decides(p)
    PROVE  ShapeInv'
<1>at. At(p) /\ Kept(mem[p]) /\ Kept(snapshot[p]) /\ Kept(disk) /\ Inspecting
  BY DEF ShapeInv
<1>t. /\ TypeOK /\ mem \in [Installers -> Record] /\ snapshot \in [Installers -> Record]
      /\ worker \in [Installers -> WorkerStates] /\ current \in [Installers -> Effects]
      /\ mem[p] \in Record /\ snapshot[p] \in Record /\ current[p] \in Effects
  BY DEF ShapeInv, TypeOK
<1>1. CASE Lock(p)
  <2>1. OthersStay(p) /\ UNCHANGED <<disk, mem, snapshot>>
    BY <1>1 DEF Lock, OthersStay, TypeOK, MainGoes, NextEffect, Goto, Raise
  <2>2. At(p)'
    BY <1>1, <1>at, <1>t DEF Lock, At, InEntryPoint, MainGoes, NextEffect, Goto, Raise, Committed
  <2> QED
    BY <2>1, <2>2, ShapeQuiet
<1>2. CASE LockBusy(p)
  <2>1. OthersStay(p) /\ UNCHANGED <<disk, mem, snapshot>>
    BY <1>2 DEF LockBusy, OthersStay, TypeOK, MainGoes, NextEffect, Goto, Raise
  <2>2. At(p)'
    BY <1>2, <1>at, <1>t DEF LockBusy, At, InEntryPoint, MainGoes, NextEffect, Goto, Raise, Committed
  <2> QED
    BY <2>1, <2>2, ShapeQuiet
<1>3. CASE ResumeWait(p)
  <2> DEFINE r == [mem[p] EXCEPT !.stage = "openwrt_boot", !.status = "waiting"]
  <2>1. OthersStay(p) /\ mem'[p] = r /\ disk' = r /\ UNCHANGED <<snapshot, current>>
    BY <1>3, <1>t DEF ResumeWait, OthersStay, StageSaved, Save, Goto, Raise
  <2>2. /\ r.status = "waiting" /\ r.stage = "openwrt_boot" /\ r.unsafe = mem[p].unsafe
        /\ r.backup = mem[p].backup /\ r.effects = mem[p].effects
    BY <1>t DEF Record
  <2>3. Committed(mem[p])
    BY <1>3, <1>at DEF ResumeWait, OnlyWaits, Kept, Sound
  <2>4. Kept(r)
    BY <1>at, <1>t, <2>3, KeptStage DEF Stages, Statuses, Record, Kept, Sound
  <2>5. At(p)'
    BY <1>3, <1>at, <1>t, <2>1, <2>2, <2>3 DEF ResumeWait, At, InEntryPoint, Committed, Goto, Raise
  <2> QED
    BY <2>1, <2>4, <2>5, ShapeSaved
<1>4. CASE PlanChanged(p)
  <2>1. OthersStay(p) /\ UNCHANGED <<disk, mem, snapshot>>
    BY <1>4 DEF PlanChanged, OthersStay, TypeOK, MainGoes, NextEffect, Goto, Raise
  <2>2. At(p)'
    BY <1>4, <1>at, <1>t DEF PlanChanged, At, InEntryPoint, MainGoes, NextEffect, Goto, Raise, Committed
  <2> QED
    BY <2>1, <2>2, ShapeQuiet
<1>5. CASE Prepare(p)
  <2> DEFINE r == [mem[p] EXCEPT !.stage = "prepare", !.status = "running"]
  <2>1. OthersStay(p) /\ mem'[p] = r /\ disk' = r /\ UNCHANGED <<snapshot, current>>
    BY <1>5, <1>t DEF Prepare, OthersStay, StageSaved, Save, Goto, Raise
  <2>2. /\ r.status = "running" /\ r.stage = "prepare" /\ r.unsafe = mem[p].unsafe
        /\ r.backup = mem[p].backup /\ r.effects = mem[p].effects
    BY <1>t DEF Record
  <2>3. mem[p] \in Record
    BY <1>t
  <2>4. Kept(r)
    BY <1>at, <1>t, <2>3, KeptStage DEF Stages, Statuses, Record, Kept, Sound
  <2>5. At(p)'
    BY <1>5, <1>at, <1>t, <2>1, <2>2, <2>3 DEF Prepare, At, InEntryPoint, Committed, Goto, Raise
  <2> QED
    BY <2>1, <2>4, <2>5, ShapeSaved
<1>6. CASE RefuseReplay(p)
  <2>1. OthersStay(p) /\ UNCHANGED <<disk, mem, snapshot>>
    BY <1>6 DEF RefuseReplay, OthersStay, TypeOK, MainGoes, NextEffect, Goto, Raise
  <2>2. At(p)'
    BY <1>6, <1>at, <1>t DEF RefuseReplay, At, InEntryPoint, MainGoes, NextEffect, Goto, Raise, Committed
  <2> QED
    BY <2>1, <2>2, ShapeQuiet
<1>7. CASE Backup(p)
  <2> DEFINE r == [mem[p] EXCEPT !.backup = TRUE]
  <2>1. OthersStay(p) /\ mem'[p] = r /\ disk' = r /\ UNCHANGED snapshot
    BY <1>7, <1>t DEF Backup, OthersStay, Save, Goto
  <2>2. /\ r.status = mem[p].status /\ r.stage = mem[p].stage /\ r.unsafe = mem[p].unsafe
        /\ r.backup = TRUE /\ r.effects = mem[p].effects
    BY <1>t DEF Record
  <2>3. Kept(r)
    BY <1>at, <2>2 DEF Kept, Sound, Ordered, Committed, WriteJournaled
  <2>4. At(p)'
    BY <1>7, <1>at, <1>t, <2>1, <2>2 DEF Backup, At, InEntryPoint, Goto, Effects
  <2> QED
    BY <2>1, <2>3, <2>4, ShapeSaved
<1>8. CASE CancelBackup(p)
  <2>1. OthersStay(p) /\ UNCHANGED <<disk, mem, snapshot, current>> /\ worker'[p] = "cancelling"
    BY <1>8, <1>t DEF CancelBackup, OthersStay, Goto, Raise
  <2>2. \A e \in Effects : mem[p].effects[e] # "started"
    BY <1>8, <1>at DEF CancelBackup, Kept, WriteJournaled
  <2>3. At(p)'
    BY <2>1, <2>2 DEF At, InEntryPoint
  <2> QED
    BY <2>1, <2>3, ShapeQuiet
<1>9. CASE EnterInstall(p)
  <2>1. OthersStay(p) /\ UNCHANGED <<disk, mem, snapshot>>
    BY <1>9 DEF EnterInstall, OthersStay, TypeOK, MainGoes, NextEffect, Goto, Raise
  <2>2. At(p)'
    BY <1>9, <1>at, <1>t DEF EnterInstall, At, InEntryPoint, MainGoes, NextEffect, Goto, Raise, Effects, Committed
  <2> QED
    BY <2>1, <2>2, ShapeQuiet
<1>10. CASE EnterUpdate(p)
  <2> DEFINE r == [mem[p] EXCEPT !.bootId = device.boot]
  <2>1. OthersStay(p) /\ mem'[p] = r /\ disk' = r /\ UNCHANGED snapshot
    BY <1>10, <1>t DEF EnterUpdate, OthersStay, Save, Goto
  <2>2. /\ r.status = mem[p].status /\ r.stage = mem[p].stage /\ r.unsafe = mem[p].unsafe
        /\ r.backup = mem[p].backup /\ r.effects = mem[p].effects
    BY <1>t DEF Record
  <2>3. Kept(r)
    BY <1>at, <2>2 DEF Kept, Sound, Ordered, Committed, WriteJournaled
  <2>4. At(p)'
    BY <1>10, <1>at, <1>t, <2>1, <2>2 DEF EnterUpdate, At, InEntryPoint, Goto, Effects
  <2> QED
    BY <2>1, <2>3, <2>4, ShapeSaved
<1>11. CASE PreflightFails(p)
  <2>1. OthersStay(p) /\ UNCHANGED <<disk, mem, snapshot>>
    BY <1>11 DEF PreflightFails, OthersStay, TypeOK, MainGoes, NextEffect, Goto, Raise
  <2>2. At(p)'
    BY <1>11, <1>at, <1>t DEF PreflightFails, At, InEntryPoint, MainGoes, NextEffect, Goto, Raise, Committed
  <2> QED
    BY <2>1, <2>2, ShapeQuiet
<1> QED
  BY <1>1, <1>2, <1>3, <1>4, <1>5, <1>6, <1>7, <1>8, <1>9, <1>10, <1>11 DEF Decides

\* Around a write the journal moves by one mark.
LEMMA ShapeWrites ==
    ASSUME ShapeInv, TypeOK', Inspecting', NEW p \in Installers, Writes(p)
    PROVE  ShapeInv'
<1>at. At(p) /\ Kept(mem[p]) /\ Kept(snapshot[p]) /\ Kept(disk) /\ Inspecting
  BY DEF ShapeInv
<1>t. /\ TypeOK /\ mem \in [Installers -> Record] /\ snapshot \in [Installers -> Record]
      /\ worker \in [Installers -> WorkerStates] /\ current \in [Installers -> Effects]
      /\ mem[p] \in Record /\ snapshot[p] \in Record /\ current[p] \in Effects
  BY DEF ShapeInv, TypeOK
<1>1. CASE SkipDone(p)
  <2>1. OthersStay(p) /\ UNCHANGED <<disk, mem, snapshot>>
    BY <1>1, <1>t DEF SkipDone, OthersStay, NextEffect, Goto, Raise
  <2>2. mem[p].effects[current[p]] = "done" /\ worker[p] \in {"effect", "boundary"}
    BY <1>1, <1>at DEF SkipDone, At
  <2>3. At(p)'
    <3>1. CASE current[p] < NumEffects
      <4>1. worker'[p] = "effect" /\ current'[p] = current[p] + 1 /\ mem'[p] = mem[p]
        BY <1>1, <1>t, <3>1 DEF SkipDone, NextEffect, Goto, Raise
      <4>2. \A d \in Effects : d < current'[p] => mem[p].effects[d] = "done"
        BY <1>at, <1>t, <2>2, <4>1 DEF At, InEntryPoint, Effects
      <4> QED
        BY <1>at, <2>1, <2>2, <4>1, <4>2 DEF At, InEntryPoint, OthersStay
    <3>2. CASE ~(current[p] < NumEffects)
      <4>1. current[p] = NumEffects
        BY <1>t, <3>2, NumEffectsAssumption DEF Effects
      <4>2. worker'[p] = "installed" /\ mem'[p] = mem[p]
        BY <1>1, <1>t, <3>2 DEF SkipDone, NextEffect, Goto, Raise
      <4> QED
        BY <2>2, <4>1, <4>2 DEF At, InEntryPoint, Committed
    <3> QED
      BY <3>1, <3>2
  <2> QED
    BY <2>1, <2>3, ShapeQuiet
<1>2. CASE RecoveryRequired(p)
  <2>1. OthersStay(p) /\ UNCHANGED <<disk, mem, snapshot>>
    BY <1>2 DEF RecoveryRequired, OthersStay, TypeOK, MainGoes, NextEffect, Goto, Raise
  <2>2. At(p)'
    BY <1>2, <1>at, <1>t DEF RecoveryRequired, At, InEntryPoint, MainGoes, NextEffect, Goto, Raise, Committed
  <2> QED
    BY <2>1, <2>2, ShapeQuiet
<1>3. CASE CancelEffect(p)
  <2>1. OthersStay(p) /\ UNCHANGED <<disk, mem, snapshot, current>> /\ worker'[p] = "cancelling"
    BY <1>3, <1>t DEF CancelEffect, OthersStay, Goto, Raise
  <2>2. \A e \in Effects : mem[p].effects[e] # "started"
    <3>1. mem[p].effects[current[p]] = "none" /\ worker[p] = "effect"
      BY <1>3 DEF CancelEffect
    <3>2. \A e \in Effects : e > current[p] => mem[p].effects[e] = "none"
      BY <1>at, <1>t, <3>1, NoneAfter DEF Kept, Sound
    <3>3. \A e \in Effects : e < current[p] => mem[p].effects[e] = "done"
      BY <1>at, <3>1 DEF At, InEntryPoint
    <3> QED
      BY <1>t, <3>1, <3>2, <3>3 DEF Effects
  <2>3. At(p)'
    BY <2>1, <2>2 DEF At, InEntryPoint
  <2> QED
    BY <2>1, <2>3, ShapeQuiet
<1>4. CASE EnterEffect(p)
  <2>1. OthersStay(p) /\ UNCHANGED <<disk, mem, snapshot>>
    BY <1>4 DEF EnterEffect, OthersStay, TypeOK, MainGoes, NextEffect, Goto, Raise
  <2>2. At(p)'
    BY <1>4, <1>at, <1>t DEF EnterEffect, At, InEntryPoint, MainGoes, NextEffect, Goto, Raise, Committed
  <2> QED
    BY <2>1, <2>2, ShapeQuiet
<1>5. CASE JournalStart(p)
  <2>1. OthersStay(p) /\ mem'[p] = Started(p) /\ disk' \in {disk, Started(p)} /\ UNCHANGED <<snapshot, current>>
    BY <1>5, <1>t DEF JournalStart, OthersStay, Save, Goto, Raise
  <2>2. /\ Started(p).status = mem[p].status /\ Started(p).stage = mem[p].stage
        /\ Started(p).backup = mem[p].backup
    BY <1>t DEF Record, Started
  <2>3. At(p)'
    BY <1>5, <1>at, <1>t, <2>1, <2>2, KeptStarted DEF JournalStart, At, InEntryPoint, OthersStay, Effects, Goto, Raise
  <2> QED
    BY <1>5, <1>at, <1>t, <2>1, <2>3, KeptStarted, ShapeSaved DEF JournalStart
<1>6. CASE JournalStartFails(p)
  <2>1. OthersStay(p) /\ mem'[p] = Started(p) /\ disk' \in {disk, Started(p)} /\ UNCHANGED <<snapshot, current>>
    BY <1>6, <1>t DEF JournalStartFails, OthersStay, Save, Goto, Raise
  <2>2. /\ Started(p).status = mem[p].status /\ Started(p).stage = mem[p].stage
        /\ Started(p).backup = mem[p].backup
    BY <1>t DEF Record, Started
  <2>3. At(p)'
    BY <1>6, <1>at, <1>t, <2>1, <2>2, KeptStarted DEF JournalStartFails, At, InEntryPoint, OthersStay, Effects, Goto, Raise
  <2> QED
    BY <1>6, <1>at, <1>t, <2>1, <2>3, KeptStarted, ShapeSaved DEF JournalStartFails
<1>7. CASE OperationFails(p)
  <2>1. OthersStay(p) /\ UNCHANGED <<disk, mem, snapshot>>
    BY <1>7 DEF OperationFails, OthersStay, TypeOK, MainGoes, NextEffect, Goto, Raise
  <2>2. At(p)'
    BY <1>7, <1>at, <1>t DEF OperationFails, At, InEntryPoint, MainGoes, NextEffect, Goto, Raise, Committed
  <2> QED
    BY <2>1, <2>2, ShapeQuiet
<1>8. CASE BeginWrite(p)
  <2>1. OthersStay(p) /\ UNCHANGED <<disk, mem, snapshot>>
    BY <1>8 DEF BeginWrite, OthersStay, TypeOK, MainGoes, NextEffect, Goto, Raise
  <2>2. At(p)'
    BY <1>8, <1>at, <1>t DEF BeginWrite, At, InEntryPoint, MainGoes, NextEffect, Goto, Raise, Committed
  <2> QED
    BY <2>1, <2>2, ShapeQuiet
<1>9. CASE WriteDone(p)
  <2>1. OthersStay(p) /\ UNCHANGED <<disk, mem, snapshot>>
    BY <1>9 DEF WriteDone, OthersStay, TypeOK, MainGoes, NextEffect, Goto, Raise
  <2>2. At(p)'
    BY <1>9, <1>at, <1>t DEF WriteDone, At, InEntryPoint, MainGoes, NextEffect, Goto, Raise, Committed
  <2> QED
    BY <2>1, <2>2, ShapeQuiet
<1>10. CASE WriteFails(p)
  <2>1. OthersStay(p) /\ UNCHANGED <<disk, mem, snapshot>>
    BY <1>10 DEF WriteFails, OthersStay, TypeOK, MainGoes, NextEffect, Goto, Raise
  <2>2. At(p)'
    BY <1>10, <1>at, <1>t DEF WriteFails, At, InEntryPoint, MainGoes, NextEffect, Goto, Raise, Committed
  <2> QED
    BY <2>1, <2>2, ShapeQuiet
<1>11. CASE JournalDone(p)
  <2>1. OthersStay(p) /\ mem'[p] = Done(p) /\ disk' \in {disk, Done(p)} /\ UNCHANGED <<snapshot, current>>
    BY <1>11, <1>t DEF JournalDone, OthersStay, Save, Goto, Raise
  <2>2. /\ Done(p).status = mem[p].status /\ Done(p).stage = mem[p].stage
        /\ Done(p).backup = mem[p].backup
    BY <1>t DEF Record, Done
  <2>3. At(p)'
    BY <1>11, <1>at, <1>t, <2>1, <2>2, KeptDone DEF JournalDone, At, InEntryPoint, OthersStay, Effects, Goto, Raise
  <2> QED
    BY <1>11, <1>at, <1>t, <2>1, <2>3, KeptDone, ShapeSaved DEF JournalDone
<1>12. CASE JournalDoneFails(p)
  <2>1. OthersStay(p) /\ mem'[p] = Done(p) /\ disk' \in {disk, Done(p)} /\ UNCHANGED <<snapshot, current>>
    BY <1>12, <1>t DEF JournalDoneFails, OthersStay, Save, Goto, Raise
  <2>2. /\ Done(p).status = mem[p].status /\ Done(p).stage = mem[p].stage
        /\ Done(p).backup = mem[p].backup
    BY <1>t DEF Record, Done
  <2>3. At(p)'
    BY <1>12, <1>at, <1>t, <2>1, <2>2, KeptDone DEF JournalDoneFails, At, InEntryPoint, OthersStay, Effects, Goto, Raise
  <2> QED
    BY <1>12, <1>at, <1>t, <2>1, <2>3, KeptDone, ShapeSaved DEF JournalDoneFails
<1>13. CASE Boundary(p)
  <2>1. OthersStay(p) /\ UNCHANGED <<disk, mem, snapshot>>
    BY <1>13, <1>t DEF Boundary, OthersStay, NextEffect, Goto, Raise
  <2>2. mem[p].effects[current[p]] = "done" /\ worker[p] \in {"effect", "boundary"}
    BY <1>13, <1>at DEF Boundary, At
  <2>3. At(p)'
    <3>1. CASE current[p] < NumEffects
      <4>1. worker'[p] = "effect" /\ current'[p] = current[p] + 1 /\ mem'[p] = mem[p]
        BY <1>13, <1>t, <3>1 DEF Boundary, NextEffect, Goto, Raise
      <4>2. \A d \in Effects : d < current'[p] => mem[p].effects[d] = "done"
        BY <1>at, <1>t, <2>2, <4>1 DEF At, InEntryPoint, Effects
      <4> QED
        BY <1>at, <2>1, <2>2, <4>1, <4>2 DEF At, InEntryPoint, OthersStay
    <3>2. CASE ~(current[p] < NumEffects)
      <4>1. current[p] = NumEffects
        BY <1>t, <3>2, NumEffectsAssumption DEF Effects
      <4>2. worker'[p] = "installed" /\ mem'[p] = mem[p]
        BY <1>13, <1>t, <3>2 DEF Boundary, NextEffect, Goto, Raise
      <4> QED
        BY <2>2, <4>1, <4>2 DEF At, InEntryPoint, Committed
    <3> QED
      BY <3>1, <3>2
  <2> QED
    BY <2>1, <2>3, ShapeQuiet
<1>14. CASE CancelBoundary(p)
  <2>1. OthersStay(p) /\ UNCHANGED <<disk, mem, snapshot, current>> /\ worker'[p] = "cancelling"
    BY <1>14, <1>t DEF CancelBoundary, OthersStay, Goto, Raise
  <2>2. \A e \in Effects : mem[p].effects[e] # "started"
    BY <1>14, <1>at DEF CancelBoundary, At
  <2>3. At(p)'
    BY <2>1, <2>2 DEF At, InEntryPoint
  <2> QED
    BY <2>1, <2>3, ShapeQuiet
<1> QED
  BY <1>1, <1>2, <1>3, <1>4, <1>5, <1>6, <1>7, <1>8, <1>9, <1>10, <1>11, <1>12, <1>13, <1>14 DEF Writes

\* The wait is entered and left with the commit verified.
LEMMA ShapeWaits ==
    ASSUME ShapeInv, TypeOK', Inspecting', NEW p \in Installers, Waits(p)
    PROVE  ShapeInv'
<1>at. At(p) /\ Kept(mem[p]) /\ Kept(snapshot[p]) /\ Kept(disk) /\ Inspecting
  BY DEF ShapeInv
<1>t. /\ TypeOK /\ mem \in [Installers -> Record] /\ snapshot \in [Installers -> Record]
      /\ worker \in [Installers -> WorkerStates] /\ current \in [Installers -> Effects]
      /\ mem[p] \in Record /\ snapshot[p] \in Record /\ current[p] \in Effects
  BY DEF ShapeInv, TypeOK
<1>1. CASE AwaitBoot(p)
  <2> DEFINE r == [mem[p] EXCEPT !.stage = "openwrt_boot", !.status = "waiting"]
  <2>1. OthersStay(p) /\ mem'[p] = r /\ disk' = r /\ UNCHANGED <<snapshot, current>>
    BY <1>1, <1>t DEF AwaitBoot, OthersStay, StageSaved, Save, Goto, Raise
  <2>2. /\ r.status = "waiting" /\ r.stage = "openwrt_boot" /\ r.unsafe = mem[p].unsafe
        /\ r.backup = mem[p].backup /\ r.effects = mem[p].effects
    BY <1>t DEF Record
  <2>3. Committed(mem[p])
    BY <1>1, <1>at DEF AwaitBoot, At
  <2>4. Kept(r)
    BY <1>at, <1>t, <2>3, KeptStage DEF Stages, Statuses, Record, Kept, Sound
  <2>5. At(p)'
    BY <1>1, <1>at, <1>t, <2>1, <2>2, <2>3 DEF AwaitBoot, At, InEntryPoint, Committed, Goto, Raise
  <2> QED
    BY <2>1, <2>4, <2>5, ShapeSaved
<1>2. CASE Poll(p)
  <2>1. OthersStay(p) /\ UNCHANGED <<disk, mem, snapshot>>
    BY <1>2 DEF Poll, OthersStay, TypeOK, MainGoes, NextEffect, Goto, Raise
  <2>2. At(p)'
    BY <1>2, <1>at, <1>t DEF Poll, At, InEntryPoint, MainGoes, NextEffect, Goto, Raise, Committed
  <2> QED
    BY <2>1, <2>2, ShapeQuiet
<1>3. CASE CancelPoll(p)
  <2>1. OthersStay(p) /\ UNCHANGED <<disk, mem, snapshot, current>> /\ worker'[p] = "cancelling"
    BY <1>3, <1>t DEF CancelPoll, OthersStay, Goto, Raise
  <2>2. \A e \in Effects : mem[p].effects[e] # "started"
    <3>1. Committed(mem[p])
      BY <1>3, <1>at DEF CancelPoll, At
    <3> QED
      BY <1>at, <1>t, <3>1, CommittedAll DEF Kept, Sound
  <2>3. At(p)'
    BY <2>1, <2>2 DEF At, InEntryPoint
  <2> QED
    BY <2>1, <2>3, ShapeQuiet
<1>4. CASE Unreachable(p)
  <2> DEFINE r == [mem[p] EXCEPT !.stage = "openwrt_boot", !.status = "waiting"]
  <2>1. OthersStay(p) /\ mem'[p] = r /\ disk' = r /\ UNCHANGED <<snapshot, current>>
    BY <1>4, <1>t DEF Unreachable, OthersStay, StageSaved, Save, Goto, Raise
  <2>2. /\ r.status = "waiting" /\ r.stage = "openwrt_boot" /\ r.unsafe = mem[p].unsafe
        /\ r.backup = mem[p].backup /\ r.effects = mem[p].effects
    BY <1>t DEF Record
  <2>3. Committed(mem[p])
    BY <1>4, <1>at DEF Unreachable, At
  <2>4. Kept(r)
    BY <1>at, <1>t, <2>3, KeptStage DEF Stages, Statuses, Record, Kept, Sound
  <2>5. At(p)'
    BY <1>4, <1>at, <1>t, <2>1, <2>2, <2>3 DEF Unreachable, At, InEntryPoint, Committed, Goto, Raise
  <2> QED
    BY <2>1, <2>4, <2>5, ShapeSaved
<1>5. CASE Answered(p)
  <2> DEFINE r == [mem[p] EXCEPT !.stage = "verify_capacity", !.status = "running"]
  <2>1. OthersStay(p) /\ mem'[p] = r /\ disk' = r /\ UNCHANGED <<snapshot, current>>
    BY <1>5, <1>t DEF Answered, OthersStay, StageSaved, Save, Goto, Raise
  <2>2. /\ r.status = "running" /\ r.stage = "verify_capacity" /\ r.unsafe = mem[p].unsafe
        /\ r.backup = mem[p].backup /\ r.effects = mem[p].effects
    BY <1>t DEF Record
  <2>3. Committed(mem[p])
    BY <1>5, <1>at DEF Answered, At
  <2>4. Kept(r)
    BY <1>at, <1>t, <2>3, KeptStage DEF Stages, Statuses, Record, Kept, Sound
  <2>5. At(p)'
    BY <1>5, <1>at, <1>t, <2>1, <2>2, <2>3 DEF Answered, At, InEntryPoint, Committed, Goto, Raise
  <2> QED
    BY <2>1, <2>4, <2>5, ShapeSaved
<1>6. CASE PollFails(p)
  <2>1. OthersStay(p) /\ UNCHANGED <<disk, mem, snapshot>>
    BY <1>6 DEF PollFails, OthersStay, TypeOK, MainGoes, NextEffect, Goto, Raise
  <2>2. At(p)'
    BY <1>6, <1>at, <1>t DEF PollFails, At, InEntryPoint, MainGoes, NextEffect, Goto, Raise, Committed
  <2> QED
    BY <2>1, <2>2, ShapeQuiet
<1>7. CASE ConnectionLost(p)
  <2> DEFINE r == [mem[p] EXCEPT !.stage = "openwrt_boot", !.status = "waiting"]
  <2>1. OthersStay(p) /\ mem'[p] = r /\ disk' = r /\ UNCHANGED <<snapshot, current>>
    BY <1>7, <1>t DEF ConnectionLost, OthersStay, StageSaved, Save, Goto, Raise
  <2>2. /\ r.status = "waiting" /\ r.stage = "openwrt_boot" /\ r.unsafe = mem[p].unsafe
        /\ r.backup = mem[p].backup /\ r.effects = mem[p].effects
    BY <1>t DEF Record
  <2>3. Committed(mem[p])
    BY <1>7, <1>at DEF ConnectionLost, At
  <2>4. Kept(r)
    BY <1>at, <1>t, <2>3, KeptStage DEF Stages, Statuses, Record, Kept, Sound
  <2>5. At(p)'
    BY <1>7, <1>at, <1>t, <2>1, <2>2, <2>3 DEF ConnectionLost, At, InEntryPoint, Committed, Goto, Raise
  <2> QED
    BY <2>1, <2>4, <2>5, ShapeSaved
<1>8. CASE CapacityMismatch(p)
  <2>1. OthersStay(p) /\ UNCHANGED <<disk, mem, snapshot>>
    BY <1>8 DEF CapacityMismatch, OthersStay, TypeOK, MainGoes, NextEffect, Goto, Raise
  <2>2. At(p)'
    BY <1>8, <1>at, <1>t DEF CapacityMismatch, At, InEntryPoint, MainGoes, NextEffect, Goto, Raise, Committed
  <2> QED
    BY <2>1, <2>2, ShapeQuiet
<1>9. CASE Complete(p)
  <2> DEFINE r == [mem[p] EXCEPT !.stage = "complete", !.status = "completed"]
  <2>1. OthersStay(p) /\ mem'[p] = r /\ disk' = r /\ UNCHANGED <<snapshot, current>>
    BY <1>9, <1>t DEF Complete, OthersStay, StageSaved, Save, Goto, Raise
  <2>2. /\ r.status = "completed" /\ r.stage = "complete" /\ r.unsafe = mem[p].unsafe
        /\ r.backup = mem[p].backup /\ r.effects = mem[p].effects
    BY <1>t DEF Record
  <2>3. Committed(mem[p])
    BY <1>9, <1>at DEF Complete, At
  <2>4. Kept(r)
    BY <1>at, <1>t, <2>3, KeptStage DEF Stages, Statuses, Record, Kept, Sound
  <2>5. At(p)'
    BY <1>9, <1>at, <1>t, <2>1, <2>2, <2>3 DEF Complete, At, InEntryPoint, Committed, Goto, Raise
  <2> QED
    BY <2>1, <2>4, <2>5, ShapeSaved
<1> QED
  BY <1>1, <1>2, <1>3, <1>4, <1>5, <1>6, <1>7, <1>8, <1>9 DEF Waits

\* The handlers report a record they do not change otherwise.
LEMMA ShapeReports ==
    ASSUME ShapeInv, TypeOK', Inspecting', NEW p \in Installers, Reports(p)
    PROVE  ShapeInv'
<1>at. At(p) /\ Kept(mem[p]) /\ Kept(snapshot[p]) /\ Kept(disk) /\ Inspecting
  BY DEF ShapeInv
<1>t. /\ TypeOK /\ mem \in [Installers -> Record] /\ snapshot \in [Installers -> Record]
      /\ worker \in [Installers -> WorkerStates] /\ current \in [Installers -> Effects]
      /\ mem[p] \in Record /\ snapshot[p] \in Record /\ current[p] \in Effects
  BY DEF ShapeInv, TypeOK
<1>1. CASE ReportFailure(p)
  <2> DEFINE r == [mem[p] EXCEPT !.stage = mem[p].stage, !.status = "failed"]
  <2>1. OthersStay(p) /\ mem'[p] = r /\ disk' = r /\ UNCHANGED <<snapshot, current>>
    BY <1>1, <1>t DEF ReportFailure, OthersStay, StageSaved, Save, Goto, Raise
  <2>2. /\ r.status = "failed" /\ r.stage = mem[p].stage /\ r.unsafe = mem[p].unsafe
        /\ r.backup = mem[p].backup /\ r.effects = mem[p].effects
    BY <1>t DEF Record
  <2>3. mem[p] \in Record
    BY <1>t
  <2>4. Kept(r)
    BY <1>at, <1>t, <2>3, KeptStage DEF Stages, Statuses, Record, Kept, Sound
  <2>5. At(p)'
    BY <1>1, <1>at, <1>t, <2>1, <2>2, <2>3 DEF ReportFailure, At, InEntryPoint, Committed, Goto, Raise
  <2> QED
    BY <2>1, <2>4, <2>5, ShapeSaved
<1>2. CASE ReportCancel(p)
  <2> DEFINE r == [mem[p] EXCEPT !.stage = mem[p].stage, !.status = "cancelled"]
  <2>1. OthersStay(p) /\ mem'[p] = r /\ disk' = r /\ UNCHANGED <<snapshot, current>>
    BY <1>2, <1>t DEF ReportCancel, OthersStay, StageSaved, Save, Goto, Raise
  <2>2. /\ r.status = "cancelled" /\ r.stage = mem[p].stage /\ r.unsafe = mem[p].unsafe
        /\ r.backup = mem[p].backup /\ r.effects = mem[p].effects
    BY <1>t DEF Record
  <2>3. \A e \in Effects : mem[p].effects[e] # "started"
    BY <1>2, <1>at DEF ReportCancel, At
  <2>4. Kept(r)
    BY <1>at, <2>2, <2>3 DEF Kept, Sound, Ordered, Committed, WriteJournaled
  <2>5. At(p)'
    BY <1>2, <1>at, <1>t, <2>1, <2>2, <2>3 DEF ReportCancel, At, InEntryPoint, Committed, Goto, Raise
  <2> QED
    BY <2>1, <2>4, <2>5, ShapeSaved
<1>3. CASE ReportLost(p)
  <2>1. OthersStay(p) /\ UNCHANGED <<disk, mem, snapshot>>
    BY <1>3 DEF ReportLost, OthersStay, TypeOK, MainGoes, NextEffect, Goto, Raise
  <2>2. At(p)'
    BY <1>3, <1>at, <1>t DEF ReportLost, At, InEntryPoint, MainGoes, NextEffect, Goto, Raise, Committed
  <2> QED
    BY <2>1, <2>2, ShapeQuiet
<1> QED
  BY <1>1, <1>2, <1>3 DEF Reports

\* The strengthening of the journal's shape with the lock.
JournalInv == ShapeInv /\ Locked

LEMMA JournalInit == Init => JournalInv
<1> SUFFICES ASSUME Init PROVE JournalInv
  OBVIOUS
<1>1. /\ Planned.status = "ready" /\ Planned.stage = "plan"
      /\ \A e \in Effects : Planned.effects[e] = "none"
  BY DEF Planned
<1>2. NumEffects \in Effects
  BY NumEffectsAssumption DEF Effects
<1>3. Kept(Planned)
  BY <1>1, <1>2 DEF Kept, Sound, Ordered, Committed, WriteJournaled
<1> QED
  BY <1>3, InitTyped DEF Init, JournalInv, ShapeInv, Locked, Inspecting, At, InEntryPoint, LockHolders

LEMMA JournalStep == JournalInv /\ [Next]_vars => JournalInv'
<1> SUFFICES ASSUME JournalInv, [Next]_vars PROVE JournalInv'
  OBVIOUS
<1>1. TypeOK /\ Inspecting /\ Locked /\ ShapeInv
  BY DEF JournalInv, ShapeInv
<1>2. TypeOK'
  BY <1>1, StepTyped
<1>3. CASE DeviceReboots
  <2>1. UNCHANGED <<kind, disk, mem, snapshot, main, worker, current, lock>>
    BY <1>3 DEF DeviceReboots
  <2> QED
    BY <1>1, <1>2, <2>1 DEF JournalInv, ShapeInv, Locked, Inspecting, At, Kept, Sound, Ordered,
                            Committed, WriteJournaled
<1>4. CASE UNCHANGED vars
  BY <1>1, <1>2, <1>4 DEF vars, JournalInv, ShapeInv, Locked, Inspecting, At, Kept, Sound, Ordered,
                          Committed, WriteJournaled
<1>5. ASSUME NEW p \in Installers, User(p) \/ MainSaves(p) \/ Joined(p) \/ Crash(p)
      PROVE  JournalInv'
  BY <1>1, <1>2, <1>5, LockedMain, ShapeMain DEF JournalInv
<1>6. ASSUME NEW p \in Installers, Worker(p)
      PROVE  JournalInv'
  <2>1. Locked' /\ Inspecting'
    BY <1>1, <1>6, LockedWorker
  <2>2. ShapeInv'
    BY <1>1, <1>2, <1>6, <2>1, ShapeDecides, ShapeWrites, ShapeWaits, ShapeReports DEF Worker
  <2> QED
    BY <2>1, <2>2 DEF JournalInv
<1> QED
  BY <1>3, <1>4, <1>5, <1>6 DEF Next

LEMMA JournalFacts == JournalInv => ExclusiveDevice /\ JournalShape
  BY DEF JournalInv, ShapeInv, Locked, At, Kept, ExclusiveDevice, JournalShape

\* The lock, the marks and the shape of every copy hold in every reachable state,
\* for any installers, writes and faults (transaction_lock, Context).
THEOREM JournalInvariant == Spec => []JournalInv
<1> QED
  BY JournalInit, JournalStep, PTL DEF Spec

\* However many installers share the journal, and whatever is cancelled, crashes
\* or fails to be saved, only the holder of the lock writes to the device, under
\* its own mark (service.run, Context.effect).
THEOREM DeviceIsExclusive == Spec => []ExclusiveDevice
<1> QED
  BY JournalInvariant, JournalFacts, PTL

\* Under the same conditions no copy of the record ever claims an installation
\* whose commit was not verified, is cancelled inside a write or has its writes
\* out of order (Context.effect, Context.boundary, openwrt_wait_stage).
THEOREM JournalIsSound == Spec => []JournalShape
<1> QED
  BY JournalInvariant, JournalFacts, PTL

-----------------------------------------------------------------------------
(* One installer *)

\* The process holds a record it may still act on.
Live(p) == worker[p] # "none" \/ main[p] = "inspecting"

\* A record that owns up to every write the device saw and claims no other.
Honest(r) == \A e \in Effects : /\ device.begun[e] # 0 => r.effects[e] # "none"
                                /\ r.effects[e] = "done" => device.outcome[e] = "written"

\* The journal on disk is honest at every moment, the record in memory as long
\* as the process may act on it, and a write about to begin was never begun.
OnceAt(p) ==
    /\ main[p] \notin {"serialising", "flagging", "saving"}
    /\ Honest(disk)
    /\ Live(p) => Honest(mem[p]) /\ mem[p].status # "completed" /\ disk.status # "completed"
    /\ worker[p] = "begin" =>
           device.begun[current[p]] = 0 /\ disk.effects[current[p]] = "started"
    /\ worker[p] = "write" =>
           device.outcome[current[p]] = "torn" /\ disk.effects[current[p]] = "started"
    /\ worker[p] = "commit" => device.outcome[current[p]] = "written"
    /\ worker[p] = "journaling" => device.begun[current[p]] = 0

OnceInv == JournalInv /\ NoReplay /\ \A p \in Installers : OnceAt(p)

\* One installer, no cancellation.
Undisturbed(p) == Installers = {p} /\ MaxCancels = 0

\* A write that finishes changes nothing else on the device.
LEMMA WrittenOnly ==
    ASSUME device \in Device, NEW c \in Effects,
           device' \in {device, [device EXCEPT !.outcome[c] = "written"]}
    PROVE  /\ device'.begun = device.begun
           /\ \A e \in Effects : device'.outcome[e] = device.outcome[e]
                                  \/ (e = c /\ device'.outcome[e] = "written")
<1>1. CASE device' = device
  BY <1>1
<1>2. CASE device' = [device EXCEPT !.outcome[c] = "written"]
  BY <1>2 DEF Device
<1> QED
  BY <1>1, <1>2

\* The main thread only reads the journal and writes it back unchanged.
LEMMA OnceMain ==
    ASSUME OnceInv, NEW p, Undisturbed(p), User(p) \/ MainSaves(p) \/ Joined(p) \/ Crash(p)
    PROVE  OnceAt(p)' /\ NoReplay'
<1>t. /\ TypeOK /\ mem \in [Installers -> Record] /\ p \in Installers
      /\ worker \in [Installers -> WorkerStates] /\ current \in [Installers -> Effects]
      /\ main \in [Installers -> MainStates]
      /\ mem[p] \in Record /\ disk \in Record /\ current[p] \in Effects /\ device \in Device
  BY DEF OnceInv, JournalInv, ShapeInv, TypeOK, Undisturbed
<1>i. OnceAt(p) /\ At(p) /\ Inspecting /\ NoReplay
  BY <1>t DEF OnceInv, JournalInv, ShapeInv
<1>1. CASE Load(p)
  BY <1>1, <1>t, <1>i DEF Load, OnceAt, Live, Honest, NoReplay, Inspecting, Goto, Raise, MainGoes, NextEffect
<1>2. CASE Reject(p)
  BY <1>2, <1>t, <1>i DEF Reject, OnceAt, Live, Honest, NoReplay, Inspecting, Goto, Raise, MainGoes, NextEffect
<1>3. CASE Launch(p)
  <2> DEFINE r == [mem[p] EXCEPT !.cancel = FALSE]
  <2>1. r.status = mem[p].status /\ r.effects = mem[p].effects
    BY <1>t DEF Record
  <2>2. mem'[p] = r
    BY <1>3, <1>t DEF Launch, Save
  <2> QED
    BY <1>3, <1>t, <1>i, <2>1, <2>2 DEF Launch, OnceAt, Live, Honest, NoReplay, Inspecting, Save, Goto, Raise, MainGoes, NextEffect
<1>4. CASE Cancel(p)
  <2>1. spent.cancels \in Nat /\ spent.cancels < 0
    BY <1>4, <1>t DEF Cancel, TypeOK, Undisturbed
  <2> QED
    BY <2>1
<1>5. CASE SerialiseJournal(p)
  BY <1>5, <1>t, <1>i DEF SerialiseJournal, OnceAt, Live, Honest, NoReplay, Inspecting, Goto, Raise, MainGoes, NextEffect
<1>6. CASE SerialiseFlags(p)
  BY <1>6, <1>t, <1>i DEF SerialiseFlags, OnceAt, Live, Honest, NoReplay, Inspecting, Goto, Raise, MainGoes, NextEffect
<1>7. CASE SerialiseFails(p)
  BY <1>7, <1>t, <1>i DEF SerialiseFails, OnceAt, Live, Honest, NoReplay, Inspecting, Goto, Raise, MainGoes, NextEffect
<1>8. CASE ReplaceJournal(p)
  BY <1>8, <1>t, <1>i DEF ReplaceJournal, OnceAt, Live, Honest, NoReplay, Inspecting, Goto, Raise, MainGoes, NextEffect
<1>9. CASE Close(p)
  BY <1>9, <1>t, <1>i DEF Close, OnceAt, Live, Honest, NoReplay, Inspecting, Goto, Raise, MainGoes, NextEffect
<1>10. CASE Joined(p)
  BY <1>10, <1>t, <1>i DEF Joined, OnceAt, Live, Honest, NoReplay, Inspecting, Goto, Raise, MainGoes, NextEffect
<1>11. CASE Open(p)
  BY <1>11, <1>t, <1>i DEF Open, OnceAt, Live, Honest, NoReplay, Inspecting, Goto, Raise, MainGoes, NextEffect
<1>12. CASE Crash(p)
  <2>1. /\ device'.begun = device.begun
        /\ \A e \in Effects : device'.outcome[e] = device.outcome[e]
                               \/ (e = current[p] /\ device'.outcome[e] = "written")
    BY <1>12, <1>t, WrittenOnly DEF Crash
  <2> QED
    BY <1>12, <1>t, <1>i, <2>1 DEF Crash, OnceAt, Live, Honest, NoReplay, Inspecting, Goto, Raise, MainGoes, NextEffect
<1> QED
  BY <1>1, <1>2, <1>3, <1>4, <1>5, <1>6, <1>7, <1>8, <1>9, <1>10, <1>11, <1>12 DEF User, MainSaves

\* Nothing is written before the first mark.
LEMMA OnceDecides ==
    ASSUME OnceInv, NEW p, Undisturbed(p), Decides(p)
    PROVE  OnceAt(p)' /\ NoReplay'
<1>t. /\ TypeOK /\ mem \in [Installers -> Record] /\ p \in Installers
      /\ worker \in [Installers -> WorkerStates] /\ current \in [Installers -> Effects]
      /\ main \in [Installers -> MainStates]
      /\ mem[p] \in Record /\ disk \in Record /\ current[p] \in Effects /\ device \in Device
  BY DEF OnceInv, JournalInv, ShapeInv, TypeOK, Undisturbed
<1>i. OnceAt(p) /\ At(p) /\ Inspecting /\ NoReplay
  BY <1>t DEF OnceInv, JournalInv, ShapeInv
<1>1. CASE Lock(p)
  BY <1>1, <1>t, <1>i DEF Lock, OnceAt, Live, Honest, NoReplay, Inspecting, Goto, Raise, MainGoes, NextEffect
<1>2. CASE LockBusy(p)
  BY <1>2, <1>t, <1>i DEF LockBusy, OnceAt, Live, Honest, NoReplay, Inspecting, Goto, Raise, MainGoes, NextEffect
<1>3. CASE ResumeWait(p)
  <2> DEFINE r == [mem[p] EXCEPT !.stage = "openwrt_boot", !.status = "waiting"]
  <2>1. r.status = "waiting" /\ r.effects = mem[p].effects
    BY <1>t DEF Record
  <2>2. mem'[p] = r /\ disk' = r /\ UNCHANGED <<main, device, current>>
    BY <1>3, <1>t DEF ResumeWait, StageSaved, Save
  <2> QED
    BY <1>3, <1>t, <1>i, <2>1, <2>2 DEF ResumeWait, OnceAt, Live, Honest, NoReplay, Inspecting, Goto, Raise, MainGoes, NextEffect
<1>4. CASE PlanChanged(p)
  BY <1>4, <1>t, <1>i DEF PlanChanged, OnceAt, Live, Honest, NoReplay, Inspecting, Goto, Raise, MainGoes, NextEffect
<1>5. CASE Prepare(p)
  <2> DEFINE r == [mem[p] EXCEPT !.stage = "prepare", !.status = "running"]
  <2>1. r.status = "running" /\ r.effects = mem[p].effects
    BY <1>t DEF Record
  <2>2. mem'[p] = r /\ disk' = r /\ UNCHANGED <<main, device, current>>
    BY <1>5, <1>t DEF Prepare, StageSaved, Save
  <2> QED
    BY <1>5, <1>t, <1>i, <2>1, <2>2 DEF Prepare, OnceAt, Live, Honest, NoReplay, Inspecting, Goto, Raise, MainGoes, NextEffect
<1>6. CASE RefuseReplay(p)
  BY <1>6, <1>t, <1>i DEF RefuseReplay, OnceAt, Live, Honest, NoReplay, Inspecting, Goto, Raise, MainGoes, NextEffect
<1>7. CASE Backup(p)
  <2> DEFINE r == [mem[p] EXCEPT !.backup = TRUE]
  <2>1. r.status = mem[p].status /\ r.effects = mem[p].effects
    BY <1>t DEF Record
  <2>2. mem'[p] = r
    BY <1>7, <1>t DEF Backup, Save
  <2> QED
    BY <1>7, <1>t, <1>i, <2>1, <2>2 DEF Backup, OnceAt, Live, Honest, NoReplay, Inspecting, Save, Goto, Raise, MainGoes, NextEffect
<1>8. CASE CancelBackup(p)
  BY <1>8, <1>t, <1>i DEF CancelBackup, OnceAt, Live, Honest, NoReplay, Inspecting, Goto, Raise, MainGoes, NextEffect
<1>9. CASE EnterInstall(p)
  BY <1>9, <1>t, <1>i DEF EnterInstall, OnceAt, Live, Honest, NoReplay, Inspecting, Goto, Raise, MainGoes, NextEffect
<1>10. CASE EnterUpdate(p)
  <2> DEFINE r == [mem[p] EXCEPT !.bootId = device.boot]
  <2>1. r.status = mem[p].status /\ r.effects = mem[p].effects
    BY <1>t DEF Record
  <2>2. mem'[p] = r
    BY <1>10, <1>t DEF EnterUpdate, Save
  <2> QED
    BY <1>10, <1>t, <1>i, <2>1, <2>2 DEF EnterUpdate, OnceAt, Live, Honest, NoReplay, Inspecting, Save, Goto, Raise, MainGoes, NextEffect
<1>11. CASE PreflightFails(p)
  BY <1>11, <1>t, <1>i DEF PreflightFails, OnceAt, Live, Honest, NoReplay, Inspecting, Goto, Raise, MainGoes, NextEffect
<1> QED
  BY <1>1, <1>2, <1>3, <1>4, <1>5, <1>6, <1>7, <1>8, <1>9, <1>10, <1>11 DEF Decides

\* A mark precedes its write and its result follows it.
LEMMA OnceWrites ==
    ASSUME OnceInv, NEW p, Undisturbed(p), Writes(p)
    PROVE  OnceAt(p)' /\ NoReplay'
<1>t. /\ TypeOK /\ mem \in [Installers -> Record] /\ p \in Installers
      /\ worker \in [Installers -> WorkerStates] /\ current \in [Installers -> Effects]
      /\ main \in [Installers -> MainStates]
      /\ mem[p] \in Record /\ disk \in Record /\ current[p] \in Effects /\ device \in Device
  BY DEF OnceInv, JournalInv, ShapeInv, TypeOK, Undisturbed
<1>i. OnceAt(p) /\ At(p) /\ Inspecting /\ NoReplay
  BY <1>t DEF OnceInv, JournalInv, ShapeInv
<1>1. CASE SkipDone(p)
  BY <1>1, <1>t, <1>i DEF SkipDone, OnceAt, Live, Honest, NoReplay, Inspecting, Goto, Raise, MainGoes, NextEffect
<1>2. CASE RecoveryRequired(p)
  BY <1>2, <1>t, <1>i DEF RecoveryRequired, OnceAt, Live, Honest, NoReplay, Inspecting, Goto, Raise, MainGoes, NextEffect
<1>3. CASE CancelEffect(p)
  BY <1>3, <1>t, <1>i DEF CancelEffect, OnceAt, Live, Honest, NoReplay, Inspecting, Goto, Raise, MainGoes, NextEffect
<1>4. CASE EnterEffect(p)
  BY <1>4, <1>t, <1>i DEF EnterEffect, OnceAt, Live, Honest, NoReplay, Inspecting, Goto, Raise, MainGoes, NextEffect
<1>5. CASE JournalStart(p)
  <2>1. /\ Started(p).status = mem[p].status /\ Started(p).effects[current[p]] = "started"
        /\ \A e \in Effects : e # current[p] => Started(p).effects[e] = mem[p].effects[e]
    BY <1>t DEF Record, Started
  <2>2. mem'[p] = Started(p) /\ disk' \in {disk, Started(p)} /\ UNCHANGED <<main, device, current>>
    BY <1>5, <1>t DEF JournalStart, Save
  <2>3. Honest(mem[p])' /\ Honest(disk)'
    BY <1>5, <1>t, <1>i, <2>1, <2>2 DEF JournalStart, OnceAt, Live, Honest
  <2> QED
    BY <1>5, <1>t, <1>i, <2>1, <2>2, <2>3 DEF JournalStart, OnceAt, Live, NoReplay, Inspecting, Save, Goto, Raise, MainGoes, NextEffect
<1>6. CASE JournalStartFails(p)
  <2>1. /\ Started(p).status = mem[p].status /\ Started(p).effects[current[p]] = "started"
        /\ \A e \in Effects : e # current[p] => Started(p).effects[e] = mem[p].effects[e]
    BY <1>t DEF Record, Started
  <2>2. mem'[p] = Started(p) /\ disk' \in {disk, Started(p)} /\ UNCHANGED <<main, device, current>>
    BY <1>6, <1>t DEF JournalStartFails, Save
  <2>3. Honest(mem[p])' /\ Honest(disk)'
    BY <1>6, <1>t, <1>i, <2>1, <2>2 DEF JournalStartFails, OnceAt, Live, Honest
  <2> QED
    BY <1>6, <1>t, <1>i, <2>1, <2>2, <2>3 DEF JournalStartFails, OnceAt, Live, NoReplay, Inspecting, Save, Goto, Raise, MainGoes, NextEffect
<1>7. CASE OperationFails(p)
  BY <1>7, <1>t, <1>i DEF OperationFails, OnceAt, Live, Honest, NoReplay, Inspecting, Goto, Raise, MainGoes, NextEffect
<1>8. CASE BeginWrite(p)
  <2>1. /\ device'.begun[current[p]] = 1 /\ device'.outcome[current[p]] = "torn"
        /\ \A e \in Effects \ {current[p]} : /\ device'.begun[e] = device.begun[e]
                                            /\ device'.outcome[e] = device.outcome[e]
    BY <1>8, <1>t, <1>i DEF BeginWrite, Device, OnceAt
  <2> QED
    BY <1>8, <1>t, <1>i, <2>1 DEF BeginWrite, OnceAt, Live, Honest, NoReplay, Inspecting, At, Goto, Raise, MainGoes, NextEffect
<1>9. CASE WriteDone(p)
  <2>1. /\ device'.begun = device.begun /\ device'.outcome[current[p]] = "written"
        /\ \A e \in Effects : e # current[p] => device'.outcome[e] = device.outcome[e]
    BY <1>9, <1>t DEF WriteDone, Device
  <2> QED
    BY <1>9, <1>t, <1>i, <2>1 DEF WriteDone, OnceAt, Live, Honest, NoReplay, Inspecting, Goto, Raise, MainGoes, NextEffect
<1>10. CASE WriteFails(p)
  <2>1. /\ device'.begun = device.begun
        /\ \A e \in Effects : device'.outcome[e] = device.outcome[e]
                               \/ (e = current[p] /\ device'.outcome[e] = "written")
    BY <1>10, <1>t, WrittenOnly DEF WriteFails
  <2> QED
    BY <1>10, <1>t, <1>i, <2>1 DEF WriteFails, OnceAt, Live, Honest, NoReplay, Inspecting, Goto, Raise, MainGoes, NextEffect
<1>11. CASE JournalDone(p)
  <2>1. /\ Done(p).status = mem[p].status /\ Done(p).effects[current[p]] = "done"
        /\ \A e \in Effects : e # current[p] => Done(p).effects[e] = mem[p].effects[e]
    BY <1>t DEF Record, Done
  <2>2. mem'[p] = Done(p) /\ disk' \in {disk, Done(p)} /\ UNCHANGED <<main, device, current>>
    BY <1>11, <1>t DEF JournalDone, Save
  <2>3. Honest(mem[p])' /\ Honest(disk)'
    BY <1>11, <1>t, <1>i, <2>1, <2>2 DEF JournalDone, OnceAt, Live, Honest
  <2> QED
    BY <1>11, <1>t, <1>i, <2>1, <2>2, <2>3 DEF JournalDone, OnceAt, Live, NoReplay, Inspecting, Save, Goto, Raise, MainGoes, NextEffect
<1>12. CASE JournalDoneFails(p)
  <2>1. /\ Done(p).status = mem[p].status /\ Done(p).effects[current[p]] = "done"
        /\ \A e \in Effects : e # current[p] => Done(p).effects[e] = mem[p].effects[e]
    BY <1>t DEF Record, Done
  <2>2. mem'[p] = Done(p) /\ disk' \in {disk, Done(p)} /\ UNCHANGED <<main, device, current>>
    BY <1>12, <1>t DEF JournalDoneFails, Save
  <2>3. Honest(mem[p])' /\ Honest(disk)'
    BY <1>12, <1>t, <1>i, <2>1, <2>2 DEF JournalDoneFails, OnceAt, Live, Honest
  <2> QED
    BY <1>12, <1>t, <1>i, <2>1, <2>2, <2>3 DEF JournalDoneFails, OnceAt, Live, NoReplay, Inspecting, Save, Goto, Raise, MainGoes, NextEffect
<1>13. CASE Boundary(p)
  BY <1>13, <1>t, <1>i DEF Boundary, OnceAt, Live, Honest, NoReplay, Inspecting, Goto, Raise, MainGoes, NextEffect
<1>14. CASE CancelBoundary(p)
  BY <1>14, <1>t, <1>i DEF CancelBoundary, OnceAt, Live, Honest, NoReplay, Inspecting, Goto, Raise, MainGoes, NextEffect
<1> QED
  BY <1>1, <1>2, <1>3, <1>4, <1>5, <1>6, <1>7, <1>8, <1>9, <1>10, <1>11, <1>12, <1>13, <1>14 DEF Writes

\* The wait writes nothing to the device.
LEMMA OnceWaits ==
    ASSUME OnceInv, NEW p, Undisturbed(p), Waits(p)
    PROVE  OnceAt(p)' /\ NoReplay'
<1>t. /\ TypeOK /\ mem \in [Installers -> Record] /\ p \in Installers
      /\ worker \in [Installers -> WorkerStates] /\ current \in [Installers -> Effects]
      /\ main \in [Installers -> MainStates]
      /\ mem[p] \in Record /\ disk \in Record /\ current[p] \in Effects /\ device \in Device
  BY DEF OnceInv, JournalInv, ShapeInv, TypeOK, Undisturbed
<1>i. OnceAt(p) /\ At(p) /\ Inspecting /\ NoReplay
  BY <1>t DEF OnceInv, JournalInv, ShapeInv
<1>1. CASE AwaitBoot(p)
  <2> DEFINE r == [mem[p] EXCEPT !.stage = "openwrt_boot", !.status = "waiting"]
  <2>1. r.status = "waiting" /\ r.effects = mem[p].effects
    BY <1>t DEF Record
  <2>2. mem'[p] = r /\ disk' = r /\ UNCHANGED <<main, device, current>>
    BY <1>1, <1>t DEF AwaitBoot, StageSaved, Save
  <2> QED
    BY <1>1, <1>t, <1>i, <2>1, <2>2 DEF AwaitBoot, OnceAt, Live, Honest, NoReplay, Inspecting, Goto, Raise, MainGoes, NextEffect
<1>2. CASE Poll(p)
  BY <1>2, <1>t, <1>i DEF Poll, OnceAt, Live, Honest, NoReplay, Inspecting, Goto, Raise, MainGoes, NextEffect
<1>3. CASE CancelPoll(p)
  BY <1>3, <1>t, <1>i DEF CancelPoll, OnceAt, Live, Honest, NoReplay, Inspecting, Goto, Raise, MainGoes, NextEffect
<1>4. CASE Unreachable(p)
  <2> DEFINE r == [mem[p] EXCEPT !.stage = "openwrt_boot", !.status = "waiting"]
  <2>1. r.status = "waiting" /\ r.effects = mem[p].effects
    BY <1>t DEF Record
  <2>2. mem'[p] = r /\ disk' = r /\ UNCHANGED <<main, device, current>>
    BY <1>4, <1>t DEF Unreachable, StageSaved, Save
  <2> QED
    BY <1>4, <1>t, <1>i, <2>1, <2>2 DEF Unreachable, OnceAt, Live, Honest, NoReplay, Inspecting, Goto, Raise, MainGoes, NextEffect
<1>5. CASE Answered(p)
  <2> DEFINE r == [mem[p] EXCEPT !.stage = "verify_capacity", !.status = "running"]
  <2>1. r.status = "running" /\ r.effects = mem[p].effects
    BY <1>t DEF Record
  <2>2. mem'[p] = r /\ disk' = r /\ UNCHANGED <<main, device, current>>
    BY <1>5, <1>t DEF Answered, StageSaved, Save
  <2> QED
    BY <1>5, <1>t, <1>i, <2>1, <2>2 DEF Answered, OnceAt, Live, Honest, NoReplay, Inspecting, Goto, Raise, MainGoes, NextEffect
<1>6. CASE PollFails(p)
  BY <1>6, <1>t, <1>i DEF PollFails, OnceAt, Live, Honest, NoReplay, Inspecting, Goto, Raise, MainGoes, NextEffect
<1>7. CASE ConnectionLost(p)
  <2> DEFINE r == [mem[p] EXCEPT !.stage = "openwrt_boot", !.status = "waiting"]
  <2>1. r.status = "waiting" /\ r.effects = mem[p].effects
    BY <1>t DEF Record
  <2>2. mem'[p] = r /\ disk' = r /\ UNCHANGED <<main, device, current>>
    BY <1>7, <1>t DEF ConnectionLost, StageSaved, Save
  <2> QED
    BY <1>7, <1>t, <1>i, <2>1, <2>2 DEF ConnectionLost, OnceAt, Live, Honest, NoReplay, Inspecting, Goto, Raise, MainGoes, NextEffect
<1>8. CASE CapacityMismatch(p)
  BY <1>8, <1>t, <1>i DEF CapacityMismatch, OnceAt, Live, Honest, NoReplay, Inspecting, Goto, Raise, MainGoes, NextEffect
<1>9. CASE Complete(p)
  <2> DEFINE r == [mem[p] EXCEPT !.stage = "complete", !.status = "completed"]
  <2>1. r.status = "completed" /\ r.effects = mem[p].effects
    BY <1>t DEF Record
  <2>2. mem'[p] = r /\ disk' = r /\ UNCHANGED <<main, device, current>>
    BY <1>9, <1>t DEF Complete, StageSaved, Save
  <2> QED
    BY <1>9, <1>t, <1>i, <2>1, <2>2 DEF Complete, OnceAt, Live, Honest, NoReplay, Inspecting, Goto, Raise, MainGoes, NextEffect
<1> QED
  BY <1>1, <1>2, <1>3, <1>4, <1>5, <1>6, <1>7, <1>8, <1>9 DEF Waits

\* Nor do the handlers.
LEMMA OnceReports ==
    ASSUME OnceInv, NEW p, Undisturbed(p), Reports(p)
    PROVE  OnceAt(p)' /\ NoReplay'
<1>t. /\ TypeOK /\ mem \in [Installers -> Record] /\ p \in Installers
      /\ worker \in [Installers -> WorkerStates] /\ current \in [Installers -> Effects]
      /\ main \in [Installers -> MainStates]
      /\ mem[p] \in Record /\ disk \in Record /\ current[p] \in Effects /\ device \in Device
  BY DEF OnceInv, JournalInv, ShapeInv, TypeOK, Undisturbed
<1>i. OnceAt(p) /\ At(p) /\ Inspecting /\ NoReplay
  BY <1>t DEF OnceInv, JournalInv, ShapeInv
<1>1. CASE ReportFailure(p)
  <2> DEFINE r == [mem[p] EXCEPT !.stage = mem[p].stage, !.status = "failed"]
  <2>1. r.status = "failed" /\ r.effects = mem[p].effects
    BY <1>t DEF Record
  <2>2. mem'[p] = r /\ disk' = r /\ UNCHANGED <<main, device, current>>
    BY <1>1, <1>t DEF ReportFailure, StageSaved, Save
  <2> QED
    BY <1>1, <1>t, <1>i, <2>1, <2>2 DEF ReportFailure, OnceAt, Live, Honest, NoReplay, Inspecting, Goto, Raise, MainGoes, NextEffect
<1>2. CASE ReportCancel(p)
  <2> DEFINE r == [mem[p] EXCEPT !.stage = mem[p].stage, !.status = "cancelled"]
  <2>1. r.status = "cancelled" /\ r.effects = mem[p].effects
    BY <1>t DEF Record
  <2>2. mem'[p] = r /\ disk' = r /\ UNCHANGED <<main, device, current>>
    BY <1>2, <1>t DEF ReportCancel, StageSaved, Save
  <2> QED
    BY <1>2, <1>t, <1>i, <2>1, <2>2 DEF ReportCancel, OnceAt, Live, Honest, NoReplay, Inspecting, Goto, Raise, MainGoes, NextEffect
<1>3. CASE ReportLost(p)
  BY <1>3, <1>t, <1>i DEF ReportLost, OnceAt, Live, Honest, NoReplay, Inspecting, Goto, Raise, MainGoes, NextEffect
<1> QED
  BY <1>1, <1>2, <1>3 DEF Reports

LEMMA OnceInit == ASSUME Init, NEW p, Undisturbed(p) PROVE OnceInv
<1>1. /\ \A e \in Effects : Planned.effects[e] = "none" /\ device.begun[e] = 0
      /\ Planned.status = "ready"
  BY DEF Planned, Init
<1>2. disk = Planned /\ \A q \in Installers : mem[q] = Planned /\ worker[q] = "none" /\ main[q] = "idle"
  BY DEF Init
<1>3. \A q \in Installers : OnceAt(q)
  BY <1>1, <1>2 DEF OnceAt, Live, Honest
<1> QED
  BY <1>1, <1>3, JournalInit DEF OnceInv, NoReplay

LEMMA OnceStep == ASSUME OnceInv, [Next]_vars, NEW p, Undisturbed(p) PROVE OnceInv'
<1>1. JournalInv'
  BY JournalStep DEF OnceInv
<1>2. Installers = {p} /\ OnceAt(p)
  BY DEF Undisturbed, OnceInv
<1>3. CASE DeviceReboots
  <2>1. device'.begun = device.begun /\ device'.outcome = device.outcome
    BY <1>3 DEF DeviceReboots, OnceInv, JournalInv, ShapeInv, TypeOK, Device
  <2>2. UNCHANGED <<disk, mem, main, worker, current>>
    BY <1>3 DEF DeviceReboots
  <2> QED
    BY <1>1, <1>2, <2>1, <2>2 DEF OnceInv, OnceAt, Live, Honest, NoReplay
<1>4. CASE UNCHANGED vars
  BY <1>1, <1>2, <1>4 DEF vars, OnceInv, OnceAt, Live, Honest, NoReplay
<1>5. CASE User(p) \/ MainSaves(p) \/ Joined(p) \/ Crash(p)
  BY <1>1, <1>2, <1>5, OnceMain DEF OnceInv
<1>6. CASE Worker(p)
  BY <1>1, <1>2, <1>6, OnceDecides, OnceWrites, OnceWaits, OnceReports DEF OnceInv, Worker
<1> QED
  BY <1>2, <1>3, <1>4, <1>5, <1>6 DEF Next

\* A single installer that is not asked to cancel sends no write twice, however
\* often it crashes, is closed or fails to save ("A whole initial run must never
\* be replayed after a write started", adapter.execute).
THEOREM NeverReplayed ==
    ASSUME NEW p, Undisturbed(p)
    PROVE  Spec => []NoReplay
<1>1. Init => OnceInv
  BY OnceInit
<1>2. OnceInv /\ [Next]_vars => OnceInv'
  BY OnceStep
<1>3. OnceInv => NoReplay
  BY DEF OnceInv
<1> QED
  BY <1>1, <1>2, <1>3, PTL DEF Spec

\* Neither does it record a write as done that is not whole on the device.
THEOREM DoneIsWritten ==
    ASSUME NEW p, Undisturbed(p)
    PROVE  Spec => []Honest(disk)
<1>1. Init => OnceInv
  BY OnceInit
<1>2. OnceInv /\ [Next]_vars => OnceInv'
  BY OnceStep
<1>3. OnceInv => Honest(disk)
  BY DEF OnceInv, OnceAt, Undisturbed
<1> QED
  BY <1>1, <1>2, <1>3, PTL DEF Spec

-----------------------------------------------------------------------------
(* One installer: what is recorded is so *)

Alone(p) == Installers = {p}

\* What a record calls done is on the device, whole.
Whole(r) == \A e \in Effects : r.effects[e] = "done" => device.outcome[e] = "written"

\* A committed update whose recorded boot is over was followed by a restart, which
\* started the new system.
BootSeen(r) ==
    kind = "update" /\ Committed(r) /\ r.bootId \notin {-1, device.boot} => device.os = "new"

\* What a record calls completed runs.
Runs(r) == r.status = "completed" => device.os = "new"

\* The main thread holds a serialised record it has not saved yet.
Pending(p) == main[p] \in {"flagging", "saving"}

\* An update has a single write.
UpdateOnce == kind = "update" => NumEffects = 1

\* Both records, and the serialised one while a cancel saves it, claim no more than
\* the device bears out; a live process is ahead of all of them.  The boot an
\* update is sent to is the one that was recorded, until the write is over.
SoloAt(p) ==
    /\ Whole(disk) /\ Whole(mem[p])
    /\ BootSeen(disk) /\ BootSeen(mem[p])
    /\ Runs(disk) /\ Runs(mem[p])
    /\ Live(p) => /\ mem[p].status # "completed" /\ disk.status # "completed"
                  /\ \A e \in Effects : disk.effects[e] = "done" => mem[p].effects[e] = "done"
    /\ Pending(p) => /\ snapshot[p].status = "completed" => mem[p].status = "completed"
                     /\ \A e \in Effects : snapshot[p].effects[e] = "done" => mem[p].effects[e] = "done"
    /\ main[p] = "saving" => BootSeen(snapshot[p])
    /\ worker[p] \in {"effect", "journaling", "begin", "write"} /\ kind = "update" =>
           mem[p].bootId = device.boot
    /\ worker[p] = "commit" /\ kind = "update" => mem[p].bootId = device.boot \/ device.os = "new"
    /\ worker[p] = "commit" => device.outcome[current[p]] = "written"
    /\ worker[p] = "verify" => device.os = "new"
SoloInv == JournalInv /\ \A p \in Installers : SoloAt(p)

\* What the main thread saves, the device bears out.
LEMMA SoloMain ==
    ASSUME SoloInv, NEW p, Alone(p), User(p) \/ MainSaves(p) \/ Joined(p) \/ Crash(p)
    PROVE  SoloAt(p)'
<1>t. /\ TypeOK /\ mem \in [Installers -> Record] /\ p \in Installers
      /\ snapshot \in [Installers -> Record] /\ NumEffects \in Effects
      /\ worker \in [Installers -> WorkerStates] /\ current \in [Installers -> Effects]
      /\ main \in [Installers -> MainStates] /\ snapshot[p] \in Record
      /\ mem[p] \in Record /\ disk \in Record /\ current[p] \in Effects /\ device \in Device
  BY NumEffectsAssumption DEF SoloInv, JournalInv, ShapeInv, TypeOK, Alone, Effects
<1>i. SoloAt(p) /\ At(p) /\ Inspecting /\ Kept(mem[p]) /\ UpdateOnce
  BY <1>t, UpdateAssumption DEF SoloInv, JournalInv, ShapeInv, UpdateOnce, TypeOK
<1>1. CASE Load(p)
  BY <1>1, <1>t, <1>i DEF Load, SoloAt, Live, Pending, Whole, BootSeen, Runs, Committed, At, Inspecting, Goto, Raise, MainGoes, NextEffect
<1>2. CASE Reject(p)
  BY <1>2, <1>t, <1>i DEF Reject, SoloAt, Live, Pending, Whole, BootSeen, Runs, Committed, At, Inspecting, Goto, Raise, MainGoes, NextEffect
<1>3. CASE Launch(p)
  <2> DEFINE r == [mem[p] EXCEPT !.cancel = FALSE]
  <2>1. r.status = mem[p].status /\ r.effects = mem[p].effects /\ r.bootId = mem[p].bootId
    BY <1>t DEF Record
  <2>2. mem'[p] = r /\ disk' = mem[p] /\ UNCHANGED <<kind, snapshot, device, current>>
    BY <1>3, <1>t DEF Launch, Save
  <2> QED
    BY <1>3, <1>t, <1>i, <2>1, <2>2 DEF Launch, SoloAt, Live, Pending, Whole, BootSeen, Runs, Committed, At, Inspecting, Goto, Raise, MainGoes, NextEffect, Device
<1>4. CASE Cancel(p)
  <2> DEFINE r == [mem[p] EXCEPT !.cancel = TRUE]
  <2>1. r.status = mem[p].status /\ r.effects = mem[p].effects /\ r.bootId = mem[p].bootId
    BY <1>t DEF Record
  <2>2. mem'[p] = r /\ disk' = disk /\ UNCHANGED <<kind, worker, snapshot, device, current>>
    BY <1>4, <1>t DEF Cancel, Save
  <2> QED
    BY <1>4, <1>t, <1>i, <2>1, <2>2 DEF Cancel, SoloAt, Live, Pending, Whole, BootSeen, Runs, Committed, At, Inspecting, Goto, Raise, MainGoes, NextEffect, Device
<1>5. CASE SerialiseJournal(p)
  BY <1>5, <1>t, <1>i DEF SerialiseJournal, SoloAt, Live, Pending, Whole, BootSeen, Runs, Committed, At, Inspecting, Goto, Raise, MainGoes, NextEffect
<1>6. CASE SerialiseFlags(p)
  <2>1. /\ snapshot'[p].status = snapshot[p].status /\ snapshot'[p].effects = snapshot[p].effects
        /\ snapshot'[p].bootId = mem[p].bootId
    BY <1>6, <1>t DEF SerialiseFlags, Record
  <2> QED
    BY <1>6, <1>t, <1>i, <2>1 DEF SerialiseFlags, SoloAt, Live, Pending, Whole, BootSeen, Runs, Committed, At, Inspecting, Goto, Raise, MainGoes, NextEffect
<1>7. CASE SerialiseFails(p)
  BY <1>7, <1>t, <1>i DEF SerialiseFails, SoloAt, Live, Pending, Whole, BootSeen, Runs, Committed, At, Inspecting, Goto, Raise, MainGoes, NextEffect
<1>8. CASE ReplaceJournal(p)
  BY <1>8, <1>t, <1>i DEF ReplaceJournal, SoloAt, Live, Pending, Whole, BootSeen, Runs, Committed, At, Inspecting, Goto, Raise, MainGoes, NextEffect
<1>9. CASE Close(p)
  BY <1>9, <1>t, <1>i DEF Close, SoloAt, Live, Pending, Whole, BootSeen, Runs, Committed, At, Inspecting, Goto, Raise, MainGoes, NextEffect
<1>10. CASE Joined(p)
  BY <1>10, <1>t, <1>i DEF Joined, SoloAt, Live, Pending, Whole, BootSeen, Runs, Committed, At, Inspecting, Goto, Raise, MainGoes, NextEffect
<1>11. CASE Open(p)
  BY <1>11, <1>t, <1>i DEF Open, SoloAt, Live, Pending, Whole, BootSeen, Runs, Committed, At, Inspecting, Goto, Raise, MainGoes, NextEffect
<1>12. CASE Crash(p)
  <2>1. /\ device'.os = device.os /\ device'.boot = device.boot
        /\ \A e \in Effects : device.outcome[e] = "written" => device'.outcome[e] = "written"
    BY <1>12, <1>t DEF Crash, Device
  <2> QED
    BY <1>12, <1>t, <1>i, <2>1 DEF Crash, SoloAt, Live, Pending, Whole, BootSeen, Runs, Committed, At, Inspecting, Goto, Raise, MainGoes, NextEffect
<1> QED
  BY <1>1, <1>2, <1>3, <1>4, <1>5, <1>6, <1>7, <1>8, <1>9, <1>10, <1>11, <1>12 DEF User, MainSaves

\* So it does what a worker saves before its first write.
LEMMA SoloDecides ==
    ASSUME SoloInv, NEW p, Alone(p), Decides(p)
    PROVE  SoloAt(p)'
<1>t. /\ TypeOK /\ mem \in [Installers -> Record] /\ p \in Installers
      /\ snapshot \in [Installers -> Record] /\ NumEffects \in Effects
      /\ worker \in [Installers -> WorkerStates] /\ current \in [Installers -> Effects]
      /\ main \in [Installers -> MainStates] /\ snapshot[p] \in Record
      /\ mem[p] \in Record /\ disk \in Record /\ current[p] \in Effects /\ device \in Device
  BY NumEffectsAssumption DEF SoloInv, JournalInv, ShapeInv, TypeOK, Alone, Effects
<1>i. SoloAt(p) /\ At(p) /\ Inspecting /\ Kept(mem[p]) /\ UpdateOnce
  BY <1>t, UpdateAssumption DEF SoloInv, JournalInv, ShapeInv, UpdateOnce, TypeOK
<1>1. CASE Lock(p)
  BY <1>1, <1>t, <1>i DEF Lock, SoloAt, Live, Pending, Whole, BootSeen, Runs, Committed, At, Inspecting, Goto, Raise, MainGoes, NextEffect
<1>2. CASE LockBusy(p)
  BY <1>2, <1>t, <1>i DEF LockBusy, SoloAt, Live, Pending, Whole, BootSeen, Runs, Committed, At, Inspecting, Goto, Raise, MainGoes, NextEffect
<1>3. CASE ResumeWait(p)
  <2> DEFINE r == [mem[p] EXCEPT !.stage = "openwrt_boot", !.status = "waiting"]
  <2>1. r.status = "waiting" /\ r.effects = mem[p].effects /\ r.bootId = mem[p].bootId
    BY <1>t DEF Record
  <2>2. mem'[p] = r /\ disk' = r /\ UNCHANGED <<kind, main, snapshot, device, current>>
    BY <1>3, <1>t DEF ResumeWait, StageSaved, Save
  <2> QED
    BY <1>3, <1>t, <1>i, <2>1, <2>2 DEF ResumeWait, SoloAt, Live, Pending, Whole, BootSeen, Runs, Committed, At, Inspecting, Goto, Raise, MainGoes, NextEffect
<1>4. CASE PlanChanged(p)
  BY <1>4, <1>t, <1>i DEF PlanChanged, SoloAt, Live, Pending, Whole, BootSeen, Runs, Committed, At, Inspecting, Goto, Raise, MainGoes, NextEffect
<1>5. CASE Prepare(p)
  <2> DEFINE r == [mem[p] EXCEPT !.stage = "prepare", !.status = "running"]
  <2>1. r.status = "running" /\ r.effects = mem[p].effects /\ r.bootId = mem[p].bootId
    BY <1>t DEF Record
  <2>2. mem'[p] = r /\ disk' = r /\ UNCHANGED <<kind, main, snapshot, device, current>>
    BY <1>5, <1>t DEF Prepare, StageSaved, Save
  <2> QED
    BY <1>5, <1>t, <1>i, <2>1, <2>2 DEF Prepare, SoloAt, Live, Pending, Whole, BootSeen, Runs, Committed, At, Inspecting, Goto, Raise, MainGoes, NextEffect
<1>6. CASE RefuseReplay(p)
  BY <1>6, <1>t, <1>i DEF RefuseReplay, SoloAt, Live, Pending, Whole, BootSeen, Runs, Committed, At, Inspecting, Goto, Raise, MainGoes, NextEffect
<1>7. CASE Backup(p)
  <2> DEFINE r == [mem[p] EXCEPT !.backup = TRUE]
  <2>1. r.status = mem[p].status /\ r.effects = mem[p].effects /\ r.bootId = mem[p].bootId
    BY <1>t DEF Record
  <2>2. mem'[p] = r /\ disk' = r
    BY <1>7, <1>t DEF Backup, Save
  <2>3. device'.os = device.os /\ device'.boot = device.boot /\ device'.outcome = device.outcome
    BY <1>7, <1>t DEF Backup, Device
  <2> QED
    BY <1>7, <1>t, <1>i, <2>1, <2>2, <2>3 DEF Backup, SoloAt, Live, Pending, Whole, BootSeen, Runs, Committed, At, Inspecting, Goto, Raise, MainGoes, NextEffect
<1>8. CASE CancelBackup(p)
  BY <1>8, <1>t, <1>i DEF CancelBackup, SoloAt, Live, Pending, Whole, BootSeen, Runs, Committed, At, Inspecting, Goto, Raise, MainGoes, NextEffect
<1>9. CASE EnterInstall(p)
  BY <1>9, <1>t, <1>i DEF EnterInstall, SoloAt, Live, Pending, Whole, BootSeen, Runs, Committed, At, Inspecting, Goto, Raise, MainGoes, NextEffect
<1>10. CASE EnterUpdate(p)
  <2> DEFINE r == [mem[p] EXCEPT !.bootId = device.boot]
  <2>1. r.status = mem[p].status /\ r.effects = mem[p].effects /\ r.bootId = device.boot
    BY <1>t DEF Record
  <2>2. mem'[p] = r /\ disk' = r /\ UNCHANGED <<kind, main, snapshot, device>>
    BY <1>10, <1>t DEF EnterUpdate, Save
  <2> QED
    BY <1>10, <1>t, <1>i, <2>1, <2>2 DEF EnterUpdate, SoloAt, Live, Pending, Whole, BootSeen, Runs, Committed, At, Inspecting, Goto, Raise, MainGoes, NextEffect, Device
<1>11. CASE PreflightFails(p)
  BY <1>11, <1>t, <1>i DEF PreflightFails, SoloAt, Live, Pending, Whole, BootSeen, Runs, Committed, At, Inspecting, Goto, Raise, MainGoes, NextEffect
<1> QED
  BY <1>1, <1>2, <1>3, <1>4, <1>5, <1>6, <1>7, <1>8, <1>9, <1>10, <1>11 DEF Decides

\* A write is recorded as done only when it is whole.
LEMMA SoloWrites ==
    ASSUME SoloInv, NEW p, Alone(p), Writes(p)
    PROVE  SoloAt(p)'
<1>t. /\ TypeOK /\ mem \in [Installers -> Record] /\ p \in Installers
      /\ snapshot \in [Installers -> Record] /\ NumEffects \in Effects
      /\ worker \in [Installers -> WorkerStates] /\ current \in [Installers -> Effects]
      /\ main \in [Installers -> MainStates] /\ snapshot[p] \in Record
      /\ mem[p] \in Record /\ disk \in Record /\ current[p] \in Effects /\ device \in Device
  BY NumEffectsAssumption DEF SoloInv, JournalInv, ShapeInv, TypeOK, Alone, Effects
<1>i. SoloAt(p) /\ At(p) /\ Inspecting /\ Kept(mem[p]) /\ UpdateOnce
  BY <1>t, UpdateAssumption DEF SoloInv, JournalInv, ShapeInv, UpdateOnce, TypeOK
<1>1. CASE SkipDone(p)
  BY <1>1, <1>t, <1>i DEF SkipDone, SoloAt, Live, Pending, Whole, BootSeen, Runs, Committed, At, Inspecting, Goto, Raise, MainGoes, NextEffect
<1>2. CASE RecoveryRequired(p)
  BY <1>2, <1>t, <1>i DEF RecoveryRequired, SoloAt, Live, Pending, Whole, BootSeen, Runs, Committed, At, Inspecting, Goto, Raise, MainGoes, NextEffect
<1>3. CASE CancelEffect(p)
  BY <1>3, <1>t, <1>i DEF CancelEffect, SoloAt, Live, Pending, Whole, BootSeen, Runs, Committed, At, Inspecting, Goto, Raise, MainGoes, NextEffect
<1>4. CASE EnterEffect(p)
  BY <1>4, <1>t, <1>i DEF EnterEffect, SoloAt, Live, Pending, Whole, BootSeen, Runs, Committed, At, Inspecting, Goto, Raise, MainGoes, NextEffect
<1>5. CASE JournalStart(p)
  <2>1. /\ Started(p).status = mem[p].status /\ Started(p).effects[current[p]] = "started"
        /\ \A e \in Effects : e # current[p] => Started(p).effects[e] = mem[p].effects[e]
        /\ Started(p).bootId = mem[p].bootId
    BY <1>t DEF Record, Started
  <2>2. mem'[p] = Started(p) /\ disk' \in {disk, Started(p)} /\ UNCHANGED <<kind, main, snapshot, device, current>>
    BY <1>5, <1>t DEF JournalStart, Save
  <2> QED
    BY <1>5, <1>t, <1>i, <2>1, <2>2 DEF JournalStart, UpdateOnce, SoloAt, Live, Pending, Whole, BootSeen, Runs, Committed, At, Inspecting, Goto, Raise, MainGoes, NextEffect
<1>6. CASE JournalStartFails(p)
  <2>1. /\ Started(p).status = mem[p].status /\ Started(p).effects[current[p]] = "started"
        /\ \A e \in Effects : e # current[p] => Started(p).effects[e] = mem[p].effects[e]
        /\ Started(p).bootId = mem[p].bootId
    BY <1>t DEF Record, Started
  <2>2. mem'[p] = Started(p) /\ disk' \in {disk, Started(p)} /\ UNCHANGED <<kind, main, snapshot, device, current>>
    BY <1>6, <1>t DEF JournalStartFails, Save
  <2> QED
    BY <1>6, <1>t, <1>i, <2>1, <2>2 DEF JournalStartFails, UpdateOnce, SoloAt, Live, Pending, Whole, BootSeen, Runs, Committed, At, Inspecting, Goto, Raise, MainGoes, NextEffect
<1>7. CASE OperationFails(p)
  BY <1>7, <1>t, <1>i DEF OperationFails, SoloAt, Live, Pending, Whole, BootSeen, Runs, Committed, At, Inspecting, Goto, Raise, MainGoes, NextEffect
<1>8. CASE BeginWrite(p)
  <2>1. /\ device'.os = device.os /\ device'.boot = device.boot
        /\ \A e \in Effects : e # current[p] => device'.outcome[e] = device.outcome[e]
    BY <1>8, <1>t DEF BeginWrite, Device
  <2>2. mem[p].effects[current[p]] = "started" /\ disk.effects[current[p]] # "done"
    BY <1>8, <1>t, <1>i DEF BeginWrite, At, SoloAt, Live
  <2> QED
    BY <1>8, <1>t, <1>i, <2>1, <2>2 DEF BeginWrite, SoloAt, Live, Pending, Whole, BootSeen, Runs, Committed, At, Inspecting, Goto, Raise, MainGoes, NextEffect
<1>9. CASE WriteDone(p)
  <2>1. /\ device'.os = device.os /\ device'.boot = device.boot
        /\ \A e \in Effects : device.outcome[e] = "written" => device'.outcome[e] = "written"
        /\ device'.outcome[current[p]] = "written"
    BY <1>9, <1>t DEF WriteDone, Device
  <2> QED
    BY <1>9, <1>t, <1>i, <2>1 DEF WriteDone, SoloAt, Live, Pending, Whole, BootSeen, Runs, Committed, At, Inspecting, Goto, Raise, MainGoes, NextEffect
<1>10. CASE WriteFails(p)
  <2>1. /\ device'.os = device.os /\ device'.boot = device.boot
        /\ \A e \in Effects : device.outcome[e] = "written" => device'.outcome[e] = "written"
    BY <1>10, <1>t DEF WriteFails, Device
  <2> QED
    BY <1>10, <1>t, <1>i, <2>1 DEF WriteFails, SoloAt, Live, Pending, Whole, BootSeen, Runs, Committed, At, Inspecting, Goto, Raise, MainGoes, NextEffect
<1>11. CASE JournalDone(p)
  <2>1. /\ Done(p).status = mem[p].status /\ Done(p).effects[current[p]] = "done"
        /\ \A e \in Effects : e # current[p] => Done(p).effects[e] = mem[p].effects[e]
        /\ Done(p).bootId = mem[p].bootId
    BY <1>t DEF Record, Done
  <2>2. mem'[p] = Done(p) /\ disk' \in {disk, Done(p)} /\ UNCHANGED <<kind, main, snapshot, device, current>>
    BY <1>11, <1>t DEF JournalDone, Save
  <2> QED
    BY <1>11, <1>t, <1>i, <2>1, <2>2 DEF JournalDone, UpdateOnce, SoloAt, Live, Pending, Whole, BootSeen, Runs, Committed, At, Inspecting, Goto, Raise, MainGoes, NextEffect
<1>12. CASE JournalDoneFails(p)
  <2>1. /\ Done(p).status = mem[p].status /\ Done(p).effects[current[p]] = "done"
        /\ \A e \in Effects : e # current[p] => Done(p).effects[e] = mem[p].effects[e]
        /\ Done(p).bootId = mem[p].bootId
    BY <1>t DEF Record, Done
  <2>2. mem'[p] = Done(p) /\ disk' \in {disk, Done(p)} /\ UNCHANGED <<kind, main, snapshot, device, current>>
    BY <1>12, <1>t DEF JournalDoneFails, Save
  <2> QED
    BY <1>12, <1>t, <1>i, <2>1, <2>2 DEF JournalDoneFails, UpdateOnce, SoloAt, Live, Pending, Whole, BootSeen, Runs, Committed, At, Inspecting, Goto, Raise, MainGoes, NextEffect
<1>13. CASE Boundary(p)
  BY <1>13, <1>t, <1>i DEF Boundary, UpdateOnce, Effects, SoloAt, Live, Pending, Whole, BootSeen, Runs, Committed, At, Inspecting, Goto, Raise, MainGoes, NextEffect
<1>14. CASE CancelBoundary(p)
  BY <1>14, <1>t, <1>i DEF CancelBoundary, SoloAt, Live, Pending, Whole, BootSeen, Runs, Committed, At, Inspecting, Goto, Raise, MainGoes, NextEffect
<1> QED
  BY <1>1, <1>2, <1>3, <1>4, <1>5, <1>6, <1>7, <1>8, <1>9, <1>10, <1>11, <1>12, <1>13, <1>14 DEF Writes

\* The system that answers is the installed one.
LEMMA SoloWaits ==
    ASSUME SoloInv, NEW p, Alone(p), Waits(p)
    PROVE  SoloAt(p)'
<1>t. /\ TypeOK /\ mem \in [Installers -> Record] /\ p \in Installers
      /\ snapshot \in [Installers -> Record] /\ NumEffects \in Effects
      /\ worker \in [Installers -> WorkerStates] /\ current \in [Installers -> Effects]
      /\ main \in [Installers -> MainStates] /\ snapshot[p] \in Record
      /\ mem[p] \in Record /\ disk \in Record /\ current[p] \in Effects /\ device \in Device
  BY NumEffectsAssumption DEF SoloInv, JournalInv, ShapeInv, TypeOK, Alone, Effects
<1>i. SoloAt(p) /\ At(p) /\ Inspecting /\ Kept(mem[p]) /\ UpdateOnce
  BY <1>t, UpdateAssumption DEF SoloInv, JournalInv, ShapeInv, UpdateOnce, TypeOK
<1>1. CASE AwaitBoot(p)
  <2> DEFINE r == [mem[p] EXCEPT !.stage = "openwrt_boot", !.status = "waiting"]
  <2>1. r.status = "waiting" /\ r.effects = mem[p].effects /\ r.bootId = mem[p].bootId
    BY <1>t DEF Record
  <2>2. mem'[p] = r /\ disk' = r /\ UNCHANGED <<kind, main, snapshot, device, current>>
    BY <1>1, <1>t DEF AwaitBoot, StageSaved, Save
  <2> QED
    BY <1>1, <1>t, <1>i, <2>1, <2>2 DEF AwaitBoot, SoloAt, Live, Pending, Whole, BootSeen, Runs, Committed, At, Inspecting, Goto, Raise, MainGoes, NextEffect
<1>2. CASE Poll(p)
  BY <1>2, <1>t, <1>i DEF Poll, SoloAt, Live, Pending, Whole, BootSeen, Runs, Committed, At, Inspecting, Goto, Raise, MainGoes, NextEffect
<1>3. CASE CancelPoll(p)
  BY <1>3, <1>t, <1>i DEF CancelPoll, SoloAt, Live, Pending, Whole, BootSeen, Runs, Committed, At, Inspecting, Goto, Raise, MainGoes, NextEffect
<1>4. CASE Unreachable(p)
  <2> DEFINE r == [mem[p] EXCEPT !.stage = "openwrt_boot", !.status = "waiting"]
  <2>1. r.status = "waiting" /\ r.effects = mem[p].effects /\ r.bootId = mem[p].bootId
    BY <1>t DEF Record
  <2>2. mem'[p] = r /\ disk' = r /\ UNCHANGED <<kind, main, snapshot, device, current>>
    BY <1>4, <1>t DEF Unreachable, StageSaved, Save
  <2> QED
    BY <1>4, <1>t, <1>i, <2>1, <2>2 DEF Unreachable, SoloAt, Live, Pending, Whole, BootSeen, Runs, Committed, At, Inspecting, Goto, Raise, MainGoes, NextEffect
<1>5. CASE Answered(p)
  <2> DEFINE r == [mem[p] EXCEPT !.stage = "verify_capacity", !.status = "running"]
  <2>1. r.status = "running" /\ r.effects = mem[p].effects /\ r.bootId = mem[p].bootId
    BY <1>t DEF Record
  <2>2. mem'[p] = r /\ disk' = r /\ UNCHANGED <<kind, main, snapshot, device, current>>
    BY <1>5, <1>t DEF Answered, StageSaved, Save
  <2> QED
    BY <1>5, <1>t, <1>i, <2>1, <2>2 DEF Answered, Answers, SoloAt, Live, Pending, Whole, BootSeen, Runs, Committed, At, Inspecting, Goto, Raise, MainGoes, NextEffect
<1>6. CASE PollFails(p)
  BY <1>6, <1>t, <1>i DEF PollFails, SoloAt, Live, Pending, Whole, BootSeen, Runs, Committed, At, Inspecting, Goto, Raise, MainGoes, NextEffect
<1>7. CASE ConnectionLost(p)
  <2> DEFINE r == [mem[p] EXCEPT !.stage = "openwrt_boot", !.status = "waiting"]
  <2>1. r.status = "waiting" /\ r.effects = mem[p].effects /\ r.bootId = mem[p].bootId
    BY <1>t DEF Record
  <2>2. mem'[p] = r /\ disk' = r /\ UNCHANGED <<kind, main, snapshot, device, current>>
    BY <1>7, <1>t DEF ConnectionLost, StageSaved, Save
  <2> QED
    BY <1>7, <1>t, <1>i, <2>1, <2>2 DEF ConnectionLost, SoloAt, Live, Pending, Whole, BootSeen, Runs, Committed, At, Inspecting, Goto, Raise, MainGoes, NextEffect
<1>8. CASE CapacityMismatch(p)
  BY <1>8, <1>t, <1>i DEF CapacityMismatch, SoloAt, Live, Pending, Whole, BootSeen, Runs, Committed, At, Inspecting, Goto, Raise, MainGoes, NextEffect
<1>9. CASE Complete(p)
  <2> DEFINE r == [mem[p] EXCEPT !.stage = "complete", !.status = "completed"]
  <2>1. r.status = "completed" /\ r.effects = mem[p].effects /\ r.bootId = mem[p].bootId
    BY <1>t DEF Record
  <2>2. mem'[p] = r /\ disk' = r /\ UNCHANGED <<kind, main, snapshot, device, current>>
    BY <1>9, <1>t DEF Complete, StageSaved, Save
  <2> QED
    BY <1>9, <1>t, <1>i, <2>1, <2>2 DEF Complete, SoloAt, Live, Pending, Whole, BootSeen, Runs, Committed, At, Inspecting, Goto, Raise, MainGoes, NextEffect
<1> QED
  BY <1>1, <1>2, <1>3, <1>4, <1>5, <1>6, <1>7, <1>8, <1>9 DEF Waits

\* The handlers change nothing but the status.
LEMMA SoloReports ==
    ASSUME SoloInv, NEW p, Alone(p), Reports(p)
    PROVE  SoloAt(p)'
<1>t. /\ TypeOK /\ mem \in [Installers -> Record] /\ p \in Installers
      /\ snapshot \in [Installers -> Record] /\ NumEffects \in Effects
      /\ worker \in [Installers -> WorkerStates] /\ current \in [Installers -> Effects]
      /\ main \in [Installers -> MainStates] /\ snapshot[p] \in Record
      /\ mem[p] \in Record /\ disk \in Record /\ current[p] \in Effects /\ device \in Device
  BY NumEffectsAssumption DEF SoloInv, JournalInv, ShapeInv, TypeOK, Alone, Effects
<1>i. SoloAt(p) /\ At(p) /\ Inspecting /\ Kept(mem[p]) /\ UpdateOnce
  BY <1>t, UpdateAssumption DEF SoloInv, JournalInv, ShapeInv, UpdateOnce, TypeOK
<1>1. CASE ReportFailure(p)
  <2> DEFINE r == [mem[p] EXCEPT !.stage = mem[p].stage, !.status = "failed"]
  <2>1. r.status = "failed" /\ r.effects = mem[p].effects /\ r.bootId = mem[p].bootId
    BY <1>t DEF Record
  <2>2. mem'[p] = r /\ disk' = r /\ UNCHANGED <<kind, main, snapshot, device, current>>
    BY <1>1, <1>t DEF ReportFailure, StageSaved, Save
  <2> QED
    BY <1>1, <1>t, <1>i, <2>1, <2>2 DEF ReportFailure, SoloAt, Live, Pending, Whole, BootSeen, Runs, Committed, At, Inspecting, Goto, Raise, MainGoes, NextEffect
<1>2. CASE ReportCancel(p)
  <2> DEFINE r == [mem[p] EXCEPT !.stage = mem[p].stage, !.status = "cancelled"]
  <2>1. r.status = "cancelled" /\ r.effects = mem[p].effects /\ r.bootId = mem[p].bootId
    BY <1>t DEF Record
  <2>2. mem'[p] = r /\ disk' = r /\ UNCHANGED <<kind, main, snapshot, device, current>>
    BY <1>2, <1>t DEF ReportCancel, StageSaved, Save
  <2> QED
    BY <1>2, <1>t, <1>i, <2>1, <2>2 DEF ReportCancel, SoloAt, Live, Pending, Whole, BootSeen, Runs, Committed, At, Inspecting, Goto, Raise, MainGoes, NextEffect
<1>3. CASE ReportLost(p)
  BY <1>3, <1>t, <1>i DEF ReportLost, SoloAt, Live, Pending, Whole, BootSeen, Runs, Committed, At, Inspecting, Goto, Raise, MainGoes, NextEffect
<1> QED
  BY <1>1, <1>2, <1>3 DEF Reports

LEMMA SoloInit == ASSUME Init, NEW p, Alone(p) PROVE SoloInv
<1>1. /\ Planned.status = "ready" /\ Planned.bootId = -1
      /\ \A e \in Effects : Planned.effects[e] = "none"
  BY DEF Planned
<1>2. disk = Planned /\ \A q \in Installers : mem[q] = Planned /\ worker[q] = "none" /\ main[q] = "idle"
  BY DEF Init
<1>3. NumEffects \in Effects
  BY NumEffectsAssumption DEF Effects
<1>4. \A q \in Installers : SoloAt(q)
  BY <1>1, <1>2, <1>3 DEF SoloAt, Live, Pending, Whole, BootSeen, Runs, Committed
<1> QED
  BY <1>4, JournalInit DEF SoloInv

LEMMA SoloStep == ASSUME SoloInv, [Next]_vars, NEW p, Alone(p) PROVE SoloInv'
<1>1. JournalInv'
  BY JournalStep DEF SoloInv
<1>2. Installers = {p} /\ SoloAt(p)
  BY DEF Alone, SoloInv
<1>3. CASE DeviceReboots
  <2>1. device \in Device /\ worker \in [Installers -> WorkerStates] /\ NumEffects \in Effects
    BY NumEffectsAssumption DEF SoloInv, JournalInv, ShapeInv, TypeOK, Effects
  <2>2. device'.outcome = device.outcome /\ UNCHANGED <<kind, disk, mem, main, worker, current, snapshot>>
    BY <1>3, <2>1 DEF DeviceReboots, Device
  <2>3. device.outcome[NumEffects] = "written" => device'.os = "new"
    BY <1>3, <2>1 DEF DeviceReboots, Device
  <2>4. worker[p] \notin {"effect", "journaling", "begin", "write", "verify"}
    BY <1>2, <1>3 DEF DeviceReboots
  <2>5. Whole(disk)' /\ Whole(mem[p])' /\ BootSeen(disk)' /\ BootSeen(mem[p])'
    BY <1>2, <2>1, <2>2, <2>3 DEF SoloAt, Whole, BootSeen, Committed
  <2>6. Runs(disk)' /\ Runs(mem[p])'
    <3>1. Sound(disk) /\ Sound(mem[p])
      BY <1>2 DEF SoloInv, JournalInv, ShapeInv, Kept
    <3> QED
      BY <1>2, <2>1, <2>2, <2>3, <3>1 DEF SoloAt, Whole, Runs, Sound, Committed
  <2>7. (main[p] = "saving" => BootSeen(snapshot[p]))'
    BY <1>2, <2>1, <2>2, <2>3 DEF SoloAt, Pending, Whole, BootSeen, Committed
  <2>8. worker[p] = "commit" /\ kind = "update" => device'.os = "new"
    <3>1. kind = "update" => NumEffects = 1
      BY UpdateAssumption DEF SoloInv, JournalInv, ShapeInv, TypeOK
    <3>2. current[p] \in Effects
      BY <1>2 DEF SoloInv, JournalInv, ShapeInv, TypeOK
    <3> QED
      BY <1>2, <2>3, <3>1, <3>2 DEF SoloAt, Effects
  <2> QED
    BY <1>1, <1>2, <2>2, <2>4, <2>5, <2>6, <2>7, <2>8 DEF SoloInv, SoloAt, Live, Pending
<1>4. CASE UNCHANGED vars
  BY <1>1, <1>2, <1>4 DEF vars, SoloInv, SoloAt, Live, Pending, Whole, BootSeen, Runs, Committed
<1>5. CASE User(p) \/ MainSaves(p) \/ Joined(p) \/ Crash(p)
  BY <1>1, <1>2, <1>5, SoloMain DEF SoloInv
<1>6. CASE Worker(p)
  BY <1>1, <1>2, <1>6, SoloDecides, SoloWrites, SoloWaits, SoloReports DEF SoloInv, Worker
<1> QED
  BY <1>2, <1>3, <1>4, <1>5, <1>6 DEF Next

\* A single installer never records a write as done that is not on the device, whole,
\* even when its journal is overwritten by that of a cancel (Context.effect).
THEOREM TruthfulAlone ==
    ASSUME NEW p, Alone(p)
    PROVE  Spec => []JournalTruthful
<1>1. Init => SoloInv
  BY SoloInit
<1>2. SoloInv /\ [Next]_vars => SoloInv'
  BY SoloStep
<1>3. SoloInv => JournalTruthful
  BY DEF SoloInv, SoloAt, Whole, JournalTruthful, Alone
<1> QED
  BY <1>1, <1>2, <1>3, PTL DEF Spec

LEMMA SoloCompleted == ASSUME SoloInv, NEW p, Alone(p) PROVE CompletedOnNewSystem
<1> SUFFICES ASSUME disk.status = "completed"
             PROVE  device.os = "new" /\ \A e \in Effects : device.outcome[e] = "written"
  BY DEF CompletedOnNewSystem
<1>1. SoloAt(p) /\ Sound(disk) /\ disk \in Record
  BY DEF SoloInv, JournalInv, ShapeInv, Kept, TypeOK, Alone
<1>2. \A e \in Effects : disk.effects[e] = "done"
  BY <1>1, CommittedAll DEF Sound
<1> QED
  BY <1>1, <1>2 DEF SoloAt, Whole, Runs

\* What a single installer reports as completed is written whole and is the system
\* that runs, whatever is cancelled, crashes, restarts or is not saved on the way
\* (wait_openwrt, validate_ssh).
THEOREM CompletedRuns ==
    ASSUME NEW p, Alone(p)
    PROVE  Spec => []CompletedOnNewSystem
<1>1. Init => SoloInv
  BY SoloInit
<1>2. SoloInv /\ [Next]_vars => SoloInv'
  BY SoloStep
<1>3. SoloInv => CompletedOnNewSystem
  BY SoloCompleted
<1> QED
  BY <1>1, <1>2, <1>3, PTL DEF Spec

-----------------------------------------------------------------------------
(* The file *)

\* The unsafe flag says whether a write is marked as started.
Marked(r) == r.unsafe <=> \E e \in Effects : r.effects[e] = "started"

\* The flag agrees with the marks; what the process holds is ahead of the file,
\* with the same backup; and nothing was written before the backup was recorded.
FileAt(p) ==
    /\ Marked(disk) /\ Marked(mem[p])
    /\ Live(p) => /\ \A e \in Effects : /\ disk.effects[e] = "started" => mem[p].effects[e] # "none"
                                        /\ disk.effects[e] = "done" => mem[p].effects[e] = "done"
                  /\ disk.backup = mem[p].backup
    /\ kind # "update" =>
           /\ ~disk.backup => \A e \in Effects : device.begun[e] = 0
           /\ worker[p] \in InEntryPoint \ {"executing"} => mem[p].backup
    /\ BackupIsPristine

FileInv == OnceInv /\ \A p \in Installers : FileAt(p)

\* What a step may not do to the file.
Remembers ==
    /\ \A e \in Effects : /\ disk.effects[e] = "done" => disk'.effects[e] = "done"
                          /\ disk.effects[e] = "started" => disk'.effects[e] # "none"
    /\ disk.status = "completed" => disk' = disk

\* The main thread neither forgets a write nor the backup.
LEMMA FileMain ==
    ASSUME FileInv, NEW p, Undisturbed(p), User(p) \/ MainSaves(p) \/ Joined(p) \/ Crash(p)
    PROVE  FileAt(p)' /\ Remembers
<1>t. /\ TypeOK /\ mem \in [Installers -> Record] /\ p \in Installers
      /\ worker \in [Installers -> WorkerStates] /\ current \in [Installers -> Effects]
      /\ main \in [Installers -> MainStates]
      /\ mem[p] \in Record /\ disk \in Record /\ current[p] \in Effects /\ device \in Device
  BY DEF FileInv, OnceInv, JournalInv, ShapeInv, TypeOK, Undisturbed
<1>i. FileAt(p) /\ OnceAt(p) /\ At(p) /\ Inspecting /\ Kept(mem[p])
  BY <1>t DEF FileInv, OnceInv, JournalInv, ShapeInv
<1>1. CASE Load(p)
  BY <1>1, <1>t, <1>i DEF Load, FileAt, OnceAt, Live, Remembers, BackupIsPristine, Marked, At, InEntryPoint, Inspecting, Goto, Raise, MainGoes, NextEffect
<1>2. CASE Reject(p)
  BY <1>2, <1>t, <1>i DEF Reject, FileAt, OnceAt, Live, Remembers, BackupIsPristine, Marked, At, InEntryPoint, Inspecting, Goto, Raise, MainGoes, NextEffect
<1>3. CASE Launch(p)
  <2> DEFINE r == [mem[p] EXCEPT !.cancel = FALSE]
  <2>1. r.effects = mem[p].effects /\ r.unsafe = mem[p].unsafe /\ r.backup = mem[p].backup
    BY <1>t DEF Record
  <2>2. mem'[p] = r /\ disk' = mem[p] /\ UNCHANGED <<kind, device, current>>
    BY <1>3, <1>t DEF Launch, Save
  <2> QED
    BY <1>3, <1>t, <1>i, <2>1, <2>2 DEF Launch, FileAt, OnceAt, Live, Remembers, BackupIsPristine, Marked, At, InEntryPoint, Inspecting, Goto, Raise, MainGoes, NextEffect
<1>4. CASE Cancel(p)
  <2>1. spent.cancels \in Nat /\ spent.cancels < 0
    BY <1>4, <1>t DEF Cancel, TypeOK, Undisturbed
  <2> QED
    BY <2>1
<1>5. CASE SerialiseJournal(p)
  BY <1>5, <1>t, <1>i DEF SerialiseJournal, FileAt, OnceAt, Live, Remembers, BackupIsPristine, Marked, At, InEntryPoint, Inspecting, Goto, Raise, MainGoes, NextEffect
<1>6. CASE SerialiseFlags(p)
  BY <1>6, <1>t, <1>i DEF SerialiseFlags, FileAt, OnceAt, Live, Remembers, BackupIsPristine, Marked, At, InEntryPoint, Inspecting, Goto, Raise, MainGoes, NextEffect
<1>7. CASE SerialiseFails(p)
  BY <1>7, <1>t, <1>i DEF SerialiseFails, FileAt, OnceAt, Live, Remembers, BackupIsPristine, Marked, At, InEntryPoint, Inspecting, Goto, Raise, MainGoes, NextEffect
<1>8. CASE ReplaceJournal(p)
  BY <1>8, <1>t, <1>i DEF ReplaceJournal, FileAt, OnceAt, Live, Remembers, BackupIsPristine, Marked, At, InEntryPoint, Inspecting, Goto, Raise, MainGoes, NextEffect
<1>9. CASE Close(p)
  BY <1>9, <1>t, <1>i DEF Close, FileAt, OnceAt, Live, Remembers, BackupIsPristine, Marked, At, InEntryPoint, Inspecting, Goto, Raise, MainGoes, NextEffect
<1>10. CASE Joined(p)
  BY <1>10, <1>t, <1>i DEF Joined, FileAt, OnceAt, Live, Remembers, BackupIsPristine, Marked, At, InEntryPoint, Inspecting, Goto, Raise, MainGoes, NextEffect
<1>11. CASE Open(p)
  BY <1>11, <1>t, <1>i DEF Open, FileAt, OnceAt, Live, Remembers, BackupIsPristine, Marked, At, InEntryPoint, Inspecting, Goto, Raise, MainGoes, NextEffect
<1>12. CASE Crash(p)
  <2>1. device'.begun = device.begun /\ device'.backup = device.backup
    BY <1>12, <1>t DEF Crash, Device
  <2> QED
    BY <1>12, <1>t, <1>i, <2>1 DEF Crash, FileAt, OnceAt, Live, Remembers, BackupIsPristine, Marked, At, InEntryPoint, Inspecting, Goto, Raise, MainGoes, NextEffect
<1> QED
  BY <1>1, <1>2, <1>3, <1>4, <1>5, <1>6, <1>7, <1>8, <1>9, <1>10, <1>11, <1>12 DEF User, MainSaves

\* The backup is taken before anything is written.
LEMMA FileDecides ==
    ASSUME FileInv, NEW p, Undisturbed(p), Decides(p)
    PROVE  FileAt(p)' /\ Remembers
<1>t. /\ TypeOK /\ mem \in [Installers -> Record] /\ p \in Installers
      /\ worker \in [Installers -> WorkerStates] /\ current \in [Installers -> Effects]
      /\ main \in [Installers -> MainStates]
      /\ mem[p] \in Record /\ disk \in Record /\ current[p] \in Effects /\ device \in Device
  BY DEF FileInv, OnceInv, JournalInv, ShapeInv, TypeOK, Undisturbed
<1>i. FileAt(p) /\ OnceAt(p) /\ At(p) /\ Inspecting /\ Kept(mem[p])
  BY <1>t DEF FileInv, OnceInv, JournalInv, ShapeInv
<1>1. CASE Lock(p)
  BY <1>1, <1>t, <1>i DEF Lock, FileAt, OnceAt, Live, Remembers, BackupIsPristine, Marked, At, InEntryPoint, Inspecting, Goto, Raise, MainGoes, NextEffect
<1>2. CASE LockBusy(p)
  BY <1>2, <1>t, <1>i DEF LockBusy, FileAt, OnceAt, Live, Remembers, BackupIsPristine, Marked, At, InEntryPoint, Inspecting, Goto, Raise, MainGoes, NextEffect
<1>3. CASE ResumeWait(p)
  <2> DEFINE r == [mem[p] EXCEPT !.stage = "openwrt_boot", !.status = "waiting"]
  <2>1. r.effects = mem[p].effects /\ r.unsafe = mem[p].unsafe /\ r.backup = mem[p].backup
    BY <1>t DEF Record
  <2>2. mem'[p] = r /\ disk' = r /\ UNCHANGED <<kind, main, device, current>>
    BY <1>3, <1>t DEF ResumeWait, StageSaved, Save
  <2> QED
    BY <1>3, <1>t, <1>i, <2>1, <2>2 DEF ResumeWait, FileAt, OnceAt, Live, Remembers, BackupIsPristine, Marked, At, InEntryPoint, Inspecting, Goto, Raise, MainGoes, NextEffect
<1>4. CASE PlanChanged(p)
  BY <1>4, <1>t, <1>i DEF PlanChanged, FileAt, OnceAt, Live, Remembers, BackupIsPristine, Marked, At, InEntryPoint, Inspecting, Goto, Raise, MainGoes, NextEffect
<1>5. CASE Prepare(p)
  <2> DEFINE r == [mem[p] EXCEPT !.stage = "prepare", !.status = "running"]
  <2>1. r.effects = mem[p].effects /\ r.unsafe = mem[p].unsafe /\ r.backup = mem[p].backup
    BY <1>t DEF Record
  <2>2. mem'[p] = r /\ disk' = r /\ UNCHANGED <<kind, main, device, current>>
    BY <1>5, <1>t DEF Prepare, StageSaved, Save
  <2> QED
    BY <1>5, <1>t, <1>i, <2>1, <2>2 DEF Prepare, FileAt, OnceAt, Live, Remembers, BackupIsPristine, Marked, At, InEntryPoint, Inspecting, Goto, Raise, MainGoes, NextEffect
<1>6. CASE RefuseReplay(p)
  BY <1>6, <1>t, <1>i DEF RefuseReplay, FileAt, OnceAt, Live, Remembers, BackupIsPristine, Marked, At, InEntryPoint, Inspecting, Goto, Raise, MainGoes, NextEffect
<1>7. CASE Backup(p)
  <2> DEFINE r == [mem[p] EXCEPT !.backup = TRUE]
  <2>1. r.effects = mem[p].effects /\ r.unsafe = mem[p].unsafe /\ r.backup
    BY <1>t DEF Record
  <2>2. mem'[p] = r /\ disk' = r /\ UNCHANGED <<kind, main, worker, current>>
    BY <1>7, <1>t DEF Backup, Save
  <2>3. \A e \in Effects : device.begun[e] = 0
    BY <1>7, <1>t, <1>i DEF Backup, FileAt, Live
  <2>4. device'.begun = device.begun /\ device'.backup = "pristine"
    BY <1>7, <1>t, <2>3 DEF Backup, Device
  <2> QED
    BY <1>7, <1>t, <1>i, <2>1, <2>2, <2>4 DEF Backup, FileAt, OnceAt, Live, Remembers, BackupIsPristine, Marked, At, InEntryPoint, Inspecting, Goto, Raise, MainGoes, NextEffect
<1>8. CASE CancelBackup(p)
  BY <1>8, <1>t, <1>i DEF CancelBackup, FileAt, OnceAt, Live, Remembers, BackupIsPristine, Marked, At, InEntryPoint, Inspecting, Goto, Raise, MainGoes, NextEffect
<1>9. CASE EnterInstall(p)
  BY <1>9, <1>t, <1>i DEF EnterInstall, FileAt, OnceAt, Live, Remembers, BackupIsPristine, Marked, At, InEntryPoint, Inspecting, Goto, Raise, MainGoes, NextEffect
<1>10. CASE EnterUpdate(p)
  <2> DEFINE r == [mem[p] EXCEPT !.bootId = device.boot]
  <2>1. r.effects = mem[p].effects /\ r.unsafe = mem[p].unsafe /\ r.backup = mem[p].backup
    BY <1>t DEF Record
  <2>2. mem'[p] = r /\ disk' = r /\ UNCHANGED <<kind, main, device>>
    BY <1>10, <1>t DEF EnterUpdate, Save
  <2> QED
    BY <1>10, <1>t, <1>i, <2>1, <2>2 DEF EnterUpdate, FileAt, OnceAt, Live, Remembers, BackupIsPristine, Marked, At, InEntryPoint, Inspecting, Goto, Raise, MainGoes, NextEffect
<1>11. CASE PreflightFails(p)
  BY <1>11, <1>t, <1>i DEF PreflightFails, FileAt, OnceAt, Live, Remembers, BackupIsPristine, Marked, At, InEntryPoint, Inspecting, Goto, Raise, MainGoes, NextEffect
<1> QED
  BY <1>1, <1>2, <1>3, <1>4, <1>5, <1>6, <1>7, <1>8, <1>9, <1>10, <1>11 DEF Decides

\* The unsafe flag stands from the mark of a write to its result.
LEMMA FileWrites ==
    ASSUME FileInv, NEW p, Undisturbed(p), Writes(p)
    PROVE  FileAt(p)' /\ Remembers
<1>t. /\ TypeOK /\ mem \in [Installers -> Record] /\ p \in Installers
      /\ worker \in [Installers -> WorkerStates] /\ current \in [Installers -> Effects]
      /\ main \in [Installers -> MainStates]
      /\ mem[p] \in Record /\ disk \in Record /\ current[p] \in Effects /\ device \in Device
  BY DEF FileInv, OnceInv, JournalInv, ShapeInv, TypeOK, Undisturbed
<1>i. FileAt(p) /\ OnceAt(p) /\ At(p) /\ Inspecting /\ Kept(mem[p])
  BY <1>t DEF FileInv, OnceInv, JournalInv, ShapeInv
<1>1. CASE SkipDone(p)
  BY <1>1, <1>t, <1>i DEF SkipDone, FileAt, OnceAt, Live, Remembers, BackupIsPristine, Marked, At, InEntryPoint, Inspecting, Goto, Raise, MainGoes, NextEffect
<1>2. CASE RecoveryRequired(p)
  BY <1>2, <1>t, <1>i DEF RecoveryRequired, FileAt, OnceAt, Live, Remembers, BackupIsPristine, Marked, At, InEntryPoint, Inspecting, Goto, Raise, MainGoes, NextEffect
<1>3. CASE CancelEffect(p)
  BY <1>3, <1>t, <1>i DEF CancelEffect, FileAt, OnceAt, Live, Remembers, BackupIsPristine, Marked, At, InEntryPoint, Inspecting, Goto, Raise, MainGoes, NextEffect
<1>4. CASE EnterEffect(p)
  BY <1>4, <1>t, <1>i DEF EnterEffect, FileAt, OnceAt, Live, Remembers, BackupIsPristine, Marked, At, InEntryPoint, Inspecting, Goto, Raise, MainGoes, NextEffect
<1>5. CASE JournalStart(p)
  <2>1. Started(p).unsafe = TRUE /\ Started(p).backup = mem[p].backup
    BY <1>t DEF Record, Started
  <2>2. mem'[p] = Started(p) /\ disk' = Started(p) /\ UNCHANGED <<kind, main, device, current>>
    BY <1>5, <1>t DEF JournalStart, Save
  <2>3. /\ Started(p).effects[current[p]] = "started" /\ Marked(Started(p))
        /\ \A e \in Effects : e # current[p] => Started(p).effects[e] = mem[p].effects[e]
    BY <1>5, <1>t, <1>i, <2>1, KeptStarted DEF JournalStart, Marked
  <2> QED
    BY <1>5, <1>t, <1>i, <2>1, <2>2, <2>3 DEF JournalStart, FileAt, OnceAt, Live, Remembers, BackupIsPristine, Marked, At, InEntryPoint, Inspecting, Goto, Raise, MainGoes, NextEffect
<1>6. CASE JournalStartFails(p)
  <2>1. Started(p).unsafe = TRUE /\ Started(p).backup = mem[p].backup
    BY <1>t DEF Record, Started
  <2>2. mem'[p] = Started(p) /\ disk' = disk /\ UNCHANGED <<kind, main, device, current>>
    BY <1>6, <1>t DEF JournalStartFails, Save
  <2>3. /\ Started(p).effects[current[p]] = "started" /\ Marked(Started(p))
        /\ \A e \in Effects : e # current[p] => Started(p).effects[e] = mem[p].effects[e]
    BY <1>6, <1>t, <1>i, <2>1, KeptStarted DEF JournalStartFails, Marked
  <2> QED
    BY <1>6, <1>t, <1>i, <2>1, <2>2, <2>3 DEF JournalStartFails, FileAt, OnceAt, Live, Remembers, BackupIsPristine, Marked, At, InEntryPoint, Inspecting, Goto, Raise, MainGoes, NextEffect
<1>7. CASE OperationFails(p)
  BY <1>7, <1>t, <1>i DEF OperationFails, FileAt, OnceAt, Live, Remembers, BackupIsPristine, Marked, At, InEntryPoint, Inspecting, Goto, Raise, MainGoes, NextEffect
<1>8. CASE BeginWrite(p)
  <2>1. device'.backup = device.backup
    BY <1>8, <1>t DEF BeginWrite, Device
  <2>2. kind # "update" => disk.backup
    BY <1>8, <1>t, <1>i DEF BeginWrite, FileAt, InEntryPoint, Live
  <2> QED
    BY <1>8, <1>t, <1>i, <2>1, <2>2 DEF BeginWrite, FileAt, OnceAt, Live, Remembers, BackupIsPristine, Marked, At, InEntryPoint, Inspecting, Goto, Raise, MainGoes, NextEffect
<1>9. CASE WriteDone(p)
  <2>1. device'.begun = device.begun /\ device'.backup = device.backup
    BY <1>9, <1>t DEF WriteDone, Device
  <2> QED
    BY <1>9, <1>t, <1>i, <2>1 DEF WriteDone, FileAt, OnceAt, Live, Remembers, BackupIsPristine, Marked, At, InEntryPoint, Inspecting, Goto, Raise, MainGoes, NextEffect
<1>10. CASE WriteFails(p)
  <2>1. device'.begun = device.begun /\ device'.backup = device.backup
    BY <1>10, <1>t DEF WriteFails, Device
  <2> QED
    BY <1>10, <1>t, <1>i, <2>1 DEF WriteFails, FileAt, OnceAt, Live, Remembers, BackupIsPristine, Marked, At, InEntryPoint, Inspecting, Goto, Raise, MainGoes, NextEffect
<1>11. CASE JournalDone(p)
  <2>1. Done(p).unsafe = FALSE /\ Done(p).backup = mem[p].backup
    BY <1>t DEF Record, Done
  <2>2. mem'[p] = Done(p) /\ disk' = Done(p) /\ UNCHANGED <<kind, main, device, current>>
    BY <1>11, <1>t DEF JournalDone, Save
  <2>3. /\ Done(p).effects[current[p]] = "done" /\ Marked(Done(p))
        /\ \A e \in Effects : e # current[p] => Done(p).effects[e] = mem[p].effects[e]
    BY <1>11, <1>t, <1>i, <2>1, KeptDone DEF JournalDone, Marked
  <2> QED
    BY <1>11, <1>t, <1>i, <2>1, <2>2, <2>3 DEF JournalDone, FileAt, OnceAt, Live, Remembers, BackupIsPristine, Marked, At, InEntryPoint, Inspecting, Goto, Raise, MainGoes, NextEffect
<1>12. CASE JournalDoneFails(p)
  <2>1. Done(p).unsafe = FALSE /\ Done(p).backup = mem[p].backup
    BY <1>t DEF Record, Done
  <2>2. mem'[p] = Done(p) /\ disk' = disk /\ UNCHANGED <<kind, main, device, current>>
    BY <1>12, <1>t DEF JournalDoneFails, Save
  <2>3. /\ Done(p).effects[current[p]] = "done" /\ Marked(Done(p))
        /\ \A e \in Effects : e # current[p] => Done(p).effects[e] = mem[p].effects[e]
    BY <1>12, <1>t, <1>i, <2>1, KeptDone DEF JournalDoneFails, Marked
  <2> QED
    BY <1>12, <1>t, <1>i, <2>1, <2>2, <2>3 DEF JournalDoneFails, FileAt, OnceAt, Live, Remembers, BackupIsPristine, Marked, At, InEntryPoint, Inspecting, Goto, Raise, MainGoes, NextEffect
<1>13. CASE Boundary(p)
  BY <1>13, <1>t, <1>i DEF Boundary, FileAt, OnceAt, Live, Remembers, BackupIsPristine, Marked, At, InEntryPoint, Inspecting, Goto, Raise, MainGoes, NextEffect
<1>14. CASE CancelBoundary(p)
  BY <1>14, <1>t, <1>i DEF CancelBoundary, FileAt, OnceAt, Live, Remembers, BackupIsPristine, Marked, At, InEntryPoint, Inspecting, Goto, Raise, MainGoes, NextEffect
<1> QED
  BY <1>1, <1>2, <1>3, <1>4, <1>5, <1>6, <1>7, <1>8, <1>9, <1>10, <1>11, <1>12, <1>13, <1>14 DEF Writes

\* The wait keeps the journal of the writes.
LEMMA FileWaits ==
    ASSUME FileInv, NEW p, Undisturbed(p), Waits(p)
    PROVE  FileAt(p)' /\ Remembers
<1>t. /\ TypeOK /\ mem \in [Installers -> Record] /\ p \in Installers
      /\ worker \in [Installers -> WorkerStates] /\ current \in [Installers -> Effects]
      /\ main \in [Installers -> MainStates]
      /\ mem[p] \in Record /\ disk \in Record /\ current[p] \in Effects /\ device \in Device
  BY DEF FileInv, OnceInv, JournalInv, ShapeInv, TypeOK, Undisturbed
<1>i. FileAt(p) /\ OnceAt(p) /\ At(p) /\ Inspecting /\ Kept(mem[p])
  BY <1>t DEF FileInv, OnceInv, JournalInv, ShapeInv
<1>1. CASE AwaitBoot(p)
  <2> DEFINE r == [mem[p] EXCEPT !.stage = "openwrt_boot", !.status = "waiting"]
  <2>1. r.effects = mem[p].effects /\ r.unsafe = mem[p].unsafe /\ r.backup = mem[p].backup
    BY <1>t DEF Record
  <2>2. mem'[p] = r /\ disk' = r /\ UNCHANGED <<kind, main, device, current>>
    BY <1>1, <1>t DEF AwaitBoot, StageSaved, Save
  <2> QED
    BY <1>1, <1>t, <1>i, <2>1, <2>2 DEF AwaitBoot, FileAt, OnceAt, Live, Remembers, BackupIsPristine, Marked, At, InEntryPoint, Inspecting, Goto, Raise, MainGoes, NextEffect
<1>2. CASE Poll(p)
  BY <1>2, <1>t, <1>i DEF Poll, FileAt, OnceAt, Live, Remembers, BackupIsPristine, Marked, At, InEntryPoint, Inspecting, Goto, Raise, MainGoes, NextEffect
<1>3. CASE CancelPoll(p)
  BY <1>3, <1>t, <1>i DEF CancelPoll, FileAt, OnceAt, Live, Remembers, BackupIsPristine, Marked, At, InEntryPoint, Inspecting, Goto, Raise, MainGoes, NextEffect
<1>4. CASE Unreachable(p)
  <2> DEFINE r == [mem[p] EXCEPT !.stage = "openwrt_boot", !.status = "waiting"]
  <2>1. r.effects = mem[p].effects /\ r.unsafe = mem[p].unsafe /\ r.backup = mem[p].backup
    BY <1>t DEF Record
  <2>2. mem'[p] = r /\ disk' = r /\ UNCHANGED <<kind, main, device, current>>
    BY <1>4, <1>t DEF Unreachable, StageSaved, Save
  <2> QED
    BY <1>4, <1>t, <1>i, <2>1, <2>2 DEF Unreachable, FileAt, OnceAt, Live, Remembers, BackupIsPristine, Marked, At, InEntryPoint, Inspecting, Goto, Raise, MainGoes, NextEffect
<1>5. CASE Answered(p)
  <2> DEFINE r == [mem[p] EXCEPT !.stage = "verify_capacity", !.status = "running"]
  <2>1. r.effects = mem[p].effects /\ r.unsafe = mem[p].unsafe /\ r.backup = mem[p].backup
    BY <1>t DEF Record
  <2>2. mem'[p] = r /\ disk' = r /\ UNCHANGED <<kind, main, device, current>>
    BY <1>5, <1>t DEF Answered, StageSaved, Save
  <2> QED
    BY <1>5, <1>t, <1>i, <2>1, <2>2 DEF Answered, FileAt, OnceAt, Live, Remembers, BackupIsPristine, Marked, At, InEntryPoint, Inspecting, Goto, Raise, MainGoes, NextEffect
<1>6. CASE PollFails(p)
  BY <1>6, <1>t, <1>i DEF PollFails, FileAt, OnceAt, Live, Remembers, BackupIsPristine, Marked, At, InEntryPoint, Inspecting, Goto, Raise, MainGoes, NextEffect
<1>7. CASE ConnectionLost(p)
  <2> DEFINE r == [mem[p] EXCEPT !.stage = "openwrt_boot", !.status = "waiting"]
  <2>1. r.effects = mem[p].effects /\ r.unsafe = mem[p].unsafe /\ r.backup = mem[p].backup
    BY <1>t DEF Record
  <2>2. mem'[p] = r /\ disk' = r /\ UNCHANGED <<kind, main, device, current>>
    BY <1>7, <1>t DEF ConnectionLost, StageSaved, Save
  <2> QED
    BY <1>7, <1>t, <1>i, <2>1, <2>2 DEF ConnectionLost, FileAt, OnceAt, Live, Remembers, BackupIsPristine, Marked, At, InEntryPoint, Inspecting, Goto, Raise, MainGoes, NextEffect
<1>8. CASE CapacityMismatch(p)
  BY <1>8, <1>t, <1>i DEF CapacityMismatch, FileAt, OnceAt, Live, Remembers, BackupIsPristine, Marked, At, InEntryPoint, Inspecting, Goto, Raise, MainGoes, NextEffect
<1>9. CASE Complete(p)
  <2> DEFINE r == [mem[p] EXCEPT !.stage = "complete", !.status = "completed"]
  <2>1. r.effects = mem[p].effects /\ r.unsafe = mem[p].unsafe /\ r.backup = mem[p].backup
    BY <1>t DEF Record
  <2>2. mem'[p] = r /\ disk' = r /\ UNCHANGED <<kind, main, device, current>>
    BY <1>9, <1>t DEF Complete, StageSaved, Save
  <2> QED
    BY <1>9, <1>t, <1>i, <2>1, <2>2 DEF Complete, FileAt, OnceAt, Live, Remembers, BackupIsPristine, Marked, At, InEntryPoint, Inspecting, Goto, Raise, MainGoes, NextEffect
<1> QED
  BY <1>1, <1>2, <1>3, <1>4, <1>5, <1>6, <1>7, <1>8, <1>9 DEF Waits

\* So do the handlers.
LEMMA FileReports ==
    ASSUME FileInv, NEW p, Undisturbed(p), Reports(p)
    PROVE  FileAt(p)' /\ Remembers
<1>t. /\ TypeOK /\ mem \in [Installers -> Record] /\ p \in Installers
      /\ worker \in [Installers -> WorkerStates] /\ current \in [Installers -> Effects]
      /\ main \in [Installers -> MainStates]
      /\ mem[p] \in Record /\ disk \in Record /\ current[p] \in Effects /\ device \in Device
  BY DEF FileInv, OnceInv, JournalInv, ShapeInv, TypeOK, Undisturbed
<1>i. FileAt(p) /\ OnceAt(p) /\ At(p) /\ Inspecting /\ Kept(mem[p])
  BY <1>t DEF FileInv, OnceInv, JournalInv, ShapeInv
<1>1. CASE ReportFailure(p)
  <2> DEFINE r == [mem[p] EXCEPT !.stage = mem[p].stage, !.status = "failed"]
  <2>1. r.effects = mem[p].effects /\ r.unsafe = mem[p].unsafe /\ r.backup = mem[p].backup
    BY <1>t DEF Record
  <2>2. mem'[p] = r /\ disk' = r /\ UNCHANGED <<kind, main, device, current>>
    BY <1>1, <1>t DEF ReportFailure, StageSaved, Save
  <2> QED
    BY <1>1, <1>t, <1>i, <2>1, <2>2 DEF ReportFailure, FileAt, OnceAt, Live, Remembers, BackupIsPristine, Marked, At, InEntryPoint, Inspecting, Goto, Raise, MainGoes, NextEffect
<1>2. CASE ReportCancel(p)
  <2> DEFINE r == [mem[p] EXCEPT !.stage = mem[p].stage, !.status = "cancelled"]
  <2>1. r.effects = mem[p].effects /\ r.unsafe = mem[p].unsafe /\ r.backup = mem[p].backup
    BY <1>t DEF Record
  <2>2. mem'[p] = r /\ disk' = r /\ UNCHANGED <<kind, main, device, current>>
    BY <1>2, <1>t DEF ReportCancel, StageSaved, Save
  <2> QED
    BY <1>2, <1>t, <1>i, <2>1, <2>2 DEF ReportCancel, FileAt, OnceAt, Live, Remembers, BackupIsPristine, Marked, At, InEntryPoint, Inspecting, Goto, Raise, MainGoes, NextEffect
<1>3. CASE ReportLost(p)
  BY <1>3, <1>t, <1>i DEF ReportLost, FileAt, OnceAt, Live, Remembers, BackupIsPristine, Marked, At, InEntryPoint, Inspecting, Goto, Raise, MainGoes, NextEffect
<1> QED
  BY <1>1, <1>2, <1>3 DEF Reports

LEMMA FileInit == ASSUME Init, NEW p, Undisturbed(p) PROVE FileInv
<1>1. /\ ~Planned.unsafe /\ ~Planned.backup
      /\ \A e \in Effects : Planned.effects[e] = "none" /\ device.begun[e] = 0
      /\ device.backup = "none"
  BY DEF Planned, Init
<1>2. disk = Planned /\ \A q \in Installers : mem[q] = Planned /\ worker[q] = "none" /\ main[q] = "idle"
  BY DEF Init
<1>3. \A q \in Installers : FileAt(q)
  BY <1>1, <1>2 DEF FileAt, Live, Marked, BackupIsPristine, InEntryPoint
<1> QED
  BY <1>3, OnceInit DEF FileInv

LEMMA FileStep ==
    ASSUME FileInv, [Next]_vars, NEW p, Undisturbed(p)
    PROVE  FileInv' /\ Remembers
<1>1. OnceInv'
  BY OnceStep DEF FileInv
<1>2. Installers = {p} /\ FileAt(p)
  BY DEF Undisturbed, FileInv
<1>3. CASE DeviceReboots
  <2>1. device'.begun = device.begun /\ device'.backup = device.backup
    BY <1>3 DEF DeviceReboots, FileInv, OnceInv, JournalInv, ShapeInv, TypeOK, Device
  <2>2. UNCHANGED <<kind, disk, mem, main, worker, current>>
    BY <1>3 DEF DeviceReboots
  <2> QED
    BY <1>1, <1>2, <2>1, <2>2 DEF FileInv, FileAt, Live, Marked, BackupIsPristine, Remembers
<1>4. CASE UNCHANGED vars
  BY <1>1, <1>2, <1>4 DEF vars, FileInv, FileAt, Live, Marked, BackupIsPristine, Remembers
<1>5. CASE User(p) \/ MainSaves(p) \/ Joined(p) \/ Crash(p)
  BY <1>1, <1>2, <1>5, FileMain DEF FileInv
<1>6. CASE Worker(p)
  BY <1>1, <1>2, <1>6, FileDecides, FileWrites, FileWaits, FileReports DEF FileInv, Worker
<1> QED
  BY <1>2, <1>3, <1>4, <1>5, <1>6 DEF Next

\* The file of a single installer that is not asked to cancel is ahead of the device
\* and never forgets (JournalTruthful, WriteAhead, UnsafeFlag, NeverForgets,
\* CompletedIsFinal: Context.effect, Store.save, dispatch).
THEOREM FileStaysTrue ==
    ASSUME NEW p, Undisturbed(p)
    PROVE  Spec => FileIsTrue
<1>a. Alone(p)
  BY DEF Alone, Undisturbed
<1>1. Init => FileInv /\ SoloInv
  BY <1>a, FileInit, SoloInit
<1>2. FileInv /\ SoloInv /\ [Next]_vars => FileInv' /\ SoloInv'
  BY <1>a, FileStep, SoloStep
<1>3. FileInv /\ SoloInv => JournalTruthful /\ WriteAhead /\ UnsafeFlag
  <2> SUFFICES ASSUME FileInv, SoloInv PROVE JournalTruthful /\ WriteAhead /\ UnsafeFlag
    OBVIOUS
  <2>1. FileAt(p) /\ OnceAt(p) /\ SoloAt(p)
    BY DEF FileInv, OnceInv, SoloInv, Undisturbed
  <2> QED
    BY <2>1 DEF FileAt, OnceAt, SoloAt, Marked, Whole, JournalTruthful, WriteAhead, UnsafeFlag, Undisturbed
<1>4. FileInv /\ [Next]_vars =>
          [\A e \in Effects : /\ disk.effects[e] = "done" => disk'.effects[e] = "done"
                              /\ disk.effects[e] = "started" => disk'.effects[e] # "none"]_vars
  BY FileStep DEF Remembers
<1>5. FileInv /\ [Next]_vars => [disk.status = "completed" => disk' = disk]_vars
  BY FileStep DEF Remembers
<1> QED
  BY <1>1, <1>2, <1>3, <1>4, <1>5, PTL DEF Spec, FileIsTrue, NeverForgets, CompletedIsFinal

\* And what it completed runs, and its backup was taken before the first write
\* (adapter.backup, wait_openwrt).
THEOREM WayBack ==
    ASSUME NEW p, Undisturbed(p)
    PROVE  Spec => []CompletedOrRestorable
<1>a. Alone(p)
  BY DEF Alone, Undisturbed
<1>1. Init => FileInv /\ SoloInv
  BY <1>a, FileInit, SoloInit
<1>2. FileInv /\ SoloInv /\ [Next]_vars => FileInv' /\ SoloInv'
  BY <1>a, FileStep, SoloStep
<1>3. FileInv /\ SoloInv => CompletedOrRestorable
  BY <1>a, SoloCompleted DEF FileInv, FileAt, Undisturbed, CompletedOrRestorable
<1> QED
  BY <1>1, <1>2, <1>3, PTL DEF Spec

-----------------------------------------------------------------------------
(* Refinement *)

\* A step that leaves the device and the claim of completion alone stutters.
LEMMA Stutter ==
    ASSUME device'.begun = device.begun, device'.outcome = device.outcome,
           disk'.status = "completed" <=> disk.status = "completed"
    PROVE  UNCHANGED Journal!journal
  BY DEF Journal!journal

LEMMA RefineFinish ==
    ASSUME OnceInv, NEW c \in Effects, device.outcome[c] = "torn", UNCHANGED disk,
           device' = [device EXCEPT !.outcome[c] = "written"]
    PROVE  Journal!Next
<1>1. device \in Device
  BY DEF OnceInv, JournalInv, ShapeInv, TypeOK
<1>2. device'.begun = device.begun /\ device'.outcome = [device.outcome EXCEPT ![c] = "written"]
  BY <1>1 DEF Device
<1>3. Journal!Finish(c)
  BY <1>2 DEF Journal!Finish
<1> QED
  BY <1>3 DEF Journal!Next, Journal!Writes, Effects

LEMMA RefineBegin ==
    ASSUME OnceInv, NEW p \in Installers, BeginWrite(p)
    PROVE  Journal!Next
<1> DEFINE c == current[p]
<1>1. device \in Device /\ c \in Effects /\ worker[p] = "begin"
  BY DEF OnceInv, JournalInv, ShapeInv, TypeOK, BeginWrite
<1>2. OnceAt(p) /\ At(p)
  BY DEF OnceInv, JournalInv, ShapeInv
<1>3. device.begun[c] = 0
  BY <1>1, <1>2 DEF OnceAt
<1>4. \A d \in Effects : d < c => device.outcome[d] = "written"
  <2>1. Honest(mem[p])
    BY <1>1, <1>2 DEF OnceAt, Live
  <2> QED
    BY <1>1, <1>2, <2>1 DEF At, InEntryPoint, Honest
<1>5. device' = [device EXCEPT !.begun[c] = 1, !.outcome[c] = "torn"] /\ disk' = disk
  BY <1>3 DEF BeginWrite
<1>6. device'.begun = [device.begun EXCEPT ![c] = 1] /\ device'.outcome = [device.outcome EXCEPT ![c] = "torn"]
  BY <1>1, <1>5 DEF Device
<1>7. Journal!Begin(c)
  BY <1>3, <1>4, <1>5, <1>6 DEF Journal!Begin, Journal!Writes, Effects
<1> QED
  BY <1>1, <1>7 DEF Journal!Next, Journal!Writes, Effects

LEMMA RefineReport ==
    ASSUME OnceInv, NEW p \in Installers, Complete(p)
    PROVE  Journal!Next
<1>1. OnceAt(p) /\ At(p) /\ Kept(mem[p]) /\ mem[p] \in Record /\ mem \in [Installers -> Record]
  BY DEF OnceInv, JournalInv, ShapeInv, TypeOK
<1>2. worker[p] = "verify" /\ UNCHANGED device
  BY DEF Complete
<1>3. \A e \in Effects : mem[p].effects[e] = "done"
  BY <1>1, <1>2, CommittedAll DEF At, Kept, Sound
<1>4. \A e \in Effects : device.outcome[e] = "written"
  BY <1>1, <1>2, <1>3 DEF OnceAt, Live, Honest
<1>5. disk'.status = "completed"
  BY <1>1 DEF Complete, StageSaved, Save, Record
<1>6. Journal!Report
  BY <1>2, <1>4, <1>5 DEF Journal!Report, Journal!Writes, Effects
<1> QED
  BY <1>6 DEF Journal!Next

\* Steps of the main thread.
LEMMA RefineMain ==
    ASSUME OnceInv, OnceInv', NEW p, Undisturbed(p), User(p) \/ MainSaves(p) \/ Joined(p) \/ Crash(p)
    PROVE  [Journal!Next]_(Journal!journal)
<1>t. /\ p \in Installers /\ mem[p] \in Record /\ current[p] \in Effects /\ device \in Device
      /\ worker \in [Installers -> WorkerStates] /\ OnceAt(p) /\ OnceAt(p)'
  BY DEF OnceInv, JournalInv, ShapeInv, TypeOK, Undisturbed
<1>1. CASE Load(p)
  BY <1>1, <1>t, Stutter DEF Load, OnceAt, Live, Goto, Raise, MainGoes, NextEffect
<1>2. CASE Reject(p)
  BY <1>2, <1>t, Stutter DEF Reject, OnceAt, Live, Goto, Raise, MainGoes, NextEffect
<1>3. CASE Launch(p)
  BY <1>3, <1>t, Stutter DEF Launch, OnceAt, Live, Goto, Raise, MainGoes, NextEffect
<1>4. CASE Cancel(p)
  BY <1>4, <1>t, Stutter DEF Cancel
<1>5. CASE SerialiseJournal(p)
  BY <1>5, <1>t, Stutter DEF SerialiseJournal, OnceAt, Live, Goto, Raise, MainGoes, NextEffect
<1>6. CASE SerialiseFlags(p)
  BY <1>6, <1>t, Stutter DEF SerialiseFlags, OnceAt, Live, Goto, Raise, MainGoes, NextEffect
<1>7. CASE SerialiseFails(p)
  BY <1>7, <1>t, Stutter DEF SerialiseFails, OnceAt, Live, Goto, Raise, MainGoes, NextEffect
<1>8. CASE ReplaceJournal(p)
  BY <1>8, <1>t, Stutter DEF ReplaceJournal, OnceAt, Live, Goto, Raise, MainGoes, NextEffect
<1>9. CASE Close(p)
  BY <1>9, <1>t, Stutter DEF Close, OnceAt, Live, Goto, Raise, MainGoes, NextEffect
<1>10. CASE Joined(p)
  BY <1>10, <1>t, Stutter DEF Joined, OnceAt, Live, Goto, Raise, MainGoes, NextEffect
<1>11. CASE Open(p)
  BY <1>11, <1>t, Stutter DEF Open, OnceAt, Live, Goto, Raise, MainGoes, NextEffect
<1>12. CASE Crash(p)
  <2>1. disk' = disk
    BY <1>12 DEF Crash
  <2>2. CASE device' = device
    BY <2>1, <2>2, Stutter
  <2>3. CASE device' # device
    <3>1. worker[p] = "write" /\ device' = [device EXCEPT !.outcome[current[p]] = "written"]
      BY <1>12, <2>3 DEF Crash
    <3> QED
      BY <1>t, <2>1, <3>1, RefineFinish DEF OnceAt
  <2> QED
    BY <2>2, <2>3
<1> QED
  BY <1>1, <1>2, <1>3, <1>4, <1>5, <1>6, <1>7, <1>8, <1>9, <1>10, <1>11, <1>12 DEF User, MainSaves

\* Steps before the first write.
LEMMA RefineDecides ==
    ASSUME OnceInv, OnceInv', NEW p, Undisturbed(p), Decides(p)
    PROVE  [Journal!Next]_(Journal!journal)
<1>t. /\ p \in Installers /\ mem[p] \in Record /\ current[p] \in Effects /\ device \in Device
      /\ worker \in [Installers -> WorkerStates] /\ OnceAt(p) /\ OnceAt(p)'
  BY DEF OnceInv, JournalInv, ShapeInv, TypeOK, Undisturbed
<1>1. CASE Lock(p)
  BY <1>1, <1>t, Stutter DEF Lock, OnceAt, Live, Goto, Raise, MainGoes, NextEffect
<1>2. CASE LockBusy(p)
  BY <1>2, <1>t, Stutter DEF LockBusy, OnceAt, Live, Goto, Raise, MainGoes, NextEffect
<1>3. CASE ResumeWait(p)
  BY <1>3, <1>t, Stutter DEF ResumeWait, OnceAt, Live, Goto, Raise, MainGoes, NextEffect
<1>4. CASE PlanChanged(p)
  BY <1>4, <1>t, Stutter DEF PlanChanged, OnceAt, Live, Goto, Raise, MainGoes, NextEffect
<1>5. CASE Prepare(p)
  BY <1>5, <1>t, Stutter DEF Prepare, OnceAt, Live, Goto, Raise, MainGoes, NextEffect
<1>6. CASE RefuseReplay(p)
  BY <1>6, <1>t, Stutter DEF RefuseReplay, OnceAt, Live, Goto, Raise, MainGoes, NextEffect
<1>7. CASE Backup(p)
  <2>1. device'.begun = device.begun /\ device'.outcome = device.outcome
    BY <1>7, <1>t DEF Backup, Device
  <2> QED
    BY <1>7, <1>t, <2>1, Stutter DEF Backup, OnceAt, Live
<1>8. CASE CancelBackup(p)
  BY <1>8, <1>t, Stutter DEF CancelBackup, OnceAt, Live, Goto, Raise, MainGoes, NextEffect
<1>9. CASE EnterInstall(p)
  BY <1>9, <1>t, Stutter DEF EnterInstall, OnceAt, Live, Goto, Raise, MainGoes, NextEffect
<1>10. CASE EnterUpdate(p)
  BY <1>10, <1>t, Stutter DEF EnterUpdate, OnceAt, Live, Goto, Raise, MainGoes, NextEffect
<1>11. CASE PreflightFails(p)
  BY <1>11, <1>t, Stutter DEF PreflightFails, OnceAt, Live, Goto, Raise, MainGoes, NextEffect
<1> QED
  BY <1>1, <1>2, <1>3, <1>4, <1>5, <1>6, <1>7, <1>8, <1>9, <1>10, <1>11 DEF Decides

\* Steps around a write.
LEMMA RefineWrites ==
    ASSUME OnceInv, OnceInv', NEW p, Undisturbed(p), Writes(p)
    PROVE  [Journal!Next]_(Journal!journal)
<1>t. /\ p \in Installers /\ mem[p] \in Record /\ current[p] \in Effects /\ device \in Device
      /\ worker \in [Installers -> WorkerStates] /\ OnceAt(p) /\ OnceAt(p)'
  BY DEF OnceInv, JournalInv, ShapeInv, TypeOK, Undisturbed
<1>1. CASE SkipDone(p)
  BY <1>1, <1>t, Stutter DEF SkipDone, OnceAt, Live, Goto, Raise, MainGoes, NextEffect
<1>2. CASE RecoveryRequired(p)
  BY <1>2, <1>t, Stutter DEF RecoveryRequired, OnceAt, Live, Goto, Raise, MainGoes, NextEffect
<1>3. CASE CancelEffect(p)
  BY <1>3, <1>t, Stutter DEF CancelEffect, OnceAt, Live, Goto, Raise, MainGoes, NextEffect
<1>4. CASE EnterEffect(p)
  BY <1>4, <1>t, Stutter DEF EnterEffect, OnceAt, Live, Goto, Raise, MainGoes, NextEffect
<1>5. CASE JournalStart(p)
  BY <1>5, <1>t, Stutter DEF JournalStart, OnceAt, Live, Goto, Raise, MainGoes, NextEffect
<1>6. CASE JournalStartFails(p)
  BY <1>6, <1>t, Stutter DEF JournalStartFails, OnceAt, Live, Goto, Raise, MainGoes, NextEffect
<1>7. CASE OperationFails(p)
  BY <1>7, <1>t, Stutter DEF OperationFails, OnceAt, Live, Goto, Raise, MainGoes, NextEffect
<1>8. CASE BeginWrite(p)
  BY <1>8, <1>t, RefineBegin
<1>9. CASE WriteDone(p)
  <2>1. disk' = disk
    BY <1>9 DEF WriteDone
  <2>2. CASE device' = device
    BY <2>1, <2>2, Stutter
  <2>3. CASE device' # device
    <3>1. worker[p] = "write" /\ device' = [device EXCEPT !.outcome[current[p]] = "written"]
      BY <1>9, <2>3 DEF WriteDone
    <3> QED
      BY <1>t, <2>1, <3>1, RefineFinish DEF OnceAt
  <2> QED
    BY <2>2, <2>3
<1>10. CASE WriteFails(p)
  <2>1. disk' = disk
    BY <1>10 DEF WriteFails
  <2>2. CASE device' = device
    BY <2>1, <2>2, Stutter
  <2>3. CASE device' # device
    <3>1. worker[p] = "write" /\ device' = [device EXCEPT !.outcome[current[p]] = "written"]
      BY <1>10, <2>3 DEF WriteFails
    <3> QED
      BY <1>t, <2>1, <3>1, RefineFinish DEF OnceAt
  <2> QED
    BY <2>2, <2>3
<1>11. CASE JournalDone(p)
  BY <1>11, <1>t, Stutter DEF JournalDone, OnceAt, Live, Goto, Raise, MainGoes, NextEffect
<1>12. CASE JournalDoneFails(p)
  BY <1>12, <1>t, Stutter DEF JournalDoneFails, OnceAt, Live, Goto, Raise, MainGoes, NextEffect
<1>13. CASE Boundary(p)
  BY <1>13, <1>t, Stutter DEF Boundary, OnceAt, Live, Goto, Raise, MainGoes, NextEffect
<1>14. CASE CancelBoundary(p)
  BY <1>14, <1>t, Stutter DEF CancelBoundary, OnceAt, Live, Goto, Raise, MainGoes, NextEffect
<1> QED
  BY <1>1, <1>2, <1>3, <1>4, <1>5, <1>6, <1>7, <1>8, <1>9, <1>10, <1>11, <1>12, <1>13, <1>14 DEF Writes

\* Steps of the wait.
LEMMA RefineWaits ==
    ASSUME OnceInv, OnceInv', NEW p, Undisturbed(p), Waits(p)
    PROVE  [Journal!Next]_(Journal!journal)
<1>t. /\ p \in Installers /\ mem[p] \in Record /\ current[p] \in Effects /\ device \in Device
      /\ worker \in [Installers -> WorkerStates] /\ OnceAt(p) /\ OnceAt(p)'
  BY DEF OnceInv, JournalInv, ShapeInv, TypeOK, Undisturbed
<1>1. CASE AwaitBoot(p)
  BY <1>1, <1>t, Stutter DEF AwaitBoot, OnceAt, Live, Goto, Raise, MainGoes, NextEffect
<1>2. CASE Poll(p)
  BY <1>2, <1>t, Stutter DEF Poll, OnceAt, Live, Goto, Raise, MainGoes, NextEffect
<1>3. CASE CancelPoll(p)
  BY <1>3, <1>t, Stutter DEF CancelPoll, OnceAt, Live, Goto, Raise, MainGoes, NextEffect
<1>4. CASE Unreachable(p)
  BY <1>4, <1>t, Stutter DEF Unreachable, OnceAt, Live, Goto, Raise, MainGoes, NextEffect
<1>5. CASE Answered(p)
  BY <1>5, <1>t, Stutter DEF Answered, OnceAt, Live, Goto, Raise, MainGoes, NextEffect
<1>6. CASE PollFails(p)
  BY <1>6, <1>t, Stutter DEF PollFails, OnceAt, Live, Goto, Raise, MainGoes, NextEffect
<1>7. CASE ConnectionLost(p)
  BY <1>7, <1>t, Stutter DEF ConnectionLost, OnceAt, Live, Goto, Raise, MainGoes, NextEffect
<1>8. CASE CapacityMismatch(p)
  BY <1>8, <1>t, Stutter DEF CapacityMismatch, OnceAt, Live, Goto, Raise, MainGoes, NextEffect
<1>9. CASE Complete(p)
  BY <1>9, <1>t, RefineReport
<1> QED
  BY <1>1, <1>2, <1>3, <1>4, <1>5, <1>6, <1>7, <1>8, <1>9 DEF Waits

\* Steps of the handlers.
LEMMA RefineReports ==
    ASSUME OnceInv, OnceInv', NEW p, Undisturbed(p), Reports(p)
    PROVE  [Journal!Next]_(Journal!journal)
<1>t. /\ p \in Installers /\ mem[p] \in Record /\ current[p] \in Effects /\ device \in Device
      /\ worker \in [Installers -> WorkerStates] /\ OnceAt(p) /\ OnceAt(p)'
  BY DEF OnceInv, JournalInv, ShapeInv, TypeOK, Undisturbed
<1>1. CASE ReportFailure(p)
  <2>1. disk'.status # "completed"
    BY <1>1, <1>t DEF ReportFailure, StageSaved, Save, Record
  <2> QED
    BY <1>1, <1>t, <2>1, Stutter DEF ReportFailure, OnceAt, Live
<1>2. CASE ReportCancel(p)
  <2>1. disk'.status # "completed"
    BY <1>2, <1>t DEF ReportCancel, StageSaved, Save, Record
  <2> QED
    BY <1>2, <1>t, <2>1, Stutter DEF ReportCancel, OnceAt, Live
<1>3. CASE ReportLost(p)
  BY <1>3, <1>t, Stutter DEF ReportLost, OnceAt, Live, Goto, Raise, MainGoes, NextEffect
<1> QED
  BY <1>1, <1>2, <1>3 DEF Reports

\* A single installer that is not asked to cancel implements EffectJournal.
THEOREM JournalRefinement ==
    ASSUME NEW p, Undisturbed(p)
    PROVE  Spec => ImplementsEffectJournal
<1>1. Init => OnceInv
  BY OnceInit
<1>2. OnceInv /\ [Next]_vars => OnceInv'
  BY OnceStep
<1>3. Init => Journal!Init
  BY DEF Init, Journal!Init, Journal!Writes, Effects, Planned
<1>4. OnceInv /\ OnceInv' /\ [Next]_vars => [Journal!Next]_(Journal!journal)
  <2> SUFFICES ASSUME OnceInv, OnceInv', [Next]_vars PROVE [Journal!Next]_(Journal!journal)
    OBVIOUS
  <2>1. CASE DeviceReboots
    <3>1. device'.begun = device.begun /\ device'.outcome = device.outcome /\ disk' = disk
      BY <2>1 DEF DeviceReboots, OnceInv, JournalInv, ShapeInv, TypeOK, Device
    <3> QED
      BY <3>1, Stutter
  <2>2. CASE UNCHANGED vars
    BY <2>2, Stutter DEF vars
  <2>3. CASE User(p) \/ MainSaves(p) \/ Joined(p) \/ Crash(p)
    BY <2>3, RefineMain
  <2>4. CASE Worker(p)
    BY <2>4, RefineDecides, RefineWrites, RefineWaits, RefineReports DEF Worker
  <2> QED
    BY <2>1, <2>2, <2>3, <2>4 DEF Next, Undisturbed
<1> QED
  BY <1>1, <1>2, <1>3, <1>4, PTL DEF Spec, ImplementsEffectJournal, Journal!Spec
=============================================================================
