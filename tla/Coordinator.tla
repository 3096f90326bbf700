---------------------------- MODULE Coordinator ----------------------------
(***************************************************************************)
(* The desktop installer's transaction coordinator: installer/backend      *)
(* service.py, state.py and the entry point of adapter.py.                 *)
(*                                                                         *)
(* Every installer process has two threads.  Its main thread reads one     *)
(* request at a time (start/resume/retry, cancel, end of input); its       *)
(* worker thread carries one saved transaction against the device.  All    *)
(* processes share one journal file per transaction, transaction.json, and *)
(* the device.  The two threads of a process share the record dictionary,  *)
(* which both of them mutate and save; only the worker, and only while it  *)
(* runs, holds the device lock.                                            *)
(*                                                                         *)
(* A crash is the death of an installer process at any point.  What a      *)
(* power cut of the computer does to a rename that was not followed by a   *)
(* directory fsync is not modelled.                                        *)
(***************************************************************************)
EXTENDS Integers, FiniteSets

CONSTANTS
    Installers,       \* installer processes sharing one data directory
    NumEffects,       \* non-retry-safe device writes of the plan, the last one commits
    Kinds,            \* plans considered: see PlanKinds
    MaxCancels,       \* bound on cancel requests
    MaxCrashes,       \* bound on process crashes
    MaxSaveFailures,  \* bound on journal saves that fail (full disk, I/O error)
    MaxReboots        \* bound on device reboots

\* "direct": the entry point is never run again once a write has started;
\* "tf": the TF-card installer of the e5, whose entry point may run again and
\*       skips the writes that are done;
\* "update": an update over SSH, one write, no Android and no backup.
PlanKinds == {"direct", "tf", "update"}

ASSUME InstallersAssumption == IsFiniteSet(Installers) /\ Installers # {}
ASSUME NumEffectsAssumption == NumEffects \in Nat \ {0}
ASSUME KindsAssumption == Kinds \subseteq PlanKinds /\ Kinds # {}
ASSUME UpdateAssumption == "update" \in Kinds => NumEffects = 1
ASSUME BoundsAssumption == /\ MaxCancels \in Nat
                           /\ MaxCrashes \in Nat
                           /\ MaxSaveFailures \in Nat
                           /\ MaxReboots \in Nat

VARIABLES
    kind,      \* the confirmed plan
    disk,      \* transaction.json
    mem,       \* the record each process holds in memory
    snapshot,  \* the text a main thread has serialised and not yet renamed
    flag,      \* Context.cancel of each process
    main,      \* where each main thread is
    worker,    \* where each worker thread is, "none" when it is not alive
    current,   \* the effect each worker is at
    lock,      \* the processes that hold the device lock
    device,    \* what happened to the device
    spent      \* how much of each bound is used

vars == <<kind, disk, mem, snapshot, flag, main, worker, current, lock, device, spent>>

Effects == 1..NumEffects
EffectStates == {"none", "started", "done"}
Statuses == {"ready", "running", "waiting", "failed", "cancelled", "completed"}
Stages == {"plan", "prepare", "openwrt_boot", "verify_capacity", "complete"}

\* bootId is update_boot_id, -1 while it is not recorded.
Record == [status : Statuses, stage : Stages, backup : BOOLEAN,
           effects : [Effects -> EffectStates], unsafe : BOOLEAN,
           cancel : BOOLEAN, bootId : Int]

\* begun counts how often a write was begun, 2 meaning more than once; outcome
\* is what its last attempt left on the device; os is the system that answers
\* after the last boot; backup says whether the saved backup predates every
\* write.
Device == [begun : [Effects -> 0..2],
           outcome : [Effects -> {"untouched", "torn", "written"}],
           os : {"old", "new"}, boot : Nat,
           backup : {"none", "pristine", "dirty"}]

MainStates == {"idle", "inspecting", "serialising", "flagging", "saving", "joining", "off"}
WorkerStates == {"none", "locking", "deciding", "executing", "effect", "journaling",
                 "begin", "write", "commit", "boundary", "installed", "polling",
                 "connecting", "verify", "failing", "cancelling"}

-----------------------------------------------------------------------------
(* Helpers *)

\* state.py Store.create: the record a confirmed plan starts from.
Planned == [status |-> "ready", stage |-> "plan", backup |-> FALSE,
            effects |-> [e \in Effects |-> "none"], unsafe |-> FALSE,
            cancel |-> FALSE, bootId |-> -1]

\* Variant: a commit that was only started counts.
CommittedWhenStarted(r) == r.effects[NumEffects] # "none"

\* adapter.py installation_committed: the last write is verified.
Committed(r) == r.effects[NumEffects] = "done"

\* Some write was journaled, finished or not (the guard of adapter.execute).
WriteJournaled(r) == \E e \in Effects : r.effects[e] # "none"

\* Variant: any journaled write counts as an installation.
OnlyWaitsEarly(r) == r.stage \in {"openwrt_boot", "verify_capacity"} \/ WriteJournaled(r)

\* service.py run: only the wait for the installed system is left.
OnlyWaits(r) == r.stage \in {"openwrt_boot", "verify_capacity"} \/ Committed(r)

\* state.py Context.boundary.
CancelRequested(p) == flag[p] \/ mem[p].cancel

\* Store.save by the worker: the shared dictionary and the file change together.
\* Only the main thread's own field, cancel, can differ in the file, and no code
\* reads it from there.
Save(p, r) == mem' = [mem EXCEPT ![p] = r] /\ disk' = r

\* Context.stage.
StageSaved(p, stage, status) ==
    Save(p, [mem[p] EXCEPT !.stage = stage, !.status = status])

Goto(p, pc) == worker' = [worker EXCEPT ![p] = pc]

\* Variant: an exception leaves the locks held.
RaiseLocked(p, pc) == Goto(p, pc) /\ UNCHANGED lock

\* An exception leaves the ExitStack of service.run, which releases the locks
\* before the handlers run.
Raise(p, pc) == Goto(p, pc) /\ lock' = lock \ {p}

MainGoes(p, pc) == main' = [main EXCEPT ![p] = pc]

Spend(what) == spent' = [spent EXCEPT ![what] = @ + 1]

\* Variant: one write too many.
NextEffectTooFar(p) ==
    IF current[p] <= NumEffects
    THEN Goto(p, "effect") /\ current' = [current EXCEPT ![p] = @ + 1]
    ELSE Goto(p, "installed") /\ UNCHANGED current

\* The effect call returned: the entry point goes on to its next write or ends.
NextEffect(p) ==
    IF current[p] < NumEffects
    THEN Goto(p, "effect") /\ current' = [current EXCEPT ![p] = @ + 1]
    ELSE Goto(p, "installed") /\ UNCHANGED current

-----------------------------------------------------------------------------
(* Main thread: requests *)

\* Variant: a completed transaction can be resumed.
LoadCompleted(p) ==
    /\ main[p] = "idle" /\ worker[p] = "none"
    /\ mem' = [mem EXCEPT ![p] = disk]
    /\ MainGoes(p, "inspecting")
    /\ UNCHANGED <<kind, disk, snapshot, flag, worker, current, lock, device, spent>>

\* start, resume or retry reads the record; no lock is held here.
Load(p) ==
    /\ main[p] = "idle" /\ worker[p] = "none"
    /\ disk.status # "completed"
    /\ mem' = [mem EXCEPT ![p] = disk]
    /\ MainGoes(p, "inspecting")
    /\ UNCHANGED <<kind, disk, snapshot, flag, worker, current, lock, device, spent>>

\* The package is damaged or incompatible, the plan is not confirmed, or the
\* record cannot be saved.
Reject(p) ==
    /\ main[p] = "inspecting"
    /\ MainGoes(p, "idle")
    /\ UNCHANGED <<kind, disk, mem, snapshot, flag, worker, current, lock, device, spent>>

\* Variant: a retry starts from an empty journal.
LaunchAfresh(p) ==
    /\ main[p] = "inspecting"
    /\ Save(p, [mem[p] EXCEPT !.effects = [e \in Effects |-> "none"], !.unsafe = FALSE])
    /\ flag' = [flag EXCEPT ![p] = FALSE]
    /\ MainGoes(p, "idle")
    /\ Goto(p, "locking")
    /\ UNCHANGED <<kind, snapshot, current, lock, device, spent>>

\* The package passed: the record read before the inspection is saved back, then
\* the cancellation of an earlier run is cleared in memory and the worker starts.
Launch(p) ==
    /\ main[p] = "inspecting"
    /\ disk' = mem[p]
    /\ mem' = [mem EXCEPT ![p].cancel = FALSE]
    /\ flag' = [flag EXCEPT ![p] = FALSE]
    /\ MainGoes(p, "idle")
    /\ Goto(p, "locking")
    /\ UNCHANGED <<kind, snapshot, current, lock, device, spent>>

\* cancel, while the worker is alive: both flags, then a save of the shared record.
Cancel(p) ==
    /\ main[p] = "idle" /\ worker[p] # "none"
    /\ spent.cancels < MaxCancels /\ Spend("cancels")
    /\ flag' = [flag EXCEPT ![p] = TRUE]
    /\ mem' = [mem EXCEPT ![p].cancel = TRUE]
    /\ MainGoes(p, "serialising")
    /\ UNCHANGED <<kind, disk, snapshot, worker, current, lock, device>>

\* The pure-Python encoder walks the dictionary while the worker may change it.
\* Its keys up to "effects" are read first and the flags after them; a change of
\* size meanwhile raises (SerialiseFails).
SerialiseJournal(p) ==
    /\ main[p] = "serialising"
    /\ snapshot' = [snapshot EXCEPT ![p] = mem[p]]
    /\ MainGoes(p, "flagging")
    /\ UNCHANGED <<kind, disk, mem, flag, worker, current, lock, device, spent>>

SerialiseFlags(p) ==
    /\ main[p] = "flagging"
    /\ snapshot' = [snapshot EXCEPT ![p].unsafe = mem[p].unsafe,
                                    ![p].cancel = mem[p].cancel,
                                    ![p].bootId = mem[p].bootId]
    /\ MainGoes(p, "saving")
    /\ UNCHANGED <<kind, disk, mem, flag, worker, current, lock, device, spent>>

SerialiseFails(p) ==
    /\ main[p] \in {"serialising", "flagging", "saving"}
    /\ MainGoes(p, "idle")
    /\ UNCHANGED <<kind, disk, mem, snapshot, flag, worker, current, lock, device, spent>>

\* os.replace of the temporary file.
ReplaceJournal(p) ==
    /\ main[p] = "saving"
    /\ disk' = snapshot[p]
    /\ MainGoes(p, "idle")
    /\ UNCHANGED <<kind, mem, snapshot, flag, worker, current, lock, device, spent>>

\* Variant: the worker is joined without being told to stop.
CloseSilently(p) ==
    /\ main[p] = "idle"
    /\ MainGoes(p, "joining")
    /\ UNCHANGED <<kind, disk, mem, snapshot, flag, worker, current, lock, device, spent>>

\* End of input: the window was closed.  The worker is asked to stop and joined.
Close(p) ==
    /\ main[p] = "idle"
    /\ flag' = [flag EXCEPT ![p] = TRUE]
    /\ MainGoes(p, "joining")
    /\ UNCHANGED <<kind, disk, mem, snapshot, worker, current, lock, device, spent>>

Joined(p) ==
    /\ main[p] = "joining" /\ worker[p] = "none"
    /\ MainGoes(p, "off")
    /\ UNCHANGED <<kind, disk, mem, snapshot, flag, worker, current, lock, device, spent>>

Open(p) ==
    /\ main[p] = "off"
    /\ MainGoes(p, "idle")
    /\ UNCHANGED <<kind, disk, mem, snapshot, flag, worker, current, lock, device, spent>>

\* The process dies; the kernel releases its locks.  A write it had started may
\* still finish on the device.
Crash(p) ==
    /\ main[p] # "off"
    /\ spent.crashes < MaxCrashes /\ Spend("crashes")
    /\ MainGoes(p, "off") /\ Goto(p, "none") /\ lock' = lock \ {p}
    /\ \/ UNCHANGED device
       \/ /\ worker[p] = "write"
          /\ device' = [device EXCEPT !.outcome[current[p]] = "written"]
    /\ UNCHANGED <<kind, disk, mem, snapshot, flag, current>>

-----------------------------------------------------------------------------
(* Worker: locks and the choice of the path *)

\* Variant: a lock somebody holds is granted again.
LockAnyway(p) ==
    /\ worker[p] = "locking"
    /\ lock' = lock \cup {p} /\ Goto(p, "deciding")
    /\ UNCHANGED <<kind, disk, mem, snapshot, flag, main, current, device, spent>>

Lock(p) ==
    /\ worker[p] = "locking" /\ lock = {}
    /\ lock' = {p} /\ Goto(p, "deciding")
    /\ UNCHANGED <<kind, disk, mem, snapshot, flag, main, current, device, spent>>

LockBusy(p) ==
    /\ worker[p] = "locking" /\ lock # {}
    /\ Goto(p, "failing")
    /\ UNCHANGED <<kind, disk, mem, snapshot, flag, main, current, lock, device, spent>>

\* Everything is written: wait for the installed system without touching Android.
ResumeWait(p) ==
    /\ worker[p] = "deciding" /\ OnlyWaits(mem[p])
    /\ StageSaved(p, "openwrt_boot", "waiting") /\ Goto(p, "polling")
    /\ UNCHANGED <<kind, snapshot, flag, main, current, lock, device, spent>>

\* The device, its slot or the recomputed plan differs, or it cannot be probed.
PlanChanged(p) ==
    /\ worker[p] = "deciding" /\ ~OnlyWaits(mem[p]) /\ kind # "update"
    /\ Raise(p, "failing")
    /\ UNCHANGED <<kind, disk, mem, snapshot, flag, main, current, device, spent>>

Prepare(p) ==
    /\ worker[p] = "deciding" /\ ~OnlyWaits(mem[p])
    /\ StageSaved(p, "prepare", "running") /\ Goto(p, "executing")
    /\ UNCHANGED <<kind, snapshot, flag, main, current, lock, device, spent>>

\* adapter.execute: an initial run is not repeated after a write was journaled.
MayEnter(p) == kind = "direct" => ~WriteJournaled(mem[p])

RefuseReplay(p) ==
    /\ worker[p] = "executing" /\ ~MayEnter(p)
    /\ Raise(p, "failing")
    /\ UNCHANGED <<kind, disk, mem, snapshot, flag, main, current, device, spent>>

\* Variant: every run takes the backup anew.
BackupAgain(p) ==
    /\ worker[p] = "executing" /\ kind # "update" /\ MayEnter(p)
    /\ Save(p, [mem[p] EXCEPT !.backup = TRUE])
    /\ device' = [device EXCEPT !.backup =
                     IF \A e \in Effects : device.begun[e] = 0 THEN "pristine" ELSE "dirty"]
    /\ UNCHANGED <<kind, snapshot, flag, main, worker, current, lock, spent>>

\* adapter.backup: partition by partition, a boundary before each, none after the
\* last; a backup that is recorded is checked and kept.
Backup(p) ==
    /\ worker[p] = "executing" /\ kind # "update" /\ MayEnter(p)
    /\ ~mem[p].backup
    /\ Save(p, [mem[p] EXCEPT !.backup = TRUE])
    /\ device' = [device EXCEPT !.backup =
                     IF \A e \in Effects : device.begun[e] = 0 THEN "pristine" ELSE "dirty"]
    /\ UNCHANGED <<kind, snapshot, flag, main, worker, current, lock, spent>>

CancelBackup(p) ==
    /\ worker[p] = "executing" /\ kind # "update" /\ MayEnter(p)
    /\ ~mem[p].backup /\ CancelRequested(p)
    /\ Raise(p, "cancelling")
    /\ UNCHANGED <<kind, disk, mem, snapshot, flag, main, current, device, spent>>

EnterInstall(p) ==
    /\ worker[p] = "executing" /\ kind # "update" /\ MayEnter(p) /\ mem[p].backup
    /\ Goto(p, "effect") /\ current' = [current EXCEPT ![p] = 1]
    /\ UNCHANGED <<kind, disk, mem, snapshot, flag, main, lock, device, spent>>

\* Variant: the boot of an earlier attempt is kept.
EnterUpdateFirstBoot(p) ==
    /\ worker[p] = "executing" /\ kind = "update"
    /\ Save(p, [mem[p] EXCEPT !.bootId = IF @ = -1 THEN device.boot ELSE @])
    /\ Goto(p, "effect") /\ current' = [current EXCEPT ![p] = 1]
    /\ UNCHANGED <<kind, snapshot, flag, main, lock, device, spent>>

\* adapter.validate_ssh records the boot the update was sent to.
EnterUpdate(p) ==
    /\ worker[p] = "executing" /\ kind = "update"
    /\ Save(p, [mem[p] EXCEPT !.bootId = device.boot])
    /\ Goto(p, "effect") /\ current' = [current EXCEPT ![p] = 1]
    /\ UNCHANGED <<kind, snapshot, flag, main, lock, device, spent>>

\* A probe, a transfer, a package check or a damaged backup raises.
PreflightFails(p) ==
    /\ worker[p] = "executing"
    /\ Raise(p, "failing")
    /\ UNCHANGED <<kind, disk, mem, snapshot, flag, main, current, device, spent>>

-----------------------------------------------------------------------------
(* Worker: state.py Context.effect around one device write *)

\* Variant: an interrupted write is skipped like a finished one.
SkipStarted(p) ==
    /\ worker[p] = "effect" /\ mem[p].effects[current[p]] # "none"
    /\ NextEffect(p)
    /\ UNCHANGED <<kind, disk, mem, snapshot, flag, main, lock, device, spent>>

SkipDone(p) ==
    /\ worker[p] = "effect" /\ mem[p].effects[current[p]] = "done"
    /\ NextEffect(p)
    /\ UNCHANGED <<kind, disk, mem, snapshot, flag, main, lock, device, spent>>

RecoveryRequired(p) ==
    /\ worker[p] = "effect" /\ mem[p].effects[current[p]] = "started"
    /\ Raise(p, "failing")
    /\ UNCHANGED <<kind, disk, mem, snapshot, flag, main, current, device, spent>>

CancelEffect(p) ==
    /\ worker[p] = "effect" /\ mem[p].effects[current[p]] = "none"
    /\ CancelRequested(p)
    /\ Raise(p, "cancelling")
    /\ UNCHANGED <<kind, disk, mem, snapshot, flag, main, current, device, spent>>

\* The record of a write that is about to be sent.
Started(p) == [mem[p] EXCEPT !.effects[current[p]] = "started", !.unsafe = TRUE]

\* Variant: the unsafe flag is not reset.
DoneUnsafe(p) == [mem[p] EXCEPT !.effects[current[p]] = "done"]

\* The record of a write that returned.
Done(p) == [mem[p] EXCEPT !.effects[current[p]] = "done", !.unsafe = FALSE]

\* Variant: an interrupted write is retried.
EnterEffectRetry(p) ==
    /\ worker[p] = "effect" /\ mem[p].effects[current[p]] # "done"
    /\ ~CancelRequested(p)
    /\ Goto(p, "journaling")
    /\ UNCHANGED <<kind, disk, mem, snapshot, flag, main, current, lock, device, spent>>

\* The boundary before the write passed; a cancel from here on is not seen by it.
EnterEffect(p) ==
    /\ worker[p] = "effect" /\ mem[p].effects[current[p]] = "none"
    /\ ~CancelRequested(p)
    /\ Goto(p, "journaling")
    /\ UNCHANGED <<kind, disk, mem, snapshot, flag, main, current, lock, device, spent>>

\* Variant: the mark is saved only together with the result.
JournalStartInMemory(p) ==
    /\ worker[p] = "journaling"
    /\ mem' = [mem EXCEPT ![p] = Started(p)] /\ Goto(p, "begin")
    /\ UNCHANGED <<kind, disk, snapshot, flag, main, current, lock, device, spent>>

JournalStart(p) ==
    /\ worker[p] = "journaling"
    /\ Save(p, Started(p)) /\ Goto(p, "begin")
    /\ UNCHANGED <<kind, snapshot, flag, main, current, lock, device, spent>>

\* The save raises: the dictionary has changed, the file has not.
JournalStartFails(p) ==
    /\ worker[p] = "journaling"
    /\ spent.saveFailures < MaxSaveFailures /\ Spend("saveFailures")
    /\ mem' = [mem EXCEPT ![p] = Started(p)]
    /\ Raise(p, "failing")
    /\ UNCHANGED <<kind, disk, snapshot, flag, main, current, device>>

\* The operation raises before its first write, or half way, or without having
\* seen the status of a write that succeeded.
OperationFails(p) ==
    /\ worker[p] = "begin"
    /\ Raise(p, "failing")
    /\ UNCHANGED <<kind, disk, mem, snapshot, flag, main, current, device, spent>>

\* The first byte of the write reaches the device.
BeginWrite(p) ==
    /\ worker[p] = "begin"
    /\ device' = [device EXCEPT !.begun[current[p]] = IF @ = 0 THEN 1 ELSE 2,
                                !.outcome[current[p]] = "torn"]
    /\ Goto(p, "write")
    /\ UNCHANGED <<kind, disk, mem, snapshot, flag, main, current, lock, spent>>

WriteDone(p) ==
    /\ worker[p] = "write"
    /\ device' = [device EXCEPT !.outcome[current[p]] = "written"]
    /\ Goto(p, "commit")
    /\ UNCHANGED <<kind, disk, mem, snapshot, flag, main, current, lock, spent>>

\* Variant: a write that failed is tried again at once.
WriteFailsRetried(p) ==
    /\ worker[p] = "write"
    /\ Goto(p, "begin")
    /\ UNCHANGED <<kind, disk, mem, snapshot, flag, main, current, lock, device, spent>>

\* Variant: the status of the device command is not looked at.
WriteFailsUnseen(p) ==
    /\ worker[p] = "write"
    /\ Goto(p, "commit")
    /\ UNCHANGED <<kind, disk, mem, snapshot, flag, main, current, lock, device, spent>>

WriteFails(p) ==
    /\ worker[p] = "write"
    /\ \/ UNCHANGED device
       \/ device' = [device EXCEPT !.outcome[current[p]] = "written"]
    /\ Raise(p, "failing")
    /\ UNCHANGED <<kind, disk, mem, snapshot, flag, main, current, spent>>

JournalDone(p) ==
    /\ worker[p] = "commit"
    /\ Save(p, Done(p)) /\ Goto(p, "boundary")
    /\ UNCHANGED <<kind, snapshot, flag, main, current, lock, device, spent>>

JournalDoneFails(p) ==
    /\ worker[p] = "commit"
    /\ spent.saveFailures < MaxSaveFailures /\ Spend("saveFailures")
    /\ mem' = [mem EXCEPT ![p] = Done(p)]
    /\ Raise(p, "failing")
    /\ UNCHANGED <<kind, disk, snapshot, flag, main, current, device>>

Boundary(p) ==
    /\ worker[p] = "boundary" /\ ~CancelRequested(p)
    /\ NextEffect(p)
    /\ UNCHANGED <<kind, disk, mem, snapshot, flag, main, lock, device, spent>>

\* Variant: a cancel also abandons a write in flight.
CancelBoundaryAnywhere(p) ==
    /\ worker[p] \in {"write", "boundary"} /\ CancelRequested(p)
    /\ Raise(p, "cancelling")
    /\ UNCHANGED <<kind, disk, mem, snapshot, flag, main, current, device, spent>>

CancelBoundary(p) ==
    /\ worker[p] = "boundary" /\ CancelRequested(p)
    /\ Raise(p, "cancelling")
    /\ UNCHANGED <<kind, disk, mem, snapshot, flag, main, current, device, spent>>

-----------------------------------------------------------------------------
(* Worker: the wait for the installed system *)

AwaitBoot(p) ==
    /\ worker[p] = "installed"
    /\ StageSaved(p, "openwrt_boot", "waiting") /\ Goto(p, "polling")
    /\ UNCHANGED <<kind, snapshot, flag, main, current, lock, device, spent>>

\* Variant: the wait has no boundary.
PollDeaf(p) ==
    /\ worker[p] = "polling"
    /\ Goto(p, "connecting")
    /\ UNCHANGED <<kind, disk, mem, snapshot, flag, main, current, lock, device, spent>>

Poll(p) ==
    /\ worker[p] = "polling" /\ ~CancelRequested(p)
    /\ Goto(p, "connecting")
    /\ UNCHANGED <<kind, disk, mem, snapshot, flag, main, current, lock, device, spent>>

CancelPoll(p) ==
    /\ worker[p] = "polling" /\ CancelRequested(p)
    /\ Raise(p, "cancelling")
    /\ UNCHANGED <<kind, disk, mem, snapshot, flag, main, current, device, spent>>

\* No answer, a refused password, another device's address, or (update) the boot
\* the update was sent to still answering: keep waiting.
Unreachable(p) ==
    /\ worker[p] = "connecting"
    /\ StageSaved(p, "openwrt_boot", "waiting") /\ Goto(p, "polling")
    /\ UNCHANGED <<kind, snapshot, flag, main, current, lock, device, spent>>

\* The system that answers is taken for the installed one: after an update when
\* its boot differs from the recorded one, otherwise because it is OpenWrt.
Answers(p) == IF kind = "update" THEN mem[p].bootId \notin {-1, device.boot}
              ELSE device.os = "new"

Answered(p) ==
    /\ worker[p] = "connecting" /\ Answers(p)
    /\ StageSaved(p, "verify_capacity", "running") /\ Goto(p, "verify")
    /\ UNCHANGED <<kind, snapshot, flag, main, current, lock, device, spent>>

\* Any ValueError: no recorded boot, an unreadable boot id, a failed command.
PollFails(p) ==
    /\ worker[p] = "connecting"
    /\ Raise(p, "failing")
    /\ UNCHANGED <<kind, disk, mem, snapshot, flag, main, current, device, spent>>

ConnectionLost(p) ==
    /\ worker[p] = "verify"
    /\ StageSaved(p, "openwrt_boot", "waiting") /\ Goto(p, "polling")
    /\ UNCHANGED <<kind, snapshot, flag, main, current, lock, device, spent>>

CapacityMismatch(p) ==
    /\ worker[p] = "verify"
    /\ Raise(p, "failing")
    /\ UNCHANGED <<kind, disk, mem, snapshot, flag, main, current, device, spent>>

Complete(p) ==
    /\ worker[p] = "verify"
    /\ StageSaved(p, "complete", "completed") /\ Raise(p, "none")
    /\ UNCHANGED <<kind, snapshot, flag, main, current, device, spent>>

-----------------------------------------------------------------------------
(* Worker: the exception handlers of run, after the locks are released *)

ReportFailure(p) ==
    /\ worker[p] = "failing"
    /\ StageSaved(p, mem[p].stage, "failed") /\ Goto(p, "none")
    /\ UNCHANGED <<kind, snapshot, flag, main, current, lock, device, spent>>

ReportCancel(p) ==
    /\ worker[p] = "cancelling"
    /\ StageSaved(p, mem[p].stage, "cancelled") /\ Goto(p, "none")
    /\ UNCHANGED <<kind, snapshot, flag, main, current, lock, device, spent>>

\* The save in the handler raises: the thread dies, the file keeps what it had.
ReportLost(p) ==
    /\ worker[p] \in {"failing", "cancelling"}
    /\ spent.saveFailures < MaxSaveFailures /\ Spend("saveFailures")
    /\ Goto(p, "none")
    /\ UNCHANGED <<kind, disk, mem, snapshot, flag, main, current, lock, device>>

-----------------------------------------------------------------------------
(* The device *)

\* A boot after the commit reaches the installed system; one after a torn commit
\* may.  A loss of the device under a worker that holds a connection to it is
\* PreflightFails, OperationFails or WriteFails of that worker.
DeviceReboots ==
    /\ spent.reboots < MaxReboots /\ Spend("reboots")
    /\ \A p \in Installers : worker[p] \notin {"effect", "journaling", "begin", "write", "verify"}
    /\ \E os \in IF device.outcome[NumEffects] = "written" THEN {"new"}
                 ELSE IF device.outcome[NumEffects] = "torn" THEN {"old", "new"}
                 ELSE {device.os} :
           device' = [device EXCEPT !.os = os, !.boot = @ + 1]
    /\ UNCHANGED <<kind, disk, mem, snapshot, flag, main, worker, current, lock>>

-----------------------------------------------------------------------------
(* The specification *)

Init ==
    /\ kind \in Kinds
    /\ disk = Planned
    /\ mem = [p \in Installers |-> Planned]
    /\ snapshot = [p \in Installers |-> Planned]
    /\ flag = [p \in Installers |-> FALSE]
    /\ main = [p \in Installers |-> "idle"]
    /\ worker = [p \in Installers |-> "none"]
    /\ current = [p \in Installers |-> 1]
    /\ lock = {}
    /\ device = [begun |-> [e \in Effects |-> 0],
                 outcome |-> [e \in Effects |-> "untouched"],
                 os |-> "old", boot |-> 0, backup |-> "none"]
    /\ spent = [cancels |-> 0, crashes |-> 0, saveFailures |-> 0, reboots |-> 0]

MainSaves(p) == SerialiseJournal(p) \/ SerialiseFlags(p) \/ SerialiseFails(p) \/ ReplaceJournal(p)

User(p) == Load(p) \/ Reject(p) \/ Launch(p) \/ Cancel(p) \/ Close(p) \/ Open(p)

Decides(p) == \/ Lock(p) \/ LockBusy(p) \/ ResumeWait(p) \/ PlanChanged(p) \/ Prepare(p)
              \/ RefuseReplay(p) \/ Backup(p) \/ CancelBackup(p) \/ EnterInstall(p)
              \/ EnterUpdate(p) \/ PreflightFails(p)

Writes(p) == \/ SkipDone(p) \/ RecoveryRequired(p) \/ CancelEffect(p) \/ EnterEffect(p)
             \/ JournalStart(p)
             \/ JournalStartFails(p) \/ OperationFails(p) \/ BeginWrite(p) \/ WriteDone(p)
             \/ WriteFails(p) \/ JournalDone(p) \/ JournalDoneFails(p) \/ Boundary(p)
             \/ CancelBoundary(p)

Waits(p) == \/ AwaitBoot(p) \/ Poll(p) \/ CancelPoll(p) \/ Unreachable(p) \/ Answered(p)
            \/ PollFails(p) \/ ConnectionLost(p) \/ CapacityMismatch(p) \/ Complete(p)

Reports(p) == ReportFailure(p) \/ ReportCancel(p) \/ ReportLost(p)

Worker(p) == Decides(p) \/ Writes(p) \/ Waits(p) \/ Reports(p)

Next ==
    \/ \E p \in Installers : User(p) \/ MainSaves(p) \/ Joined(p) \/ Crash(p) \/ Worker(p)
    \/ DeviceReboots

Spec == Init /\ [][Next]_vars

\* A live thread runs: the interpreter schedules every thread, and every device
\* command and network call it waits for carries a timeout.  The user, a crash
\* and a reboot owe nothing.
Fairness == \A p \in Installers :
                /\ WF_vars(Worker(p))
                /\ WF_vars(MainSaves(p) \/ Joined(p))

FairSpec == Spec /\ Fairness

-----------------------------------------------------------------------------
(* Properties *)

\* Every variable has its type.
TypeOK ==
    /\ kind \in Kinds
    /\ disk \in Record
    /\ mem \in [Installers -> Record]
    /\ snapshot \in [Installers -> Record]
    /\ flag \in [Installers -> BOOLEAN]
    /\ main \in [Installers -> MainStates]
    /\ worker \in [Installers -> WorkerStates]
    /\ current \in [Installers -> Effects]
    /\ lock \subseteq Installers
    /\ device \in Device
    /\ spent \in [cancels : Nat, crashes : Nat, saveFailures : Nat, reboots : Nat]

\* The states of a worker inside the ExitStack of service.run.
LockHolders == WorkerStates \ {"none", "locking", "failing", "cancelling"}

\* A worker that may touch the device holds the lock alone, a lock is held by a
\* live worker only, and a write is sent only under its own "started" mark in
\* memory (service.run, DeviceLock, Context.effect).
ExclusiveDevice ==
    \A p \in Installers :
        /\ worker[p] \in LockHolders <=> p \in lock
        /\ p \in lock => lock = {p}
        /\ worker[p] \in {"begin", "write", "commit"} =>
               mem[p].effects[current[p]] = "started" /\ mem[p].unsafe

\* A journal is a prefix of finished writes, then at most one interrupted write.
Ordered(r) == \A e \in Effects : r.effects[e] # "none" =>
                  \A d \in Effects : d < e => r.effects[d] = "done"

\* No record, on disk, in memory or about to be written, waits for or reports an
\* installed system before the commit was verified, none is cancelled inside a
\* write, and none has its writes out of order (Context.effect, boundary and
\* openwrt_wait_stage together).
Sound(r) ==
    /\ Ordered(r)
    /\ r.stage \in {"openwrt_boot", "verify_capacity", "complete"} => Committed(r)
    /\ r.status = "completed" => Committed(r)
    /\ r.status = "cancelled" => \A e \in Effects : r.effects[e] # "started"

JournalShape == Sound(disk) /\ \A p \in Installers : Sound(mem[p]) /\ Sound(snapshot[p])

\* A write recorded as done is on the device, whole, whoever holds the record
\* and whatever was interrupted since.
JournalTruthful ==
    \A r \in {disk} \cup {mem[p] : p \in Installers} :
        \A e \in Effects : r.effects[e] = "done" => device.outcome[e] = "written"

\* No write is sent to the device twice: "A whole initial run must never be
\* replayed after a write started" (adapter.execute, Context.effect).
NoReplay == \A e \in Effects : device.begun[e] < 2

\* A write in flight is already journaled in the file, so a crash during it is
\* seen by the next run (Context.effect saves before it calls the operation).
WriteAhead ==
    \A p \in Installers : worker[p] \in {"begin", "write"} =>
        disk.effects[current[p]] = "started"

\* The saved unsafe flag, from which the interface derives whether a retry is
\* offered, agrees with the saved writes.
UnsafeFlag == disk.unsafe <=> \E e \in Effects : disk.effects[e] = "started"

\* The computer's backup is never taken of a device some write already changed.
BackupIsPristine == device.backup # "dirty"

\* Completion means that every write is whole on the device and that the system
\* they installed is the one that runs (wait_openwrt, validate_ssh).
CompletedOnNewSystem ==
    disk.status = "completed" =>
        device.os = "new" /\ \A e \in Effects : device.outcome[e] = "written"

\* A completed transaction is never touched again (dispatch returns it).
CompletedIsFinal == [][disk.status = "completed" => disk' = disk]_vars

\* The file never forgets: a started write stays started or becomes done, a done
\* one stays done.
NeverForgets ==
    [][\A e \in Effects : /\ disk.effects[e] = "done" => disk'.effects[e] = "done"
                          /\ disk.effects[e] = "started" => disk'.effects[e] # "none"]_vars

\* A worker asked to stop, by cancel or by the end of input, ends: no boundary,
\* write or wait keeps it for ever (boundary, stop.wait, main's join).
StopEndsWorker == \A p \in Installers : (flag[p] /\ worker[p] # "none") ~> worker[p] = "none"

\* Closing the window ends the process.
CloseEnds == \A p \in Installers : main[p] = "joining" ~> main[p] = "off"

\* A worker that was started ends or reaches the wait for the installed system.
RunSettles == \A p \in Installers : worker[p] = "locking" ~> worker[p] \in {"none", "polling"}

\* A worker that was asked to stop ends, as the process does when its window is closed, and
\* one that was started ends or waits for the installed system: no boundary, write or other
\* wait keeps it for ever (StopEndsWorker, CloseEnds, RunSettles).
WorkersSettle == StopEndsWorker /\ CloseEnds /\ RunSettles

\* The file is ahead of the device and never forgets: a write in flight is in it, one that is
\* done is whole, the unsafe flag follows, and what is completed stays as it is
\* (JournalTruthful, WriteAhead, UnsafeFlag, NeverForgets, CompletedIsFinal).
FileIsTrue == [](JournalTruthful /\ WriteAhead /\ UnsafeFlag) /\ NeverForgets /\ CompletedIsFinal

\* What is completed runs, whole; and there is a way back: a backup from before the first write
\* (CompletedOnNewSystem, BackupIsPristine).
CompletedOrRestorable == CompletedOnNewSystem /\ BackupIsPristine

Journal == INSTANCE EffectJournal WITH
    attempts <- device.begun, outcome <- device.outcome,
    complete <- disk.status = "completed"

\* The coordinator implements the abstract journal.
ImplementsEffectJournal == Journal!Spec

=============================================================================
