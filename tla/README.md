# Formal models of the E5 / MU300 Linux installer

This directory holds TLA+ specifications of the parts of this repository that
change the state of a device and have to survive failures: the desktop
installer's transaction coordinator, the installation in each of its modes, the
partition table through installation and removal, the update of a running system,
and the repair and diagnostic tools around them.
TLC checks them on small instances, TLAPS proves the most important properties
for every value of the constants.

    tlc -config CoordinatorCrash.cfg MCCoordinator.tla     # one run
    tlapm UninstallProofs.tla                              # one proof module

`PROJECT.json` lists runs, properties, the source lines each definition stands
for, and, for each property, a plausible change of the code that breaks it
(the operators commented "Variant" in the modules).

## 1. Inventory of the system

The repository turns an Android 4G router (E5, MU300 and relatives) into an
OpenWrt or Debian device. Kernel, boot image and root file systems are built by
scripts; an installer on a computer writes them to the device over ADB or SSH;
an initramfs on the device selects what boots.

| Component (source) | State it keeps | Operations and interactions | What is hard | Modules |
| --- | --- | --- | --- | --- |
| Transaction coordinator (`installer/backend/service.py`, `state.py`) | one `transaction.json` per transaction, the record in memory, the cancel flag, the device locks, one worker thread | requests from the interface on stdin; the worker drives an adapter; `Context.effect` marks each device write before and after it | two threads share the record without a lock; processes share the file; crashes between a write and its mark; cancel in the middle of a write; closing; several phones behind one address | `Coordinator`, `Session`, `Snapshots` |
| Installation adapter (`adapter.py`) | backups and checksums of the computer | probe, backup, the entry points of the install modes, each a sequence of effects | replay after an interrupted write, backup of an already changed device, sizes rounded twice | `Coordinator`, `Backup`, `Partitions`, `Sizes` |
| Planning (`package.py`, `gpt.py`, `binary_io.py`) | none | package inspection, partition table arithmetic | interval arithmetic at the edges of the disk, alignment, overlap | `Layout`, `Partitions`, `Sizes`, `Hotfix` |
| Uninstall (`uninstall*.py`) | its part of the record; on the device: GPT copies, misc, boot slots, userdata | plan, export and import the journal, stage a one-shot offline worker, wait, verify, restore Android's slots | power loss anywhere, two boot attempts, interrupted staging, a reset that must not be repeated, retries, a journal changed outside | `Uninstall`, `Partitions`, `Snapshots` |
| Standalone boot (`boot_image.py`), evidence (`install_evidence.py`), transports (`transport.py`) | none; files of a backup | select an installed slot; read files of an unmounted ext4 partition; copy a partition; `adb connect` | arbitrary data on the partition; a source that changes while it is copied | `FlashInstall`, `Extents`, `Backup`, `Session` |
| Two-stage partition installation (`openwrt/bundle/part-two-stage.py`, `boot/part-prepare.sh`) | `transaction.json` with phases, marker on the partition | prepare offline, wait for Android, write, finish | the halves are separated by reboots of the user | `PartTwoStage` |
| Command-line flasher (`openwrt/bundle/flash.py`) and its other half on the device (`boot/install-part.sh`) | temporary files on the phone, card, images, request, slots | install onto a card, into an image, into a partition; start once; trial run | stopped anywhere, then another mode; a shell that outlives the process that sent it | `FlashInstall`, `Sizes`, `Partitions` |
| Update of an installed system (`tools/e5-update.py`, `device-stage-part-update.sh`, `boot/part-update.sh`; `mu300_update.py`) | root partition, images, RAM copy of the payload, request, tries | stage on the running system, restart, overwrite the root from memory | power loss while the root is overwritten, a command that outlives its session, an address that leads to another device | `Update`, `Mu300Update` |
| Boot selection (`boot/init`) | trial markers, `boot-os`, images, misc | choose partition, card or image; swap an image; fall back | a boot that dies against one that is up | `FlashInstall`, `Update`, `PartTwoStage` |
| Repair overlays (`installer/hotfix.py`, `apply_hotfix.py`) | files and manifest of a package | extract over a package, check, drop what is obsolete, replace the manifest | interrupted and repeated, with other releases | `Hotfix` |
| Field capture (`tools/field-capture.py`) | child processes, kernel probes, a ring of logs | observe until time or a signal ends it, clean up | signals between any two steps, half-made probes, streams that end | `FieldCapture` |
| Boot and TF installers, switchers, interface, builds, kernel patches, release tools | slots, none or a view | sequential scripts | partial failure, no recovery protocol of their own | - |

What makes each correct:

* *coordinator*: a device write is never sent twice; the file always admits a
  write that was begun; a record is never out of order; one process works on a
  device at a time; a stop request ends the worker; completion is reported only
  for a system that is installed and runs;
* *uninstall*: one partition table is readable at all times; the boot loader is
  never sent to a torn image; the offline worker is staged once; Android is
  reset at most once and only if authorised; completion means all of it is done;
* *two-stage installation*: userdata is divided once and reset after it; the second
  half runs only on what the first half prepared for the same transaction; slot B is
  selected last; completion means the transaction's own root and image are there;
* *installation in one run*: slot B is selected last, for what was verified, and keeps it;
  the last installation is what starts; older images are kept;
* *update and boot selection*: what starts was written as a whole, a root is overwritten
  only by what lies complete in memory, a failed trial is not repeated;
* *partition table*: entries never overlap, nobody else's is touched, the filesystem fits
  its partition at every start, and a removal gives back what an installation took;
* *sessions*: the phone that was planned for is the one that is written and the one
  that completes the record;
* *sizes*: planner, flasher and script agree on what fits;
* *repair*: a package that is accepted is of one release; *capture*: it ends, and leaves nothing.

## 2. Plan

Done, in this order: `Coordinator` with the abstract `EffectJournal` and its proofs;
`Uninstall` and its proofs; `PartTwoStage` and its proofs; then what surrounds
these three cores: `FlashInstall`, `Update`, `Backup`, `Layout` with
`Partitions`, `Session`, `Snapshots`, `Sizes`, `Mu300Update`, `Extents`, `Hotfix`,
`FieldCapture`; then the proofs about `FlashInstall`, `Update` and `Session`, and the rest
of those about the three cores; at last `Storage` and `Installation`, which compose what
belongs to one phone's table and to one installation, and the proofs about them.

`Partitions` and `Snapshots` both build on `Layout`: one makes its edits to a disk over
time, the other checks journals of them; `Storage` puts the two together, and
`Installation` puts `Sizes` beside `FlashInstall`. `Session` composes what `Coordinator`,
`PartTwoStage` and `Uninstall` have in detail, at one write or two for each. `FlashInstall`
and `Update` contain both sides of the restart.

Left, most important first:

1. An abstract `PreparedRoot` (a partition is prepared once, for one
   transaction, then written, then selected) with `PartTwoStage` shown to implement
   it, and an abstract `Removal` (a partition removed atomically, at most one reset) for
   `Uninstall`.
2. Proofs about what is left of sections 6 to 9: `Backup` (`OneAttempt`,
   `NamedIsOriginal`), `Hotfix`, `Mu300Update`.
3. The rest of `boot/init`: the search of all block devices, the counter of f2fs repairs.
4. `device-install-part.sh` beside `FlashInstall`; the Magisk re-patch in `Uninstall`.

## 3. The coordinator

### Modules

* `EffectJournal`: what the installer promises of a plan of `NumEffects` writes:
  each is begun at most once and in order, none before its predecessor is whole,
  completion is reported when all are.
* `Coordinator`: the two threads of each installer process, the file, the lock,
  the device.
* `MCCoordinator`: the symmetry of the processes for TLC.
* `CoordinatorProofs`: theorems.

### State and code

`disk` is `transaction.json`, `mem[p]` the dictionary both threads of a process
mutate, `snapshot[p]` the text a main thread has serialised inside `atomic_json`
and not yet renamed, `flag[p]` is `Context.cancel`, `main`/`worker` the places
where the threads are, `lock` the device locks (the lock by serial and the lock
by CID are taken together and are one here), `device` what really happened:
how often each write was begun, what it left, the running system, the backup.

A write is seen in the order of `Context.effect`: check of the mark,
boundary, mark saved (`JournalStart`), operation begun and ended
(`BeginWrite`, `WriteDone`, `WriteFails`, torn or whole), mark saved
(`JournalDone`), boundary. Every save may fail and a process may die between
any two steps. `kind` distinguishes plans by what a second run does: `"direct"`
refuses to enter again once a write started (`adapter.py:428`), `"tf"` enters
again and skips finished writes, `"update"` goes over SSH to a running system.

The save of a cancel request by the main thread is split into three steps,
serialising the marks (`SerialiseJournal`), serialising the flags
(`SerialiseFlags`), the rename (`ReplaceJournal`): the worker may run between
them. A worker's save is one step: the only field another thread may change
meanwhile is `cancel_requested`, which nobody reads back from the file. The locks
are released before the exception handlers save the outcome (`failing`,
`cancelling`), as the `ExitStack` of `Service.run` does.

### Runs

| Run | Bounds | Shows |
| --- | --- | --- |
| `coordinator_crash` (19 560 states) | 1 process, 3 writes, 2 crashes, 1 failed save, 1 reboot, direct and tf | the journal is sound (`JournalShape`), ahead of the device and never forgets (`FileIsTrue`); no write is repeated (`NoReplay`); what is completed runs, and the backup is of an untouched device (`CompletedOrRestorable`); the coordinator implements `EffectJournal` (`ImplementsEffectJournal`) |
| `coordinator_cancel` (39 536) | 1 process, 2 writes, 1 cancel, 1 reboot, with fairness | soundness under cancel and close at every step (`JournalShape`); a worker asked to stop ends, closing ends the process, a run settles (`WorkersSettle`) |
| `coordinator_two` (921 702) | 2 processes, 1 write, 1 crash, all kinds, symmetry | only one process works on the device (`ExclusiveDevice`) |
| `update` (section 7) | 1 process, 1 write over SSH, 1 cancel, 1 crash, 2 reboots | an update is complete only when the new system answers (`CompletedOnNewSystem`) |
| `cancel_race`, `stale_load` | see below | disagreements with a comment of the code |

Three writes are enough for a first, a middle and a last one, so that order,
interruption in the middle and the commit at the end are all met; two crashes
allow a crash of the recovery of a crash; two processes are all that can compete
for a file and a lock pairwise. The counters are in the guards of `Cancel`,
`Crash`, the failing saves and `DeviceReboots` only.

*Fairness* (`FairSpec`): weak fairness of each worker thread and of each main
thread's save and join. The interpreter schedules live threads, and every device
command or network call has a timeout (`su_checked` 600 s, SSH and ADB calls
their own). Nothing is assumed of users, crashes and reboots. A worker waiting
for a device that never answers is allowed to wait for ever: `RunSettles` says
that a run ends or reaches that wait, `StopEndsWorker` that a request ends it.

### Findings

Both are disagreements with the comment at `adapter.py:426`, "A whole initial
run must never be replayed after a write started."

* `cancel_race`: the main thread's save of a cancel request, serialised before
  the worker marks a write and renamed after the worker's own save, removes the
  mark from the file. If the process then dies during that write, the next
  resume starts the whole run again.
* `stale_load`: `start`/`resume` reads the record, inspects the package for
  seconds, and saves what it read before it takes the device lock. A second
  installer process can so write back the record from before the first one's
  writes, and repeat them.

### Proofs

For any set of processes, any number of writes, any bounds:

* `TypeCorrect`;
* `DeviceIsExclusive`: only the single lock holder writes, under its own mark;
* `JournalIsSound`: no copy of the record anywhere is out of order, claims an
  installation whose commit was not verified, or is cancelled inside a write.

The inductive invariant `JournalInv` consists of the types, the lock
(`Locked`, `Inspecting`) and `ShapeInv`. `JournalShape` is not inductive by itself:
a record is saved from wherever its worker stands, so `ShapeInv` says what a worker
at each place knows of its record (`At`), and that a record keeps a
little more than the property says (`Kept`).

With one process (`Alone`), whatever it is asked to cancel:

* `TruthfulAlone`: what the file records as done is whole on the device;
* `CompletedRuns`: what it reports as completed is written whole and runs
  (`CompletedOnNewSystem`), also when the plan is an update of a system that answers at
  the same address before and after.

Their invariant, `SoloInv`, relates file, memory and the text being saved to the device; for an update
it adds that a committed record whose boot is over was followed by a restart. If the process is
moreover never asked to cancel (`Undisturbed`):

* `NeverReplayed`: no write is begun twice;
* `DoneIsWritten`: the file admits every write that was begun and records as
  done only what is whole on the device;
* `FileStaysTrue`: the whole of `FileIsTrue`, so that the file neither forgets a write nor a completion;
* `WayBack`: the whole of `CompletedOrRestorable`, the backup included;
* `JournalRefinement`: the coordinator implements `EffectJournal`.

Their invariants add that file and memory are honest about the device
(`Honest`, in `OnceInv`), the latter as long as the process may act on it, and that memory and
pending text lag behind the file in nothing the next save could take back (`FileInv`). The two findings
show that neither condition can be dropped: a cancel removes a mark, a second process an old record.

## 4. The removal

### Modules

* `Uninstall`: the computer's side (`uninstall.py`), the shell scripts it starts
  on Android, the offline worker (`uninstall_worker.py`,
  `uninstall_growth.py`), and, as external parts, boot loader and stock
  recovery.
* `UninstallProofs`: theorems.

### State and code

`record` is the transaction, `host` the worker thread of the computer (`pc` names
the places of `run`, `recover_arm`, `arm`, `rearm_growth`, `finish`), `scripts` the
shell scripts on Android: `attached` is the one the computer waits for, `orphan` one
that outlived its computer's process, because `adb.shell` is called without a
time limit. `gpt` has the two copies of the table, each old, torn or new; `flash` has
the boot control block, the recovery request, the inactive boot slot, the size
of the file system and the root; `mode` and `step` say what the device runs;
`history` counts resets and selections of the worker.

A script is modelled in the order of its commands: checks, copy of the image, readback,
selection. Each may fail, and the device may lose power between any two; a copy
in progress leaves the slot torn. The worker does the same from memory: checks, reset
request or invalidation of a root in a gap, backup table, primary table, growth,
copy of Android's boot image, selection of Android. A failed worker halts until the
user cycles power (`fail` loops for ever).

Of the boot loader the model assumes what the repository says: a selected trial
slot is counted down before it is started, and the device returns to Android when
the tries are used up. `docs/FINDINGS.md:83-87` expects one boot and says that it is
unverified; `openwrt/bundle/flash.py` says two tries. Both are checked
(`TrialBoots = {1, 2}`), and the boot loader may or may not deselect the failed
slot. If it leaves it at the higher priority, `trial_control` refuses a retried growth
("Another slot has higher priority"), a stop, not an error. The 2 KiB request and the 32
bytes of boot control each lie in one sector and are written whole or not at
all; overwriting an image or table with the same bytes changes nothing.

Not in this module: planning and imported journals (they are in `Partitions` and
`Snapshots`), the evidence checks (any check may fail: `HostFails`), the new backup of a boot image that Magisk
changed after a reset, clean-up of the staging directories, failing saves of the
record (those are in `Coordinator`), and more than one orphan at a time, which
takes two process deaths inside one shell command.

### Runs

The state space is finite without bounds: there is no counter but `history`,
which stops at two, one more than the properties allow. The run takes every
kind of removal (`gap`: the root lay in unallocated space; `reset`: userdata
grows and Android is reset; `grow`: userdata and its file system grow) and both boot
loaders; power loss, process death, failure of any step, cancel and retry are
unlimited, and a script may outlive its computer for as long as Android runs, while
the next process reads, decides and sends its own (`Overlap = TRUE`).

* `uninstall` (723 974 states): `TableSurvives`, `RemovedOnce`, `ResetIsAuthorised` and
  `ArmsAsAsked` (`ArmIsStaged`, `RunsAreAsked`) hold always; `TrialIsBootableAlone` and
  `CompletedIsRemovedAlone` hold as long as every script had ended whenever the computer
  was started again, which `MCUninstall` notes in `alone`.

`TrialIsBootable` and `CompletedIsRemoved` are not claimed with overlapping scripts:
the last script (`finish_boot`) does not check the boot control again, and an
orphan of `rearm_growth` that selects the worker beside it makes the device try a slot
that is being rewritten; the boot loader then falls back to Android. It takes
an orphan that pauses between its check and its write for as long as the new
process needs to reconnect and verify everything.

Power lost between the reset request and the table, with a boot loader that
does not try again, leaves Android reset with the old table: the code stops with
an error and refuses a new plan. The model reaches this state; no property
claims progress from it, and the removal has no liveness property: every step may
fail and wait for the user.

### Proofs

For every `DataActions` and `TrialBoots`, and for overlapping scripts too unless
said otherwise:

* `TypeCorrect`;
* `TableAlwaysSurvives`: `TableSurvives`. Invariant: it, and the backup copy is
  new while the primary is being written (`TableInv`);
* `TrialAlwaysBootable`: `TrialIsBootable` if `Overlap = FALSE`. The argument
  (`TrialInv`) is one of exclusion: one script runs at a time, on Android only, none
  beside the worker, so what a script found at its check is still so when it selects
  the slot; and the worker runs after its trial was counted down;
* `AlwaysRemovedOnce`: `RemovedOnce`. Invariant `OnceInv`: the boot control never
  returns to what the backup holds, so once the worker was selected no arming script
  passes its check; a script past its check and a final script need different tables,
  so they never run together; a reset that took place leaves no trial to be tried again;
* `OnlyAuthorisedResets`: `ResetIsAuthorised`, from the same invariant;
* `ArmsOnlyAsAsked`: `ArmsAsAsked`. `StagedInv` says who may have changed the boot control, `AskedInv`
  what the record says at each place of the computer: a run that resumes a growth stages nothing, and
  is used up by the script it sends;
* `TrialBootableAlone`: `TrialIsBootableAlone`, for `Overlap = TRUE` too. It is stated of the
  specification of `MCUninstall`, which notes in `alone` whether a script was ever left running beside
  a later run of the computer; until then `TrialInv` is inductive;
* `CompletedRemovals`: `CompletedIsRemovedAlone`, of the same specification. `RemovedInv` follows
  what the final script was told: what the computer has checked stays so (`Usable`), because once both
  tables are restored nothing on the device works against them (`Settled`).

All four invariants were checked by TLC, with and without overlapping scripts,
before they were proved.

## 5. The two-stage installation

### Modules

* `PartTwoStage`: `part-two-stage.py` and the parts of `flash.py` it calls, on the
  computer; `part-prepare.sh` and the root selection of `init`, in the initramfs;
  `part-write.sh`, on Android; `e5-boot-ok`, on the installed system; as external
  parts, boot loader, recovery and the user who switches back to Android.
* `PartTwoStageProofs`: theorems.

### State and code

`file` is the phase in each `transaction.json`, `effects` the coordinator's
journal (unused without it), `host` the computer's process: its place, its transaction, the
phase it has in memory, and how far the operation it sent has got. `writers` are the
running copies of `part-write.sh`: the one the computer waits for, and one left over from a
computer process that died (`su_checked` gives up after 1800 s, the script on the
device does not). `lock` is its directory. `root`, `boot` and `misc` are what lies
on the flash, `data` is userdata, `mode` what the device runs, `fresh` the
transactions whose plan is older than the running Android (`boot_id`).

The phases are saved where the code saves them (`Start`, `Await`, `Push`,
`SaveInstalled`, `SaveComplete`), each a step of its own; the operations on the
device follow each other as `Following` says. Under the coordinator (`Gui`) each
is passed over when its journal entry says done (`SkipDone`), and not sent again when it
says started: `Begin` is disabled, which is `RecoveryRequired`. The entry's name contains
the phase for the two operations both stages make (`EffectName`). A transaction of
`start` begins at the preparation, one of `reinstall` at `finish`; `resume` enters any
saved record, also a finished one (`AlreadyComplete`).

`Stop` stands for every way the computer's run ends early: a failed check, a failed
or timed-out command, a cancellation, the death of the process. What was sent may
still be carried out: a boot image may become whole, a script becomes an orphan.
`PowerLoss` may happen at any point of the device.

Simplifications: the table is divided in one step (`e5-gpt` writes two
copies: `Partitions`), a slot's control block and the recovery message lie in one sector
each, writing slot B has a torn state in between; `part-write.sh` has three
steps: it holds the lock, the partition is torn, the partition is whole and verified. There is no
card with a system of its own (`FlashInstall`), no systems in images on userdata, and one computer process at a
time. `LeaveLinux` is `/opt/e5/e5-next-boot android`, which comes from a package outside the
repository. Recovery carries out a requested reset, and offers it when Android's
userdata cannot be mounted.

### Runs

No bound but the sets of transactions; `history.carves` stops at two, one more
than the property allows. One transaction is enough for the questions about a
single record; two installations and a reinstallation are the smallest set in which
one record's preparation, another's, and a root that needs none can be confused.

* `two_stage` (228 710 states): `MCTwoStage` takes, as initial choices, several records
  resumed in any order; one record, whose old scripts may overlap with the resumed
  run; and the same under the coordinator, where the order depends on the names of the
  journal's entries. `CarvedOnce`, `ResetHandedOver` and `PreparedBeforeWritten` are
  claimed of all three, `RootStaysWhole` and `SelectsAndCompletes` on a device with one
  record (`OneRecord`).
* `stale_installed`: see below.

The properties about the root's content are claimed for a device with one
transaction: with several, the finding breaks them. There is no liveness
property: every step may fail and wait for the user, and three situations stop
for good until someone acts (a lock left by a power loss, an effect left
`started`, a preparation that failed half way), each by design of the code.

### Finding

* `stale_installed`: `finish` trusts the phase `installed` of its record
  (`part-two-stage.py:331`) and does not look at the partition again. A transaction
  that stopped after its root was written and before its boot image was (a failed
  synchronisation of the boot chain keeps `installed` for a retry, as the test at
  `openwrt/tests/part-two-stage.py:212` checks), then a `reinstall` whose
  `part-write.sh` is interrupted by a power loss, then the first record resumed: slot B is
  flashed and selected with a torn root behind it, and the record becomes `complete`.
  The device does not lose Android, the initramfs falls back. The test states "must
  not arm a failed installation" (line 206). The token that `part-write.sh` leaves on
  the root would tell the cases apart; nothing reads it.

### Proofs

For any set of transactions and reinstallations, with or without the
coordinator and with overlapping scripts:

* `Typed`: `TypeOK`;
* `CarvedOnceHolds`: `CarvedOnce`;
* `PreparedBeforeWrittenHolds`: `PreparedBeforeWritten`;
* `ResetHandedOverHolds`: `ResetHandedOver`.

One invariant, `IInv`, carries all four. `CarvedRoot`: a device without the
partition was never carved, and the partition is never taken away, so the request,
which wants none, is carried out once. `MarkedForCarver`: the marker names the
transaction the partition was carved for; slot B, from which the preparation reads
its request, changes only while Android runs (`AndroidWorks`). `DecidedForCarver`: a
file in a phase that skips the marker, a computer past the check, and a running
script all belong to the carver; it is needed because the phase `writing` outlives
the marker it was derived from. `ResetInTurn`: the slots are given back after the
request, and the request is withdrawn after the reset. `IInv` was checked by TLC on
the instances of the runs before it was proved.

On a device with one record (`OneRecord`), still with overlapping scripts and with or without the
coordinator:

* `WholeRoot`: `RootStaysWhole`;
* `SelectsWhatIsThere`: `SelectsAndCompletes`.

`OneInv` adds to `IInv` the order in which one record's operations are journalled (`Orderly`), that
of all scripts at most one holds the lock of the partition and only that one writes (`OneWriter`), and what of the
root, the image and the file lasts once an operation is recorded as done (`Lasting`). The
condition cannot be dropped: `stale_installed` is what happens with two records.

## 6. One installation in one run: `FlashInstall`, `Sizes`, `Backup`, `Hotfix`

These four are independent of each other: they share no file and no partition that
any of them changes while another looks at it. `Installation` declares `FlashInstall` and `Sizes`
side by side, for the proofs; `MCInstall` adds the other two and puts all four into one instance: an
initial choice says which of them runs, the others keep one of their initial states. The
same form is used for the instances of sections 7 to 9; a composite run explores
exactly the union of its subjects' behaviours, and a property of one of them is checked
in that one's states (the rest satisfies it in its initial state).

*FlashInstall.* `host` is the process of `flash.py`, its mode and its place; `tmp`, `card`,
`store` (`/data/e5linux`), `root`, `boot`, `target` (`boot-os`, `boot-os-next`) and
`control` are what it changes, `mode` is what the device runs. Each mode is the sequence of
steps its function calls in that order (`InstallSd`, `InstallData`, `InstallPart`); each step may fail, be
stopped within (`torn`, `half`) or be followed by a power cut. A later run of any mode
starts on what an earlier one left. When the process is stopped, the erasure that
it had just sent may go on on the phone (`Stop`, `OrphanWrites`); `history.outlived` notes that one did. The initramfs (`Carve`, `FinishPart`, `StartPart`, `StartCard`,
`StartImage`) is the other half of the same protocol.

*Sizes.* One number of units for userdata; Android writes or deletes between any two of the
readings that `plan_install`, `part_target`, `choose_userdata_size` and
`ensure_userdata_space` make. The roundings (4 MiB, 1 MiB, whole units) are those of the
code, at a scale of two units to a MiB.

*Backup.* A partition has a value that Android's writes change; a file has the values of its
beginning and its end, so a copy made across a write is a mixture. `pull` may deliver other
bytes, a kill may leave half a file, and the next attempt finds what is there.

*Hotfix.* A file is of a release, torn or missing; the overlay is extracted file by file; the
applier is stopped at any step and repeated with the same or another overlay. Only the
process is killed: a power cut of the computer is left out, and extraction and
application never run at the same moment.

`install` (736 000 states): two runs of any of the five modes, with commands that outlive them; userdata of 49 units filled to
five degrees, four changes by Android; two attempts to back up three partitions with one write of
Android between; two overlays with one changing dependency. Two runs are needed for one to find
what another left; a third finds nothing new, as a run leaves only what the variables say of
the last one. `SizesHold`, `BackupHolds` and `RepairHolds` are
the conjunctions of the modules' own properties, as `Installation` and `MCInstall` say; `NothingIsLost` and
`InstallsWhatStarts` are those of `FlashInstall`. The part of `InstallsWhatStarts` that concerns what is
selected and started is claimed until a command outlived its process (such a command breaks it: an old
unpacking may spoil the card a second run verified); images are kept even so. Deadlock is
not checked, because a finished size or backup has nothing more to do.

*Proofs* (`FlashInstallProofs`), for any number of runs, any modes and any bound on the power cuts:

* `TypeCorrect`;
* `NothingLost`: `NothingIsLost`;
* `InstalledStarts`: `InstallsWhatStarts`, with the same condition on outlived commands and none else.

Which step comes before which is read off the modes' tables of steps once (`Follows`), so that no
other proof goes through them. The invariant `FlashInv` says for each step what the process has
achieved when it is there: `OnCard`, `InImage`, `InRequest`, `InSlot`. None of this would last if
the phone could restart under it, hence `Attended`: while a run is in progress Android answers and
slot B is not selected. `Lacks` is what an unsuitable phone keeps, and `Armed` what remains of a run
that ended, as long as the slot is selected; the initramfs is shown to start just that. TLC
checked `FlashInv` on the instance of the run first.

Of the sizes, for any userdata, limits, packages, files and writes of Android:

* `SizesAlwaysHold`: `SizesHold`.

A size is rounded up to 4 MiB when it is confirmed and to 1 MiB by the flasher, and the free space down to
1 MiB when the flasher computes its range; the lemmas before the theorem say that a multiple survives
each of these (`StepsAreMibs`, `RoundedUp`, `RoundedDown`), which is where it is used that 4 MiB, the raw
image and 1 MiB are multiples of one another and that the raw image is not larger than the least system
(`UnitsAssumption`; all are numbers in the code). The rest is bookkeeping: `Seen` is the free space at
the installer's last look less what the installer took since, and `SizesInv` says at each step that it covers
what is still to be taken. That Android does not appear in it is the point: what it writes after the last look
nothing accounts for, and the properties are claimed for what was seen. TLC checked `SizesInv` first.

## 7. Updates and what must end: `Update`, `FieldCapture`, `Session`

*Update.* `session` is each invocation of `e5-update.py`, `script` the command it started on
the device, which goes on when the connection is lost; `staged` what lies under
`/.e5-update`, with `ready` and `request` as the two names of its request; `ram` what the
initramfs copied before it overwrites the root; `root.trial` the marker the initramfs
writes 0 into. In the layout `image` the update is a new file and two moves. Fairness
(`LiveSpec`): the background restart runs, the powered device boots, the initramfs
goes on, and the boot choice is made: none of them waits for anyone. `SuccessRuns` says
that what was reported as success is running sooner or later, after the last power cut, or the
device stopped with its reasons on the screen. `PassesBy` is the third way out: where the initramfs
cannot mount the root to look for a request (`part-update.sh:10`), it goes on without the update. It
starts the system that is there, or a shell, and the request stays for a later start.

*FieldCapture.* The main loop of `field-capture.py` step by step, with a signal handler that may
run between any two of them, children and a stream of probes behind a selector, and what a
killed capture leaves in the kernel. Fairness: the process runs, a delivered signal is
handled, and the clock reaches the end (`WF(TimeOver)`). The stream of the probes does not end
in this run (`TraceMayEnd = FALSE`): see section 10 for what happens if it does.

*Session.* See section 9; here one phone and one record, for liveness. Fairness: the worker is
a thread of a live process that goes on, except while a command of a removal writes. Those are
sent with `timeout=None` (`uninstall.py:450`, 546, 702) inside an effect, which puts a pause off until
they return. `Unlimited` names those states: no fairness is assumed in them, so the command may hang
for ever, and `PausesEnd` claims nothing of a pause until it has ended. Every other call of the
worker has a limit.

`update` (226 074 states, `MCUpdate`): two sessions, both layouts, two power cuts: one to interrupt an update and one
to interrupt what the device does about it; two captures with two signals each; a phone that starts
twice. The same run takes the coordinator
of section 3 with an update to send: one write, a pause, a crash and two restarts. `ReplacesByItsOwn`,
`StartsWholeSystems`, `SuccessRuns`, `CompletedOnNewSystem`, `CaptureEnds`, `PausesEnd`.

*Proofs* (`UpdateProofs`), for any number of sessions and power cuts:

* `TypeCorrect`;
* `ReplacedByItsOwn`: `ReplacesByItsOwn`;
* `WholeSystemsStart`: `StartsWholeSystems`.

That a request names the session whose payload lies under it is not inductive: the invariant `UpdateInv`
says what a script has in place at each of its steps (`Staging`), that a script lives as long as the system
it runs on (`Places`), that only suitable sessions get that far (`Suiting`), and where the whole
systems are in either layout (`Roots`, `Images`). `Once` says that a session is written once, so that a
version which failed its trial is not found under a later one. TLC checked `UpdateInv` first.
`CompletedOnNewSystem` is proved of `Coordinator` (section 3).

## 8. The storage of a phone: `Layout`, `Partitions`, `Snapshots`, `Storage`, `Extents`

*Layout* has the arithmetic of `gpt.py`, of `restored_layout` and of `e5-gpt`: free ranges,
a new partition in the largest of them, shrinking and carving userdata, removing a root. An
entry's identity is part of its name.

*Partitions* lets all of its users edit one disk over time. `first` and `last` are the two
copies of the table, `kernel` the table the running system read when it started: the code
asks the disk for some facts and the kernel for others. The plan of an installation, its
backup, the removal's plan and what the user was shown are each taken at their moment and
used later; another program may add a partition meanwhile, a backup may be lost, and the
power may fail between the copies, and between filesystem and partition. `e5_free` writes its marker where
the partition is to begin before it writes the copies (`adapter.py:491`). It is in the partition once the
first copy names one (`GapFirst`); if the script stops before, it lies where no partition is,
in a range that was checked to hold nothing, and the record is not run again. A removal takes a
filesystem for Android's when it fills userdata but for `Slack` (`NearlyFills`: 4 MiB, beside what a
mapping takes, `uninstall.py:132`).

*Snapshots* has what `prepare` saves of a removal and what `validate_snapshots` accepts of a journal
that was exported, changed in up to two places (an entry of either saved table, the
recorded action, the original, the authorisation), with checksums and sizes made to fit, and
imported. `MaxAlter = 2` because a single change is caught by comparing the saved tables with
each other; it takes two that agree to be consistent.

*Extents* has the reader of unmounted ext4 files. A block of the tree is chosen when it is
first read, so every tree is tried; the reader's walk is compared with the lookup of a mounted
filesystem, defined independently of it.

*Storage* declares a phone's table and the journals beside each other, with the constants of `Layout` in
common; `MCStorage` adds the reader.

`storage` (1.1 million states): disks of 19 sectors with alignment 2 and least partition 4, so that
a range can miss its alignment, or the least size, by one; one installation and one removal,
with factory tables in which a vendor's partition lies before or after userdata, and with one old
filesystem, or a filesystem of Android that falls short of userdata by the one sector that is `Slack`;
journals of two layouts, with the root behind userdata, encrypted or not, where the original lost a sector
by rounding, or with the root elsewhere; trees of two levels on eight blocks of which two may be nodes: a
node can name itself, its parent, or a block outside. `AndroidKeepsItsData`, `RemovesAsShown`, `JournalsRemoveTheRoot`, `ReaderAgrees` are
the conjunctions of the modules' own properties. Deadlock is not checked: a reader that ended has
nothing more to do.

### Proofs

`LayoutProofs` has the lemmas about tables and their edits, `StorageProofs` the theorems, for any
number of slots, any disk and alignment, any tables a phone may have left the factory with, and
any installations and sizes:

* `StorageTypes`: `TypeOK`;
* `DataKept`: `AndroidKeepsItsData`;
* `RemovedAsShown`: `RemovesAsShown`;
* `JournalsSafe`: `JournalsRemoveTheRoot`, with any number of changes to the journal.

A table is a function from slots, and each edit changes two of them at most, so the lemmas need no
induction: each says which entries an edit leaves alone, which sectors it frees or takes, and that a sound
table stays one; then when a saved table explains the table on the disk (`CanRestore`), and that the removal
gives the saved table back.

The properties of the table are statements about a single moment, and the code acts on moments
long past: the plan, the saved original, the kernel's table, what the user was shown. The invariant
`IInv` says how each of these relates to the disk now:

* `Tabulated`: every table anywhere is sound, and saved ones differ from the disk in nobody else's entries;
* `Fresh`: what a plan was made from, as long as it can be carried out;
* `Asks`: a request is of a running installation, or of an armed removal;
* `Stands`: for each place a program can be at, what it is about and what it has done;
* `Writing`: between the two copies, what the second already says and the first will;
* `Fits`: the filesystem is inside userdata, or about to be made anew;
* `Keeping`: nothing is taken from userdata while a system lies in what it gave up before;
* `Sparing`: no usable gap begins before an old filesystem that lies in it;
* `Explaining`: as long as only one installation has edited the table, its record explains the table.

`JournalInv` for the journals says that what was taken had been accepted as it still is. The proofs use
what the modules assume of their constants: the names of installations are not those of the other
causes (`TxnsAssumption`), factory tables are sound (`FactoryAssumption`), sizes are whole MiBs and
not below the least partition (`NeedsAssumption`), which is a whole number of MiBs itself
(`MinPart % Align = 0`, in `Layout`; 2 GiB in the code), and the tables of the journals are tables
(`SavedAssumption`). TLC checked `IInv` and `JournalInv` on the instance of the run first. The
attempt to prove it made two properties more exact: `AndroidKeepsRoom` says that the filesystem
left after a shrinking has the least size and room for the contents, rounded down to a MiB as `e5-gpt`
rounds them; and `GapSparesUnlisted` is claimed as long as nothing is taken from userdata,
because otherwise it is false (section 10).

## 9. Several devices: `Session`, `Mu300Update`

*Session* composes what the cores have in detail, with one write or two for each operation: the
main thread reads requests one after another (`Plan`, `Start`, `Cancel`, `Answer`, `Connect`), at most one
worker runs (`job`), which waits for people and phones. A phone has a cable of its own; the
wireless address `Air` and a management address are answered by whichever phone is there.

`Air` may go to another phone at any time (`Moves`), under the worker's hands too: nothing in
the code prevents that, or notices it in the minutes between the comparison of the flash (`service.py:393`,
`wait_android`) and the end of the write. The model has what is compared on the way. `Check` and `WaitAndroid`
compare the flash. `Verifies` is what an installation in two stages asks of the phone it finds when its write
begins. The scripts of a removal compare the saved table and the boot images in the same command that
writes (`uninstall.py:430`), which is taken to hold for its own phone only (`Reaches`); everything else is
sent to whoever answers. A second stage writes partition and slot with commands of their own, so that
they may reach two phones (`Written`). `seen` is the phone that was last compared.

An image and the selection of its slot are one step here; what may happen between them is in the cores.
The growing of a file system at the end of a removal (`uninstall.py:546`) is in `Uninstall` only.

*Mu300Update* has `probe_update`, `update_mu300` and the wait of the other family, whose hidden area is
not in the partition table. `local-update.sh` is not part of the repository and is taken to
succeed as a whole or to change nothing that counts.

`session` (1.3 million states): two phones and one record of any kind, where the second phone runs
Android alone until it is switched off; one phone and two records, paused and resumed in any order; two
mu300 devices behind one address, of which the second has a hidden area that may change its size, one update in
the interface and one outside. Two phones are enough for the
wrong one to answer; three starts of the planned phone are those before, between and after the two
stages. `StaysOnOwnPhone`, `ConfirmedByItsUser`, `UpdatesPlanned`.

*Proofs* (`SessionProofs`), for any phones, records, methods and number of restarts:

* `TypeCorrect`;
* `StaysOnPhone`: `StaysOnOwnPhone`;
* `ConfirmedByOwnUser`: `ConfirmedByItsUser`.

`StaysOnOwnPhone` says as much of the phone as the code can tell. Over a cable, and for a removal, a record
writes into its own phone only. At the wireless address it writes into its own phone or into one that took
the address over after the worker had compared the one there, never into another one that was there when it
compared (`Belongs`); that it is always its own is `WritesOwnPhone`, which does not hold (section 10). What
completes a record is its own phone in any case: it runs OpenWrt when an installation is completed, and
has no system in a partition when a removal is.

The invariant `SessionInv` says why. `Homed`: where a record is at home never changes, and a cable leads
there. `Seen`: between comparison and write the phone that was compared is that of the record.
`Working`: which step belongs to which kind of record. `Removed`: once a removal has found the table restored,
no system comes back before its end, though a plan made earlier may prepare a new partition there
(`RemovedAtEnd`, section 10). `Asked` keeps an answer with its run.

## 10. Disagreements met while modelling

Besides the three findings above, the modules state some claims of the repository that the
models do not satisfy. Each is a definition, marked in its comment, that TLC refutes
under a configuration for its module alone; `PROJECT.json` lists runs for the three that concern the cores.

| Claim | Where it is made | What the code does |
| --- | --- | --- |
| `FlashInstall!CheckLeavesNothing` | `flash.py:1256`: "a check leaves nothing on the device" | the tools' directory (245-249) and the script of `_bootchain` (444) stay in `/data/local/tmp` |
| `FlashInstall!CarvedAsAsked` | `flash.py:713`: "No GPT changes" | a request left by an interrupted `--part` (1197) is carried out by the next start of slot B, whichever installation selected it |
| `FlashInstall!FinishedOnce` | `init:653`: "A finished install restarts into the new system itself" | if userdata cannot be mounted the request stays (`install-part.sh:235`), slot B gets its tries back, and the installation is made again |
| `Sizes!PlannedPartFits` | `service.py:73`: "at least 2 GiB" | the flasher wants 256 MiB more than the packaged system (`flash.py:1105`) |
| `Sizes!OfferedImageFits` | the range shown for an image already takes the budget off | the budget is demanded again when the uploads are stored (`flash.py:888`, 985) |
| `Update!OldImageKept` | `init:759`: "the old one kept" | power lost between the two moves: the next boot removes the image that ran until now (762) |
| `Update!SameBuild` | `openwrt/README.zh-CN.md:28`: kernel and modules from one build | the command may end between the boot image (`e5-update.py:151`) and the request (157) |
| `Session!StaleAdbWaits` | `installer/tests/test_recovery.py:105` | the restart is measured against the boot of the plan (`service.py:438`); a phone restarted between plan and start passes at once, and the second stage fails closed |
| `Session!RemovalStays` | `docs/INSTALLER-UNINSTALL-20261016.zh-CN.md:23` | only `plan` looks for a removal; a plan made before it may be started after it was armed |
| `Session!WritesOwnPhone` | `installer/PROTOCOL.md:19`: connecting "cannot rebind the transaction" | the phone at a wireless address is compared before the write (`service.py:393`), not during it; an installation writes into the phone that has taken the address over |
| `Session!RemovedAtEnd` | `uninstall.py:608`: a removal ends when the partition is gone | three records of one phone: a plan in two stages, an installation that makes the partition, its removal. The first is started when the removal has worked on the phone; it looks only for a missing partition (`part-two-stage.py:320`), and its preparation runs before the removal is completed |
| `Partitions!UnlistedKept` | `adapter.py:333`: "Retain unlisted old filesystems" | the phone adds the root in the largest free range, by a rule of its own (`install-part.sh:131`) |
| `Partitions!GapSparesUnlisted`, without its first condition | `adapter.py:333`, as above | only the first sector of a gap is looked at (333-350). When an installation that shrank userdata is removed as the device's own, what rounding took from userdata joins the gap behind it: the gap then begins before the old filesystem in it, and the next installation into a gap covers that filesystem |
| `Partitions!InstalledAsPlanned` | `service.py:396`: "do not accept stale TF geometry or GPT gaps" | whether there is a partition is asked of the kernel, which knows the table of its start |
| `Hotfix!OriginalKept` | `installer/VERIFICATION.md:183`: "retains the original manifest" | the kept copy is written in place and believed when it exists (`apply_hotfix.py:67`) |
| `FieldCapture!LeavesNothing` with `TraceMayEnd` | `docs/FIELD-CAPTURE-20261013.zh-CN.md:32` | an ended stream leaves the selector, is never closed, and the kernel refuses to remove its instance (`field-capture.py:193`, 236) |

## 11. What is model-checked only

* Liveness (`WorkersSettle`, `SuccessRuns`, `CaptureEnds`, `PausesEnd`), which TLAPS does not
  reach with its fairness.
* `ReaderAgrees` of `Extents`: what the reader's walk computes is compared with a recursive definition, for every
  tree, which is induction over data.
* `BackupHolds`, `RepairHolds` of section 6 and `UpdatesPlanned` of section 9, whose proofs have not been
  written; nothing known stands in their way.
* `CompletedOnNewSystem` as the run `update` states it, of an instance of `Coordinator`. The theorem about
  it is `CompletedRuns` (section 3), of `Coordinator` itself and for every value of the constants, those of
  that instance included; TLAPS cites no theorem through an instance. With a second process it is false, for the
  reason of `stale_load`: an old record written back makes a write begun again, and one that failed
  may then be followed by a completion.

The conditions of the theorems of section 3, one process and, for some, no cancel request, are not for want of a
proof: without them `FileIsTrue` is false, which is what the findings show.
`TrialAlwaysBootable` states `TrialIsBootable` for `Overlap = FALSE`; `TrialBootableAlone` and the run
state the same with overlapping scripts until the first one that overlaps.

## 12. What is not modelled

Besides the parts of the plan: a power cut of the computer (only process
death: `atomic_json` does not fsync the directory, see the hazards), the content of
packages, images and settings, the ring of log files of a capture, the TF installers other than
the commit of an image (they are sequential and start again from nothing), the interface, builds, kernel
patches and release tools. `PROJECT.json` lists every component with the reason.

Hazards that the code has and no run covers, besides the one in `PROJECT.json`: a lock left by
`part-write.sh` after a power cut and an effect left `started` both refuse retries until someone acts,
by intent; a card exchanged for another of the same size between plan and erasure (cards have no identity in
the code); a record exported to a second computer and run from both; the boot control
that `mu300_update.py:114` reads before an upload and uses after it (the writing is in
`local-update.sh`).
