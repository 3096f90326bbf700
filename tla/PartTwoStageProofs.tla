------------------------- MODULE PartTwoStageProofs -------------------------
(***************************************************************************)
(* Theorems about PartTwoStage for any number of transactions and          *)
(* reinstallations, with or without the coordinator's journal, and whether *)
(* or not old scripts overlap with new ones.                               *)
(***************************************************************************)
EXTENDS PartTwoStage, TLAPS

-----------------------------------------------------------------------------
(* The invariant *)

\* The operations that follow the decision to write the root.
Decided == {"push", "write", "wrote", "chain2", "boot2", "arm2", "closing"}
SecondStage == {"writing", "installed", "complete"}

\* While the device is not in Android, nothing the computer sent is running.
AndroidWorks ==
    /\ mode # "android" => \A w \in Owners : writers[w] = NoWriter
    /\ mode # "android" => host.call \notin {"begun", "half"}

\* A partition that was never carved has no carver; one that was is there.
CarvedRoot ==
    /\ root.state = "absent" => history.carves = 0 /\ history.carver = NoTxn
    /\ history.carves = 0 => history.carver = NoTxn
    /\ history.carves <= 1

\* The marker names the transaction the partition was carved for.
MarkedForCarver ==
    /\ root.state = "marked" => root.by = history.carver
    /\ mode = "marking" => boot.txn = history.carver

\* Whoever has decided to write is the one the partition was carved for; so says
\* the file it may be resumed from.
DecidedForCarver ==
    /\ \A t \in Txns \ Reinstalls : file[t] \in SecondStage => history.carver = t
    /\ host.txn \in Txns \ Reinstalls =>
          (host.pc \in Decided \/ host.phase \in SecondStage => history.carver = host.txn)
    /\ host.pc # "off" => host.txn \in Txns
    /\ host.pc = "off" => host.txn = NoTxn
    /\ PreparedBeforeWritten

\* The slots are given back, and the request withdrawn, in their turn.
ResetInTurn ==
    /\ mode \in {"marking", "requesting", "givingback"} \/ history.handed => history.carves # 0
    /\ mode = "givingback" => misc.bcb = "wipe"
    /\ mode = "recovered" => data = "formatted"
    /\ ResetHandedOver

IInv == TypeOK /\ AndroidWorks /\ CarvedRoot /\ MarkedForCarver /\ DecidedForCarver /\ ResetInTurn

-----------------------------------------------------------------------------
(* Types *)

\* Where the computer goes.
LEMMA HostTyped ==
    ASSUME TypeOK
    PROVE  /\ Off \in Host
           /\ \A pc \in HostStates : [host EXCEPT !.pc = pc, !.call = "no"] \in Host
           /\ \A pc \in HostStates, phase \in Phases :
                  [host EXCEPT !.pc = pc, !.phase = phase, !.call = "no"] \in Host
           /\ \A call \in {"begun", "half", "ended"} : [host EXCEPT !.call = call] \in Host
           /\ host.txn \in Tokens
BY DEF TypeOK, Host, Off, HostStates, Phases, Tokens

\* What it saves.
LEMMA FileTyped ==
    ASSUME TypeOK
    PROVE  \A t : \A phase \in Phases : [file EXCEPT ![t] = phase] \in [Txns -> Phases]
BY DEF TypeOK

\* What follows an operation.
LEMMA PlacesTyped == \A pc \in Calls : Following[pc] \in HostStates
BY DEF Calls, Following, HostStates

\* What is entered in the journal.
LEMMA EffectsTyped ==
    ASSUME TypeOK
    PROVE  \A t, n : \A state \in {"started", "done"} :
               [effects EXCEPT ![t][n] = state]
                   \in [Txns -> [EffectNames -> {"none", "started", "done"}]]
BY DEF TypeOK

\* Nothing runs after a restart, and a script that ends is gone.
LEMMA WritersTyped ==
    ASSUME TypeOK
    PROVE  /\ NoWriter \in Writer
           /\ [w \in Owners |-> NoWriter] \in [Owners -> Writer]
           /\ \A w : [writers EXCEPT ![w] = NoWriter] \in [Owners -> Writer]
           /\ \A w : [writers EXCEPT ![w].pc = "verify"] \in [Owners -> Writer]
BY DEF TypeOK, NoWriter, Writer, Owners, Tokens

\* What is written to slot B.
LEMMA BootTyped ==
    ASSUME TypeOK
    PROVE  Torn \in Boot /\ BootImage \in Boot /\ boot.txn \in Tokens
BY HostTyped DEF TypeOK, Torn, BootImage, Boot, Tokens

\* What is written to misc.
LEMMA MiscTyped ==
    ASSUME TypeOK
    PROVE  /\ \A control \in Controls : [misc EXCEPT !.control = control] \in Misc
           /\ \A bcb \in {"empty", "wipe"} : [misc EXCEPT !.bcb = bcb] \in Misc
           /\ misc.control \in Controls
BY DEF TypeOK, Misc

\* What becomes of the root.
LEMMA RootTyped ==
    ASSUME TypeOK
    PROVE  /\ [NoRoot EXCEPT !.state = "blank"] \in Root
           /\ [root EXCEPT !.state = "marked", !.by = boot.txn] \in Root
           /\ [root EXCEPT !.trial = MarkTried(@)] \in Root
           /\ [root EXCEPT !.trial = "none"] \in Root
BY BootTyped DEF TypeOK, NoRoot, Root, Tokens, MarkTried

\* What the properties are about.
LEMMA HistoryTyped ==
    ASSUME TypeOK
    PROVE  /\ [history EXCEPT !.carves = IF @ = 0 THEN 1 ELSE 2, !.carver = boot.txn] \in History
           /\ [history EXCEPT !.armed = IF host.pc = "arm2" THEN host.txn ELSE @] \in History
           /\ [history EXCEPT !.handed = TRUE] \in History
<1>1. /\ boot.txn \in Tokens /\ host.txn \in Tokens /\ history \in History
      /\ history.armed \in Tokens
  BY BootTyped, HostTyped DEF TypeOK, History
<1>2. \A n \in 0..2 : [history EXCEPT !.carves = n, !.carver = boot.txn] \in History
  BY <1>1 DEF History
<1>3. [history EXCEPT !.carves = IF @ = 0 THEN 1 ELSE 2, !.carver = boot.txn] \in History
  <2>1. (IF history.carves = 0 THEN 1 ELSE 2) \in 0..2
    OBVIOUS
  <2>2. QED
    BY <1>2, <2>1
<1>4. \A t \in Tokens : [history EXCEPT !.armed = t] \in History
  BY <1>1 DEF History
<1>5. [history EXCEPT !.armed = IF host.pc = "arm2" THEN host.txn ELSE @] \in History
  BY <1>1, <1>4
<1>6. [history EXCEPT !.handed = TRUE] \in History
  BY <1>1 DEF History
<1>7. QED
  BY <1>3, <1>5, <1>6

\* The first state.
LEMMA TypeInit == Init => TypeOK
<1> SUFFICES ASSUME Init PROVE TypeOK
  OBVIOUS
<1>1. file \in [Txns -> Phases] /\ effects \in [Txns -> [EffectNames -> {"none", "started", "done"}]]
  BY DEF Init, Phases
<1>2. host \in Host /\ writers \in [Owners -> Writer] /\ root \in Root
  BY DEF Init, Host, Off, HostStates, Phases, Writer, NoWriter, Root, NoRoot, Installed, Tokens
<1>3. boot \in Boot /\ misc \in Misc
  BY DEF Init, Boot, Misc, Controls, Tokens
<1>4. history \in History
  BY DEF Init, History, Tokens
<1>5. QED
  BY <1>1, <1>2, <1>3, <1>4 DEF Init, TypeOK, Modes

\* The steps of the saved record.
LEMMA RecordType == TypeOK /\ Record => TypeOK'
<1> SUFFICES ASSUME TypeOK, Record PROVE TypeOK'
  OBVIOUS
<1> USE DEF TypeOK, records, script, flash
<1>1. CASE Await
  BY <1>1, HostTyped, FileTyped DEF Await, Save, GotoIn, HostStates, Phases
<1>2. CASE AlreadyComplete
  BY <1>2, HostTyped DEF AlreadyComplete
<1>3. CASE Check
  <2>1. PICK pc \in {"chain2", "push"} : Goto(pc)
    BY <1>3 DEF Check
  <2>2. host' \in Host
    BY <2>1, HostTyped DEF Goto, HostStates, Calls
  <2>3. QED
    BY <1>3, <2>2 DEF Check
<1>4. CASE Push
  BY <1>4, HostTyped, FileTyped DEF Push, Save, GotoIn, HostStates, Calls, Phases
<1>5. CASE SaveInstalled
  BY <1>5, HostTyped, FileTyped DEF SaveInstalled, Save, GotoIn, HostStates, Calls, Phases
<1>6. CASE SaveComplete
  BY <1>6, HostTyped, FileTyped DEF SaveComplete, Save, Phases
<1>7. QED
  BY <1>1, <1>2, <1>3, <1>4, <1>5, <1>6 DEF Record

\* The operations on the device.
LEMMA CommandType == TypeOK /\ Command => TypeOK'
<1> SUFFICES ASSUME TypeOK, Command PROVE TypeOK'
  OBVIOUS
<1> USE DEF TypeOK, records, script, flash
<1>1. CASE SkipDone
  BY <1>1, HostTyped, PlacesTyped DEF SkipDone, Goto
<1>2. CASE Begin
  <2>1. effects' \in [Txns -> [EffectNames -> {"none", "started", "done"}]]
    <3>1. [effects EXCEPT ![host.txn][Name] = "started"] \in [Txns -> [EffectNames -> {"none", "started", "done"}]]
      BY EffectsTyped
    <3>2. QED
      BY <1>2, <3>1 DEF Begin
  <2>2. host' \in Host
    BY <1>2, HostTyped DEF Begin
  <2>3. QED
    BY <1>2, <2>1, <2>2 DEF Begin
<1>3. CASE Finish
  <2>1. effects' \in [Txns -> [EffectNames -> {"none", "started", "done"}]]
    <3>1. [effects EXCEPT ![host.txn][Name] = "done"] \in [Txns -> [EffectNames -> {"none", "started", "done"}]]
      BY EffectsTyped
    <3>2. QED
      BY <1>3, <3>1 DEF Finish
  <2>2. host' \in Host
    BY <1>3, HostTyped, PlacesTyped DEF Finish, Goto
  <2>3. QED
    BY <1>3, <2>1, <2>2 DEF Finish
<1>4. CASE Reboot
  BY <1>4, HostTyped, WritersTyped DEF Reboot, Goto, HostStates, Modes
<1>5. CASE WaitAndroid
  BY <1>5, HostTyped DEF WaitAndroid, Goto, HostStates
<1>6. CASE SyncChain
  BY <1>6, HostTyped DEF SyncChain
<1>7. CASE FlashBegins
  BY <1>7, HostTyped, BootTyped DEF FlashBegins
<1>8. CASE FlashEnds
  BY <1>8, HostTyped, BootTyped DEF FlashEnds
<1>9. CASE Arm
  BY <1>9, HostTyped, MiscTyped, HistoryTyped DEF Arm, Controls
<1>10. QED
  BY <1>1, <1>2, <1>3, <1>4, <1>5, <1>6, <1>7, <1>8, <1>9 DEF Command

\* Boot loader and recovery.
LEMMA FirmwareType == TypeOK /\ Firmware => TypeOK'
<1> SUFFICES ASSUME TypeOK, Firmware PROVE TypeOK'
  OBVIOUS
<1> USE DEF TypeOK, records, script, flash
<1>1. CASE PowerLoss
  BY <1>1, HostTyped, WritersTyped DEF PowerLoss, Modes
<1>2. CASE BootRecovery
  BY <1>2 DEF BootRecovery, Modes
<1>3. CASE BootB
  BY <1>3, MiscTyped DEF BootB, Controls, Modes
<1>4. CASE BootA
  BY <1>4, MiscTyped DEF BootA, Controls, Modes
<1>5. CASE RecoveryWipes
  BY <1>5 DEF RecoveryWipes, Modes
<1>6. CASE RecoveryEnds
  BY <1>6, MiscTyped DEF RecoveryEnds, Modes
<1>7. QED
  BY <1>1, <1>2, <1>3, <1>4, <1>5, <1>6 DEF Firmware

\* The initramfs and the system it starts.
LEMMA InitramfsType == TypeOK /\ Initramfs => TypeOK'
<1> SUFFICES ASSUME TypeOK, Initramfs PROVE TypeOK'
  OBVIOUS
<1> USE DEF TypeOK, records, script, flash
<1>1. CASE PrepareRejects
  BY <1>1 DEF PrepareRejects, Modes
<1>2. CASE Carve
  BY <1>2, RootTyped, HistoryTyped DEF Carve, Modes
<1>3. CASE Mark
  BY <1>3, RootTyped DEF Mark, Modes
<1>4. CASE RequestReset
  BY <1>4, MiscTyped DEF RequestReset, Modes
<1>5. CASE GiveBack
  BY <1>5, MiscTyped, HistoryTyped DEF GiveBack, Controls, Modes
<1>6. CASE PrepareFails
  BY <1>6 DEF PrepareFails, Modes
<1>7. CASE SelectRoot
  BY <1>7, RootTyped DEF SelectRoot, Modes
<1>8. CASE Fallback
  BY <1>8, MiscTyped DEF Fallback, Controls, Modes
<1>9. CASE BootOk
  BY <1>9, RootTyped, MiscTyped DEF BootOk, Controls
<1>10. CASE LeaveLinux
  BY <1>10, MiscTyped DEF LeaveLinux, Controls, Modes
<1>11. QED
  BY <1>1, <1>2, <1>3, <1>4, <1>5, <1>6, <1>7, <1>8, <1>9, <1>10 DEF Initramfs

\* Beginning or resuming a transaction.
LEMMA EntryType == TypeOK /\ Entry => TypeOK'
<1> SUFFICES ASSUME TypeOK, NEW t \in Txns, Start(t) \/ Reinstall(t) \/ Resume(t) PROVE TypeOK'
  BY DEF Entry
<1> USE FileTyped DEF TypeOK, HostStates, Calls, Host, Tokens, Phases, records, script, flash
<1>1. CASE Start(t)
  BY <1>1 DEF Start, Save
<1>2. CASE Reinstall(t)
  BY <1>2 DEF Reinstall, Save
<1>3. CASE Resume(t)
  BY <1>3 DEF Resume
<1>4. QED
  BY <1>1, <1>2, <1>3

\* Stopping: what is left over is what was running.
LEMMA StopType == TypeOK /\ Stop => TypeOK'
<1> SUFFICES ASSUME TypeOK, Stop PROVE TypeOK'
  OBVIOUS
<1>1. boot' \in Boot
  BY BootTyped DEF Stop, TypeOK
<1>2. writers' \in [Owners -> Writer]
  BY WritersTyped DEF Stop, TypeOK, Owners
<1>3. QED
  BY <1>1, <1>2, HostTyped DEF Stop, TypeOK, records

\* The script that writes the root.
LEMMA ScriptType == TypeOK /\ Script => TypeOK'
<1> SUFFICES ASSUME TypeOK, Script PROVE TypeOK'
  OBVIOUS
<1> USE HostTyped, WritersTyped DEF TypeOK, records, script, flash
<1>1. CASE WriterStarts
  <2>1. writers' \in [Owners -> Writer]
    BY <1>1 DEF WriterStarts, Writer
  <2>2. QED
    BY <1>1, <2>1 DEF WriterStarts
<1>2. ASSUME NEW w \in Owners, WriterWrites(w) PROVE TypeOK'
  BY <1>2 DEF WriterWrites, Root, Tokens
<1>3. ASSUME NEW w \in Owners, WriterEnds(w) PROVE TypeOK'
  <2>1. root' \in Root
    BY <1>3 DEF WriterEnds, Root, Writer
  <2>2. QED
    BY <1>3, <2>1 DEF WriterEnds
<1>4. ASSUME NEW w \in Owners, WriterFails(w) PROVE TypeOK'
  BY <1>4 DEF WriterFails
<1>5. QED
  BY <1>1, <1>2, <1>3, <1>4 DEF Script

\* Every step keeps the types.
LEMMA TypeStep == TypeOK /\ [Next]_vars => TypeOK'
<1>1. TypeOK /\ UNCHANGED vars => TypeOK'
  BY DEF TypeOK, vars
<1>2. QED
  BY <1>1, EntryType, RecordType, CommandType, StopType, ScriptType, FirmwareType, InitramfsType
  DEF Next

-----------------------------------------------------------------------------
(* The invariant holds *)

USE DEF records, script, flash

\* The first state.
LEMMA InvInit == Init => IInv
<1> SUFFICES ASSUME Init PROVE IInv
  OBVIOUS
<1>1. AndroidWorks
  BY DEF Init, AndroidWorks
<1>2. CarvedRoot /\ MarkedForCarver
  BY DEF Init, CarvedRoot, MarkedForCarver, NoRoot, Installed
<1>3. DecidedForCarver
  BY TxnsAssumption
  DEF Init, DecidedForCarver, PreparedBeforeWritten, SecondStage, Decided, Off, NoWriter
<1>4. ResetInTurn
  BY DEF Init, ResetInTurn, ResetHandedOver
<1>5. QED
  BY <1>1, <1>2, <1>3, <1>4, TypeInit DEF IInv

\* What the computer sends, it sends to a running Android.
LEMMA AndroidStep == TypeOK /\ AndroidWorks /\ [Next]_vars => AndroidWorks'
<1> SUFFICES ASSUME TypeOK, AndroidWorks, [Next]_vars PROVE AndroidWorks'
  OBVIOUS
<1> USE DEF AndroidWorks
<1>h. host.call \in {"no", "begun", "half", "ended"} /\ DOMAIN writers = Owners
  BY DEF TypeOK, Host
<1>1. CASE Entry
  BY <1>1 DEF Entry, Start, Reinstall, Resume
<1>g. \A pc, phase : Goto(pc) \/ GotoIn(pc, phase) => host'.call = "no"
  BY DEF Goto, GotoIn, TypeOK, Host
<1>o. Off.call = "no"
  BY DEF Off
<1>2. CASE Record
  BY <1>2, <1>g, <1>o DEF Record, Await, AlreadyComplete, Check, Push, SaveInstalled, SaveComplete
<1>3. CASE Command
  <2>1. CASE Begin
    BY <2>1, <1>o DEF Begin
  <2>2. CASE Reboot
    BY <2>2, <1>g DEF Reboot
  <2>3. CASE SkipDone \/ Finish \/ WaitAndroid
    BY <2>3, <1>g DEF SkipDone, Finish, WaitAndroid
  <2>4. CASE SyncChain \/ FlashBegins \/ FlashEnds \/ Arm
    BY <2>4 DEF SyncChain, FlashBegins, FlashEnds, Arm
  <2>5. QED
    BY <1>3, <2>1, <2>2, <2>3, <2>4 DEF Command
<1>4. CASE Stop
  BY <1>4, <1>h DEF Stop, Off, Owners
<1>5. CASE Script
  BY <1>5, <1>h DEF Script, WriterStarts, WriterWrites, WriterEnds, WriterFails, NoWriter, Off
<1>6. CASE Firmware
  <2>1. CASE PowerLoss
    BY <2>1, <1>o, <1>h DEF PowerLoss
  <2>2. CASE BootRecovery \/ BootB \/ BootA \/ RecoveryWipes \/ RecoveryEnds
    BY <2>2 DEF BootRecovery, BootB, BootA, RecoveryWipes, RecoveryEnds
  <2>3. QED
    BY <1>6, <2>1, <2>2 DEF Firmware
<1>7. CASE Initramfs
  BY <1>7 DEF Initramfs, PrepareRejects, Carve, Mark, RequestReset, GiveBack, PrepareFails, SelectRoot,
              Fallback, BootOk, LeaveLinux
<1>8. CASE UNCHANGED vars
  BY <1>8 DEF vars
<1>9. QED
  BY <1>1, <1>2, <1>3, <1>4, <1>5, <1>6, <1>7, <1>8 DEF Next

\* Only the preparation names a carver, and no step takes the partition away.
CarverKept == history'.carver = history.carver /\ history'.carves = history.carves
RootKept == root'.state = "absent" => root.state = "absent"

LEMMA CarverStays ==
    ASSUME TypeOK, [Next]_vars, ~Carve
    PROVE  CarverKept /\ RootKept
<1>h. history \in History /\ root \in Root
  BY DEF TypeOK
<1> USE DEF CarverKept, RootKept
<1>1. CASE Entry
  BY <1>1 DEF Entry, Start, Reinstall, Resume
<1>2. CASE Record
  BY <1>2 DEF Record, Await, AlreadyComplete, Check, Push, SaveInstalled, SaveComplete
<1>3. CASE Command
  <2>1. CASE Arm
    BY <2>1, <1>h DEF Arm, History
  <2>2. CASE ~Arm
    BY <1>3, <2>2 DEF Command, SkipDone, Begin, Finish, Reboot, WaitAndroid, SyncChain, FlashBegins, FlashEnds
  <2>3. QED
    BY <2>1, <2>2
<1>4. CASE Stop
  BY <1>4 DEF Stop
<1>5. CASE Script
  BY <1>5 DEF Script, WriterStarts, WriterWrites, WriterEnds, WriterFails
<1>6. CASE Firmware
  BY <1>6 DEF Firmware, PowerLoss, BootRecovery, BootB, BootA, RecoveryWipes, RecoveryEnds
<1>7. CASE Initramfs
  <2>1. CASE Mark \/ SelectRoot \/ BootOk
    BY <2>1, <1>h DEF Mark, SelectRoot, BootOk, Root
  <2>2. CASE GiveBack
    BY <2>2, <1>h DEF GiveBack, History
  <2>3. CASE PrepareRejects \/ RequestReset \/ PrepareFails \/ Fallback \/ LeaveLinux
    BY <2>3 DEF PrepareRejects, RequestReset, PrepareFails, Fallback, LeaveLinux
  <2>4. QED
    BY <1>7, <2>1, <2>2, <2>3 DEF Initramfs
<1>8. CASE UNCHANGED vars
  BY <1>8 DEF vars
<1>9. QED
  BY <1>1, <1>2, <1>3, <1>4, <1>5, <1>6, <1>7, <1>8 DEF Next

\* The partition is carved once.
LEMMA CarvedStep == TypeOK /\ CarvedRoot /\ [Next]_vars => CarvedRoot'
<1> SUFFICES ASSUME TypeOK, CarvedRoot, [Next]_vars PROVE CarvedRoot'
  OBVIOUS
<1>1. CASE Carve
  <2>1. history.carves = 0 /\ history \in History
    BY <1>1 DEF Carve, RequestMatches, CarvedRoot, TypeOK
  <2>2. history'.carves = 1 /\ root'.state = "blank"
    BY <1>1, <2>1 DEF Carve, History, NoRoot
  <2>3. QED
    BY <2>2 DEF CarvedRoot
<1>2. CASE ~Carve
  BY <1>2, CarverStays DEF CarvedRoot, CarverKept, RootKept
<1>3. QED
  BY <1>1, <1>2

\* The marker keeps the name it was given: slot B changes only while Android runs.
LEMMA MarkedStep ==
    ASSUME TypeOK, AndroidWorks, CarvedRoot, MarkedForCarver, [Next]_vars
    PROVE  MarkedForCarver'
<1>h. history \in History /\ root \in Root
  BY DEF TypeOK
<1> USE DEF MarkedForCarver
<1>1. CASE Carve
  BY <1>1, <1>h DEF Carve, History, NoRoot
<1>2. CASE Mark
  BY <1>2, <1>h DEF Mark, Root
<1>3. CASE ~Carve /\ ~Mark
  <2>c. history'.carver = history.carver
    BY <1>3, CarverStays DEF CarverKept
  <2>1. root'.state = "marked" => root.state = "marked" /\ root'.by = root.by
    <3>1. CASE Entry \/ Record
      BY <3>1 DEF Entry, Start, Reinstall, Resume, Record, Await, AlreadyComplete, Check, Push, SaveInstalled,
                  SaveComplete
    <3>2. CASE Command
      BY <3>2 DEF Command, SkipDone, Begin, Finish, Reboot, WaitAndroid, SyncChain, FlashBegins, FlashEnds, Arm
    <3>3. CASE Stop \/ Firmware \/ UNCHANGED vars
      BY <3>3 DEF Stop, Firmware, PowerLoss, BootRecovery, BootB, BootA, RecoveryWipes, RecoveryEnds, vars
    <3>4. CASE Script
      BY <3>4 DEF Script, WriterStarts, WriterWrites, WriterEnds, WriterFails
    <3>5. CASE Initramfs
      BY <3>5, <1>3, <1>h DEF Initramfs, PrepareRejects, RequestReset, GiveBack, PrepareFails, SelectRoot, Fallback,
                  BootOk, LeaveLinux, Root
    <3>6. QED
      BY <3>1, <3>2, <3>3, <3>4, <3>5 DEF Next
  <2>2. mode' = "marking" => mode = "marking" /\ boot' = boot
    <3>1. CASE Entry \/ Record
      BY <3>1 DEF Entry, Start, Reinstall, Resume, Record, Await, AlreadyComplete, Check, Push, SaveInstalled,
                  SaveComplete
    <3>2. CASE Command
      BY <3>2 DEF Command, SkipDone, Begin, Finish, Reboot, WaitAndroid, SyncChain, FlashBegins, FlashEnds, Arm
    <3>3. CASE Stop
      BY <3>3 DEF Stop, AndroidWorks
    <3>4. CASE Firmware \/ UNCHANGED vars
      BY <3>4 DEF Firmware, PowerLoss, BootRecovery, BootB, BootA, RecoveryWipes, RecoveryEnds, vars
    <3>5. CASE Script
      BY <3>5 DEF Script, WriterStarts, WriterWrites, WriterEnds, WriterFails
    <3>6. CASE Initramfs
      BY <3>6, <1>3 DEF Initramfs, PrepareRejects, RequestReset, GiveBack, PrepareFails, SelectRoot, Fallback,
                  BootOk, LeaveLinux
    <3>7. QED
      BY <3>1, <3>2, <3>3, <3>4, <3>5, <3>6 DEF Next
  <2>3. QED
    BY <2>c, <2>1, <2>2
<1>4. QED
  BY <1>1, <1>2, <1>3

\* The computer goes on with the transaction it was at, and is decided if it was.
LEMMA Onward ==
    ASSUME TypeOK, host.pc \in Calls
    PROVE  Following[host.pc] # "off" /\ (Following[host.pc] \in Decided => host.pc \in Decided)
BY DEF Calls, Following, Decided

\* Before the decision stands the marker; after it, file and computer say so.
LEMMA DecidedStep ==
    ASSUME TypeOK, CarvedRoot, MarkedForCarver, DecidedForCarver, [Next]_vars
    PROVE  DecidedForCarver'
<1>h. host \in Host /\ file \in [Txns -> Phases] /\ writers \in [Owners -> Writer]
  BY DEF TypeOK
<1>o. Off.pc = "off" /\ Off.txn = NoTxn /\ NoTxn \notin Txns
  BY TxnsAssumption DEF Off
<1> USE DEF DecidedForCarver, PreparedBeforeWritten
<1>1. CASE Carve
  <2>1. history.carver \notin Txns
    BY <1>1, TxnsAssumption DEF Carve, RequestMatches, CarvedRoot
  <2>2. UNCHANGED <<file, host, writers>>
    BY <1>1 DEF Carve
  <2>3. QED
    BY <2>1, <2>2
<1>2. CASE ~Carve
  <2>c. history'.carver = history.carver
    BY <1>2, CarverStays DEF CarverKept
  <2>1. CASE Entry
    <3>1. PICK t \in Txns : Start(t) \/ Reinstall(t) \/ Resume(t)
      BY <2>1 DEF Entry
    <3>2. CASE Start(t)
      BY <3>2, <1>h, <2>c DEF Start, Save, SecondStage, Decided
    <3>3. CASE Reinstall(t)
      BY <3>3, <1>h, <2>c DEF Reinstall, Save, SecondStage, Decided
    <3>4. CASE Resume(t)
      BY <3>4, <1>h, <2>c DEF Resume, SecondStage, Decided
    <3>5. QED
      BY <3>1, <3>2, <3>3, <3>4
  <2>2. CASE Await
    BY <2>2, <1>h, <2>c DEF Await, Save, GotoIn, Host, SecondStage, Decided
  <2>3. CASE AlreadyComplete \/ SaveComplete
    <3>1. host' = Off /\ UNCHANGED writers
      BY <2>3 DEF AlreadyComplete, SaveComplete
    <3>2. \A t \in Txns \ Reinstalls : file'[t] \in SecondStage => history'.carver = t
      BY <2>3, <1>h, <2>c DEF AlreadyComplete, SaveComplete, Save, Decided
    <3>3. QED
      BY <3>1, <3>2, <1>o, <2>c
  <2>4. CASE Check
    <3>1. PICK pc \in {"chain2", "push"} : Goto(pc)
      BY <2>4 DEF Check
    <3>2. host'.txn = host.txn /\ host'.phase = host.phase /\ host'.pc = pc
      BY <3>1, <1>h DEF Goto, Host
    <3>3. host.phase \in SecondStage \/ Prepared(host.txn)
      BY <2>4 DEF Check, SecondStage
    <3>4. Prepared(host.txn) => history.carver = host.txn
      BY DEF MarkedForCarver, Prepared
    <3>5. QED
      BY <2>4, <3>2, <3>3, <3>4, <2>c DEF Check
  <2>5. CASE Push \/ SaveInstalled
    <3>1. host.pc \in Decided /\ host.pc # "off" /\ host'.pc # "off" /\ host'.txn = host.txn
      BY <2>5, <1>h DEF Push, SaveInstalled, GotoIn, Host, Decided
    <3>2. UNCHANGED writers /\ \E phase \in Phases : Save(host.txn, phase)
      BY <2>5 DEF Push, SaveInstalled, Phases
    <3>3. QED
      BY <3>1, <3>2, <1>h, <2>c DEF Save
  <2>6. CASE SkipDone \/ Finish
    <3>1. host.pc \in Calls /\ Goto(Following[host.pc]) /\ UNCHANGED <<file, writers>>
      BY <2>6 DEF SkipDone, Finish
    <3>2. host'.txn = host.txn /\ host'.phase = host.phase /\ host'.pc = Following[host.pc]
      BY <3>1, <1>h DEF Goto, Host
    <3>3. host.pc # "off"
      BY <3>1 DEF Calls
    <3>4. QED
      BY <3>1, <3>2, <3>3, Onward, <2>c
  <2>7. CASE Reboot \/ WaitAndroid
    <3>1. host'.txn = host.txn /\ host'.phase = host.phase /\ host'.pc \notin Decided \cup {"off"} /\ host.pc # "off"
      BY <2>7, <1>h DEF Reboot, WaitAndroid, Goto, Host, Decided
    <3>2. UNCHANGED file /\ (writers' = writers \/ writers' = [w \in Owners |-> NoWriter])
      BY <2>7 DEF Reboot, WaitAndroid
    <3>3. NoWriter.txn \notin Txns
      BY TxnsAssumption DEF NoWriter
    <3>4. QED
      BY <3>1, <3>2, <3>3, <2>c
  <2>8. CASE Begin \/ SyncChain \/ FlashBegins \/ FlashEnds \/ Arm
    <3>1. UNCHANGED <<file, writers>>
      BY <2>8 DEF Begin, SyncChain, FlashBegins, FlashEnds, Arm
    <3>2. host' = Off \/ (host'.txn = host.txn /\ host'.phase = host.phase /\ host'.pc = host.pc /\ host.pc # "off")
      BY <2>8, <1>h DEF Begin, SyncChain, FlashBegins, FlashEnds, Arm, Host, Calls
    <3>3. QED
      BY <3>1, <3>2, <1>o, <2>c
  <2>9. CASE Stop
    <3>1. host' = Off /\ UNCHANGED file
      BY <2>9 DEF Stop
    <3>2. \A w \in Owners : writers'[w] \in {NoWriter} \cup {writers[v] : v \in Owners}
      BY <2>9, <1>h DEF Stop, Owners
    <3>3. NoWriter.txn \notin Txns
      BY TxnsAssumption DEF NoWriter
    <3>4. QED
      BY <3>1, <3>2, <3>3, <1>o, <2>c
  <2>10. CASE WriterStarts
    <3>1. host'.txn = host.txn /\ host'.phase = host.phase /\ host'.pc = host.pc /\ host.pc \in Decided /\ host.pc # "off"
      BY <2>10, <1>h DEF WriterStarts, Host, Decided
    <3>2. \A w \in Owners : writers'[w].txn \in {host.txn, writers[w].txn}
      BY <2>10, <1>h DEF WriterStarts
    <3>3. UNCHANGED file
      BY <2>10 DEF WriterStarts
    <3>4. QED
      BY <3>1, <3>2, <3>3, <2>c
  <2>11. CASE \E w \in Owners : WriterWrites(w) \/ WriterEnds(w) \/ WriterFails(w)
    <3>1. PICK w \in Owners : WriterWrites(w) \/ WriterEnds(w) \/ WriterFails(w)
      BY <2>11
    <3>2. \A v \in Owners : writers'[v].txn \in {NoTxn, writers[v].txn}
      BY <3>1, <1>h DEF WriterWrites, WriterEnds, WriterFails, NoWriter, Writer
    <3>3. UNCHANGED file /\ (host' \in {Off, host} \/ host' = [host EXCEPT !.call = "ended"])
      BY <3>1 DEF WriterWrites, WriterEnds, WriterFails
    <3>4. host' = Off \/ (host'.txn = host.txn /\ host'.phase = host.phase /\ host'.pc = host.pc)
      BY <3>3, <1>h DEF Host
    <3>5. QED
      BY <3>2, <3>3, <3>4, <1>o, <2>c, TxnsAssumption
  <2>12. CASE Firmware \/ Initramfs \/ UNCHANGED vars
    <3>1. UNCHANGED file
      BY <2>12 DEF Firmware, PowerLoss, BootRecovery, BootB, BootA, RecoveryWipes, RecoveryEnds, Initramfs,
                   PrepareRejects, Carve, Mark, RequestReset, GiveBack, PrepareFails, SelectRoot, Fallback,
                   BootOk, LeaveLinux, vars
    <3>2. host' \in {Off, host} /\ writers' \in {writers, [w \in Owners |-> NoWriter]}
      BY <2>12 DEF Firmware, PowerLoss, BootRecovery, BootB, BootA, RecoveryWipes, RecoveryEnds, Initramfs,
                   PrepareRejects, Carve, Mark, RequestReset, GiveBack, PrepareFails, SelectRoot, Fallback,
                   BootOk, LeaveLinux, vars
    <3>3. NoWriter.txn \notin Txns
      BY TxnsAssumption DEF NoWriter
    <3>4. QED
      BY <3>1, <3>2, <3>3, <1>o, <2>c
  <2>13. QED
    BY <2>1, <2>2, <2>3, <2>4, <2>5, <2>6, <2>7, <2>8, <2>9, <2>10, <2>11, <2>12
    DEF Next, Record, Command, Script
<1>3. QED
  BY <1>1, <1>2

\* The request is made before the slots are given back, and withdrawn after the reset.
LEMMA ResetStep ==
    ASSUME TypeOK, CarvedRoot, ResetInTurn, [Next]_vars
    PROVE  ResetInTurn'
<1>h. history \in History /\ misc \in Misc
  BY DEF TypeOK
<1> USE DEF ResetInTurn, ResetHandedOver
<1>1. CASE Carve
  <2>1. history.carves = 0
    BY <1>1 DEF Carve, RequestMatches, CarvedRoot
  <2>2. history'.carves = 1 /\ history'.handed = history.handed
    BY <1>1, <1>h, <2>1 DEF Carve, History
  <2>3. QED
    BY <1>1, <2>1, <2>2 DEF Carve
<1>2. CASE ~Carve
  <2>c. history'.carves = history.carves
    BY <1>2, CarverStays DEF CarverKept
  <2>1. CASE Entry \/ Record
    BY <2>1 DEF Entry, Start, Reinstall, Resume, Record, Await, AlreadyComplete, Check, Push, SaveInstalled,
                SaveComplete
  <2>2. CASE Command
    <3>1. CASE Arm
      BY <3>1, <1>h DEF Arm, History, Misc
    <3>2. CASE ~Arm
      BY <2>2, <3>2 DEF Command, SkipDone, Begin, Finish, Reboot, WaitAndroid, SyncChain, FlashBegins, FlashEnds
    <3>3. QED
      BY <3>1, <3>2
  <2>3. CASE Stop
    BY <2>3 DEF Stop
  <2>4. CASE Script
    BY <2>4 DEF Script, WriterStarts, WriterWrites, WriterEnds, WriterFails
  <2>5. CASE Firmware
    BY <2>5, <1>h DEF Firmware, PowerLoss, BootRecovery, BootB, BootA, RecoveryWipes, RecoveryEnds, Misc
  <2>6. CASE GiveBack
    BY <2>6, <2>c, <1>h DEF GiveBack, History, Misc
  <2>7. CASE RequestReset \/ Mark
    BY <2>7, <1>h DEF RequestReset, Mark, Misc
  <2>8. CASE PrepareRejects \/ PrepareFails \/ SelectRoot \/ Fallback \/ BootOk \/ LeaveLinux
    BY <2>8, <1>h DEF PrepareRejects, PrepareFails, SelectRoot, Fallback, BootOk, LeaveLinux, Misc
  <2>9. CASE UNCHANGED vars
    BY <2>9 DEF vars
  <2>10. QED
    BY <1>2, <2>1, <2>2, <2>3, <2>4, <2>5, <2>6, <2>7, <2>8, <2>9 DEF Next, Initramfs
<1>3. QED
  BY <1>1, <1>2

\* Every step keeps the invariant.
LEMMA InvStep == IInv /\ [Next]_vars => IInv'
BY TypeStep, AndroidStep, CarvedStep, MarkedStep, DecidedStep, ResetStep DEF IInv

-----------------------------------------------------------------------------
(* Theorems *)

\* Every behaviour satisfies the invariant.
THEOREM Invariance == Spec => []IInv
<1>1. Init => IInv
  BY InvInit
<1>2. IInv /\ [Next]_vars => IInv'
  BY InvStep
<1>3. QED
  BY <1>1, <1>2, PTL DEF Spec

\* Every variable of the two-stage installation keeps its type.
THEOREM Typed == Spec => []TypeOK
<1>1. IInv => TypeOK
  BY DEF IInv
<1>2. QED
  BY <1>1, Invariance, PTL

\* Userdata is divided once, however many transactions stage a preparation and
\* whenever the power fails (part-prepare.sh compares the request with the table).
THEOREM CarvedOnceHolds == Spec => []CarvedOnce
<1>1. IInv => CarvedOnce
  BY DEF IInv, CarvedRoot, CarvedOnce
<1>2. QED
  BY <1>1, Invariance, PTL

\* A transaction that prepares its partition writes only the root that was carved
\* for it, whichever transactions are resumed in between (finish, part-write.sh).
THEOREM PreparedBeforeWrittenHolds == Spec => []PreparedBeforeWritten
<1>1. IInv => PreparedBeforeWritten
  BY DEF IInv, DecidedForCarver
<1>2. QED
  BY <1>1, Invariance, PTL

\* When the preparation has given the slots back, the reset is requested and stays
\* so until recovery has carried it out, whenever the power fails.
THEOREM ResetHandedOverHolds == Spec => []ResetHandedOver
<1>1. IInv => ResetHandedOver
  BY DEF IInv, ResetInTurn
<1>2. QED
  BY <1>1, Invariance, PTL

-----------------------------------------------------------------------------
(* One record: what the computer believes written, flashed and armed is *)

\* The operations that follow the decision that the root is written.
After == {"wrote", "chain2", "boot2", "arm2", "closing"}

Entered(t, op, phase) == effects[t][<<op, phase>>]

\* The place of the computer fits the phase it read or saved, and the journal the
\* operation it is at; the preparation's operations come before all others.
Orderly ==
    /\ host.pc # "off" => host.txn \in Txns /\ host.phase # "none" /\ file[host.txn] = host.phase
    /\ host.pc \in {"chain1", "boot1", "arm1", "await"} => host.phase = "prepared"
    /\ host.pc = "push" => host.phase \in {"prepared", "awaiting-android", "writing"}
    /\ host.pc \in {"write", "wrote"} => host.phase = "writing"
    /\ host.pc \in After \ {"wrote"} => host.phase = "installed"
    /\ host.call # "no" =>
          host.pc \in Calls /\ (Gui => effects[host.txn][Name] = "started")
    /\ ~Gui => \A t \in Txns : \A n \in EffectNames : effects[t][n] = "none"
    /\ \A t \in Txns : file[t] = "none" => \A n \in EffectNames : effects[t][n] = "none"
    /\ host.pc \in {"chain1", "boot1", "arm1"} =>
          /\ Entered(host.txn, "root-part-write", "any") = "none"
          /\ Entered(host.txn, "boot-part.img", "any") = "none"
          /\ Entered(host.txn, "misc-trial", "installed") = "none"
    /\ host.pc = "chain1" \/ (host.pc = "boot1" /\ host.call = "no") =>
          Entered(host.txn, "boot-prepare.img", "any") = "none"

\* The lock keeps out a second script, and the one the computer waits for is its own.
OneWriter ==
    /\ Writing => lock
    /\ writers["attached"] = NoWriter \/ writers["orphan"] = NoWriter
    /\ writers["attached"] # NoWriter =>
          host.pc = "write" /\ host.call = "half" /\ writers["attached"].txn = host.txn
    /\ mode = "marking" => root.state = "blank"

HasWritten(t) ==
    \/ file[t] \in {"installed", "complete"} \/ Entered(t, "root-part-write", "any") = "done"
    \/ host.pc \in After \/ (host.pc = "write" /\ host.call = "ended")
HasFlashed(t) ==
    \/ Entered(t, "boot-part.img", "any") = "done"
    \/ host.pc \in {"arm2", "closing"} \/ (host.pc = "boot2" /\ host.call = "ended")
HasArmed(t) ==
    \/ Entered(t, "misc-trial", "installed") = "done"
    \/ host.pc = "closing" \/ (host.pc = "arm2" /\ host.call = "ended")
HasRequest == host.pc = "arm1" \/ (host.pc = "boot1" /\ host.call = "ended")

\* With one record nothing undoes what was done for it.
LastingFor(t) ==
    /\ HasWritten(t) => root.state = "whole" /\ root.by = t /\ ~Writing
    /\ HasFlashed(t) => boot = [kind |-> "part", txn |-> t]
    /\ HasRequest => boot = [kind |-> "prepare", txn |-> t]
    /\ HasArmed(t) => history.armed = t

Lasting == \A t \in Txns : file[t] # "none" => LastingFor(t)

OneInv == IInv /\ Orderly /\ OneWriter /\ (OneRecord => Lasting)

\* The journal's entry for each operation.
LEMMA Names ==
    ASSUME Orderly
    PROVE  /\ host.pc = "boot1" => Name = <<"boot-prepare.img", "any">>
           /\ host.pc = "boot2" => Name = <<"boot-part.img", "any">>
           /\ host.pc = "write" => Name = <<"root-part-write", "any">>
           /\ host.pc = "arm1" => Name = <<"misc-trial", "prepared">>
           /\ host.pc = "arm2" => Name = <<"misc-trial", "installed">>
           /\ host.pc \in {"chain1", "chain2"} => Name = <<"bootchain-sync", host.phase>>
  BY DEF Orderly, After, Name, EffectName, Operation

LEMMA Entries ==
    /\ <<"root-part-write", "any">> \in EffectNames /\ <<"boot-part.img", "any">> \in EffectNames
    /\ <<"boot-prepare.img", "any">> \in EffectNames
    /\ <<"misc-trial", "installed">> \in EffectNames
  BY DEF EffectNames, Operations, Phases

\* An operation's state is entered under its name only.
LEMMA EntryMade ==
    ASSUME TypeOK, Orderly, host.pc \in Calls, NEW v,
           effects' = [effects EXCEPT ![host.txn][Name] = v]
    PROVE  \A t \in Txns, n \in EffectNames :
               effects'[t][n] = IF t = host.txn /\ n = Name THEN v ELSE effects[t][n]
  BY DEF TypeOK

LEMMA NameTyped == ASSUME TypeOK, Orderly, host.pc \in Calls PROVE Name \in EffectNames /\ host.txn \in Txns
<1>1. host.phase \in Phases
  BY DEF TypeOK, Host
<1>2. QED
  BY <1>1, Names DEF Orderly, Calls, EffectNames, Operations, Phases

\* A step that only sends the computer away, or leaves it, keeps it in order.
LEMMA OrderlyOff ==
    ASSUME Orderly, UNCHANGED records, host' \in {host, Off}
    PROVE  Orderly'
<1>1. CASE host' = host
  BY <1>1 DEF Orderly, Entered, Name
<1>2. CASE host' = Off
  BY <1>2 DEF Orderly, Off, After, Calls, Entered
<1>3. QED
  BY <1>1, <1>2

\* So does one that answers the operation it is at.
LEMMA OrderlyCall ==
    ASSUME TypeOK, Orderly, UNCHANGED records, host.call # "no",
           NEW call \in {"begun", "half", "ended"}, host' = [host EXCEPT !.call = call]
    PROVE  Orderly'
<1>1. /\ host'.pc = host.pc /\ host'.txn = host.txn /\ host'.phase = host.phase /\ host'.call = call
  BY DEF TypeOK, Host
<1>2. Name' = Name
  BY <1>1 DEF Name
<1>3. QED
  BY <1>1, <1>2 DEF Orderly, Entered, Name

\* And one that only takes the computer on.
LEMMA OrderlyGoes ==
    ASSUME TypeOK, Orderly, UNCHANGED records, NEW pc \in HostStates, Goto(pc), host.pc # "off",
           pc \notin {"chain1", "await"},
           pc = "push" => host.phase \in {"prepared", "awaiting-android", "writing"},
           pc \in {"write", "wrote"} => host.phase = "writing",
           pc \in After \ {"wrote"} => host.phase = "installed",
           pc \in {"boot1", "arm1"} => host.pc \in {"chain1", "boot1"},
           pc = "boot1" => Entered(host.txn, "boot-prepare.img", "any") = "none"
    PROVE  Orderly'
<1>1. /\ host'.pc = pc /\ host'.txn = host.txn /\ host'.phase = host.phase /\ host'.call = "no"
  BY DEF TypeOK, Host, Goto
<1>2. QED
  BY <1>1 DEF Orderly, Entered

LEMMA OrderlyEntry == ASSUME TypeOK, Orderly, Entry PROVE Orderly'
<1>1. PICK t \in Txns : Start(t) \/ Reinstall(t) \/ Resume(t)
  BY DEF Entry
<1>t. file \in [Txns -> Phases]
  BY DEF TypeOK
<1> USE DEF Orderly, Entered, After
<1>2. CASE Start(t)
  <2>1. /\ host' = [pc |-> "chain1", txn |-> t, phase |-> "prepared", call |-> "no"]
        /\ file' = [file EXCEPT ![t] = "prepared"] /\ effects' = effects /\ file[t] = "none"
    BY <1>2 DEF Start, Save
  <2>2. \A n \in EffectNames : effects[t][n] = "none"
    BY <2>1
  <2>3. QED
    BY <1>t, <2>1, <2>2, Entries
<1>3. CASE Reinstall(t)
  <2>1. /\ host' = [pc |-> "check", txn |-> t, phase |-> "writing", call |-> "no"]
        /\ file' = [file EXCEPT ![t] = "writing"] /\ effects' = effects
    BY <1>3 DEF Reinstall, Save
  <2>2. QED
    BY <1>t, <2>1
<1>4. CASE Resume(t)
  <2>1. /\ host'.pc \in {"waiting", "check"} /\ host'.txn = t /\ host'.phase = file[t] /\ host'.call = "no"
        /\ file[t] # "none" /\ UNCHANGED records
    BY <1>4 DEF Resume
  <2>2. QED
    BY <2>1
<1>5. QED
  BY <1>1, <1>2, <1>3, <1>4

LEMMA OrderlyRecord == ASSUME TypeOK, DecidedForCarver, Orderly, Record PROVE Orderly'
<1>t. file \in [Txns -> Phases] /\ host \in Host
  BY DEF TypeOK
<1>1. ASSUME NEW pc, NEW phase \in Phases \ {"none"}, Save(host.txn, phase), GotoIn(pc, phase),
             host.pc # "off", effects' = effects,
             pc \notin {"chain1", "boot1", "arm1", "await", "push"},
             pc \in {"write", "wrote"} => phase = "writing", pc \in After \ {"wrote"} => phase = "installed"
      PROVE  Orderly'
  <2>1. /\ host'.pc = pc /\ host'.txn = host.txn /\ host'.phase = phase /\ host'.call = "no"
        /\ host.txn \in Txns
    BY <1>t, <1>1 DEF GotoIn, Host, Orderly
  <2>2. file' = [file EXCEPT ![host.txn] = phase]
    BY <1>1 DEF Save
  <2>3. QED
    BY <1>t, <1>1, <2>1, <2>2 DEF Orderly, Entered
<1>2. CASE Await
  BY <1>1, <1>2 DEF Await, Phases, After
<1>3. CASE AlreadyComplete
  BY <1>3, OrderlyOff DEF AlreadyComplete
<1>4. CASE Check
  <2>1. CASE Goto("chain2") /\ host.phase = "installed"
    BY <1>4, <2>1, OrderlyGoes DEF Check, HostStates, Calls
  <2>2. CASE Goto("push") /\ host.phase \in {"prepared", "awaiting-android", "writing"}
    BY <1>4, <2>2, OrderlyGoes DEF Check, HostStates, Calls, After
  <2>3. QED
    BY <1>4, <2>1, <2>2 DEF Check
<1>5. CASE Push
  BY <1>1, <1>5 DEF Push, Phases, After
<1>6. CASE SaveInstalled
  BY <1>1, <1>6 DEF SaveInstalled, Phases, After
<1>7. CASE SaveComplete
  BY <1>t, <1>7 DEF SaveComplete, Save, Off, Orderly, Entered, After, Calls
<1>8. QED
  BY <1>2, <1>3, <1>4, <1>5, <1>6, <1>7 DEF Record

LEMMA OrderlyCommand == ASSUME TypeOK, DecidedForCarver, Orderly, Command PROVE Orderly'
<1>t. host \in Host
  BY DEF TypeOK
<1>1. CASE SkipDone
  <2>1. host.pc \in Calls /\ Goto(Following[host.pc]) /\ UNCHANGED records
        /\ effects[host.txn][Name] = "done"
    BY <1>1 DEF SkipDone
  <2>2. host.pc # "boot1"
    BY <1>1, <2>1, Names DEF Orderly, Entered, SkipDone
  <2>3. Following[host.pc] # "await" \/ host.pc = "arm1"
    BY <2>1 DEF Calls, Following
  <2>4. CASE host.pc = "arm1"
    BY <2>1, <2>4, <1>t DEF Following, Goto, Orderly, After, Host
  <2>5. CASE host.pc # "arm1"
    <3>1. /\ Following[host.pc] \in HostStates /\ Following[host.pc] \notin {"chain1", "await", "push", "write", "arm1"}
          /\ Following[host.pc] = "boot1" => host.pc = "chain1"
          /\ Following[host.pc] = "wrote" => host.pc = "write"
          /\ Following[host.pc] \in After \ {"wrote"} => host.pc \in {"chain2", "boot2", "arm2"}
      BY <2>1, <2>2, <2>5 DEF Calls, Following, HostStates, After
    <3>2. /\ Following[host.pc] = "wrote" => host.phase = "writing"
          /\ Following[host.pc] \in After \ {"wrote"} => host.phase = "installed"
          /\ host.pc # "off"
          /\ Following[host.pc] = "boot1" => Entered(host.txn, "boot-prepare.img", "any") = "none"
      BY <2>1, <3>1 DEF Orderly, After, Calls
    <3>3. QED
      BY <2>1, <3>1, <3>2, OrderlyGoes
  <2>6. QED
    BY <2>4, <2>5
<1>2. CASE Begin
  <2>1. /\ host.pc \in Calls /\ host.call = "no" /\ file' = file
        /\ host' = IF mode = "android" THEN [host EXCEPT !.call = "begun"] ELSE Off
    BY <1>2 DEF Begin
  <2>2. Name \in EffectNames /\ host.txn \in Txns
    BY <2>1, NameTyped
  <2>3. CASE ~Gui
    <3>1. effects' = effects
      BY <1>2, <2>3 DEF Begin
    <3>2. CASE mode = "android"
      <4>1. /\ host'.pc = host.pc /\ host'.txn = host.txn /\ host'.phase = host.phase /\ host'.call = "begun"
        BY <1>t, <2>1, <3>2 DEF Host
      <4>2. QED
        BY <2>1, <2>3, <3>1, <4>1 DEF Orderly, Entered
    <3>3. CASE mode # "android"
      BY <2>1, <3>1, <3>3, OrderlyOff
    <3>4. QED
      BY <3>2, <3>3
  <2>4. CASE Gui
    <3>1. \A t \in Txns, n \in EffectNames :
              effects'[t][n] = IF t = host.txn /\ n = Name THEN "started" ELSE effects[t][n]
      BY <1>2, <2>1, <2>4, EntryMade DEF Begin
    <3>2. \A t \in Txns : file'[t] = "none" => \A n \in EffectNames : effects'[t][n] = "none"
      BY <2>1, <2>2, <3>1 DEF Orderly, Calls
    <3>3. CASE mode = "android"
      <4>1. /\ host'.pc = host.pc /\ host'.txn = host.txn /\ host'.phase = host.phase /\ host'.call = "begun"
        BY <1>t, <2>1, <3>3 DEF Host
      <4>2. Name' = Name
        BY <2>1, <4>1 DEF Name
      <4>3. host.pc \in {"chain1", "boot1", "arm1"} =>
                /\ Entered(host.txn, "root-part-write", "any")' = "none"
                /\ Entered(host.txn, "boot-part.img", "any")' = "none"
                /\ Entered(host.txn, "misc-trial", "installed")' = "none"
        BY <2>2, <3>1, <4>1, Entries, Names DEF Orderly, Entered
      <4>4. host.pc = "chain1" => Entered(host.txn, "boot-prepare.img", "any")' = "none"
        BY <2>2, <3>1, <4>1, Entries, Names DEF Orderly, Entered
      <4>5. QED
        BY <2>1, <2>2, <2>4, <3>1, <3>2, <4>1, <4>2, <4>3, <4>4 DEF Orderly, Entered
    <3>4. CASE mode # "android"
      BY <2>1, <2>4, <3>2, <3>4 DEF Orderly, Off, After, Calls
    <3>5. QED
      BY <3>3, <3>4
  <2>5. QED
    BY <2>3, <2>4
<1>3. CASE Finish
  <2>1. /\ host.pc \in Calls /\ host.call = "ended" /\ file' = file /\ Goto(Following[host.pc])
    BY <1>3 DEF Finish
  <2>2. Name \in EffectNames /\ host.txn \in Txns
    BY <2>1, NameTyped
  <2>3. \A t \in Txns, n \in EffectNames :
            effects'[t][n] = IF Gui /\ t = host.txn /\ n = Name THEN "done" ELSE effects[t][n]
    <3>1. CASE Gui
      BY <1>3, <2>1, <3>1, EntryMade DEF Finish
    <3>2. CASE ~Gui
      BY <1>3, <3>2 DEF Finish
    <3>3. QED
      BY <3>1, <3>2
  <2>4. /\ host'.pc = Following[host.pc] /\ host'.txn = host.txn /\ host'.phase = host.phase /\ host'.call = "no"
    BY <1>t, <2>1 DEF Host, Goto
  <2>5. \A t \in Txns : file'[t] = "none" => \A n \in EffectNames : effects'[t][n] = "none"
    BY <2>1, <2>2, <2>3 DEF Orderly, Calls
  <2>6. host.pc \in {"chain1", "boot1"} =>
            /\ Entered(host.txn, "root-part-write", "any")' = "none"
            /\ Entered(host.txn, "boot-part.img", "any")' = "none"
            /\ Entered(host.txn, "misc-trial", "installed")' = "none"
    BY <2>2, <2>3, <2>4, Entries, Names DEF Orderly, Entered
  <2>7. host.pc = "chain1" => Entered(host.txn, "boot-prepare.img", "any")' = "none"
    BY <2>2, <2>3, <2>4, Entries, Names DEF Orderly, Entered
  <2>8. /\ Following[host.pc] \in {"boot1", "arm1", "await", "wrote", "boot2", "arm2", "closing"}
        /\ Following[host.pc] = "boot1" => host.pc = "chain1"
        /\ Following[host.pc] = "arm1" => host.pc = "boot1"
        /\ Following[host.pc] = "await" => host.pc = "arm1"
        /\ Following[host.pc] = "wrote" => host.pc = "write"
        /\ Following[host.pc] \in After \ {"wrote"} => host.pc \in {"chain2", "boot2", "arm2"}
    BY <2>1 DEF Calls, Following, After
  <2>9. /\ host'.pc \in {"boot1", "arm1", "await"} => host.phase = "prepared"
        /\ host'.pc = "wrote" => host.phase = "writing"
        /\ host'.pc \in After \ {"wrote"} => host.phase = "installed"
        /\ host.pc # "off"
    BY <2>1, <2>4, <2>8 DEF Orderly, After, Calls
  <2>10. QED
    BY <2>1, <2>2, <2>3, <2>4, <2>5, <2>6, <2>7, <2>8, <2>9 DEF Orderly, Entered
<1>4. CASE Reboot \/ WaitAndroid
  BY <1>4, OrderlyGoes DEF Reboot, WaitAndroid, HostStates, After
<1>5. CASE SyncChain \/ FlashBegins \/ FlashEnds \/ Arm
  BY <1>5, OrderlyCall DEF SyncChain, FlashBegins, FlashEnds, Arm
<1>6. QED
  BY <1>1, <1>2, <1>3, <1>4, <1>5 DEF Command

LEMMA OrderlyScript == ASSUME TypeOK, Orderly, OneWriter, Script PROVE Orderly'
<1>1. CASE WriterStarts
  BY <1>1, OrderlyCall DEF WriterStarts
<1>2. ASSUME NEW w \in Owners, WriterWrites(w) \/ WriterEnds(w) \/ WriterFails(w) PROVE Orderly'
  <2>1. UNCHANGED records /\ (host' \in {host, Off} \/ (w = "attached" /\ host' = [host EXCEPT !.call = "ended"]))
    BY <1>2 DEF WriterWrites, WriterEnds, WriterFails
  <2>2. w = "attached" => host.call # "no"
    BY <1>2 DEF OneWriter, WriterWrites, WriterEnds, WriterFails, NoWriter
  <2>3. QED
    BY <2>1, <2>2, OrderlyOff, OrderlyCall
<1>3. QED
  BY <1>1, <1>2 DEF Script

LEMMA OrderlyStep ==
    ASSUME TypeOK, DecidedForCarver, Orderly, OneWriter, [Next]_vars
    PROVE  Orderly'
<1>1. CASE Stop \/ Firmware \/ Initramfs \/ UNCHANGED vars
  BY <1>1, OrderlyOff
  DEF Stop, Firmware, PowerLoss, BootRecovery, BootB, BootA, RecoveryWipes, RecoveryEnds, Initramfs,
      PrepareRejects, Carve, Mark, RequestReset, GiveBack, PrepareFails, SelectRoot, Fallback,
      BootOk, LeaveLinux, vars
<1>2. QED
  BY <1>1, OrderlyEntry, OrderlyRecord, OrderlyCommand, OrderlyScript DEF Next

\* A script is let in only when there is none.
LEMMA OneWriterStep ==
    ASSUME TypeOK, AndroidWorks, Orderly, OneWriter, [Next]_vars
    PROVE  OneWriter'
<1>t. host \in Host /\ writers \in [Owners -> Writer] /\ Owners = {"attached", "orphan"} /\ root \in Root
      /\ Off.pc = "off"
  BY DEF TypeOK, Owners, Off
<1>q. ASSUME UNCHANGED script, writers["attached"] # NoWriter => host' = host,
             mode' = "marking" => root'.state = "blank"
      PROVE  OneWriter'
  BY <1>q DEF OneWriter, Writing
<1>n. ASSUME writers' = [w \in Owners |-> NoWriter], mode' = "off"
      PROVE  OneWriter'
  BY <1>n, <1>t DEF OneWriter, Writing
<1>m. writers["attached"] # NoWriter \/ writers["orphan"] # NoWriter => mode = "android"
  BY <1>t DEF AndroidWorks
<1>1. CASE Entry
  BY <1>1, <1>q DEF Entry, Start, Reinstall, Resume, Idle, OneWriter
<1>2. CASE Record
  BY <1>2, <1>q DEF Record, Await, AlreadyComplete, Check, Push, SaveInstalled, SaveComplete, OneWriter
<1>3. CASE Reboot
  BY <1>3, <1>n DEF Reboot
<1>4. CASE SkipDone \/ Begin \/ Finish \/ WaitAndroid \/ SyncChain \/ FlashBegins \/ FlashEnds \/ Arm
  BY <1>4, <1>q DEF SkipDone, Begin, Finish, WaitAndroid, SyncChain, FlashBegins, FlashEnds, Arm, OneWriter
<1>5. CASE Stop
  <2>1. UNCHANGED <<lock, mode, root>>
    BY <1>5 DEF Stop
  <2>2. CASE writers["attached"] = NoWriter
    BY <1>5, <1>q, <2>1, <2>2 DEF Stop, OneWriter
  <2>3. CASE writers["attached"] # NoWriter
    <3>1. writers' = [attached |-> NoWriter, orphan |-> writers["attached"]] /\ lock
      BY <1>5, <1>t, <2>3 DEF Stop, OneWriter, Writing
    <3>2. QED
      BY <2>1, <3>1 DEF OneWriter, Writing
  <2>4. QED
    BY <2>2, <2>3
<1>6. CASE WriterStarts
  <2>1. /\ writers = [w \in Owners |-> NoWriter]
        /\ host.pc = "write" /\ host.call = "begun" /\ lock' = TRUE /\ UNCHANGED <<mode, root>>
        /\ writers' = [writers EXCEPT !["attached"] = [pc |-> "image", txn |-> host.txn]]
        /\ host' = [host EXCEPT !.call = "half"]
    BY <1>6, <1>t DEF WriterStarts, LockFree, OneWriter, Writing
  <2>2. host'.pc = "write" /\ host'.call = "half" /\ host'.txn = host.txn
    BY <1>t, <2>1 DEF Host
  <2>3. writers'["orphan"] = NoWriter /\ writers'["attached"].txn = host.txn
    BY <1>t, <2>1
  <2>4. QED
    BY <2>1, <2>2, <2>3 DEF OneWriter
<1>7. ASSUME NEW w \in Owners, WriterWrites(w) PROVE OneWriter'
  <2>1. UNCHANGED <<host, lock, mode>> /\ writers[w] # NoWriter
        /\ writers' = [writers EXCEPT ![w].pc = "verify"]
    BY <1>7 DEF WriterWrites, NoWriter
  <2>2. mode # "marking"
    BY <2>1, <1>m, <1>t
  <2>3. \A v \in Owners : writers[v] = NoWriter => v # w /\ writers'[v] = NoWriter
    BY <1>t, <2>1
  <2>4. writers'["attached"] # NoWriter => writers["attached"] # NoWriter /\ writers'["attached"].txn = writers["attached"].txn
    BY <1>t, <2>1, <2>3 DEF Writer
  <2>5. lock
    BY <2>1 DEF OneWriter, Writing
  <2>6. QED
    BY <1>t, <2>1, <2>2, <2>3, <2>4, <2>5 DEF OneWriter
<1>8. ASSUME NEW w \in Owners, WriterEnds(w) \/ WriterFails(w) PROVE OneWriter'
  <2>1. /\ writers[w] # NoWriter /\ mode' = mode
        /\ writers' = [writers EXCEPT ![w] = NoWriter]
    BY <1>8 DEF WriterEnds, WriterFails, NoWriter
  <2>2. mode # "marking"
    BY <2>1, <1>m, <1>t
  <2>3. \A v \in Owners : writers'[v] = NoWriter
    BY <1>t, <2>1 DEF OneWriter
  <2>4. QED
    BY <1>t, <2>1, <2>2, <2>3 DEF OneWriter, Writing
<1>9. CASE PowerLoss
  BY <1>9, <1>n DEF PowerLoss
<1>10. CASE RecoveryWipes
  <2>1. writers["attached"] = NoWriter /\ writers["orphan"] = NoWriter /\ writers' = writers
        /\ mode' = "recovered"
    BY <1>10, <1>m DEF RecoveryWipes
  <2>2. QED
    BY <1>t, <2>1 DEF OneWriter, Writing
<1>11. CASE BootRecovery \/ BootB \/ BootA \/ RecoveryEnds \/ UNCHANGED vars
  BY <1>11, <1>q DEF BootRecovery, BootB, BootA, RecoveryEnds, vars, OneWriter
<1>12. CASE Initramfs
  <2>1. mode' = "marking" => root'.state = "blank"
    BY <1>12, <1>t DEF Initramfs, PrepareRejects, Carve, Mark, RequestReset, GiveBack, PrepareFails, SelectRoot,
                Fallback, BootOk, LeaveLinux, NoRoot, OneWriter
  <2>2. UNCHANGED <<writers, lock, host>>
    BY <1>12 DEF Initramfs, PrepareRejects, Carve, Mark, RequestReset, GiveBack, PrepareFails, SelectRoot,
                Fallback, BootOk, LeaveLinux
  <2>3. QED
    BY <1>q, <2>1, <2>2
<1>13. QED
  BY <1>1, <1>2, <1>3, <1>4, <1>5, <1>6, <1>7, <1>8, <1>9, <1>10, <1>11, <1>12
  DEF Next, Command, Script, Firmware

\* A record that was made stays, so one record was one before.
LEMMA RecordsStay ==
    ASSUME TypeOK, Orderly, [Next]_vars
    PROVE  /\ \A t \in Txns : file[t] # "none" => file'[t] # "none"
           /\ OneRecord' => OneRecord
<1>1. \A t \in Txns : file[t] # "none" => file'[t] # "none"
  <2>1. CASE file' = file
    BY <2>1
  <2>2. ASSUME NEW t, NEW phase \in Phases \ {"none"}, Save(t, phase) PROVE \A s \in Txns : file[s] # "none" => file'[s] # "none"
    BY <2>2 DEF Save, TypeOK
  <2>3. CASE Entry \/ Record
    BY <2>1, <2>2, <2>3 DEF Entry, Start, Reinstall, Resume, Record, Await, AlreadyComplete, Check, Push, SaveInstalled,
                SaveComplete, Phases
  <2>4. CASE Command \/ Stop \/ Script
    BY <2>1, <2>4 DEF Command, SkipDone, Begin, Finish, Reboot, WaitAndroid, SyncChain, FlashBegins, FlashEnds, Arm,
                Stop, Script, WriterStarts, WriterWrites, WriterEnds, WriterFails
  <2>5. CASE Firmware \/ Initramfs \/ UNCHANGED vars
    BY <2>1, <2>5
    DEF Firmware, PowerLoss, BootRecovery, BootB, BootA, RecoveryWipes, RecoveryEnds, Initramfs,
        PrepareRejects, Carve, Mark, RequestReset, GiveBack, PrepareFails, SelectRoot, Fallback,
        BootOk, LeaveLinux, vars
  <2>6. QED
    BY <2>3, <2>4, <2>5 DEF Next
<1>2. QED
  BY <1>1 DEF OneRecord

\* A step that only takes the computer where it was known to be.
LEMMA LastingMoves ==
    ASSUME NEW t, LastingFor(t), boot' = boot, root'.state = root.state, root'.by = root.by,
           history'.armed = history.armed, Writing' => Writing,
           HasWritten(t)' => HasWritten(t), HasFlashed(t)' => HasFlashed(t),
           HasArmed(t)' => HasArmed(t), HasRequest' => HasRequest
    PROVE  LastingFor(t)'
  BY DEF LastingFor

LEMMA LastingOff ==
    ASSUME NEW t, LastingFor(t), UNCHANGED <<file, effects, boot>>, root'.state = root.state, root'.by = root.by,
           history'.armed = history.armed, Writing' => Writing, host' \in {host, Off}
    PROVE  LastingFor(t)'
<1>1. HasWritten(t)' => HasWritten(t)
  BY DEF HasWritten, Entered, Off, After
<1>2. HasFlashed(t)' => HasFlashed(t)
  BY DEF HasFlashed, Entered, Off
<1>3. (HasArmed(t)' => HasArmed(t)) /\ (HasRequest' => HasRequest)
  BY DEF HasArmed, HasRequest, Entered, Off
<1>4. QED
  BY <1>1, <1>2, <1>3, LastingMoves

\* The computer is at the one record there is.
LEMMA AtTheOne ==
    ASSUME Orderly, OneRecord, host.pc # "off", NEW t \in Txns, file[t] # "none"
    PROVE  host.txn = t
  BY DEF Orderly, OneRecord

LEMMA LastingEntry ==
    ASSUME TypeOK, Orderly, OneRecord', Lasting, Entry, NEW t \in Txns, file'[t] # "none"
    PROVE  LastingFor(t)'
<1>1. PICK s \in Txns : Start(s) \/ Reinstall(s) \/ Resume(s)
  BY DEF Entry
<1>t. file \in [Txns -> Phases]
  BY DEF TypeOK
<1>2. CASE Start(s) \/ Reinstall(s)
  <2>1. /\ file[s] = "none" /\ file'[s] \in {"prepared", "writing"} /\ effects' = effects
        /\ host'.pc \in {"chain1", "check"}
    BY <1>t, <1>2 DEF Start, Reinstall, Save
  <2>2. s = t
    BY <2>1 DEF OneRecord
  <2>3. \A n \in EffectNames : effects'[t][n] = "none"
    BY <2>1, <2>2 DEF Orderly
  <2>4. ~HasWritten(t)' /\ ~HasFlashed(t)' /\ ~HasArmed(t)' /\ ~HasRequest'
    BY <2>1, <2>2, <2>3, Entries DEF HasWritten, HasFlashed, HasArmed, HasRequest, Entered, After
  <2>5. QED
    BY <2>4 DEF LastingFor
<1>3. CASE Resume(s)
  <2>1. UNCHANGED <<file, effects, boot, root, history, writers>> /\ host'.pc \in {"waiting", "check"}
    BY <1>3 DEF Resume
  <2>2. /\ HasWritten(t)' => HasWritten(t)
        /\ HasFlashed(t)' => HasFlashed(t)
        /\ HasArmed(t)' => HasArmed(t)
        /\ ~HasRequest'
    BY <2>1 DEF HasWritten, HasFlashed, HasArmed, HasRequest, Entered, After
  <2>3. Writing' => Writing
    BY <2>1 DEF Writing
  <2>4. LastingFor(t)
    BY <2>1 DEF Lasting
  <2>5. QED
    BY <2>1, <2>2, <2>3, <2>4, LastingMoves
<1>4. QED
  BY <1>1, <1>2, <1>3

LEMMA LastingRecord ==
    ASSUME TypeOK, Orderly, OneRecord, Record, NEW t \in Txns, file[t] # "none", LastingFor(t)
    PROVE  LastingFor(t)'
<1>t. file \in [Txns -> Phases] /\ host \in Host /\ Off.pc = "off"
  BY DEF TypeOK, Off
<1>a. UNCHANGED <<effects, boot, root, history, writers>> /\ host.pc # "off"
  BY DEF Record, Await, AlreadyComplete, Check, Push, SaveInstalled, SaveComplete
<1>b. host.txn = t /\ host.phase = file[t]
  BY <1>a, AtTheOne DEF Orderly
<1>s. ASSUME NEW phase, Save(host.txn, phase) PROVE file'[t] = phase
  BY <1>t, <1>b, <1>s DEF Save
<1>1. HasWritten(t)' => HasWritten(t)
  <2>1. CASE Await
    BY <1>t, <1>a, <1>b, <1>s, <2>1 DEF Await, GotoIn, Host, HasWritten, Entered, After
  <2>2. CASE AlreadyComplete
    BY <1>t, <1>a, <1>b, <2>2 DEF AlreadyComplete, HasWritten, Entered, After
  <2>3. CASE Check
    BY <1>t, <1>a, <1>b, <2>3 DEF Check, Goto, Host, HasWritten, Entered, After
  <2>4. CASE Push
    BY <1>t, <1>a, <1>b, <1>s, <2>4 DEF Push, GotoIn, Host, HasWritten, Entered, After
  <2>5. CASE SaveInstalled \/ SaveComplete
    BY <2>5 DEF SaveInstalled, SaveComplete, HasWritten, After
  <2>6. QED
    BY <2>1, <2>2, <2>3, <2>4, <2>5 DEF Record
<1>2. host'.pc \in {"off", "reboot", "chain2", "push", "write"} /\ (host'.pc = "write" => host'.call = "no")
  BY <1>t DEF Record, Await, AlreadyComplete, Check, Push, SaveInstalled, SaveComplete, Goto, GotoIn, Host
<1>3. (HasFlashed(t)' => HasFlashed(t)) /\ (HasArmed(t)' => HasArmed(t)) /\ ~HasRequest'
  BY <1>a, <1>2 DEF HasFlashed, HasArmed, HasRequest, Entered
<1>4. Writing' => Writing
  BY <1>a DEF Writing
<1>5. QED
  BY <1>a, <1>1, <1>3, <1>4, LastingMoves

\* An operation that is on its way is not entered as done.
LEMMA Underway ==
    ASSUME Orderly, host.call # "no"
    PROVE  /\ host.pc \in {"boot1", "boot2"} => Entered(host.txn, "boot-part.img", "any") # "done"
           /\ host.pc = "write" => Entered(host.txn, "root-part-write", "any") # "done"
<1>1. host.pc \in Calls /\ host.txn \in Txns
  BY DEF Orderly, Calls
<1>2. CASE Gui
  BY <1>1, <1>2, Names DEF Orderly, Entered
<1>3. CASE ~Gui
  BY <1>1, <1>3, Entries DEF Orderly, Entered
<1>4. QED
  BY <1>2, <1>3

LEMMA LastingCommand ==
    ASSUME TypeOK, Orderly, OneRecord, Command, NEW t \in Txns, file[t] # "none", LastingFor(t)
    PROVE  LastingFor(t)'
<1>t. host \in Host /\ history \in History /\ Off.pc = "off"
  BY DEF TypeOK, Off
<1>a. file' = file /\ host.pc # "off" /\ host.txn = t /\ host.phase = file[t] /\ root' = root
      /\ (Writing' => Writing)
  <2>1. file' = file /\ host.pc # "off" /\ root' = root /\ writers' \in {writers, [w \in Owners |-> NoWriter]}
    BY DEF Command, SkipDone, Begin, Finish, Reboot, WaitAndroid, SyncChain, FlashBegins, FlashEnds, Arm, Calls
  <2>2. QED
    BY <2>1, AtTheOne DEF Orderly, Writing
<1> USE DEF HasWritten, HasFlashed, HasArmed, HasRequest, Entered, After
<1>1. CASE SkipDone
  <2>1. /\ host.pc \in Calls /\ host'.pc = Following[host.pc] /\ host'.call = "no"
        /\ effects[t][Name] = "done" /\ UNCHANGED <<effects, boot, history>>
    BY <1>1, <1>t, <1>a DEF SkipDone, Goto, Host
  <2>2. host.pc # "boot1"
    BY <1>1, <1>a, <2>1, Names DEF SkipDone, Orderly
  <2>3. /\ HasWritten(t)' => HasWritten(t)
        /\ HasFlashed(t)' => HasFlashed(t)
        /\ HasArmed(t)' => HasArmed(t)
        /\ ~HasRequest'
    BY <1>a, <2>1, <2>2, Names DEF Calls, Following
  <2>4. QED
    BY <1>a, <2>1, <2>3, LastingMoves
<1>2. CASE Begin
  <2>1. /\ host.pc \in Calls /\ host.call = "no" /\ UNCHANGED <<boot, history>>
        /\ host' = Off \/ (host'.pc = host.pc /\ host'.call = "begun")
        /\ effects' = effects \/ effects' = [effects EXCEPT ![host.txn][Name] = "started"]
    BY <1>2, <1>t DEF Begin, Host
  <2>2. \A n \in EffectNames : effects'[t][n] = "done" => effects[t][n] = "done"
    BY <1>a, <2>1, EntryMade
  <2>3. /\ HasWritten(t)' => HasWritten(t)
        /\ HasFlashed(t)' => HasFlashed(t)
        /\ HasArmed(t)' => HasArmed(t)
        /\ HasRequest' => HasRequest
    BY <1>t, <1>a, <2>1, <2>2, Entries
  <2>4. QED
    BY <1>a, <2>1, <2>3, LastingMoves
<1>3. CASE Finish
  <2>1. /\ host.pc \in Calls /\ host.call = "ended" /\ UNCHANGED <<boot, history>>
        /\ host'.pc = Following[host.pc] /\ host'.call = "no"
        /\ effects' = effects \/ effects' = [effects EXCEPT ![host.txn][Name] = "done"]
    BY <1>3, <1>t DEF Finish, Goto, Host
  <2>2. \A n \in EffectNames : effects'[t][n] = "done" => effects[t][n] = "done" \/ n = Name
    BY <1>a, <2>1, EntryMade
  <2>3. Name = <<"root-part-write", "any">> => host.pc = "write"
    BY <2>1, Names DEF Calls
  <2>4. Name = <<"boot-part.img", "any">> => host.pc = "boot2"
    BY <2>1, Names DEF Calls
  <2>5. Name = <<"misc-trial", "installed">> => host.pc = "arm2"
    BY <2>1, Names DEF Calls
  <2>6. /\ HasWritten(t)' => HasWritten(t)
        /\ HasFlashed(t)' => HasFlashed(t)
        /\ HasArmed(t)' => HasArmed(t)
        /\ HasRequest' => HasRequest
    BY <1>a, <2>1, <2>2, <2>3, <2>4, <2>5, Entries DEF Calls, Following
  <2>7. QED
    BY <1>a, <2>1, <2>6, LastingMoves
<1>4. CASE Reboot \/ WaitAndroid
  <2>1. host'.pc \in {"waiting", "check"} /\ UNCHANGED <<effects, boot, history>>
    BY <1>4, <1>t DEF Reboot, WaitAndroid, Goto, Host
  <2>2. QED
    BY <1>a, <2>1, LastingMoves
<1>5. CASE SyncChain
  <2>1. host.pc \in {"chain1", "chain2"} /\ host'.pc = host.pc /\ UNCHANGED <<effects, boot, history>>
    BY <1>5, <1>t DEF SyncChain, Host
  <2>2. QED
    BY <1>a, <2>1, LastingMoves
<1>6. CASE FlashBegins \/ FlashEnds
  <2>1. /\ host.pc \in {"boot1", "boot2"} /\ host'.pc = host.pc /\ host.call \in {"begun", "half"}
        /\ host'.call \in {"half", "ended"} /\ UNCHANGED <<effects, history>>
        /\ host'.call = "ended" => boot' = BootImage
    BY <1>6, <1>t DEF FlashBegins, FlashEnds, Host
  <2>2. effects[t][<<"boot-part.img", "any">>] # "done"
    BY <1>a, <2>1, Underway
  <2>3. HasWritten(t)' => HasWritten(t)
    BY <1>a, <2>1
  <2>4. (HasFlashed(t)' => host.pc = "boot2" /\ host'.call = "ended") /\ (HasRequest' => host.pc = "boot1" /\ host'.call = "ended")
        /\ (HasArmed(t)' => HasArmed(t))
    BY <2>1, <2>2
  <2>5. QED
    BY <1>a, <2>1, <2>3, <2>4 DEF LastingFor, BootImage
<1>7. CASE Arm
  <2>1. /\ host.pc \in {"arm1", "arm2"} /\ host'.pc = host.pc /\ UNCHANGED <<effects, boot>>
        /\ history'.armed = IF host.pc = "arm2" THEN t ELSE history.armed
    BY <1>7, <1>t, <1>a DEF Arm, Host, History
  <2>2. /\ HasWritten(t)' => HasWritten(t)
        /\ HasFlashed(t)' => HasFlashed(t)
        /\ HasArmed(t)' => HasArmed(t) \/ host.pc = "arm2"
        /\ HasRequest' => HasRequest
    BY <1>a, <2>1
  <2>3. QED
    BY <1>a, <2>1, <2>2 DEF LastingFor
<1>8. QED
  BY <1>1, <1>2, <1>3, <1>4, <1>5, <1>6, <1>7 DEF Command

\* What is left over when the computer stops is a script or an image not yet trusted.
LEMMA LastingStop ==
    ASSUME TypeOK, Orderly, OneRecord, Stop, NEW t \in Txns, file[t] # "none", LastingFor(t)
    PROVE  LastingFor(t)'
<1>1. /\ host.pc # "off" /\ host' = Off /\ UNCHANGED <<file, effects, root, history>>
      /\ (boot' = boot \/ (host.pc \in {"boot1", "boot2"} /\ host.call = "half"))
  BY DEF Stop
<1>2. host.txn = t /\ Off.pc = "off"
  BY <1>1, AtTheOne DEF Off
<1>3. Writing' => Writing
  BY DEF Stop, Writing, Owners
<1>4. CASE boot' = boot
  BY <1>1, <1>3, <1>4, LastingOff
<1>5. CASE host.pc \in {"boot1", "boot2"} /\ host.call = "half"
  <2>1. ~HasFlashed(t)' /\ ~HasRequest'
    BY <1>1, <1>2, <1>5, Underway DEF HasFlashed, HasRequest, Entered
  <2>2. (HasWritten(t)' => HasWritten(t)) /\ (HasArmed(t)' => HasArmed(t))
    BY <1>1, <1>2 DEF HasWritten, HasArmed, Entered, After
  <2>3. QED
    BY <1>1, <1>3, <2>1, <2>2 DEF LastingFor
<1>6. QED
  BY <1>1, <1>4, <1>5

\* A script runs only for what is not believed written.
LEMMA LastingScript ==
    ASSUME TypeOK, Orderly, OneWriter, OneRecord, Script, NEW t \in Txns, file[t] # "none", LastingFor(t)
    PROVE  LastingFor(t)'
<1>t. host \in Host /\ writers \in [Owners -> Writer] /\ Owners = {"attached", "orphan"} /\ Off.pc = "off"
  BY DEF TypeOK, Owners, Off
<1>a. UNCHANGED <<file, effects, boot, history>>
  BY DEF Script, WriterStarts, WriterWrites, WriterEnds, WriterFails
<1>b. ASSUME host.pc = "write" \/ host' \in {host, Off}, host'.pc \in {host.pc, "off"},
             host.pc = "write" => host'.pc \in {"write", "off"},
             HasWritten(t)' => root'.state = "whole" /\ root'.by = t /\ ~Writing'
      PROVE  LastingFor(t)'
  <2>1. HasFlashed(t)' => HasFlashed(t)
    BY <1>t, <1>a, <1>b DEF HasFlashed, Entered
  <2>2. (HasArmed(t)' => HasArmed(t)) /\ (HasRequest' => HasRequest)
    BY <1>t, <1>a, <1>b DEF HasArmed, HasRequest, Entered
  <2>3. QED
    BY <1>a, <1>b, <2>1, <2>2 DEF LastingFor
<1>1. CASE WriterStarts
  <2>1. host.pc = "write" /\ host.call = "begun" /\ host'.pc = "write" /\ host'.call = "half"
    BY <1>1, <1>t DEF WriterStarts, Host
  <2>2. host.txn = t /\ file[t] = "writing"
    BY <2>1, AtTheOne DEF Orderly
  <2>3. ~HasWritten(t)'
    BY <1>a, <2>1, <2>2, Underway DEF HasWritten, Entered, After
  <2>4. QED
    BY <1>b, <2>1, <2>3
<1>2. ASSUME NEW w \in Owners, WriterWrites(w) \/ WriterEnds(w) \/ WriterFails(w) PROVE LastingFor(t)'
  <2>1. ~HasWritten(t)
    BY <1>2 DEF WriterWrites, WriterEnds, WriterFails, NoWriter, LastingFor, Writing
  <2>2. CASE host' \in {host, Off}
    <3>1. ~HasWritten(t)'
      BY <1>t, <1>a, <2>1, <2>2 DEF HasWritten, Entered, After
    <3>2. QED
      BY <1>b, <1>t, <2>2, <3>1
  <2>3. CASE w = "attached" /\ WriterEnds(w)
    <3>1. /\ writers["attached"].txn = host.txn /\ host.pc = "write" /\ writers["orphan"] = NoWriter
          /\ root'.state = "whole" /\ root'.by = writers["attached"].txn
          /\ writers' = [writers EXCEPT !["attached"] = NoWriter] /\ host'.pc = "write"
      BY <2>3, <1>t DEF WriterEnds, OneWriter, NoWriter, Host
    <3>2. host.txn = t
      BY <3>1, AtTheOne
    <3>3. ~Writing'
      BY <1>t, <3>1 DEF Writing
    <3>4. QED
      BY <1>b, <3>1, <3>2, <3>3
  <2>4. QED
    BY <1>2, <2>2, <2>3 DEF WriterWrites, WriterEnds, WriterFails
<1>3. QED
  BY <1>1, <1>2 DEF Script

\* The device takes no whole root away.
LEMMA LastingDevice ==
    ASSUME TypeOK, OneWriter, Firmware \/ Initramfs \/ UNCHANGED vars, NEW t, LastingFor(t)
    PROVE  LastingFor(t)'
<1>t. root \in Root /\ history \in History /\ Off.pc = "off"
  BY DEF TypeOK, Off
<1>a. UNCHANGED <<file, effects, boot>> /\ host' \in {host, Off}
      /\ writers' \in {writers, [w \in Owners |-> NoWriter]}
  BY DEF Firmware, PowerLoss, BootRecovery, BootB, BootA, RecoveryWipes, RecoveryEnds, Initramfs,
         PrepareRejects, Carve, Mark, RequestReset, GiveBack, PrepareFails, SelectRoot, Fallback,
         BootOk, LeaveLinux, vars
<1>b. (Writing' => Writing) /\ history'.armed = history.armed
  <2>1. Writing' => Writing
    BY <1>a DEF Writing
  <2>2. history'.armed = history.armed
    BY <1>t DEF Firmware, PowerLoss, BootRecovery, BootB, BootA, RecoveryWipes, RecoveryEnds, Initramfs,
         PrepareRejects, Carve, Mark, RequestReset, GiveBack, PrepareFails, SelectRoot, Fallback,
         BootOk, LeaveLinux, vars, History
  <2>3. QED
    BY <2>1, <2>2
<1>1. CASE Carve \/ Mark
  <2>1. ~HasWritten(t)
    BY <1>1 DEF Carve, RequestMatches, Mark, OneWriter, LastingFor
  <2>2. ~HasWritten(t)'
    BY <1>t, <1>a, <2>1 DEF HasWritten, Entered, After
  <2>3. /\ HasFlashed(t)' => HasFlashed(t)
        /\ HasArmed(t)' => HasArmed(t)
        /\ HasRequest' => HasRequest
    BY <1>t, <1>a DEF HasFlashed, HasArmed, HasRequest, Entered
  <2>4. QED
    BY <1>a, <1>b, <2>2, <2>3 DEF LastingFor
<1>2. CASE ~(Carve \/ Mark)
  <2>1. root'.state = root.state /\ root'.by = root.by
    BY <1>t, <1>2 DEF Firmware, PowerLoss, BootRecovery, BootB, BootA, RecoveryWipes, RecoveryEnds, Initramfs,
         PrepareRejects, RequestReset, GiveBack, PrepareFails, SelectRoot, Fallback,
         BootOk, LeaveLinux, vars, Root
  <2>2. QED
    BY <1>a, <1>b, <2>1, LastingOff
<1>3. QED
  BY <1>1, <1>2

LEMMA OneStep == OneInv /\ [Next]_vars => OneInv'
<1> SUFFICES ASSUME OneInv, [Next]_vars PROVE OneInv'
  OBVIOUS
<1>1. IInv'
  BY InvStep DEF OneInv
<1>2. Orderly' /\ OneWriter'
  BY OrderlyStep, OneWriterStep DEF OneInv, IInv
<1>3. ASSUME OneRecord', NEW t \in Txns, file'[t] # "none" PROVE LastingFor(t)'
  <2>1. OneRecord /\ Lasting
    BY <1>3, RecordsStay DEF OneInv, IInv
  <2>2. CASE Entry
    BY <1>3, <2>1, <2>2, LastingEntry DEF OneInv, IInv
  <2>3. CASE ~Entry
    <3>1. file[t] # "none"
      <4>1. CASE Record
        <5>1. \A phase : Save(host.txn, phase) => file'[t] = file[t] \/ t = host.txn
          BY DEF Save, OneInv, IInv, TypeOK
        <5>2. file'[t] = file[t] \/ (t = host.txn /\ host.pc # "off")
          BY <4>1, <5>1 DEF Record, Await, AlreadyComplete, Check, Push, SaveInstalled, SaveComplete
        <5>3. QED
          BY <1>3, <5>2 DEF OneInv, Orderly
      <4>2. CASE ~Record
        BY <1>3, <2>3, <4>2
        DEF Next, Command, SkipDone, Begin, Finish, Reboot, WaitAndroid, SyncChain, FlashBegins, FlashEnds, Arm,
            Stop, Script, WriterStarts, WriterWrites, WriterEnds, WriterFails,
            Firmware, PowerLoss, BootRecovery, BootB, BootA, RecoveryWipes, RecoveryEnds, Initramfs,
            PrepareRejects, Carve, Mark, RequestReset, GiveBack, PrepareFails, SelectRoot, Fallback,
            BootOk, LeaveLinux, vars
      <4>3. QED
        BY <4>1, <4>2
    <3>2. LastingFor(t)
      BY <2>1, <3>1 DEF Lasting
    <3>3. QED
      BY <2>1, <2>3, <3>1, <3>2, LastingRecord, LastingCommand, LastingStop, LastingScript, LastingDevice
      DEF OneInv, IInv, Next
  <2>4. QED
    BY <2>2, <2>3
<1>4. QED
  BY <1>1, <1>2, <1>3 DEF OneInv, Lasting

LEMMA OneInit == Init => OneInv
<1> SUFFICES ASSUME Init PROVE OneInv
  OBVIOUS
<1>1. Orderly
  BY DEF Init, Orderly, Off, After, Calls
<1>2. OneWriter
  BY DEF Init, OneWriter, Writing, Owners
<1>3. Lasting
  BY DEF Init, Lasting
<1>4. QED
  BY <1>1, <1>2, <1>3, InvInit DEF OneInv

\* On a device with one record the root is whole from the moment the computer believes
\* it written until it is done, whatever scripts of earlier runs are still writing
\* (finish, the lock of part-write.sh), with the coordinator's journal or without it.
THEOREM WholeRoot == Spec => []RootStaysWhole
<1>1. OneInv => RootStaysWhole
  <2> SUFFICES ASSUME OneInv, OneRecord, host.pc \in After PROVE root.state = "whole"
    BY DEF RootStaysWhole, InstalledStays, After
  <2>1. host.txn \in Txns /\ file[host.txn] # "none"
    BY DEF OneInv, Orderly, After
  <2>2. QED
    BY <2>1 DEF OneInv, Lasting, LastingFor, HasWritten
<1>2. QED
  BY OneInit, OneStep, <1>1, PTL DEF Spec

\* There slot B is selected only for what can start, and a record becomes complete only
\* with its own root and image in place, however often it was interrupted and resumed
\* (finish; "must not arm a failed installation").
THEOREM SelectsWhatIsThere == Spec => SelectsAndCompletes
<1>1. ASSUME OneInv, [Next]_vars, OneRecord' PROVE SelectsWhatBoots /\ CompletesInstalled
  <2>1. OneRecord /\ Lasting
    BY <1>1, RecordsStay DEF OneInv, IInv
  <2>t. host \in Host /\ file \in [Txns -> Phases] /\ misc \in Misc
    BY <1>1 DEF OneInv, IInv, TypeOK
  <2>2. ASSUME host.pc # "off" PROVE host.txn \in Txns /\ LastingFor(host.txn)
    BY <1>1, <2>1, <2>2 DEF OneInv, Orderly, Lasting
  <2>3. SelectsWhatBoots
    <3> SUFFICES ASSUME misc'.control = "trial", misc.control # "trial"
                 PROVE  \/ mode = "linux"
                        \/ host.pc = "arm1" /\ boot = [kind |-> "prepare", txn |-> host.txn]
                        \/ host.pc = "arm2" /\ boot.kind = "part" /\ root.state = "whole"
      BY DEF SelectsWhatBoots
    <3>1. Arm \/ BootOk
      <4>1. CASE UNCHANGED misc
        BY <4>1
      <4>2. CASE Entry \/ Record
        BY <4>1, <4>2 DEF Entry, Start, Reinstall, Resume, Record, Await, AlreadyComplete, Check, Push,
                    SaveInstalled, SaveComplete
      <4>3. CASE Command \/ Stop \/ Script
        BY <4>1, <4>3 DEF Command, SkipDone, Begin, Finish, Reboot, WaitAndroid, SyncChain, FlashBegins,
                    FlashEnds, Stop, Script, WriterStarts, WriterWrites, WriterEnds, WriterFails
      <4>4. CASE Firmware \/ UNCHANGED vars
        BY <2>t, <4>4 DEF Firmware, PowerLoss, BootRecovery, BootB, BootA, RecoveryWipes, RecoveryEnds, vars, Misc
      <4>5. CASE Initramfs
        BY <2>t, <4>5 DEF Initramfs, PrepareRejects, Carve, Mark, RequestReset, GiveBack, PrepareFails,
                    SelectRoot, Fallback, LeaveLinux, Misc
      <4>6. QED
        BY <1>1, <4>2, <4>3, <4>4, <4>5 DEF Next
    <3>2. CASE BootOk
      BY <3>2 DEF BootOk
    <3>3. CASE Arm
      BY <2>2, <3>3 DEF Arm, LastingFor, HasWritten, HasRequest, HasFlashed, After
    <3>4. QED
      BY <3>1, <3>2, <3>3
  <2>4. CompletesInstalled
    <3> SUFFICES ASSUME NEW t \in Txns, file[t] # "complete", file'[t] = "complete"
                 PROVE  /\ root.state = "whole" /\ root.by = t
                        /\ boot = [kind |-> "part", txn |-> t]
                        /\ history.armed = t
      BY DEF CompletesInstalled
    <3>1. SaveComplete /\ host.txn = t
      <4>1. file' # file
        OBVIOUS
      <4>2. CASE Entry
        BY <2>t, <4>2 DEF Entry, Start, Reinstall, Resume, Save
      <4>3. CASE Record
        BY <2>t, <4>1, <4>3 DEF Record, Await, AlreadyComplete, Check, Push, SaveInstalled, SaveComplete, Save
      <4>4. CASE Command \/ Stop \/ Script
        BY <4>1, <4>4 DEF Command, SkipDone, Begin, Finish, Reboot, WaitAndroid, SyncChain, FlashBegins,
                    FlashEnds, Arm, Stop, Script, WriterStarts, WriterWrites, WriterEnds, WriterFails
      <4>5. CASE Firmware \/ Initramfs \/ UNCHANGED vars
        BY <4>1, <4>5 DEF Firmware, PowerLoss, BootRecovery, BootB, BootA, RecoveryWipes, RecoveryEnds,
                    Initramfs, PrepareRejects, Carve, Mark, RequestReset, GiveBack, PrepareFails,
                    SelectRoot, Fallback, BootOk, LeaveLinux, vars
      <4>6. QED
        BY <1>1, <4>2, <4>3, <4>4, <4>5 DEF Next
    <3>2. host.pc = "closing"
      BY <3>1 DEF SaveComplete
    <3>3. QED
      BY <2>2, <3>1, <3>2 DEF LastingFor, HasWritten, HasFlashed, HasArmed, After
  <2>5. QED
    BY <2>3, <2>4
<1>2. OneInv /\ [Next]_vars => (OneRecord' => SelectsWhatBoots /\ CompletesInstalled)
  BY <1>1
<1>3. QED
  BY OneInit, OneStep, <1>2, PTL DEF Spec, SelectsAndCompletes

=============================================================================
