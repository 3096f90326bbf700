------------------------------ MODULE Session ------------------------------
(***************************************************************************)
(* One coordinator process between several phones: service.py reads        *)
(* requests one after another while at most one worker runs an operation,  *)
(* which waits for people: for Android to be set up again, for debugging   *)
(* and root, for somebody to start OpenWrt and to say where it answers.    *)
(*                                                                         *)
(* A phone is reached over a cable, which stays its own, or at the         *)
(* wireless address Air, where another phone may answer after it.  A       *)
(* management address is answered by whatever phone happens to be there.   *)
(*                                                                         *)
(* What a single operation journals is in Coordinator, the two stages of   *)
(* an installation are in PartTwoStage and the removal in Uninstall; here  *)
(* each is one write or two.                                               *)
(***************************************************************************)
EXTENDS Naturals

CONSTANTS
    Phones,    \* each with a cable of its own
    Records,   \* the plans that will be made
    Methods,   \* "tf", "stages" (a partition, in two stages), "uninstall"
    MaxBoots,  \* how often each phone starts
    Air        \* the wireless address

ASSUME PhonesAssumption == {Air, "none"} \cap Phones = {}
ASSUME RecordsAssumption == "none" \notin Records
ASSUME MethodsAssumption == Methods \subseteq {"tf", "stages", "uninstall"}
ASSUME BootsAssumption == MaxBoots \in Nat \ {0}

VARIABLES
    phone,     \* what each phone runs and holds
    air,       \* who answers at Air
    rec,       \* the records
    job,       \* the worker: its record, where it is, the phone it last found to be that of
               \* the record, whether a pause is asked of it, and whether an answer was given to it
    request,   \* the record for which the user gave an address of OpenWrt
    linking    \* the main thread is in adb connect

vars == <<phone, air, rec, job, request, linking>>

None == "none"
Empty == [by |-> None, does |-> None, armed |-> FALSE]
NoRecord == [status |-> None, home |-> None, serial |-> None, method |-> None, boot |-> 0,
             stage |-> None, legacy |-> FALSE, mark |-> None, staged |-> 0, confirmed |-> FALSE]
Job(r, pc) == [rec |-> r, pc |-> pc, seen |-> None, cancel |-> FALSE, answered |-> FALSE]
Idle == Job(None, None)
Waits == {"waiting_user", "waiting_device"}

-----------------------------------------------------------------------------
(* The phones *)

\* Who answers on a connection, if it runs Android; its setup may be unfinished.
Line(s) == IF s = Air THEN air ELSE s
Listed(s) == Line(s) # None /\ phone[Line(s)].os = "android"
Ready(s) == Listed(s) /\ phone[Line(s)].ready

\* Somebody restarts it, or a restart that was asked for happens.
GoesDown(p) ==
    /\ phone[p].os # "down"
    /\ phone' = [phone EXCEPT ![p].os = "down"]
    /\ UNCHANGED <<air, rec, job, request, linking>>

\* An image armed in slot B prepares the partition or removes it, and the phone restarts ...
RunsOnce(p) ==
    /\ phone[p].os = "down" /\ phone[p].slotB.armed /\ phone[p].slotB.does \in {"prepare", "remove"}
    /\ phone' = [phone EXCEPT
          ![p].slotB.armed = FALSE,
          ![p].root = IF phone[p].slotB.does = "prepare" THEN [by |-> phone[p].slotB.by, is |-> "prepared"]
                      ELSE [by |-> None, is |-> None]]
    /\ UNCHANGED <<air, rec, job, request, linking>>

\* ... as Android, set up or not, or as the system in slot B.
Boots(p) ==
    /\ phone[p].os = "down" /\ phone[p].boot < MaxBoots
    /\ phone[p].slotB.armed => phone[p].slotB.does = "system"
    /\ \E os \in {"android"} \cup (IF phone[p].slotB.does = "system" THEN {"openwrt"} ELSE {}),
          ready \in BOOLEAN :
          phone' = [phone EXCEPT ![p].os = os, ![p].boot = @ + 1, ![p].ready = ready]
    /\ UNCHANGED <<air, rec, job, request, linking>>

\* Setup, debugging, root.
SetUp(p) ==
    /\ phone[p].os = "android" /\ ~phone[p].ready
    /\ phone' = [phone EXCEPT ![p].ready = TRUE]
    /\ UNCHANGED <<air, rec, job, request, linking>>

\* The address goes to another phone, whatever the worker is about to do there.
Moves(p) ==
    /\ air # p /\ phone[p].os = "android" /\ (air # None => phone[air].os # "android")
    /\ air' = p
    /\ UNCHANGED <<phone, rec, job, request, linking>>

-----------------------------------------------------------------------------
(* Requests *)

Free == job.pc = None /\ ~linking
Alive == job.pc # None
Mine == rec[job.rec]
Serials == Phones \cup {Air}

\* A removal that may still be carried out: its image lies in slot B, or its record
\* says that it was begun.
Pending(p) ==
    \/ phone[p].slotB.does = "remove"
    \/ \E r \in Records : /\ rec[r].method = "uninstall" /\ rec[r].home = p
                          /\ rec[r].mark # None /\ rec[r].status # "completed"

\* plan, of a phone that is ready; its boot is remembered with it.
Plan(r, s, method) ==
    /\ Free /\ rec[r] = NoRecord /\ Ready(s) /\ ~Pending(Line(s))
    /\ method = "stages" => phone[Line(s)].root.is = None
    /\ method = "uninstall" => phone[Line(s)].root.is = "system" /\ phone[Line(s)].slotB.does = "system"
    /\ rec' = [rec EXCEPT ![r] = [NoRecord EXCEPT !.status = "ready", !.stage = "plan", !.method = method,
                                  !.home = Line(s), !.serial = s, !.boot = phone[Line(s)].boot]]
    /\ UNCHANGED <<phone, air, job, request, linking>>

\* Variant: an answer given to an earlier run stays.
StartUncleared(r) ==
    /\ Free /\ rec[r].status \in {"ready", "failed", "cancelled"}
    /\ job' = Job(r, "lock")
    /\ UNCHANGED <<phone, air, rec, request, linking>>

\* start, resume, retry: nothing asked of an earlier worker is asked of this one.
Start(r) ==
    /\ Free /\ rec[r].status \in {"ready", "failed", "cancelled"}
    /\ job' = Job(r, "lock")
    /\ request' = None
    /\ UNCHANGED <<phone, air, rec, linking>>

\* A paused removal goes on over another connection, if the same phone is there.
Rebind(r, s) ==
    /\ Free /\ rec[r].method = "uninstall" /\ rec[r].status \in {"failed", "cancelled"}
    /\ s # rec[r].serial /\ Ready(s) /\ Line(s) = rec[r].home
    /\ rec' = [rec EXCEPT ![r].serial = s]
    /\ UNCHANGED <<phone, air, job, request, linking>>

Cancel ==
    /\ Alive /\ ~linking
    /\ job' = [job EXCEPT !.cancel = TRUE]
    /\ UNCHANGED <<phone, air, rec, request, linking>>

\* verify_openwrt: an address, for the record that waits for OpenWrt.
Answer ==
    /\ Alive /\ ~linking /\ Mine.stage = "openwrt_boot" /\ Mine.status \in Waits /\ Mine.mark # "started"
    /\ request' = job.rec /\ job' = [job EXCEPT !.answered = TRUE]
    /\ UNCHANGED <<phone, air, rec, linking>>

\* adb_connect: without a worker, or while it waits for Android.  The worker goes on
\* while adb tries ...
Connect ==
    /\ ~linking
    /\ Alive => /\ Mine.mark # "started" /\ Mine.status \in Waits
                /\ Mine.stage \in {"uninstall_offline", "android_boot", "android_setup"}
    /\ linking' = TRUE
    /\ UNCHANGED <<phone, air, rec, job, request>>

\* ... so that the phone found there may be one that took the place of another.
Connected ==
    /\ linking /\ linking' = FALSE
    /\ \/ air' = air
       \/ \E p \in Phones : /\ phone[p].os = "android" /\ (air # None => phone[air].os # "android")
                            /\ air' = p
    /\ UNCHANGED <<phone, rec, job, request>>

\* adb_disconnect: not while a worker runs.
Disconnect ==
    /\ Free /\ air # None
    /\ air' = None
    /\ UNCHANGED <<phone, rec, job, request, linking>>

-----------------------------------------------------------------------------
(* The worker *)

Worker(pc) == job.pc = pc
Others == <<phone, air, linking>>
Goes(pc) == job' = [job EXCEPT !.pc = pc]
Looked(pc) == job' = [job EXCEPT !.pc = pc, !.seen = Line(Mine.serial)]
Says(stage, status) == rec' = [rec EXCEPT ![job.rec].stage = stage, ![job.rec].status = status]
Ends(status) == job' = Idle /\ Says(Mine.stage, status)
Fails == Ends("failed") /\ UNCHANGED <<Others, request>>

\* boundary: where a pause takes effect.
Pauses == job.cancel /\ Ends("cancelled") /\ UNCHANGED <<Others, request>>

\* The connection or the phone is locked by another installer.
LockBusy == Worker("lock") /\ Fails

\* run: what is left to do of the record.
Decide ==
    /\ Worker("lock")
    /\ LET given == Mine.stage = "openwrt_boot" \/ Mine.mark = "committed" IN
       \/ /\ Mine.method = "uninstall"
          /\ Goes(IF Mine.mark = "done" THEN "remove" ELSE IF Mine.mark = "started" THEN "recover" ELSE "check")
          /\ UNCHANGED rec
       \/ /\ Mine.method # "uninstall" /\ given
          /\ Goes("await") /\ Says("openwrt_boot", "waiting_user")
       \/ /\ Mine.method # "uninstall" /\ ~given
          /\ Goes(IF Mine.legacy THEN "wait" ELSE "check")
          /\ UNCHANGED rec
    /\ UNCHANGED <<Others, request>>

\* Variant: any phone there will do.
CheckAnyone ==
    /\ Worker("check")
    /\ \/ Fails
       \/ /\ Ready(Mine.serial)
          /\ Looked("write") /\ Says("prepare", "running")
          /\ UNCHANGED <<Others, request>>

\* The phone that was planned for is there, and the plan would be the same.
Check ==
    /\ Worker("check")
    /\ \/ Fails
       \/ /\ Ready(Mine.serial) /\ Line(Mine.serial) = Mine.home
          /\ Mine.method = "stages" => phone[Mine.home].root.is = None
          /\ Mine.method = "uninstall" => phone[Mine.home].root.is = "system"
          /\ Looked("write") /\ Says("prepare", "running")
          /\ UNCHANGED <<Others, request>>

\* recover_arm: when the phone is back, its table and slot B show what was written.
RecoverArm ==
    /\ Worker("recover")
    /\ \/ Fails
       \/ Pauses
       \/ /\ ~job.cancel /\ ~Ready(Mine.serial)
          /\ Says(IF Listed(Mine.serial) THEN "android_setup" ELSE "android_boot", "waiting_device")
          /\ UNCHANGED <<job, Others, request>>
       \/ /\ ~job.cancel /\ Ready(Mine.serial) /\ Line(Mine.serial) = Mine.home
          /\ LET done == \/ phone[Mine.home].root.is = None
                         \/ phone[Mine.home].slotB = [by |-> job.rec, does |-> "remove", armed |-> TRUE] IN
             /\ rec' = [rec EXCEPT ![job.rec].mark = IF done THEN "done" ELSE None]
             /\ Goes(IF done THEN "remove" ELSE "check")
          /\ UNCHANGED <<Others, request>>

FirstStage == Mine.method = "stages" /\ Mine.staged = 0

\* A first stage finds no partition there, a second one the flash and the token of the first.
Verifies(p) ==
    Mine.method = "stages" => IF Mine.legacy THEN phone[p].root = [by |-> job.rec, is |-> "prepared"]
                              ELSE phone[p].root.is = None

\* effect: marked before the write is sent, to whoever answers by then; what was begun
\* once is not begun again.
BeginWrite ==
    /\ Worker("write")
    /\ \/ Fails
       \/ Pauses
       \/ /\ ~job.cancel /\ Mine.mark # "started"
          /\ Ready(Mine.serial) /\ Verifies(Line(Mine.serial))
          /\ rec' = [rec EXCEPT ![job.rec].mark = "started",
                                ![job.rec].legacy = Mine.method = "stages"]
          /\ Goes("writing")
          /\ UNCHANGED <<Others, request>>

\* The commands reach whoever answers at the time.  The script of a removal compares table
\* and boot images and writes in one command; the others compare nothing more.
Reaches(p) ==
    /\ Listed(Mine.serial) /\ p = Line(Mine.serial)
    /\ Mine.method = "uninstall" => p = Mine.home
Does == IF FirstStage THEN "prepare" ELSE IF Mine.method = "uninstall" THEN "remove" ELSE "system"
WithImage(p) == [phone EXCEPT ![p].slotB = [by |-> job.rec, does |-> Does, armed |-> TRUE]]

\* A second stage writes the partition first, with a command of its own.
Written(p) ==
    IF Mine.method = "stages" /\ Does = "system"
    THEN \E q \in {job.seen, p} :
            /\ phone[q].root.is # None
            /\ phone' = [WithImage(p) EXCEPT ![q].root = [by |-> job.rec, is |-> "system"]]
    ELSE phone' = WithImage(p)

After(mark, stage, status, pc) ==
    /\ rec' = [rec EXCEPT ![job.rec].mark = mark, ![job.rec].stage = stage, ![job.rec].status = status,
                          ![job.rec].staged = IF mark = "staged" THEN phone[Mine.home].boot ELSE @]
    /\ Goes(pc)

\* The write was read back: the phone is to restart, or its owner is to restart it.
WriteLands ==
    /\ Worker("writing")
    /\ \E p \in Phones : Reaches(p) /\ Written(p)
    /\ CASE Does = "prepare" -> After("staged", "android_boot", "waiting_device", "wait")
         [] Does = "remove" -> After("done", "uninstall_offline", "waiting_device", "remove")
         [] OTHER -> After("committed", "openwrt_boot", "waiting_user", "await")
    /\ UNCHANGED <<air, request, linking>>

\* It fails at once or in the middle, or only its answer is lost.
WriteFails ==
    /\ Worker("writing")
    /\ \/ UNCHANGED phone
       \/ \E p \in Phones, half \in BOOLEAN :
             /\ Reaches(p)
             /\ phone' = IF half THEN [phone EXCEPT ![p].slotB = [Empty EXCEPT !.by = job.rec]] ELSE WithImage(p)
    /\ Ends("failed")
    /\ UNCHANGED <<air, request, linking>>

\* Variant: a pause is not looked for.
WaitAndroidDeaf ==
    /\ Worker("wait")
    /\ ~Ready(Mine.serial) /\ Says("android_boot", "waiting_device")
    /\ UNCHANGED <<job, Others, request>>

\* Variant: the phone's readiness is written down before it is looked at.
WaitAndroidEager ==
    /\ Worker("wait")
    /\ Ready(Mine.serial) /\ Says("ready", "waiting_user")
    /\ UNCHANGED <<job, Others, request>>

\* wait_android: until the phone is back, in another boot than the plan was made in.
WaitAndroid ==
    /\ Worker("wait")
    /\ \/ Pauses
       \/ /\ ~job.cancel
          /\ \/ /\ ~Ready(Mine.serial)
                /\ IF Listed(Mine.serial) THEN Says("android_setup", "waiting_user")
                   ELSE Says("android_boot", "waiting_device")
                /\ UNCHANGED <<job, Others, request>>
             \/ Ready(Mine.serial) /\ Line(Mine.serial) # Mine.home /\ Fails
             \/ /\ Ready(Mine.serial) /\ Line(Mine.serial) = Mine.home
                /\ IF phone[Mine.home].boot = Mine.boot
                   THEN Says("android_boot", "waiting_device") /\ UNCHANGED job
                   ELSE Says("recheck", "running") /\ Looked("write")
                /\ UNCHANGED <<Others, request>>

\* Variant: the address is taken for the phone.
OwnAnswersAnyone(p) == TRUE

\* The flash at the management address is that of the record.
OwnAnswers(p) == p = Mine.home

\* Variant: an answer waits for an automatic start.
TakeLater ==
    /\ Worker("await") /\ ~job.cancel /\ request = job.rec /\ Mine.status = "waiting_user"
    /\ request' = None
    /\ rec' = [rec EXCEPT ![job.rec].confirmed = TRUE, ![job.rec].stage = "openwrt_boot",
                          ![job.rec].status = "waiting_device"]
    /\ UNCHANGED <<job, Others>>

\* wait_openwrt: the answer of the user first ...
TakeAnswer ==
    /\ Worker("await") /\ ~job.cancel /\ request = job.rec
    /\ request' = None
    /\ rec' = [rec EXCEPT ![job.rec].confirmed = TRUE, ![job.rec].stage = "openwrt_boot",
                          ![job.rec].status = "waiting_device"]
    /\ UNCHANGED <<job, Others>>

\* ... then whoever is there: nobody, another phone or another router, or the phone of
\* the record, whose file system is measured.
AwaitOpenwrt ==
    /\ Worker("await")
    /\ \/ Pauses
       \/ /\ ~job.cancel /\ request = None
          /\ \/ /\ Says("openwrt_boot", IF Mine.confirmed THEN "waiting_device" ELSE "waiting_user")
                /\ UNCHANGED <<job, Others, request>>
             \/ /\ Says("openwrt_boot", "waiting_user")
                /\ UNCHANGED <<job, Others, request>>
             \/ \E p \in Phones : /\ phone[p].os = "openwrt" /\ OwnAnswers(p)
                                  /\ job' = Idle
                                  /\ \/ Says("complete", "completed")
                                     \/ Says("verify_capacity", "failed")
                /\ UNCHANGED <<Others, request>>

\* Uninstaller.run: until the phone is back in another boot, and the partition gone.
AwaitRemoval ==
    /\ Worker("remove")
    /\ \/ Pauses
       \/ /\ ~job.cancel
          /\ \/ /\ ~Ready(Mine.serial)
                /\ IF Listed(Mine.serial) THEN Says("android_setup", "waiting_user")
                   ELSE Says("uninstall_offline", "waiting_device")
                /\ UNCHANGED <<job, Others, request>>
             \/ Ready(Mine.serial) /\ Line(Mine.serial) # Mine.home /\ Fails
             \/ /\ Ready(Mine.serial) /\ Line(Mine.serial) = Mine.home
                /\ IF phone[Mine.home].boot = Mine.boot
                   THEN Says("uninstall_offline", "waiting_user") /\ UNCHANGED <<job, Others, request>>
                   ELSE IF phone[Mine.home].root.is # None THEN Fails
                   ELSE Says("verify_android", "running") /\ Goes("finish") /\ UNCHANGED <<Others, request>>

\* finish: the image of Android is about to be copied into slot B ...
FinishBegins ==
    /\ Worker("finish")
    /\ \/ Fails
       \/ Pauses
       \/ Ready(Mine.serial) /\ ~job.cancel /\ Goes("finishing") /\ UNCHANGED <<rec, Others, request>>

Restored == Listed(Mine.serial) /\ phone' = [phone EXCEPT ![Line(Mine.serial)].slotB = Empty]

\* ... of whoever answers by then; a pause that was asked for meanwhile takes effect now.
FinishLands ==
    /\ Worker("finishing") /\ Restored
    /\ IF job.cancel THEN Ends("cancelled") ELSE job' = Idle /\ Says("complete", "completed")
    /\ UNCHANGED <<air, request, linking>>

FinishFails ==
    /\ Worker("finishing") /\ (Restored \/ UNCHANGED phone)
    /\ Ends("failed")
    /\ UNCHANGED <<air, request, linking>>

-----------------------------------------------------------------------------

\* Android alone, with a system in its partition, or with one on a card.
Init ==
    /\ phone \in [Phones -> {[os |-> "android", boot |-> 1, ready |-> TRUE,
                              slotB |-> [by |-> None, does |-> b, armed |-> b = "system"],
                              root |-> [by |-> None, is |-> r]] :
                                 b \in {None, "system"}, r \in {None, "system"}}]
    /\ \A p \in Phones : phone[p].root.is = "system" => phone[p].slotB.does = "system"
    /\ air = None
    /\ rec = [r \in Records |-> NoRecord]
    /\ job = Idle /\ request = None /\ linking = FALSE

World == \E p \in Phones : GoesDown(p) \/ RunsOnce(p) \/ Boots(p) \/ SetUp(p) \/ Moves(p)

Dispatch ==
    \/ \E r \in Records : \/ \E s \in Serials, method \in Methods : Plan(r, s, method)
                          \/ Start(r)
                          \/ \E s \in Serials : Rebind(r, s)
    \/ Cancel \/ Answer \/ Connect \/ Connected \/ Disconnect

Work == \/ LockBusy \/ Decide \/ Check \/ RecoverArm \/ BeginWrite \/ WriteLands \/ WriteFails
        \/ WaitAndroid \/ TakeAnswer \/ AwaitOpenwrt \/ AwaitRemoval
        \/ FinishBegins \/ FinishLands \/ FinishFails

Next == World \/ Dispatch \/ Work

Spec == Init /\ [][Next]_vars

\* The commands of a removal that write have no time limit: they may hang for ever.
Unlimited == job.pc \in {"writing", "finishing"} /\ Mine.method = "uninstall"

\* The worker is a thread, and every other call has a limit: it goes on, whatever people
\* and phones do.
LiveSpec == Spec /\ WF_vars(~Unlimited /\ Work)

-----------------------------------------------------------------------------
(* Properties *)

Slots == [by : Records \cup {None}, does : {None, "prepare", "system", "remove"}, armed : BOOLEAN]
Roots == [by : Records \cup {None}, is : {None, "prepared", "system"}]
PhoneStates == [os : {"android", "openwrt", "down"}, boot : 1..MaxBoots, ready : BOOLEAN,
                slotB : Slots, root : Roots]
Statuses == {None, "ready", "running", "failed", "cancelled", "completed"} \cup Waits
Stages == {None, "plan", "prepare", "recheck", "android_boot", "android_setup", "openwrt_boot",
           "uninstall_offline", "verify_android", "verify_capacity", "complete"}
RecordStates == [status : Statuses, home : Phones \cup {None}, serial : Serials \cup {None},
                 method : Methods \cup {None}, boot : 0..MaxBoots, stage : Stages,
                 legacy : BOOLEAN, mark : {None, "started", "staged", "committed", "done"},
                 staged : 0..MaxBoots, confirmed : BOOLEAN]
JobStates == [rec : Records \cup {None}, seen : Phones \cup {None}, cancel : BOOLEAN, answered : BOOLEAN,
              pc : {None, "lock", "check", "recover", "write", "writing", "wait", "await",
                    "remove", "finish", "finishing"}]

\* Every variable holds what its declaration says.
TypeOK ==
    /\ phone \in [Phones -> PhoneStates]
    /\ air \in Phones \cup {None} /\ request \in Records \cup {None}
    /\ linking \in BOOLEAN
    /\ rec \in [Records -> RecordStates]
    /\ job \in JobStates

\* A phone belongs to the record; or it took the wireless address over after the worker
\* had found the phone of the record there, and the record is not of a removal.
Belongs(r, p) ==
    \/ rec[r].home = p
    \/ rec[r].serial = Air /\ rec[r].method # "uninstall" /\ p = air /\ p # job.seen

\* An image is written into slot B, or into the partition, only of a phone that belongs to
\* its record: over a cable and for a removal its own phone, at the wireless address one
\* that was compared with the record or came after that (Service.run, wait_android, the
\* scripts).  Nothing is compared between that and the end of the write.
WritesWhereItBelongs ==
    \A p \in DOMAIN phone :
        LET was == phone[p]  is == phone'[p] IN
        /\ is.slotB.by # None /\ <<is.slotB.by, is.slotB.does>> # <<was.slotB.by, was.slotB.does>> =>
              Belongs(is.slotB.by, p)
        /\ is.root.is = "system" /\ is.root # was.root => Belongs(is.root.by, p)

\* A record of an installation is completed while its own phone runs OpenWrt: the address
\* at which somebody answers proves nothing (wait_openwrt).
InstallsWhereItBelongs ==
    \A r \in DOMAIN rec : rec[r].status # "completed" /\ rec'[r].status = "completed"
                         /\ rec[r].method # "uninstall" => phone[rec[r].home].os = "openwrt"

\* A record of a removal is completed when the system that was installed is gone from its
\* own phone, though the address changes hands and another record prepares a partition there
\* before the end (Uninstaller.run, finish).
RemovesWhereItBelongs ==
    \A r \in DOMAIN rec : rec[r].status # "completed" /\ rec'[r].status = "completed"
                         /\ rec[r].method = "uninstall" => phone[rec[r].home].root.is # "system"

\* A record is completed by its own phone, whatever answers at an address by then, and writes
\* into its own phone, as far as it can tell which one answers (Service.run, wait_android,
\* wait_openwrt, Uninstaller.run).
StaysOnOwnPhone ==
    [][WritesWhereItBelongs /\ InstallsWhereItBelongs /\ RemovesWhereItBelongs]_vars

\* A record says that its user started OpenWrt only if they said so to the run that
\* writes it: an answer that came too late for one run is not taken by the next.
ConfirmsItsUser ==
    \A r \in DOMAIN rec : ~rec[r].confirmed /\ rec'[r].confirmed => job.rec = r /\ job.answered

ConfirmedByItsUser == [][ConfirmsItsUser]_vars

\* A paused operation ends, whatever it waits for: nobody need answer or plug in.  Only a
\* command without a time limit has to end first.
CancelEnds == job.cancel /\ ~Unlimited ~> job.pc = None

\* "test_stale_pre_reboot_adb_does_not_advance" (installer/tests/test_recovery.py): the
\* second stage does not begin in the boot in which the first was written.
\* Does not hold: README, section 10.
StaleAdbWaits ==
    [][job.pc = "wait" /\ job'.pc = "write" =>
          phone[rec[job.rec].home].boot > rec[job.rec].staged]_vars

\* "A new installation or temporary boot stops when it meets this mark" (translated from
\* docs/INSTALLER-UNINSTALL-20261016.zh-CN.md): the image of a removal is replaced by
\* that removal only.
\* Does not hold: README, section 10.
RemovalStays ==
    [][\A p \in Phones : phone[p].slotB.does = "remove" /\ phone'[p].slotB.does # "remove" =>
          job.rec = phone[p].slotB.by]_vars

\* "connection is allowed only at safe Android setup/authorization waits and cannot
\* rebind the transaction" (installer/PROTOCOL.md): what a record writes, and the image of
\* Android that ends its removal, goes into its own phone.
\* Does not hold: README, section 10.
WritesOwnPhone ==
    [][\A p \in Phones : phone'[p].slotB.does # phone[p].slotB.does => rec[job.rec].home = p]_vars

\* A removal is completed when there is no partition on its phone ("Android partition
\* capacity was not restored", Uninstaller.finish).
\* Does not hold: README, section 10.
RemovedAtEnd ==
    [][\A r \in Records : rec[r].status # "completed" /\ rec'[r].status = "completed"
                          /\ rec[r].method = "uninstall" => phone[rec[r].home].root.is = None]_vars
=============================================================================
