---------------------------- MODULE SessionProofs ----------------------------
(***************************************************************************)
(* Several phones behind one address: what a record writes and what        *)
(* completes it, for any phones, records and restarts.                     *)
(*                                                                         *)
(* The worker looks at the phone before it writes and writes later, when   *)
(* the address may lead elsewhere.  The invariant says what stays of that  *)
(* look: whom it found (Seen), and that the system it saw removed is not   *)
(* back on that phone (Removed).                                           *)
(***************************************************************************)
EXTENDS Session, TLAPS

\* A record is of one phone, reached over its cable or at the address.
Homed ==
    \A r \in Records :
        rec[r].status # None => rec[r].home \in Phones /\ rec[r].serial \in {rec[r].home, Air}

\* Each part of the worker is for one kind of record.
Working ==
    job.pc # None =>
        /\ job.rec \in Records /\ Mine.status \notin {None, "completed"}
        /\ job.pc \in {"recover", "remove", "finish", "finishing"} => Mine.method = "uninstall"
        /\ job.pc \in {"wait", "await"} => Mine.method # "uninstall"

\* The phone last looked at before a write is that of the record.
Seen == job.pc \in {"write", "writing"} => job.seen = Mine.home

\* The system is gone when the removal is about to end.
Removed == job.pc \in {"finish", "finishing"} => phone[Mine.home].root.is # "system"

\* An answer lies there for the worker that was asked.
Asked == job.pc # None /\ request # None => request = job.rec /\ job.answered

SessionInv == TypeOK /\ Homed /\ Working /\ Seen /\ Removed /\ Asked

-----------------------------------------------------------------------------
(* What a step may do *)

Safe == WritesWhereItBelongs /\ InstallsWhereItBelongs /\ RemovesWhereItBelongs /\ ConfirmsItsUser

\* A record keeps what says to which phone it belongs.
Kept == \A r \in Records :
    /\ rec'[r].home = rec[r].home /\ rec'[r].serial = rec[r].serial
    /\ rec'[r].method = rec[r].method /\ rec'[r].confirmed = rec[r].confirmed
    /\ r # job.rec => rec'[r] = rec[r]

LEMMA SaysKeeps ==
    ASSUME TypeOK, job.rec \in Records, NEW stage \in Stages, NEW status \in Statuses, Says(stage, status)
    PROVE  /\ rec' \in [Records -> RecordStates] /\ Kept
           /\ Mine'.stage = stage \/ job'.rec # job.rec
           /\ rec'[job.rec].stage = stage /\ rec'[job.rec].status = status
<1>1. [rec[job.rec] EXCEPT !.stage = stage, !.status = status] \in RecordStates
  <2>1. rec[job.rec] \in RecordStates
    BY DEF TypeOK
  <2> QED
    BY <2>1 DEF RecordStates
<1>2. rec' = [rec EXCEPT ![job.rec] = [rec[job.rec] EXCEPT !.stage = stage, !.status = status]]
  BY DEF Says, TypeOK, RecordStates
<1> QED
  BY <1>1, <1>2 DEF TypeOK, Kept, Mine

\* What is written into phones: an image into one, a partition into the same or another.
PutInto(p, slotB, q, root) == phone' = [phone EXCEPT ![p].slotB = slotB, ![q].root = root]

LEMMA PhonesWritten ==
    ASSUME phone \in [Phones -> PhoneStates], NEW p \in Phones, NEW slotB \in Slots,
           NEW q \in Phones, NEW root \in Roots, PutInto(p, slotB, q, root)
    PROVE  /\ phone' \in [Phones -> PhoneStates]
           /\ phone'[p].slotB = slotB /\ phone'[q].root = root
           /\ \A o \in Phones : /\ o # p => phone'[o].slotB = phone[o].slotB
                                /\ o # q => phone'[o].root = phone[o].root
<1> DEFINE half == [phone EXCEPT ![p] = [phone[p] EXCEPT !.slotB = slotB]]
<1>1. [phone[p] EXCEPT !.slotB = slotB] \in PhoneStates
  BY DEF PhoneStates
<1>2. /\ half \in [Phones -> PhoneStates] /\ half[p].slotB = slotB
      /\ \A o \in Phones : /\ o # p => half[o] = phone[o]
                           /\ half[o].root = phone[o].root
  BY <1>1 DEF PhoneStates
<1>3. phone' = [half EXCEPT ![q] = [half[q] EXCEPT !.root = root]]
  BY <1>1 DEF PutInto, PhoneStates
<1> HIDE DEF half
<1>4. [half[q] EXCEPT !.root = root] \in PhoneStates
  BY <1>2 DEF PhoneStates
<1>5. [half[q] EXCEPT !.root = root].slotB = half[q].slotB
  BY <1>2 DEF PhoneStates
<1>6. [half[q] EXCEPT !.root = root].root = root
  BY <1>2 DEF PhoneStates
<1> QED
  BY <1>2, <1>3, <1>4, <1>5, <1>6

\* A step of the worker that leaves the phones alone.
LEMMA KeptSafe ==
    ASSUME SessionInv, rec' \in [Records -> RecordStates], Kept, UNCHANGED phone,
           \A r \in Records : rec'[r].status = None => rec[r].status = None,
           \A r \in Records : rec[r].status = None => rec'[r].status = None
    PROVE  Homed' /\ WritesWhereItBelongs /\ ConfirmsItsUser
<1>1. Homed'
  BY DEF SessionInv, Homed, Kept
<1>2. WritesWhereItBelongs /\ ConfirmsItsUser
  BY DEF SessionInv, TypeOK, WritesWhereItBelongs, ConfirmsItsUser, Kept
<1> QED
  BY <1>1, <1>2

\* Whom a write reaches belongs to the record, and so does the phone that was looked at.
LEMMA ReachedBelongs ==
    ASSUME SessionInv, Worker("writing"), NEW p \in Phones, Reaches(p)
    PROVE  /\ job.rec \in Records /\ job.seen \in Phones /\ Mine.home = job.seen
           /\ Belongs(job.rec, p) /\ Belongs(job.rec, job.seen)
<1>1. /\ job.rec \in Records /\ job.seen = rec[job.rec].home
      /\ rec[job.rec].home \in Phones /\ rec[job.rec].serial \in {rec[job.rec].home, Air}
  BY DEF SessionInv, Working, Homed, Seen, Worker, Mine, None
<1>2. p # rec[job.rec].home =>
          rec[job.rec].serial = Air /\ rec[job.rec].method # "uninstall" /\ p = air /\ p # job.seen
  BY <1>1, PhonesAssumption DEF Reaches, Line, Mine
<1> QED
  BY <1>1, <1>2 DEF Belongs, Mine

\* A step that writes only into phones that belong to its record.
LEMMA PutSafe ==
    ASSUME SessionInv, NEW p \in Phones, NEW slotB \in Slots, NEW q \in Phones, NEW root \in Roots,
           PutInto(p, slotB, q, root),
           slotB.by = None \/ (slotB.by = job.rec /\ Belongs(job.rec, p)),
           root = phone[q].root \/ (root.by = job.rec /\ Belongs(job.rec, q))
    PROVE  phone' \in [Phones -> PhoneStates] /\ WritesWhereItBelongs
<1>1. /\ phone' \in [Phones -> PhoneStates]
      /\ phone'[p].slotB = slotB /\ phone'[q].root = root
      /\ \A o \in Phones : /\ o # p => phone'[o].slotB = phone[o].slotB
                           /\ o # q => phone'[o].root = phone[o].root
  BY PhonesWritten DEF SessionInv, TypeOK
<1>2. ASSUME NEW o \in Phones PROVE
          /\ phone'[o].slotB.by # None /\ phone'[o].slotB # phone[o].slotB => Belongs(phone'[o].slotB.by, o)
          /\ phone'[o].root # phone[o].root => Belongs(phone'[o].root.by, o)
  BY <1>1 DEF Belongs
<1> QED
  BY <1>1, <1>2 DEF SessionInv, TypeOK, WritesWhereItBelongs

\* Whatever becomes of the phones by themselves.
Drifts ==
    /\ UNCHANGED <<air, rec, job, request, linking>>
    /\ phone' \in [Phones -> PhoneStates]
    /\ \A p \in Phones :
          /\ phone'[p].slotB.by = phone[p].slotB.by /\ phone'[p].slotB.does = phone[p].slotB.does
          /\ phone'[p].root = phone[p].root \/ phone'[p].root.is \in {None, "prepared"}

LEMMA DriftsSafe ==
    ASSUME SessionInv, Drifts
    PROVE  SessionInv' /\ Safe
<1>1. TypeOK'
  BY DEF SessionInv, TypeOK, Drifts
<1>2. WritesWhereItBelongs
  BY DEF SessionInv, TypeOK, WritesWhereItBelongs, Drifts, None
<1>3. (Homed /\ Working /\ Seen /\ Asked)'
  BY DEF SessionInv, Homed, Working, Seen, Asked, Mine, Line, Drifts
<1>4. Removed'
  <2>1. job.pc \in {"finish", "finishing"} => job.rec \in Records /\ Mine.home \in Phones
    BY DEF SessionInv, Working, Homed, Mine, None
  <2> QED
    BY <2>1 DEF SessionInv, Removed, Mine, Drifts, None
<1>5. InstallsWhereItBelongs /\ RemovesWhereItBelongs /\ ConfirmsItsUser
  BY DEF InstallsWhereItBelongs, RemovesWhereItBelongs, ConfirmsItsUser, Drifts
<1> QED
  BY <1>1, <1>2, <1>3, <1>4, <1>5 DEF SessionInv, Safe

LEMMA EndsSafe ==
    ASSUME SessionInv, job.pc # None, NEW status \in {"failed", "cancelled"}, Ends(status),
           UNCHANGED <<phone, air, linking, request>>
    PROVE  SessionInv' /\ Safe
<1>1. /\ job.rec \in Records /\ Mine.stage \in Stages /\ status \in Statuses
      /\ Mine.status # None
  BY DEF SessionInv, Working, TypeOK, RecordStates, Mine, Statuses
<1>2. /\ rec' \in [Records -> RecordStates] /\ Kept
      /\ rec'[job.rec].stage = Mine.stage /\ rec'[job.rec].status = status
  BY <1>1, SaysKeeps DEF Ends, SessionInv
<1>3. job' = Idle /\ job' \in JobStates
  BY DEF Ends, Idle, Job, JobStates
<1>10. TypeOK'
  BY <1>2, <1>3 DEF SessionInv, TypeOK
<1>11. \A r \in Records : rec'[r].status = None <=> rec[r].status = None
  BY <1>1, <1>2 DEF Kept, Mine, None
<1>12. Homed' /\ WritesWhereItBelongs /\ ConfirmsItsUser
  BY <1>1, <1>2, <1>3, <1>11, KeptSafe DEF None, Ends
<1>13. Working'
  BY <1>3 DEF Working, Idle, Job
<1>15. Seen'
  BY <1>3 DEF None, Seen, Idle, Job
<1>16. Removed'
  BY <1>3 DEF None, Removed, Idle, Job
<1>17. Asked'
  BY <1>3 DEF Asked, Idle, Job
<1>18. InstallsWhereItBelongs /\ RemovesWhereItBelongs
  BY <1>2 DEF SessionInv, TypeOK, InstallsWhereItBelongs, RemovesWhereItBelongs, Kept
<1> QED
  BY <1>10, <1>11, <1>12, <1>13, <1>15, <1>16, <1>17, <1>18 DEF SessionInv, Safe

LEMMA GoesDownSafe ==
    ASSUME SessionInv, NEW p \in Phones, GoesDown(p)
    PROVE  SessionInv' /\ Safe
<1>1. phone \in [Phones -> PhoneStates] /\ phone[p] \in PhoneStates
  BY DEF SessionInv, TypeOK
<1>2. /\ phone' \in [Phones -> PhoneStates]
      /\ \A q \in Phones : phone'[q].slotB = phone[q].slotB /\ phone'[q].root = phone[q].root
  BY <1>1 DEF GoesDown, PhoneStates
<1> QED
  BY <1>2, DriftsSafe DEF GoesDown, Drifts

LEMMA RunsOnceSafe ==
    ASSUME SessionInv, NEW p \in Phones, RunsOnce(p)
    PROVE  SessionInv' /\ Safe
<1>1. phone \in [Phones -> PhoneStates] /\ phone[p] \in PhoneStates
  BY DEF SessionInv, TypeOK
<1> DEFINE slotB == [phone[p].slotB EXCEPT !.armed = FALSE]
           root == IF phone[p].slotB.does = "prepare" THEN [by |-> phone[p].slotB.by, is |-> "prepared"]
                   ELSE [by |-> None, is |-> None]
<1>2. /\ slotB \in Slots /\ slotB.by = phone[p].slotB.by /\ slotB.does = phone[p].slotB.does
      /\ root \in Roots /\ root.is \in {None, "prepared"}
  BY <1>1 DEF PhoneStates, Slots, Roots
<1>3. PutInto(p, slotB, p, root)
  BY DEF PutInto, RunsOnce
<1> HIDE DEF slotB, root
<1>4. /\ phone' \in [Phones -> PhoneStates]
      /\ phone'[p].slotB = slotB /\ phone'[p].root = root
      /\ \A o \in Phones : /\ o # p => phone'[o].slotB = phone[o].slotB
                           /\ o # p => phone'[o].root = phone[o].root
  BY <1>1, <1>2, <1>3, PhonesWritten
<1> QED
  BY <1>2, <1>4, DriftsSafe DEF RunsOnce, Drifts

LEMMA BootsSafe ==
    ASSUME SessionInv, NEW p \in Phones, Boots(p)
    PROVE  SessionInv' /\ Safe
<1>1. phone \in [Phones -> PhoneStates] /\ phone[p] \in PhoneStates
  BY DEF SessionInv, TypeOK
<1>2. PICK os \in {"android", "openwrt"}, ready \in BOOLEAN :
         phone' = [phone EXCEPT ![p].os = os, ![p].boot = @ + 1, ![p].ready = ready]
  BY DEF Boots
<1>3. [phone[p] EXCEPT !.os = os, !.boot = @ + 1, !.ready = ready] \in PhoneStates
  <2>1. phone[p].boot + 1 \in 1..MaxBoots
    BY <1>1, BootsAssumption DEF Boots, PhoneStates
  <2> QED
    BY <1>1, <2>1 DEF PhoneStates
<1>4. phone' = [phone EXCEPT ![p] = [phone[p] EXCEPT !.os = os, !.boot = @ + 1, !.ready = ready]]
  BY <1>1, <1>2 DEF PhoneStates
<1>5. /\ phone' \in [Phones -> PhoneStates]
      /\ \A q \in Phones : phone'[q].slotB = phone[q].slotB /\ phone'[q].root = phone[q].root
  BY <1>1, <1>3, <1>4 DEF PhoneStates
<1> QED
  BY <1>5, DriftsSafe DEF Boots, Drifts

LEMMA SetUpSafe ==
    ASSUME SessionInv, NEW p \in Phones, SetUp(p)
    PROVE  SessionInv' /\ Safe
<1>1. phone \in [Phones -> PhoneStates] /\ phone[p] \in PhoneStates
  BY DEF SessionInv, TypeOK
<1>2. [phone[p] EXCEPT !.ready = TRUE] \in PhoneStates
  BY <1>1 DEF PhoneStates
<1>3. phone' = [phone EXCEPT ![p] = [phone[p] EXCEPT !.ready = TRUE]]
  BY <1>1 DEF SetUp, PhoneStates
<1>4. /\ phone' \in [Phones -> PhoneStates]
      /\ \A q \in Phones : phone'[q].slotB = phone[q].slotB /\ phone'[q].root = phone[q].root
  BY <1>1, <1>2, <1>3 DEF PhoneStates
<1> QED
  BY <1>4, DriftsSafe DEF SetUp, Drifts

\* A step that leaves phones and records alone.
LEMMA StaysSafe ==
    ASSUME SessionInv, UNCHANGED <<phone, rec>>
    PROVE  Homed' /\ Safe
<1>1. Homed'
  BY DEF SessionInv, Homed
<1>2. Safe
  BY
  DEF Safe, WritesWhereItBelongs, InstallsWhereItBelongs, RemovesWhereItBelongs, ConfirmsItsUser
<1> QED
  BY <1>1, <1>2

LEMMA MovesSafe ==
    ASSUME SessionInv, NEW p \in Phones, Moves(p)
    PROVE  SessionInv' /\ Safe
<1>1. TypeOK'
  BY DEF SessionInv, TypeOK, Moves
<1>2. Working'
  BY DEF SessionInv, Working, Mine, Moves
<1>4. Seen'
  BY DEF SessionInv, Seen, Mine, Moves
<1>5. Removed' /\ Asked'
  BY DEF SessionInv, Removed, Asked, Mine, Moves
<1> QED
  BY <1>1, <1>2, <1>4, <1>5, StaysSafe DEF SessionInv, Moves

LEMMA PlanSafe ==
    ASSUME SessionInv, NEW r \in Records, NEW s \in Serials, NEW method \in Methods, Plan(r, s, method)
    PROVE  SessionInv' /\ Safe
<1>10. TypeOK'
  <2>1. Line(s) \in Phones /\ phone[Line(s)].boot \in 0..MaxBoots
    BY DEF SessionInv, TypeOK, Plan, Ready, Listed, Line, Serials, PhoneStates
  <2> DEFINE new == [NoRecord EXCEPT !.status = "ready", !.stage = "plan", !.method = method,
                                  !.home = Line(s), !.serial = s, !.boot = phone[Line(s)].boot]
  <2> DEFINE half == [NoRecord EXCEPT !.status = "ready", !.stage = "plan", !.method = method]
  <2>2. NoRecord \in RecordStates
    BY BootsAssumption DEF NoRecord, RecordStates, Statuses, Stages
  <2>3. half \in RecordStates
    BY <2>2 DEF RecordStates, Statuses, Stages
  <2>4. new \in RecordStates
    <3>1. new = [half EXCEPT !.home = Line(s), !.serial = s, !.boot = phone[Line(s)].boot]
      OBVIOUS
    <3> HIDE DEF new, half
    <3> QED
      BY <2>1, <2>3, <3>1 DEF RecordStates
  <2>5. rec' = [rec EXCEPT ![r] = new]
    BY DEF Plan
  <2> HIDE DEF new, half
  <2> QED
    BY <2>4, <2>5 DEF SessionInv, TypeOK, Plan
<1>11. WritesWhereItBelongs
  BY PhonesAssumption DEF SessionInv, None, WritesWhereItBelongs, Plan, NoRecord
<1>12. Homed'
  BY DEF SessionInv, TypeOK, Homed, Plan, Ready, Listed, Line, Serials, NoRecord
<1>13. Working'
  BY DEF Working, Plan, Free
<1>15. Seen'
  BY DEF None, Seen, Plan, Free
<1>16. Removed'
  BY DEF None, Removed, Plan, Free
<1>17. Asked'
  BY DEF Asked, Plan, Free
<1>18. InstallsWhereItBelongs /\ RemovesWhereItBelongs
  BY DEF InstallsWhereItBelongs, RemovesWhereItBelongs, Plan
<1>19. ConfirmsItsUser
  BY DEF ConfirmsItsUser, Plan
<1> QED
  BY <1>10, <1>11, <1>12, <1>13, <1>15, <1>16, <1>17, <1>18, <1>19 DEF SessionInv, Safe

LEMMA StartSafe ==
    ASSUME SessionInv, NEW r \in Records, Start(r)
    PROVE  SessionInv' /\ Safe
<1>1. TypeOK'
  BY DEF SessionInv, TypeOK, JobStates, Start, Job
<1>2. Working'
  BY DEF Working, Mine, Start, Job, None
<1>4. Seen'
  BY DEF Seen, Start, Job
<1>5. Removed' /\ Asked'
  BY DEF Removed, Asked, Start, Job
<1> QED
  BY <1>1, <1>2, <1>4, <1>5, StaysSafe DEF SessionInv, Start

LEMMA RebindSafe ==
    ASSUME SessionInv, NEW r \in Records, NEW s \in Serials, Rebind(r, s)
    PROVE  SessionInv' /\ Safe
<1>10. TypeOK'
  BY DEF SessionInv, TypeOK, RecordStates, Working, Rebind
<1>11. WritesWhereItBelongs
  BY DEF SessionInv, WritesWhereItBelongs, Rebind
<1>12. Homed'
  BY DEF SessionInv, Homed, Rebind, Line
<1>13. Working'
  BY DEF Working, Rebind, Free
<1>15. Seen'
  BY DEF None, Seen, Rebind, Free
<1>16. Removed'
  BY DEF None, Removed, Rebind, Free
<1>17. Asked'
  BY DEF Asked, Rebind, Free
<1>18. InstallsWhereItBelongs /\ RemovesWhereItBelongs
  BY DEF InstallsWhereItBelongs, RemovesWhereItBelongs, Rebind
<1>19. ConfirmsItsUser
  BY DEF ConfirmsItsUser, Rebind
<1> QED
  BY <1>10, <1>11, <1>12, <1>13, <1>15, <1>16, <1>17, <1>18, <1>19 DEF SessionInv, Safe

LEMMA CancelSafe ==
    ASSUME SessionInv, Cancel
    PROVE  SessionInv' /\ Safe
<1>1. TypeOK'
  BY DEF SessionInv, TypeOK, JobStates, Cancel, Alive, None
<1>2. Working'
  BY DEF SessionInv, Working, Mine, Cancel
<1>4. Seen'
  BY DEF SessionInv, Seen, Mine, Line, Cancel
<1>5. Removed' /\ Asked'
  BY DEF SessionInv, Removed, Asked, Mine, Cancel
<1> QED
  BY <1>1, <1>2, <1>4, <1>5, StaysSafe DEF SessionInv, Cancel

LEMMA AnswerSafe ==
    ASSUME SessionInv, Answer
    PROVE  SessionInv' /\ Safe
<1>1. TypeOK'
  BY DEF SessionInv, TypeOK, JobStates, Answer, Alive, Mine, None
<1>2. Working'
  BY DEF SessionInv, Working, Answer, Mine
<1>4. Seen'
  BY DEF SessionInv, Seen, Mine, Line, Answer
<1>5. Removed' /\ Asked'
  BY DEF SessionInv, Removed, Asked, Answer, Mine
<1> QED
  BY <1>1, <1>2, <1>4, <1>5, StaysSafe DEF SessionInv, Answer

LEMMA ConnectSafe ==
    ASSUME SessionInv, Connect
    PROVE  SessionInv' /\ Safe
<1>1. TypeOK'
  BY DEF SessionInv, TypeOK, Connect
<1>2. Working'
  BY DEF SessionInv, Working, Mine, Connect
<1>4. Seen'
  BY DEF SessionInv, Seen, Mine, Line, Connect
<1>5. Removed' /\ Asked'
  BY DEF SessionInv, Removed, Asked, Mine, Connect
<1> QED
  BY <1>1, <1>2, <1>4, <1>5, StaysSafe DEF SessionInv, Connect

LEMMA ConnectedSafe ==
    ASSUME SessionInv, Connected
    PROVE  SessionInv' /\ Safe
<1>1. TypeOK'
  BY DEF SessionInv, TypeOK, JobStates, Connected, Line, None
<1>2. Working'
  BY DEF SessionInv, Working, Mine, Connected
<1>4. Seen'
  BY DEF SessionInv, Seen, Mine, Connected, None
<1>5. Removed' /\ Asked'
  BY DEF SessionInv, Removed, Asked, Mine, Connected
<1> QED
  BY <1>1, <1>2, <1>4, <1>5, StaysSafe DEF SessionInv, Connected

LEMMA DisconnectSafe ==
    ASSUME SessionInv, Disconnect
    PROVE  SessionInv' /\ Safe
<1>1. TypeOK'
  BY DEF SessionInv, TypeOK, Disconnect
<1>2. Working'
  BY DEF Working, Disconnect, Free
<1>4. Seen'
  BY DEF Seen, Disconnect, Free, None
<1>5. Removed' /\ Asked'
  BY DEF Removed, Asked, Disconnect, Free, None
<1> QED
  BY <1>1, <1>2, <1>4, <1>5, StaysSafe DEF SessionInv, Disconnect

LEMMA LockBusySafe ==
    ASSUME SessionInv, LockBusy
    PROVE  SessionInv' /\ Safe
<1> QED
  BY EndsSafe DEF LockBusy, Worker, Fails, Others, None

LEMMA DecideSafe ==
    ASSUME SessionInv, Decide
    PROVE  SessionInv' /\ Safe
<1>3. job.rec \in Records /\ job.pc # None
  BY DEF SessionInv, Working, Decide, Worker, None
<1>4. rec' \in [Records -> RecordStates] /\ Kept
  BY <1>3, SaysKeeps DEF SessionInv, TypeOK, Decide, Worker, Goes, Others, Statuses, Stages,
     Waits, Kept
<1>5. job' \in JobStates
  BY DEF SessionInv, TypeOK, JobStates, Decide, Goes
<1>10. TypeOK'
  BY <1>4, <1>5 DEF SessionInv, TypeOK, Decide, Others
<1>11. \A r \in Records : rec'[r].status = None <=> rec[r].status = None
  BY DEF SessionInv, TypeOK, RecordStates, Decide, Says
<1>12. Homed' /\ WritesWhereItBelongs /\ ConfirmsItsUser
  BY <1>3, <1>4, <1>5, <1>11, KeptSafe DEF Others, Decide
<1>13. Working'
  <2>1. CASE Mine.method = "uninstall"
    <3>1. PICK pc \in {"remove", "recover", "check"} :
              job' = [job EXCEPT !.pc = pc] /\ (pc = "remove" => Mine.mark = "done")
      BY <2>1 DEF Decide, Goes
    <3>2. job'.pc = pc /\ job'.rec = job.rec /\ UNCHANGED rec
      BY <2>1, <3>1 DEF Decide
    <3> QED
      BY <2>1, <3>1, <3>2, <1>3 DEF SessionInv, Working, Mine
  <2>2. CASE Mine.method # "uninstall"
    BY <2>2, <1>3, <1>4
    DEF SessionInv, TypeOK, RecordStates, JobStates, Working, Mine, Homed, Decide, 
                            Worker, Goes, Says, Others, Waits, Kept, None
  <2> QED
    BY <2>1, <2>2
<1>15. Seen'
  BY DEF SessionInv, TypeOK, JobStates, Seen, Decide, Goes
<1>16. Removed'
  BY DEF SessionInv, TypeOK, JobStates, Removed, Decide, Goes
<1>17. Asked'
  BY DEF SessionInv, TypeOK, JobStates, None, Asked, Decide, Worker, Goes
<1>18. InstallsWhereItBelongs /\ RemovesWhereItBelongs
  BY <1>4 DEF RecordStates, InstallsWhereItBelongs, RemovesWhereItBelongs, Decide, Says
<1> QED
  BY <1>10, <1>11, <1>12, <1>13, <1>15, <1>16, <1>17, <1>18 DEF SessionInv, Safe

LEMMA CheckSafe ==
    ASSUME SessionInv, Check
    PROVE  SessionInv' /\ Safe
<1>1. CASE Fails
  BY <1>1, EndsSafe DEF Check, Worker, Fails, Pauses, Others, None
<1>2. SUFFICES ASSUME ~(Fails) PROVE SessionInv' /\ Safe
  BY <1>1
<1>3. job.rec \in Records /\ job.pc # None
  BY DEF SessionInv, Working, Check, Worker, None
<1>4. rec' \in [Records -> RecordStates] /\ Kept
  BY <1>2, <1>3, SaysKeeps
  DEF SessionInv, TypeOK, Check, Worker, Others, Line, Statuses, Stages, Waits, Kept
<1>5. /\ job' \in JobStates /\ job'.pc = "write" /\ job'.rec = job.rec /\ job'.seen = Mine.home
      /\ job'.answered = job.answered /\ UNCHANGED <<phone, air, linking, request>>
  <2>1. Mine.home \in Phones /\ job \in JobStates
    BY <1>3 DEF SessionInv, TypeOK, Homed, Working, Mine
  <2> QED
    BY <1>2, <2>1 DEF JobStates, Check, Looked, Others
<1>10. TypeOK'
  BY <1>2, <1>4, <1>5 DEF SessionInv, TypeOK, Check, Others
<1>11. \A r \in Records : rec'[r].status = None <=> rec[r].status = None
  BY <1>2 DEF SessionInv, TypeOK, RecordStates, Check, Says
<1>12. Homed' /\ WritesWhereItBelongs /\ ConfirmsItsUser
  BY <1>2, <1>3, <1>4, <1>5, <1>11, KeptSafe DEF Others, Check
<1>13. Working'
  BY <1>2, <1>3, <1>4, <1>5 DEF SessionInv, TypeOK, RecordStates, Working, Mine, Check, Says, None
<1>15. Seen'
  BY <1>3, <1>4, <1>5 DEF Seen, Mine, Kept
<1>16. Removed'
  BY <1>5 DEF Removed
<1>17. Asked'
  BY <1>3, <1>5 DEF SessionInv, Asked
<1>18. InstallsWhereItBelongs /\ RemovesWhereItBelongs
  BY RecordsAssumption, MethodsAssumption, BootsAssumption, <1>2, <1>5 DEF SessionInv, TypeOK,
     RecordStates, JobStates, Working, InstallsWhereItBelongs, RemovesWhereItBelongs, Check,
     Line, Says
<1> QED
  BY <1>10, <1>11, <1>12, <1>13, <1>15, <1>16, <1>17, <1>18 DEF SessionInv, Safe

LEMMA RecoverArmSafe ==
    ASSUME SessionInv, RecoverArm
    PROVE  SessionInv' /\ Safe
<1>1. CASE Fails \/ Pauses
  BY <1>1, EndsSafe DEF RecoverArm, Worker, Fails, Pauses, Others, None
<1>2. SUFFICES ASSUME ~(Fails \/ Pauses) PROVE SessionInv' /\ Safe
  BY <1>1
<1>3. job.rec \in Records /\ job.pc # None
  BY DEF SessionInv, Working, RecoverArm, Worker, None
<1>4. rec' \in [Records -> RecordStates] /\ Kept
  <2>1. CASE ~Ready(Mine.serial)
    BY <1>2, <1>3, <2>1, SaysKeeps
    DEF SessionInv, TypeOK, RecoverArm, Worker, Others, Statuses, Stages, Waits, Kept
  <2>2. CASE Ready(Mine.serial)
    <3>1. rec[job.rec] \in RecordStates
      BY <1>3 DEF SessionInv, TypeOK
    <3>2. PICK mark \in {"done", None} : rec' = [rec EXCEPT ![job.rec].mark = mark]
      BY <1>2, <2>2 DEF RecoverArm
    <3>3. [rec[job.rec] EXCEPT !.mark = mark] \in RecordStates
      BY <3>1 DEF RecordStates
    <3>4. rec' = [rec EXCEPT ![job.rec] = [rec[job.rec] EXCEPT !.mark = mark]]
      BY <3>1, <3>2 DEF RecordStates
    <3> QED
      BY <3>1, <3>3, <3>4 DEF SessionInv, TypeOK, RecordStates, Kept
  <2> QED
    BY <2>1, <2>2
<1>5. job' \in JobStates
  BY <1>2 DEF SessionInv, TypeOK, JobStates, RecoverArm, Goes
<1>10. TypeOK'
  BY <1>2, <1>4, <1>5 DEF SessionInv, TypeOK, RecoverArm, Others
<1>11. \A r \in Records : rec'[r].status = None <=> rec[r].status = None
  BY <1>2, <1>4 DEF RecordStates, RecoverArm, Says
<1>12. Homed' /\ WritesWhereItBelongs /\ ConfirmsItsUser
  BY <1>2, <1>3, <1>4, <1>5, <1>11, KeptSafe DEF Others, RecoverArm
<1>13. Working'
  BY PhonesAssumption, <1>2 DEF SessionInv, TypeOK, RecordStates, JobStates, Working, Mine,
     None, RecoverArm, Worker, Goes, Says
<1>15. Seen'
  BY <1>2 DEF SessionInv, TypeOK, JobStates, Seen, RecoverArm, Worker, Goes
<1>16. Removed'
  BY <1>2 DEF SessionInv, TypeOK, JobStates, Removed, RecoverArm, Worker, Goes
<1>17. Asked'
  BY <1>2, <1>3 DEF SessionInv, TypeOK, JobStates, Asked, RecoverArm, Goes
<1>18. InstallsWhereItBelongs /\ RemovesWhereItBelongs
  BY PhonesAssumption, RecordsAssumption, MethodsAssumption, BootsAssumption, <1>2, <1>3, <1>4,
     <1>5 DEF SessionInv, TypeOK, RecordStates, JobStates, Working, Homed, None,
     InstallsWhereItBelongs, RemovesWhereItBelongs, Kept, RecoverArm, Worker, Says
<1> QED
  BY <1>10, <1>11, <1>12, <1>13, <1>15, <1>16, <1>17, <1>18 DEF SessionInv, Safe

LEMMA BeginWriteSafe ==
    ASSUME SessionInv, BeginWrite
    PROVE  SessionInv' /\ Safe
<1>1. CASE Fails \/ Pauses
  BY <1>1, EndsSafe DEF BeginWrite, Worker, Fails, Pauses, Others, None
<1>2. SUFFICES ASSUME ~(Fails \/ Pauses) PROVE SessionInv' /\ Safe
  BY <1>1
<1> DEFINE new == [rec[job.rec] EXCEPT !.mark = "started", !.legacy = Mine.method = "stages"]
<1>3. /\ job.rec \in Records /\ job.pc = "write" /\ Mine.status \notin {None, "completed"}
      /\ rec[job.rec] \in RecordStates /\ job \in JobStates
  BY DEF SessionInv, Working, TypeOK, BeginWrite, Worker, None
<1>6. new \in RecordStates
  BY <1>3 DEF RecordStates
<1>7. rec' = [rec EXCEPT ![job.rec] = new]
  BY <1>2, <1>3 DEF BeginWrite, RecordStates
<1>8. /\ rec' \in [Records -> RecordStates]
      /\ \A r \in Records : /\ rec'[r].home = rec[r].home /\ rec'[r].serial = rec[r].serial
                            /\ rec'[r].method = rec[r].method /\ rec'[r].status = rec[r].status
                            /\ rec'[r].stage = rec[r].stage /\ rec'[r].confirmed = rec[r].confirmed
                            /\ r # job.rec => rec'[r] = rec[r]
  BY <1>3, <1>6, <1>7 DEF SessionInv, TypeOK, RecordStates
<1>9. /\ job' \in JobStates /\ job'.rec = job.rec /\ job'.pc = "writing" /\ job'.seen = job.seen
      /\ job'.answered = job.answered /\ UNCHANGED <<phone, air, linking, request>>
  BY <1>2, <1>3 DEF BeginWrite, Goes, JobStates, Others
<1> HIDE DEF new
<1>10. TypeOK'
  BY <1>8, <1>9 DEF SessionInv, TypeOK
<1>11. WritesWhereItBelongs
  BY <1>8, <1>9 DEF SessionInv, TypeOK, PhoneStates, Slots, Roots, WritesWhereItBelongs
<1>12. Homed'
  BY <1>8 DEF SessionInv, Homed, Mine
<1>13. Working'
  BY <1>3, <1>8, <1>9 DEF Working, Mine
<1>15. Seen'
  BY <1>3, <1>8, <1>9 DEF SessionInv, Seen, Mine
<1>16. Removed'
  BY <1>9 DEF Removed
<1>17. Asked'
  BY <1>3, <1>9 DEF SessionInv, Asked, None
<1>18. InstallsWhereItBelongs /\ RemovesWhereItBelongs /\ ConfirmsItsUser
  BY <1>8 DEF SessionInv, TypeOK, InstallsWhereItBelongs, RemovesWhereItBelongs, ConfirmsItsUser
<1> QED
  BY <1>10, <1>11, <1>12, <1>13, <1>15, <1>16, <1>17, <1>18 DEF SessionInv, Safe

LEMMA WriteLandsSafe ==
    ASSUME SessionInv, WriteLands
    PROVE  SessionInv' /\ Safe
<1>1. /\ job.rec \in Records /\ rec[job.rec] \in RecordStates /\ job \in JobStates
      /\ Mine.home \in Phones /\ Mine.status \notin {None, "completed"} /\ job.pc # None
  BY DEF SessionInv, TypeOK, Working, Homed, Mine, WriteLands, Worker, None
<1>2. PICK mark \in {"staged", "done", "committed"},
           stage \in {"android_boot", "uninstall_offline", "openwrt_boot"},
           status \in Waits, pc \in {"wait", "remove", "await"} :
           /\ After(mark, stage, status, pc)
           /\ pc = "remove" <=> Mine.method = "uninstall"
  BY DEF WriteLands, Does, FirstStage, Waits
<1> DEFINE staged == IF mark = "staged" THEN phone[Mine.home].boot ELSE rec[job.rec].staged
           new == [rec[job.rec] EXCEPT !.mark = mark, !.stage = stage, !.status = status, !.staged = staged]
<1>3. /\ rec' \in [Records -> RecordStates] /\ Kept
      /\ rec'[job.rec].status = status
  <2>1. staged \in 0..MaxBoots
    BY <1>1 DEF SessionInv, TypeOK, RecordStates, PhoneStates, Mine
  <2> HIDE DEF staged
  <2>2. new \in RecordStates
    BY <1>1, <2>1 DEF RecordStates, Statuses, Stages, Waits
  <2>3. rec' = [rec EXCEPT ![job.rec] = new]
    BY <1>1, <1>2 DEF After, RecordStates, staged
  <2>4. /\ new.home = rec[job.rec].home /\ new.serial = rec[job.rec].serial
        /\ new.method = rec[job.rec].method /\ new.confirmed = rec[job.rec].confirmed
        /\ new.status = status
    BY <1>1 DEF RecordStates
  <2> HIDE DEF new
  <2> QED
    BY <1>1, <2>2, <2>3, <2>4 DEF SessionInv, TypeOK, Kept
<1>4. /\ job' \in JobStates /\ job'.pc = pc /\ job'.rec = job.rec /\ job'.answered = job.answered
      /\ UNCHANGED <<air, request, linking>>
  BY <1>1, <1>2 DEF After, Goes, JobStates, WriteLands
<1> HIDE DEF new, staged
<1>5. phone' \in [Phones -> PhoneStates] /\ WritesWhereItBelongs
  <2>1. PICK p \in Phones : Reaches(p) /\ Written(p)
    BY DEF WriteLands
  <2> DEFINE slotB == [by |-> job.rec, does |-> Does, armed |-> TRUE]
  <2>2. slotB \in Slots /\ slotB.by = job.rec
    BY <1>1 DEF Slots, Does
  <2>3. /\ job.seen \in Phones /\ Belongs(job.rec, p) /\ Belongs(job.rec, job.seen)
    BY <2>1, ReachedBelongs DEF WriteLands
  <2>4. CASE phone' = WithImage(p)
    <3>1. phone[p].root \in Roots /\ PutInto(p, slotB, p, phone[p].root)
      BY <2>4 DEF SessionInv, TypeOK, PhoneStates, WithImage, PutInto
    <3> HIDE DEF slotB
    <3> QED
      BY <2>2, <2>3, <3>1, PutSafe
  <2>5. ASSUME NEW q \in {job.seen, p},
               phone' = [WithImage(p) EXCEPT ![q].root = [by |-> job.rec, is |-> "system"]]
        PROVE  phone' \in [Phones -> PhoneStates] /\ WritesWhereItBelongs
    <3> DEFINE root == [by |-> job.rec, is |-> "system"]
    <3>1. q \in Phones /\ Belongs(job.rec, q) /\ root \in Roots /\ root.by = job.rec
      BY <1>1, <2>3 DEF Roots
    <3>2. PutInto(p, slotB, q, root)
      BY <2>5 DEF WithImage, PutInto
    <3> HIDE DEF slotB, root
    <3> QED
      BY <2>2, <2>3, <3>1, <3>2, PutSafe
  <2> QED
    BY <2>1, <2>4, <2>5 DEF Written
<1>6. TypeOK'
  BY <1>3, <1>4, <1>5 DEF SessionInv, TypeOK
<1>7. Homed'
  BY <1>1, <1>3 DEF SessionInv, Homed, Kept, Mine
<1>8. Working'
  BY <1>1, <1>2, <1>3, <1>4 DEF Working, Mine, Kept, Waits, None
<1>9. Seen' /\ Removed'
  BY <1>2, <1>4 DEF Seen, Removed
<1>10. Asked'
  BY <1>1, <1>4 DEF SessionInv, Asked
<1>11. InstallsWhereItBelongs /\ RemovesWhereItBelongs /\ ConfirmsItsUser
  BY <1>3 DEF SessionInv, TypeOK, InstallsWhereItBelongs, RemovesWhereItBelongs, ConfirmsItsUser,
     Kept, Waits
<1> QED
  BY <1>5, <1>6, <1>7, <1>8, <1>9, <1>10, <1>11 DEF SessionInv, Safe

\* The worker stops while it writes, whatever the phones have of it by then.
LEMMA StopsSafe ==
    ASSUME SessionInv, job.pc # None, NEW status \in {"failed", "cancelled"}, Ends(status),
           UNCHANGED <<air, linking, request>>,
           phone' \in [Phones -> PhoneStates], WritesWhereItBelongs
    PROVE  SessionInv' /\ Safe
<1>1. /\ job.rec \in Records /\ Mine.stage \in Stages /\ status \in Statuses
      /\ Mine.status # None
  BY DEF SessionInv, Working, TypeOK, RecordStates, Mine, Statuses
<1>2. /\ rec' \in [Records -> RecordStates] /\ Kept /\ rec'[job.rec].status = status
  BY <1>1, SaysKeeps DEF Ends, SessionInv
<1>3. job' = Idle /\ job' \in JobStates
  BY DEF Ends, Idle, Job, JobStates
<1>4. TypeOK'
  BY <1>2, <1>3 DEF SessionInv, TypeOK
<1>5. Homed'
  BY <1>1, <1>2 DEF SessionInv, Homed, Kept, Mine, None
<1>6. Working' /\ Seen' /\ Removed' /\ Asked'
  BY <1>3 DEF Working, Seen, Removed, Asked, Idle, Job, None
<1>7. InstallsWhereItBelongs /\ RemovesWhereItBelongs /\ ConfirmsItsUser
  BY <1>2 DEF SessionInv, TypeOK, InstallsWhereItBelongs, RemovesWhereItBelongs, ConfirmsItsUser,
     Kept
<1> QED
  BY <1>4, <1>5, <1>6, <1>7 DEF SessionInv, Safe

LEMMA WriteFailsSafe ==
    ASSUME SessionInv, WriteFails
    PROVE  SessionInv' /\ Safe
<1>1. job.pc # None /\ Ends("failed") /\ UNCHANGED <<air, linking, request>>
  BY DEF WriteFails, Worker, None
<1>2. CASE UNCHANGED phone
  BY <1>1, <1>2, EndsSafe
<1>3. ASSUME NEW p \in Phones, NEW slotB \in Slots, slotB.by = job.rec, Reaches(p),
             phone' = [phone EXCEPT ![p].slotB = slotB]
      PROVE  phone' \in [Phones -> PhoneStates] /\ WritesWhereItBelongs
  <2>1. phone[p].root \in Roots /\ PutInto(p, slotB, p, phone[p].root)
    BY <1>3 DEF SessionInv, TypeOK, PhoneStates, PutInto
  <2>2. Belongs(job.rec, p)
    BY <1>3, ReachedBelongs DEF WriteFails
  <2> QED
    BY <1>3, <2>1, <2>2, PutSafe
<1>4. ASSUME NEW p \in Phones, NEW half \in BOOLEAN, Reaches(p),
             phone' = IF half THEN [phone EXCEPT ![p].slotB = [Empty EXCEPT !.by = job.rec]]
                      ELSE WithImage(p)
      PROVE  phone' \in [Phones -> PhoneStates] /\ WritesWhereItBelongs
  <2>1. job.rec \in Records
    BY <1>4, ReachedBelongs DEF WriteFails
  <2> DEFINE slotB == IF half THEN [Empty EXCEPT !.by = job.rec]
                      ELSE [by |-> job.rec, does |-> Does, armed |-> TRUE]
  <2>2. slotB \in Slots /\ slotB.by = job.rec
    BY <2>1 DEF Slots, Empty, Does
  <2>3. phone' = [phone EXCEPT ![p].slotB = slotB]
    BY <1>4 DEF WithImage
  <2> HIDE DEF slotB
  <2> QED
    BY <1>3, <1>4, <2>2, <2>3
<1> QED
  BY <1>1, <1>2, <1>4, StopsSafe DEF WriteFails

LEMMA WaitAndroidSafe ==
    ASSUME SessionInv, WaitAndroid
    PROVE  SessionInv' /\ Safe
<1>1. CASE Fails \/ Pauses
  BY <1>1, EndsSafe DEF WaitAndroid, Worker, Fails, Pauses, Others, None
<1>2. SUFFICES ASSUME ~(Fails \/ Pauses) PROVE SessionInv' /\ Safe
  BY <1>1
<1>3. job.rec \in Records /\ job.pc # None
  BY DEF SessionInv, Working, WaitAndroid, Worker, None
<1>4. rec' \in [Records -> RecordStates] /\ Kept
  BY <1>2, <1>3, SaysKeeps DEF SessionInv, TypeOK, WaitAndroid, Worker, Others, Statuses,
     Stages, Waits, Kept
<1>5. /\ job' \in JobStates /\ job'.rec = job.rec /\ job'.answered = job.answered
      /\ UNCHANGED job \/ (job'.pc = "write" /\ job'.seen = Mine.home)
      /\ UNCHANGED <<phone, air, linking, request>>
  <2>1. Mine.home \in Phones /\ job \in JobStates
    BY <1>3 DEF SessionInv, TypeOK, Homed, Working, Mine
  <2> QED
    BY <1>2, <2>1 DEF JobStates, WaitAndroid, Looked, Others
<1>10. TypeOK'
  BY <1>2, <1>4, <1>5 DEF SessionInv, TypeOK, WaitAndroid, Others
<1>11. \A r \in Records : rec'[r].status = None <=> rec[r].status = None
  BY <1>2, <1>4 DEF RecordStates, WaitAndroid, Says
<1>12. Homed' /\ WritesWhereItBelongs /\ ConfirmsItsUser
  BY <1>2, <1>3, <1>4, <1>5, <1>11, KeptSafe DEF Others, WaitAndroid
<1>13. Working'
  BY <1>2, <1>3, <1>4, <1>5
  DEF SessionInv, TypeOK, RecordStates, Working, Mine, WaitAndroid, Worker, Says, Kept, Waits, None
<1>15. Seen'
  BY <1>2, <1>3, <1>4, <1>5 DEF Seen, Mine, Kept, WaitAndroid, Worker
<1>16. Removed'
  BY <1>2, <1>5 DEF Removed, WaitAndroid, Worker
<1>17. Asked'
  BY <1>3, <1>5 DEF SessionInv, Asked
<1>18. InstallsWhereItBelongs /\ RemovesWhereItBelongs
  BY <1>2 DEF SessionInv, TypeOK, RecordStates, JobStates, Working, None,
     InstallsWhereItBelongs, RemovesWhereItBelongs, WaitAndroid, Worker, Says
<1> QED
  BY <1>10, <1>11, <1>12, <1>13, <1>15, <1>16, <1>17, <1>18 DEF SessionInv, Safe

LEMMA TakeAnswerSafe ==
    ASSUME SessionInv, TakeAnswer
    PROVE  SessionInv' /\ Safe
<1>10. TypeOK'
  <2>1. job.rec \in Records
    BY DEF SessionInv, Working, TakeAnswer, Worker, None
  <2>2. rec[job.rec] \in RecordStates
    BY <2>1 DEF SessionInv, TypeOK
  <2> DEFINE new == [rec[job.rec] EXCEPT !.confirmed = TRUE, !.stage = "openwrt_boot", !.status = "waiting_device"]
  <2>3. new \in RecordStates
    BY <2>2 DEF RecordStates, Statuses, Stages, Waits
  <2>4. rec' = [rec EXCEPT ![job.rec] = new]
    BY <2>2 DEF TakeAnswer, RecordStates
  <2> HIDE DEF new
  <2> QED
    BY <2>3, <2>4 DEF SessionInv, TypeOK, TakeAnswer, Others, None
<1>11. WritesWhereItBelongs
  BY DEF SessionInv, TypeOK, PhoneStates, Slots, Roots, WritesWhereItBelongs, Seen,
     TakeAnswer, Worker, Others
<1>12. Homed'
  BY DEF SessionInv, TypeOK, Working, Mine, Homed, None, TakeAnswer, Worker
<1>13. Working'
  BY DEF SessionInv, TypeOK, Working, Mine, None, TakeAnswer
<1>15. Seen'
  BY DEF Seen, TakeAnswer, Worker
<1>16. Removed'
  BY DEF Removed, TakeAnswer, Worker
<1>17. Asked'
  BY DEF Asked, TakeAnswer
<1>18. InstallsWhereItBelongs /\ RemovesWhereItBelongs
  BY DEF InstallsWhereItBelongs, RemovesWhereItBelongs, TakeAnswer
<1>19. ConfirmsItsUser
  BY RecordsAssumption DEF SessionInv, TypeOK, None, Asked, ConfirmsItsUser, TakeAnswer, Worker
<1> QED
  BY <1>10, <1>11, <1>12, <1>13, <1>15, <1>16, <1>17, <1>18, <1>19 DEF SessionInv, Safe

LEMMA AwaitOpenwrtSafe ==
    ASSUME SessionInv, AwaitOpenwrt
    PROVE  SessionInv' /\ Safe
<1>1. CASE Pauses
  BY <1>1, EndsSafe DEF AwaitOpenwrt, Worker, Fails, Pauses, Others, None
<1>2. SUFFICES ASSUME ~(Pauses) PROVE SessionInv' /\ Safe
  BY <1>1
<1>3. job.rec \in Records /\ job.pc # None
  BY DEF SessionInv, Working, AwaitOpenwrt, Worker, None
<1>4. rec' \in [Records -> RecordStates] /\ Kept
  BY <1>2, <1>3, SaysKeeps DEF SessionInv, TypeOK, AwaitOpenwrt, Idle, Job, Worker, Others,
     OwnAnswers, Statuses, Stages, Waits, Kept
<1>5. job' \in JobStates
  <2>1. job \in JobStates /\ Idle \in JobStates
    BY DEF SessionInv, TypeOK, JobStates, Idle, Job
  <2> QED
    BY <1>2, <2>1 DEF AwaitOpenwrt
<1>10. TypeOK'
  BY <1>2, <1>4, <1>5 DEF SessionInv, TypeOK, AwaitOpenwrt, Others
<1>11. \A r \in Records : rec'[r].status = None <=> rec[r].status = None
  BY <1>2, <1>4 DEF RecordStates, AwaitOpenwrt, Says
<1>12. Homed' /\ WritesWhereItBelongs /\ ConfirmsItsUser
  BY <1>2, <1>3, <1>4, <1>5, <1>11, KeptSafe DEF Others, AwaitOpenwrt
<1>13. Working'
  BY <1>2 DEF SessionInv, TypeOK, RecordStates, Working, Mine, AwaitOpenwrt, Idle, Job, Says
<1>15. Seen'
  BY <1>2 DEF None, Seen, AwaitOpenwrt, Idle, Job, Worker
<1>16. Removed'
  BY <1>2 DEF None, Removed, AwaitOpenwrt, Idle, Job, Worker
<1>17. Asked'
  BY <1>2 DEF Asked, AwaitOpenwrt
<1>18. InstallsWhereItBelongs /\ RemovesWhereItBelongs
  BY BootsAssumption, <1>2, <1>3 DEF SessionInv, TypeOK, RecordStates, JobStates,
     InstallsWhereItBelongs, RemovesWhereItBelongs, AwaitOpenwrt, Says
<1> QED
  BY <1>10, <1>11, <1>12, <1>13, <1>15, <1>16, <1>17, <1>18 DEF SessionInv, Safe

LEMMA AwaitRemovalSafe ==
    ASSUME SessionInv, AwaitRemoval
    PROVE  SessionInv' /\ Safe
<1>1. CASE Fails \/ Pauses
  BY <1>1, EndsSafe DEF AwaitRemoval, Worker, Fails, Pauses, Others, None
<1>2. SUFFICES ASSUME ~(Fails \/ Pauses) PROVE SessionInv' /\ Safe
  BY <1>1
<1>3. job.rec \in Records /\ job.pc # None
  BY DEF SessionInv, Working, AwaitRemoval, Worker, None
<1>4. rec' \in [Records -> RecordStates] /\ Kept
  BY <1>2, <1>3, SaysKeeps
  DEF SessionInv, TypeOK, AwaitRemoval, Worker, Others, Goes, Statuses, Stages, Waits, Kept
<1>5. job' \in JobStates
  BY <1>2 DEF SessionInv, TypeOK, JobStates, AwaitRemoval, Goes
<1>10. TypeOK'
  BY <1>2, <1>4, <1>5 DEF SessionInv, TypeOK, AwaitRemoval, Others
<1>11. \A r \in Records : rec'[r].status = None <=> rec[r].status = None
  BY <1>2, <1>4 DEF RecordStates, AwaitRemoval, Says
<1>12. Homed' /\ WritesWhereItBelongs /\ ConfirmsItsUser
  BY <1>2, <1>3, <1>4, <1>5, <1>11, KeptSafe DEF Others, AwaitRemoval
<1>13. Working'
  BY <1>2, <1>3 DEF SessionInv, TypeOK, RecordStates, JobStates, Working, Mine, AwaitRemoval,
     Worker, Goes, Says
<1>15. Seen'
  BY <1>2 DEF SessionInv, TypeOK, JobStates, Seen, AwaitRemoval, Worker, Goes
<1>16. Removed'
  BY <1>2 DEF SessionInv, TypeOK, RecordStates, JobStates, Mine, None, Removed, AwaitRemoval,
     Worker, Others, Goes, Says
<1>17. Asked'
  BY <1>2, <1>3 DEF SessionInv, TypeOK, JobStates, Asked, AwaitRemoval, Goes
<1>18. InstallsWhereItBelongs /\ RemovesWhereItBelongs
  BY RecordsAssumption, MethodsAssumption, BootsAssumption, <1>2, <1>3 DEF SessionInv, TypeOK,
     RecordStates, JobStates, None, InstallsWhereItBelongs, RemovesWhereItBelongs,
     AwaitRemoval, Says
<1> QED
  BY <1>10, <1>11, <1>12, <1>13, <1>15, <1>16, <1>17, <1>18 DEF SessionInv, Safe

LEMMA FinishBeginsSafe ==
    ASSUME SessionInv, FinishBegins
    PROVE  SessionInv' /\ Safe
<1>1. CASE Fails \/ Pauses
  BY <1>1, EndsSafe DEF FinishBegins, Worker, Fails, Pauses, Others, None
<1>2. SUFFICES ASSUME ~(Fails \/ Pauses) PROVE SessionInv' /\ Safe
  BY <1>1
<1>3. /\ job \in JobStates /\ job.pc = "finish"
      /\ job' = [job EXCEPT !.pc = "finishing"] /\ UNCHANGED <<rec, phone, air, linking, request>>
  BY <1>2 DEF SessionInv, TypeOK, FinishBegins, Worker, Goes, Others
<1>4. TypeOK'
  BY <1>3 DEF SessionInv, TypeOK, JobStates
<1>5. Working' /\ Seen' /\ Removed' /\ Asked'
  BY <1>3 DEF SessionInv, Working, Seen, Removed, Asked, Mine, JobStates, None
<1> QED
  BY <1>3, <1>4, <1>5, StaysSafe DEF SessionInv

\* The image of Android is nobody's, wherever it lands.
LEMMA RestoredSafe ==
    ASSUME SessionInv, job.pc = "finishing", Restored \/ UNCHANGED phone
    PROVE  phone' \in [Phones -> PhoneStates] /\ WritesWhereItBelongs
<1>1. CASE UNCHANGED phone
  BY <1>1 DEF SessionInv, TypeOK, WritesWhereItBelongs
<1>2. CASE Restored
  <2> DEFINE p == Line(Mine.serial)
  <2>1. p \in Phones /\ phone' = [phone EXCEPT ![p].slotB = Empty]
    BY <1>2 DEF SessionInv, TypeOK, Working, Homed, Mine, Restored, Listed, Line, None
  <2> HIDE DEF p
  <2>2. Empty \in Slots /\ Empty.by = None /\ phone[p].root \in Roots
    BY <2>1 DEF SessionInv, TypeOK, PhoneStates, Empty, Slots
  <2>3. PutInto(p, Empty, p, phone[p].root)
    BY <2>1 DEF PutInto, SessionInv, TypeOK, PhoneStates
  <2> QED
    BY <2>1, <2>2, <2>3, PutSafe
<1> QED
  BY <1>1, <1>2

LEMMA FinishLandsSafe ==
    ASSUME SessionInv, FinishLands
    PROVE  SessionInv' /\ Safe
<1>1. /\ job.pc = "finishing" /\ job.rec \in Records /\ Mine.method = "uninstall"
      /\ rec[job.rec].status # None /\ phone[Mine.home].root.is # "system"
      /\ UNCHANGED <<air, linking, request>>
  BY DEF SessionInv, Working, Removed, FinishLands, Worker, Mine, None
<1>2. phone' \in [Phones -> PhoneStates] /\ WritesWhereItBelongs
  BY <1>1, RestoredSafe DEF FinishLands
<1>3. CASE job.cancel
  BY <1>1, <1>2, <1>3, StopsSafe DEF FinishLands, None
<1>4. CASE ~job.cancel
  <2>1. /\ rec' \in [Records -> RecordStates] /\ Kept /\ rec'[job.rec].status = "completed"
    BY <1>1, <1>4, SaysKeeps DEF FinishLands, SessionInv, Stages, Statuses
  <2>2. job' = Idle /\ job' \in JobStates
    <3>1. job' = Idle
      BY <1>4 DEF FinishLands
    <3> QED
      BY <3>1 DEF Idle, Job, JobStates
  <2>3. TypeOK'
    BY <1>1, <1>2, <2>1, <2>2 DEF SessionInv, TypeOK
  <2>4. Homed'
    BY <1>1, <2>1 DEF SessionInv, Homed, Kept
  <2>5. Working' /\ Seen' /\ Removed' /\ Asked'
    BY <2>2 DEF Working, Seen, Removed, Asked, Idle, Job, None
  <2>6. InstallsWhereItBelongs /\ RemovesWhereItBelongs /\ ConfirmsItsUser
    BY <1>1, <2>1 DEF SessionInv, TypeOK, InstallsWhereItBelongs, RemovesWhereItBelongs,
       ConfirmsItsUser, Kept, Mine
  <2> QED
    BY <1>2, <2>3, <2>4, <2>5, <2>6 DEF SessionInv, Safe
<1> QED
  BY <1>3, <1>4

LEMMA FinishFailsSafe ==
    ASSUME SessionInv, FinishFails
    PROVE  SessionInv' /\ Safe
<1>1. job.pc = "finishing" /\ Ends("failed") /\ UNCHANGED <<air, linking, request>>
  BY DEF FinishFails, Worker
<1>2. phone' \in [Phones -> PhoneStates] /\ WritesWhereItBelongs
  BY <1>1, RestoredSafe DEF FinishFails
<1> QED
  BY <1>1, <1>2, StopsSafe DEF None

-----------------------------------------------------------------------------

LEMMA StepSafe ==
    ASSUME SessionInv, [Next]_vars
    PROVE  SessionInv' /\ Safe
<1>1. CASE World
  BY <1>1, GoesDownSafe, RunsOnceSafe, BootsSafe, SetUpSafe, MovesSafe DEF World
<1>2. CASE Dispatch
  BY <1>2, PlanSafe, StartSafe, RebindSafe, CancelSafe, AnswerSafe, ConnectSafe, ConnectedSafe,
     DisconnectSafe
  DEF Dispatch
<1>3. CASE Work
  BY <1>3, LockBusySafe, DecideSafe, CheckSafe, RecoverArmSafe, BeginWriteSafe, WriteLandsSafe,
     WriteFailsSafe, WaitAndroidSafe, TakeAnswerSafe, AwaitOpenwrtSafe, AwaitRemovalSafe,
     FinishBeginsSafe, FinishLandsSafe, FinishFailsSafe
  DEF Work
<1>4. CASE UNCHANGED vars
  <2>1. Drifts
    BY <1>4 DEF SessionInv, TypeOK, Drifts, vars
  <2> QED
    BY <2>1, DriftsSafe
<1> QED
  BY <1>1, <1>2, <1>3, <1>4 DEF Next

LEMMA InitSafe ==
    ASSUME Init
    PROVE  SessionInv
<1> DEFINE Blank(b, r) == [os |-> "android", boot |-> 1, ready |-> TRUE,
                           slotB |-> [by |-> None, does |-> b, armed |-> b = "system"],
                           root |-> [by |-> None, is |-> r]]
<1>1. phone \in [Phones -> {Blank(b, r) : b \in {None, "system"}, r \in {None, "system"}}]
  BY DEF Init
<1>2. ASSUME NEW b \in {None, "system"}, NEW r \in {None, "system"}
      PROVE  Blank(b, r) \in PhoneStates
  <2>1. [by |-> None, does |-> b, armed |-> b = "system"] \in Slots /\ [by |-> None, is |-> r] \in Roots
    BY DEF Slots, Roots
  <2>2. 1 \in 1..MaxBoots
    BY BootsAssumption
  <2> QED
    BY <2>1, <2>2 DEF PhoneStates
<1> HIDE DEF Blank
<1>6. phone \in [Phones -> PhoneStates]
  BY <1>1, <1>2
<1>7. TypeOK
  <2>1. NoRecord \in RecordStates /\ Idle \in JobStates
    BY BootsAssumption DEF NoRecord, RecordStates, Statuses, Stages, Idle, Job, JobStates
  <2> QED
    BY <1>6, <2>1 DEF Init, TypeOK
<1>3. Homed
  BY DEF Init, Homed, NoRecord, None
<1>4. Working /\ Seen /\ Removed /\ Asked
  BY DEF Init, Working, Seen, Removed, Asked, Idle, Job, None
<1> QED
  BY <1>3, <1>4, <1>7 DEF SessionInv

\* Every variable holds what its declaration says.
THEOREM TypeCorrect == Spec => []TypeOK
<1>1. Init => SessionInv
  BY InitSafe
<1>2. SessionInv /\ [Next]_vars => SessionInv'
  BY StepSafe
<1>3. SessionInv => TypeOK
  BY DEF SessionInv
<1> QED
  BY <1>1, <1>2, <1>3, PTL DEF Spec

\* However often the address changes hands: an image or a system is written only into the
\* phone of its record or into one that came to the address after the last look (BeginWrite,
\* WriteLands, WriteFails); an installation is completed only while its own phone runs
\* OpenWrt (AwaitOpenwrt), and a removal only when the system is gone from its own phone
\* (AwaitRemoval, FinishLands).
THEOREM StaysOnPhone == Spec => StaysOnOwnPhone
<1>1. Init => SessionInv
  BY InitSafe
<1>2. SessionInv /\ [Next]_vars =>
          SessionInv' /\ WritesWhereItBelongs /\ InstallsWhereItBelongs /\ RemovesWhereItBelongs
  BY StepSafe DEF Safe
<1> QED
  BY <1>1, <1>2, PTL DEF Spec, StaysOnOwnPhone

\* A record says that its user started OpenWrt only if they said so to the run that writes
\* it (Start, Answer, TakeAnswer).
THEOREM ConfirmedByOwnUser == Spec => ConfirmedByItsUser
<1>1. Init => SessionInv
  BY InitSafe
<1>2. SessionInv /\ [Next]_vars => SessionInv' /\ ConfirmsItsUser
  BY StepSafe DEF Safe
<1> QED
  BY <1>1, <1>2, PTL DEF Spec, ConfirmedByItsUser
=============================================================================
