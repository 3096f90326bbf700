---------------------------- MODULE UpdateProofs ----------------------------
(***************************************************************************)
(* What is proved of the update of an installed system over SSH, for any   *)
(* number of sessions and power cuts, in both layouts: nothing is replaced *)
(* but by what one suitable session sent, and nothing is started that is   *)
(* not whole or that was tried in vain.                                    *)
(*                                                                         *)
(* Requests alone are not inductive: that a request is of one session      *)
(* rests on what its script has in place at each step (Staging), on the    *)
(* script's ending with the running system (Places), and, for a trial      *)
(* not to be repeated, on every session's being written once (Once).       *)
(***************************************************************************)
EXTENDS Update, TLAPS

-----------------------------------------------------------------------------
(* The invariant *)

\* A command holds the upgrade lock.
Active == script.pc # None
\* What is sent, staged, in memory or in place is of a session that suits the device.
Suiting ==
    /\ \A s \in Sessions : session[s] \in {"upload", "commit", "waiting", "success"} => s \in suits
    /\ Active => script.by \in suits
    /\ ram # None => ram \in suits
    /\ root.by \in suits \cup {Old} /\ boot.by \in suits \cup {Old}
    /\ staged.payload.by \in suits \cup {Old}
    /\ staged.ready \in suits \cup {None} /\ staged.request \in suits \cup {None}
    /\ {image.used.by, image.new.by, image.old.by, image.part.by} \subseteq suits \cup {Old}

\* A command runs in the running system, the offline update in the initramfs; what the
\* latter has in memory goes with the boot image.
Places ==
    /\ Active => mode = "linux"
    /\ ~Active => script = NoScript
    /\ offline # None => mode = "init" /\ (offline = "swap" <=> layout = "image")
    /\ offline \in {"write", "readback", "restore", "rearm"} => ram # None /\ boot = Whole(ram)
    /\ layout = "image" => staged.request = None

\* What a command has in place, step by step; it publishes no request but its own.
Staging ==
    layout = "part" =>
       /\ RequestIsWhole
       /\ script.pc = "archive" => staged.request = None
       /\ script.pc \in {"flash", "readback", "publish"} =>
             staged = [payload |-> Whole(script.by), ready |-> script.by, request |-> None]
       /\ script.pc = "publish" => boot = Whole(script.by)

\* A root with the markers was read back, and the running system is on it.
Roots ==
    layout = "part" =>
       /\ root.marked => root.state \in {"bare", "whole"}
       /\ mode = "linux" => root.marked /\ root.by = running
       /\ offline \in {"restore"} => root.state = "bare"

\* Of the images in use and to be used one is there, and neither is cut off.
Images ==
    layout = "image" =>
       /\ image.used = NoImage \/ image.used.state = "whole"
       /\ image.new = NoImage \/ image.new.state = "whole"
       /\ image.used = NoImage => image.new # NoImage
       /\ offline = "swap" => image.used = NoImage
       /\ mode = "linux" => image.used = Whole(running)

\* A session that has reached no root.
Unwritten(s) == s \notin history.tried /\ root.by # s
\* Every session reaches the root once: the trial of what it wrote is its first.
Once ==
    layout = "part" =>
       /\ \A s \in Sessions : session[s] \in {"off", "check", "upload", "commit"} =>
             Unwritten(s) /\ staged.request # s /\ (Active => script.by # s)
       /\ script.pc \in {"stage", "archive", "flash", "readback", "publish"} =>
             Unwritten(script.by) /\ staged.request # script.by
       /\ staged.request # None => Unwritten(staged.request)
       /\ offline = "write" => ram = staged.request
       /\ offline \in {"readback", "restore"} => root.by = ram /\ ram \notin history.tried
       /\ root.state = "whole" /\ root.trial = None => root.by \in history.up
       /\ root.state = "whole" /\ root.trial = "new" => root.by \notin history.tried

UpdateInv == TypeOK /\ Suiting /\ Places /\ Staging /\ Roots /\ Images /\ Once

-----------------------------------------------------------------------------

\* Whole, torn and absent.
LEMMA Contents ==
    /\ NoImage \in Content /\ NoImage.by = Old /\ NoImage.state = None
    /\ \A v \in Versions : /\ Whole(v) \in Content /\ Whole(v).by = v /\ Whole(v).state = "whole"
                          /\ Torn(v) \in Content /\ Torn(v).by = v /\ Torn(v).state = "torn"
    /\ \A c \in Content : /\ c.by \in Versions /\ c.state \in {None, "torn", "whole"}
                         /\ c.state = "whole" => c = Whole(c.by)
BY DEF NoImage, Content, Whole, Torn, Versions, None

(* The command on the device, the boot loader, the initramfs *)

LEMMA StageRootKeeps == ASSUME UpdateInv, StageRoot PROVE UpdateInv'
<1>1. TypeOK'
  BY Contents DEF UpdateInv, TypeOK, StageRoot, Goes, Kept
<1>2. Suiting' /\ Places'
  BY Contents DEF UpdateInv, TypeOK, StageRoot, At, Goes, Kept, Active, Suiting, None, Places
<1>3. Staging' /\ Roots' /\ Images'
  BY DEF UpdateInv, StageRoot, NothingPending, Goes, Kept, RequestIsWhole, Staging, Roots,
     Images
<1>4. Once'
  BY DEF UpdateInv, StageRoot, At, Goes, Kept, Unwritten, Places, NoScript, Once, None
<1>q. QED BY <1>1, <1>2, <1>3, <1>4 DEF UpdateInv

LEMMA ArchiveRootKeeps == ASSUME UpdateInv, ArchiveRoot PROVE UpdateInv'
<1>v. script.by \in Versions /\ (Active => script.by \in Sessions)
  BY DEF UpdateInv, TypeOK, Suiting
<1>a1. staged' \in [payload : Content, ready : Sessions \cup {None}, request : Sessions \cup {None}]
  BY <1>v, Contents DEF UpdateInv, TypeOK, ArchiveRoot, At, Active, None
<1>1. TypeOK'
  BY <1>a1 DEF UpdateInv, TypeOK, ArchiveRoot, Goes, Kept
<1>2. Suiting' /\ Places'
  BY Contents DEF UpdateInv, TypeOK, ArchiveRoot, At, Goes, Kept, Active, Suiting, None,
     Places
<1>3. Staging' /\ Roots' /\ Images'
  BY DEF UpdateInv, TypeOK, ArchiveRoot, At, Goes, Kept, RequestIsWhole, Staging, Roots,
     Images
<1>4. Once'
  BY DEF UpdateInv, ArchiveRoot, At, Goes, Kept, Unwritten, Places, NoScript, Once, None
<1>q. QED BY <1>1, <1>2, <1>3, <1>4 DEF UpdateInv

LEMMA UnpackImageKeeps == ASSUME UpdateInv, UnpackImage PROVE UpdateInv'
<1>a1. image' \in [used : Content, new : Content, old : Content, part : Content]
  BY Contents DEF UpdateInv, TypeOK, UnpackImage
<1>1. TypeOK'
  BY <1>a1 DEF UpdateInv, TypeOK, UnpackImage, Goes, Kept
<1>2. Suiting' /\ Places'
  BY Contents DEF UpdateInv, TypeOK, UnpackImage, At, Goes, Kept, Active, Suiting, None,
     Places
<1>3. Staging' /\ Roots' /\ Images'
  BY DEF UpdateInv, UnpackImage, Kept, Staging, Roots, Images
<1>4. Once'
  BY DEF UnpackImage, Kept, Once
<1>q. QED BY <1>1, <1>2, <1>3, <1>4 DEF UpdateInv

LEMMA CommitImageKeeps == ASSUME UpdateInv, CommitImage PROVE UpdateInv'
<1>v. script.by \in Versions /\ (Active => script.by \in Sessions)
  BY DEF UpdateInv, TypeOK, Suiting
<1>a1. image' \in [used : Content, new : Content, old : Content, part : Content]
  BY Contents DEF UpdateInv, TypeOK, CommitImage
<1>a2. script' \in [by : Versions,
                   pc : {None, "stage", "archive", "flash", "readback", "publish", "reboot"}]
  BY DEF UpdateInv, TypeOK, CommitImage, Goes
<1>1. TypeOK'
  BY <1>a1 DEF UpdateInv, TypeOK, CommitImage, Goes, Kept
<1>2. Suiting' /\ Places'
  BY Contents DEF UpdateInv, TypeOK, CommitImage, At, Goes, Kept, Active, Suiting, None,
     Places
<1>3. Staging' /\ Roots' /\ Images'
  BY <1>1, <1>v, <1>a1, <1>a2, Contents, LayoutsAssumption DEF UpdateInv, TypeOK, CommitImage,
     At, Goes, Kept, RequestIsWhole, Places, NoScript, Active, Staging, None, Roots, Images
<1>4. Once'
  BY <1>1, <1>v, <1>a1, <1>a2, Contents, SessionsAssumption, LayoutsAssumption DEF UpdateInv,
     TypeOK, CommitImage, At, Goes, Kept, Unwritten, Active, Staging, RequestIsWhole, Places,
     Roots, NoScript, Once, None
<1>q. QED BY <1>1, <1>2, <1>3, <1>4 DEF UpdateInv

LEMMA FlashBeginsKeeps == ASSUME UpdateInv, FlashBegins PROVE UpdateInv'
<1>v. script.by \in Versions /\ (Active => script.by \in Sessions)
  BY DEF UpdateInv, TypeOK, Suiting
<1>a1. script' \in [by : Versions,
                   pc : {None, "stage", "archive", "flash", "readback", "publish", "reboot"}]
  BY DEF UpdateInv, TypeOK, FlashBegins, Goes
<1>1. TypeOK'
  BY Contents DEF UpdateInv, TypeOK, FlashBegins, Goes, Kept
<1>2. Suiting' /\ Places'
  BY <1>1, <1>v, <1>a1, Contents, SessionsAssumption, LayoutsAssumption DEF UpdateInv, TypeOK,
     FlashBegins, At, Uploaded, Goes, Kept, Active, Versions, Suiting, None, NoScript, Staging,
     RequestIsWhole, Images, Places
<1>3. Staging' /\ Roots' /\ Images'
  BY <1>1, <1>v, <1>a1, Contents, LayoutsAssumption DEF UpdateInv, TypeOK, FlashBegins, At,
     Uploaded, Goes, Kept, RequestIsWhole, Places, NoScript, Active, Staging, None, Roots, Images
<1>4. Once'
  BY <1>1, <1>v, <1>a1, Contents, SessionsAssumption, LayoutsAssumption DEF UpdateInv, TypeOK,
     FlashBegins, At, Uploaded, Goes, Kept, Unwritten, Active, Staging, RequestIsWhole, Places,
     Roots, NoScript, Once, None
<1>q. QED BY <1>1, <1>2, <1>3, <1>4 DEF UpdateInv

LEMMA FlashEndsKeeps == ASSUME UpdateInv, FlashEnds PROVE UpdateInv'
<1>1. TypeOK'
  BY Contents DEF UpdateInv, TypeOK, FlashEnds, Kept
<1>2. Suiting' /\ Places'
  BY <1>1, Contents, SessionsAssumption, LayoutsAssumption DEF UpdateInv, TypeOK, FlashEnds,
     At, Kept, Active, Versions, Suiting, None, NoScript, Staging, RequestIsWhole, Images, Places
<1>3. Staging' /\ Roots' /\ Images'
  BY <1>1, Contents, LayoutsAssumption DEF UpdateInv, TypeOK, FlashEnds, At, Kept,
     RequestIsWhole, Places, NoScript, Active, Staging, None, Roots, Images
<1>4. Once'
  BY <1>1, Contents, SessionsAssumption, LayoutsAssumption DEF UpdateInv, TypeOK, FlashEnds,
     At, Kept, Unwritten, Active, Staging, RequestIsWhole, Places, Roots, NoScript, Once, None
<1>q. QED BY <1>1, <1>2, <1>3, <1>4 DEF UpdateInv

LEMMA ArmSlotBKeeps == ASSUME UpdateInv, ArmSlotB PROVE UpdateInv'
<1>v. script.by \in Versions /\ (Active => script.by \in Sessions)
  BY DEF UpdateInv, TypeOK, Suiting
<1>a1. script' \in [by : Versions,
                   pc : {None, "stage", "archive", "flash", "readback", "publish", "reboot"}]
  BY DEF UpdateInv, TypeOK, ArmSlotB, Goes
<1>1. TypeOK'
  BY DEF UpdateInv, TypeOK, ArmSlotB, Goes, files
<1>2. Suiting' /\ Places'
  BY <1>1, <1>v, <1>a1, Contents, SessionsAssumption, LayoutsAssumption DEF UpdateInv, TypeOK,
     ArmSlotB, At, BootReadsBack, Goes, files, Active, Versions, Suiting, None, NoScript,
     Staging, RequestIsWhole, Images, Places
<1>3. Staging' /\ Roots' /\ Images'
  BY <1>1, <1>v, <1>a1, Contents, LayoutsAssumption DEF UpdateInv, TypeOK, ArmSlotB, At,
     BootReadsBack, Goes, files, RequestIsWhole, Places, NoScript, Active, Staging, None, Roots,
     Images
<1>4. Once'
  BY <1>1, <1>v, <1>a1, Contents, SessionsAssumption, LayoutsAssumption DEF UpdateInv, TypeOK,
     ArmSlotB, At, BootReadsBack, Goes, files, Unwritten, Active, Staging, RequestIsWhole,
     Places, Roots, NoScript, Once, None
<1>q. QED BY <1>1, <1>2, <1>3, <1>4 DEF UpdateInv

LEMMA PublishKeeps == ASSUME UpdateInv, Publish PROVE UpdateInv'
<1>v. script.by \in Versions /\ (Active => script.by \in Sessions)
  BY DEF UpdateInv, TypeOK, Suiting
<1>a1. staged' \in [payload : Content, ready : Sessions \cup {None}, request : Sessions \cup {None}]
  BY <1>v, Contents, SessionsAssumption
  DEF UpdateInv, TypeOK, Publish, At, Goes, Kept, Active, Versions
<1>a2. script' \in [by : Versions,
                   pc : {None, "stage", "archive", "flash", "readback", "publish", "reboot"}]
  BY DEF UpdateInv, TypeOK, Publish, Goes
<1>1. TypeOK'
  BY <1>a1 DEF UpdateInv, TypeOK, Publish, Goes, Kept
<1>2. Suiting' /\ Places'
  BY <1>1, <1>v, <1>a1, <1>a2, Contents, SessionsAssumption, LayoutsAssumption DEF UpdateInv,
     TypeOK, Publish, At, Goes, Kept, Active, Versions, Suiting, None, NoScript, Staging,
     RequestIsWhole, Images, Places
<1>3. Staging' /\ Roots' /\ Images'
  BY <1>1, <1>v, <1>a1, <1>a2, Contents, LayoutsAssumption DEF UpdateInv, TypeOK, Publish, At,
     Goes, Kept, RequestIsWhole, Places, NoScript, Active, Staging, None, Roots, Images
<1>4. Once'
  BY <1>1, <1>v, <1>a1, <1>a2, Contents, SessionsAssumption, LayoutsAssumption DEF UpdateInv,
     TypeOK, Publish, At, Goes, Kept, Unwritten, Active, Staging, RequestIsWhole, Places, Roots,
     NoScript, Once, None
<1>q. QED BY <1>1, <1>2, <1>3, <1>4 DEF UpdateInv

LEMMA BootBKeeps == ASSUME UpdateInv, BootB PROVE UpdateInv'
<1>1. TypeOK'
  BY DEF UpdateInv, TypeOK, BootB, files
<1>2. Suiting' /\ Places'
  BY <1>1, Contents, SessionsAssumption, LayoutsAssumption DEF UpdateInv, TypeOK, BootB,
     files, Active, Versions, Suiting, None, NoScript, Staging, RequestIsWhole, Images, Places
<1>3. Staging' /\ Roots' /\ Images'
  BY <1>1, Contents, LayoutsAssumption DEF UpdateInv, TypeOK, BootB, files, RequestIsWhole,
     Places, NoScript, Active, Staging, None, Roots, Images
<1>4. Once'
  BY <1>1, Contents, SessionsAssumption, LayoutsAssumption DEF UpdateInv, TypeOK, BootB,
     files, Unwritten, Active, Staging, RequestIsWhole, Places, Roots, NoScript, Once, None
<1>q. QED BY <1>1, <1>2, <1>3, <1>4 DEF UpdateInv

LEMMA BootAKeeps == ASSUME UpdateInv, BootA PROVE UpdateInv'
<1>1. TypeOK'
  BY DEF UpdateInv, TypeOK, BootA, files
<1>2. Suiting' /\ Places'
  BY <1>1, Contents, SessionsAssumption, LayoutsAssumption DEF UpdateInv, TypeOK, BootA,
     files, Active, Versions, Suiting, None, NoScript, Staging, RequestIsWhole, Images, Places
<1>3. Staging' /\ Roots' /\ Images'
  BY <1>1, Contents, LayoutsAssumption DEF UpdateInv, TypeOK, BootA, files, RequestIsWhole,
     Places, NoScript, Active, Staging, None, Roots, Images
<1>4. Once'
  BY <1>1, Contents, SessionsAssumption, LayoutsAssumption DEF UpdateInv, TypeOK, BootA,
     files, Unwritten, Active, Staging, RequestIsWhole, Places, Roots, NoScript, Once, None
<1>q. QED BY <1>1, <1>2, <1>3, <1>4 DEF UpdateInv

LEMMA BootOkKeeps == ASSUME UpdateInv, BootOk PROVE UpdateInv'
<1>a1. root' \in [by : Versions, state : {None, "torn", "bare", "whole"},
                 marked : BOOLEAN, trial : {None, "new", "tried"}]
  BY DEF UpdateInv, TypeOK, BootOk
<1>a2. history' \in [tried : SUBSET Versions, up : SUBSET Versions]
  BY DEF UpdateInv, TypeOK, BootOk
<1>1. TypeOK'
  BY DEF UpdateInv, TypeOK, BootOk
<1>2. Suiting' /\ Places'
  BY <1>1, <1>a1, <1>a2, Contents, SessionsAssumption, LayoutsAssumption DEF UpdateInv,
     TypeOK, BootOk, Active, Versions, Suiting, None, NoScript, Staging, RequestIsWhole, Images,
     Places
<1>3. Staging' /\ Roots' /\ Images'
  BY <1>1, <1>a1, <1>a2, Contents, LayoutsAssumption DEF UpdateInv, TypeOK, BootOk,
     RequestIsWhole, Places, NoScript, Active, Staging, None, Roots, Images
<1>4. Once'
  BY <1>1, <1>a1, <1>a2, Contents, SessionsAssumption, LayoutsAssumption DEF UpdateInv,
     TypeOK, BootOk, Unwritten, Active, Staging, RequestIsWhole, Places, Roots, NoScript, Once,
     None
<1>q. QED BY <1>1, <1>2, <1>3, <1>4 DEF UpdateInv

LEMMA CopyPayloadKeeps == ASSUME UpdateInv, CopyPayload PROVE UpdateInv'
<1>r. /\ staged.request \in Sessions /\ boot = Whole(staged.request)
      /\ staged.payload.by = staged.request /\ ram' = staged.request
  BY Contents DEF UpdateInv, TypeOK, Staging, RequestIsWhole, CopyPayload, Versions
<1>1. TypeOK'
  BY <1>r DEF UpdateInv, TypeOK, CopyPayload, Then, Rest
<1>2. Suiting' /\ Places'
  BY <1>1, <1>r, Contents, SessionsAssumption, LayoutsAssumption DEF UpdateInv, TypeOK,
     CopyPayload, Offline, Then, Rest, Active, Versions, Suiting, None, NoScript, Staging,
     RequestIsWhole, Images, Places
<1>3. Staging' /\ Roots' /\ Images'
  BY <1>1, <1>r, Contents, LayoutsAssumption DEF UpdateInv, TypeOK, CopyPayload, Offline,
     Then, Rest, RequestIsWhole, Places, NoScript, Active, Staging, None, Roots, Images
<1>4. Once'
  BY <1>1, <1>r, Contents, SessionsAssumption, LayoutsAssumption DEF UpdateInv, TypeOK,
     CopyPayload, Offline, Then, Rest, Unwritten, Active, Staging, RequestIsWhole, Places, Roots,
     NoScript, Once, None
<1>q. QED BY <1>1, <1>2, <1>3, <1>4 DEF UpdateInv

LEMMA WriteBeginsKeeps == ASSUME UpdateInv, WriteBegins PROVE UpdateInv'
<1>a1. root' \in [by : Versions, state : {None, "torn", "bare", "whole"},
                 marked : BOOLEAN, trial : {None, "new", "tried"}]
  BY DEF UpdateInv, TypeOK, WriteBegins, Versions
<1>a2. staged' \in [payload : Content, ready : Sessions \cup {None}, request : Sessions \cup {None}]
  BY Contents DEF WriteBegins
<1>1. TypeOK'
  BY Contents DEF UpdateInv, TypeOK, WriteBegins, Then, Rest, Versions
<1>2. Suiting' /\ Places'
  BY <1>1, <1>a1, <1>a2, Contents, SessionsAssumption, LayoutsAssumption DEF UpdateInv,
     TypeOK, WriteBegins, Offline, Then, Rest, Active, Versions, Suiting, None, NoScript,
     Staging, RequestIsWhole, Images, Places
<1>3. Staging' /\ Roots' /\ Images'
  BY <1>1, <1>a1, <1>a2, Contents, LayoutsAssumption DEF UpdateInv, TypeOK, WriteBegins,
     Offline, Then, Rest, RequestIsWhole, Places, NoScript, Active, Staging, None, Roots, Images
<1>4. Once'
  BY <1>1, <1>a1, <1>a2, Contents, SessionsAssumption, LayoutsAssumption DEF UpdateInv,
     TypeOK, WriteBegins, Offline, Then, Rest, Unwritten, Active, Staging, RequestIsWhole,
     Places, Roots, NoScript, Once, None
<1>q. QED BY <1>1, <1>2, <1>3, <1>4 DEF UpdateInv

LEMMA WriteEndsKeeps == ASSUME UpdateInv, WriteEnds PROVE UpdateInv'
<1>a1. root' \in [by : Versions, state : {None, "torn", "bare", "whole"},
                 marked : BOOLEAN, trial : {None, "new", "tried"}]
  BY DEF UpdateInv, TypeOK, WriteEnds
<1>1. TypeOK'
  BY DEF UpdateInv, TypeOK, WriteEnds, Rest
<1>2. Suiting' /\ Places'
  BY <1>1, <1>a1, Contents, SessionsAssumption, LayoutsAssumption DEF UpdateInv, TypeOK,
     WriteEnds, Offline, Rest, Active, Versions, Suiting, None, NoScript, Staging,
     RequestIsWhole, Images, Places
<1>3. Staging' /\ Roots' /\ Images'
  BY <1>1, <1>a1, Contents, LayoutsAssumption DEF UpdateInv, TypeOK, WriteEnds, Offline, Rest,
     RequestIsWhole, Places, NoScript, Active, Staging, None, Roots, Images
<1>4. Once'
  BY <1>1, <1>a1, Contents, SessionsAssumption, LayoutsAssumption DEF UpdateInv, TypeOK,
     WriteEnds, Offline, Rest, Unwritten, Active, Staging, RequestIsWhole, Places, Roots,
     NoScript, Once, None
<1>q. QED BY <1>1, <1>2, <1>3, <1>4 DEF UpdateInv

LEMMA RestoreBeginsKeeps == ASSUME UpdateInv, RestoreBegins PROVE UpdateInv'
<1>a1. root' \in [by : Versions, state : {None, "torn", "bare", "whole"},
                 marked : BOOLEAN, trial : {None, "new", "tried"}]
  BY Contents, SessionsAssumption
  DEF UpdateInv, TypeOK, RestoreBegins, Offline, Then, Rest, RootReadsBack, Active, Versions
<1>1. TypeOK'
  BY <1>a1 DEF UpdateInv, TypeOK, RestoreBegins, Then, Rest
<1>2. Suiting' /\ Places'
  BY <1>1, <1>a1, Contents, SessionsAssumption, LayoutsAssumption DEF UpdateInv, TypeOK,
     RestoreBegins, Offline, Then, Rest, RootReadsBack, Active, Versions, Suiting, None,
     NoScript, Staging, RequestIsWhole, Images, Places
<1>3. Staging' /\ Roots' /\ Images'
  BY <1>1, <1>a1, Contents, LayoutsAssumption DEF UpdateInv, TypeOK, RestoreBegins, Offline,
     Then, Rest, RootReadsBack, RequestIsWhole, Places, NoScript, Active, Staging, None, Roots,
     Images
<1>4. Once'
  BY <1>1, <1>a1, Contents, SessionsAssumption, LayoutsAssumption DEF UpdateInv, TypeOK,
     RestoreBegins, Offline, Then, Rest, RootReadsBack, Unwritten, Active, Staging,
     RequestIsWhole, Places, Roots, NoScript, Once, None
<1>q. QED BY <1>1, <1>2, <1>3, <1>4 DEF UpdateInv

LEMMA RestoreEndsKeeps == ASSUME UpdateInv, RestoreEnds PROVE UpdateInv'
<1>a1. root' \in [by : Versions, state : {None, "torn", "bare", "whole"},
                 marked : BOOLEAN, trial : {None, "new", "tried"}]
  BY Contents, SessionsAssumption
  DEF UpdateInv, TypeOK, RestoreEnds, Offline, Then, Rest, Active, Versions
<1>1. TypeOK'
  BY <1>a1 DEF UpdateInv, TypeOK, RestoreEnds, Then, Rest
<1>2. Suiting' /\ Places'
  BY <1>1, <1>a1, Contents, SessionsAssumption, LayoutsAssumption DEF UpdateInv, TypeOK,
     RestoreEnds, Offline, Then, Rest, Active, Versions, Suiting, None, NoScript, Staging,
     RequestIsWhole, Images, Places
<1>3. Staging' /\ Roots' /\ Images'
  BY <1>1, <1>a1, Contents, LayoutsAssumption DEF UpdateInv, TypeOK, RestoreEnds, Offline,
     Then, Rest, RequestIsWhole, Places, NoScript, Active, Staging, None, Roots, Images
<1>4. Once'
  BY <1>1, <1>a1, Contents, SessionsAssumption, LayoutsAssumption DEF UpdateInv, TypeOK,
     RestoreEnds, Offline, Then, Rest, Unwritten, Active, Staging, RequestIsWhole, Places, Roots,
     NoScript, Once, None
<1>q. QED BY <1>1, <1>2, <1>3, <1>4 DEF UpdateInv

LEMMA PassesByKeeps == ASSUME UpdateInv, PassesBy PROVE UpdateInv'
<1>1. TypeOK'
  BY DEF UpdateInv, TypeOK, PassesBy, Offline, Then, Rest
<1>2. Suiting' /\ Places'
  BY <1>1, Contents, SessionsAssumption, LayoutsAssumption DEF UpdateInv, TypeOK,
     PassesBy, Offline, Then, Rest, Active, Versions, Suiting, None, NoScript, Staging,
     RequestIsWhole, Images, Places
<1>3. Staging' /\ Roots' /\ Images'
  BY <1>1, Contents, LayoutsAssumption DEF UpdateInv, TypeOK, PassesBy, Offline, Then, Rest,
     RequestIsWhole, Places, NoScript, Active, Staging, None, Roots, Images
<1>4. Once'
  BY <1>1, Contents, SessionsAssumption, LayoutsAssumption DEF UpdateInv, TypeOK,
     PassesBy, Offline, Then, Rest, Unwritten, Active, Staging, RequestIsWhole, Places, Roots,
     NoScript, Once, None
<1>q. QED BY <1>1, <1>2, <1>3, <1>4 DEF UpdateInv

LEMMA OfflineFailsKeeps == ASSUME UpdateInv, OfflineFails PROVE UpdateInv'
<1>1. TypeOK'
  BY DEF UpdateInv, TypeOK, OfflineFails, Then, Rest
<1>2. Suiting' /\ Places'
  BY <1>1, Contents, SessionsAssumption, LayoutsAssumption DEF UpdateInv, TypeOK,
     OfflineFails, Then, Rest, Active, Versions, Suiting, None, NoScript, Staging,
     RequestIsWhole, Images, Places
<1>3. Staging' /\ Roots' /\ Images'
  BY <1>1, Contents, LayoutsAssumption DEF UpdateInv, TypeOK, OfflineFails, Then, Rest,
     RequestIsWhole, Places, NoScript, Active, Staging, None, Roots, Images
<1>4. Once'
  BY <1>1, Contents, SessionsAssumption, LayoutsAssumption DEF UpdateInv, TypeOK,
     OfflineFails, Then, Rest, Unwritten, Active, Staging, RequestIsWhole, Places, Roots,
     NoScript, Once, None
<1>q. QED BY <1>1, <1>2, <1>3, <1>4 DEF UpdateInv

LEMMA KeepOldKeeps == ASSUME UpdateInv, KeepOld PROVE UpdateInv'
<1>a1. image' \in [used : Content, new : Content, old : Content, part : Content]
  BY Contents, SessionsAssumption
  DEF UpdateInv, TypeOK, KeepOld, Swapping, SwapRest, Then, Active, Versions
<1>1. TypeOK'
  BY <1>a1 DEF UpdateInv, TypeOK, KeepOld, SwapRest, Then
<1>2. Suiting' /\ Places'
  BY <1>1, <1>a1, Contents, SessionsAssumption, LayoutsAssumption DEF UpdateInv, TypeOK,
     KeepOld, Swapping, SwapRest, Then, Active, Versions, Suiting, None, NoScript, Staging,
     RequestIsWhole, Images, Places
<1>3. Staging' /\ Roots' /\ Images'
  BY <1>1, <1>a1, Contents, LayoutsAssumption DEF UpdateInv, TypeOK, KeepOld, Swapping,
     SwapRest, Then, RequestIsWhole, Places, NoScript, Active, Staging, None, Roots, Images
<1>4. Once'
  BY <1>1, <1>a1, Contents, SessionsAssumption, LayoutsAssumption DEF UpdateInv, TypeOK,
     KeepOld, Swapping, SwapRest, Then, Unwritten, Active, Staging, RequestIsWhole, Places,
     Roots, NoScript, Once, None
<1>q. QED BY <1>1, <1>2, <1>3, <1>4 DEF UpdateInv

LEMMA UseNewKeeps == ASSUME UpdateInv, UseNew PROVE UpdateInv'
<1>a1. image' \in [used : Content, new : Content, old : Content, part : Content]
  BY Contents, SessionsAssumption
  DEF UpdateInv, TypeOK, UseNew, Swapping, SwapRest, Then, Active, Versions
<1>1. TypeOK'
  BY <1>a1 DEF UpdateInv, TypeOK, UseNew, SwapRest, Then
<1>2. Suiting' /\ Places'
  BY <1>1, <1>a1, Contents, SessionsAssumption, LayoutsAssumption DEF UpdateInv, TypeOK,
     UseNew, Swapping, SwapRest, Then, Active, Versions, Suiting, None, NoScript, Staging,
     RequestIsWhole, Images, Places
<1>3. Staging' /\ Roots' /\ Images'
  BY <1>1, <1>a1, Contents, LayoutsAssumption DEF UpdateInv, TypeOK, UseNew, Swapping,
     SwapRest, Then, RequestIsWhole, Places, NoScript, Active, Staging, None, Roots, Images
<1>4. Once'
  BY <1>1, <1>a1, Contents, SessionsAssumption, LayoutsAssumption DEF UpdateInv, TypeOK,
     UseNew, Swapping, SwapRest, Then, Unwritten, Active, Staging, RequestIsWhole, Places, Roots,
     NoScript, Once, None
<1>q. QED BY <1>1, <1>2, <1>3, <1>4 DEF UpdateInv

LEMMA StartImageKeeps == ASSUME UpdateInv, StartImage PROVE UpdateInv'
<1>i. image.used.by \in Versions
  BY DEF UpdateInv, TypeOK, Content
<1>a1. history' \in [tried : SUBSET Versions, up : SUBSET Versions]
  BY <1>i DEF UpdateInv, TypeOK, StartImage, Started
<1>1. TypeOK'
  BY <1>a1 DEF UpdateInv, TypeOK, StartImage, Started, files
<1>2. Suiting' /\ Places'
  BY <1>1, <1>a1, Contents, SessionsAssumption, LayoutsAssumption DEF UpdateInv, TypeOK,
     StartImage, Started, files, Active, Versions, Suiting, None, NoScript, Staging,
     RequestIsWhole, Images, Places
<1>3. Staging' /\ Roots' /\ Images'
  BY <1>1, <1>a1, Contents, LayoutsAssumption DEF UpdateInv, TypeOK, StartImage, Started,
     files, RequestIsWhole, Places, NoScript, Active, Staging, None, Roots, Images
<1>4. Once'
  BY <1>1, <1>a1, Contents, SessionsAssumption, LayoutsAssumption DEF UpdateInv, TypeOK,
     StartImage, Started, files, Unwritten, Active, Staging, RequestIsWhole, Places, Roots,
     NoScript, Once, None
<1>q. QED BY <1>1, <1>2, <1>3, <1>4 DEF UpdateInv

LEMMA StartRootKeeps == ASSUME UpdateInv, StartRoot PROVE UpdateInv'
<1>a1. root' \in [by : Versions, state : {None, "torn", "bare", "whole"},
                 marked : BOOLEAN, trial : {None, "new", "tried"}]
  BY DEF UpdateInv, TypeOK, StartRoot, Chooses, Then, MarkTried
<1>a2. history' \in [tried : SUBSET Versions, up : SUBSET Versions]
  BY DEF UpdateInv, TypeOK, StartRoot, Chooses, Then, Started
<1>1. TypeOK'
  BY DEF UpdateInv, TypeOK, StartRoot, Chooses, Then, MarkTried, Started
<1>2. Suiting' /\ Places'
  BY <1>1, <1>a1, <1>a2, Contents, SessionsAssumption, LayoutsAssumption DEF UpdateInv,
     TypeOK, StartRoot, Chooses, Then, Offline, RootStarts, MarkTried, Started, Active, Versions, Suiting, None,
     NoScript, Staging, RequestIsWhole, Images, Places
<1>3. Staging' /\ Roots' /\ Images'
  BY <1>1, <1>a1, <1>a2, Contents, LayoutsAssumption DEF UpdateInv, TypeOK, StartRoot, Chooses, Then,
     Offline, RootStarts, MarkTried, Started, RequestIsWhole, Places, NoScript, Active, Staging,
     None, Roots, Images
<1>4. Once'
  BY <1>1, <1>a1, <1>a2, Contents, SessionsAssumption, LayoutsAssumption DEF UpdateInv,
     TypeOK, StartRoot, Chooses, Then, Offline, RootStarts, MarkTried, Started, Unwritten, Active, Staging,
     RequestIsWhole, Places, Roots, NoScript, Once, None
<1>q. QED BY <1>1, <1>2, <1>3, <1>4 DEF UpdateInv

LEMMA StartNothingKeeps == ASSUME UpdateInv, StartNothing PROVE UpdateInv'
<1>1. TypeOK'
  BY DEF UpdateInv, TypeOK, StartNothing, Chooses, Then, files
<1>2. Suiting' /\ Places'
  BY <1>1, Contents, SessionsAssumption, LayoutsAssumption DEF UpdateInv, TypeOK,
     StartNothing, Chooses, Then, Offline, RootStarts, files, Active, Versions, Suiting, None, NoScript,
     Staging, RequestIsWhole, Images, Places
<1>3. Staging' /\ Roots' /\ Images'
  BY <1>1, Contents, LayoutsAssumption DEF UpdateInv, TypeOK, StartNothing, Chooses, Then, Offline,
     RootStarts, files, RequestIsWhole, Places, NoScript, Active, Staging, None, Roots, Images
<1>4. Once'
  BY <1>1, Contents, SessionsAssumption, LayoutsAssumption DEF UpdateInv, TypeOK,
     StartNothing, Chooses, Then, Offline, RootStarts, files, Unwritten, Active, Staging, RequestIsWhole,
     Places, Roots, NoScript, Once, None
<1>q. QED BY <1>1, <1>2, <1>3, <1>4 DEF UpdateInv

-----------------------------------------------------------------------------
(* The computer, and what ends *)

\* A step of the computer: it moves a session on, or ends it.
LEMMA SessionKeeps ==
    ASSUME UpdateInv, UNCHANGED <<layout, suits, onDevice>>,
           script' = script,
           tmp' \subseteq Sessions,
           session' \in [Sessions -> {"off", "check", "upload", "commit", "waiting", "success",
                                     "failed", "ended"}],
           \A s \in Sessions :
              /\ session'[s] \in {"off", "check", "upload", "commit"} =>
                     session[s] \in {"off", "check", "upload", "commit"}
              /\ session'[s] \in {"upload", "commit", "waiting", "success"} => s \in suits
    PROVE  UpdateInv'
<1>u. UNCHANGED <<staged, root, image, boot, tries, ram, offline, mode, running, cuts, history>>
  BY DEF onDevice, files
<1>1. TypeOK'
  BY <1>u DEF UpdateInv, TypeOK
<1>2. Suiting'
  BY <1>u DEF UpdateInv, Suiting, Active
<1>3. Places' /\ Staging' /\ Roots' /\ Images'
  BY <1>u DEF UpdateInv, Places, Staging, RequestIsWhole, Roots, Images, Active
<1>4. Once'
  BY <1>u DEF UpdateInv, Once, Unwritten, Active
<1>q. QED BY <1>1, <1>2, <1>3, <1>4 DEF UpdateInv

LEMMA ComputerKeeps ==
    ASSUME UpdateInv, NEW s \in Sessions,
           Connect(s) \/ Preflight(s) \/ Upload(s) \/ GiveUp(s) \/ Answer(s)
    PROVE  UpdateInv'
<1>1. UNCHANGED <<layout, suits, onDevice, script>> /\ tmp' \subseteq Sessions
  BY DEF UpdateInv, TypeOK, Connect, Preflight, Upload, GiveUp, Answer
<1>2. \E to \in {"check", "upload", "commit", "success", "failed", "ended"} :
         /\ session' = [session EXCEPT ![s] = to]
         /\ to \in {"check", "upload", "commit"} => session[s] \in {"off", "check", "upload"}
         /\ to \in {"upload", "commit", "success"} => s \in suits
  BY DEF UpdateInv, TypeOK, Suiting, Connect, Preflight, Suitable, Upload, GiveUp, Answer, Moves
<1>q. QED BY <1>1, <1>2, SessionKeeps DEF UpdateInv, TypeOK, Suiting

LEMMA CommitKeeps == ASSUME UpdateInv, NEW s \in Sessions, Commit(s) PROVE UpdateInv'
<1>u. /\ UNCHANGED <<staged, root, image, boot, tries, ram, offline, mode, running, cuts, history>>
      /\ UNCHANGED <<layout, suits, tmp>>
      /\ session[s] = "commit" /\ session' = [session EXCEPT ![s] = "waiting"]
      /\ script' = [by |-> s, pc |-> "stage"] /\ script.pc = None /\ mode = "linux"
  BY DEF Commit, Moves, NoScript, onDevice, files
<1>1. TypeOK'
  BY <1>u DEF UpdateInv, TypeOK, Versions
<1>2. Suiting'
  BY <1>u DEF UpdateInv, TypeOK, Suiting, Active
<1>3. Places' /\ Staging' /\ Roots' /\ Images'
  BY <1>u DEF UpdateInv, Places, Staging, RequestIsWhole, Roots, Images, Active, None
<1>4. Once'
  BY <1>u DEF UpdateInv, TypeOK, Once, Unwritten, Active, None
<1>q. QED BY <1>1, <1>2, <1>3, <1>4 DEF UpdateInv

LEMMA ScriptStopsKeeps == ASSUME UpdateInv, ScriptStops PROVE UpdateInv'
<1>u. /\ UNCHANGED <<staged, root, image, boot, tries, ram, offline, mode, running, cuts, history>>
      /\ UNCHANGED <<layout, suits, tmp>>
      /\ script' = NoScript
  BY DEF ScriptStops, onDevice, files
<1>s. /\ session' \in [Sessions -> {"off", "check", "upload", "commit", "waiting", "success",
                                   "failed", "ended"}]
      /\ \A s \in Sessions : session'[s] \in {session[s], "failed"}
  BY DEF UpdateInv, TypeOK, ScriptStops
<1>1. TypeOK'
  BY <1>u, <1>s DEF UpdateInv, TypeOK, NoScript, Versions
<1>2. Suiting'
  BY <1>u, <1>s DEF UpdateInv, TypeOK, Suiting, Active, NoScript
<1>3. Places' /\ Staging' /\ Roots' /\ Images'
  BY <1>u DEF UpdateInv, Places, Staging, RequestIsWhole, Roots, Images, Active, NoScript, None
<1>4. Once'
  BY <1>u, <1>s DEF UpdateInv, TypeOK, Once, Unwritten, Active, NoScript, None
<1>q. QED BY <1>1, <1>2, <1>3, <1>4 DEF UpdateInv

\* The device goes down: its memory, its scripts and its connections are gone.
LEMMA DownKeeps ==
    ASSUME UpdateInv, Down, UNCHANGED <<layout, suits, files, running, history>>,
           tries' \in 0..2, cuts' \in 0..MaxCuts
    PROVE  UpdateInv'
<1>u. /\ UNCHANGED <<layout, suits, staged, root, image, boot, running, history>>
      /\ mode' = "off" /\ script' = NoScript /\ tmp' = {} /\ ram' = None /\ offline' = None
  BY DEF Down, files
<1>s. /\ session' \in [Sessions -> {"off", "check", "upload", "commit", "waiting", "success",
                                   "failed", "ended"}]
      /\ \A s \in Sessions : session'[s] \in {session[s], "failed"}
  BY DEF UpdateInv, TypeOK, Down
<1>1. TypeOK'
  BY <1>u, <1>s DEF UpdateInv, TypeOK, NoScript, Versions
<1>2. Suiting'
  BY <1>u, <1>s DEF UpdateInv, TypeOK, Suiting, Active, NoScript
<1>3. Places' /\ Staging' /\ Roots' /\ Images'
  BY <1>u DEF UpdateInv, Places, Staging, RequestIsWhole, Roots, Images, Active, NoScript, None
<1>4. Once'
  BY <1>u, <1>s DEF UpdateInv, TypeOK, Once, Unwritten, Active, NoScript, None
<1>q. QED BY <1>1, <1>2, <1>3, <1>4 DEF UpdateInv

-----------------------------------------------------------------------------
(* All of them *)

LEMMA StepKeeps == ASSUME UpdateInv, [Next]_vars PROVE UpdateInv'
<1>u. CASE UNCHANGED vars
  BY <1>u DEF vars, UpdateInv, TypeOK, Suiting, Places, Staging, RequestIsWhole, Roots, Images,
     Once, Unwritten, Active
<1>1. CASE Computer
  BY <1>1, ComputerKeeps, CommitKeeps DEF Computer
<1>2. CASE Command
  <2>1. CASE Reboot
    BY <2>1, DownKeeps DEF Reboot, UpdateInv, TypeOK
  <2>q. QED
    BY <1>2, <2>1, StageRootKeeps, ArchiveRootKeeps, UnpackImageKeeps, CommitImageKeeps,
       FlashBeginsKeeps, FlashEndsKeeps, ArmSlotBKeeps, PublishKeeps, ComputerKeeps DEF Command
<1>3. CASE ScriptStops
  BY <1>3, ScriptStopsKeeps
<1>4. CASE Restart
  BY <1>4, DownKeeps DEF Restart, UpdateInv, TypeOK
<1>5. CASE PowerCut
  <2>1. cuts' \in 0..MaxCuts
    BY <1>5, CutsAssumption DEF PowerCut, UpdateInv, TypeOK
  <2>q. QED BY <1>5, <2>1, DownKeeps DEF PowerCut, UpdateInv, TypeOK
<1>6. CASE Update
  <2>1. CASE Rearm
    BY <2>1, DownKeeps DEF Rearm, UpdateInv, TypeOK
  <2>q. QED
    BY <1>6, <2>1, CopyPayloadKeeps, WriteBeginsKeeps, WriteEndsKeeps, RestoreBeginsKeeps,
       RestoreEndsKeeps DEF Update
<1>7. CASE BootB \/ BootA \/ BootOk \/ PassesBy \/ OfflineFails
  BY <1>7, BootBKeeps, BootAKeeps, BootOkKeeps, PassesByKeeps, OfflineFailsKeeps
<1>8. CASE Choice
  BY <1>8, KeepOldKeeps, UseNewKeeps, StartImageKeeps, StartRootKeeps, StartNothingKeeps
  DEF Choice
<1>q. QED BY <1>u, <1>1, <1>2, <1>3, <1>4, <1>5, <1>6, <1>7, <1>8 DEF Next

LEMMA InitHolds == ASSUME Init PROVE UpdateInv
<1>1. TypeOK
  BY Contents, CutsAssumption DEF Init, TypeOK, Versions, NoScript, None
<1>2. Suiting
  BY Contents DEF Init, Suiting, Active, NoScript, Versions
<1>3. Places
  BY DEF Init, Places, Active, NoScript, None
<1>4. Staging /\ Roots
  BY DEF Init, Staging, RequestIsWhole, Roots, NoScript, None
<1>5. Images
  BY Contents DEF Init, Images, Versions, None
<1>6. Once
  BY SessionsAssumption DEF Init, Once, Unwritten, Active, NoScript, None
<1>q. QED BY <1>1, <1>2, <1>3, <1>4, <1>5, <1>6 DEF UpdateInv

\* In every reachable state.
LEMMA InvHolds == Spec => []UpdateInv
<1>1. UpdateInv /\ [Next]_vars => UpdateInv'
  BY StepKeeps
<1>q. QED BY <1>1, InitHolds, PTL DEF Spec

-----------------------------------------------------------------------------
(* What single steps do *)

\* Only the offline update overwrites the root, with what it has in memory.
LEMMA OverwriteStep ==
    ASSUME UpdateInv, [Next]_vars, root'.by # root.by
    PROVE  ram = root'.by /\ boot = Whole(ram)
<1>1. WriteBegins
  <2>1. ~BootOk /\ ~StartRoot /\ ~WriteEnds /\ ~RestoreBegins /\ ~RestoreEnds
    BY DEF UpdateInv, TypeOK, BootOk, StartRoot, WriteEnds, RestoreBegins, RestoreEnds
  <2>2. root' # root
    OBVIOUS
  <2>q. QED
    BY <2>1, <2>2 DEF Next, Computer, Connect, Preflight, Upload, Commit, GiveUp, Command,
       StageRoot, ArchiveRoot, UnpackImage, CommitImage, FlashBegins, FlashEnds, ArmSlotB,
       Publish, Reboot, Answer, ScriptStops, Restart, PowerCut, BootB, BootA, Update,
       PassesBy, CopyPayload, Rearm, OfflineFails, Choice, Chooses, Then, KeepOld, UseNew, StartImage, StartNothing,
       vars, onDevice, files, SwapRest
<1>2. root'.by = ram
  BY <1>1 DEF WriteBegins
<1>3. boot = Whole(ram)
  BY <1>1 DEF UpdateInv, Places, WriteBegins, Offline
<1>q. QED BY <1>2, <1>3

\* Only the initramfs starts a system.
LEMMA StartStep ==
    ASSUME UpdateInv, [Next]_vars, mode = "init", mode' = "linux", layout = "part",
           root.state = "whole"
    PROVE  root.by \notin history.tried \ history.up
<1>1. StartRoot
  BY DEF UpdateInv, Places, Active, NoScript, None, Next, Computer, Connect, Preflight, Upload,
     Commit, GiveUp, Command,
     StageRoot, ArchiveRoot, UnpackImage, CommitImage, FlashBegins, FlashEnds, ArmSlotB,
     Publish, Reboot, Answer, ScriptStops, Restart, PowerCut, BootB, BootA, Update,
     PassesBy, CopyPayload, WriteBegins, WriteEnds, RestoreBegins, RestoreEnds, Rearm,
     OfflineFails, Choice, Chooses, Then, KeepOld, UseNew, StartImage, StartNothing, BootOk, At, Down, Rest, SwapRest, vars,
     onDevice, files
<1>2. root.trial \in {None, "new"}
  BY <1>1 DEF UpdateInv, TypeOK, StartRoot, RootStarts
<1>q. QED BY <1>2 DEF UpdateInv, Once

-----------------------------------------------------------------------------
(* Theorems *)

\* Every variable of the update's model always holds what its declaration says.
THEOREM TypeCorrect == Spec => []TypeOK
<1>1. UpdateInv => TypeOK
  BY DEF UpdateInv
<1>q. QED BY <1>1, InvHolds, PTL

\* However many sessions are stopped wherever: the payload under a request and the image in
\* slot B are of the session the request names, the root is overwritten with these and no
\* others, and an unsuitable package reaches nothing that lasts (ReplacesByItsOwn).
THEOREM ReplacedByItsOwn == Spec => ReplacesByItsOwn
<1>1. UpdateInv => RequestIsWhole
  BY LayoutsAssumption DEF UpdateInv, TypeOK, Staging, Places, RequestIsWhole
<1>2. UpdateInv => UnsuitableChangesNothing
  <2> SUFFICES ASSUME UpdateInv, NEW s \in Sessions \ suits
               PROVE  /\ s \notin {root.by, boot.by, staged.payload.by, staged.ready, staged.request}
                      /\ \A f \in DOMAIN image : image[f].by # s
    BY DEF UnsuitableChangesNothing
  <2>1. s # Old /\ s # None
    BY SessionsAssumption DEF None
  <2>2. DOMAIN image = {"used", "new", "old", "part"}
    BY DEF UpdateInv, TypeOK
  <2>q. QED BY <2>1, <2>2 DEF UpdateInv, Suiting
<1>3. UpdateInv /\ [Next]_vars => [root'.by # root.by => ram = root'.by /\ boot = Whole(ram)]_vars
  BY OverwriteStep
<1>q. QED
  BY <1>1, <1>2, <1>3, InvHolds, PTL DEF Spec, ReplacesByItsOwn, OverwrittenByItsOwn

\* However often the power is cut: a system that starts was read back as a whole, one whole
\* image lies where the next boot looks, and a trial that failed is not repeated
\* (StartsWholeSystems).
THEOREM WholeSystemsStart == Spec => StartsWholeSystems
<1>1. UpdateInv => StartsReadBack
  BY LayoutsAssumption DEF UpdateInv, TypeOK, Roots, Images, StartsReadBack
<1>2. UpdateInv => AnImageStays
  BY Contents DEF UpdateInv, Images, AnImageStays
<1>3. UpdateInv /\ [Next]_vars =>
        [mode = "init" /\ mode' = "linux" /\ layout = "part" /\ root.state = "whole" =>
            root.by \notin history.tried \ history.up]_vars
  BY StartStep
<1>q. QED BY <1>1, <1>2, <1>3, InvHolds, PTL DEF Spec, StartsWholeSystems, TriedOnce
=============================================================================
