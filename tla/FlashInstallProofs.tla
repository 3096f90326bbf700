-------------------------- MODULE FlashInstallProofs --------------------------
(***************************************************************************)
(* What is proved of the command-line installer, for any number of runs in *)
(* any modes, with every interruption, power cut and command that outlives *)
(* its process: what it selects is in place, what it selected stays, what  *)
(* it replaces is kept, and a phone it cannot serve is left as it was.     *)
(*                                                                         *)
(* The order of the steps carries the proof.  Follows reads it off the     *)
(* tables of FlashInstall, once: what precedes what in each mode.  The     *)
(* invariant then says, step by step, what the process has achieved by the *)
(* time it is there (OnCard, InImage, InRequest, InSlot), that Android     *)
(* answers it and slot B is not selected (Attended), what an incomplete    *)
(* phone keeps (Lacks), and what stays of a finished installation while    *)
(* the slot is selected (Armed).                                           *)
(*                                                                         *)
(* The second part is about the sizes of the same installation (Sizes):    *)
(* what rounding does, and the bookkeeping of the free space (SizesInv).   *)
(***************************************************************************)
EXTENDS Installation, Integers, TLAPS

-----------------------------------------------------------------------------
(* The invariant *)

Installing == host.mode \in Installations

\* The steps after the phone's files are collected, in every installation.
Writing == {"upload", "release", "chain", "again", "erase", "readback", "grow", "fill",
            "verify", "image", "keep", "commit", "settle", "payload", "request", "flash",
            "bootcheck", "select", "arm", "end"}

\* The steps between the comparison of the slots and the selection of B.
Ahead(m, pc) ==
    \/ m \in Installations /\ pc \in {"fits", "clear", "room", "consent", "collect"} \cup (Writing \ {"end"})
    \/ m = "part" /\ pc = "plaintext"

\* What precedes what, in whichever mode.
Order(m, pc, next) ==
    /\ next \in Steps \ {"off", "checks"}
    /\ next \in {"reboot", "end"} \cup DOMAIN Following[m]
    /\ m \in Installations /\ next \in Writing => pc = "collect" \/ pc \in Writing
    /\ Ahead(m, next) => pc = "preflight" \/ Ahead(m, pc)
    /\ m = "sd" =>
         /\ next = "readback" => pc = "erase"
         /\ next = "grow" => pc = "readback"
         /\ next = "fill" => pc = "grow"
         /\ next = "verify" => pc = "fill"
         /\ next = "flash" => pc = "verify"
    /\ next = "commit" => pc = "keep"
    /\ m = "data" =>
         /\ next = "chain" => pc = "image"
         /\ next = "keep" => pc = "chain"
         /\ next = "settle" => pc = "commit"
         /\ next = "flash" => pc = "settle"
    /\ m = "part" =>
         /\ next = "request" => pc = "payload"
         /\ next = "chain" => pc = "request"
         /\ next = "flash" => pc = "chain"
    /\ m \in Installations =>
         /\ next = "bootcheck" => pc = "flash"
         /\ next = "select" => pc = "bootcheck"
         /\ next = "arm" => pc = "select"

Whole(r) == [state |-> "whole", by |-> r]

\* The process is at a step of its mode.
Valid == host.pc \in {"off", "reboot", "end"} \cup DOMAIN Following[host.mode]

\* Android answers a process that has come past its first check; from the comparison of
\* the slots on, slot B is not selected; and what slot B started has it selected.
Attended ==
    /\ Valid
    /\ host.pc # "off" => host.run \in Runs
    /\ host.pc \notin {"off", "checks"} => mode = "android"
    /\ Ahead(host.mode, host.pc) => control = "a"
    /\ mode \in {"pending", "initramfs", "linux"} => control # "a"
    /\ ~history.outlived => orphan = NoRun

\* What an installation on a card has achieved, unless a command left behind writes it.
OnCard ==
    ~history.outlived /\ host.mode = "sd" =>
        /\ host.pc = "readback" => card.by = host.run
        /\ host.pc = "grow" => card = By("bare")
        /\ host.pc = "fill" => card = By(IF host.half THEN "marked" ELSE "bare")
        /\ host.pc = "verify" => card \in {By("marked"), By("whole")}
        /\ host.pc \in {"flash", "bootcheck", "select", "arm"} => card = By("whole")

\* What an installation in an image has achieved; at the exchange nothing has the name.
InImage ==
    /\ host.pc = "commit" => store.image.state = "none"
    /\ host.mode = "data" =>
        /\ host.pc \in {"chain", "keep", "commit"} => store.part = By("whole")
        /\ host.pc \in {"settle", "flash", "bootcheck", "select", "arm"} => store.image = By("whole")
        /\ host.pc \in {"flash", "bootcheck", "select", "arm"} => store.files = host.run

\* What an installation in a partition has achieved.
InRequest ==
    host.mode = "part" =>
        /\ host.pc \in {"request", "chain", "flash", "bootcheck", "select", "arm"} =>
             store.payload = host.run /\ store.files = host.run
        /\ host.pc \in {"chain", "flash", "bootcheck", "select", "arm"} => store.request = host.run

\* What every installation has achieved in slot B and the target.
InSlot ==
    Installing =>
        /\ host.pc = "bootcheck" => boot.by = host.run
        /\ host.pc \in {"select", "arm"} => boot = By("whole")
        /\ host.pc = "arm" => target = [os |-> TargetOf[host.mode], once |-> "none"]

\* A phone that lacks a file: no installation comes to where it writes.
Lacks ==
    vendor = "lacking" =>
        /\ Installing => host.pc \notin Writing
        /\ orphan = NoRun
        /\ LackingChangesNothing

\* While slot B is selected for an installation: the slot holds its image, and, unless a
\* command outlived its process, its card or image is whole and is the only one named.
Armed ==
    control # "a" /\ history.armed.mode \in Installations =>
        /\ boot = Whole(history.armed.run)
        /\ ~history.outlived /\ history.armed.mode # "part" =>
             /\ target = [os |-> TargetOf[history.armed.mode], once |-> "none"]
             /\ history.armed.mode = "sd" => card = Whole(history.armed.run)
             /\ history.armed.mode = "data" => store.image = Whole(history.armed.run)

FlashInv == /\ TypeOK /\ Attended /\ OnCard /\ InImage /\ InRequest /\ InSlot
            /\ Lacks /\ Armed

-----------------------------------------------------------------------------
(* The steps of the process *)

\* Read off the tables of the modes.
LEMMA Follows ==
    ASSUME NEW m \in Modes \cup {"check"}, NEW pc \in DOMAIN Following[m]
    PROVE  Order(m, pc, Following[m][pc])
<1>c. CASE m = "check"
  BY <1>c DEF Following, CheckOnly, Steps, Order, Ahead, Writing, Installations
<1>b. CASE m = "boot"
  BY <1>b DEF Following, BootInstalled, Steps, Order, Ahead, Writing, Installations
<1>s. CASE m = "sd"
  BY <1>s DEF Following, InstallSd, Steps, Order, Ahead, Writing, Installations
<1>d. CASE m = "data"
  BY <1>d DEF Following, InstallData, Steps, Order, Ahead, Writing, Installations
<1>p. CASE m = "part"
  BY <1>p DEF Following, InstallPart, Steps, Order, Ahead, Writing, Installations
<1>q. QED BY <1>c, <1>b, <1>s, <1>d, <1>p, ModesAssumption

\* What a step that proceeds does to the process.
LEMMA Proceeds ==
    ASSUME TypeOK, Valid, host.pc \notin {"off", "reboot", "end"}, Proceed
    PROVE  /\ host' \in [mode : Modes \cup {"check"}, run : Owner, pc : Steps, half : BOOLEAN]
           /\ host'.mode = host.mode /\ host'.run = host.run /\ host'.half = FALSE
           /\ Order(host.mode, host.pc, host'.pc)
           /\ host.mode \in Modes \cup {"check"} /\ host.pc \in DOMAIN Following[host.mode]
<1>1. host.mode \in Modes \cup {"check"} /\ host.pc \in DOMAIN Following[host.mode]
  BY DEF TypeOK, Valid
<1>2. Order(host.mode, host.pc, Following[host.mode][host.pc])
  BY <1>1, Follows
<1>3. Following[host.mode][host.pc] \in Steps
  BY <1>2 DEF Order
<1>q. QED BY <1>1, <1>2, <1>3 DEF TypeOK, Proceed, Goto

\* A long command has begun, and the process is where it was.
LEMMA Halves ==
    ASSUME TypeOK, host' = [host EXCEPT !.half = TRUE]
    PROVE  /\ host' \in [mode : Modes \cup {"check"}, run : Owner, pc : Steps, half : BOOLEAN]
           /\ host'.mode = host.mode /\ host'.run = host.run /\ host'.pc = host.pc
           /\ host'.half
BY DEF TypeOK

\* A step that looks, and one whose command leaves the device as it was.
LEMMA LookKeeps ==
    ASSUME FlashInv, Proceed, UNCHANGED <<left, device>>,
           tmp' \subseteq {"tools", "bootchain", "e5pull", "files", "image", "boot"},
           mode = "android",
           host.pc \in {"checks", "tools", "plaintext", "preflight", "fits", "clear", "room",
                       "inspect", "consent", "discard", "upload", "release", "chain", "again",
                       "readback", "grow", "verify", "bootcheck"},
           host.pc = "preflight" => control = "a",
           host.pc = "readback" => card.state = "bare",
           host.pc = "verify" => card.state # "marked",
           host.pc = "bootcheck" => boot.state = "whole"
    PROVE  FlashInv'
<1>p. /\ host' \in [mode : Modes \cup {"check"}, run : Owner, pc : Steps, half : BOOLEAN]
      /\ host'.mode = host.mode /\ host'.run = host.run /\ host'.half = FALSE
      /\ Order(host.mode, host.pc, host'.pc)
      /\ host.mode \in Modes \cup {"check"} /\ host.pc \in DOMAIN Following[host.mode]
  BY Proceeds DEF FlashInv, Attended
<1>d. UNCHANGED <<card, store, root, boot, target, control, mode, vendor, orphan, history>>
  BY DEF device
<1>1. TypeOK'
  BY <1>p, <1>d DEF FlashInv, TypeOK, Content, Owner
<1>2. Attended'
  BY <1>p, <1>d DEF FlashInv, Order, Attended, Valid, Ahead, Writing
<1>3. OnCard'
  BY <1>p, <1>d DEF FlashInv, Order, OnCard, Installations, TypeOK, Content, By
<1>4. InImage'
  BY <1>p, <1>d DEF FlashInv, Order, InImage, Installations, By
<1>5. InRequest'
  BY <1>p, <1>d DEF FlashInv, Order, InRequest, Installations
<1>6. InSlot'
  BY <1>p, <1>d DEF FlashInv, Order, InSlot, Installing, Installations, TypeOK, Content, By
<1>7. Lacks'
  BY <1>p, <1>d DEF FlashInv, Order, Lacks, Installing, Installations, LackingChangesNothing, Writing
<1>8. Armed'
  BY <1>p, <1>d DEF FlashInv, Armed, Whole
<1>q. QED BY <1>1, <1>2, <1>3, <1>4, <1>5, <1>6, <1>7, <1>8 DEF FlashInv

\* A step that writes belongs to an installation, of one kind; it has the phone's files,
\* and slot B is not selected.
LEMMA Works ==
    ASSUME FlashInv, host.pc \in Writing \ {"arm", "end"}
    PROVE  /\ Installing /\ vendor = "complete" /\ control = "a" /\ mode = "android"
           /\ host.run \in Runs
           /\ host.pc \in {"erase", "fill"} => host.mode = "sd"
           /\ host.pc \in {"image", "keep", "commit", "settle"} => host.mode = "data"
           /\ host.pc \in {"payload", "request"} => host.mode = "part"
<1>1. host.mode \in {"sd", "data", "part", "boot", "check"}
  BY ModesAssumption DEF FlashInv, TypeOK
<1>2. host.pc \in DOMAIN Following[host.mode]
  BY DEF FlashInv, Attended, Valid, Writing
<1>3. Installing
  BY <1>1, <1>2 DEF Following, BootInstalled, CheckOnly, Installing, Installations, Writing
<1>4. /\ host.pc \in {"erase", "fill"} => host.mode = "sd"
      /\ host.pc \in {"image", "keep", "commit", "settle"} => host.mode = "data"
      /\ host.pc \in {"payload", "request"} => host.mode = "part"
  BY <1>2, <1>3 DEF Following, InstallSd, InstallData, InstallPart, Installing, Installations
<1>5. Ahead(host.mode, host.pc) /\ host.pc \notin {"off", "checks"}
  BY <1>3 DEF Ahead, Installing, Writing
<1>6. control = "a" /\ mode = "android" /\ host.run \in Runs
  BY <1>5 DEF FlashInv, Attended
<1>7. vendor = "complete"
  BY <1>3 DEF FlashInv, TypeOK, Lacks, Writing
<1>q. QED BY <1>3, <1>4, <1>6, <1>7

\* What is left to show of a step that writes.
LEMMA WorkKeeps ==
    ASSUME FlashInv, host.pc \in Writing \ {"arm", "end"},
           Proceed \/ host' = [host EXCEPT !.half = TRUE],
           UNCHANGED <<left, control, mode, vendor, orphan, history>>,
           TypeOK', OnCard', InImage', InRequest', InSlot'
    PROVE  FlashInv'
<1>w. Installing /\ vendor = "complete" /\ control = "a" /\ mode = "android" /\ host.run \in Runs
  BY Works
<1>1. host'.run = host.run /\ host'.pc # "checks" /\ Valid'
  <2>1. CASE Proceed
    BY <2>1, Proceeds DEF FlashInv, Attended, Writing, Order, Valid
  <2>2. CASE host' = [host EXCEPT !.half = TRUE]
    BY <2>2 DEF FlashInv, Attended, TypeOK, Valid, Writing
  <2>q. QED BY <2>1, <2>2
<1>2. Attended'
  BY <1>w, <1>1 DEF FlashInv, Attended
<1>3. Lacks' /\ Armed'
  BY <1>w DEF Lacks, Armed
<1>q. QED BY <1>2, <1>3 DEF FlashInv

-----------------------------------------------------------------------------
(* The steps that write: the card, the image, the request, slot B *)

LEMMA EraseBeginsKeeps == ASSUME FlashInv, EraseBegins PROVE FlashInv'
<1>w. host.mode = "sd" /\ host.run \in Owner /\ host.pc = "erase"
  BY Works DEF EraseBegins, Begins, At, Writing, Owner
<1>p. /\ host' \in [mode : Modes \cup {"check"}, run : Owner, pc : Steps, half : BOOLEAN]
      /\ host'.mode = "sd" /\ host'.pc = "erase"
  BY <1>w, Halves DEF FlashInv, EraseBegins, Begins
<1>t. TypeOK'
  BY <1>w, <1>p DEF FlashInv, EraseBegins, Begins, TypeOK, Content, By
<1>1. OnCard' /\ InImage' /\ InRequest' /\ InSlot'
  BY <1>p DEF OnCard, InImage, InRequest, InSlot
<1>q. QED BY <1>w, <1>t, <1>1, WorkKeeps DEF EraseBegins, Begins, Writing

LEMMA EraseEndsKeeps == ASSUME FlashInv, EraseEnds PROVE FlashInv'
<1>w. host.mode = "sd" /\ host.run \in Owner /\ host.pc = "erase"
  BY Works DEF EraseEnds, Ends, Writing, Owner
<1>p. /\ host' \in [mode : Modes \cup {"check"}, run : Owner, pc : Steps, half : BOOLEAN]
      /\ host'.mode = "sd" /\ host'.run = host.run /\ host'.pc = "readback"
  BY <1>w, Proceeds DEF FlashInv, Attended, TypeOK, EraseEnds, Ends, Proceed, Goto, Following, InstallSd
<1>t. TypeOK'
  BY <1>w, <1>p DEF FlashInv, EraseEnds, Ends, TypeOK, Content, By
<1>1. OnCard' /\ InImage' /\ InRequest' /\ InSlot'
  BY <1>w, <1>p DEF OnCard, InImage, InRequest, InSlot, EraseEnds, By
<1>q. QED BY <1>w, <1>t, <1>1, WorkKeeps DEF EraseEnds, Ends, Writing

LEMMA FillBeginsKeeps == ASSUME FlashInv, FillBegins PROVE FlashInv'
<1>w. host.mode = "sd" /\ host.run \in Owner /\ host.pc = "fill" /\ ~host.half
  BY Works DEF FillBegins, Begins, At, Writing, Owner
<1>p. /\ host' \in [mode : Modes \cup {"check"}, run : Owner, pc : Steps, half : BOOLEAN]
      /\ host'.mode = "sd" /\ host'.pc = "fill" /\ host'.run = host.run /\ host'.half
  BY <1>w, Halves DEF FlashInv, FillBegins, Begins
<1>t. TypeOK'
  BY <1>w, <1>p DEF FlashInv, FillBegins, Begins, TypeOK, Content, By
<1>1. OnCard' /\ InImage' /\ InRequest' /\ InSlot'
  BY <1>w, <1>p DEF FlashInv, TypeOK, Content, FillBegins, By, OnCard, InImage, InRequest, InSlot
<1>q. QED BY <1>w, <1>t, <1>1, WorkKeeps DEF FillBegins, Begins, Writing

LEMMA FillEndsKeeps == ASSUME FlashInv, FillEnds PROVE FlashInv'
<1>w. host.mode = "sd" /\ host.run \in Owner /\ host.pc = "fill" /\ host.half
  BY Works DEF FillEnds, Ends, Writing, Owner
<1>p. /\ host' \in [mode : Modes \cup {"check"}, run : Owner, pc : Steps, half : BOOLEAN]
      /\ host'.mode = "sd" /\ host'.run = host.run /\ host'.pc = "verify" /\ host'.half = FALSE
  BY <1>w, Proceeds DEF FlashInv, Attended, TypeOK, FillEnds, Ends, Proceed, Goto, Following, InstallSd
<1>t. TypeOK'
  BY <1>w, <1>p DEF FlashInv, FillEnds, Ends, TypeOK, Content, By, Nothing, Owner
<1>1. OnCard' /\ InImage' /\ InRequest' /\ InSlot'
  BY <1>w, <1>p DEF FlashInv, TypeOK, Content, FillEnds, By, OnCard, InImage, InRequest, InSlot
<1>q. QED BY <1>w, <1>t, <1>1, WorkKeeps DEF FillEnds, Ends, Writing

LEMMA ImageBeginsKeeps == ASSUME FlashInv, ImageBegins PROVE FlashInv'
<1>w. host.mode = "data" /\ host.run \in Owner /\ host.pc = "image" /\ ~host.half
  BY Works DEF ImageBegins, Begins, At, Writing, Owner
<1>p. /\ host' \in [mode : Modes \cup {"check"}, run : Owner, pc : Steps, half : BOOLEAN]
      /\ host'.mode = "data" /\ host'.pc = "image" /\ host'.run = host.run /\ host'.half
  BY <1>w, Halves DEF FlashInv, ImageBegins, Begins
<1>t. TypeOK'
  BY <1>w, <1>p DEF FlashInv, ImageBegins, Begins, TypeOK, Content, By
<1>1. OnCard' /\ InImage' /\ InRequest' /\ InSlot'
  BY <1>w, <1>p DEF OnCard, InImage, InRequest, InSlot
<1>q. QED BY <1>w, <1>t, <1>1, WorkKeeps DEF ImageBegins, Begins, Writing

LEMMA ImageEndsKeeps == ASSUME FlashInv, ImageEnds PROVE FlashInv'
<1>w. host.mode = "data" /\ host.run \in Owner /\ host.pc = "image" /\ host.half
  BY Works DEF ImageEnds, Ends, Writing, Owner
<1>p. /\ host' \in [mode : Modes \cup {"check"}, run : Owner, pc : Steps, half : BOOLEAN]
      /\ host'.mode = "data" /\ host'.run = host.run /\ host'.pc = "chain" /\ host'.half = FALSE
  BY <1>w, Proceeds DEF FlashInv, Attended, TypeOK, ImageEnds, Ends, Proceed, Goto, Following, InstallData
<1>t. TypeOK'
  BY <1>w, <1>p DEF FlashInv, ImageEnds, Ends, TypeOK, Content, By, Nothing, Owner
<1>1. OnCard' /\ InImage' /\ InRequest' /\ InSlot'
  BY <1>w, <1>p DEF FlashInv, TypeOK, Content, ImageEnds, By, OnCard, InImage, InRequest, InSlot
<1>q. QED BY <1>w, <1>t, <1>1, WorkKeeps DEF ImageEnds, Ends, Writing

LEMMA KeepOldKeeps == ASSUME FlashInv, KeepOld PROVE FlashInv'
<1>w. host.mode = "data" /\ host.run \in Owner /\ host.pc = "keep"
  BY Works DEF KeepOld, At, Writing, Owner
<1>p. /\ host' \in [mode : Modes \cup {"check"}, run : Owner, pc : Steps, half : BOOLEAN]
      /\ host'.mode = "data" /\ host'.run = host.run /\ host'.pc = "commit" /\ host'.half = FALSE
  BY <1>w, Proceeds DEF FlashInv, Attended, TypeOK, KeepOld, At, Proceed, Goto, Following, InstallData
<1>n. Nothing \in Content
  BY DEF Nothing, Content, Owner
<1>o. store.image.by \in Owner
  BY DEF FlashInv, TypeOK, Content
<1>s. store' \in [image : Content, part : Content, kept : SUBSET Owner, files : Owner,
                 payload : Owner, request : Owner]
  BY <1>n, <1>o DEF FlashInv, TypeOK, KeepOld
<1>t. TypeOK'
  BY <1>s, <1>p DEF FlashInv, KeepOld, TypeOK
<1>1. OnCard' /\ InImage' /\ InRequest' /\ InSlot'
  BY <1>w, <1>p DEF FlashInv, TypeOK, Content, KeepOld, Nothing, By, OnCard, InImage, InRequest, InSlot
<1>q. QED BY <1>w, <1>t, <1>1, WorkKeeps DEF KeepOld, At, Writing

LEMMA CommitImageKeeps == ASSUME FlashInv, CommitImage PROVE FlashInv'
<1>w. host.mode = "data" /\ host.run \in Owner /\ host.pc = "commit"
  BY Works DEF CommitImage, At, Writing, Owner
<1>p. /\ host' \in [mode : Modes \cup {"check"}, run : Owner, pc : Steps, half : BOOLEAN]
      /\ host'.mode = "data" /\ host'.run = host.run /\ host'.pc = "settle" /\ host'.half = FALSE
  BY <1>w, Proceeds DEF FlashInv, Attended, TypeOK, CommitImage, At, Proceed, Goto, Following, InstallData
<1>n. Nothing \in Content
  BY DEF Nothing, Content, Owner
<1>s. store' \in [image : Content, part : Content, kept : SUBSET Owner, files : Owner,
                 payload : Owner, request : Owner]
  BY <1>n, <1>w DEF FlashInv, TypeOK, CommitImage
<1>t. TypeOK'
  BY <1>s, <1>p DEF FlashInv, CommitImage, TypeOK
<1>1. OnCard' /\ InImage' /\ InRequest' /\ InSlot'
  BY <1>w, <1>p DEF FlashInv, TypeOK, Content, CommitImage, By, OnCard, InImage, InRequest, InSlot
<1>q. QED BY <1>w, <1>t, <1>1, WorkKeeps DEF CommitImage, At, Writing

LEMMA CommitFilesKeeps == ASSUME FlashInv, CommitFiles PROVE FlashInv'
<1>w. host.mode = "data" /\ host.run \in Owner /\ host.pc = "settle"
  BY Works DEF CommitFiles, At, Writing, Owner
<1>p. /\ host' \in [mode : Modes \cup {"check"}, run : Owner, pc : Steps, half : BOOLEAN]
      /\ host'.mode = "data" /\ host'.run = host.run /\ host'.pc = "flash" /\ host'.half = FALSE
  BY <1>w, Proceeds DEF FlashInv, Attended, TypeOK, CommitFiles, At, Proceed, Goto, Following, InstallData
<1>t. TypeOK'
  BY <1>w, <1>p DEF FlashInv, CommitFiles, At, TypeOK, Content, By, Nothing, Owner
<1>1. OnCard' /\ InImage' /\ InRequest' /\ InSlot'
  BY <1>w, <1>p DEF FlashInv, TypeOK, Content, CommitFiles, By, OnCard, InImage, InRequest, InSlot
<1>q. QED BY <1>w, <1>t, <1>1, WorkKeeps DEF CommitFiles, At, Writing

LEMMA StagePayloadKeeps == ASSUME FlashInv, StagePayload PROVE FlashInv'
<1>w. host.mode = "part" /\ host.run \in Owner /\ host.pc = "payload"
  BY Works DEF StagePayload, At, Writing, Owner
<1>p. /\ host' \in [mode : Modes \cup {"check"}, run : Owner, pc : Steps, half : BOOLEAN]
      /\ host'.mode = "part" /\ host'.run = host.run /\ host'.pc = "request" /\ host'.half = FALSE
  BY <1>w, Proceeds DEF FlashInv, Attended, TypeOK, StagePayload, At, Proceed, Goto, Following, InstallPart
<1>s. store' \in [image : Content, part : Content, kept : SUBSET Owner, files : Owner,
                 payload : Owner, request : Owner]
  BY <1>w DEF FlashInv, TypeOK, StagePayload
<1>t. TypeOK'
  BY <1>s, <1>p DEF FlashInv, StagePayload, TypeOK
<1>1. OnCard' /\ InImage' /\ InRequest' /\ InSlot'
  BY <1>w, <1>p DEF FlashInv, TypeOK, Content, StagePayload, By, OnCard, InImage, InRequest, InSlot
<1>q. QED BY <1>w, <1>t, <1>1, WorkKeeps DEF StagePayload, At, Writing

LEMMA StageRequestKeeps == ASSUME FlashInv, StageRequest PROVE FlashInv'
<1>w. host.mode = "part" /\ host.run \in Owner /\ host.pc = "request"
  BY Works DEF StageRequest, At, Writing, Owner
<1>p. /\ host' \in [mode : Modes \cup {"check"}, run : Owner, pc : Steps, half : BOOLEAN]
      /\ host'.mode = "part" /\ host'.run = host.run /\ host'.pc = "chain" /\ host'.half = FALSE
  BY <1>w, Proceeds DEF FlashInv, Attended, TypeOK, StageRequest, At, Proceed, Goto, Following, InstallPart
<1>t. TypeOK'
  BY <1>w, <1>p DEF FlashInv, StageRequest, At, TypeOK, Content, By, Nothing, Owner
<1>1. OnCard' /\ InImage' /\ InRequest' /\ InSlot'
  BY <1>w, <1>p DEF FlashInv, TypeOK, Content, StageRequest, By, OnCard, InImage, InRequest, InSlot
<1>q. QED BY <1>w, <1>t, <1>1, WorkKeeps DEF StageRequest, At, Writing

LEMMA FlashBeginsKeeps == ASSUME FlashInv, FlashBegins PROVE FlashInv'
<1>w. host.run \in Owner /\ host.pc = "flash" /\ ~host.half
  BY Works DEF FlashBegins, Begins, At, Writing, Owner
<1>p. /\ host' \in [mode : Modes \cup {"check"}, run : Owner, pc : Steps, half : BOOLEAN]
      /\ host'.mode = host.mode /\ host'.pc = "flash" /\ host'.run = host.run
  BY <1>w, Halves DEF FlashInv, FlashBegins, Begins
<1>t. TypeOK'
  BY <1>w, <1>p DEF FlashInv, FlashBegins, Begins, TypeOK, Content, By
<1>1. OnCard' /\ InImage' /\ InRequest' /\ InSlot'
  BY <1>w, <1>p DEF FlashInv, FlashBegins, By, OnCard, InImage, InRequest, InSlot
<1>q. QED BY <1>w, <1>t, <1>1, WorkKeeps DEF FlashBegins, Begins, Writing

LEMMA FlashEndsKeeps == ASSUME FlashInv, FlashEnds PROVE FlashInv'
<1>w. Installing /\ host.run \in Owner /\ host.pc = "flash"
  BY Works DEF FlashEnds, Ends, Writing, Owner
<1>p. /\ host' \in [mode : Modes \cup {"check"}, run : Owner, pc : Steps, half : BOOLEAN]
      /\ host'.mode = host.mode /\ host'.run = host.run /\ host'.pc = "bootcheck"
      /\ host'.half = FALSE
  BY <1>w, Proceeds DEF FlashInv, Attended, TypeOK, FlashEnds, Ends, Proceed, Goto,
     Following, InstallSd, InstallData, InstallPart, Installing, Installations
<1>t. TypeOK'
  BY <1>w, <1>p DEF FlashInv, FlashEnds, Ends, TypeOK, Content, By
<1>1. OnCard' /\ InImage' /\ InRequest' /\ InSlot'
  BY <1>w, <1>p DEF FlashInv, FlashEnds, By, OnCard, InImage, InRequest, InSlot
<1>q. QED BY <1>w, <1>t, <1>1, WorkKeeps DEF FlashEnds, Ends, Writing

LEMMA RecordTargetKeeps == ASSUME FlashInv, RecordTarget PROVE FlashInv'
<1>w. Installing /\ host.run \in Owner /\ host.pc = "select"
  BY Works DEF RecordTarget, At, Writing, Owner
<1>p. /\ host' \in [mode : Modes \cup {"check"}, run : Owner, pc : Steps, half : BOOLEAN]
      /\ host'.mode = host.mode /\ host'.run = host.run /\ host'.pc = "arm"
      /\ host'.half = FALSE
  BY <1>w, Proceeds DEF FlashInv, Attended, TypeOK, RecordTarget, At, Proceed, Goto,
     Following, InstallSd, InstallData, InstallPart, Installing, Installations
<1>o. TargetOf[host.mode] \in {"none", "sd", "openwrt", "part"}
  BY <1>w DEF TargetOf, Installing, Installations
<1>t. TypeOK'
  BY <1>o, <1>p DEF FlashInv, RecordTarget, At, TypeOK
<1>1. OnCard' /\ InImage' /\ InRequest' /\ InSlot'
  BY <1>w, <1>p DEF FlashInv, RecordTarget, By, OnCard, InImage, InRequest, InSlot
<1>q. QED BY <1>w, <1>t, <1>1, WorkKeeps DEF RecordTarget, At, Writing

\* Slot B is selected by an installation that is complete, or for what is installed.
LEMMA ArmKeeps == ASSUME FlashInv, ArmSlotB PROVE FlashInv'
<1>w. host.pc = "arm" /\ mode = "android" /\ host.pc \in DOMAIN Following[host.mode]
  BY DEF FlashInv, Attended, Valid, ArmSlotB, At
<1>m. host.mode \in Installations \cup {"boot"} /\ host.mode \in Modes \cup {"check"}
  <2>1. host.mode \in {"sd", "data", "part", "boot", "check"} /\ host.mode \in Modes \cup {"check"}
    BY ModesAssumption DEF FlashInv, TypeOK
  <2>2. host.mode # "check"
    BY <1>w DEF Following, CheckOnly
  <2>q. QED BY <2>1, <2>2 DEF Installations
<1>p. /\ host' \in [mode : Modes \cup {"check"}, run : Owner, pc : Steps, half : BOOLEAN]
      /\ host'.mode = host.mode /\ host'.run = host.run /\ host'.pc \in {"end", "reboot"}
      /\ Installing => host'.pc = "end"
  BY <1>w, <1>m, Proceeds DEF FlashInv, Attended, TypeOK, ArmSlotB, At, Proceed, Goto,
     Following, InstallSd, InstallData, InstallPart, BootInstalled, Installing, Installations
<1>h. /\ history' \in [armed : [mode : Modes \cup {"check"}, run : Owner],
                      carver : {"none", "asked", "unasked"},
                      started : {"none", "sd", "openwrt", "part"},
                      finished : SUBSET Owner, again : BOOLEAN, outlived : BOOLEAN]
      /\ history'.armed = [mode |-> host.mode, run |-> host.run]
      /\ history'.outlived = history.outlived
  BY <1>m DEF FlashInv, TypeOK, ArmSlotB
<1>t. TypeOK'
  BY <1>p, <1>h DEF FlashInv, TypeOK, ArmSlotB
<1>1. Attended'
  BY <1>w, <1>p, <1>h DEF FlashInv, Attended, Valid, Ahead, Writing, ArmSlotB
<1>2. OnCard' /\ InImage' /\ InRequest' /\ InSlot'
  BY <1>p DEF OnCard, InImage, InRequest, InSlot
<1>3. Lacks'
  <2>1. Installing => vendor = "complete"
    BY <1>w DEF FlashInv, TypeOK, Lacks, Writing
  <2>q. QED BY <1>p, <2>1 DEF FlashInv, Lacks, LackingChangesNothing, ArmSlotB, Installing
<1>4. Armed'
  BY <1>w, <1>h DEF FlashInv, Armed, ArmSlotB, OnCard, InImage, InSlot, Installing, Installations,
     Whole, By
<1>q. QED BY <1>t, <1>1, <1>2, <1>3, <1>4 DEF FlashInv

-----------------------------------------------------------------------------
(* What does not write *)

\* The process is gone: nothing is asked of it any more.
LEMMA NoProcess ==
    ASSUME host' = Off
    PROVE  /\ host' \in [mode : Modes \cup {"check"}, run : Owner, pc : Steps, half : BOOLEAN]
           /\ Valid' /\ OnCard' /\ InImage' /\ InRequest' /\ InSlot'
           /\ host'.pc = "off" /\ ~Ahead(host'.mode, host'.pc) /\ ~Installing'
BY DEF Off, Owner, Steps, Valid, OnCard, InImage, InRequest, InSlot, Installing, Installations, Ahead

\* Away from Android a process has nothing behind it.
LEMMA Away ==
    ASSUME FlashInv, mode # "android", UNCHANGED host
    PROVE  /\ host.pc \in {"off", "checks"}
           /\ Valid' /\ OnCard' /\ InImage' /\ InRequest' /\ InSlot'
           /\ ~Ahead(host'.mode, host'.pc)
<1>1. host.pc \in {"off", "checks"}
  BY DEF FlashInv, Attended
<1>q. QED
  BY <1>1 DEF FlashInv, Attended, Valid, OnCard, InImage, InRequest, InSlot, Ahead, Writing

LEMMA StartKeeps ==
    ASSUME FlashInv, NEW r \in Runs, NEW m \in Modes, Start(r, m)
    PROVE  FlashInv'
<1>d. UNCHANGED <<card, store, root, boot, target, control, mode, vendor, orphan, history>>
  BY DEF Start, device
<1>p. /\ host' \in [mode : Modes \cup {"check"}, run : Owner, pc : Steps, half : BOOLEAN]
      /\ host'.mode = m /\ host'.run = r /\ host'.pc = "checks"
  BY DEF Start, Owner, Steps
<1>t. TypeOK'
  BY <1>d, <1>p DEF FlashInv, TypeOK, Start
<1>v. Valid'
  BY <1>p, ModesAssumption DEF Valid, Following, InstallSd, InstallData, InstallPart,
     BootInstalled, CheckOnly
<1>1. Attended'
  BY <1>d, <1>p, <1>v DEF FlashInv, Attended, Ahead, Writing
<1>2. OnCard' /\ InImage' /\ InRequest' /\ InSlot'
  BY <1>p DEF OnCard, InImage, InRequest, InSlot
<1>3. Lacks' /\ Armed'
  BY <1>d, <1>p DEF FlashInv, Lacks, Writing, LackingChangesNothing, Armed
<1>q. QED BY <1>t, <1>1, <1>2, <1>3 DEF FlashInv

LEMMA CollectBeginsKeeps == ASSUME FlashInv, CollectBegins PROVE FlashInv'
<1>d. UNCHANGED <<card, store, root, boot, target, control, mode, vendor, orphan, history>>
  BY DEF CollectBegins, device
<1>p. /\ host' \in [mode : Modes \cup {"check"}, run : Owner, pc : Steps, half : BOOLEAN]
      /\ host'.mode = host.mode /\ host'.run = host.run /\ host'.pc = "collect"
      /\ host.pc = "collect"
  BY Halves DEF FlashInv, CollectBegins, At
<1>t. TypeOK'
  BY <1>d, <1>p DEF FlashInv, TypeOK, CollectBegins
<1>1. Attended'
  BY <1>d, <1>p DEF FlashInv, Attended, Valid
<1>2. OnCard' /\ InImage' /\ InRequest' /\ InSlot'
  BY <1>p DEF OnCard, InImage, InRequest, InSlot
<1>3. Lacks' /\ Armed'
  BY <1>d, <1>p DEF FlashInv, Lacks, Installing, LackingChangesNothing, Armed, Writing
<1>q. QED BY <1>t, <1>1, <1>2, <1>3 DEF FlashInv

\* Without the files an installation does not come past this.
LEMMA CollectEndsKeeps == ASSUME FlashInv, CollectEnds PROVE FlashInv'
<1>d. UNCHANGED <<left, card, store, root, boot, target, control, mode, vendor, orphan, history>>
  BY DEF CollectEnds, Ends, device
<1>p. /\ host' \in [mode : Modes \cup {"check"}, run : Owner, pc : Steps, half : BOOLEAN]
      /\ host'.mode = host.mode /\ host'.run = host.run /\ host'.half = FALSE
      /\ Order(host.mode, host.pc, host'.pc) /\ host.pc = "collect" /\ vendor = "complete"
      /\ host.mode \in Modes \cup {"check"} /\ mode = "android"
  BY Proceeds DEF FlashInv, Attended, CollectEnds, Ends
<1>t. TypeOK'
  BY <1>d, <1>p DEF FlashInv, TypeOK, CollectEnds
<1>1. Attended'
  BY <1>d, <1>p DEF FlashInv, Attended, Valid, Order
<1>2. OnCard' /\ InImage' /\ InRequest' /\ InSlot'
  BY <1>p DEF OnCard, InImage, InRequest, InSlot, Installing, Installations, Order
<1>3. Lacks' /\ Armed'
  BY <1>d, <1>p DEF FlashInv, Lacks, Armed
<1>q. QED BY <1>t, <1>1, <1>2, <1>3 DEF FlashInv

\* The device as it was, and the process gone.
LEMMA GoneKeeps ==
    ASSUME FlashInv, host' = Off, tmp' = tmp, UNCHANGED <<left, device>>
    PROVE  FlashInv'
<1>d. UNCHANGED <<left, card, store, root, boot, target, control, mode, vendor, orphan, history>>
  BY DEF device
<1>t. TypeOK'
  BY <1>d, NoProcess DEF FlashInv, TypeOK, Owner
<1>1. Attended'
  BY <1>d, NoProcess DEF FlashInv, Attended
<1>2. Lacks' /\ Armed'
  BY <1>d, NoProcess DEF FlashInv, Lacks, LackingChangesNothing, Armed
<1>q. QED BY <1>t, <1>1, <1>2, NoProcess DEF FlashInv

LEMMA StopKeeps == ASSUME FlashInv, Stop PROVE FlashInv'
<1>o. /\ Valid' /\ OnCard' /\ InImage' /\ InRequest' /\ InSlot'
      /\ host' \in [mode : Modes \cup {"check"}, run : Owner, pc : Steps, half : BOOLEAN]
      /\ host'.pc = "off" /\ ~Ahead(host'.mode, host'.pc) /\ ~Installing'
  BY NoProcess DEF Stop
<1>n. Nothing \in Content
  BY DEF Nothing, Content, Owner
<1>s. store' \in [image : Content, part : Content, kept : SUBSET Owner, files : Owner,
                 payload : Owner, request : Owner]
      /\ store'.image = store.image /\ store'.request = store.request
      /\ store'.part \in {store.part, Nothing}
  BY <1>n DEF FlashInv, TypeOK, Stop
<1>h. /\ orphan' \in Owner
      /\ history' \in [armed : [mode : Modes \cup {"check"}, run : Owner],
                      carver : {"none", "asked", "unasked"},
                      started : {"none", "sd", "openwrt", "part"},
                      finished : SUBSET Owner, again : BOOLEAN, outlived : BOOLEAN]
      /\ history'.armed = history.armed
      /\ \/ orphan' = orphan /\ history' = history
         \/ host.pc = "erase" /\ history'.outlived
  <2>1. CASE UNCHANGED <<orphan, history>>
    BY <2>1 DEF FlashInv, TypeOK
  <2>2. CASE /\ host.pc = "erase" /\ orphan' = host.run
             /\ history' = [history EXCEPT !.outlived = TRUE]
    <3>1. host.run \in Owner /\ host.pc = "erase"
      BY <2>2 DEF FlashInv, TypeOK
    <3>2. /\ history' \in [armed : [mode : Modes \cup {"check"}, run : Owner],
                          carver : {"none", "asked", "unasked"},
                          started : {"none", "sd", "openwrt", "part"},
                          finished : SUBSET Owner, again : BOOLEAN, outlived : BOOLEAN]
          /\ history'.armed = history.armed /\ history'.outlived
      BY <2>2 DEF FlashInv, TypeOK
    <3>q. QED BY <2>2, <3>1, <3>2
  <2>q. QED BY <2>1, <2>2 DEF Stop
<1>t. TypeOK'
  BY <1>o, <1>s, <1>h DEF FlashInv, TypeOK, Stop
<1>1. Attended'
  BY <1>o, <1>h DEF FlashInv, Attended, Stop
<1>2. Lacks'
  <2>1. host.pc = "erase" => vendor = "complete"
    BY Works DEF Writing
  <2>q. QED BY <1>o, <1>s, <1>h, <2>1 DEF FlashInv, Lacks, LackingChangesNothing, Stop
<1>3. Armed'
  BY <1>s, <1>h DEF FlashInv, Armed, Whole, Stop
<1>q. QED BY <1>o, <1>t, <1>1, <1>2, <1>3 DEF FlashInv

\* The device restarts, or loses its power.
LEMMA RestartKeeps ==
    ASSUME FlashInv, host' = Off, mode' = "off", UNCHANGED <<left, tmp>>,
           UNCHANGED <<card, store, root, boot, target, control, vendor, history>>,
           orphan' \in {orphan, NoRun}
    PROVE  FlashInv'
<1>t. TypeOK'
  BY NoProcess DEF FlashInv, TypeOK, Owner
<1>1. Attended'
  BY NoProcess DEF FlashInv, Attended
<1>2. Lacks' /\ Armed'
  BY NoProcess DEF FlashInv, Lacks, LackingChangesNothing, Armed
<1>q. QED BY <1>t, <1>1, <1>2, NoProcess DEF FlashInv

\* A command left behind: a phone that lacks a file has none, and what becomes of the
\* card is no longer promised.
LEMMA OrphanKeeps ==
    ASSUME FlashInv, orphan # NoRun,
           card' \in Content, orphan' \in {orphan, NoRun},
           UNCHANGED <<left, host, tmp, store, root, boot, target, control, mode, vendor, history>>
    PROVE  FlashInv'
<1>o. history.outlived /\ vendor = "complete"
  BY DEF FlashInv, Attended, Lacks, TypeOK
<1>t. TypeOK'
  BY DEF FlashInv, TypeOK, Owner
<1>1. Attended'
  BY <1>o DEF FlashInv, Attended, Valid
<1>2. OnCard' /\ InImage' /\ InRequest' /\ InSlot'
  BY <1>o DEF FlashInv, OnCard, InImage, InRequest, InSlot, Installing, By
<1>3. Lacks' /\ Armed'
  BY <1>o DEF FlashInv, Lacks, Armed
<1>q. QED BY <1>t, <1>1, <1>2, <1>3 DEF FlashInv

-----------------------------------------------------------------------------
(* The device *)

\* A step of the device away from Android: the card, the image and slot B stay, and
\* the target if a run that selected the slot relies on it.
LEMMA DeviceKeeps ==
    ASSUME FlashInv, TypeOK', mode # "android",
           UNCHANGED <<host, card, boot, vendor, orphan>>,
           history'.armed = history.armed, history'.outlived = history.outlived,
           store'.image = store.image, store'.part = store.part,
           store'.request \in {store.request, NoRun},
           target' = target \/ (target'.os = target.os /\ target'.once = "none"),
           control' = "a" \/ control # "a",
           mode' \in {"pending", "initramfs", "linux"} => control' # "a"
    PROVE  FlashInv'
<1>a. /\ host.pc \in {"off", "checks"}
      /\ Valid' /\ OnCard' /\ InImage' /\ InRequest' /\ InSlot'
      /\ ~Ahead(host'.mode, host'.pc)
  BY Away
<1>1. Attended'
  BY <1>a DEF FlashInv, Attended
<1>2. Lacks'
  BY <1>a DEF FlashInv, Lacks, Installing, LackingChangesNothing
<1>3. target.once = "none" => target' = target
  BY DEF FlashInv, TypeOK
<1>4. Armed'
  BY <1>3 DEF FlashInv, Armed, Whole
<1>q. QED BY <1>a, <1>1, <1>2, <1>4 DEF FlashInv

LEMMA BootKeeps == ASSUME FlashInv, BootB \/ BootA PROVE FlashInv'
<1>b. CASE BootB
  <2>t. TypeOK'
    BY <1>b DEF FlashInv, TypeOK, BootB
  <2>q. QED BY <1>b, <2>t, DeviceKeeps DEF BootB
<1>a. CASE BootA
  <2>t. TypeOK'
    BY <1>a DEF FlashInv, TypeOK, BootA
  <2>q. QED BY <1>a, <2>t, DeviceKeeps DEF BootA
<1>q. QED BY <1>a, <1>b

LEMMA CarveKeeps == ASSUME FlashInv, Carve PROVE FlashInv'
<1>h. /\ history' \in [armed : [mode : Modes \cup {"check"}, run : Owner],
                      carver : {"none", "asked", "unasked"},
                      started : {"none", "sd", "openwrt", "part"},
                      finished : SUBSET Owner, again : BOOLEAN, outlived : BOOLEAN]
      /\ history'.armed = history.armed /\ history'.outlived = history.outlived
  BY DEF FlashInv, TypeOK, Carve
<1>t. TypeOK'
  BY <1>h DEF FlashInv, TypeOK, Carve, Owner
<1>c. control # "a"
  BY DEF FlashInv, Attended, Carve
<1>q. QED BY <1>h, <1>t, <1>c, DeviceKeeps DEF Carve

LEMMA PartFailsKeeps == ASSUME FlashInv, PartFails PROVE FlashInv'
<1>r. root' \in [state : {"none", "torn", "whole"}, by : Owner, trial : {"none", "new", "tried"}]
  BY DEF FlashInv, TypeOK, PartFails
<1>t. TypeOK'
  BY <1>r DEF FlashInv, TypeOK, PartFails
<1>c. control # "a"
  BY DEF FlashInv, Attended, PartFails
<1>q. QED BY <1>t, <1>c, DeviceKeeps DEF PartFails

LEMMA FinishPartKeeps ==
    ASSUME FlashInv, NEW cleaned \in BOOLEAN, FinishPart(cleaned)
    PROVE  FlashInv'
<1>r. root' \in [state : {"none", "torn", "whole"}, by : Owner, trial : {"none", "new", "tried"}]
  BY DEF FlashInv, TypeOK, FinishPart
<1>s. /\ store' \in [image : Content, part : Content, kept : SUBSET Owner, files : Owner,
                    payload : Owner, request : Owner]
      /\ store'.image = store.image /\ store'.part = store.part
      /\ store'.request \in {store.request, NoRun}
  <2>1. CASE cleaned
    BY <2>1 DEF FlashInv, TypeOK, FinishPart, Owner
  <2>2. CASE ~cleaned
    BY <2>2 DEF FlashInv, TypeOK, FinishPart
  <2>q. QED BY <2>1, <2>2
<1>o. history.finished \cup {store.request} \in SUBSET Owner
  BY DEF FlashInv, TypeOK
<1>g. (history.again \/ store.request \in history.finished) \in BOOLEAN
  OBVIOUS
<1>h. /\ history' \in [armed : [mode : Modes \cup {"check"}, run : Owner],
                      carver : {"none", "asked", "unasked"},
                      started : {"none", "sd", "openwrt", "part"},
                      finished : SUBSET Owner, again : BOOLEAN, outlived : BOOLEAN]
      /\ history'.armed = history.armed /\ history'.outlived = history.outlived
  BY <1>o, <1>g DEF FlashInv, TypeOK, FinishPart
<1>t. TypeOK'
  BY <1>r, <1>s, <1>h DEF FlashInv, TypeOK, FinishPart
<1>c. control # "a" /\ mode = "pending"
  BY DEF FlashInv, Attended, FinishPart
<1>q. QED BY <1>s, <1>h, <1>t, <1>c, DeviceKeeps DEF FinishPart

LEMMA StartRootKeeps == ASSUME FlashInv, Initramfs PROVE FlashInv'
<1>c. mode = "initramfs" /\ control # "a"
  BY DEF FlashInv, Attended, Initramfs, StartPart, StartCard, StartImage, StartCardAfterAll,
     StartNothing
<1>n. CASE StartNothing
  <2>t. TypeOK'
    BY <1>n DEF FlashInv, TypeOK, StartNothing
  <2>q. QED BY <1>n, <1>c, <2>t, DeviceKeeps DEF StartNothing
<1>p. CASE StartPart
  <2>r. root' \in [state : {"none", "torn", "whole"}, by : Owner, trial : {"none", "new", "tried"}]
    BY <1>p DEF FlashInv, TypeOK, StartPart, MarkTried
  <2>h. /\ history' \in [armed : [mode : Modes \cup {"check"}, run : Owner],
                      carver : {"none", "asked", "unasked"},
                      started : {"none", "sd", "openwrt", "part"},
                      finished : SUBSET Owner, again : BOOLEAN, outlived : BOOLEAN]
        /\ history'.armed = history.armed /\ history'.outlived = history.outlived
    BY <1>p DEF FlashInv, TypeOK, StartPart, Linux
  <2>t. TypeOK'
    BY <1>p, <2>r, <2>h DEF FlashInv, TypeOK, StartPart, Linux
  <2>q. QED BY <1>p, <1>c, <2>h, <2>t, DeviceKeeps DEF StartPart, Linux
<1>o. CASE StartCard \/ StartImage \/ StartCardAfterAll
  <2>d. /\ UNCHANGED <<left, host, tmp, card, store, root, boot, control, vendor, orphan>>
        /\ target' = [target EXCEPT !.once = "none"]
        /\ mode' = "linux"
        /\ \E what \in {"sd", "openwrt"} : history' = [history EXCEPT !.started = what]
    BY <1>o DEF StartCard, StartImage, StartCardAfterAll, Linux
  <2>h. /\ history' \in [armed : [mode : Modes \cup {"check"}, run : Owner],
                      carver : {"none", "asked", "unasked"},
                      started : {"none", "sd", "openwrt", "part"},
                      finished : SUBSET Owner, again : BOOLEAN, outlived : BOOLEAN]
        /\ history'.armed = history.armed /\ history'.outlived = history.outlived
    BY <2>d DEF FlashInv, TypeOK
  <2>g. /\ target' \in [os : {"none", "sd", "openwrt", "part"}, once : {"none", "openwrt"}]
        /\ target'.os = target.os /\ target'.once = "none"
    BY <2>d DEF FlashInv, TypeOK
  <2>t. TypeOK'
    BY <2>d, <2>h, <2>g DEF FlashInv, TypeOK
  <2>q. QED BY <1>c, <2>d, <2>h, <2>g, <2>t, DeviceKeeps
<1>q. QED BY <1>n, <1>p, <1>o DEF Initramfs

LEMMA LinuxKeeps == ASSUME FlashInv, BootOk \/ LeaveLinux PROVE FlashInv'
<1>c. mode = "linux" /\ control # "a"
  BY DEF FlashInv, Attended, BootOk, LeaveLinux
<1>b. CASE BootOk
  <2>r. root' \in [state : {"none", "torn", "whole"}, by : Owner, trial : {"none", "new", "tried"}]
    BY <1>b DEF FlashInv, TypeOK, BootOk
  <2>t. TypeOK'
    BY <1>b, <2>r DEF FlashInv, TypeOK, BootOk
  <2>q. QED BY <1>b, <1>c, <2>t, DeviceKeeps DEF BootOk
<1>l. CASE LeaveLinux
  <2>t. TypeOK'
    BY <1>l DEF FlashInv, TypeOK, LeaveLinux
  <2>q. QED BY <1>l, <1>c, <2>t, DeviceKeeps DEF LeaveLinux
<1>q. QED BY <1>b, <1>l

-----------------------------------------------------------------------------
(* All of them *)

LEMMA ChecksKeep == ASSUME FlashInv, Checks PROVE FlashInv'
<1>1. /\ Proceed /\ UNCHANGED <<left, device>> /\ mode = "android"
      /\ host.pc \in {"checks", "tools", "plaintext", "preflight", "fits", "clear", "room",
                      "inspect", "consent", "release", "chain", "again"}
      /\ host.pc = "preflight" => control = "a"
      /\ tmp' \in {tmp, tmp \cup {"tools"}, tmp \cup {"bootchain"}}
  BY DEF Checks, AndroidChecks, AndroidTools, InstallPreflight, Consent, CardFits, ReleaseCard,
     CardAgain, Plaintext, StoreIsClear, RoomForPart, InspectBoot, SyncChain, Passes, At,
     TrialAllowed
<1>2. tmp' \subseteq {"tools", "bootchain", "e5pull", "files", "image", "boot"}
  BY <1>1 DEF FlashInv, TypeOK
<1>q. QED BY <1>1, <1>2, LookKeeps

LEMMA OtherLooksKeep ==
    ASSUME FlashInv, Discard \/ Upload \/ Readback \/ Grow \/ VerifyCard \/ BootCheck
    PROVE  FlashInv'
<1>1. /\ Proceed /\ UNCHANGED <<left, device>> /\ mode = "android"
      /\ host.pc \in {"discard", "upload", "readback", "grow", "verify", "bootcheck"}
      /\ host.pc = "readback" => card.state = "bare"
      /\ host.pc = "verify" => card.state # "marked"
      /\ host.pc = "bootcheck" => boot.state = "whole"
      /\ tmp' \subseteq tmp \cup {"image", "boot"}
  BY DEF Discard, Upload, Readback, Grow, VerifyCard, BootCheck, Passes, At, CardReadsBack,
     FilesVerify
<1>2. tmp' \subseteq {"tools", "bootchain", "e5pull", "files", "image", "boot"}
  BY <1>1 DEF FlashInv, TypeOK
<1>q. QED BY <1>1, <1>2, LookKeeps

LEMMA StepKeeps == ASSUME FlashInv, [Next]_vars PROVE FlashInv'
<1>u. CASE UNCHANGED vars
  BY <1>u DEF vars, FlashInv, TypeOK, Attended, Valid, OnCard, InImage, InRequest, InSlot, Lacks,
     LackingChangesNothing, Armed, Installing, By
<1>1. ASSUME NEW r \in Runs, NEW m \in Modes, Start(r, m) PROVE FlashInv'
  BY <1>1, StartKeeps
<1>2. CASE Checks
  BY <1>2, ChecksKeep
<1>3. CASE Prepares
  BY <1>3, CollectBeginsKeeps, CollectEndsKeeps, OtherLooksKeep DEF Prepares
<1>4. CASE Card
  <2>1. CASE OrphanWrites
    <3>1. card' \in Content
      BY <2>1 DEF FlashInv, TypeOK, OrphanWrites, Content
    <3>q. QED BY <2>1, <3>1, OrphanKeeps DEF OrphanWrites
  <2>2. CASE OrphanEnds
    <3>1. card' \in Content
      BY <2>2 DEF FlashInv, TypeOK, OrphanEnds, Content
    <3>q. QED BY <2>2, <3>1, OrphanKeeps DEF OrphanEnds
  <2>q. QED
    BY <1>4, <2>1, <2>2, EraseBeginsKeeps, EraseEndsKeeps, FillBeginsKeeps, FillEndsKeeps,
       OtherLooksKeep DEF Card
<1>5. CASE Image
  BY <1>5, ImageBeginsKeeps, ImageEndsKeeps, KeepOldKeeps, CommitImageKeeps, CommitFilesKeeps
  DEF Image
<1>6. CASE StagePayload \/ StageRequest
  BY <1>6, StagePayloadKeeps, StageRequestKeeps
<1>7. CASE Slot
  BY <1>7, FlashBeginsKeeps, FlashEndsKeeps, RecordTargetKeeps, ArmKeeps, OtherLooksKeep DEF Slot
<1>8. CASE Reboot
  BY <1>8, RestartKeeps DEF Reboot
<1>9. CASE End
  BY <1>9, GoneKeeps DEF End
<1>10. CASE Stop
  BY <1>10, StopKeeps
<1>11. CASE PowerLoss
  BY <1>11, RestartKeeps DEF PowerLoss
<1>12. CASE Pending
  BY <1>12, CarveKeeps, PartFailsKeeps, FinishPartKeeps DEF Pending
<1>13. CASE BootB \/ BootA \/ Initramfs \/ BootOk \/ LeaveLinux
  BY <1>13, BootKeeps, StartRootKeeps, LinuxKeeps
<1>q. QED
  BY <1>u, <1>1, <1>2, <1>3, <1>4, <1>5, <1>6, <1>7, <1>8, <1>9, <1>10, <1>11, <1>12, <1>13
  DEF Next, Process, Device

LEMMA InitHolds == ASSUME Init PROVE FlashInv
<1>o. /\ host \in [mode : Modes \cup {"check"}, run : Owner, pc : Steps, half : BOOLEAN]
      /\ host.mode = "check" /\ host.pc = "off"
  BY DEF Init, Off, Owner, Steps
<1>t. TypeOK
  BY <1>o DEF Init, TypeOK, Content, Owner, Nothing
<1>1. Attended
  BY <1>o DEF Init, Attended, Valid, Ahead, Writing
<1>2. OnCard /\ InImage /\ InRequest /\ InSlot
  BY <1>o DEF OnCard, InImage, InRequest, InSlot, Installing, Installations
<1>3. Lacks
  BY <1>o DEF Init, Lacks, LackingChangesNothing, Nothing, Installing, Installations
<1>4. Armed
  BY DEF Init, Armed
<1>q. QED BY <1>t, <1>1, <1>2, <1>3, <1>4 DEF FlashInv

\* In every reachable state.
LEMMA InvHolds == Spec => []FlashInv
<1>1. Init => FlashInv
  BY InitHolds
<1>2. FlashInv /\ [Next]_vars => FlashInv'
  BY StepKeeps
<1>q. QED BY <1>1, <1>2, PTL DEF Spec

-----------------------------------------------------------------------------
(* What single steps do *)

\* Slot B is selected only when what was installed is in place.
LEMMA ArmStep == ASSUME FlashInv, [Next]_vars, ~history.outlived PROVE ArmsOwnSystem
<1> SUFFICES ASSUME host.pc = "arm", host'.pc = "end"
             PROVE  /\ InPlace(host.mode, host.run)
                    /\ boot = [state |-> "whole", by |-> host.run]
                    /\ target = [os |-> TargetOf[host.mode], once |-> "none"]
  BY DEF ArmsOwnSystem
<1>1. Installing
  <2>1. /\ host.mode \in {"sd", "data", "part", "boot", "check"}
        /\ host.pc \in DOMAIN Following[host.mode]
    BY ModesAssumption DEF FlashInv, TypeOK, Attended, Valid
  <2>2. host.mode # "check"
    BY <2>1 DEF Following, CheckOnly
  <2>3. host.mode = "boot" => host'.pc \in {"arm", "reboot", "off"}
    <3>1. host.mode = "boot" => Following[host.mode][host.pc] = "reboot"
      BY DEF Following, BootInstalled
    <3>2. ArmSlotB \/ host' = host \/ host' = Off
      BY DEF Next, Process, Device, vars, Start, Checks, AndroidChecks,
         AndroidTools, InstallPreflight, Consent, CardFits, ReleaseCard, CardAgain, Plaintext,
         StoreIsClear, RoomForPart, InspectBoot, SyncChain, Prepares, CollectBegins, CollectEnds,
         Discard, Upload, Card, EraseBegins, EraseEnds, Readback, Grow, FillBegins, FillEnds,
         VerifyCard, OrphanWrites, OrphanEnds, Image, ImageBegins, ImageEnds, KeepOld,
         CommitImage, CommitFiles, StagePayload, StageRequest, Slot, FlashBegins, FlashEnds,
         BootCheck, RecordTarget, Reboot, End, Stop, PowerLoss, BootB, BootA, Pending,
         Carve, FinishPart, PartFails, Initramfs, StartPart, StartCard, StartImage,
         StartCardAfterAll, StartNothing, BootOk, LeaveLinux, Passes, Begins, Ends, At
    <3>3. ArmSlotB => host'.pc = Following[host.mode][host.pc]
      BY DEF FlashInv, TypeOK, ArmSlotB, Proceed, Goto
    <3>q. QED BY <3>1, <3>2, <3>3 DEF Off
  <2>q. QED BY <2>1, <2>2, <2>3 DEF Installing, Installations
<1>2. host.mode = "sd" => card = By("whole")
  BY DEF FlashInv, OnCard
<1>3. host.mode = "data" => store.image = By("whole") /\ store.files = host.run
  BY DEF FlashInv, InImage
<1>4. host.mode = "part" =>
        store.request = host.run /\ store.payload = host.run /\ store.files = host.run
  BY DEF FlashInv, InRequest
<1>5. boot = By("whole") /\ target = [os |-> TargetOf[host.mode], once |-> "none"]
  BY <1>1 DEF FlashInv, InSlot
<1>q. QED BY <1>1, <1>2, <1>3, <1>4, <1>5 DEF InPlace, By, Installing, Installations

\* What the initramfs starts.
LEMMA StartStep == ASSUME FlashInv, [Next]_vars, ~history.outlived PROVE StartsLastInstalled
<1> SUFFICES ASSUME mode = "initramfs", mode' = "linux", history.armed.mode \in {"sd", "data"}
             PROVE  /\ history'.started = TargetOf[history.armed.mode]
                    /\ history'.started = "sd" => card = [state |-> "whole", by |-> history.armed.run]
                    /\ history'.started = "openwrt" =>
                           store.image = [state |-> "whole", by |-> history.armed.run]
  BY DEF StartsLastInstalled
<1>1. /\ target = [os |-> TargetOf[history.armed.mode], once |-> "none"]
      /\ history.armed.mode = "sd" => card = Whole(history.armed.run)
      /\ history.armed.mode = "data" => store.image = Whole(history.armed.run)
  BY DEF FlashInv, Attended, Armed, Installations
<1>2. Wanted = TargetOf[history.armed.mode]
  BY <1>1 DEF Wanted
<1>3. StartPart \/ StartCard \/ StartImage \/ StartCardAfterAll
  BY DEF FlashInv, TypeOK, Attended, Next, Process, Device, vars, device, Start, Checks, AndroidChecks,
         AndroidTools, InstallPreflight, Consent, CardFits, ReleaseCard, CardAgain, Plaintext,
         StoreIsClear, RoomForPart, InspectBoot, SyncChain, Prepares, CollectBegins, CollectEnds,
         Discard, Upload, Card, EraseBegins, EraseEnds, Readback, Grow, FillBegins, FillEnds,
         VerifyCard, OrphanWrites, OrphanEnds, Image, ImageBegins, ImageEnds, KeepOld,
         CommitImage, CommitFiles, StagePayload, StageRequest, Slot, FlashBegins, FlashEnds,
         BootCheck, RecordTarget, ArmSlotB, Reboot, End, Stop, PowerLoss, BootB, BootA, Pending,
         Carve, FinishPart, PartFails, Initramfs, StartNothing, BootOk, LeaveLinux, Passes,
         Begins, Ends, At
<1>4. CASE history.armed.mode = "sd"
  <2>1. Wanted = "sd" /\ card.state = "whole"
    BY <1>1, <1>2, <1>4 DEF TargetOf, Whole
  <2>2. StartCard
    BY <1>3, <2>1 DEF StartPart, StartImage, StartCardAfterAll, CardMayFail
  <2>3. history'.started = "sd"
    BY <2>2 DEF FlashInv, TypeOK, StartCard, Linux
  <2>q. QED BY <1>1, <1>4, <2>3 DEF TargetOf, Whole
<1>5. CASE history.armed.mode = "data"
  <2>1. Wanted = "openwrt" /\ store.image.state = "whole"
    BY <1>1, <1>2, <1>5 DEF TargetOf, Whole
  <2>2. StartImage
    BY <1>3, <2>1 DEF StartPart, StartCard, StartCardAfterAll
  <2>3. history'.started = "openwrt"
    BY <2>2 DEF FlashInv, TypeOK, StartImage, Linux
  <2>q. QED BY <1>1, <1>5, <2>3 DEF TargetOf, Whole
<1>q. QED BY <1>4, <1>5

\* What becomes of an image in use.
LEMMA ImageStep ==
    ASSUME FlashInv, [Next]_vars
    PROVE  /\ store.kept \subseteq store'.kept
           /\ store.image.state = "whole" /\ store'.image # store.image =>
                  store.image.by \in store'.kept
<1>1. CASE UNCHANGED store
  BY <1>1
<1>2. CASE KeepOld
  BY <1>2 DEF FlashInv, TypeOK, KeepOld
<1>3. CASE CommitImage
  <2>1. store.image.state = "none"
    BY <1>3 DEF FlashInv, InImage, CommitImage, At
  <2>q. QED BY <1>3, <2>1 DEF FlashInv, TypeOK, CommitImage
<1>4. CASE ImageBegins \/ ImageEnds
  BY <1>4 DEF FlashInv, TypeOK, ImageBegins, ImageEnds
<1>5. CASE CommitFiles \/ StagePayload \/ StageRequest
  BY <1>5 DEF FlashInv, TypeOK, CommitFiles, StagePayload, StageRequest
<1>6. CASE Stop
  BY <1>6 DEF FlashInv, TypeOK, Stop
<1>7. ASSUME NEW cleaned \in BOOLEAN, FinishPart(cleaned)
      PROVE  store'.kept = store.kept /\ store'.image = store.image
  BY <1>7 DEF FlashInv, TypeOK, FinishPart
<1>8. \/ UNCHANGED store \/ KeepOld \/ CommitImage \/ ImageBegins \/ ImageEnds
      \/ CommitFiles \/ StagePayload \/ StageRequest \/ Stop
      \/ \E cleaned \in BOOLEAN : FinishPart(cleaned)
  BY DEF Next, Process, Device, vars, device, Start, Checks, AndroidChecks,
         AndroidTools, InstallPreflight, Consent, CardFits, ReleaseCard, CardAgain, Plaintext,
         StoreIsClear, RoomForPart, InspectBoot, SyncChain, Prepares, CollectBegins, CollectEnds,
         Discard, Upload, Card, EraseBegins, EraseEnds, Readback, Grow, FillBegins, FillEnds,
         VerifyCard, OrphanWrites, OrphanEnds, Image, Slot, FlashBegins, FlashEnds,
         BootCheck, RecordTarget, ArmSlotB, Reboot, End, PowerLoss, BootB, BootA, Pending,
         Carve, PartFails, Initramfs, StartPart, StartCard, StartImage,
         StartCardAfterAll, StartNothing, BootOk, LeaveLinux, Passes
<1>q. QED BY <1>1, <1>2, <1>3, <1>4, <1>5, <1>6, <1>7, <1>8

-----------------------------------------------------------------------------
(* Theorems *)

\* Every variable of the installer's model always holds what its declaration says.
THEOREM TypeCorrect == Spec => []TypeOK
<1>1. FlashInv => TypeOK
  BY DEF FlashInv
<1>q. QED BY <1>1, InvHolds, PTL

\* Whatever is interrupted, and whatever commands outlive their process: while slot B is
\* selected for an installation it holds that installation's image, and a phone that lacks
\* a file of its vendor keeps its card, its images and its slot B (NothingIsLost).
THEOREM NothingLost == Spec => []NothingIsLost
<1>1. FlashInv => NothingIsLost
  BY DEF FlashInv, Armed, Lacks, NothingIsLost, SelectedStays, LackingChangesNothing, Whole
<1>q. QED BY <1>1, InvHolds, PTL

\* Slot B is selected only with the installation's own root, image and target in place, and
\* the initramfs then starts that system and no other, as long as no command outlived its
\* process; and an image in use is never lost, unconditionally (InstallsWhatStarts).
THEOREM InstalledStarts == Spec => InstallsWhatStarts
<1>1. FlashInv /\ [Next]_vars => [~history.outlived => ArmsOwnSystem /\ StartsLastInstalled]_vars
  BY ArmStep, StartStep
<1>2. FlashInv /\ [Next]_vars =>
        [/\ store.kept \subseteq store'.kept
         /\ store.image.state = "whole" /\ store'.image # store.image =>
                store.image.by \in store'.kept]_vars
  BY ImageStep
<1>q. QED BY <1>1, <1>2, InvHolds, PTL DEF Spec, InstallsWhatStarts, ImageKept

-----------------------------------------------------------------------------
(* Sizes: rounding *)

\* A number is whole units and what is less than one.
LEMMA Units ==
    ASSUME NEW unit \in Nat \ {0}, NEW n \in Int
    PROVE  /\ n \div unit \in Int
           /\ (n \div unit) * unit <= n /\ n < (n \div unit) * unit + unit
           /\ n % unit = 0 <=> n = (n \div unit) * unit
<1>1. n % unit = n - unit * (n \div unit)
  BY SMTT(30)
<1>2. n \div unit \in Int /\ (n \div unit) * unit <= n /\ n < (n \div unit) * unit + unit
  OBVIOUS
<1>3. unit * (n \div unit) = (n \div unit) * unit /\ (n \div unit) * unit \in Int
  BY <1>2
<1> QED BY <1>1, <1>2, <1>3

\* Whole units are a multiple, and larger by one at least if there are more of them.
LEMMA WholeUnits ==
    ASSUME NEW unit \in Nat \ {0}, NEW q \in Int
    PROVE  /\ q * unit \in Int /\ (q * unit) % unit = 0
           /\ \A p \in Int : p < q => p * unit + unit <= q * unit
<1>1. q * unit \in Int /\ (q * unit) % unit = 0
  OBVIOUS
<1>2. ASSUME NEW p \in Int, p < q PROVE p * unit + unit <= q * unit
  BY <1>2
<1> QED BY <1>1, <1>2

\* What is a multiple of 4 MiB is one of 1 MiB.
LEMMA StepsAreMibs ==
    ASSUME NEW n \in Int, n % Step = 0
    PROVE  n % Mib = 0
<1>1. Mib \in Nat \ {0} /\ Step \in Nat \ {0} /\ Step % Mib = 0
  BY SizesAssumption DEF Size!UnitsAssumption
<1>2. PICK k \in Int : n = k * Step
  BY <1>1, Units
<1>3. PICK m \in Int : Step = m * Mib
  BY <1>1, Units
<1>4. k * m \in Int /\ n = (k * m) * Mib
  BY <1>1, <1>2, <1>3
<1> QED BY <1>1, <1>4, WholeUnits

\* Rounding up: a multiple, and the number itself if it is one.
LEMMA RoundedUp ==
    ASSUME NEW unit \in Nat \ {0}, NEW n \in Int
    PROVE  /\ Size!Up(n, unit) \in Int /\ n <= Size!Up(n, unit) /\ Size!Up(n, unit) % unit = 0
           /\ n % unit = 0 => Size!Up(n, unit) = n
<1> DEFINE m == n + unit - 1
           q == m \div unit
<1>1. m \in Int /\ m = n + unit - 1
  OBVIOUS
<1>2. Size!Up(n, unit) = q * unit
  BY DEF Size!Up
<1> HIDE DEF m
<1>3. q \in Int /\ q * unit <= m /\ m < q * unit + unit
  BY <1>1, Units
<1> HIDE DEF q
<1>4. q * unit \in Int /\ (q * unit) % unit = 0 /\ n <= q * unit
  BY <1>1, <1>3, WholeUnits
<1>5. ASSUME n % unit = 0 PROVE q * unit = n
  <2>1. PICK p \in Int : n = p * unit
    BY <1>5, Units
  <2>2. p < q => p * unit + unit <= q * unit
    BY <1>3, WholeUnits
  <2>3. q < p => q * unit + unit <= p * unit
    BY <1>3, WholeUnits
  <2>4. p = q
    BY <1>1, <1>3, <1>4, <2>1, <2>2, <2>3
  <2> QED BY <2>1, <2>4
<1> QED BY <1>2, <1>4, <1>5

\* Rounding down keeps every multiple that is there.
LEMMA RoundedDown ==
    ASSUME NEW unit \in Nat \ {0}, NEW n \in Nat, NEW k \in Int, k % unit = 0, k <= n
    PROVE  k <= Size!Down(n, unit) /\ Size!Down(n, unit) \in Int
<1> DEFINE q == n \div unit
<1>1. q \in Int /\ n < q * unit + unit /\ Size!Down(n, unit) = q * unit /\ q * unit \in Int
  BY Units, WholeUnits DEF Size!Down
<1>2. PICK p \in Int : k = p * unit
  BY Units
<1> HIDE DEF q
<1>3. q < p => q * unit + unit <= p * unit
  BY <1>1, WholeUnits
<1>4. p < q => p * unit + unit <= q * unit
  BY <1>1, WholeUnits
<1> QED BY <1>1, <1>2, <1>3, <1>4

-----------------------------------------------------------------------------
(* Sizes: the invariant *)

SizePhases == {"idle", "confirmed", "run", "refused", "collect", "recheck", "unpack", "enlarge", "commit",
           "partition", "failed", "installed", "verified", "mismatch"}
SizedImage == [size : Nat, whole : BOOLEAN]

SizesTyped ==
    /\ android \in Int /\ base \in Int /\ uploads \in Int /\ kept \in Int
    /\ plan \in [method : {"none", "image", "part"}, size : Nat] /\ plan.size % Mib = 0
    /\ part \in SizedImage /\ image \in SizedImage /\ phase \in SizePhases

\* Userdata without Android's files, and the free space at the last look, less what this
\* installer took since.
Seen == Size!Free + android - base

\* The inductive invariant of the sizes: what is confirmed fits what was seen when it was; an
\* image in the making is the only one, and leaves the reserve and the budget when it has its
\* size.
SizesInv ==
    /\ SizesTyped
    /\ phase = "run" /\ plan.method = "image" =>
           Least <= plan.size /\ plan.size <= Seen - Reserve - Budget - Payloads - Tools
    /\ phase \in {"collect", "recheck", "unpack"} => part = Size!None
    /\ phase = "unpack" => Seen >= plan.size + Reserve + Budget
    /\ phase = "enlarge" => part.size = Raw /\ Seen + Raw >= plan.size + Reserve + Budget
    /\ phase = "commit" => part = [size |-> plan.size, whole |-> TRUE] /\ Seen >= Reserve + Budget
    /\ phase \in {"installed", "verified"} => image = [size |-> plan.size, whole |-> TRUE]
    /\ phase = "installed" => Seen >= Reserve + Budget
    /\ phase # "mismatch"

\* The numbers of the code.
LEMMA SizeConstants ==
    /\ Mib \in Nat \ {0} /\ Step \in Nat \ {0} /\ Raw % Mib = 0 /\ Raw <= Least
    /\ Disk \in Nat /\ Raw \in Nat /\ Least \in Nat /\ Reserve \in Nat /\ Budget \in Nat
    /\ Payloads \in Nat /\ Tools \in Nat /\ Used \subseteq Nat /\ Changes \subseteq Nat
  BY SizesAssumption DEF Size!UnitsAssumption, Size!RoomAssumption, Size!ChangesAssumption

\* The flasher makes the size that was confirmed.
LEMMA SelectedAsConfirmed ==
    ASSUME SizesTyped
    PROVE  Size!Selected = plan.size
  BY SizeConstants, RoundedUp DEF SizesTyped, Size!Selected

\* The free space is a number.
LEMMA FreeTyped ==
    ASSUME SizesTyped
    PROVE  Size!Free \in Int /\ Seen \in Int
  BY SizeConstants DEF SizesTyped, Size!Free, Seen, SizedImage

\* Nothing is confirmed at the start.
LEMMA SizesInit == Size!Init => SizesInv
<1>1. 0 % Mib = 0
  BY SizeConstants
<1> SUFFICES ASSUME Size!Init PROVE SizesInv
  OBVIOUS
<1>2. /\ android \in Int /\ base = android /\ uploads = 0 /\ kept = 0 /\ phase = "idle"
      /\ plan = [method |-> "none", size |-> 0] /\ part = Size!None
  BY SizeConstants DEF Size!Init, Size!NoPlan
<1>3. part \in SizedImage /\ image \in SizedImage
  <2>1. Size!None \in SizedImage /\ [size |-> Raw, whole |-> TRUE] \in SizedImage
    BY SizeConstants DEF Size!None, SizedImage
  <2>2. image \in {Size!None, [size |-> Raw, whole |-> TRUE]}
    BY DEF Size!Init
  <2> QED BY <1>2, <2>1, <2>2
<1>4. SizesTyped
  BY <1>1, <1>2, <1>3 DEF SizesTyped, SizePhases
<1> QED BY <1>2, <1>4 DEF SizesInv

\* A step of the computer: it looks at the free space, or refuses.
LEMMA ComputerSteps ==
    ASSUME SizesInv, Size!Computer
    PROVE  SizesInv'
<1> USE SizeConstants, FreeTyped
<1>1. ASSUME NEW method \in {"image", "part"}, NEW asked \in 1..Disk, Size!Plan(method, asked)
      PROVE  SizesInv'
  <2> DEFINE n == Size!Up(asked, Step)
  <2>1. n \in Int /\ n % Step = 0 /\ asked <= n
    BY RoundedUp
  <2>2. n \in Nat /\ n % Mib = 0
    BY <2>1, StepsAreMibs
  <2>3. plan' = [method |-> method, size |-> n] /\ phase' = "confirmed" /\ base' = android
        /\ UNCHANGED <<android, uploads, part, image, kept>>
    BY <1>1 DEF Size!Plan, Size!Goto
  <2> HIDE DEF n
  <2> QED BY <2>2, <2>3 DEF SizesInv, SizesTyped, SizePhases
<1>2. CASE Size!Execute
  <2>1. phase' = "run" => Size!Plannable(plan.method, plan.size) /\ base' = android
    BY <1>2 DEF Size!Execute, Size!Goto
  <2>2. UNCHANGED <<android, plan, uploads, part, image, kept>> /\ phase' \in {"run", "idle"} /\ base' \in {base, android}
    BY <1>2 DEF Size!Execute, Size!Goto
  <2>3. SizesTyped'
    BY <2>2 DEF SizesInv, SizesTyped, SizePhases
  <2>4. ASSUME phase' = "run", plan.method = "image"
        PROVE  Least <= plan.size /\ plan.size <= Seen' - Reserve - Budget - Payloads - Tools
    <3>1. Seen' = Size!Free
      BY <2>1, <2>2, <2>4 DEF Seen, Size!Free, SizesInv, SizesTyped, SizedImage
    <3> QED BY <2>1, <2>4, <3>1 DEF Size!Plannable, Size!PlanMaximum
  <2> QED BY <2>2, <2>3, <2>4 DEF SizesInv
<1>3. CASE Size!Choose
  <2>1. /\ phase' \in {"collect", "partition", "refused"} /\ base' = android
        /\ UNCHANGED <<android, plan, uploads, part, image, kept>>
        /\ phase' = "collect" => part = Size!None
    BY <1>3 DEF Size!Choose, Size!Goto
  <2> QED BY <2>1 DEF SizesInv, SizesTyped, SizePhases
<1> QED BY <1>1, <1>2, <1>3 DEF Size!Computer

\* A step of the phone: what it takes was counted when it looked.
LEMMA PhoneSteps ==
    ASSUME SizesInv, Size!Phone
    PROVE  SizesInv'
<1> USE SizeConstants, FreeTyped
<1>1. ASSUME NEW firmware \in 1..Budget, Size!Collect(firmware)
      PROVE  SizesInv'
  <2>1. /\ phase' \in {"failed", "recheck"} /\ uploads' \in Int /\ phase = "collect"
        /\ UNCHANGED <<android, plan, base, part, image, kept>>
    BY <1>1 DEF Size!Collect, Size!Refuse, Size!Goto, SizesInv, SizesTyped
  <2> QED BY <2>1 DEF SizesInv, SizesTyped, SizePhases
<1>2. CASE Size!Recheck
  <2>1. /\ phase' \in {"failed", "unpack"} /\ base' \in {base, android} /\ phase = "recheck"
        /\ UNCHANGED <<android, plan, uploads, part, image, kept>>
        /\ phase' = "unpack" => base' = android /\ plan.size + Reserve + Budget <= Size!Free
    BY <1>2, SelectedAsConfirmed DEF Size!Recheck, Size!Goto, SizesInv
  <2>2. phase' = "unpack" => Seen' = Size!Free
    BY <2>1 DEF Seen, Size!Free, SizesInv, SizesTyped, SizedImage
  <2> QED BY <2>1, <2>2 DEF SizesInv, SizesTyped, SizePhases
<1>3. CASE Size!Unpack
  <2>1. CASE phase' = "failed"
    BY <1>3, <2>1 DEF Size!Unpack, Size!Refuse, Size!Goto, SizesInv, SizesTyped, SizePhases
  <2>2. CASE phase' # "failed"
    <3>1. /\ phase' = "enlarge" /\ part' = [size |-> Raw, whole |-> FALSE] /\ phase = "unpack"
          /\ UNCHANGED <<android, plan, base, uploads, image, kept>>
      BY <1>3, <2>2 DEF Size!Unpack, Size!Refuse, Size!Goto
    <3>2. part.size = 0 /\ part'.size = Raw
      BY <3>1 DEF SizesInv, Size!None
    <3>3. Seen' = Seen - Raw
      BY <3>1, <3>2 DEF Seen, Size!Free, SizesInv, SizesTyped, SizedImage
    <3>4. part' \in SizedImage
      BY <3>1 DEF SizedImage
    <3> QED BY <3>1, <3>2, <3>3, <3>4 DEF SizesInv, SizesTyped, SizePhases
  <2> QED BY <2>1, <2>2
<1>4. CASE Size!Enlarge
  <2>1. CASE phase' = "failed"
    <3>1. /\ part' = Size!None /\ UNCHANGED <<android, plan, base, uploads, image, kept>>
      BY <1>4, <2>1 DEF Size!Enlarge, Size!Goto
    <3>2. part' \in SizedImage
      BY <3>1 DEF Size!None, SizedImage
    <3> QED BY <2>1, <3>1, <3>2 DEF SizesInv, SizesTyped, SizePhases
  <2>2. CASE phase' # "failed"
    <3>1. /\ phase' = "commit" /\ part' = [size |-> plan.size, whole |-> TRUE] /\ phase = "enlarge"
          /\ uploads' = uploads - Payloads - Tools
          /\ UNCHANGED <<android, plan, base, image, kept>>
      BY <1>4, <2>2, SelectedAsConfirmed DEF Size!Enlarge, Size!Goto, SizesInv
    <3>2. part.size = Raw /\ part'.size = plan.size /\ part' \in SizedImage
      BY <3>1 DEF SizesInv, SizesTyped, SizedImage
    <3>3. Seen' = Seen + Raw - plan.size + Payloads + Tools
      BY <3>1, <3>2 DEF Seen, Size!Free, SizesInv, SizesTyped, SizedImage
    <3>4. Seen' >= Reserve + Budget
      BY <3>1, <3>3 DEF SizesInv, SizesTyped
    <3> QED BY <3>1, <3>2, <3>4 DEF SizesInv, SizesTyped, SizePhases
  <2> QED BY <2>1, <2>2
<1>5. CASE Size!Commit
  <2>1. /\ phase' = "installed" /\ image' = part /\ part' = Size!None /\ phase = "commit"
        /\ kept' = kept + image.size /\ UNCHANGED <<android, plan, base, uploads>>
    BY <1>5 DEF Size!Commit, Size!Goto
  <2>2. Seen' = Seen
    BY <2>1 DEF Seen, Size!Free, Size!None, SizesInv, SizesTyped, SizedImage
  <2>3. part' \in SizedImage /\ image' \in SizedImage /\ kept' \in Int
    BY <2>1 DEF Size!None, SizedImage, SizesInv, SizesTyped
  <2> QED BY <2>1, <2>2, <2>3 DEF SizesInv, SizesTyped, SizePhases
<1>6. CASE Size!Verify
  <2>1. phase = "installed" /\ image.size = plan.size /\ plan.size \in Nat
    BY <1>6 DEF Size!Verify, SizesInv, SizesTyped
  <2>2. image.size \in (plan.size - Step)..plan.size
    BY <2>1
  <2>3. phase' = "verified" /\ UNCHANGED <<android, plan, base, uploads, part, image, kept>>
    BY <1>6, <2>2 DEF Size!Verify, Size!Goto
  <2> QED BY <2>1, <2>3 DEF SizesInv, SizesTyped, SizePhases
<1> QED BY <1>1, <1>2, <1>3, <1>4, <1>5, <1>6 DEF Size!Phone

\* Android writes or deletes: what was seen stays what was seen.
LEMMA AndroidSteps ==
    ASSUME SizesInv, NEW change \in Int, Size!Android(change)
    PROVE  SizesInv'
<1>1. /\ android' = android + change /\ UNCHANGED <<plan, base, uploads, part, image, kept, phase>>
  BY DEF Size!Android
<1>2. Seen' = Seen
  BY <1>1, SizeConstants DEF Seen, Size!Free, SizesInv, SizesTyped, SizedImage
<1> QED BY <1>1, <1>2 DEF SizesInv, SizesTyped

\* A size that the coordinator offers for an image is not refused by the flasher, what the user
\* confirmed is what is installed and measured, and Android keeps its reserve: for every size
\* of the disk, the packages and the files on it, and however Android writes meanwhile.
THEOREM SizesAlwaysHold == Size!Spec => []SizesHold
<1>1. ASSUME SizesInv PROVE SizesHold
  <2>1. Size!PlannedImageFits
    <3> SUFFICES ASSUME phase = "run", plan.method = "image", android <= base PROVE Size!Selected \in Size!ImageRange
      BY DEF Size!PlannedImageFits, Size!InRange
    <3> DEFINE room == Size!Free - Reserve - Budget - Payloads
    <3>1. plan.size \in Nat /\ plan.size % Mib = 0 /\ Least <= plan.size /\ Size!Selected = plan.size
      BY <1>1, SelectedAsConfirmed DEF SizesInv, SizesTyped
    <3>2. plan.size <= Seen - Reserve - Budget - Payloads - Tools
      BY <1>1 DEF SizesInv
    <3>3. room \in Nat /\ plan.size <= room
      BY <1>1, <3>1, <3>2, FreeTyped, SizeConstants DEF Seen, SizesInv, SizesTyped
    <3> HIDE DEF room
    <3>4. plan.size <= Size!Down(room, Mib) /\ Size!Down(room, Mib) \in Int
      BY <3>1, <3>3, RoundedDown, SizeConstants
    <3>5. Size!Up(Raw, Mib) = Raw
      BY RoundedUp, SizeConstants
    <3> QED BY <3>1, <3>4, <3>5, SizeConstants DEF Size!ImageRange, room
  <2>2. Size!InstalledAsConfirmed
    BY <1>1 DEF SizesInv, Size!InstalledAsConfirmed
  <2>3. Size!ReserveKept
    BY <1>1, FreeTyped, SizeConstants DEF SizesInv, SizesTyped, Size!ReserveKept, Seen
  <2> QED BY <2>1, <2>2, <2>3 DEF SizesHold
<1>2. ASSUME SizesInv, [Size!Next]_Size!vars PROVE SizesInv'
  <2>1. CASE Size!PowerCut
    BY <1>2, <2>1 DEF Size!PowerCut, Size!Goto, SizesInv, SizesTyped, SizePhases
  <2>2. ASSUME NEW change \in Changes, Size!Android(change) \/ Size!Android(0 - change) PROVE SizesInv'
    BY <1>2, <2>2, AndroidSteps, SizeConstants
  <2>3. CASE UNCHANGED Size!vars
    BY <1>2, <2>3 DEF Size!vars, SizesInv, SizesTyped, Seen, Size!Free
  <2> QED BY <1>2, <2>1, <2>2, <2>3, ComputerSteps, PhoneSteps DEF Size!Next
<1> QED BY <1>1, <1>2, SizesInit, PTL DEF Size!Spec
=============================================================================
