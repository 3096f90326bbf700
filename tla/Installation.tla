---------------------------- MODULE Installation ----------------------------
(***************************************************************************)
(* The command-line installer (FlashInstall), and the sizes of the system  *)
(* it installs (Sizes).  The installer's steps take the size as given; the *)
(* sizes take the steps as far as they change the free space.              *)
(***************************************************************************)
EXTENDS FlashInstall

CONSTANTS
    Mib, Step, Disk, Raw, Least, Reserve, Budget, Extra, Tools, Used, Changes, MaxWrites,  \* of Sizes,
    Payloads  \* and its Upload

VARIABLES
    android, writes, plan, base, uploads, part, image, kept, phase  \* of Sizes

sizeVars == <<android, writes, plan, base, uploads, part, image, kept, phase>>

Size == INSTANCE Sizes WITH Upload <- Payloads

ASSUME SizesAssumption == Size!UnitsAssumption /\ Size!RoomAssumption /\ Size!ChangesAssumption

-----------------------------------------------------------------------------

\* The sizes offered fit, what was confirmed is installed, and Android keeps its reserve
\* (PlannedImageFits, InstalledAsConfirmed, ReserveKept).
SizesHold == Size!PlannedImageFits /\ Size!InstalledAsConfirmed /\ Size!ReserveKept
=============================================================================
