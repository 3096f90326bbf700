------------------------------ MODULE MCUpdate ------------------------------
(***************************************************************************)
(* Updates, and what must come to an end, for TLC: the update of an        *)
(* installed system over SSH (Update) and the coordinator that sends one   *)
(* (Coordinator), a field capture (FieldCapture), and the session of the   *)
(* installer with one phone (Session).  They have nothing in common: one   *)
(* of them runs, the others stay as they are.                              *)
(***************************************************************************)
EXTENDS Update

VARIABLES
    subject,            \* which of them runs
    pc, stopping, tripped, wake, over, watched, open, batch, alive, kernel, own, captures, signals,  \* of FieldCapture
    phone, air, rec, job, request, linking,  \* of Session
    kind, disk, mem, snapshot, flag, main, worker, current, lock, device, spent  \* of Coordinator

captureVars == <<pc, stopping, tripped, wake, over, watched, open, batch, alive, kernel, own, captures, signals>>
sessionVars == <<phone, air, rec, job, request, linking>>
senderVars == <<kind, disk, mem, snapshot, flag, main, worker, current, lock, device, spent>>

Capture == INSTANCE FieldCapture WITH
    Children <- {"syslog"}, Probes <- {"sta", "lut"}, TraceMayEnd <- FALSE,
    MaxCaptures <- 2, MaxSignals <- 2

Service == INSTANCE Session WITH
    Phones <- {"p1"}, Records <- {"r1"}, Air <- "air", Methods <- {"tf", "stages", "uninstall"}, MaxBoots <- 2

\* One write, with a pause, a crash and two restarts at any time.
Sender == INSTANCE Coordinator WITH
    Installers <- {"i1"}, NumEffects <- 1, Kinds <- {"update"},
    MaxCancels <- 1, MaxCrashes <- 1, MaxSaveFailures <- 0, MaxReboots <- 2

ASSUME CaptureAssumption == Capture!BoundsAssumption /\ Capture!StreamsAssumption

MCInit ==
    /\ subject \in {"update", "capture", "service", "sender"}
    /\ Init /\ Capture!Init /\ Service!Init /\ Sender!Init
    /\ subject # "update" => layout = "part" /\ suits = {}
    /\ subject # "capture" => ~kernel.mounted
    /\ phone["p1"].slotB.does = phone["p1"].root.is
    /\ subject # "service" => phone["p1"].root.is = "none"

MCNext ==
    /\ UNCHANGED subject
    /\ \/ subject = "update" /\ Next /\ UNCHANGED <<captureVars, sessionVars, senderVars>>
       \/ subject = "capture" /\ Capture!Next /\ UNCHANGED <<vars, sessionVars, senderVars>>
       \/ subject = "service" /\ Service!Next /\ UNCHANGED <<vars, captureVars, senderVars>>
       \/ subject = "sender" /\ Sender!Next /\ UNCHANGED <<vars, captureVars, sessionVars>>

\* The fairness of Update (LiveSpec), of FieldCapture, and of Session: its worker
\* goes on, but for a command without a time limit.
MCFairSpec ==
    /\ MCInit /\ [][MCNext]_<<subject, vars, captureVars, sessionVars, senderVars>>
    /\ WF_vars(Reboot) /\ WF_vars(BootB) /\ WF_vars(Update) /\ WF_vars(Choice)
    /\ WF_captureVars(Capture!Program) /\ WF_captureVars(Capture!Handler) /\ WF_captureVars(Capture!TimeOver)
    /\ WF_sessionVars(subject = "service" /\ ~Service!Unlimited /\ Service!Work)

-----------------------------------------------------------------------------

\* A capture hears every signal, ends, and leaves nothing behind (the properties of
\* FieldCapture).
CaptureEnds == [](Capture!HearsSignal /\ Capture!LeavesNothing) /\ Capture!EveryCaptureEnds

\* An update is complete only when the new system answers, though it is paused, the
\* computer's process dies and the device restarts in between (of Coordinator).
CompletedOnNewSystem == Sender!CompletedOnNewSystem

\* In the installer a pause ends the operation, whatever it waits for, unless a command without
\* a time limit hangs (CancelEnds of Session).
PausesEnd == Service!CancelEnds
=============================================================================
