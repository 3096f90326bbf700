---------------------------- MODULE FieldCapture ----------------------------
(***************************************************************************)
(* The life of a field capture on a device, tools/field-capture.py: it     *)
(* starts observers (child processes, probes in the kernel behind an       *)
(* instance of the tracing filesystem), waits for their events until time  *)
(* or a signal ends it, and takes the observers away again.                *)
(*                                                                         *)
(* A signal may arrive between any two steps, setting up may fail at any   *)
(* step, a stream may end or fail at any time, and the process may be      *)
(* killed; a later capture then finds what was left.  The kernel refuses   *)
(* to remove an instance that is still read.                               *)
(***************************************************************************)
EXTENDS Naturals, FiniteSets

CONSTANTS
    Children,    \* observing processes
    Probes,      \* probes in the kernel
    TraceMayEnd, \* may the stream of the probes end or fail?
    MaxCaptures, \* captures
    MaxSignals   \* signals to each

BoundsAssumption == {MaxCaptures, MaxSignals} \subseteq Nat /\ TraceMayEnd \in BOOLEAN
StreamsAssumption == {"kernel", "trace", "stop"} \cap Children = {}

VARIABLES
    pc,       \* where the capture is
    stopping, \* the flag a signal sets
    tripped,  \* a signal has arrived, its handler has not run
    wake,     \* is there a byte in the wake-up pipe?
    over,     \* the time is over
    watched,  \* streams the selector knows
    open,     \* descriptors of the kernel's log and of the tracing instance, and the pipe
    batch,    \* streams that select returned and that are still to be served
    alive,    \* observing processes of this capture
    kernel,   \* the tracing filesystem, its instance, probes, those enabled
    own,      \* what this capture made of it
    captures, \* captures so far
    signals   \* signals to this one

vars == <<pc, stopping, tripped, wake, over, watched, open, batch, alive, kernel, own, captures, signals>>
signalling == <<stopping, tripped, wake, signals>>
streams == <<watched, open, batch>>
trace == <<kernel, own>>
counters == <<over, captures>>

Streams == Children \cup {"kernel", "trace"}
Nothing == [mounted |-> FALSE, instance |-> FALSE, probes |-> {}, enabled |-> {}]
Setup == {"wakeup", "kernel", "children", "mount", "instance", "probe", "enable", "trace"}
Cleanup == {"terminate", "close", "instance off", "remove", "probes off", "unmount"}

\* The handler runs between two steps of the program, before the next.
Run(p) == pc = p /\ ~tripped
Goto(p) == pc' = p

-----------------------------------------------------------------------------
(* Setting up *)

\* A handler is installed before anything is made.
Begin ==
    /\ pc = "off" /\ captures < MaxCaptures
    /\ captures' = captures + 1
    /\ Goto("wakeup")
    /\ stopping' = FALSE /\ tripped' = FALSE /\ wake' = FALSE /\ signals' = 0 /\ over' = FALSE
    /\ watched' = {} /\ open' = {} /\ batch' = {} /\ own' = Nothing /\ alive' = {}
    /\ UNCHANGED kernel

\* From here on a signal also writes to a pipe that select watches.
Wakeup ==
    /\ Run("wakeup") /\ Goto("kernel")
    /\ watched' = {"stop"} /\ open' = {"stop"}
    /\ UNCHANGED <<signalling, batch, alive, trace, counters>>

\* An error that is not the tracing's ends the capture.
Fails == Goto("terminate") /\ UNCHANGED <<signalling, streams, alive, trace, counters>>

KernelLog ==
    /\ Run("kernel")
    /\ \/ Fails
       \/ /\ Goto("children")
          /\ watched' = watched \cup {"kernel"} /\ open' = open \cup {"kernel"}
          /\ UNCHANGED <<signalling, batch, alive, trace, counters>>

Child(c) ==
    /\ Run("children") /\ c \in Children \ watched
    /\ \/ Fails
       \/ /\ alive' = alive \cup {c} /\ watched' = watched \cup {c}
          /\ Goto(IF Children \subseteq watched' THEN "mount" ELSE "children")
          /\ UNCHANGED <<signalling, open, batch, trace, counters>>

\* Tracing is optional: when something of it fails, the capture goes on without the rest.
Without == Goto("test") /\ UNCHANGED <<signalling, streams, alive, trace, counters>>

Mount ==
    /\ Run("mount")
    /\ \/ ~kernel.mounted /\ Without
       \/ /\ kernel' = [kernel EXCEPT !.mounted = TRUE] /\ own' = [own EXCEPT !.mounted = ~kernel.mounted]
          /\ Goto("instance")
          /\ UNCHANGED <<signalling, streams, alive, counters>>

Instance ==
    /\ Run("instance")
    /\ \/ Without
       \/ /\ ~kernel.instance
          /\ kernel' = [kernel EXCEPT !.instance = TRUE] /\ own' = [own EXCEPT !.instance = TRUE]
          /\ Goto("probe")
          /\ UNCHANGED <<signalling, streams, alive, counters>>

\* A probe of that name may be there, or the kernel may not know the function.
Probe(p) ==
    /\ Run("probe") /\ p \in Probes \ own.probes
    /\ \/ Without
       \/ /\ p \notin kernel.probes
          /\ kernel' = [kernel EXCEPT !.probes = @ \cup {p}] /\ own' = [own EXCEPT !.probes = @ \cup {p}]
          /\ Goto("enable")
          /\ UNCHANGED <<signalling, streams, alive, counters>>

Enable ==
    /\ Run("enable")
    /\ \/ Without
       \/ /\ kernel' = [kernel EXCEPT !.enabled = @ \cup own.probes]
          /\ Goto(IF own.probes = Probes THEN "trace" ELSE "probe")
          /\ UNCHANGED <<signalling, streams, alive, own, counters>>

Trace ==
    /\ Run("trace")
    /\ \/ Without
       \/ /\ watched' = watched \cup {"trace"} /\ open' = open \cup {"trace"}
          /\ Goto("test")
          /\ UNCHANGED <<signalling, batch, alive, trace, counters>>

-----------------------------------------------------------------------------
(* Waiting *)

\* Variant: the time is looked at by the snapshots only.
TestFlagOnly ==
    /\ Run("test")
    /\ Goto(IF stopping THEN "terminate" ELSE "select")
    /\ UNCHANGED <<signalling, streams, alive, trace, counters>>

Test ==
    /\ Run("test")
    /\ Goto(IF stopping \/ over THEN "terminate" ELSE "select")
    /\ UNCHANGED <<signalling, streams, alive, trace, counters>>

\* Something can be read, or it is time for the next snapshot.
Select ==
    /\ pc = "select"
    /\ batch' \in {b \in SUBSET watched : "stop" \in b <=> wake}
    /\ Goto("serve")
    /\ UNCHANGED <<signalling, watched, open, alive, trace, counters>>

\* The bytes are taken out of the wake-up pipe.
Woken ==
    /\ Run("serve") /\ "stop" \in batch
    /\ wake' = FALSE /\ batch' = batch \ {"stop"}
    /\ UNCHANGED <<pc, stopping, tripped, signals, watched, open, alive, trace, counters>>

Serve(s) ==
    /\ Run("serve") /\ s \in batch
    /\ batch' = batch \ {s}
    /\ UNCHANGED <<pc, signalling, watched, open, alive, trace, counters>>

\* It ended, or reading it fails: it is not watched any more.
Ends(s) ==
    /\ Run("serve") /\ s \in batch /\ (s = "trace" => TraceMayEnd)
    /\ batch' = batch \ {s} /\ watched' = watched \ {s}
    /\ UNCHANGED <<pc, signalling, open, alive, trace, counters>>

\* A severe event, and its evidence cannot be stored.
EvidenceFails == Run("serve") /\ "kernel" \in batch /\ Fails

Served ==
    /\ Run("serve") /\ batch = {}
    /\ Goto("test")
    /\ UNCHANGED <<signalling, streams, alive, trace, counters>>

-----------------------------------------------------------------------------
(* Taking away *)

Terminate ==
    /\ Run("terminate")
    /\ alive' = {} /\ Goto("close")
    /\ UNCHANGED <<signalling, streams, trace, counters>>

\* Variant: what is watched is left to the end of the process.
CloseAtExit ==
    /\ Run("close")
    /\ Goto("instance off")
    /\ UNCHANGED <<signalling, streams, alive, trace, counters>>

\* What is watched is closed, and a signal writes to the pipe no more.
CloseStreams ==
    /\ Run("close")
    /\ open' = open \ watched /\ watched' = {} /\ wake' = FALSE
    /\ Goto("instance off")
    /\ UNCHANGED <<stopping, tripped, signals, batch, alive, trace, counters>>

InstanceOff ==
    /\ Run("instance off")
    /\ kernel' = [kernel EXCEPT !.enabled = IF kernel.instance THEN @ \ own.probes ELSE @]
    /\ Goto(IF kernel.instance THEN "remove" ELSE "probes off")
    /\ UNCHANGED <<signalling, streams, alive, own, counters>>

RemoveInstance ==
    /\ Run("remove")
    /\ IF "trace" \in open THEN Goto("failed") /\ UNCHANGED <<signalling, streams, alive, trace, counters>>
       ELSE /\ kernel' = [kernel EXCEPT !.instance = FALSE] /\ Goto("probes off")
            /\ UNCHANGED <<signalling, streams, alive, own, counters>>

\* Variant: only when all of them could be made.
ProbesOffIfAll ==
    /\ Run("probes off")
    /\ kernel' = [kernel EXCEPT !.probes = IF own.probes = Probes THEN @ \ own.probes ELSE @]
    /\ Goto("unmount")
    /\ UNCHANGED <<signalling, streams, alive, own, counters>>

ProbesOff ==
    /\ Run("probes off")
    /\ kernel' = [kernel EXCEPT !.probes = @ \ own.probes]
    /\ Goto("unmount")
    /\ UNCHANGED <<signalling, streams, alive, own, counters>>

Unmount ==
    /\ Run("unmount")
    /\ kernel' = [kernel EXCEPT !.mounted = @ /\ ~own.mounted]
    /\ Goto("ended")
    /\ UNCHANGED <<signalling, streams, alive, own, counters>>

\* The process ends, after an error in taking away at once.
Exit ==
    /\ pc \in {"ended", "failed"}
    /\ Goto("off") /\ own' = Nothing /\ watched' = {} /\ open' = {} /\ batch' = {}
    /\ UNCHANGED <<signalling, alive, kernel, counters>>

Finished == pc = "off" /\ captures = MaxCaptures /\ UNCHANGED vars

-----------------------------------------------------------------------------
(* Around it *)

Running == pc \notin {"off", "ended", "failed"}

\* Variant: only the flag.
SignalFlagOnly ==
    /\ Running /\ signals < MaxSignals
    /\ signals' = signals + 1 /\ tripped' = TRUE
    /\ UNCHANGED <<pc, stopping, wake, streams, alive, trace, counters>>

\* A signal: at once a byte into the pipe, as soon as it is watched ...
Signal ==
    /\ Running /\ signals < MaxSignals
    /\ signals' = signals + 1 /\ tripped' = TRUE /\ wake' = ("stop" \in watched)
    /\ UNCHANGED <<pc, stopping, streams, alive, trace, counters>>

\* ... and between two steps the handler.
Handler ==
    /\ tripped
    /\ tripped' = FALSE /\ stopping' = TRUE
    /\ UNCHANGED <<pc, wake, signals, streams, alive, trace, counters>>

TimeOver ==
    /\ ~over /\ Running
    /\ over' = TRUE
    /\ UNCHANGED <<pc, signalling, streams, alive, trace, captures>>

\* Its processes end with their next write.
Kill ==
    /\ Running
    /\ Goto("off") /\ own' = Nothing /\ watched' = {} /\ open' = {} /\ batch' = {} /\ alive' = {}
    /\ UNCHANGED <<signalling, kernel, counters>>

Init ==
    /\ pc = "off" /\ stopping = FALSE /\ tripped = FALSE /\ wake = FALSE /\ over = FALSE
    /\ watched = {} /\ open = {} /\ batch = {} /\ alive = {}
    /\ kernel \in {Nothing, [Nothing EXCEPT !.mounted = TRUE]}
    /\ own = Nothing /\ captures = 0 /\ signals = 0

Program ==
    \/ Wakeup \/ KernelLog \/ Mount \/ Instance \/ Enable \/ Trace
    \/ \E c \in Children : Child(c)
    \/ \E p \in Probes : Probe(p)
    \/ Test \/ Select \/ Woken \/ Served \/ EvidenceFails
    \/ \E s \in Streams : Serve(s) \/ Ends(s)
    \/ Terminate \/ CloseStreams \/ InstanceOff \/ RemoveInstance \/ ProbesOff \/ Unmount \/ Exit
Environment == Begin \/ Signal \/ TimeOver \/ Kill \/ Finished
Next == Program \/ Handler \/ Environment

Spec == Init /\ [][Next]_vars /\ WF_vars(Program) /\ WF_vars(Handler) /\ WF_vars(TimeOver)

-----------------------------------------------------------------------------
(* Properties *)

\* Every variable holds what its declaration says; the selector knows open descriptors only.
TypeOK ==
    /\ pc \in Setup \cup Cleanup \cup {"off", "test", "select", "serve", "ended", "failed"}
    /\ {stopping, tripped, wake, over} \subseteq BOOLEAN
    /\ batch \cup watched \subseteq Streams \cup {"stop"} /\ (pc = "ended" => watched = {})
    /\ watched \ Children \subseteq open
    /\ alive \subseteq Children /\ kernel.enabled \subseteq kernel.probes

\* Whoever waits for events hears of a signal: one that arrives after the flag was looked at,
\* and before the wait, ends the wait at once.
HearsSignal == pc = "select" /\ (stopping \/ tripped) => wake

\* A capture that ends by itself has taken away every process, probe and instance that it
\* made, wherever setting it up stopped: "capture ending; cleaning temporary observers".
LeavesNothing ==
    pc \in {"ended", "failed"} =>
        /\ alive = {} /\ own.probes \cap kernel.probes = {}
        /\ own.instance => ~kernel.instance
        /\ own.mounted => ~kernel.mounted

\* Every capture ends, by its time if nothing else ends it before.
EveryCaptureEnds == pc # "off" ~> pc = "off"
=============================================================================
