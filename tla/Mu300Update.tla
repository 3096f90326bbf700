---------------------------- MODULE Mu300Update ----------------------------
(***************************************************************************)
(* Update of a running system of the mu300 family over SSH: the plan       *)
(* (probe_update), update_mu300 with the proof of the hidden area that the *)
(* oldest systems live in (legacy_layout), and the wait for the new system.*)
(*                                                                         *)
(* A run holds one SSH connection, which ends when its device restarts;    *)
(* between plan, run and wait the address may lead to another device.      *)
(* local-update.sh, which writes on the device, is not part of this        *)
(* repository: it succeeds as a whole or changes nothing that counts.      *)
(***************************************************************************)
EXTENDS Naturals

CONSTANTS
    Devices,
    Runs,       \* updates, in the user interface or not
    Gui,        \* those in the user interface
    Capacities, \* sizes of the filesystem
    MaxBoots    \* how often a device starts

GuiAssumption == Gui \subseteq Runs
BoundAssumption == Capacities \subseteq Nat /\ MaxBoots \in Nat

VARIABLES
    device, \* what each device runs, and in which layout
    host,   \* the device at the management address
    run     \* the runs

vars == <<device, host, run>>

None == "none"
Earlier == "earlier"
NoLayout == [capacity |-> 0, found |-> FALSE]
Fresh == [pc |-> "new", planned |-> None, capacity |-> 0, connected |-> None, session |-> 0,
          boot |-> 0, mode |-> None, layout |-> NoLayout, moved |-> FALSE]

Layout(d) == [capacity |-> device[d].capacity, found |-> device[d].found]

\* The connection is that of one start of one device.
Alive(r) == run[r].connected # None /\ run[r].session = device[run[r].connected].boot
Goes(r, to) == run' = [run EXCEPT ![r].pc = to]

-----------------------------------------------------------------------------
(* The plan *)

\* Variant: the start that the plan saw is the one before the update.
PlanWithBoot(r) ==
    /\ r \in Gui /\ run[r].pc = "new" /\ device[host].suits
    /\ run' = [run EXCEPT ![r] = [Fresh EXCEPT !.pc = "planned", !.planned = host,
                                               !.capacity = device[host].capacity, !.boot = device[host].boot]]
    /\ UNCHANGED <<device, host>>

\* probe_update: the key of whatever answers is recorded, and its capacity.
Plan(r) ==
    /\ r \in Gui /\ run[r].pc = "new" /\ device[host].suits
    /\ run' = [run EXCEPT ![r] = [Fresh EXCEPT !.pc = "planned", !.planned = host, !.capacity = device[host].capacity]]
    /\ UNCHANGED <<device, host>>

-----------------------------------------------------------------------------
(* The run *)

\* Variant: any key is accepted, as it is without a plan.
AnyKey(r) == TRUE

\* validate_ssh: the key is the planned one.
KeyAgrees(r) == r \in Gui => host = run[r].planned

Connect(r) ==
    /\ run[r].pc = IF r \in Gui THEN "planned" ELSE "new"
    /\ IF KeyAgrees(r)
       THEN run' = [run EXCEPT ![r].pc = "info", ![r].connected = host, ![r].session = device[host].boot,
                               ![r].boot = IF r \in Gui /\ @ = 0 THEN device[host].boot ELSE @]
       ELSE Goes(r, "failed")
    /\ UNCHANGED <<device, host>>

\* legacy_layout: the area is behind the last partition, inside the disk, where the packaged
\* boot looks for it, and holds the filesystem.
Proven(d) == device[d].found

\* Device, slot and layout; the hidden area is proven, and as large as was planned.
Examine(r) ==
    /\ run[r].pc = "info" /\ Alive(r)
    /\ LET d == run[r].connected
           legacy == device[d].mode = "legacy"
       IN  IF legacy => Proven(d) /\ (r \in Gui => device[d].capacity = run[r].capacity)
           THEN run' = [run EXCEPT ![r].pc = "read", ![r].mode = device[d].mode,
                                   ![r].layout = IF legacy THEN Layout(d) ELSE NoLayout]
           ELSE Goes(r, "failed")
    /\ UNCHANGED <<device, host>>

\* The kernel's family, then the boot control as it is now: boot image and control for the
\* new system are made from it before anything is sent.
Prepare(r) ==
    /\ run[r].pc = "read" /\ Alive(r)
    /\ Goes(r, IF device[run[r].connected].suits THEN "upload" ELSE "failed")
    /\ UNCHANGED <<device, host>>

\* Into a new directory, file after file, each compared.
Upload(r) ==
    /\ run[r].pc = "upload" /\ Alive(r)
    /\ Goes(r, "recheck")
    /\ UNCHANGED <<device, host>>

\* Variant: the layout is not looked at again.
CommitAtOnce(r) ==
    /\ run[r].pc = "recheck" /\ Alive(r)
    /\ Goes(r, "commit")
    /\ UNCHANGED <<device, host>>

\* The hidden area is proven again, and must be the same.
Recheck(r) ==
    /\ run[r].pc = "recheck" /\ Alive(r)
    /\ LET d == run[r].connected IN
       Goes(r, IF run[r].mode = "legacy" => Proven(d) /\ Layout(d) = run[r].layout THEN "commit" ELSE "failed")
    /\ UNCHANGED <<device, host>>

\* local-update.sh: the system, the boot image and the control; then a restart.
Commit(r) ==
    /\ run[r].pc = "commit" /\ Alive(r)
    /\ device' = [device EXCEPT ![run[r].connected].next = r]
    /\ Goes(r, IF r \in Gui THEN "wait" ELSE "ended")
    /\ UNCHANGED host

\* Cancelled before the commit, an error of a command, or the connection is lost.
Fail(r) ==
    /\ run[r].pc \in {"info", "read", "upload", "recheck", "commit"}
    /\ Goes(r, "failed")
    /\ UNCHANGED <<device, host>>

\* Variant: an answer is enough.
AnyAnswer(r) ==
    /\ run[r].pc = "wait" /\ host = run[r].planned
    /\ Goes(r, "completed") /\ UNCHANGED <<device, host>>

\* wait_openwrt: the planned device, and another start than the one before the commit.
Complete(r) ==
    /\ run[r].pc = "wait" /\ host = run[r].planned /\ device[host].boot # run[r].boot
    /\ Goes(r, "completed") /\ UNCHANGED <<device, host>>

-----------------------------------------------------------------------------
(* Around it *)

\* A device restarts, as an update wants or of itself.
Restart(d) ==
    /\ device[d].boot < MaxBoots
    /\ device' = [device EXCEPT ![d].boot = @ + 1, ![d].system = device[d].next,
                                ![d].started = @ \cup {device[d].next}]
    /\ UNCHANGED <<host, run>>

\* The network gives the address to another device.
AddressMoves(d) == d # host /\ host' = d /\ UNCHANGED <<device, run>>

\* Its user resizes or repartitions the running system.
Reshape(d, capacity, found) ==
    /\ device[d].mode = "legacy" /\ (device[d].found \/ found) /\ [capacity |-> capacity, found |-> found] # Layout(d)
    /\ device' = [device EXCEPT ![d].capacity = capacity, ![d].found = found]
    /\ run' = [r \in Runs |->
                 IF run[r].connected = d /\ run[r].pc \in {"read", "upload", "recheck"}
                 THEN [run[r] EXCEPT !.moved = run[r].layout # Layout(d)'] ELSE run[r]]
    /\ UNCHANGED host

Init ==
    /\ device \in [Devices -> [mode : {"legacy", "part"}, capacity : Capacities, found : {TRUE}, suits : BOOLEAN,
                               boot : {1}, system : {Earlier}, next : {Earlier}, started : {{Earlier}}]]
    /\ host \in Devices
    /\ run = [r \in Runs |-> Fresh]

Steps(r) == \/ Plan(r) \/ Connect(r) \/ Examine(r) \/ Prepare(r) \/ Upload(r) \/ Recheck(r)
            \/ Commit(r) \/ Fail(r) \/ Complete(r)
Around == \E d \in Devices : \/ Restart(d) \/ AddressMoves(d)
                             \/ \E c \in Capacities, f \in BOOLEAN : Reshape(d, c, f)
Next == Around \/ \E r \in Runs : Steps(r)

Spec == Init /\ [][Next]_vars

-----------------------------------------------------------------------------
(* Properties *)

\* Every variable holds what its declaration says.
TypeOK ==
    /\ host \in Devices
    /\ \A d \in Devices : /\ device[d].capacity \in Capacities /\ device[d].boot \in 1..MaxBoots
                          /\ {device[d].system, device[d].next} \subseteq Runs \cup {Earlier}
    /\ \A r \in Runs :
          /\ run[r].pc \in {"new", "planned", "info", "read", "upload", "recheck", "commit", "wait",
                            "ended", "completed", "failed"}
          /\ {run[r].planned, run[r].connected} \subseteq Devices \cup {None}
          /\ IF run[r].pc \in {"new", "planned"} THEN run[r].connected = None /\ run[r].boot = 0
             ELSE run[r].pc = "failed" \/ run[r].connected # None

\* An update in the user interface changes the device it was planned for and no other,
\* wherever the address leads by then: "SSH maintenance binds the key fingerprint between
\* planning and execution".
ChangesOnlyPlanned ==
    [][\A d \in Devices : device'[d].next # device[d].next =>
          (device'[d].next \in Gui => run[device'[d].next].planned = d)]_vars

\* A hidden area that was reshaped while the files were sent is not written: the command
\* goes to the layout that was proven and shown, and of the planned size.
CommitsReviewedLayout ==
    \A r \in Runs : run[r].pc = "commit" /\ run[r].mode = "legacy" =>
        /\ ~run[r].moved /\ run[r].layout.found
        /\ r \in Gui => run[r].layout.capacity = run[r].capacity

\* A completed update was started on the planned device: neither an answer of the old system
\* before its restart nor a start before the commit is taken for the new one.  (A second
\* update may replace it before it was ever started.)
CompletedIsStarted ==
    \A r \in Runs : run[r].pc = "completed" =>
        LET d == run[r].planned IN
        r \in device[d].started \/ (device[d].system # Earlier /\ device[d].next # r)
=============================================================================
