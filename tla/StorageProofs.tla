--------------------------- MODULE StorageProofs ----------------------------
(***************************************************************************)
(* Proofs about the table of a phone from one installation to the next     *)
(* (Partitions), and about the journals that remove a root (Snapshots).    *)
(*                                                                         *)
(* The invariant of the table ties together both copies of the table,      *)
(* Android's view of it, the record of each installation, and the removal  *)
(* that its user was shown.  That of the journals says what was accepted.  *)
(* Neither bounds the slots, the sectors, the installations or the changes. *)
(***************************************************************************)
EXTENDS Storage, LayoutProofs

-----------------------------------------------------------------------------
(* The invariant *)

\* The kinds of an installation, and those that take sectors from userdata.
Kinds == {"gap", "shrink", "wipe"}
Taking == {"shrink", "wipe"}

\* What the variables hold.
RootType == [state : {"none", "empty", "installed"}, by : Txns \cup {NoTxn}]
PlanType == [kind : Kinds \cup {"none"}, start : Int, need : Nat, size : Int, asked : BOOLEAN]
RecordType == [state : {"none", "planned", "run", "done"}, plan : PlanType, original : Tables, intact : BOOLEAN]
RequestType == [kind : Kinds \cup {"none", "reset", "remove"}, by : Txns \cup {NoTxn, "device"}]
EvidenceType == [layout : Tables, fs : Nat, root : RootType]
RemovalType == [state : {"none", "planned", "armed", "done"}, by : Txns \cup {NoTxn, "device"},
                action : {"none", "gap", "grow", "reset"}, before : Tables, after : Tables, fs : Nat,
                shown : EvidenceType]
Places == {"android", "gap", "gap2", "down", "boot", "resize", "resize2", "add", "add2", "image",
           "carve2", "carved", "remove", "remove2", "removed"}

Typed ==
    /\ first \in Tables /\ last \in Tables /\ kernel \in Tables
    /\ unlisted \subseteq First..Last /\ encrypted \in BOOLEAN /\ fs \in Nat
    /\ root \in RootType /\ pc \in Places /\ request \in RequestType
    /\ records \in [Txns -> RecordType] /\ removal \in RemovalType /\ prompt \in EvidenceType

\* An installation that has begun.
Ran(t) == records[t].state \in {"run", "done"}

\* Every table is sound; what a record or a removal saved agrees with the disk about the
\* partitions of others.
Tabulated ==
    /\ Sound(first) /\ Sound(last) /\ Sound(kernel)
    /\ \A t \in Txns : Ran(t) => Sound(records[t].original) /\ Others(records[t].original, first)
    /\ removal.state # "none" =>
         /\ Sound(removal.before) /\ Has(removal.before, Root)
         /\ Sound(removal.after) /\ ~Has(removal.after, Root)
         /\ Others(removal.before, removal.after)
         /\ Userdata(removal.before) <= Userdata(removal.after)
         /\ Open(removal.after) \subseteq Open(removal.before)
         /\ removal.by \in Txns => Ran(removal.by) /\ removal.after = records[removal.by].original

\* What a plan was made from.
Founded(r) ==
    /\ r.state = "none" => r.plan.kind = "none"
    /\ r.state # "none" => r.plan.kind \in Kinds /\ r.plan.need \in Needs
    /\ r.plan.kind = "gap" => r.plan.start \notin unlisted
    /\ r.state \in {"run", "done"} /\ r.plan.kind \in Taking =>
         /\ r.plan.size + r.plan.need = Userdata(r.original)
         /\ r.plan.size >= MinPart
         /\ r.plan.kind = "shrink" =>
              /\ r.plan.size >= MinPart + Contents
              /\ unlisted = {} => Fitting(Gaps(r.original), r.plan.need) = {} \/ Unused(r.original) = {}
Fresh == \A t \in Txns : Founded(records[t]) /\ (records[t].intact => Ran(t))

\* A request is of an installation that runs, or of an armed removal; a removal that resets was
\* shown the table and the filesystem it began with.
Asks ==
    /\ request.kind \in Kinds =>
          /\ request.by \in Txns /\ records[request.by].state = "run"
          /\ records[request.by].plan.kind = request.kind
    /\ request.kind = "wipe" => root # [state |-> "empty", by |-> request.by]
    /\ request.kind = "remove" => removal.state = "armed"
    /\ root.state # "none" => root.by \in Txns
    /\ removal.action = "reset" => removal.shown.layout = removal.before /\ removal.shown.fs = removal.fs

\* Where each program is, what it is about and what it has done.
Stands ==
    /\ pc \in {"gap", "gap2"} => request.kind = "gap" /\ first = records[request.by].original
    /\ pc = "android" => request.kind # "reset"
    /\ request.kind = "gap" => pc \in {"gap", "gap2"}
    /\ pc \in {"android", "gap", "gap2"} => Of(kernel, Data) = Of(first, Data)
    /\ pc \in {"resize", "resize2", "add", "add2", "image"} => request.kind = "shrink" /\ fs = Keeps
    /\ pc \in {"resize", "resize2", "add", "add2", "carve2"} => ~Has(first, Root)
    /\ pc \in {"add", "add2"} => Userdata(first) = Keeps
    /\ pc \in {"image", "carved"} => Has(first, Root)
    /\ pc \in {"carve2", "carved"} => request.kind = "wipe"
    /\ pc = "carved" => Userdata(first) = Keeps
    /\ pc \in {"remove", "remove2", "removed"} =>
          /\ removal.state = "armed"
          /\ request.kind = IF removal.action = "reset" THEN "reset" ELSE "remove"
    /\ request.kind = "remove" /\ removal.action = "reset" => Has(first, Root)
    /\ pc \in {"remove", "remove2"} => first \in {removal.before, removal.after}
    /\ pc = "removed" => first = removal.after /\ last = removal.after

\* What the last copy says while the first is still the old one.
Writing ==
    /\ pc = "gap2" => CanAddRoot(first, Asked.start, Asked.need) /\ last = WithRoot(first, Asked.start, Asked.need)
    /\ pc = "resize2" => CanResize(first, Keeps) /\ last = Resized(first, Keeps)
    /\ pc = "add2" => CanAllocate(first, Wanted) /\ last = Allocated(first, Wanted)
    /\ pc = "carve2" => CanCarve(first, Keeps, Wanted, Asked.size + Asked.need) /\ last = Carved(first, Keeps, Wanted)
    /\ pc = "remove2" => last = removal.after

\* The filesystem is inside userdata, or it is about to be made anew.
Fits ==
    \/ fs <= Userdata(first)
    \/ request.kind = "reset"
    \/ \E t \in Txns : records[t].state = "run" /\ records[t].plan.kind = "wipe" /\ root # [state |-> "empty", by |-> t]

\* A system in what userdata gave up is there until it is removed, and nothing takes more.
Keeping ==
    /\ request.kind = "shrink" => Userdata(first) \in {Asked.size + Asked.need, Keeps}
    /\ root.by \in Txns => Has(first, Root) /\ Ran(root.by)
    /\ root.by \in Txns /\ records[root.by].plan.kind \in Taking =>
         /\ request.kind \notin Kinds
         /\ pc = "android" => Has(kernel, Root)
         /\ Userdata(first) >= MinPart
         /\ records[root.by].plan.kind = "shrink" =>
              Userdata(first) >= MinPart + Down(Contents) /\ fs >= MinPart + Down(Contents)

\* No gap begins before an old filesystem that lies in it.
Marked(t) == \A u \in unlisted : \A s \in First..(u - 1) : s % Align = 0 => ~(s..u \subseteq Open(t))
Sparing ==
    (\A t \in Txns : records[t].plan.kind \notin Taking) =>
        /\ Marked(first)
        /\ root.by \in Txns /\ records[root.by].plan.kind = "gap" => Sectors(Of(first, Root)) \cap unlisted = {}

\* The table is what the record of an installation says, if nothing else changed it.
Explained(t) ==
    LET old == records[t].original
        plan == records[t].plan
    IN  /\ CanRestore(old, first) /\ Size(Of(first, Root)) = plan.need
        /\ GaveUp(old, first) \/ (plan.kind = "gap" /\ plan.start = Of(first, Root).start)
Alone(t) ==
    LET old == records[t].original
    IN  /\ unlisted = {} /\ Of(old, Data).start % Align = 0 /\ ~Has(old, Root)
        /\ Has(first, "foreign") => Has(old, "foreign")
AsRecorded(t) ==
    LET old == records[t].original
    IN  /\ root.by = t => Explained(t)
        /\ request.by = t /\ request.kind \in Taking =>
             /\ Has(first, Root) => Explained(t)
             /\ ~Has(first, Root) => first = old \/ (request.kind = "shrink" /\ first = Resized(old, Keeps))
        /\ request.by = t /\ pc \in {"add", "add2"} => first = Resized(old, Keeps)
Explaining == \A t \in Txns : Ran(t) /\ Alone(t) => AsRecorded(t)

\* The inductive invariant.
IInv == Typed /\ Tabulated /\ Fresh /\ Asks /\ Stands /\ Writing /\ Fits /\ Keeping /\ Sparing /\ Explaining

-----------------------------------------------------------------------------
(* Types *)

\* No installation has the name of a removal without a record, or of nobody.
LEMMA TxnNames == "none" \notin Txns /\ "device" \notin Txns
  BY TxnsAssumption

\* A plan is a plan.
LEMMA PlanTyped ==
    ASSUME Typed, Sound(kernel), NEW need \in Needs, NEW asked \in BOOLEAN
    PROVE  PlanFor(need, asked) \in PlanType
<1> DEFINE gaps == Fitting(SafeGaps, need)
           wipe == Wipes(asked)
<1>1. need \in Nat /\ Userdata(kernel) \in Nat
  BY NeedsAssumption, UserdataIs DEF Userdata
<1>2. gaps # {} => LastOfLargest(gaps).start \in Int
  BY PlannedGapIs DEF SafeGaps
<1> HIDE DEF gaps, wipe
<1>3. NoPlan \in PlanType
  BY DEF NoPlan, PlanType
<1>4. gaps # {} => [kind |-> "gap", start |-> LastOfLargest(gaps).start, need |-> need,
              size |-> Userdata(kernel), asked |-> asked] \in PlanType
  BY <1>1, <1>2 DEF PlanType, Kinds
<1>5. [kind |-> IF wipe THEN "wipe" ELSE "shrink", start |-> 0, need |-> need,
              size |-> Userdata(kernel) - need, asked |-> asked] \in PlanType
  BY <1>1 DEF PlanType, Kinds
<1> QED BY <1>3, <1>4, <1>5 DEF PlanFor, gaps, wipe

\* A record after a plan is made; an empty one has none of what it says.
LEMMA Planned ==
    ASSUME Typed, NEW t \in Txns, NEW need, NEW asked, Plan(t, need, asked)
    PROVE  /\ records[t].state = "none" /\ PlanFor(need, asked) # NoPlan
           /\ records'[t] = [state |-> "planned", plan |-> PlanFor(need, asked), original |-> NoTable, intact |-> FALSE]
           /\ \A u \in Txns \ {t} : records'[u] = records[u]
           /\ records' \in [Txns -> {records[u] : u \in Txns} \cup {records'[t]}]
  BY DEF Plan, NoRecord, Typed

\* It is of one installation.
LEMMA PlannedOne ==
    ASSUME Typed, NEW t \in Txns, NEW need, NEW asked, Plan(t, need, asked)
    PROVE  records'[t].state = "planned" /\ \A u \in Txns : records'[u] # records[u] => u = t
<1>1. /\ records'[t] = [state |-> "planned", plan |-> PlanFor(need, asked), original |-> NoTable, intact |-> FALSE]
      /\ \A u \in Txns \ {t} : records'[u] = records[u]
  BY Planned
<1> QED BY <1>1

\* It changes the records alone.
LEMMA PlanLeaves ==
    ASSUME NEW t, NEW need, NEW asked, Plan(t, need, asked)
    PROVE  UNCHANGED <<first, last, kernel, fs, root, pc, request, removal, prompt>>
  BY DEF Plan, table

\* What stands for nothing yet is of its type.
LEMMA NothingTyped == NoTable \in Tables /\ NoRoot \in RootType /\ NoPlan \in PlanType
  BY DEF NoTable, Tables, NoRoot, RootType, NoPlan, PlanType

\* Every step of an installation's record.
LEMMA RecordSteps ==
    ASSUME IInv, [Next]_vars
    PROVE  /\ records' \in [Txns -> RecordType]
           /\ \A t \in Txns : /\ records[t].state # "none" => records'[t].state # "none" /\ records'[t].plan = records[t].plan
                              /\ Ran(t) => Ran(t)' /\ records'[t].original = records[t].original
<1> DEFINE G == /\ records' \in [Txns -> RecordType]
                /\ \A t \in Txns : /\ records[t].state # "none" => records'[t].state # "none" /\ records'[t].plan = records[t].plan
                                   /\ Ran(t) => Ran(t)' /\ records'[t].original = records[t].original
<1>0. Typed /\ Sound(kernel)
  BY DEF IInv, Tabulated
<1>1. ASSUME records' = records PROVE G
  BY <1>0, <1>1 DEF Typed, Ran
<1>2. ASSUME NEW t \in Txns, NEW need \in Needs, NEW asked \in BOOLEAN, Plan(t, need, asked) PROVE G
  <2>1. /\ records[t].state = "none" /\ records' \in [Txns -> {records[u] : u \in Txns} \cup {records'[t]}]
        /\ records'[t] = [state |-> "planned", plan |-> PlanFor(need, asked), original |-> NoTable, intact |-> FALSE]
        /\ \A u \in Txns \ {t} : records'[u] = records[u]
    BY <1>0, <1>2, Planned
  <2>2. PlanFor(need, asked) \in PlanType
    BY <1>0, PlanTyped
  <2>3. records'[t] \in RecordType
    BY <2>1, <2>2, NothingTyped DEF RecordType
  <2>4. \A u \in Txns : records[u] \in RecordType
    BY <1>0 DEF Typed
  <2>5. records' \in [Txns -> RecordType]
    BY <2>1, <2>3, <2>4
  <2> QED BY <2>1, <2>5 DEF Ran
<1>3. ASSUME NEW t \in Txns, Execute(t) PROVE G
  <2> DEFINE r == [records[t] EXCEPT !.state = "run", !.original = first, !.intact = TRUE]
  <2>1. records[t] \in RecordType /\ first \in Tables /\ records \in [Txns -> RecordType]
    BY <1>0 DEF Typed
  <2>2. records[t].state = "planned" /\ records' = [records EXCEPT ![t] = r]
    BY <1>3, <2>1 DEF Execute
  <2>3. r \in RecordType /\ r.plan = records[t].plan
    BY <2>1 DEF RecordType
  <2> HIDE DEF r
  <2>4. records' \in [Txns -> RecordType] /\ records'[t] = r /\ \A u \in Txns \ {t} : records'[u] = records[u]
    BY <2>1, <2>2, <2>3
  <2> QED BY <2>2, <2>3, <2>4 DEF Ran, r
<1>4. ASSUME NEW t \in Txns, records[t].state = "run", records' = [records EXCEPT ![t].state = "done"] PROVE G
  BY <1>0, <1>4 DEF Typed, RecordType, Ran
<1>5. ASSUME NEW t \in Txns, LoseBackup(t) PROVE G
  BY <1>0, <1>5 DEF LoseBackup, Typed, RecordType, Ran
<1>6. CASE Image
  BY <1>0, <1>4, <1>6 DEF Image, At, IInv, Stands, Asks, Kinds
<1>7. CASE Installs
  <2>1. ASSUME NEW t \in Txns, Resume(t) PROVE G
    BY <1>4, <2>1 DEF Resume
  <2> QED BY <1>2, <1>3, <1>7, <2>1 DEF Installs
<1>8. CASE GapLast \/ GapFirst \/ GapStops \/ PlanRemoval \/ Arm
  BY <1>1, <1>8 DEF GapLast, GapFirst, GapStops, PlanRemoval, Arm, WritesLast, WritesFirst, computer
<1>9. CASE \/ Shrink \/ ResizeLast \/ ResizeFirst \/ AddLast \/ AddFirst
           \/ CarveLast \/ CarveFirst \/ CarveEnds \/ RemoveAsks \/ RemoveLast \/ RemoveFirst \/ RemoveEnds
  BY <1>1, <1>9 DEF Shrink, ResizeLast, ResizeFirst, AddLast, AddFirst, CarveLast, CarveFirst, CarveEnds,
     RemoveAsks, RemoveLast, RemoveFirst, RemoveEnds, WritesLast, WritesFirst, computer
<1>10. CASE Around
  <2>1. ASSUME NEW s \in First..Last, ForeignPartition(s) PROVE G
    BY <1>1, <2>1 DEF ForeignPartition, computer
  <2> QED BY <1>1, <1>5, <1>10, <2>1 DEF Around, Restart, Boot, RecoveryWipes, Stops, computer
<1>11. CASE UNCHANGED vars
  BY <1>1, <1>11 DEF vars
<1> QED BY <1>6, <1>7, <1>8, <1>9, <1>10, <1>11 DEF Next, OnAndroid, Initramfs

\* The old filesystems and the encryption are given.
LEMMA Unlisted ==
    ASSUME [Next]_vars
    PROVE  unlisted' = unlisted /\ encrypted' = encrypted
  BY DEF Next, OnAndroid, Installs, Plan, Execute, Resume, GapLast, GapFirst, GapStops, PlanRemoval, Arm, Initramfs, Shrink,
     ResizeLast, ResizeFirst, AddLast, AddFirst, Image, CarveLast, CarveFirst, CarveEnds, RemoveAsks, RemoveLast, RemoveFirst,
     RemoveEnds, Around, Restart, Boot, RecoveryWipes, Stops, ForeignPartition, LoseBackup, WritesLast, WritesFirst, fixed, vars

\* What a step does to a record that is not there yet, or does not run.
LEMMA RecordChanges ==
    ASSUME IInv, [Next]_vars, NEW t \in Txns, records'[t] # records[t]
    PROVE  \/ \E need \in Needs, asked \in BOOLEAN : Plan(t, need, asked)
           \/ Execute(t)
           \/ /\ Ran(t) /\ records'[t].state \in {"run", "done"}
              /\ records'[t].plan = records[t].plan /\ records'[t].original = records[t].original
<1>1. CASE Ran(t)
  <2>1. Ran(t)' /\ records'[t].original = records[t].original /\ records'[t].plan = records[t].plan
    BY <1>1, RecordSteps DEF Ran
  <2> QED BY <1>1, <2>1 DEF Ran
<1>3. CASE ~Ran(t)
  <2>0. Typed
    BY DEF IInv
  <2>1. records' # records
    OBVIOUS
  <2>2. ASSUME NEW u \in Txns, NEW need \in Needs, NEW asked \in BOOLEAN, Plan(u, need, asked) PROVE u = t
    BY <2>0, <2>2, PlannedOne
  <2>3. ASSUME NEW u \in Txns, Execute(u) PROVE u = t
    BY <2>0, <2>3 DEF Execute, Typed
  <2>4. ASSUME NEW u \in Txns, Ran(u), records' = [records EXCEPT ![u].state = "done"] PROVE FALSE
    BY <1>3, <2>0, <2>4 DEF Typed, RecordType, Ran
  <2>5. ASSUME NEW u \in Txns, LoseBackup(u) PROVE FALSE
    BY <1>3, <2>0, <2>5 DEF LoseBackup, Typed, RecordType, Ran
  <2>6. CASE Image
    BY <2>0, <2>4, <2>6 DEF Image, At, IInv, Stands, Asks, Kinds, Ran
  <2>7. CASE Installs
    <3>1. ASSUME NEW u \in Txns, Resume(u) PROVE FALSE
      BY <2>4, <3>1 DEF Resume, Ran
    <3> QED BY <2>2, <2>3, <2>7, <3>1 DEF Installs
  <2>8. CASE GapLast \/ GapFirst \/ GapStops \/ PlanRemoval \/ Arm
    BY <2>1, <2>8 DEF GapLast, GapFirst, GapStops, PlanRemoval, Arm, WritesLast, WritesFirst, computer
  <2>9. CASE \/ Shrink \/ ResizeLast \/ ResizeFirst \/ AddLast \/ AddFirst
             \/ CarveLast \/ CarveFirst \/ CarveEnds \/ RemoveAsks \/ RemoveLast \/ RemoveFirst \/ RemoveEnds
    BY <2>1, <2>9 DEF Shrink, ResizeLast, ResizeFirst, AddLast, AddFirst, CarveLast, CarveFirst, CarveEnds,
       RemoveAsks, RemoveLast, RemoveFirst, RemoveEnds, WritesLast, WritesFirst, computer
  <2>10. CASE Around
    <3>1. ASSUME NEW s \in First..Last, ForeignPartition(s) PROVE FALSE
      BY <2>1, <3>1 DEF ForeignPartition, computer
    <3> QED BY <2>1, <2>5, <2>10, <3>1 DEF Around, Restart, Boot, RecoveryWipes, Stops, computer
  <2>11. CASE UNCHANGED vars
    BY <2>1, <2>11 DEF vars
  <2> QED BY <2>6, <2>7, <2>8, <2>9, <2>10, <2>11 DEF Next, OnAndroid, Initramfs
<1> QED BY <1>1, <1>3

\* An installation begins by running.
LEMMA RecordRuns ==
    ASSUME IInv, [Next]_vars, NEW t \in Txns, ~Ran(t), records'[t].state \in {"run", "done"}
    PROVE  Execute(t)
<1>1. records'[t] # records[t] /\ Typed
  BY DEF Ran, IInv
<1>2. ASSUME NEW need \in Needs, NEW asked \in BOOLEAN, Plan(t, need, asked) PROVE FALSE
  BY <1>1, <1>2, PlannedOne
<1> QED BY <1>1, <1>2, RecordChanges

\* A request for userdata's sectors, in terms of the table it was made from.
LEMMA KeepsIs ==
    ASSUME IInv, request.kind \in Taking
    PROVE  /\ request.by \in Txns /\ Ran(request.by) /\ Sound(records[request.by].original)
           /\ Wanted \in Int /\ Wanted >= MinPart /\ Wanted > 0 /\ Wanted % Align = 0
           /\ Asked.size + Asked.need = Userdata(records[request.by].original)
           /\ Keeps = Down(Userdata(records[request.by].original)) - Wanted
           /\ Keeps \in Int /\ Keeps >= MinPart /\ Keeps > 0 /\ Keeps % Align = 0
           /\ Keeps + Wanted <= Userdata(records[request.by].original)
           /\ request.kind = "shrink" => Keeps >= MinPart + Down(Contents)
<1> DEFINE t == request.by
           o == records[t].original
           whole == Userdata(o)
<1>1. /\ t \in Txns /\ records[t].state = "run" /\ Ran(t) /\ Asked = records[t].plan /\ Asked.kind = request.kind
  BY DEF IInv, Asks, Kinds, Taking, Ran, Asked
<1>2. Sound(o) /\ whole \in Int
  BY <1>1, UserdataIs DEF IInv, Tabulated, Userdata
<1>3. /\ Asked.need \in Needs /\ Asked.size + Asked.need = whole /\ Asked.size >= MinPart
      /\ request.kind = "shrink" => Asked.size >= MinPart + Contents
  BY <1>1 DEF IInv, Fresh, Founded
<1>4. Asked.size \in Int
  BY <1>1 DEF IInv, Typed, RecordType, PlanType
<1>5. Wanted \in Int /\ Wanted >= MinPart /\ Wanted > 0 /\ Wanted % Align = 0 /\ MinPart \in Int /\ MinPart % Align = 0 /\ Wanted = Asked.need
  BY <1>3, NeedsAssumption, AlignAssumption DEF Wanted
<1> HIDE DEF o, whole
<1>6. Keeps = Down(whole) - Wanted
  BY <1>3, <1>5 DEF Keeps
<1>7. Down(whole) \in Int /\ Down(whole) % Align = 0 /\ Down(whole) <= whole
  BY <1>2, DownFacts
<1> DEFINE d == Down(whole)
           w == Wanted
           p == MinPart
<1>a. d \in Int /\ d % Align = 0 /\ w \in Int /\ w % Align = 0 /\ p \in Int /\ p % Align = 0
  BY <1>5, <1>7
<1> HIDE DEF d, w, p
<1>b. (p + w) % Align = 0 /\ (d - w) % Align = 0
  BY <1>a, Shifted
<1> USE DEF d, w, p
<1>8. (MinPart + Wanted) % Align = 0 /\ MinPart + Wanted \in Int
  BY <1>5, <1>b
<1>9. MinPart + Wanted <= Down(whole)
  <2> DEFINE m == MinPart + Wanted
  <2>1. m \in Int /\ m % Align = 0 /\ m <= whole
    BY <1>2, <1>3, <1>4, <1>5, <1>8
  <2> HIDE DEF m
  <2>2. m <= Down(whole)
    BY <1>2, <2>1, DownFacts
  <2> QED BY <2>2 DEF m
<1>10. Keeps % Align = 0 /\ Keeps \in Int
  BY <1>5, <1>6, <1>7, <1>b
<1>11. ASSUME request.kind = "shrink" PROVE Keeps >= MinPart + Down(Contents)
  <2>1. Contents \in Int /\ Down(Contents) \in Int /\ Down(Contents) % Align = 0 /\ Down(Contents) <= Contents
    BY ContentsAssumption, DownFacts
  <2> DEFINE m == MinPart + Wanted
             c == Down(Contents)
  <2>2. m \in Int /\ m % Align = 0 /\ c \in Int /\ c % Align = 0
    BY <1>8, <2>1
  <2>3. m + c <= whole
    BY <1>2, <1>3, <1>4, <1>5, <1>11, <2>1
  <2> HIDE DEF m, c
  <2>4. (m + c) % Align = 0 /\ m + c \in Int
    BY <2>2, Shifted
  <2> DEFINE n == m + c
  <2>5. n \in Int /\ n % Align = 0 /\ n <= whole
    BY <2>3, <2>4
  <2> HIDE DEF n
  <2>6. n <= Down(whole)
    BY <1>2, <2>5, DownFacts
  <2> QED BY <1>5, <1>6, <1>7, <2>1, <2>6 DEF n, m, c
<1>12. Keeps >= MinPart /\ Keeps > 0 /\ Keeps + Wanted <= whole
  BY <1>2, <1>5, <1>6, <1>7, <1>9, AlignAssumption
<1> QED BY <1>1, <1>2, <1>3, <1>5, <1>6, <1>10, <1>11, <1>12 DEF o, whole

\* The sizes of a request are what they were.
LEMMA AskedStays ==
    ASSUME IInv, [Next]_vars, request.kind \in Kinds, request'.by = request.by
    PROVE  Asked' = Asked /\ Keeps' = Keeps /\ Wanted' = Wanted
<1>1. request.by \in Txns /\ records[request.by].state # "none"
  BY DEF IInv, Asks
<1>2. records'[request.by].plan = records[request.by].plan
  BY <1>1, RecordSteps
<1>3. Asked' = Asked
  BY <1>2 DEF Asked
<1> QED BY <1>3 DEF Keeps, Wanted

-----------------------------------------------------------------------------
(* The copies of the table *)

\* Each edit keeps the table, by the request it is made for: a root in a gap.
LEMMA GapWritten ==
    ASSUME IInv, request.kind = "gap", CanAddRoot(first, Asked.start, Asked.need)
    PROVE  LET t == WithRoot(first, Asked.start, Asked.need)
           IN  /\ Asked.start \in Int /\ Asked.need \in Int /\ Asked.need > 0
               /\ Sound(t) /\ Others(first, t) /\ Has(t, Root) /\ Of(t, Data) = Of(first, Data)
               /\ Of(t, Root).start = Asked.start /\ Of(t, Root).end = Asked.start + Asked.need - 1
               /\ Has(t, "foreign") <=> Has(first, "foreign")
               /\ Open(t) \subseteq Open(first)
<1>1. request.by \in Txns /\ Asked.start \in Int /\ Asked.need \in Int
  BY DEF IInv, Asks, Kinds, Typed, RecordType, PlanType, Asked
<1>2. Asked.need > 0 /\ ~Has(first, Root) /\ Unused(first) # {} /\ Asked.start..(Asked.start + Asked.need - 1) \subseteq Free(first)
  BY <1>1, AddRootFits
<1>3. Sound(first)
  BY DEF IInv, Tabulated
<1> DEFINE s == Asked.start
           n == Asked.need
<1>4. s \in Int /\ n \in Int /\ n > 0 /\ s..(s + n - 1) \subseteq Free(first)
  BY <1>1, <1>2
<1> HIDE DEF s, n
<1> DEFINE t == WithRoot(first, s, n)
<1>5. /\ Sound(t) /\ Others(first, t) /\ Has(t, Root) /\ Of(t, Data) = Of(first, Data)
      /\ Of(t, Root).start = s /\ Of(t, Root).end = s + n - 1
      /\ Has(t, "foreign") <=> Has(first, "foreign")
      /\ Open(t) \subseteq Open(first)
  BY <1>2, <1>3, <1>4, WithRootIs
<1> QED BY <1>4, <1>5 DEF s, n

\* Userdata shortened.
LEMMA ShrinkWritten ==
    ASSUME IInv, request.kind = "shrink", CanResize(first, Keeps)
    PROVE  LET t == Resized(first, Keeps)
           IN  /\ Sound(t) /\ Others(first, t) /\ Userdata(t) = Keeps
               /\ SlotOf(t, Data) = SlotOf(first, Data) /\ Of(t, Data).start = Of(first, Data).start
               /\ \A name \in {Root, "foreign"} : Has(t, name) <=> Has(first, name)
<1>1. Keeps \in Int /\ Keeps > 0 /\ Sound(first)
  BY KeepsIs DEF IInv, Tabulated, Taking
<1> DEFINE k == Keeps
<1>2. k \in Int /\ k > 0 /\ CanResize(first, k)
  BY <1>1
<1> HIDE DEF k
<1> DEFINE t == Resized(first, k)
<1>3. /\ Sound(t) /\ Others(first, t) /\ Userdata(t) = k
      /\ SlotOf(t, Data) = SlotOf(first, Data) /\ Of(t, Data).start = Of(first, Data).start
      /\ \A name \in {Root, "foreign"} : Has(t, name) <=> Has(first, name)
  BY <1>1, <1>2, ResizedIs DEF Userdata
<1> QED BY <1>3 DEF k

\* A root where userdata ended.
LEMMA RootAllocated ==
    ASSUME IInv, request.kind = "shrink", CanAllocate(first, Wanted)
    PROVE  LET t == Allocated(first, Wanted)
           IN  /\ Sound(t) /\ Others(first, t) /\ Has(t, Root) /\ Of(t, Data) = Of(first, Data)
               /\ Has(t, "foreign") <=> Has(first, "foreign")
<1> DEFINE w == Wanted
           g == FirstOfLargest(Fitting(DeviceGaps(first), w))
<1>1. w \in Int /\ w > 0 /\ CanAllocate(first, w) /\ Sound(first)
  BY KeepsIs DEF IInv, Tabulated, Taking
<1> HIDE DEF w
<1>2. g.start \in Int /\ ~Has(first, Root) /\ Unused(first) # {} /\ g.start..(g.start + w - 1) \subseteq Free(first)
  BY <1>1, AllocationFits
<1> DEFINE s == g.start
           t == WithRoot(first, s, w)
<1>3. s \in Int /\ s..(s + w - 1) \subseteq Free(first)
  BY <1>2
<1> HIDE DEF s
<1>4. /\ Sound(t) /\ Others(first, t) /\ Has(t, Root) /\ Of(t, Data) = Of(first, Data)
      /\ Has(t, "foreign") <=> Has(first, "foreign")
  BY <1>1, <1>2, <1>3, WithRootIs
<1> QED BY <1>4 DEF Allocated, w, s

\* Both in one edit.
LEMMA RootCarved ==
    ASSUME IInv, request.kind = "wipe", NEW previous, CanCarve(first, Keeps, Wanted, previous)
    PROVE  LET t == Carved(first, Keeps, Wanted)
           IN  /\ Sound(t) /\ Others(first, t) /\ Has(t, Root) /\ Userdata(t) = Keeps
               /\ Has(t, "foreign") <=> Has(first, "foreign")
<1> DEFINE k == Keeps
           w == Wanted
<1>1. k \in Int /\ w \in Int /\ CanCarve(first, k, w, previous) /\ Sound(first)
  BY KeepsIs DEF IInv, Tabulated, Taking
<1> HIDE DEF k, w
<1> DEFINE t == Carved(first, k, w)
<1>2. /\ Sound(t) /\ Others(first, t) /\ Has(t, Root) /\ Userdata(t) = k
      /\ Has(t, "foreign") <=> Has(first, "foreign")
  BY <1>1, CarvedIs DEF Userdata
<1> QED BY <1>2 DEF k, w

\* What another program adds leaves the rest.
LEMMA ForeignAdded ==
    ASSUME IInv, NEW s \in First..Last, ForeignPartition(s)
    PROVE  /\ Sound(first') /\ Others(first, first') /\ Of(first', Data) = Of(first, Data)
           /\ SlotOf(first', Data) = SlotOf(first, Data)
           /\ Has(first', "foreign") /\ ~Has(first, "foreign") /\ (Has(first', Root) <=> Has(first, Root))
           /\ Has(first, Root) => Of(first', Root) = Of(first, Root)
           /\ Open(first') \subseteq Open(first) /\ last' = first' /\ pc = "android" /\ pc' = "android"
<1> DEFINE i == LeastUnused(first)
           e == [name |-> "foreign", start |-> s, end |-> s + 1]
<1>1. i \in Slots /\ first[i] = Empty /\ Sound(first)
  BY LeastUnusedIs DEF ForeignPartition, IInv, Tabulated
<1>2. s \in Int /\ s + 1 \in Int /\ s <= s + 1 /\ s..(s + 1) \subseteq Free(first)
  <2>1. s \in Int /\ {s, s + 1} \subseteq Free(first)
    BY BoundsAssumption DEF ForeignPartition
  <2>2. \A x \in s..(s + 1) : x = s \/ x = s + 1
    BY <2>1
  <2> QED BY <2>1, <2>2
<1>3. e \in Entry
  <2>1. s \in First..Last /\ s + 1 \in First..Last
    BY <1>1, <1>2, FreeIs DEF Sound
  <2> QED BY <2>1 DEF Entry, Names
<1>4. first' = [first EXCEPT ![i] = e]
  BY DEF ForeignPartition
<1> HIDE DEF i, e
<1>5. first' \in Tables /\ first'[i] = e /\ \A j \in Slots \ {i} : first'[j] = first[j]
  BY <1>1, <1>3, <1>4 DEF Sound, Tables
<1> DEFINE f == first'
<1>6. f \in Tables /\ f[i] = e /\ \A j \in Slots \ {i} : f[j] = first[j]
  BY <1>5
<1> HIDE DEF f
<1>7. "foreign" # Root /\ "foreign" \in {Root, "foreign"}
  BY DEF Root
<1>8. /\ Sound(f) /\ Others(first, f) /\ Of(f, Data) = Of(first, Data)
      /\ SlotOf(f, Data) = SlotOf(first, Data)
      /\ Has(f, "foreign") /\ (Has(f, Root) <=> Has(first, Root))
      /\ Has(first, Root) => Of(f, Root) = Of(first, Root)
      /\ Open(f) \subseteq Open(first)
  BY <1>1, <1>2, <1>6, <1>7, Added DEF e
<1>9. ~Has(first, "foreign") /\ last' = first' /\ pc = "android" /\ pc' = "android"
  BY DEF ForeignPartition, Readable, At
<1> QED BY <1>8, <1>9 DEF f

\* A removal planned: by a record that explains the table, or without one.
LEMMA RemovalPlanned ==
    ASSUME IInv, PlanRemoval
    PROVE  /\ removal' \in RemovalType /\ prompt' \in EvidenceType
           /\ removal.state # "armed" /\ pc = "android"
           /\ removal' # removal =>
                /\ removal'.state = "planned" /\ removal'.before = first /\ removal'.fs = fs /\ Has(first, Root)
                /\ Sound(removal'.after) /\ ~Has(removal'.after, Root) /\ Others(first, removal'.after)
                /\ Userdata(first) <= Userdata(removal'.after) /\ Open(removal'.after) \subseteq Open(first)
                /\ removal'.by \in Txns => Ran(removal'.by) /\ removal'.after = records[removal'.by].original
                /\ removal'.action = "reset" => removal'.shown.layout = first /\ removal'.shown.fs = fs
<1> DEFINE Good(by, t) ==
             /\ by \in Txns \cup {"device"} /\ t \in Tables /\ Sound(t) /\ ~Has(t, Root) /\ Others(first, t)
             /\ Userdata(first) <= Userdata(t) /\ Open(t) \subseteq Open(first)
             /\ by \in Txns => Ran(by) /\ t = records[by].original
<1>1. Sound(first) /\ Evidence \in EvidenceType /\ NoEvidence \in EvidenceType
  BY NothingTyped DEF IInv, Tabulated, Typed, Evidence, EvidenceType, NoEvidence
<1>2. ASSUME NEW by, NEW t, NEW expands, Good(by, t), Removes(by, t, expands)
      PROVE  /\ removal' \in RemovalType /\ prompt' \in EvidenceType
             /\ removal' # removal =>
                /\ removal'.state = "planned" /\ removal'.before = first /\ removal'.fs = fs
                /\ removal'.after = t /\ removal'.by = by
                /\ removal'.action = "reset" => removal'.shown.layout = first /\ removal'.shown.fs = fs
  <2>1. CASE expands /\ ~Preservable /\ ~Authorised
    BY <1>1, <1>2, <2>1 DEF Removes, IInv, Typed
  <2>2. CASE ~(expands /\ ~Preservable /\ ~Authorised)
    <3> DEFINE action == IF ~expands THEN "gap" ELSE IF Preservable THEN "grow" ELSE "reset"
    <3>1. /\ removal' = [state |-> "planned", by |-> by, before |-> first, after |-> t, fs |-> fs,
                         action |-> action, shown |-> prompt]
          /\ prompt' = NoEvidence
      BY <1>2, <2>2 DEF Removes
    <3>2. action \in {"gap", "grow", "reset"} /\ (action = "reset" => prompt = Evidence)
      BY <2>2 DEF Authorised
    <3> HIDE DEF action
    <3>3. first \in Tables /\ fs \in Nat /\ prompt \in EvidenceType /\ t \in Tables /\ by \in Txns \cup {NoTxn, "device"}
      BY <1>2 DEF IInv, Typed
    <3>4. removal' \in RemovalType
      BY <3>1, <3>2, <3>3 DEF RemovalType
    <3> QED BY <1>1, <3>1, <3>2, <3>4 DEF Evidence
  <2> QED BY <2>1, <2>2
<1>3. ASSUME NEW t \in Txns, Matches(t), Removes(t, Restored(records[t].original, first), GaveUp(records[t].original, first))
      PROVE  \E by, u, expands : Good(by, u) /\ Removes(by, u, expands)
  <2> DEFINE o == records[t].original
  <2>1. Ran(t) /\ Sound(o) /\ CanRestore(o, first)
    BY <1>3 DEF Matches, IInv, Fresh, Tabulated
  <2> HIDE DEF o
  <2>2. Restored(o, first) = o /\ ~Has(o, Root) /\ Others(first, o) /\ Size(Of(first, Data)) <= Size(Of(o, Data)) /\ Open(o) \subseteq Open(first)
    BY <1>1, <2>1, RestoredIs
  <2>3. Good(t, o)
    BY <2>1, <2>2 DEF Userdata, Sound, o
  <2>4. Removes(t, o, GaveUp(o, first))
    BY <1>3, <2>2 DEF o
  <2> QED BY <2>3, <2>4
<1>4. ASSUME CanRemove(first), Removes("device", Removed(first), Follows(first))
      PROVE  \E by, u, expands : Good(by, u) /\ Removes(by, u, expands)
  <2>1. Valid(Removed(first))
    BY <1>4 DEF Removes
  <2>2. /\ Sound(Removed(first)) /\ ~Has(Removed(first), Root) /\ Others(first, Removed(first))
        /\ Size(Of(first, Data)) <= Size(Of(Removed(first), Data))
        /\ Open(Removed(first)) \subseteq Open(first)
    BY <1>1, <1>4, <2>1, RemovedIs
  <2>3. Good("device", Removed(first))
    BY <2>2, TxnNames DEF Userdata, Sound
  <2> QED BY <1>4, <2>3
<1>5. PICK by, u, expands : Good(by, u) /\ Removes(by, u, expands)
  BY <1>3, <1>4 DEF PlanRemoval
<1>6. removal.state # "armed" /\ pc = "android" /\ Has(first, Root)
  BY SingleIs DEF PlanRemoval, Readable, At
<1> QED BY <1>2, <1>5, <1>6

\* Every table written is sound and leaves the partitions of others.
LEMMA TableSteps ==
    ASSUME IInv, [Next]_vars
    PROVE  Sound(first') /\ Sound(last') /\ Sound(kernel') /\ Others(first, first')
<1>1. Sound(first) /\ Sound(last) /\ Sound(kernel) /\ Others(first, first)
  BY DEF IInv, Tabulated, Others
<1>2. CASE UNCHANGED <<first, last, kernel>>
  BY <1>1, <1>2
<1>3. CASE GapLast
  BY <1>1, <1>3, GapWritten DEF GapLast, WritesLast
<1>4. CASE GapFirst
  <2>1. pc = "gap2" /\ first' = last /\ UNCHANGED <<last, kernel>>
    BY <1>4 DEF GapFirst, WritesFirst, At
  <2>2. request.kind = "gap" /\ CanAddRoot(first, Asked.start, Asked.need) /\ last = WithRoot(first, Asked.start, Asked.need)
    BY <2>1 DEF IInv, Stands, Writing
  <2> QED BY <1>1, <2>1, <2>2, GapWritten
<1>5. CASE ResizeLast
  BY <1>1, <1>5, ShrinkWritten DEF ResizeLast, WritesLast, At, IInv, Stands
<1>6. CASE ResizeFirst
  <2>1. pc = "resize2" /\ first' = last /\ UNCHANGED <<last, kernel>>
    BY <1>6 DEF ResizeFirst, WritesFirst, At
  <2>2. request.kind = "shrink" /\ CanResize(first, Keeps) /\ last = Resized(first, Keeps)
    BY <2>1 DEF IInv, Stands, Writing
  <2> QED BY <1>1, <2>1, <2>2, ShrinkWritten
<1>7. CASE AddLast
  BY <1>1, <1>7, RootAllocated DEF AddLast, WritesLast, At, IInv, Stands
<1>8. CASE AddFirst
  <2>1. pc = "add2" /\ first' = last /\ UNCHANGED <<last, kernel>>
    BY <1>8 DEF AddFirst, WritesFirst, At
  <2>2. request.kind = "shrink" /\ CanAllocate(first, Wanted) /\ last = Allocated(first, Wanted)
    BY <2>1 DEF IInv, Stands, Writing
  <2> QED BY <1>1, <2>1, <2>2, RootAllocated
<1>9. CASE CarveLast
  BY <1>1, <1>9, RootCarved DEF CarveLast, WritesLast
<1>10. CASE CarveFirst
  <2>1. pc = "carve2" /\ first' = last /\ UNCHANGED <<last, kernel>>
    BY <1>10 DEF CarveFirst, WritesFirst, At
  <2>2. request.kind = "wipe" /\ CanCarve(first, Keeps, Wanted, Asked.size + Asked.need) /\ last = Carved(first, Keeps, Wanted)
    BY <2>1 DEF IInv, Stands, Writing
  <2> QED BY <1>1, <2>1, <2>2, RootCarved
<1>11. CASE RemoveLast
  BY <1>1, <1>11 DEF RemoveLast, At, IInv, Stands, Tabulated
<1>12. CASE RemoveFirst
  <2>1. pc = "remove2" /\ first' = last /\ UNCHANGED <<last, kernel>>
    BY <1>12 DEF RemoveFirst, WritesFirst, At
  <2>2. last = removal.after /\ first \in {removal.before, removal.after} /\ removal.state # "none"
    BY <2>1 DEF IInv, Stands, Writing
  <2>3. Others(removal.before, removal.after)
    BY <2>2 DEF IInv, Tabulated
  <2> QED BY <1>1, <2>1, <2>2, <2>3 DEF Others
<1>13. CASE Boot \/ RecoveryWipes
  BY <1>1, <1>13 DEF Boot, RecoveryWipes, table
<1>14. ASSUME NEW s \in First..Last, ForeignPartition(s) PROVE Sound(first') /\ Sound(last') /\ Sound(kernel') /\ Others(first, first')
  <2>1. Sound(first') /\ Others(first, first') /\ last' = first'
    BY <1>14, ForeignAdded
  <2>2. kernel' = kernel
    BY <1>14 DEF ForeignPartition
  <2> QED BY <1>1, <2>1, <2>2
<1>15. CASE Installs
  BY <1>2, <1>15 DEF Installs, Plan, Execute, Resume, table
<1>16. CASE \/ GapStops \/ PlanRemoval \/ Arm \/ Shrink \/ Image \/ CarveEnds \/ RemoveAsks \/ RemoveEnds
            \/ Restart \/ Stops \/ UNCHANGED vars
  BY <1>2, <1>16 DEF GapStops, PlanRemoval, Arm, Shrink, Image, CarveEnds, RemoveAsks, RemoveEnds, Restart, Stops, vars, table
<1>17. CASE \E t \in Txns : LoseBackup(t)
  BY <1>2, <1>17 DEF LoseBackup, table
<1> QED BY <1>3, <1>4, <1>5, <1>6, <1>7, <1>8, <1>9, <1>10, <1>11, <1>12, <1>13, <1>14, <1>15, <1>16, <1>17
        DEF Next, OnAndroid, Initramfs, Around

\* Every step keeps the types.
LEMMA TypedNext ==
    ASSUME IInv, [Next]_vars
    PROVE  Typed'
<1>1. first' \in Tables /\ last' \in Tables /\ kernel' \in Tables /\ records' \in [Txns -> RecordType]
  BY TableSteps, RecordSteps DEF Sound
<1>3. Typed
  BY DEF IInv
<1> DEFINE Rest == /\ unlisted' = unlisted /\ encrypted' = encrypted /\ fs' \in Nat
                   /\ root' \in RootType /\ pc' \in Places /\ request' \in RequestType
                   /\ removal' \in RemovalType /\ prompt' \in EvidenceType
<1>2. SUFFICES Rest
  BY <1>1, <1>3 DEF Typed
<1>4. CASE PlanRemoval
  <2>1. removal' \in RemovalType /\ prompt' \in EvidenceType
    BY <1>4, RemovalPlanned
  <2> QED BY <1>3, <1>4, <2>1 DEF PlanRemoval, Typed, fixed
<1>5. ASSUME NEW t \in Txns, Execute(t) \/ Resume(t) \/ LoseBackup(t) PROVE Rest
  BY <1>3, <1>5 DEF Execute, Resume, LoseBackup, Typed, fixed, RootType, RequestType, RecordType, PlanType, Goto, Places
<1>6. ASSUME NEW t \in Txns, NEW n, NEW a, Plan(t, n, a) PROVE Rest
  BY <1>3, <1>6 DEF Plan, Typed, fixed
<1>7. CASE GapStops \/ Arm
  BY <1>3, <1>7 DEF GapStops, Arm, Typed, fixed, computer, RequestType, RemovalType, Goto, Places, NoRequest, NoTxn
<1>7a. CASE GapLast
  BY <1>3, <1>7a DEF GapLast, WritesLast, Typed, fixed, computer, Goto, Places
<1>7b. CASE GapFirst
  <2>1. request.by \in Txns
    BY <1>7b DEF GapFirst, WritesFirst, At, IInv, Stands, Asks, Kinds
  <2>2. root' \in RootType /\ request' \in RequestType
    BY <1>7b, <2>1 DEF GapFirst, RootType, RequestType, NoRequest, NoTxn
  <2> QED BY <1>3, <1>7b, <2>2 DEF GapFirst, WritesFirst, Typed, fixed, computer, Goto, Places
<1>8. CASE Shrink
  <2>1. Keeps \in Int /\ Keeps > 0
    BY <1>8, KeepsIs DEF Shrink, Taking
  <2> QED BY <1>3, <1>8, <2>1 DEF Shrink, Typed, fixed, computer, Goto, Places
<1>9. CASE ResizeLast \/ AddLast \/ CarveLast \/ RemoveLast
  BY <1>3, <1>9 DEF ResizeLast, AddLast, CarveLast, RemoveLast, WritesLast, Typed, fixed, computer, Goto, Places
<1>9a. CASE ResizeFirst \/ AddFirst \/ CarveFirst
  BY <1>3, <1>9a DEF ResizeFirst, AddFirst, CarveFirst, WritesFirst, Typed, fixed, computer, Goto, Places
<1>10. CASE Image \/ CarveEnds
  <2>1. request.by \in Txns
    BY <1>10 DEF Image, CarveEnds, At, IInv, Stands, Asks, Kinds
  <2>2. root' \in RootType /\ request' \in RequestType
    BY <1>10, <2>1 DEF Image, CarveEnds, RootType, RequestType, NoRequest, NoTxn
  <2> QED BY <1>3, <1>10, <2>2 DEF Image, CarveEnds, Typed, fixed, computer, Goto, Places
<1>10a. CASE RemoveAsks
  BY <1>3, <1>10a DEF RemoveAsks, Typed, fixed, computer, Goto, Places, RequestType
<1>10b. CASE RemoveFirst
  BY <1>3, <1>10b, NothingTyped DEF RemoveFirst, WritesFirst, Typed, fixed, computer, Goto, Places
<1>11. CASE RemoveEnds \/ RecoveryWipes
  <2>1. Userdata(first) \in Nat
    BY UserdataIs DEF IInv, Tabulated, Userdata
  <2> QED BY <1>3, <1>11, <2>1 DEF RemoveEnds, RecoveryWipes, Typed, fixed, computer, Goto, Places,
     RequestType, NoRequest, NoTxn, RemovalType
<1>12. CASE Restart \/ Stops
  BY <1>3, <1>12 DEF Restart, Stops, Typed, fixed, computer, Goto, Places, RequestType, NoRequest, NoTxn
<1>12a. CASE Boot
  <2>1. pc' \in {"android", "boot"}
    BY <1>12a DEF Boot
  <2> QED BY <1>3, <1>12a, <2>1 DEF Boot, Typed, fixed, computer, Places
<1>13. ASSUME NEW s, ForeignPartition(s) PROVE Rest
  BY <1>3, <1>13 DEF ForeignPartition, Typed, fixed, computer
<1>14. CASE UNCHANGED vars
  BY <1>3, <1>14 DEF vars, Typed
<1> HIDE DEF Rest
<1> QED BY <1>4, <1>5, <1>6, <1>7, <1>7a, <1>7b, <1>8, <1>9, <1>9a, <1>10, <1>10a, <1>10b, <1>11, <1>12, <1>12a, <1>13, <1>14
        DEF Next, OnAndroid, Installs, Initramfs, Around

\* The removal's tables are replaced by a plan for another, and by nothing else.
LEMMA RemovalKept ==
    ASSUME IInv, [Next]_vars, ~PlanRemoval
    PROVE  /\ removal'.before = removal.before /\ removal'.after = removal.after /\ removal'.by = removal.by
           /\ removal'.action = removal.action /\ removal'.shown = removal.shown /\ removal'.fs = removal.fs
           /\ removal'.state # "none" <=> removal.state # "none"
           /\ removal.state = "armed" => removal'.state = "armed" \/ RemoveEnds
           /\ removal' # removal => Arm \/ RemoveEnds
<1> DEFINE Kept == removal' = removal
<1>1. CASE Arm
  BY <1>1 DEF Arm, IInv, Typed, RemovalType
<1>2. CASE RemoveEnds
  BY <1>2 DEF RemoveEnds, At, IInv, Stands, Typed, RemovalType
<1>3. CASE Installs
  BY <1>3 DEF Installs, Plan, Execute, Resume
<1>4. CASE GapLast \/ GapFirst \/ GapStops
  BY <1>4 DEF GapLast, GapFirst, GapStops, WritesLast, WritesFirst, computer
<1>5. CASE \/ Shrink \/ ResizeLast \/ ResizeFirst \/ AddLast \/ AddFirst \/ Image \/ CarveLast \/ CarveFirst
  BY <1>5 DEF Shrink, ResizeLast, ResizeFirst, AddLast, AddFirst, Image, CarveLast, CarveFirst, WritesLast, WritesFirst, computer
<1>6. CASE CarveEnds \/ RemoveAsks \/ RemoveLast \/ RemoveFirst
  BY <1>6 DEF CarveEnds, RemoveAsks, RemoveLast, RemoveFirst, WritesFirst, computer
<1>7. CASE Around
  BY <1>7 DEF Around, Restart, Boot, RecoveryWipes, Stops, ForeignPartition, LoseBackup, computer
<1>8. CASE UNCHANGED vars
  BY <1>8 DEF vars
<1> QED BY <1>1, <1>2, <1>3, <1>4, <1>5, <1>6, <1>7, <1>8 DEF Next, OnAndroid, Initramfs

\* Every step keeps the tables.
LEMMA TabulatedNext ==
    ASSUME IInv, [Next]_vars
    PROVE  Tabulated'
<1>1. Sound(first') /\ Sound(last') /\ Sound(kernel') /\ Others(first, first')
  BY TableSteps
<1>2. ASSUME NEW t \in Txns, records'[t].state \in {"run", "done"}
      PROVE  Sound(records'[t].original) /\ Others(records'[t].original, first')
  <2>1. CASE Ran(t)
    <3>1. Sound(records[t].original) /\ Others(records[t].original, first)
      BY <2>1 DEF IInv, Tabulated
    <3>2. records'[t].original = records[t].original
      BY <2>1, RecordSteps
    <3> QED BY <1>1, <3>1, <3>2 DEF Others
  <2>2. CASE ~Ran(t)
    <3>1. Execute(t)
      <4>1. records'[t] # records[t]
        BY <1>2, <2>2 DEF Ran
      <4> QED BY <1>2, <2>2, <4>1, RecordRuns
    <3>2. records'[t].original = first
      BY <3>1 DEF Execute, IInv, Typed, RecordType
    <3> QED BY <1>1, <3>2 DEF IInv, Tabulated
  <2> QED BY <2>1, <2>2
<1>3. removal'.state # "none" =>
         /\ Sound(removal'.before) /\ Has(removal'.before, Root) /\ Sound(removal'.after) /\ ~Has(removal'.after, Root)
         /\ Others(removal'.before, removal'.after)
         /\ Userdata(removal'.before) <= Userdata(removal'.after)
         /\ Open(removal'.after) \subseteq Open(removal'.before)
         /\ removal'.by \in Txns => records'[removal'.by].state \in {"run", "done"} /\ removal'.after = records'[removal'.by].original
  <2>1. ASSUME NEW t \in Txns, Ran(t) PROVE records'[t].state \in {"run", "done"} /\ records'[t].original = records[t].original
    BY <2>1, RecordSteps DEF Ran
  <2>2. CASE PlanRemoval /\ removal' # removal
    BY <2>1, <2>2, RemovalPlanned DEF IInv, Tabulated
  <2>3. CASE removal' = removal
    BY <2>1, <2>3 DEF IInv, Tabulated
  <2>4. CASE ~PlanRemoval
    BY <2>1, <2>4, RemovalKept DEF IInv, Tabulated
  <2> QED BY <2>2, <2>3, <2>4
<1>4. \A t \in Txns : Ran(t)' => Sound(records'[t].original) /\ Others(records'[t].original, first')
  BY <1>2 DEF Ran
<1>5. removal'.state # "none" => (removal'.by \in Txns => Ran(removal.by)')
  BY <1>3 DEF Ran
<1> QED BY <1>1, <1>3, <1>4, <1>5 DEF Tabulated

-----------------------------------------------------------------------------
(* Plans and requests *)

\* What a plan is made from.
LEMMA PlanIs ==
    ASSUME IInv, NEW need \in Needs, NEW asked \in BOOLEAN, PlanFor(need, asked) # NoPlan
    PROVE  LET plan == PlanFor(need, asked)
           IN  /\ plan.kind \in Kinds /\ plan.need = need
               /\ plan.kind = "gap" => plan.start \notin unlisted
               /\ plan.kind \in Taking =>
                    /\ plan.size + need = Userdata(kernel) /\ plan.size >= MinPart
                    /\ plan.kind = "shrink" =>
                         /\ plan.size >= MinPart + Contents
                         /\ unlisted = {} => Fitting(Gaps(first), need) = {} \/ Unused(first) = {}
<1> DEFINE gaps == Fitting(SafeGaps, need)
           wipe == Wipes(asked)
<1>1. need \in Int /\ Userdata(kernel) \in Int /\ Contents \in Nat /\ MinPart \in Int
  BY NeedsAssumption, UserdataIs, ContentsAssumption, AlignAssumption DEF Userdata, IInv, Tabulated
<1>2. gaps # {} => LastOfLargest(gaps) \in SafeGaps
  BY PlannedGapIs DEF SafeGaps
<1>3. unlisted = {} => SafeGaps = Gaps(first)
  BY DEF SafeGaps
<1>4. CASE gaps # {} /\ Unused(first) # {}
  <2>1. PlanFor(need, asked) = [kind |-> "gap", start |-> LastOfLargest(gaps).start, need |-> need,
                                size |-> Userdata(kernel), asked |-> asked]
    BY <1>4 DEF PlanFor
  <2>2. LastOfLargest(gaps).start \notin unlisted
    BY <1>2, <1>4 DEF SafeGaps
  <2> HIDE DEF gaps
  <2> QED BY <2>1, <2>2 DEF Kinds, Taking
<1>5. CASE ~(gaps # {} /\ Unused(first) # {})
  <2>1. RoomForAndroid(need, wipe)
    BY <1>5 DEF PlanFor
  <2>2. PlanFor(need, asked) = [kind |-> IF wipe THEN "wipe" ELSE "shrink", start |-> 0, need |-> need,
                                size |-> Userdata(kernel) - need, asked |-> asked]
    BY <1>5, <2>1 DEF PlanFor
  <2>3. Userdata(kernel) - need >= MinPart /\ (~wipe => Userdata(kernel) - need >= MinPart + Contents)
    BY <1>1, <2>1 DEF RoomForAndroid
  <2>4. unlisted = {} => Fitting(Gaps(first), need) = {} \/ Unused(first) = {}
    BY <1>3, <1>5
  <2> HIDE DEF gaps, wipe
  <2> QED BY <1>1, <2>2, <2>3, <2>4 DEF Kinds, Taking
<1> QED BY <1>4, <1>5

\* Every step keeps what a plan was made from.
LEMMA FreshNext ==
    ASSUME IInv, [Next]_vars
    PROVE  Fresh'
<1>0. unlisted' = unlisted /\ Typed /\ Fresh
  BY Unlisted DEF IInv
<1> SUFFICES ASSUME NEW t \in Txns PROVE Founded(records[t])' /\ (records'[t].intact => Ran(t)')
  BY DEF Fresh
<1> DEFINE r == records'[t]
<1> DEFINE F == /\ r.state = "none" => r.plan.kind = "none"
                /\ r.state # "none" => r.plan.kind \in Kinds /\ r.plan.need \in Needs
                /\ r.plan.kind = "gap" => r.plan.start \notin unlisted
                /\ r.state \in {"run", "done"} /\ r.plan.kind \in Taking =>
                     /\ r.plan.size + r.plan.need = Userdata(r.original)
                     /\ r.plan.size >= MinPart
                     /\ r.plan.kind = "shrink" =>
                          /\ r.plan.size >= MinPart + Contents
                          /\ unlisted = {} => Fitting(Gaps(r.original), r.plan.need) = {} \/ Unused(r.original) = {}
                /\ r.intact => r.state \in {"run", "done"}
<1>1. F => Founded(records[t])' /\ (records'[t].intact => Ran(t)')
  BY <1>0 DEF Founded, Ran
<1>2. CASE records'[t] = records[t]
  BY <1>0, <1>2 DEF Fresh, Founded, Ran
<1>3. ASSUME NEW need \in Needs, NEW asked \in BOOLEAN, Plan(t, need, asked) PROVE F
  <2>1. /\ PlanFor(need, asked) # NoPlan
        /\ r = [state |-> "planned", plan |-> PlanFor(need, asked), original |-> NoTable, intact |-> FALSE]
    BY <1>0, <1>3, Planned
  <2>2. PlanFor(need, asked).kind \in Kinds /\ PlanFor(need, asked).need = need
        /\ (PlanFor(need, asked).kind = "gap" => PlanFor(need, asked).start \notin unlisted)
    BY <2>1, PlanIs
  <2> HIDE DEF r
  <2> QED BY <2>1, <2>2
<1>4. CASE Execute(t)
  <2> DEFINE p == records[t].plan
  <2>1. /\ records[t].state = "planned" /\ PlanFor(p.need, p.asked) = p /\ Of(kernel, Data) = Of(first, Data)
        /\ r.state = "run" /\ r.plan = p /\ r.original = first
    BY <1>0, <1>4 DEF Execute, Typed, RecordType, PlanIsFresh, Readable, At, IInv, Stands
  <2>2. p.kind \in Kinds /\ p.need \in Needs /\ p.asked \in BOOLEAN
    BY <1>0, <2>1 DEF Fresh, Founded, Typed, RecordType, PlanType
  <2>3. PlanFor(p.need, p.asked) # NoPlan
    BY <2>1, <2>2 DEF NoPlan, Kinds
  <2>4. Userdata(kernel) = Userdata(first)
    BY <2>1 DEF Userdata
  <2> HIDE DEF p, r
  <2>5. /\ p.kind = "gap" => p.start \notin unlisted
        /\ p.kind \in Taking =>
             /\ p.size + p.need = Userdata(first) /\ p.size >= MinPart
             /\ p.kind = "shrink" =>
                  /\ p.size >= MinPart + Contents
                  /\ unlisted = {} => Fitting(Gaps(first), p.need) = {} \/ Unused(first) = {}
    BY <2>1, <2>2, <2>3, <2>4, PlanIs
  <2>6. r.state = "run" /\ r.plan = p /\ r.original = first /\ p.kind \in Kinds /\ p.need \in Needs
    BY <2>1, <2>2
  <2>7. F
    BY <2>5, <2>6
  <2> QED BY <1>1, <2>7
<1>5. CASE Ran(t) /\ r.state \in {"run", "done"} /\ r.plan = records[t].plan /\ r.original = records[t].original
  BY <1>0, <1>5 DEF Fresh, Founded, Ran
<1> HIDE DEF F, r
<1> QED BY <1>1, <1>2, <1>3, <1>4, <1>5, RecordChanges DEF r

\* What a step leaves of a request.
LEMMA RequestSteps ==
    ASSUME IInv, [Next]_vars
    PROVE  \/ request' = request
           \/ request' = NoRequest
           \/ request'.kind = "reset"
           \/ Arm /\ request'.kind = "remove"
           \/ \E t \in Txns : Execute(t) /\ request' = [kind |-> records[t].plan.kind, by |-> t]
<1>0. Typed
  BY DEF IInv
<1>1. CASE Installs \/ GapLast \/ GapFirst \/ GapStops \/ PlanRemoval \/ Arm
  <2>1. ASSUME NEW t \in Txns, Execute(t) PROVE request' = [kind |-> records[t].plan.kind, by |-> t]
    BY <2>1 DEF Execute
  <2>2. ASSUME NEW t, Resume(t) PROVE request' = request
    BY <2>2 DEF Resume
  <2> QED BY <1>1, <2>1, <2>2, PlanLeaves DEF Installs, GapLast, GapFirst, GapStops, PlanRemoval, Arm, WritesLast
<1>2. CASE \/ Shrink \/ ResizeLast \/ ResizeFirst \/ AddLast \/ AddFirst \/ Image \/ CarveLast \/ CarveFirst \/ CarveEnds
           \/ RemoveLast \/ RemoveFirst \/ RemoveEnds
  BY <1>2 DEF Shrink, ResizeLast, ResizeFirst, AddLast, AddFirst, Image, CarveLast, CarveFirst, CarveEnds,
     RemoveLast, RemoveFirst, RemoveEnds, WritesLast
<1>3. CASE RemoveAsks
  BY <1>0, <1>3 DEF RemoveAsks, Typed, RequestType
<1>4. CASE Around
  BY <1>4 DEF Around, Restart, Boot, RecoveryWipes, Stops, ForeignPartition, LoseBackup
<1>5. CASE UNCHANGED vars
  BY <1>5 DEF vars
<1> QED BY <1>1, <1>2, <1>3, <1>4, <1>5 DEF Next, OnAndroid, Initramfs

\* What a step makes of the root.
LEMMA RootSteps ==
    ASSUME IInv, [Next]_vars
    PROVE  \/ root' = root
           \/ RemoveFirst /\ root' = NoRoot
           \/ (GapFirst \/ Image) /\ root'.by = request.by /\ request' = NoRequest
           \/ CarveEnds /\ root' = [state |-> "empty", by |-> request.by] /\ request'.kind = "reset"
           \/ \E t \in Txns : Resume(t) /\ root = [state |-> "empty", by |-> t] /\ root' = [state |-> "installed", by |-> t]
<1>1. CASE Installs
  <2>1. ASSUME NEW t, Execute(t) PROVE root' = root
    BY <2>1 DEF Execute
  <2>2. ASSUME NEW t, Resume(t) PROVE root = [state |-> "empty", by |-> t] /\ root' = [state |-> "installed", by |-> t]
    BY <2>2 DEF Resume
  <2> QED BY <1>1, <2>1, <2>2, PlanLeaves DEF Installs
<1>2. CASE GapLast \/ GapFirst \/ GapStops \/ PlanRemoval \/ Arm
  BY <1>2 DEF GapLast, GapFirst, GapStops, PlanRemoval, Arm, WritesLast
<1>3. CASE \/ Shrink \/ ResizeLast \/ ResizeFirst \/ AddLast \/ AddFirst \/ Image \/ CarveLast \/ CarveFirst \/ CarveEnds
           \/ RemoveAsks \/ RemoveLast \/ RemoveFirst \/ RemoveEnds
  BY <1>3 DEF Shrink, ResizeLast, ResizeFirst, AddLast, AddFirst, Image, CarveLast, CarveFirst, CarveEnds, RemoveAsks,
     RemoveLast, RemoveFirst, RemoveEnds, WritesLast
<1>4. CASE Around
  BY <1>4 DEF Around, Restart, Boot, RecoveryWipes, Stops, ForeignPartition, LoseBackup
<1>5. CASE UNCHANGED vars
  BY <1>5 DEF vars
<1> QED BY <1>1, <1>2, <1>3, <1>4, <1>5 DEF Next, OnAndroid, Initramfs

\* An installation whose request is left still runs.
LEMMA RunsOn ==
    ASSUME IInv, [Next]_vars, request.kind \in Kinds, request' = request
    PROVE  records'[request.by].state = "run" /\ records'[request.by].plan = records[request.by].plan
<1> DEFINE t == request.by
<1>0. Typed /\ t \in Txns /\ records[t].state = "run" /\ (request.kind = "wipe" => root # [state |-> "empty", by |-> t])
      /\ (request.kind = "gap" => pc \in {"gap", "gap2"}) /\ records[t].plan.kind = request.kind
  BY DEF IInv, Asks, Stands
<1>1. records'[t].plan = records[t].plan
  BY <1>0, RecordSteps
<1>2. records'[t].state = "run"
  <2>1. CASE records'[t] = records[t]
    BY <1>0, <2>1
  <2>2. ASSUME NEW u \in Txns, Resume(u) PROVE u # t
    BY <1>0, <2>2 DEF Resume, At, Kinds
  <2>3. ASSUME NEW u \in Txns, Resume(u) PROVE records'[t] = records[t]
    BY <1>0, <2>2, <2>3 DEF Resume, Typed
  <2>4. CASE Image
    BY <1>0, <2>4 DEF Image, NoRequest, Kinds
  <2>5. CASE Installs
    <3>1. ASSUME NEW u \in Txns, Execute(u) PROVE records'[t].state = "run"
      BY <1>0, <3>1 DEF Execute, Typed, RecordType
    <3>2. ASSUME NEW u \in Txns, NEW need, NEW asked, Plan(u, need, asked) PROVE records'[t].state = "run"
      <4>1. u # t
        BY <1>0, <3>2 DEF Plan
      <4> QED BY <1>0, <3>2, <4>1, PlannedOne
    <3> QED BY <2>1, <2>3, <2>5, <3>1, <3>2 DEF Installs
  <2>6. CASE GapLast \/ GapFirst \/ GapStops \/ PlanRemoval \/ Arm
    BY <1>0, <2>6 DEF GapLast, GapFirst, GapStops, PlanRemoval, Arm, WritesLast, WritesFirst, computer
  <2>7. CASE \/ Shrink \/ ResizeLast \/ ResizeFirst \/ AddLast \/ AddFirst
             \/ CarveLast \/ CarveFirst \/ CarveEnds \/ RemoveAsks \/ RemoveLast \/ RemoveFirst \/ RemoveEnds
    BY <1>0, <2>7 DEF Shrink, ResizeLast, ResizeFirst, AddLast, AddFirst, CarveLast, CarveFirst, CarveEnds,
       RemoveAsks, RemoveLast, RemoveFirst, RemoveEnds, WritesLast, WritesFirst, computer
  <2>8. CASE Around
    <3>1. ASSUME NEW u \in Txns, LoseBackup(u) PROVE records'[t].state = "run"
      BY <1>0, <3>1 DEF LoseBackup, Typed, RecordType
    <3>2. ASSUME NEW s \in First..Last, ForeignPartition(s) PROVE records'[t].state = "run"
      BY <1>0, <3>2 DEF ForeignPartition, computer
    <3> QED BY <1>0, <2>8, <3>1, <3>2 DEF Around, Restart, Boot, RecoveryWipes, Stops, computer
  <2>9. CASE UNCHANGED vars
    BY <1>0, <2>9 DEF vars
  <2> QED BY <2>4, <2>5, <2>6, <2>7, <2>8, <2>9 DEF Next, OnAndroid, Initramfs
<1> QED BY <1>1, <1>2

\* Every step keeps requests with the record they are of.
LEMMA AsksNext ==
    ASSUME IInv, [Next]_vars
    PROVE  Asks'
<1>0. Typed /\ Asks
  BY DEF IInv
<1>a. NoRequest.kind = "none" /\ NoRoot # [state |-> "empty", by |-> request.by] /\ NoRoot.state = "none"
  BY DEF NoRequest, NoRoot
<1>1. ASSUME NEW t \in Txns, Execute(t)
      PROVE  /\ records'[t].state = "run" /\ records'[t].plan = records[t].plan /\ root' = root /\ removal' = removal
             /\ root.by # t
  <2>1. /\ records'[t].state = "run" /\ records'[t].plan = records[t].plan /\ root' = root /\ removal' = removal
        /\ ~Ran(t)
    BY <1>0, <1>1 DEF Execute, Typed, RecordType, Ran
  <2> QED BY <2>1 DEF IInv, Keeping
<1>2. request'.kind \in Kinds =>
          /\ request'.by \in Txns /\ records'[request'.by].state = "run"
          /\ records'[request'.by].plan.kind = request'.kind
  <2>1. CASE request' = request
    BY <1>0, <2>1, RunsOn DEF Asks
  <2>2. CASE request' # request
    BY <1>1, <1>a, <2>2, RequestSteps DEF Kinds
  <2> QED BY <2>1, <2>2
<1>3. ASSUME request'.kind = "wipe" PROVE root' # [state |-> "empty", by |-> request'.by]
  <2>1. CASE \E t \in Txns : Execute(t) /\ request' = [kind |-> records[t].plan.kind, by |-> t]
    BY <1>0, <1>1, <2>1 DEF Typed, RootType
  <2>2. CASE request' = request
    BY <1>0, <1>3, <1>a, <2>2, RootSteps DEF Asks
  <2> QED BY <1>3, <1>a, <2>1, <2>2, RequestSteps
<1>4. ASSUME request'.kind = "remove" PROVE removal'.state = "armed"
  <2>1. CASE Arm
    BY <1>0, <2>1 DEF Arm, Typed, RemovalType
  <2>2. CASE request' = request
    <3>1. removal.state = "armed"
      BY <1>0, <1>4, <2>2 DEF Asks
    <3>2. ~PlanRemoval
      BY <3>1 DEF PlanRemoval
    <3>3. ~RemoveEnds
      <4> SUFFICES ASSUME RemoveEnds PROVE FALSE
        OBVIOUS
      <4>1. removal.action = "reset" /\ request.kind = "remove" /\ pc = "removed"
        BY <1>4, <1>a, <2>2 DEF RemoveEnds, At
      <4> QED BY <4>1 DEF IInv, Stands
    <3> QED BY <3>1, <3>2, <3>3, RemovalKept
  <2>3. CASE \E t \in Txns : Execute(t) /\ request' = [kind |-> records[t].plan.kind, by |-> t]
    BY <1>0, <1>4, <2>3 DEF Execute, Typed, RecordType, PlanType, Kinds
  <2> QED BY <1>4, <1>a, <2>1, <2>2, <2>3, RequestSteps
<1>5. removal'.action = "reset" => removal'.shown.layout = removal'.before /\ removal'.shown.fs = removal'.fs
  <2>1. CASE PlanRemoval /\ removal' # removal
    BY <2>1, RemovalPlanned
  <2>2. CASE removal' = removal
    BY <1>0, <2>2 DEF Asks
  <2>3. CASE ~PlanRemoval
    BY <1>0, <2>3, RemovalKept DEF Asks
  <2> QED BY <2>1, <2>2, <2>3
<1>6. request'.kind \in Kinds =>
          /\ request'.by \in Txns /\ (records[request.by].state)' = "run"
          /\ (records[request.by].plan.kind)' = request'.kind
  BY <1>2
<1>7. ASSUME root'.state # "none" PROVE root'.by \in Txns
  <2>1. ASSUME GapFirst \/ Image \/ CarveEnds PROVE request.by \in Txns
    BY <1>0, <2>1 DEF GapFirst, Image, CarveEnds, WritesFirst, At, IInv, Stands, Asks, Kinds
  <2> QED BY <1>0, <1>7, <1>a, <2>1, RootSteps DEF Asks
<1> QED BY <1>3, <1>4, <1>5, <1>6, <1>7 DEF Asks

-----------------------------------------------------------------------------
(* Where each program stands *)

\* The places that say something.
LEMMA Standing ==
    ASSUME IInv, [Next]_vars,
           request'.kind = "gap" => pc' \in {"gap", "gap2"},
           request'.kind = "remove" /\ removal'.action = "reset" => Has(first', Root)
    PROVE  /\ pc' = "down" => Stands' /\ Writing'
           /\ pc' = "boot" => Stands' /\ Writing'
           /\ pc' = "android" /\ request'.kind # "reset" /\ Of(kernel', Data) = Of(first', Data) => Stands' /\ Writing'
  BY DEF Stands, Writing

\* A record of this installation keeps its table.
LEMMA OriginalStays ==
    ASSUME IInv, [Next]_vars, request.kind \in Kinds, request' = request
    PROVE  records'[request.by].original = records[request.by].original
  BY RecordSteps DEF IInv, Asks, Ran

\* Nothing moves but what no place is about.
LEMMA StandsStay ==
    ASSUME IInv, [Next]_vars, UNCHANGED <<first, last, kernel, fs, pc, request>>,
           removal' = removal \/ (pc = "android" /\ (request.kind = "remove" => removal'.action = removal.action))
    PROVE  Stands' /\ Writing'
<1>1. request.kind \in Kinds => Asked' = Asked /\ Keeps' = Keeps /\ Wanted' = Wanted
  BY AskedStays
<1>2. request.kind \in Kinds => records'[request.by].original = records[request.by].original
  BY OriginalStays
<1>3. Stands /\ Writing
  BY DEF IInv
<1>4. CASE pc = "android"
  BY <1>3, <1>4, Standing DEF Stands
<1>5. CASE pc # "android"
  <2>1. removal' = removal
    BY <1>5
  <2>2. Stands'
    BY <1>1, <1>2, <1>3, <2>1 DEF Stands, Kinds
  <2>3. Writing'
    BY <1>1, <1>2, <1>3, <2>1 DEF Stands, Writing, Kinds
  <2> QED BY <2>2, <2>3
<1> QED BY <1>4, <1>5

\* Every step keeps the programs where their work is.
LEMMA StandsNext ==
    ASSUME IInv, [Next]_vars
    PROVE  Stands' /\ Writing'
<1>0. Typed /\ Stands /\ Writing
  BY DEF IInv
<1>n. NoRequest.kind = "none"
  BY DEF NoRequest
<1>1. ASSUME NEW t \in Txns, NEW need, NEW asked, Plan(t, need, asked) PROVE Stands' /\ Writing'
  BY <1>1, PlanLeaves, StandsStay
<1>2. ASSUME NEW t \in Txns, Resume(t) \/ LoseBackup(t) PROVE Stands' /\ Writing'
  <2>1. UNCHANGED <<first, last, kernel, fs, pc, request, removal>>
    BY <1>2 DEF Resume, LoseBackup, table
  <2> QED BY <2>1, StandsStay
<1>3. ASSUME NEW t \in Txns, Execute(t) PROVE Stands' /\ Writing'
  <2>1. /\ pc = "android" /\ UNCHANGED <<first, last, kernel, fs, removal>>
        /\ request' = [kind |-> records[t].plan.kind, by |-> t] /\ records'[t].original = first
        /\ pc' = IF records[t].plan.kind = "gap" THEN "gap" ELSE "android"
        /\ records[t].plan.kind \in Kinds
    BY <1>0, <1>3 DEF Execute, table, Readable, At, Goto, Typed, RecordType, IInv, Fresh, Founded
  <2>2. request'.kind = records[t].plan.kind /\ request'.by = t
    BY <2>1
  <2>3. CASE records[t].plan.kind = "gap"
    <3>1. pc' = "gap" /\ Of(kernel, Data) = Of(first, Data)
      BY <1>0, <2>1, <2>3 DEF Stands
    <3> QED BY <2>1, <2>2, <2>3, <3>1 DEF Stands, Writing
  <2>4. CASE records[t].plan.kind # "gap"
    BY <1>0, <2>1, <2>2, <2>4, Standing DEF Stands, Kinds
  <2> QED BY <2>3, <2>4
<1>4. CASE GapLast
  <2>1. /\ pc = "gap" /\ pc' = "gap2" /\ request.kind = "gap" /\ UNCHANGED <<first, kernel, fs, request, removal>>
        /\ CanAddRoot(first, Asked.start, Asked.need) /\ last' = WithRoot(first, Asked.start, Asked.need)
    BY <1>4 DEF GapLast, WritesLast, At, Goto, fixed, computer
  <2>2. Asked' = Asked /\ records'[request.by].original = records[request.by].original
    BY <2>1, AskedStays, OriginalStays DEF Kinds
  <2>3. first = records[request.by].original /\ Of(kernel, Data) = Of(first, Data)
    BY <1>0, <2>1 DEF Stands
  <2>4. Stands'
    BY <2>1, <2>2, <2>3 DEF Stands
  <2>5. Writing'
    BY <2>1, <2>2 DEF Writing
  <2> QED BY <2>4, <2>5
<1>5. CASE GapFirst
  <2>1. /\ pc = "gap2" /\ pc' = "android" /\ first' = last /\ kernel' = kernel /\ request' = NoRequest
    BY <1>5 DEF GapFirst, WritesFirst, At, Goto
  <2>2. /\ request.kind = "gap" /\ CanAddRoot(first, Asked.start, Asked.need) /\ last = WithRoot(first, Asked.start, Asked.need)
        /\ Of(kernel, Data) = Of(first, Data)
    BY <1>0, <2>1 DEF Stands, Writing
  <2>3. Of(kernel', Data) = Of(first', Data)
    BY <2>1, <2>2, GapWritten
  <2> QED BY <1>n, <2>1, <2>3, Standing
<1>6. CASE GapStops
  BY <1>0, <1>n, <1>6, Standing DEF GapStops, Goto, table, Stands
<1>7. CASE PlanRemoval
  <2>1. UNCHANGED <<first, last, kernel, fs, pc, request>> /\ pc = "android" /\ removal.state # "armed"
    BY <1>7 DEF PlanRemoval, table, Readable, At
  <2>2. request.kind # "remove"
    BY <2>1 DEF IInv, Asks
  <2> QED BY <2>1, <2>2, StandsStay
<1>8. CASE Arm
  <2>1. /\ pc = "android" /\ pc' = "android" /\ UNCHANGED <<first, last, kernel, fs>> /\ request'.kind = "remove"
        /\ first = removal.before /\ removal.state # "none"
    BY <1>8 DEF Arm, At, table, LayoutIsBefore
  <2>2. Has(first, Root)
    BY <2>1 DEF IInv, Tabulated
  <2> QED BY <1>0, <2>1, <2>2, Standing DEF Stands
<1>9. CASE Shrink
  <2>1. /\ UNCHANGED <<first, last, kernel, request, removal>> /\ request.kind = "shrink" /\ fs' = Keeps
        /\ pc' = IF Has(first, Root) THEN "image" ELSE "resize"
    BY <1>9 DEF Shrink, table, Goto, computer
  <2>2. Keeps' = Keeps
    BY <2>1, AskedStays DEF Kinds
  <2> QED BY <2>1, <2>2 DEF Stands, Writing
<1>10. CASE ResizeLast
  <2>1. /\ pc = "resize" /\ pc' = "resize2" /\ UNCHANGED <<first, kernel, fs, request, removal>>
        /\ CanResize(first, Keeps) /\ last' = Resized(first, Keeps)
    BY <1>10 DEF ResizeLast, WritesLast, At, Goto, computer
  <2>2. request.kind = "shrink" /\ fs = Keeps /\ ~Has(first, Root)
    BY <1>0, <2>1 DEF Stands
  <2>3. Keeps' = Keeps
    BY <2>1, <2>2, AskedStays DEF Kinds
  <2>4. Stands'
    BY <2>1, <2>2, <2>3 DEF Stands
  <2>5. Writing'
    BY <2>1, <2>3 DEF Writing
  <2> QED BY <2>4, <2>5
<1>11. CASE ResizeFirst
  <2>1. pc = "resize2" /\ pc' = "add" /\ first' = last /\ UNCHANGED <<last, kernel, fs, request, removal>>
    BY <1>11 DEF ResizeFirst, WritesFirst, At, Goto, computer
  <2>2. /\ request.kind = "shrink" /\ fs = Keeps /\ ~Has(first, Root)
        /\ CanResize(first, Keeps) /\ last = Resized(first, Keeps)
    BY <1>0, <2>1 DEF Stands, Writing
  <2>3. Keeps' = Keeps
    BY <2>1, <2>2, AskedStays DEF Kinds
  <2>4. ~Has(first', Root) /\ Userdata(first') = Keeps
    BY <2>1, <2>2, ShrinkWritten
  <2>5. Stands'
    BY <2>1, <2>2, <2>3, <2>4 DEF Stands
  <2> QED BY <2>1, <2>5 DEF Writing
<1>12. CASE AddLast
  <2>1. /\ pc = "add" /\ pc' = "add2" /\ UNCHANGED <<first, kernel, fs, request, removal>>
        /\ CanAllocate(first, Wanted) /\ last' = Allocated(first, Wanted)
    BY <1>12 DEF AddLast, WritesLast, At, Goto, computer
  <2>2. request.kind = "shrink" /\ fs = Keeps /\ ~Has(first, Root) /\ Userdata(first) = Keeps
    BY <1>0, <2>1 DEF Stands
  <2>3. Keeps' = Keeps /\ Wanted' = Wanted
    BY <2>1, <2>2, AskedStays DEF Kinds
  <2>4. Stands'
    BY <2>1, <2>2, <2>3 DEF Stands
  <2>5. Writing'
    BY <2>1, <2>3 DEF Writing
  <2> QED BY <2>4, <2>5
<1>13. CASE AddFirst
  <2>1. pc = "add2" /\ pc' = "image" /\ first' = last /\ UNCHANGED <<last, kernel, fs, request, removal>>
    BY <1>13 DEF AddFirst, WritesFirst, At, Goto, computer
  <2>2. request.kind = "shrink" /\ fs = Keeps /\ CanAllocate(first, Wanted) /\ last = Allocated(first, Wanted)
    BY <1>0, <2>1 DEF Stands, Writing
  <2>3. Keeps' = Keeps
    BY <2>1, <2>2, AskedStays DEF Kinds
  <2>4. Has(first', Root)
    BY <2>1, <2>2, RootAllocated
  <2>5. Stands'
    BY <2>1, <2>2, <2>3, <2>4 DEF Stands
  <2> QED BY <2>1, <2>5 DEF Writing
<1>14. CASE Image
  <2>1. pc' = "down" /\ request' = NoRequest
    BY <1>14 DEF Image, Goto
  <2> QED BY <1>n, <2>1, Standing
<1>15. CASE CarveLast
  <2>1. /\ pc = "boot" /\ pc' = "carve2" /\ UNCHANGED <<first, kernel, fs, request, removal>> /\ request.kind = "wipe"
        /\ CanCarve(first, Keeps, Wanted, Asked.size + Asked.need) /\ last' = Carved(first, Keeps, Wanted)
    BY <1>15 DEF CarveLast, WritesLast, At, Goto, computer
  <2>2. Asked' = Asked /\ Keeps' = Keeps /\ Wanted' = Wanted
    BY <2>1, AskedStays DEF Kinds
  <2>3. ~Has(first, Root)
    BY <2>1 DEF CanCarve
  <2>4. Stands'
    BY <2>1, <2>3 DEF Stands
  <2>5. Writing'
    BY <2>1, <2>2 DEF Writing
  <2> QED BY <2>4, <2>5
<1>16. CASE CarveFirst
  <2>1. pc = "carve2" /\ pc' = "carved" /\ first' = last /\ UNCHANGED <<last, kernel, fs, request, removal>>
    BY <1>16 DEF CarveFirst, WritesFirst, At, Goto, computer
  <2>2. /\ request.kind = "wipe" /\ CanCarve(first, Keeps, Wanted, Asked.size + Asked.need)
        /\ last = Carved(first, Keeps, Wanted)
    BY <1>0, <2>1 DEF Stands, Writing
  <2>3. Keeps' = Keeps
    BY <2>1, <2>2, AskedStays DEF Kinds
  <2>4. Has(first', Root) /\ Userdata(first') = Keeps
    BY <2>1, <2>2, RootCarved
  <2>5. Stands'
    BY <2>1, <2>2, <2>3, <2>4 DEF Stands
  <2> QED BY <2>1, <2>5 DEF Writing
<1>17. CASE CarveEnds
  <2>1. pc' = "down" /\ request'.kind = "reset"
    BY <1>17 DEF CarveEnds, Goto
  <2> QED BY <2>1, Standing
<1>18. CASE RemoveAsks
  <2>1. /\ request.kind = "remove" /\ UNCHANGED <<first, last, removal>> /\ {first, last} \subseteq {removal.before, removal.after}
        /\ removal.state = "armed"
    BY <1>18 DEF RemoveAsks, table, computer, SnapshotKnown, IInv, Asks
  <2>2. ~Has(removal.after, Root)
    BY <2>1 DEF IInv, Tabulated
  <2>3. CASE <<first, last>> = <<removal.after, removal.after>>
    <3>1. pc' = "removed" /\ request' = request /\ first = removal.after /\ last = removal.after
      BY <1>18, <2>3 DEF RemoveAsks, Goto
    <3>2. removal.action # "reset"
      BY <1>0, <2>1, <2>2, <3>1 DEF Stands
    <3> QED BY <2>1, <3>1, <3>2 DEF Stands, Writing
  <2>4. CASE <<first, last>> # <<removal.after, removal.after>>
    <3>1. pc' = "remove" /\ request' = IF removal.action = "reset" THEN [request EXCEPT !.kind = "reset"] ELSE request
      BY <1>18, <2>4 DEF RemoveAsks, Goto
    <3>2. request'.kind = IF removal.action = "reset" THEN "reset" ELSE "remove"
      BY <1>0, <2>1, <3>1 DEF Typed, RequestType
    <3> QED BY <2>1, <3>1, <3>2 DEF Stands, Writing
  <2> QED BY <2>3, <2>4
<1>19. CASE RemoveLast
  <2>1. /\ pc = "remove" /\ pc' = "remove2" /\ last' = removal.after /\ UNCHANGED <<first, kernel, fs, request, removal>>
    BY <1>19 DEF RemoveLast, At, Goto, computer
  <2>2. /\ removal.state = "armed" /\ request.kind = IF removal.action = "reset" THEN "reset" ELSE "remove"
        /\ first \in {removal.before, removal.after}
    BY <1>0, <2>1 DEF Stands
  <2> QED BY <2>1, <2>2 DEF Stands, Writing
<1>20. CASE RemoveFirst
  <2>1. pc = "remove2" /\ pc' = "removed" /\ first' = last /\ UNCHANGED <<last, kernel, fs, request, removal>>
    BY <1>20 DEF RemoveFirst, WritesFirst, At, Goto, computer
  <2>2. /\ removal.state = "armed" /\ request.kind = IF removal.action = "reset" THEN "reset" ELSE "remove"
        /\ last = removal.after
    BY <1>0, <2>1 DEF Stands, Writing
  <2> QED BY <2>1, <2>2 DEF Stands, Writing
<1>21. CASE RemoveEnds
  <2>1. /\ pc = "removed" /\ pc' = "down" /\ request' = IF removal.action = "reset" THEN request ELSE NoRequest
    BY <1>21 DEF RemoveEnds, At, Goto
  <2>2. request'.kind \in {"reset", "none"}
    BY <1>0, <1>n, <2>1 DEF Stands
  <2> QED BY <2>1, <2>2, Standing
<1>22. CASE Restart
  <2>1. pc = "android" /\ pc' = "down" /\ UNCHANGED <<first, request, removal>>
    BY <1>22 DEF Restart, At, Goto, table, computer
  <2> QED BY <1>0, <2>1, Standing DEF Stands
<1>23. CASE Boot
  <2>1. pc = "down" /\ pc' \in {"android", "boot"} /\ UNCHANGED <<first, request, removal>> /\ kernel' = first /\ request.kind # "reset"
    BY <1>23 DEF Boot, At, table, computer
  <2> QED BY <1>0, <2>1, Standing DEF Stands
<1>24. CASE RecoveryWipes
  <2>1. pc' = "android" /\ first' = first /\ request' = NoRequest /\ kernel' = first
    BY <1>24 DEF RecoveryWipes, Goto, table
  <2> QED BY <1>n, <2>1, Standing
<1>25. CASE Stops
  <2>1. pc' = "down" /\ first' = first /\ removal' = removal /\ request' = IF request.kind = "gap" THEN NoRequest ELSE request
    BY <1>25 DEF Stops, Goto, table, computer
  <2> QED BY <1>0, <1>n, <2>1, Standing DEF Stands
<1>26. ASSUME NEW s \in First..Last, ForeignPartition(s) PROVE Stands' /\ Writing'
  <2>1. /\ pc = "android" /\ pc' = "android" /\ UNCHANGED <<kernel, request, removal>>
        /\ Of(first', Data) = Of(first, Data) /\ (Has(first, Root) => Has(first', Root))
    BY <1>26, ForeignAdded DEF ForeignPartition, computer
  <2> QED BY <1>0, <2>1, Standing DEF Stands
<1>27. CASE UNCHANGED vars
  BY <1>27, StandsStay DEF vars
<1> QED BY <1>1, <1>2, <1>3, <1>4, <1>5, <1>6, <1>7, <1>8, <1>9, <1>10, <1>11, <1>12, <1>13, <1>14, <1>15, <1>16, <1>17,
           <1>18, <1>19, <1>20, <1>21, <1>22, <1>23, <1>24, <1>25, <1>26, <1>27
        DEF Next, OnAndroid, Installs, Initramfs, Around

-----------------------------------------------------------------------------
(* The copy at the start, and the filesystem *)

\* Every edit that the next start reads.
LEMMA FirstSteps ==
    ASSUME IInv, [Next]_vars
    PROVE  \/ first' = first
           \/ /\ fs' = fs
              /\ \/ /\ GapFirst /\ request.kind = "gap" /\ first = records[request.by].original
                    /\ CanAddRoot(first, Asked.start, Asked.need) /\ first' = WithRoot(first, Asked.start, Asked.need)
                 \/ /\ ResizeFirst /\ request.kind = "shrink" /\ fs = Keeps
                    /\ CanResize(first, Keeps) /\ first' = Resized(first, Keeps)
                 \/ /\ AddFirst /\ request.kind = "shrink" /\ Userdata(first) = Keeps
                    /\ CanAllocate(first, Wanted) /\ first' = Allocated(first, Wanted)
                 \/ /\ CarveFirst /\ request.kind = "wipe"
                    /\ CanCarve(first, Keeps, Wanted, Asked.size + Asked.need) /\ first' = Carved(first, Keeps, Wanted)
                 \/ /\ RemoveFirst /\ removal.state = "armed" /\ first \in {removal.before, removal.after}
                    /\ first' = removal.after
                 \/ \E s \in First..Last : ForeignPartition(s)
<1>0. Stands /\ Writing
  BY DEF IInv
<1>1. CASE GapFirst
  BY <1>0, <1>1 DEF GapFirst, WritesFirst, At, Stands, Writing
<1>2. CASE ResizeFirst
  BY <1>0, <1>2 DEF ResizeFirst, WritesFirst, At, Stands, Writing
<1>3. CASE AddFirst
  BY <1>0, <1>3 DEF AddFirst, WritesFirst, At, Stands, Writing
<1>4. CASE CarveFirst
  BY <1>0, <1>4 DEF CarveFirst, WritesFirst, At, Stands, Writing
<1>5. CASE RemoveFirst
  BY <1>0, <1>5 DEF RemoveFirst, WritesFirst, At, Stands, Writing
<1>6. CASE \E s \in First..Last : ForeignPartition(s)
  BY <1>6 DEF ForeignPartition
<1>7. CASE Installs
  BY <1>7 DEF Installs, Plan, Execute, Resume, table
<1>8. CASE \/ GapLast \/ GapStops \/ PlanRemoval \/ Arm \/ ResizeLast \/ AddLast \/ CarveLast \/ RemoveLast
  BY <1>8 DEF GapLast, GapStops, PlanRemoval, Arm, ResizeLast, AddLast, CarveLast, RemoveLast, WritesLast, table
<1>9. CASE \/ Shrink \/ Image \/ CarveEnds \/ RemoveAsks \/ RemoveEnds \/ Restart \/ Boot \/ RecoveryWipes \/ Stops
  BY <1>9 DEF Shrink, Image, CarveEnds, RemoveAsks, RemoveEnds, Restart, Boot, RecoveryWipes, Stops, table
<1>10. CASE UNCHANGED vars \/ \E t \in Txns : LoseBackup(t)
  BY <1>10 DEF LoseBackup, vars, table
<1> QED BY <1>1, <1>2, <1>3, <1>4, <1>5, <1>6, <1>7, <1>8, <1>9, <1>10 DEF Next, OnAndroid, Initramfs, Around

\* What becomes of userdata with each.
LEMMA DataSteps ==
    ASSUME IInv, [Next]_vars
    PROVE  \/ first' = first
           \/ fs' = fs /\ Of(first', Data) = Of(first, Data)
           \/ fs' = fs /\ fs = Keeps /\ ResizeFirst /\ Userdata(first') = Keeps
           \/ fs' = fs /\ CarveFirst /\ Userdata(first') = Keeps
           \/ fs' = fs /\ RemoveFirst /\ Userdata(first) <= Userdata(first')
<1>1. ASSUME RemoveFirst, removal.state = "armed", first \in {removal.before, removal.after}, first' = removal.after
      PROVE  Userdata(first) <= Userdata(first')
  BY <1>1, UserdataIs DEF IInv, Tabulated, Userdata
<1> QED BY <1>1, FirstSteps, GapWritten, ShrinkWritten, RootAllocated, RootCarved, ForeignAdded

\* What changes the filesystem.
LEMMA FileSystemSteps ==
    ASSUME IInv, [Next]_vars
    PROVE  \/ fs' = fs
           \/ Shrink /\ fs' = Keeps /\ fs' <= fs /\ first' = first
           \/ RecoveryWipes /\ fs' = Userdata(first) /\ first' = first
           \/ RemoveEnds /\ fs' = Userdata(first) /\ first' = first
<1>1. CASE Shrink
  BY <1>1, KeepsIs DEF Shrink, table, Taking, IInv, Typed
<1>2. CASE RecoveryWipes \/ RemoveEnds
  BY <1>2 DEF RecoveryWipes, RemoveEnds, table
<1>3. CASE Installs
  BY <1>3 DEF Installs, Plan, Execute, Resume
<1>4. CASE \/ GapLast \/ GapFirst \/ GapStops \/ PlanRemoval \/ Arm \/ ResizeLast \/ ResizeFirst \/ AddLast \/ AddFirst
           \/ Image \/ CarveLast \/ CarveFirst \/ CarveEnds \/ RemoveAsks \/ RemoveLast \/ RemoveFirst
  BY <1>4 DEF GapLast, GapFirst, GapStops, PlanRemoval, Arm, ResizeLast, ResizeFirst, AddLast, AddFirst, Image,
     CarveLast, CarveFirst, CarveEnds, RemoveAsks, RemoveLast, RemoveFirst, WritesLast, WritesFirst
<1>5. CASE Restart \/ Boot \/ Stops \/ (\E s \in First..Last : ForeignPartition(s)) \/ (\E t \in Txns : LoseBackup(t))
  BY <1>5 DEF Restart, Boot, Stops, ForeignPartition, LoseBackup
<1>6. CASE UNCHANGED vars
  BY <1>6 DEF vars
<1> QED BY <1>1, <1>2, <1>3, <1>4, <1>5, <1>6 DEF Next, OnAndroid, Initramfs, Around

\* Only recovery answers a request to it.
LEMMA ResetStays ==
    ASSUME IInv, [Next]_vars, request.kind = "reset"
    PROVE  request'.kind = "reset" \/ RecoveryWipes
<1>0. Stands /\ NoRequest.kind # "reset"
  BY DEF IInv, NoRequest
<1>1. CASE Installs
  <2>1. ASSUME NEW t, Execute(t) PROVE FALSE
    BY <1>0, <2>1 DEF Execute
  <2> QED BY <1>1, <2>1 DEF Installs, Plan, Resume
<1>2. CASE GapLast \/ GapFirst \/ GapStops \/ PlanRemoval \/ Arm
  BY <1>0, <1>2 DEF GapLast, GapFirst, GapStops, PlanRemoval, Arm, WritesLast, WritesFirst, At, Stands
<1>3. CASE Image
  BY <1>0, <1>3 DEF Image, At, Stands
<1>4. CASE CarveEnds
  BY <1>4 DEF CarveEnds
<1>5. CASE RemoveAsks
  BY <1>5 DEF RemoveAsks
<1>6. CASE RemoveEnds
  BY <1>0, <1>6 DEF RemoveEnds, At, Stands
<1>7. CASE \/ Shrink \/ ResizeLast \/ ResizeFirst \/ AddLast \/ AddFirst
           \/ CarveLast \/ CarveFirst \/ RemoveLast \/ RemoveFirst
  BY <1>7 DEF Shrink, ResizeLast, ResizeFirst, AddLast, AddFirst,
     CarveLast, CarveFirst, RemoveLast, RemoveFirst, WritesLast, WritesFirst
<1>8. CASE Restart \/ Boot \/ Stops \/ (\E s \in First..Last : ForeignPartition(s)) \/ (\E t \in Txns : LoseBackup(t))
  BY <1>8 DEF Restart, Boot, Stops, ForeignPartition, LoseBackup
<1>9. CASE UNCHANGED vars
  BY <1>9 DEF vars
<1> QED BY <1>1, <1>2, <1>3, <1>4, <1>5, <1>6, <1>7, <1>8, <1>9 DEF Next, OnAndroid, Initramfs, Around

\* An installation that agreed to lose the data runs until the root it carved is written.
LEMMA WipeRuns ==
    ASSUME IInv, [Next]_vars, NEW t \in Txns, records[t].state = "run", records[t].plan.kind = "wipe",
           root # [state |-> "empty", by |-> t]
    PROVE  /\ records'[t].state = "run" /\ records'[t].plan.kind = "wipe"
           /\ root' # [state |-> "empty", by |-> t] \/ request'.kind = "reset"
<1>0. Typed /\ Asks /\ Stands
  BY DEF IInv
<1>1. records'[t].plan.kind = "wipe"
  BY RecordSteps
<1>2. records'[t].state = "run"
  <2>1. CASE Image
    <3>1. request.by \in Txns /\ request.by # t
      BY <1>0, <2>1 DEF Image, At, Stands, Asks, Kinds
    <3> QED BY <1>0, <2>1, <3>1 DEF Image, Typed
  <2>2. CASE Installs
    <3>1. ASSUME NEW u \in Txns, Execute(u) PROVE u # t
      BY <3>1 DEF Execute
    <3>2. ASSUME NEW u \in Txns, Execute(u) PROVE records'[t] = records[t]
      BY <1>0, <3>1, <3>2 DEF Execute, Typed
    <3>3. ASSUME NEW u \in Txns, NEW need, NEW asked, Plan(u, need, asked) PROVE records'[t] = records[t]
      <4>1. u # t
        BY <3>3 DEF Plan
      <4> QED BY <1>0, <3>3, <4>1, PlannedOne
    <3>4. ASSUME NEW u \in Txns, Resume(u) PROVE u # t
      BY <3>4 DEF Resume
    <3>5. ASSUME NEW u \in Txns, Resume(u) PROVE records'[t] = records[t]
      BY <1>0, <3>4, <3>5 DEF Resume, Typed
    <3> QED BY <2>2, <3>2, <3>3, <3>5 DEF Installs
  <2>3. CASE GapLast \/ GapFirst \/ GapStops \/ PlanRemoval \/ Arm
    BY <2>3 DEF GapLast, GapFirst, GapStops, PlanRemoval, Arm, WritesLast, WritesFirst, computer
  <2>4. CASE \/ Shrink \/ ResizeLast \/ ResizeFirst \/ AddLast \/ AddFirst
             \/ CarveLast \/ CarveFirst \/ CarveEnds \/ RemoveAsks \/ RemoveLast \/ RemoveFirst \/ RemoveEnds
    BY <2>4 DEF Shrink, ResizeLast, ResizeFirst, AddLast, AddFirst, CarveLast, CarveFirst, CarveEnds,
       RemoveAsks, RemoveLast, RemoveFirst, RemoveEnds, WritesLast, WritesFirst, computer
  <2>5. CASE Around
    <3>1. ASSUME NEW u \in Txns, LoseBackup(u) PROVE records'[t].state = "run"
      BY <1>0, <3>1 DEF LoseBackup, Typed, RecordType
    <3>2. ASSUME NEW s \in First..Last, ForeignPartition(s) PROVE records'[t].state = "run"
      BY <3>2 DEF ForeignPartition, computer
    <3> QED BY <2>5, <3>1, <3>2 DEF Around, Restart, Boot, RecoveryWipes, Stops, computer
  <2>6. CASE UNCHANGED vars
    BY <2>6 DEF vars
  <2> QED BY <2>1, <2>2, <2>3, <2>4, <2>5, <2>6 DEF Next, OnAndroid, Initramfs
<1>3. root' # [state |-> "empty", by |-> t] \/ request'.kind = "reset"
  <2>1. CASE root' = root
    BY <2>1
  <2>2. CASE RemoveFirst /\ root' = NoRoot
    BY <2>2 DEF NoRoot
  <2>3. CASE GapFirst /\ root'.by = request.by
    <3>1. request.kind = "gap" /\ records[request.by].plan.kind = "gap"
      BY <1>0, <2>3 DEF GapFirst, WritesFirst, At, Stands, Asks, Kinds
    <3> QED BY <2>3, <3>1
  <2>4. CASE Image
    BY <2>4 DEF Image
  <2>5. CASE \E u \in Txns : root' = [state |-> "installed", by |-> u]
    BY <2>5
  <2> QED BY <2>1, <2>2, <2>3, <2>4, <2>5, RootSteps
<1> QED BY <1>1, <1>2, <1>3

\* Every step keeps the filesystem inside userdata, or about to be made anew.
LEMMA FitsNext ==
    ASSUME IInv, [Next]_vars
    PROVE  Fits'
<1>0. Sound(first) /\ Sound(first') /\ Typed /\ Fits /\ Stands /\ Asks
  BY TableSteps DEF IInv, Tabulated
<1>1. Userdata(first) \in Int /\ Userdata(first') \in Int /\ fs \in Int
  BY <1>0, UserdataIs DEF Userdata, Typed
<1>2. CASE CarveFirst
  <2> DEFINE t == request.by
  <2>1. request.kind = "wipe" /\ t \in Txns /\ records[t].state = "run" /\ records[t].plan.kind = "wipe"
        /\ root # [state |-> "empty", by |-> t] /\ root' = root
    BY <1>0, <1>2 DEF CarveFirst, WritesFirst, At, Stands, Asks, Kinds
  <2>2. records'[t].state = "run" /\ records'[t].plan.kind = "wipe"
    BY <2>1, WipeRuns
  <2> QED BY <2>1, <2>2 DEF Fits
<1>3. CASE fs <= Userdata(first) /\ ~CarveFirst
  <2>1. fs' <= Userdata(first')
    <3>1. CASE fs' = fs
      BY <1>1, <1>3, <3>1, DataSteps DEF Userdata
    <3>2. CASE fs' # fs
      BY <1>1, <1>3, <3>2, FileSystemSteps, KeepsIs DEF Shrink, Taking
    <3> QED BY <3>1, <3>2
  <2> QED BY <2>1 DEF Fits
<1>4. CASE request.kind = "reset"
  <2>1. CASE RecoveryWipes
    BY <1>1, <2>1 DEF RecoveryWipes, table, Fits
  <2>2. CASE request'.kind = "reset"
    BY <2>2 DEF Fits
  <2> QED BY <1>4, <2>1, <2>2, ResetStays
<1>5. ASSUME NEW t \in Txns, records[t].state = "run", records[t].plan.kind = "wipe", root # [state |-> "empty", by |-> t]
      PROVE  Fits'
  BY <1>5, WipeRuns DEF Fits
<1> QED BY <1>0, <1>2, <1>3, <1>4, <1>5 DEF Fits

-----------------------------------------------------------------------------
(* The room beside a system *)

\* Where a running Android's view of the table is from.
LEMMA AndroidSteps ==
    ASSUME IInv, [Next]_vars, pc' = "android"
    PROVE  \/ pc = "android" /\ kernel' = kernel
           \/ kernel' = first /\ first' = first
           \/ request.kind = "gap"
<1>0. Stands
  BY DEF IInv
<1>1. CASE Installs
  <2>1. ASSUME NEW t, NEW need, NEW asked, Plan(t, need, asked) PROVE pc = "android" /\ kernel' = kernel
    BY <2>1 DEF Plan, Readable, At
  <2>2. ASSUME NEW t, Execute(t) \/ Resume(t) PROVE pc = "android" /\ kernel' = kernel
    BY <2>2 DEF Execute, Resume, Readable, At
  <2> QED BY <1>1, <2>1, <2>2 DEF Installs
<1>2. CASE GapLast \/ GapFirst \/ GapStops
  BY <1>0, <1>2 DEF GapLast, GapFirst, GapStops, WritesLast, WritesFirst, At, Stands
<1>3. CASE PlanRemoval \/ Arm
  BY <1>3 DEF PlanRemoval, Arm, Readable, At
<1>4. CASE Boot \/ RecoveryWipes
  BY <1>4 DEF Boot, RecoveryWipes, table
<1>5. CASE \/ Shrink \/ ResizeLast \/ ResizeFirst \/ AddLast \/ AddFirst \/ Image
           \/ CarveLast \/ CarveFirst \/ CarveEnds \/ RemoveAsks \/ RemoveLast \/ RemoveFirst \/ RemoveEnds
           \/ Restart \/ Stops
  BY <1>5 DEF Shrink, ResizeLast, ResizeFirst, AddLast, AddFirst, Image, CarveLast, CarveFirst, CarveEnds,
     RemoveAsks, RemoveLast, RemoveFirst, RemoveEnds, Restart, Stops, WritesLast, WritesFirst, Goto
<1>6. CASE (\E s \in First..Last : ForeignPartition(s)) \/ (\E t \in Txns : LoseBackup(t)) \/ UNCHANGED vars
  BY <1>6 DEF ForeignPartition, LoseBackup, Readable, At, vars
<1> QED BY <1>1, <1>2, <1>3, <1>4, <1>5, <1>6 DEF Next, OnAndroid, Initramfs, Around

\* What is in the root is of an installation that ran, and the root is there.
LEMMA RootedNext ==
    ASSUME IInv, [Next]_vars, root'.by \in Txns
    PROVE  /\ Has(first', Root) /\ records'[root'.by].state \in {"run", "done"}
           /\ records'[root'.by].plan = records[root'.by].plan
<1>0. Stands /\ Asks /\ Keeping /\ "none" \notin Txns
  BY TxnNames DEF IInv
<1>1. ASSUME NEW t \in Txns, Ran(t) PROVE records'[t].state \in {"run", "done"} /\ records'[t].plan = records[t].plan
  BY <1>1, RecordSteps DEF Ran
<1>2. CASE root'.by = root.by /\ ~RemoveFirst
  <2>1. Has(first, Root) /\ Ran(root.by)
    BY <1>0, <1>2 DEF Keeping
  <2>2. Has(first', Root)
    BY <1>2, <2>1, FirstSteps, GapWritten, ShrinkWritten, RootAllocated, RootCarved, ForeignAdded
  <2>3. records'[root.by].state \in {"run", "done"} /\ records'[root.by].plan = records[root.by].plan
    BY <1>1, <1>2, <2>1
  <2> QED BY <1>2, <2>2, <2>3 DEF Ran
<1>3. CASE request.kind \in Kinds /\ root'.by = request.by /\ Has(first', Root)
  <2>1. Ran(request.by)
    BY <1>0, <1>3 DEF Asks, Ran
  <2>2. records'[request.by].state \in {"run", "done"} /\ records'[request.by].plan = records[request.by].plan
    BY <1>1, <1>3, <2>1
  <2> QED BY <1>3, <2>2 DEF Ran
<1>4. CASE GapFirst
  <2>1. request.kind = "gap" /\ root'.by = request.by
    BY <1>0, <1>4 DEF GapFirst, WritesFirst, At, Stands
  <2>2. CanAddRoot(first, Asked.start, Asked.need) /\ first' = WithRoot(first, Asked.start, Asked.need)
    BY <1>4 DEF GapFirst, WritesFirst, At, IInv, Writing
  <2>3. Has(first', Root)
    BY <2>1, <2>2, GapWritten
  <2> QED BY <1>3, <2>1, <2>3 DEF Kinds
<1>5. CASE Image \/ CarveEnds
  <2>1. request.kind \in Kinds /\ root'.by = request.by /\ Has(first, Root) /\ first' = first
    BY <1>0, <1>5 DEF Image, CarveEnds, At, Stands, Kinds, table
  <2> QED BY <1>3, <2>1
<1>6. CASE RemoveFirst
  BY <1>0, <1>6 DEF RemoveFirst, NoRoot, NoTxn
<1> QED BY <1>2, <1>4, <1>5, <1>6, RootSteps

\* Every step keeps the room of a system.
LEMMA KeepingNext ==
    ASSUME IInv, [Next]_vars
    PROVE  Keeping'
<1>0. Sound(first) /\ Sound(first') /\ Typed /\ Stands /\ Asks /\ Keeping
  BY TableSteps DEF IInv, Tabulated
<1>a. Userdata(first) \in Int /\ Userdata(first') \in Int /\ fs \in Int /\ MinPart \in Int /\ Down(Contents) \in Int
  BY <1>0, UserdataIs, DownFacts, ContentsAssumption, AlignAssumption DEF Userdata, Typed
<1>1. ASSUME request'.kind = "shrink" PROVE Userdata(first') \in {Asked'.size + Asked'.need, Keeps'}
  <2>1. CASE \E t \in Txns : Execute(t) /\ request' = [kind |-> records[t].plan.kind, by |-> t]
    <3>1. PICK t \in Txns : Execute(t) /\ request' = [kind |-> records[t].plan.kind, by |-> t]
      BY <2>1
    <3>2. /\ first' = first /\ records'[t].original = first /\ records'[t].state = "run" /\ records'[t].plan = records[t].plan
          /\ request'.by = t /\ records[t].plan.kind = "shrink"
      BY <1>0, <1>1, <3>1 DEF Execute, table, Typed, RecordType
    <3>3. Founded(records[t])'
      BY FreshNext DEF Fresh
    <3>4. records'[t].plan.size + records'[t].plan.need = Userdata(first')
      BY <3>2, <3>3 DEF Founded, Taking, Userdata
    <3> QED BY <3>2, <3>4 DEF Asked
  <2>2. CASE request' = request
    <3>1. Asked' = Asked /\ Keeps' = Keeps /\ Userdata(first) \in {Asked.size + Asked.need, Keeps}
      BY <1>0, <1>1, <2>2, AskedStays DEF Kinds, Keeping
    <3>2. ~CarveFirst /\ ~RemoveFirst
      BY <1>0, <1>1, <2>2 DEF CarveFirst, RemoveFirst, WritesFirst, At, Stands
    <3>3. Userdata(first') = Userdata(first) \/ Userdata(first') = Keeps
      BY <3>2, DataSteps DEF Userdata
    <3> QED BY <3>1, <3>3
  <2> QED BY <1>1, <2>1, <2>2, RequestSteps DEF NoRequest
<1>2. root'.by \in Txns => Has(first', Root) /\ Ran(root.by)'
  BY RootedNext DEF Ran
<1>3. ASSUME root'.by \in Txns, records'[root'.by].plan.kind \in Taking
      PROVE  /\ request'.kind \notin Kinds
             /\ pc' = "android" => Has(kernel', Root)
             /\ Userdata(first') >= MinPart
             /\ records'[root'.by].plan.kind = "shrink" =>
                  Userdata(first') >= MinPart + Down(Contents) /\ fs' >= MinPart + Down(Contents)
  <2> DEFINE by == root'.by
             kind == records[by].plan.kind
  <2>0. records'[by].plan.kind = kind /\ kind \in Taking
    BY <1>3, RootedNext
  <2>n. NoRequest.kind \notin Kinds /\ "reset" \notin Kinds /\ "remove" \notin Kinds /\ ~RemoveFirst
    BY <1>3, TxnNames DEF NoRequest, Kinds, RemoveFirst, NoRoot, NoTxn
  <2>1. CASE by = root.by
    <3>1. /\ request.kind \notin Kinds
          /\ pc = "android" => Has(kernel, Root)
          /\ Userdata(first) >= MinPart
          /\ kind = "shrink" => Userdata(first) >= MinPart + Down(Contents) /\ fs >= MinPart + Down(Contents)
          /\ Has(first, Root)
      BY <1>0, <1>3, <2>0, <2>1 DEF Keeping
    <3>2. ASSUME NEW t, Execute(t) PROVE FALSE
      BY <3>1, <3>2 DEF Execute, Readable, At
    <3>3. request'.kind \notin Kinds
      BY <2>n, <3>1, <3>2, RequestSteps
    <3>4. pc' = "android" => Has(kernel', Root)
      BY <3>1, AndroidSteps DEF Kinds
    <3>5. ~ResizeFirst /\ ~CarveFirst /\ ~Shrink
      BY <1>0, <3>1 DEF ResizeFirst, CarveFirst, Shrink, WritesFirst, At, Stands, Kinds
    <3>6. Userdata(first') = Userdata(first)
      BY <2>n, <3>5, DataSteps DEF Userdata
    <3>7. fs' = fs \/ fs' = Userdata(first)
      BY <3>5, FileSystemSteps
    <3> QED BY <1>a, <2>0, <3>1, <3>3, <3>4, <3>6, <3>7
  <2>2. CASE Image
    <3>1. /\ request.kind = "shrink" /\ by = request.by /\ request' = NoRequest /\ pc' = "down" /\ first' = first /\ fs' = fs
          /\ fs = Keeps
      BY <1>0, <2>2 DEF Image, At, Goto, Stands, table
    <3>2. Userdata(first) \in {Asked.size + Asked.need, Keeps}
      BY <1>0, <3>1 DEF Keeping
    <3>3. /\ Keeps \in Int /\ Keeps >= MinPart + Down(Contents) /\ Keeps >= MinPart /\ Wanted \in Int /\ Wanted > 0
          /\ Keeps + Wanted <= Asked.size + Asked.need
      BY <3>1, KeepsIs DEF Taking
    <3>4. Userdata(first) >= MinPart + Down(Contents) /\ Userdata(first) >= MinPart
      BY <1>a, <3>2, <3>3
    <3> QED BY <2>n, <3>1, <3>3, <3>4
  <2>3. CASE CarveEnds
    <3>1. /\ request.kind = "wipe" /\ by = request.by /\ request'.kind = "reset" /\ pc' = "down" /\ first' = first
          /\ Userdata(first) = Keeps
      BY <1>0, <2>3 DEF CarveEnds, At, Goto, Stands, table
    <3>2. kind = "wipe" /\ Keeps >= MinPart
      BY <1>0, <3>1, KeepsIs DEF Taking, Asks, Kinds
    <3> QED BY <2>0, <2>n, <3>1, <3>2
  <2>4. CASE GapFirst
    <3>1. request.kind = "gap" /\ by = request.by
      BY <1>0, <2>4 DEF GapFirst, WritesFirst, At, Stands
    <3> QED BY <1>0, <2>0, <3>1 DEF Asks, Kinds, Taking
  <2> QED BY <2>n, <2>1, <2>2, <2>3, <2>4, RootSteps
<1> QED BY <1>1, <1>2, <1>3 DEF Keeping

-----------------------------------------------------------------------------
(* Old filesystems *)

\* Every step keeps old filesystems out of what gaps take.
LEMMA SparingNext ==
    ASSUME IInv, [Next]_vars
    PROVE  Sparing'
<1>0. Typed /\ Stands /\ Asks /\ Keeping /\ Sparing /\ Fresh /\ unlisted' = unlisted /\ Asked = records[request.by].plan
  BY Unlisted DEF IInv, Asked
<1> SUFFICES ASSUME \A t \in Txns : records'[t].plan.kind \notin Taking
             PROVE  /\ Marked(first)'
                    /\ root'.by \in Txns /\ records'[root'.by].plan.kind = "gap" => Sectors(Of(first', Root)) \cap unlisted = {}
  BY <1>0 DEF Sparing
<1>1. \A t \in Txns : records[t].plan.kind \notin Taking
  <2> SUFFICES ASSUME NEW t \in Txns PROVE records[t].plan.kind \notin Taking
    OBVIOUS
  <2>1. CASE records[t].state = "none"
    BY <1>0, <2>1 DEF Fresh, Founded, Taking
  <2>2. CASE records[t].state # "none"
    BY <2>2, RecordSteps
  <2> QED BY <2>1, <2>2
<1>2. request.kind \notin Taking
  BY <1>0, <1>1 DEF Asks, Kinds, Taking
<1>3. /\ Marked(first)
      /\ root.by \in Txns /\ records[root.by].plan.kind = "gap" => Sectors(Of(first, Root)) \cap unlisted = {}
  BY <1>0, <1>1 DEF Sparing
<1>4. \/ first' = first
      \/ /\ GapFirst /\ request.kind = "gap"
         /\ CanAddRoot(first, Asked.start, Asked.need) /\ first' = WithRoot(first, Asked.start, Asked.need)
      \/ RemoveFirst /\ removal.state = "armed" /\ first \in {removal.before, removal.after} /\ first' = removal.after
      \/ \E s \in First..Last : ForeignPartition(s)
  BY <1>2, FirstSteps DEF Taking
<1>5. Open(first') \subseteq Open(first)
  <2>1. ASSUME removal.state = "armed", first \in {removal.before, removal.after}, first' = removal.after
        PROVE  Open(first') \subseteq Open(first)
    <3>1. Open(removal.after) \subseteq Open(removal.before)
      BY <2>1 DEF IInv, Tabulated
    <3> QED BY <2>1, <3>1
  <2> QED BY <1>4, <2>1, GapWritten, ForeignAdded
<1>6. Marked(first)'
  BY <1>0, <1>3, <1>5 DEF Marked
<1>7. ASSUME root'.by \in Txns, records'[root'.by].plan.kind = "gap"
      PROVE  Sectors(Of(first', Root)) \cap unlisted = {}
  <2>0. records[root'.by].plan.kind = "gap" /\ ~RemoveFirst
    BY <1>7, RootedNext, TxnNames DEF RemoveFirst, NoRoot, NoTxn
  <2>1. CASE root'.by = root.by
    <3>1. Has(first, Root)
      BY <1>0, <1>7, <2>1 DEF Keeping
    <3>2. ~CanAddRoot(first, Asked.start, Asked.need)
      BY <3>1 DEF CanAddRoot
    <3>3. Of(first', Root) = Of(first, Root)
      BY <1>4, <2>0, <3>1, <3>2, ForeignAdded
    <3> QED BY <1>3, <1>7, <2>0, <2>1, <3>3
  <2>2. CASE GapFirst
    <3> DEFINE s == Asked.start
               n == Asked.need
    <3>1. /\ request.kind = "gap" /\ CanAddRoot(first, s, n)
          /\ first' = WithRoot(first, s, n)
      BY <2>2 DEF GapFirst, WritesFirst, At, IInv, Stands, Writing
    <3>2. s \in Int /\ n \in Int /\ Of(first', Root).start = s /\ Of(first', Root).end = s + n - 1
      BY <3>1, GapWritten
    <3>3. s \notin unlisted
      BY <1>0, <3>1 DEF Asks, Kinds, Fresh, Founded
    <3> HIDE DEF s, n
    <3>4. (s..(s + n - 1)) \cap unlisted = {}
      BY <1>3, <3>1, <3>2, <3>3, SparedIs DEF Marked
    <3> QED BY <3>2, <3>4 DEF Sectors
  <2>3. CASE Image \/ CarveEnds
    BY <1>0, <1>2, <2>3 DEF Image, CarveEnds, At, Stands, Taking
  <2> QED BY <1>7, <2>0, <2>1, <2>2, <2>3, RootSteps
<1> QED BY <1>6, <1>7

-----------------------------------------------------------------------------
(* What the record of an installation says *)

\* The first copy is edited where a request says so.
LEMMA AddSteps ==
    ASSUME IInv, [Next]_vars, pc' \in {"add", "add2"}
    PROVE  ResizeFirst \/ (pc \in {"add", "add2"} /\ UNCHANGED <<first, request>>)
<1>1. CASE Installs
  <2>1. ASSUME NEW t, NEW need, NEW asked, Plan(t, need, asked) PROVE FALSE
    BY <2>1 DEF Plan, Readable, At
  <2>2. ASSUME NEW t, Execute(t) PROVE FALSE
    BY <2>2 DEF Execute, Goto
  <2>3. ASSUME NEW t, Resume(t) PROVE FALSE
    BY <2>3 DEF Resume, At
  <2> QED BY <1>1, <2>1, <2>2, <2>3 DEF Installs
<1>2. CASE GapLast \/ GapFirst \/ GapStops \/ PlanRemoval \/ Arm
  BY <1>2 DEF GapLast, GapFirst, GapStops, PlanRemoval, Arm, WritesLast, WritesFirst, Goto, Readable, At
<1>3. CASE \/ Shrink \/ ResizeLast \/ AddFirst \/ Image
           \/ CarveLast \/ CarveFirst \/ CarveEnds \/ RemoveAsks \/ RemoveLast \/ RemoveFirst \/ RemoveEnds
           \/ Restart \/ RecoveryWipes \/ Stops
  BY <1>3 DEF Shrink, ResizeLast, AddFirst, Image, CarveLast, CarveFirst, CarveEnds,
     RemoveAsks, RemoveLast, RemoveFirst, RemoveEnds, Restart, RecoveryWipes, Stops, WritesLast, WritesFirst, Goto
<1>4. CASE Boot
  BY <1>4 DEF Boot
<1>5. CASE AddLast
  BY <1>5 DEF AddLast, WritesLast, At
<1>6. CASE (\E s \in First..Last : ForeignPartition(s)) \/ (\E t \in Txns : LoseBackup(t)) \/ UNCHANGED vars
  BY <1>6 DEF ForeignPartition, LoseBackup, Readable, At, vars, table
<1> QED BY <1>1, <1>2, <1>3, <1>4, <1>5, <1>6 DEF Next, OnAndroid, Initramfs, Around

\* An installation that begins was made from the table as it is.
LEMMA BegunAsRecorded ==
    ASSUME IInv, [Next]_vars, NEW t \in Txns, ~Ran(t), Ran(t)', Alone(t)'
    PROVE  AsRecorded(t)'
<1>0. Typed /\ Keeping
  BY DEF IInv
<1>1. Execute(t)
  BY RecordRuns DEF Ran
<1>2. /\ first' = first /\ root' = root /\ records'[t].original = first
      /\ request' = [kind |-> records[t].plan.kind, by |-> t] /\ pc' \in {"gap", "android"}
  BY <1>0, <1>1 DEF Execute, table, Goto, Typed, RecordType
<1>3. root'.by # t
  BY <1>0, <1>2 DEF Keeping
<1>4. ~Has(first', Root)
  BY <1>2 DEF Alone
<1> QED BY <1>2, <1>3, <1>4 DEF AsRecorded

\* A table that other programs leave alone after a step was left alone before it.
LEMMA AloneBefore ==
    ASSUME IInv, [Next]_vars, NEW t \in Txns, Ran(t), Alone(t)'
    PROVE  /\ Alone(t) /\ AsRecorded(t) /\ ~(\E s \in First..Last : ForeignPartition(s))
           /\ records'[t].plan = records[t].plan /\ records'[t].original = records[t].original
           /\ Sound(records[t].original)
<1> DEFINE old == records[t].original
<1>1. records'[t].plan = records[t].plan /\ records'[t].original = old
  BY RecordSteps DEF Ran
<1>2. unlisted' = unlisted
  BY Unlisted
<1>3. Sound(old) /\ Others(old, first)
  BY DEF IInv, Tabulated
<1>4. Has(first', "foreign") => Has(old, "foreign")
  BY <1>1 DEF Alone
<1>5. ASSUME NEW a, NEW b, Others(a, b), Has(a, "foreign") PROVE Has(b, "foreign")
  BY <1>5 DEF Has, Others, Root, Data
<1>6. Has(first, "foreign") => Has(first', "foreign")
  BY <1>5, TableSteps
<1>7. ~(\E s \in First..Last : ForeignPartition(s))
  BY <1>3, <1>4, <1>5, ForeignAdded
<1>8. Alone(t)
  BY <1>1, <1>2, <1>4, <1>6 DEF Alone
<1>9. AsRecorded(t)
  BY <1>8 DEF IInv, Explaining
<1> QED BY <1>1, <1>3, <1>7, <1>8, <1>9

\* Nothing is written.
LEMMA RecordedStays ==
    ASSUME IInv, [Next]_vars, NEW t \in Txns, Ran(t), Alone(t)', first' = first, ~ResizeFirst, ~GapFirst
    PROVE  AsRecorded(t)'
<1>0. Stands /\ Keeping /\ AsRecorded(t)
  BY AloneBefore DEF IInv
<1> DEFINE old == records[t].original
<1>1. records'[t].plan = records[t].plan /\ records'[t].original = old
  BY AloneBefore
<1>2. Explained(t)' <=> Explained(t)
  BY <1>1 DEF Explained
<1>3. root'.by = t => Explained(t)
  <2>1. CASE root'.by = root.by
    BY <1>0, <2>1 DEF AsRecorded
  <2>2. CASE Image \/ CarveEnds
    <3>1. request.kind \in Taking /\ Has(first, Root) /\ root'.by = request.by
      BY <1>0, <2>2 DEF Image, CarveEnds, At, Stands, Taking
    <3> QED BY <1>0, <3>1 DEF AsRecorded
  <2>3. CASE root' = NoRoot
    BY <2>3, TxnNames DEF NoRoot, NoTxn
  <2> QED BY <2>1, <2>2, <2>3, RootSteps
<1>4. ASSUME request'.by = t, request'.kind \in Taking
      PROVE  request' = request /\ Keeps' = Keeps
  <2>1. ASSUME NEW u \in Txns, Execute(u), request' = [kind |-> records[u].plan.kind, by |-> u] PROVE FALSE
    BY <1>4, <2>1 DEF Execute, Ran
  <2>2. request' = request
    BY <1>4, <2>1, RequestSteps DEF NoRequest, Taking
  <2> QED BY <1>4, <2>2, AskedStays DEF Kinds, Taking
<1>5. ASSUME request'.by = t, request'.kind \in Taking
      PROVE  /\ Has(first, Root) => Explained(t)
             /\ ~Has(first, Root) => first = old \/ (request'.kind = "shrink" /\ first = Resized(old, Keeps'))
  BY <1>0, <1>4, <1>5 DEF AsRecorded
<1>6. ASSUME request'.by = t, pc' \in {"add", "add2"}
      PROVE  first = Resized(old, Keeps')
  <2>1. pc \in {"add", "add2"} /\ request' = request
    BY <1>6, AddSteps
  <2>2. request.kind = "shrink"
    BY <1>0, <2>1 DEF Stands
  <2>3. Keeps' = Keeps
    BY <2>1, <2>2, AskedStays DEF Kinds
  <2> QED BY <1>0, <1>6, <2>1, <2>3 DEF AsRecorded
<1> QED BY <1>1, <1>2, <1>3, <1>5, <1>6 DEF AsRecorded

\* The first copy is written for a request.
LEMMA RecordedWritten ==
    ASSUME IInv, [Next]_vars, NEW t \in Txns, Ran(t), Alone(t)', GapFirst \/ ResizeFirst \/ AddFirst \/ CarveFirst
    PROVE  AsRecorded(t)'
<1> DEFINE old == records[t].original
<1>0. Typed /\ Stands /\ Writing /\ Asks /\ Keeping /\ AsRecorded(t) /\ Alone(t) /\ Sound(old) /\ Sound(first) /\ Sound(first')
  BY AloneBefore, TableSteps DEF IInv, Tabulated
<1>1. records'[t].plan = records[t].plan /\ records'[t].original = old
  BY AloneBefore
<1>2. ASSUME CanRestore(old, first'), Size(Of(first', Root)) = records[t].plan.need,
             GaveUp(old, first') \/ (records[t].plan.kind = "gap" /\ records[t].plan.start = Of(first', Root).start)
      PROVE  Explained(t)'
  <2>1. CanRestore(records'[t].original, first') /\ Size(Of(first', Root)) = records'[t].plan.need
    BY <1>1, <1>2
  <2>2. GaveUp(records'[t].original, first')
        \/ (records'[t].plan.kind = "gap" /\ records'[t].plan.start = Of(first', Root).start)
    BY <1>1, <1>2
  <2> QED BY <2>1, <2>2 DEF Explained
<1>3. CASE GapFirst
  <2>1. /\ request.kind = "gap" /\ first = records[request.by].original /\ CanAddRoot(first, Asked.start, Asked.need)
        /\ first' = WithRoot(first, Asked.start, Asked.need)
        /\ request'.kind = "none" /\ pc' = "android" /\ root'.by = request.by
    BY <1>0, <1>3 DEF GapFirst, WritesFirst, At, Goto, Stands, Writing, NoRequest
  <2>2. ASSUME request.by = t PROVE Explained(t)'
    <3> DEFINE s == Asked.start
               n == Asked.need
    <3>1. s \in Int /\ n \in Int /\ CanAddRoot(old, s, n) /\ first' = WithRoot(old, s, n)
      BY <2>1, <2>2, GapWritten
    <3>2. records[t].plan.kind = "gap" /\ records[t].plan.start = s /\ records[t].plan.need = n
      BY <1>0, <2>1, <2>2 DEF Asks, Kinds, Asked
    <3> HIDE DEF s, n
    <3>3. CanRestore(old, first') /\ Size(Of(first', Root)) = n /\ Of(first', Root).start = s
      BY <1>0, <3>1, GapExplained
    <3> QED BY <1>2, <3>2, <3>3
  <2> QED BY <2>1, <2>2 DEF AsRecorded, Taking
<1>4. ASSUME ~Has(first, Root), root' = root PROVE root'.by # t
  BY <1>0, <1>4 DEF Keeping
<1>5. CASE ResizeFirst
  <2>1. /\ pc = "resize2" /\ request.kind = "shrink" /\ CanResize(first, Keeps) /\ first' = Resized(first, Keeps)
        /\ request' = request /\ root' = root /\ ~Has(first, Root)
    BY <1>0, <1>5 DEF ResizeFirst, WritesFirst, At, Stands, Writing
  <2>2. Keeps' = Keeps
    BY <2>1, AskedStays DEF Kinds
  <2>3. ~Has(first', Root)
    BY <2>1, ShrinkWritten
  <2>4. ASSUME request.by = t PROVE first' = Resized(old, Keeps)
    <3> DEFINE k == Keeps
    <3>1. k \in Int /\ k > 0
      BY <2>1, KeepsIs DEF Taking
    <3>2. first = old \/ first = Resized(old, k)
      BY <1>0, <2>1, <2>4 DEF AsRecorded, Taking
    <3>3. first' = Resized(first, k)
      BY <2>1
    <3> HIDE DEF k
    <3>4. first' = Resized(old, k)
      BY <1>0, <3>1, <3>2, <3>3, ResizedTwice
    <3> QED BY <3>4 DEF k
  <2> QED BY <1>1, <1>4, <2>1, <2>2, <2>3, <2>4 DEF AsRecorded
<1>6. ASSUME request.kind \in Taking, ~Has(first, Root), root' = root, request' = request, Has(first', Root),
             pc' \notin {"add", "add2"}, request.by = t => Explained(t)'
      PROVE  AsRecorded(t)'
  BY <1>4, <1>6 DEF AsRecorded
<1>7. CASE AddFirst
  <2>1. /\ pc = "add2" /\ request.kind = "shrink" /\ CanAllocate(first, Wanted) /\ first' = Allocated(first, Wanted)
        /\ request' = request /\ root' = root /\ ~Has(first, Root) /\ pc' = "image"
    BY <1>0, <1>7 DEF AddFirst, WritesFirst, At, Goto, Stands, Writing
  <2>2. Has(first', Root)
    BY <2>1, RootAllocated
  <2>3. ASSUME request.by = t PROVE Explained(t)'
    <3> DEFINE k == Keeps
               w == Wanted
    <3>1. /\ k \in Int /\ k > 0 /\ k % Align = 0 /\ w \in Int /\ w > 0 /\ w % Align = 0
          /\ k = Down(Size(Of(old, Data))) - w /\ k + w <= Size(Of(old, Data)) /\ Size(Of(old, Data)) \in Int
      BY <1>0, <2>1, <2>3, KeepsIs, UserdataIs DEF Taking, Userdata
    <3>2. first = Resized(old, k) /\ CanAllocate(first, w) /\ first' = Allocated(first, w)
      BY <1>0, <2>1, <2>3 DEF AsRecorded
    <3>3. records[t].plan.need = w /\ records[t].plan.kind = "shrink" /\ records[t].state = "run"
      BY <1>0, <2>1, <2>3 DEF Asks, Kinds, Asked, Wanted
    <3>4. unlisted = {} /\ Of(old, Data).start % Align = 0
      BY <1>0 DEF Alone
    <3>5. Fitting(Gaps(old), w) = {} \/ Unused(old) = {}
      BY <3>3, <3>4 DEF IInv, Fresh, Founded, Taking
    <3> HIDE DEF k, w
    <3>6. k <= Size(Of(old, Data))
      BY <3>1
    <3>7. CanRestore(old, first') /\ GaveUp(old, first') /\ Size(Of(first', Root)) = w
      BY <1>0, <3>1, <3>2, <3>4, <3>5, <3>6, ShrinkExplained
    <3> QED BY <1>2, <3>3, <3>7
  <2> QED BY <1>6, <2>1, <2>2, <2>3 DEF Taking
<1>8. CASE CarveFirst
  <2>1. /\ request.kind = "wipe" /\ CanCarve(first, Keeps, Wanted, Asked.size + Asked.need)
        /\ first' = Carved(first, Keeps, Wanted)
        /\ request' = request /\ root' = root /\ ~Has(first, Root) /\ pc' = "carved"
    BY <1>0, <1>8 DEF CarveFirst, WritesFirst, At, Goto, Stands, Writing
  <2>2. Has(first', Root)
    BY <2>1, RootCarved
  <2>3. ASSUME request.by = t PROVE Explained(t)'
    <3> DEFINE k == Keeps
               w == Wanted
               p == Asked.size + Asked.need
    <3>1. k \in Int /\ w \in Int /\ w % Align = 0 /\ k = Down(Size(Of(old, Data))) - w
      BY <2>1, <2>3, KeepsIs DEF Taking, Userdata
    <3>2. first = old /\ CanCarve(first, k, w, p) /\ first' = Carved(first, k, w)
      BY <1>0, <2>1, <2>3 DEF AsRecorded, Taking
    <3>3. records[t].plan.need = w
      BY <2>3 DEF Asked, Wanted
    <3> HIDE DEF k, w, p
    <3>4. CanRestore(old, first') /\ GaveUp(old, first') /\ Size(Of(first', Root)) = w
      BY <1>0, <3>1, <3>2, CarveExplained
    <3> QED BY <1>2, <3>3, <3>4
  <2> QED BY <1>6, <2>1, <2>2, <2>3 DEF Taking
<1> QED BY <1>3, <1>5, <1>7, <1>8

\* Every step keeps the table as the record says, for whoever was alone.
LEMMA ExplainingNext ==
    ASSUME IInv, [Next]_vars
    PROVE  Explaining'
<1> SUFFICES ASSUME NEW t \in Txns, Ran(t)', Alone(t)' PROVE AsRecorded(t)'
  BY DEF Explaining
<1>1. CASE ~Ran(t)
  BY <1>1, BegunAsRecorded
<1>2. CASE Ran(t)
  <2>1. CASE GapFirst \/ ResizeFirst \/ AddFirst \/ CarveFirst
    BY <1>2, <2>1, RecordedWritten
  <2>2. CASE RemoveFirst
    <3>1. pc = "remove2" /\ root' = NoRoot /\ request' = request /\ pc' = "removed"
      BY <2>2 DEF RemoveFirst, WritesFirst, At, Goto
    <3>2. request'.kind \in {"reset", "remove"} /\ root'.by # t
      BY <3>1, TxnNames DEF IInv, Stands, NoRoot, NoTxn
    <3> QED BY <3>1, <3>2 DEF AsRecorded, Taking
  <2>3. CASE first' = first /\ ~ResizeFirst /\ ~GapFirst
    BY <1>2, <2>3, RecordedStays
  <2> QED BY <1>2, <2>1, <2>2, <2>3, FirstSteps, AloneBefore
<1> QED BY <1>1, <1>2

-----------------------------------------------------------------------------
(* The theorems *)

\* The invariant holds when a phone is as its vendor left it.
LEMMA Begins ==
    ASSUME Init
    PROVE  IInv
<1>1. Sound(first) /\ ~Has(first, Root) /\ last = first /\ kernel = first
  <2>1. FactoryTable(first) /\ last = first /\ kernel = first
    BY FactoryAssumption DEF Init
  <2>2. OneRoot(first)
    BY <2>1 DEF FactoryTable, OneRoot, Has
  <2> QED BY <2>1, <2>2 DEF FactoryTable, Sound
<1>2. /\ root = NoRoot /\ pc = "android" /\ request = NoRequest /\ encrypted \in BOOLEAN
      /\ records = [t \in Txns |-> NoRecord] /\ removal = NoRemoval /\ prompt = NoEvidence
  BY DEF Init
<1>3. unlisted \subseteq First..Last /\ Marked(first)
  <2>1. CASE unlisted = {}
    BY <2>1 DEF Marked
  <2>2. ASSUME NEW g \in Gaps(first), unlisted = {g.start} PROVE unlisted \subseteq First..Last /\ Marked(first)
    <3>1. g.start \in Int /\ g.size \in Int /\ g.size > 0 /\ g.start..(g.start + g.size - 1) \subseteq Free(first)
      BY <2>2, GapIs
    <3>2. g.start \in Free(first)
      BY <3>1
    <3>3. g.start \in First..Last
      BY <3>2 DEF Free
    <3>4. \A s \in First..(g.start - 1) : s % Align = 0 => ~(s..g.start \subseteq Open(first))
      BY <1>1, GapBegins
    <3> QED BY <2>2, <3>3, <3>4 DEF Marked
  <2> QED BY <2>1, <2>2 DEF Init
<1>4. \A t \in Txns : records[t] = NoRecord
  BY <1>2
<1>5. NoRecord.state = "none" /\ NoRecord.plan.kind = "none" /\ NoRecord.intact = FALSE /\ NoRecord \in RecordType
  BY NothingTyped DEF NoRecord, NoPlan, RecordType
<1>6. NoEvidence \in EvidenceType
  BY NothingTyped DEF NoEvidence, EvidenceType
<1>7. NoRemoval \in RemovalType /\ NoRemoval.state = "none" /\ NoRemoval.action = "none"
  BY <1>6, NothingTyped DEF NoRemoval, RemovalType, NoTxn
<1>8. NoRequest \in RequestType /\ NoRequest.kind = "none" /\ NoRoot.state = "none" /\ NoRoot.by \notin Txns
  BY TxnNames DEF NoRequest, RequestType, NoTxn, NoRoot
<1>9. fs \in Nat /\ fs <= Userdata(first)
  <2>1. Userdata(first) \in Nat
    BY <1>1, UserdataIs DEF Userdata
  <2>2. fs \in 0..Userdata(first)
    BY DEF Init
  <2> QED BY <2>1, <2>2
<1>10. Typed
  <2>1. records \in [Txns -> RecordType]
    BY <1>2, <1>5
  <2>2. first \in Tables
    BY <1>1 DEF Sound
  <2> QED BY <1>1, <1>2, <1>3, <1>6, <1>7, <1>8, <1>9, <2>1, <2>2, NothingTyped DEF Typed, Places
<1>11. Tabulated /\ Fresh
  BY <1>1, <1>2, <1>4, <1>5, <1>7 DEF Tabulated, Fresh, Founded, Ran
<1>12. Asks /\ Stands /\ Writing
  BY <1>1, <1>2, <1>7, <1>8 DEF Asks, Stands, Writing, Kinds
<1>13. Fits /\ Keeping
  BY <1>2, <1>8, <1>9 DEF Fits, Keeping
<1>14. Sparing /\ Explaining
  BY <1>2, <1>3, <1>4, <1>5, <1>8 DEF Sparing, Explaining, Ran
<1> QED BY <1>10, <1>11, <1>12, <1>13, <1>14 DEF IInv

\* The inductive invariant holds whatever is installed, removed, restarted, stopped or added by
\* others on one phone, for any number of installations, sizes and slots.
THEOREM StorageInvariant == Spec => []IInv
<1>1. Init => IInv
  BY Begins
<1>2. IInv /\ [Next]_vars => IInv'
  BY TypedNext, TabulatedNext, FreshNext, AsksNext, StandsNext, FitsNext, KeepingNext, SparingNext, ExplainingNext DEF IInv
<1> QED BY <1>1, <1>2, PTL DEF Spec

\* Every variable holds what its declaration says.
THEOREM StorageTypes == Spec => []TypeOK
<1>1. IInv => TypeOK
  BY DEF IInv, Typed, TypeOK, RootType, Places, RequestType, Kinds, RecordType, RemovalType
<1> QED BY <1>1, StorageInvariant, PTL

\* Android keeps its data and room for it, its filesystem is never cut by an edit that did not
\* ask, every copy of the table is a table, and a root put into a gap does not cover what an old
\* filesystem marks: for every layout, size, and order of installations, stops and restarts.
THEOREM DataKept == Spec => []AndroidKeepsItsData
<1>1. IInv => TablesValid
  BY DEF IInv, Tabulated, Sound, TablesValid
<1>2. IInv => FileSystemFits
  BY DEF IInv, Fits, FileSystemFits
<1>3. ASSUME IInv PROVE AndroidKeepsRoom
  BY <1>3 DEF IInv, Asks, Keeping, Taking, AndroidKeepsRoom
<1>4. ASSUME IInv PROVE GapSparesUnlisted
  BY <1>4 DEF IInv, Sparing, Taking, GapSparesUnlisted
<1>5. IInv => AndroidKeepsItsData
  BY <1>1, <1>2, <1>3, <1>4 DEF AndroidKeepsItsData
<1> QED BY <1>5, StorageInvariant, PTL

\* A system whose record is intact can be removed by it, if nobody else changed the table.
LEMMA RemovableAlways ==
    ASSUME IInv
    PROVE  Removable
<1> SUFFICES ASSUME NEW t \in Txns, root = [state |-> "installed", by |-> t], records[t].intact, unlisted = {},
                    Of(records[t].original, Data).start % Align = 0, ~Has(records[t].original, Root),
                    Has(first, "foreign") => Has(records[t].original, "foreign")
             PROVE  Matches(t)
  BY DEF Removable
<1>1. Ran(t) /\ root.by = t
  BY DEF IInv, Fresh
<1>2. Explained(t)
  BY <1>1 DEF IInv, Explaining, Alone, AsRecorded
<1>3. Sound(records[t].original) /\ Sound(first)
  BY <1>1 DEF IInv, Tabulated
<1>4. CanRestore(records[t].original, first)
  BY <1>2 DEF Explained
<1>5. Restored(records[t].original, first) = records[t].original
  BY <1>3, <1>4, RestoredIs
<1>6. Valid(Restored(records[t].original, first))
  BY <1>3, <1>5 DEF Sound
<1> QED BY <1>2, <1>6 DEF Explained, Matches

\* A removal that ends leaves the saved table.
LEMMA RestoresAtLast ==
    ASSUME IInv, [Next]_vars, removal.state = "armed", removal'.state = "done", removal.by \in Txns
    PROVE  first' = records[removal.by].original /\ last' = first'
<1>1. ~PlanRemoval
  BY RemovalPlanned
<1>2. RemoveEnds
  BY <1>1, RemovalKept
<1>3. UNCHANGED <<first, last>> /\ first = removal.after /\ last = removal.after
  BY <1>2 DEF RemoveEnds, At, table, IInv, Stands
<1>4. removal.after = records[removal.by].original
  BY DEF IInv, Tabulated
<1> QED BY <1>3, <1>4

\* A removal erases what its user was shown, leaves the table the installation found, and at no
\* step, of an installation or of a removal, does the entry of somebody else change.
THEOREM RemovedAsShown == Spec => RemovesAsShown
<1>1. IInv => Removable /\ ErasesAsShown
  BY RemovableAlways DEF IInv, Asks, ErasesAsShown
<1>2. ASSUME IInv, [Next]_vars PROVE [\A i \in Slots : first[i].name \notin {"none", Root, Data} => first'[i] = first[i]]_vars
  BY <1>2, TableSteps DEF Others
<1>3. ASSUME IInv, [Next]_vars
      PROVE  [removal.state = "armed" /\ removal'.state = "done" /\ removal.by \in Txns =>
                 first' = records[removal.by].original /\ last' = first']_vars
  BY <1>3, RestoresAtLast
<1>4. Spec => [](Removable /\ ErasesAsShown)
  BY <1>1, StorageInvariant, PTL
<1>5. Spec => OthersStay
  BY <1>2, StorageInvariant, PTL DEF Spec, OthersStay
<1>6. Spec => RemovalRestores
  BY <1>3, StorageInvariant, PTL DEF Spec, RemovalRestores
<1> QED BY <1>4, <1>5, <1>6 DEF RemovesAsShown

-----------------------------------------------------------------------------
(* Journals *)

\* Snapshots is about the same tables as Partitions: its names,
LEMMA SameNames == Saved!Root = Root /\ Saved!Data = Data /\ Saved!Empty = Empty /\ Saved!Tables = Tables
  BY DEF Saved!Root, Root, Saved!Data, Data, Saved!Empty, Empty, Saved!Tables, Tables, Saved!Entry, Entry, Saved!Names, Names

\* its entries,
LEMMA SameSlots ==
    ASSUME NEW t, NEW name
    PROVE  /\ Saved!Has(t, name) = Has(t, name) /\ Saved!SlotOf(t, name) = SlotOf(t, name) /\ Saved!Of(t, name) = Of(t, name)
           /\ Saved!Single(t, name) = Single(t, name)
  BY DEF Saved!Has, Has, Saved!SlotOf, SlotOf, Saved!Of, Of, Saved!Single, Single

\* its tables,
LEMMA SameValid == ASSUME NEW t PROVE Saved!Valid(t) = Valid(t)
  BY SameNames DEF Saved!Valid, Valid, Saved!NoOverlap, NoOverlap, Saved!Disjoint, Disjoint, Saved!Used, Used

\* its gaps,
LEMMA SameGaps == ASSUME NEW t PROVE Saved!Gaps(t) = Gaps(t)
  BY SameNames DEF Saved!Gaps, Gaps, Saved!Holes, Holes, Saved!Free, Free, Saved!Used, Used, Saved!Sectors, Sectors, Saved!Up, Up, Saved!Down, Down

\* its removal without a record,
LEMMA SameRemoved ==
    ASSUME NEW t
    PROVE  /\ Saved!Follows(t) = Follows(t) /\ Saved!Removed(t) = Removed(t) /\ Saved!CanRemove(t) = CanRemove(t)
<1>1. Saved!Follows(t) = Follows(t)
  BY SameNames, SameSlots DEF Saved!Follows, Follows
<1>2. Saved!Removed(t) = Removed(t)
  BY <1>1, SameNames, SameSlots DEF Saved!Removed, Removed
<1>3. Saved!CanRemove(t) = CanRemove(t)
  BY SameNames, SameSlots DEF Saved!CanRemove, CanRemove, Saved!Size, Size
<1> QED BY <1>1, <1>2, <1>3

\* and its removal by one.
LEMMA SameRestored ==
    ASSUME NEW o, NEW t
    PROVE  /\ Saved!GaveUp(o, t) = GaveUp(o, t) /\ Saved!Restored(o, t) = Restored(o, t) /\ Saved!CanRestore(o, t) = CanRestore(o, t)
<1>1. Saved!GaveUp(o, t) = GaveUp(o, t)
  BY SameNames, SameSlots DEF Saved!GaveUp, GaveUp
<1>2. Saved!Restored(o, t) = Restored(o, t)
  BY <1>1, SameNames, SameSlots DEF Saved!Restored, Restored
<1>3. Saved!CanRestore(o, t) = CanRestore(o, t)
  <2>1. Saved!FromUserdata(o, t) = FromUserdata(o, t)
    BY SameNames, SameSlots DEF Saved!FromUserdata, FromUserdata, Saved!Size, Size, Saved!Down, Down
  <2>2. Saved!FromGap(o, t) = FromGap(o, t)
    BY SameNames, SameSlots, SameGaps DEF Saved!FromGap, FromGap
  <2> QED BY <1>1, <2>1, <2>2, SameNames, SameSlots DEF Saved!CanRestore, CanRestore
<1> QED BY <1>1, <1>2, <1>3

\* The journals have tables, a version, and what else a record has.
Fields == {"version", "action", "authorized", "shown", "encrypted", "evidence", "before", "after", "geometry", "sums"}

Recorded(r) == /\ DOMAIN r = Fields /\ r = [f \in Fields |-> r[f]]
               /\ r.version \in 1..3 /\ r.before \in Tables /\ r.after \in Tables

\* What a user may decide, by what the tables say.
LEMMA ActionsAgree ==
    ASSUME NEW grows \in BOOLEAN, NEW action \in Saved!Actions(grows)
    PROVE  /\ action \in {"gap", "reset", "grow"} /\ (action = "gap") = ~grows
           /\ action = "grow" => ~encrypted
  BY DEF Saved!Actions

\* A saved table that explains the root is a table with userdata and no root.
LEMMA OriginalIs ==
    ASSUME NEW old \in Tables, NEW now \in Tables, Valid(old), Valid(now), CanRestore(old, now)
    PROVE  /\ Sound(now) /\ Sound(old) /\ ~Has(old, Root) /\ Restored(old, now) = old
<1>1. Sound(now)
  BY DEF CanRestore, Sound, Single, OneRoot
<1>2. \A i \in Slots : old[i].name # Root
  <2>1. \A i \in Slots : now[i].name = Root => i = SlotOf(now, Root)
    BY SingleIs DEF CanRestore
  <2>2. old[SlotOf(now, Data)].name = Data
    BY SingleIs DEF CanRestore
  <2> QED BY <2>1, <2>2 DEF CanRestore, Empty, Root, Data
<1>3. Sound(old)
  BY <1>2 DEF CanRestore, Sound, OneRoot
<1> QED BY <1>1, <1>3, RestoredIs

\* A plan made from a saved table is accepted as it was made: by the present program, and by
\* the one before it.
LEMMA OwnRestoreAccepted ==
    ASSUME disk \in Tables, Valid(disk), NEW old \in Tables, Valid(old), CanRestore(old, disk),
           NEW version \in {1, 2}, NEW action,
           version = 2 => action \in Saved!Actions(GaveUp(old, disk))
    PROVE  LET r == Saved!Journal(version, Restored(old, disk), GaveUp(old, disk), action)
           IN  Recorded(r) /\ r.version = version /\ Saved!Accepts(r)
<1> DEFINE grows == GaveUp(old, disk)
           r == Saved!Journal(version, Restored(old, disk), grows, action)
<1>1. Sound(old) /\ ~Has(old, Root) /\ Restored(old, disk) = old /\ grows \in BOOLEAN
  BY OriginalIs DEF GaveUp
<1>2. /\ Recorded(r) /\ r.version = version /\ r.before = disk /\ r.after = old /\ r.sums = TRUE
      /\ r.action = action /\ r.authorized = (action = "reset") /\ r.encrypted = encrypted
      /\ r.geometry = Saved!Geometry(disk, old)
      /\ r.shown.wipe = (IF version = 1 THEN grows ELSE action = "reset") /\ r.shown.action = action
  <2> HIDE DEF grows
  <2> DEFINE j == Saved!Journal(version, old, grows, action)
  <2>1. r = j
    BY <1>1
  <2>2. /\ Recorded(j) /\ j.version = version /\ j.before = disk /\ j.after = old /\ j.sums = TRUE
        /\ j.action = action /\ j.authorized = (action = "reset") /\ j.encrypted = encrypted
        /\ j.geometry = Saved!Geometry(disk, old)
        /\ j.shown.wipe = (IF version = 1 THEN grows ELSE action = "reset") /\ j.shown.action = action
    BY <1>1, SameNames DEF Saved!Journal, Recorded, Fields
  <2> HIDE DEF r, j
  <2> QED BY <2>1, <2>2
<1> HIDE DEF r
<1>3. Saved!Calculated(r) = {old}
  <2>1. ~Saved!Has(old, Saved!Root) /\ Saved!Valid(old) /\ Saved!CanRestore(old, disk) /\ Saved!Restored(old, disk) = old
    BY <1>1, SameNames, SameSlots, SameValid, SameRestored
  <2> QED BY <1>2, <2>1 DEF Saved!Calculated
<1>4. Saved!Grows(r) = grows
  BY <1>2, SameRestored DEF Saved!Grows
<1>5. Saved!DataActionAgrees(r) /\ Saved!EvidenceComplete(r)
  <2> HIDE DEF grows
  <2>1. CASE version = 1
    BY <1>2, <2>1 DEF Saved!DataActionAgrees, Saved!EvidenceComplete
  <2>2. CASE version = 2
    <3>1. /\ action \in {"gap", "reset", "grow"} /\ (action = "gap") = ~grows
          /\ action = "grow" => ~encrypted
      BY <1>1, <2>2, ActionsAgree DEF grows
    <3> QED BY <1>2, <1>4, <2>2, <3>1 DEF Saved!DataActionAgrees, Saved!EvidenceComplete
  <2> QED BY <2>1, <2>2
<1>6. Saved!Wipes(r) = r.shown.wipe
  BY <1>2, <1>4 DEF Saved!Wipes
<1>7. Saved!Valid(disk) /\ Saved!Valid(old)
  BY SameValid
<1> HIDE DEF grows
<1>8. Saved!Accepts(r)
  BY <1>2, <1>3, <1>5, <1>6, <1>7 DEF Saved!Accepts
<1> QED BY <1>2, <1>8 DEF r, grows

\* So is a plan made from the phone alone.
LEMMA OwnRemovalAccepted ==
    ASSUME disk \in Tables, Valid(disk), CanRemove(disk), NEW action \in Saved!Actions(Saved!Expands(disk))
    PROVE  LET r == Saved!Journal(3, Removed(disk), Saved!Expands(disk), action)
           IN  Recorded(r) /\ r.version = 3 /\ Saved!Accepts(r)
<1> DEFINE grows == Saved!Expands(disk)
           r == Saved!Journal(3, Removed(disk), grows, action)
<1>1. Sound(disk)
  BY DEF CanRemove, Sound, Single, OneRoot
<1>2. Removed(disk) \in Tables /\ Valid(Removed(disk)) /\ grows \in BOOLEAN
  BY <1>1, RemovedLayout DEF Saved!Expands
<1>3. /\ Recorded(r) /\ r.version = 3 /\ r.before = disk /\ r.after = Removed(disk) /\ r.sums = TRUE
      /\ r.action = action /\ r.authorized = (action = "reset") /\ r.encrypted = encrypted /\ r.evidence = TRUE
      /\ r.geometry = Saved!Geometry(disk, Removed(disk))
      /\ r.shown.wipe = (action = "reset") /\ r.shown.action = action /\ ~r.shown.source
      /\ r.shown.released = (IF ~grows THEN Saved!Size(Saved!Of(disk, Root)) ELSE 0)
  <2> HIDE DEF grows
  <2>1. Recorded(r)
    BY <1>2, SameNames DEF Saved!Journal, Recorded, Fields
  <2>2. /\ r.version = 3 /\ r.before = disk /\ r.after = Removed(disk) /\ r.sums = TRUE
        /\ r.action = action /\ r.authorized = (action = "reset") /\ r.encrypted = encrypted /\ r.evidence = TRUE
        /\ r.geometry = Saved!Geometry(disk, Removed(disk))
    BY DEF Saved!Journal
  <2>3. r.shown.action = action
    BY DEF Saved!Journal
  <2>6. ~r.shown.source
    <3>1. ASSUME NEW v, v # 2
          PROVE  Saved!Journal(v, Removed(disk), grows, action).shown.source = FALSE
      BY <1>2, <3>1 DEF Saved!Journal
    <3>2. 3 # 2
      OBVIOUS
    <3>3. Saved!Journal(3, Removed(disk), grows, action).shown.source = FALSE
      BY <3>1, <3>2, Zenon
    <3> QED BY <3>3, Zenon
  <2>5. r.shown.wipe = (action = "reset")
    BY <1>2 DEF Saved!Journal
  <2>4. r.shown.released = (IF ~grows THEN Saved!Size(Saved!Of(disk, Root)) ELSE 0)
    BY SameNames DEF Saved!Journal
  <2> HIDE DEF r
  <2> QED BY <2>1, <2>2, <2>3, <2>4, <2>5, <2>6
<1> HIDE DEF r
<1>4. Saved!Calculated(r) = {Removed(disk)}
  <2>1. Saved!Valid(Removed(disk)) /\ Saved!CanRemove(disk) /\ Saved!Removed(disk) = Removed(disk)
    BY <1>2, SameValid, SameRemoved
  <2> QED BY <1>3, <2>1 DEF Saved!Calculated
<1>5. Saved!Grows(r) = grows
  BY <1>3 DEF Saved!Grows
<1>6. /\ action \in {"gap", "reset", "grow"} /\ (action = "gap") = ~grows
      /\ action = "grow" => ~encrypted
  BY <1>2, ActionsAgree
<1> HIDE DEF grows
<1>7. Saved!DataActionAgrees(r)
  BY <1>3, <1>5, <1>6 DEF Saved!DataActionAgrees
<1>8. Saved!EvidenceComplete(r)
  BY <1>3, <1>5, SameNames DEF Saved!EvidenceComplete
<1>9. Saved!Wipes(r) = r.shown.wipe
  BY <1>3 DEF Saved!Wipes
<1>10. Saved!Valid(disk) /\ Saved!Valid(Removed(disk))
  BY <1>2, SameValid
<1>11. Saved!Accepts(r)
  BY <1>3, <1>4, <1>7, <1>8, <1>9, <1>10 DEF Saved!Accepts
<1> QED BY <1>3, <1>11 DEF r, grows

\* What is accepted takes the root away and leaves the rest as it is; userdata changes by the
\* root's sectors, and only in a removal that counts it as grown.
LEMMA AcceptedIs ==
    ASSUME NEW r, Recorded(r), Saved!Accepts(r)
    PROVE  /\ ~Has(r.after, Root) /\ Valid(r.after)
           /\ \A i \in Slots : r.before[i].name \notin {Root, Data} => r.after[i] = r.before[i]
           /\ LET now == Of(r.before, Data)
                  then == Of(r.after, Data)
                  gone == Of(r.before, Root)
              IN  /\ then.start = now.start /\ then.end >= now.end
                  /\ then.end > now.end => now.end + 1 = gone.start /\ then.end - gone.end \in 0..(Align - 1)
                  /\ ~Saved!Grows(r) => then = now
<1> DEFINE b == r.before
           a == r.after
<1>1. b \in Tables /\ a \in Tables /\ Valid(b) /\ r.version \in 1..3 /\ Saved!Calculated(r) = {a}
  BY SameValid DEF Recorded, Saved!Accepts
<1>2. CASE r.version = 3
  <2>1. CanRemove(b) /\ Removed(b) = a
    BY <1>1, <1>2, SameRemoved DEF Saved!Calculated
  <2>2. Sound(b)
    BY <1>1, <2>1 DEF CanRemove, Sound, Single, OneRoot
  <2>3. /\ ~Has(a, Root) /\ Valid(a)
        /\ \A i \in Slots : b[i].name \notin {Root, Data} => a[i] = b[i]
        /\ Of(a, Data) = [Of(b, Data) EXCEPT !.end = IF Follows(b) THEN Of(b, Root).end ELSE Of(b, Data).end]
    BY <2>1, <2>2, RemovedLayout
  <2>4. /\ Of(b, Data) \in Entry /\ Of(b, Data).start \in Int /\ Of(b, Data).end \in Int
        /\ Of(b, Root).start \in Int /\ Of(b, Root).end \in Int /\ Of(b, Root).start <= Of(b, Root).end
    BY <2>1, <2>2, UserdataIs, RootEntryIs, SingleIs DEF CanRemove
  <2>5. Saved!Grows(r) <=> Follows(b)
    BY <1>2, <2>4, SameNames, SameSlots DEF Saved!Grows, Saved!Expands, Follows
  <2>6. CASE Follows(b)
    <3>1. Of(a, Data).start = Of(b, Data).start /\ Of(a, Data).end = Of(b, Root).end
      BY <2>3, <2>4, <2>6 DEF Entry
    <3>2. Of(b, Root).start = Of(b, Data).end + 1
      BY <2>6 DEF Follows
    <3> HIDE DEF b, a
    <3>3. Of(a, Data).end >= Of(b, Data).end /\ Of(a, Data).end - Of(b, Root).end \in 0..(Align - 1)
      BY <2>4, <3>1, <3>2, AlignAssumption
    <3> QED BY <2>3, <2>5, <2>6, <3>1, <3>2, <3>3 DEF a, b
  <2>7. CASE ~Follows(b)
    <3>1. Of(a, Data) = Of(b, Data)
      BY <2>3, <2>4, <2>7 DEF Entry
    <3>2. Of(b, Data).end <= Of(b, Data).end /\ ~(Of(b, Data).end < Of(b, Data).end)
      BY <2>4
    <3> HIDE DEF b, a
    <3> QED BY <2>3, <3>1, <3>2 DEF b, a
  <2> QED BY <2>6, <2>7
<1>3. CASE r.version # 3
  <2>1. CanRestore(a, b) /\ Restored(a, b) = a /\ Valid(a) /\ ~Has(a, Root)
    BY <1>1, <1>3, SameNames, SameSlots, SameValid, SameRestored DEF Saved!Calculated
  <2>2. Sound(b)
    BY <1>1, <2>1, OriginalIs
  <2>3. /\ \A i \in Slots : b[i].name \notin {Root, Data} => a[i] = b[i]
        /\ Of(a, Data) = [Of(b, Data) EXCEPT !.end = Of(a, Data).end]
        /\ Of(a, Data).start = Of(b, Data).start /\ Of(a, Data).end \in Int
        /\ ~GaveUp(a, b) => Of(a, Data).end = Of(b, Data).end
        /\ GaveUp(a, b) => /\ Of(b, Data).end + 1 = Of(b, Root).start
                           /\ Of(a, Data).end - Of(b, Root).end \in 0..(Align - 1)
    BY <1>1, <2>1, <2>2, RestoredLayout
  <2>4. /\ Of(b, Data) \in Entry /\ Of(b, Data).start \in Int /\ Of(b, Data).end \in Int
    BY <2>2, UserdataIs
  <2>5. Saved!Grows(r) <=> GaveUp(a, b)
    BY <1>3, SameRestored DEF Saved!Grows, GaveUp
  <2>6. Of(a, Data).end >= Of(b, Data).end
    BY <2>3, <2>4 DEF GaveUp
  <2>7. Of(a, Data).end > Of(b, Data).end => GaveUp(a, b)
    BY DEF GaveUp
  <2>8. ~GaveUp(a, b) => Of(a, Data) = Of(b, Data)
    BY <2>3, <2>4 DEF Entry
  <2> HIDE DEF a, b
  <2> QED BY <2>1, <2>3, <2>5, <2>6, <2>7, <2>8 DEF a, b
<1> QED BY <1>2, <1>3

\* And its user agreed, or the data was found to be such that it can grow.
LEMMA AcceptedAsAgreed ==
    ASSUME NEW r, Recorded(r), Saved!Accepts(r)
    PROVE  /\ Of(r.after, Data) # Of(r.before, Data) => r.shown.wipe \/ r.action = "grow"
           /\ r.version # 1 /\ r.action = "reset" => r.shown.wipe /\ r.authorized
<1>1. r.version \in 1..3 /\ Saved!DataActionAgrees(r) /\ r.shown.wipe = Saved!Wipes(r)
  BY DEF Saved!Accepts
<1>2. Of(r.after, Data) # Of(r.before, Data) => Saved!Grows(r)
  BY AcceptedIs
<1>3. CASE r.version = 1
  BY <1>1, <1>2, <1>3 DEF Saved!Wipes
<1>4. CASE r.version >= 2
  <2>1. r.action \in {"gap", "reset", "grow"} /\ (r.action = "gap") = ~Saved!Grows(r) /\ r.authorized = (r.action = "reset")
    BY <1>1, <1>4 DEF Saved!DataActionAgrees
  <2>2. r.shown.wipe = (r.action = "reset")
    BY <1>1, <1>4 DEF Saved!Wipes
  <2>3. Saved!Grows(r) => r.action # "gap"
    BY <2>1
  <2> QED BY <1>2, <2>1, <2>2, <2>3
<1> QED BY <1>1, <1>3, <1>4

\* The types of the journals.
JournalTyped ==
    /\ disk \in Disks /\ encrypted \in BOOLEAN /\ altered \in 0..MaxAlter
    /\ state \in {"none", "ready", "begun", "away", "valid", "accepted", "refused", "armed"}
    /\ state # "none" => Recorded(record)

\* The inductive invariant of the journals: what was taken was accepted as it still is, and a
\* journal as `prepare` left it would be.
JournalInv ==
    /\ JournalTyped
    /\ state # "none" /\ altered = 0 => Saved!Accepts(record) /\ state # "refused"
    /\ Saved!Taken => Saved!Accepts(record)
    /\ state \in {"valid", "armed"} => record.version # 1
    /\ state = "armed" /\ record.action = "grow" => ~encrypted

\* The tables of the runs are tables.
LEMMA SavedTables == \A t \in Disks \cup Originals : t \in Tables /\ Valid(t)
  BY SavedAssumption, SameNames, SameValid DEF Saved!DisksAssumption

\* It holds before there is a journal.
LEMMA JournalInit == Saved!Init => JournalInv
  BY SavedAssumption DEF Saved!Init, JournalInv, JournalTyped, Saved!Taken, Saved!MaxAlterAssumption

\* Whatever is changed in a record, it keeps its fields, and its tables are tables.
LEMMA AlteredIs ==
    ASSUME NEW r, Recorded(r), NEW s \in Saved!AlteredTables(r) \cup Saved!AlteredClaims(r)
    PROVE  Recorded(s)
<1>1. ASSUME NEW t \in Tables, NEW u \in Saved!Changed(t)
      PROVE  u \in Tables
  <2>1. t \in [Slots -> Entry \cup {Empty}] /\ Saved!Empty = Empty
    BY SameNames DEF Tables
  <2>2. CASE u \in {[t EXCEPT ![i] = Saved!Empty] : i \in Saved!Used(t)}
    BY <2>1, <2>2 DEF Tables, Saved!Used
  <2>3. ASSUME NEW i \in Slots, t[i] # Empty, NEW n \in First..Last
        PROVE  [t EXCEPT ![i].start = n] \in Tables /\ [t EXCEPT ![i].end = n] \in Tables
    <3>1. t[i] \in Entry
      BY <2>1, <2>3
    <3>2. [t[i] EXCEPT !.start = n] \in Entry /\ [t[i] EXCEPT !.end = n] \in Entry
      BY <3>1 DEF Entry
    <3> QED BY <2>1, <3>2 DEF Tables
  <2>4. CASE \E i \in Saved!Used(t), n \in First..Last : u = [t EXCEPT ![i].start = n] \/ u = [t EXCEPT ![i].end = n]
    BY <2>1, <2>3, <2>4 DEF Saved!Used
  <2> QED BY <1>1, <2>2, <2>4 DEF Saved!Changed
<1>2. ASSUME NEW o, Recorded(o)
      PROVE  Recorded(Saved!Measured(o))
  BY <1>2 DEF Recorded, Fields, Saved!Measured
<1>3. ASSUME NEW u \in Tables
      PROVE  Recorded([r EXCEPT !.before = u]) /\ Recorded([r EXCEPT !.after = u])
  BY DEF Recorded, Fields
<1>4. CASE s \in Saved!AlteredTables(r)
  <2>1. PICK o \in {[r EXCEPT !.before = t] : t \in Saved!Changed(r.before)}
                       \cup {[r EXCEPT !.after = t] : t \in Saved!Changed(r.after)} : s = Saved!Measured(o)
    BY <1>4 DEF Saved!AlteredTables
  <2>2. r.before \in Tables /\ r.after \in Tables
    BY DEF Recorded
  <2>3. CASE \E t \in Saved!Changed(r.before) : o = [r EXCEPT !.before = t]
    BY <1>1, <1>2, <1>3, <2>1, <2>2, <2>3
  <2>4. CASE \E t \in Saved!Changed(r.after) : o = [r EXCEPT !.after = t]
    BY <1>1, <1>2, <1>3, <2>1, <2>2, <2>4
  <2> QED BY <2>1, <2>3, <2>4
<1>5. CASE s \in Saved!AlteredClaims(r)
  <2>1. CASE s \in {[r EXCEPT !.version = v, !.shown.source = (v = 2)] : v \in 1..3}
    BY <2>1 DEF Recorded, Fields
  <2>2. CASE s \in {[r EXCEPT !.action = a, !.shown.action = a] : a \in {"gap", "reset", "grow", "none"}}
    BY <2>2 DEF Recorded, Fields
  <2>3. CASE s \in {[r EXCEPT !.action = a, !.shown.action = a, !.authorized = (a = "reset"),
                              !.shown.wipe = (a = "reset")] : a \in {"gap", "reset", "grow"}}
    BY <2>3 DEF Recorded, Fields
  <2>4. CASE s \in {[r EXCEPT !.authorized = ~@], [r EXCEPT !.shown.wipe = ~@], [r EXCEPT !.encrypted = ~@],
                    [r EXCEPT !.evidence = ~@], [r EXCEPT !.sums = FALSE], [r EXCEPT !.geometry.root = Saved!Empty]}
    BY <2>4 DEF Recorded, Fields
  <2> QED BY <1>5, <2>1, <2>2, <2>3, <2>4 DEF Saved!AlteredClaims
<1> QED BY <1>4, <1>5

\* Every step of a journal keeps the invariant.
LEMMA JournalNext == JournalInv /\ [Saved!Next]_Saved!vars => JournalInv'
<1> SUFFICES ASSUME JournalInv, [Saved!Next]_Saved!vars PROVE JournalInv'
  OBVIOUS
<1> USE DEF JournalInv, JournalTyped
<1>1. disk \in Tables /\ Valid(disk)
  BY SavedTables
<1>2. ASSUME NEW old \in Originals, Saved!PrepareByRecord(old)
      PROVE  JournalInv'
  <2>1. old \in Tables /\ Valid(old) /\ CanRestore(old, disk)
    BY <1>2, SavedTables, SameRestored DEF Saved!PrepareByRecord
  <2>2. PICK action \in Saved!Actions(GaveUp(old, disk)) :
           record' = Saved!Journal(2, Restored(old, disk), GaveUp(old, disk), action)
    BY <1>2, SameRestored DEF Saved!PrepareByRecord
  <2>3. Recorded(record') /\ record'.version = 2 /\ Saved!Accepts(record')
    BY <1>1, <2>1, <2>2, OwnRestoreAccepted
  <2> QED BY <1>2, <2>3 DEF Saved!PrepareByRecord, Saved!Taken
<1>3. ASSUME NEW old \in Originals, Saved!PrepareOld(old)
      PROVE  JournalInv'
  <2>1. old \in Tables /\ Valid(old) /\ CanRestore(old, disk)
    BY <1>3, SavedTables, SameRestored DEF Saved!PrepareOld
  <2>2. record' = Saved!Journal(1, Restored(old, disk), GaveUp(old, disk), "none")
    BY <1>3, SameRestored DEF Saved!PrepareOld
  <2>3. Recorded(record') /\ record'.version = 1 /\ Saved!Accepts(record')
    BY <1>1, <2>1, <2>2, OwnRestoreAccepted
  <2> QED BY <1>3, <2>3 DEF Saved!PrepareOld, Saved!Taken
<1>4. ASSUME Saved!PrepareByDevice
      PROVE  JournalInv'
  <2>1. CanRemove(disk)
    BY <1>4, SameRemoved DEF Saved!PrepareByDevice
  <2>2. PICK action \in Saved!Actions(Saved!Expands(disk)) :
           record' = Saved!Journal(3, Removed(disk), Saved!Expands(disk), action)
    BY <1>4, SameRemoved DEF Saved!PrepareByDevice
  <2>3. Recorded(record') /\ record'.version = 3 /\ Saved!Accepts(record')
    BY <1>1, <2>1, <2>2, OwnRemovalAccepted
  <2> QED BY <1>4, <2>3 DEF Saved!PrepareByDevice, Saved!Taken
<1>5. CASE Saved!Export
  BY <1>5 DEF Saved!Export, Saved!Taken
<1>6. CASE Saved!Alter
  <2>1. Recorded(record')
    BY <1>6, AlteredIs DEF Saved!Alter
  <2>2. altered' \in 0..MaxAlter /\ altered' # 0
    BY <1>6, SavedAssumption DEF Saved!Alter, Saved!MaxAlterAssumption
  <2> QED BY <1>6, <2>1, <2>2 DEF Saved!Alter, Saved!Taken
<1>7. CASE Saved!Import
  BY <1>7 DEF Saved!Import, Saved!Taken
<1>8. CASE Saved!Validate
  BY <1>8 DEF Saved!Validate, Saved!Taken
<1>9. CASE Saved!Arm
  BY <1>9 DEF Saved!Arm, Saved!Taken
<1>10. CASE UNCHANGED Saved!vars
  BY <1>10 DEF Saved!vars, Saved!Taken
<1> QED BY <1>2, <1>3, <1>4, <1>5, <1>6, <1>7, <1>8, <1>9, <1>10 DEF Saved!Next

\* A journal nobody changed is accepted; and one that was changed, however, is accepted only if
\* it removes the root, nothing else, and as its user agreed: for all tables, and for any number
\* of changes.
THEOREM JournalsSafe == Saved!Spec => []JournalsRemoveTheRoot
<1>1. JournalInv => JournalsRemoveTheRoot
  <2> SUFFICES ASSUME JournalInv PROVE JournalsRemoveTheRoot
    OBVIOUS
  <2> USE DEF JournalInv, JournalTyped
  <2>1. Saved!OwnJournalAccepted
    BY SavedAssumption DEF Saved!OwnJournalAccepted, Saved!MaxAlterAssumption
  <2>2. Saved!Taken => state # "none" /\ Recorded(record) /\ Saved!Accepts(record)
    BY DEF Saved!Taken
  <2>3. Saved!OthersUntouched
    BY <2>2, AcceptedIs, SameNames, SameSlots, SameValid DEF Saved!OthersUntouched
  <2>4. Saved!GainsOnlyTheRoot
    BY <2>2, AcceptedIs, SameNames, SameSlots DEF Saved!GainsOnlyTheRoot
  <2>5. Saved!ResetNotSuppressed
    BY <2>2, AcceptedAsAgreed, SameNames, SameSlots DEF Saved!ResetNotSuppressed, Saved!Taken
  <2> QED BY <2>1, <2>3, <2>4, <2>5 DEF JournalsRemoveTheRoot
<1> QED BY <1>1, JournalInit, JournalNext, PTL DEF Saved!Spec
=============================================================================
