------------------------------- MODULE Layout -------------------------------
(***************************************************************************)
(* Partition tables, and the edits this program makes to them: gpt.py and  *)
(* the layouts of uninstall.py on the computer, e5-gpt on the phone.       *)
(*                                                                         *)
(* A table gives every slot an entry, which is Empty or names a range of   *)
(* sectors.  Type, identifier and attributes of an entry are part of its   *)
(* name here.  Both copies of a table on the disk, their headers and       *)
(* checksums are below this module: a table here is one that passed them.  *)
(***************************************************************************)
EXTENDS Integers, FiniteSets

CONSTANTS
    Slots,  \* slots of the table, 1 to their number
    First,  \* the first sector a partition may use
    Last,   \* the last one
    Align,  \* sectors of 1 MiB
    MinPart \* sectors of 2 GiB, the least a partition of this program has

ASSUME SlotsAssumption == IsFiniteSet(Slots) /\ Slots # {} /\ Slots = 1..Cardinality(Slots)
ASSUME BoundsAssumption == First \in Nat /\ Last \in Nat /\ First <= Last
ASSUME AlignAssumption == Align \in Nat \ {0} /\ MinPart \in Nat \ {0} /\ MinPart % Align = 0

Root == "e5root"
Data == "userdata"
Names == {Root, Data, "vendor", "foreign"}

Empty == [name |-> "none", start |-> 0, end |-> 0]
Entry == [name : Names, start : First..Last, end : First..Last]
Tables == [Slots -> Entry \cup {Empty}]

Size(entry) == entry.end - entry.start + 1
Sectors(entry) == entry.start..entry.end
Up(n) == ((n + Align - 1) \div Align) * Align
Down(n) == (n \div Align) * Align

Used(t) == {i \in Slots : t[i] # Empty}
Unused(t) == {i \in Slots : t[i] = Empty}
Disjoint(a, b) == a.end < b.start \/ b.end < a.start
NoOverlap(t) == \A i, j \in Used(t) : i # j => Disjoint(t[i], t[j])

\* gpt_space: what it accepts.
Valid(t) == NoOverlap(t) /\ \A i \in Used(t) : t[i].start <= t[i].end

Has(t, name) == \E i \in Slots : t[i].name = name
SlotOf(t, name) == CHOOSE i \in Slots : t[i].name = name
Of(t, name) == t[SlotOf(t, name)]

\* Exactly one; two of a name are ambiguous.
Single(t, name) == \E i \in Slots : t[i].name = name /\ \A j \in Slots : t[j].name = name => j = i

LeastUnused(t) == CHOOSE i \in Unused(t) : \A j \in Unused(t) : i <= j

-----------------------------------------------------------------------------
(* Free space *)

Free(t) == (First..Last) \ UNION {Sectors(t[i]) : i \in Used(t)}

\* The ranges between the partitions.
Holes(t) == {h \in {<<a, b>> : a \in Free(t), b \in Free(t)} :
                /\ h[1]..h[2] \subseteq Free(t) /\ h[1] <= h[2]
                /\ h[1] - 1 \notin Free(t) /\ h[2] + 1 \notin Free(t)}

\* gpt_space: of each its aligned part.
Gaps(t) == {g \in {[start |-> Up(h[1]), size |-> Down(h[2] + 1) - Up(h[1])] : h \in Holes(t)} : g.size > 0}

\* e5-gpt: the end of a range is not aligned.
DeviceGaps(t) == {g \in {[start |-> Up(h[1]), size |-> h[2] - Up(h[1]) + 1] : h \in Holes(t)} : g.size > 0}

\* max of (size, start).
LastOfLargest(gaps) ==
    CHOOSE g \in gaps : \A o \in gaps : o.size < g.size \/ (o.size = g.size /\ o.start <= g.start)

\* The first that is larger than those before it.
FirstOfLargest(gaps) ==
    CHOOSE g \in gaps : \A o \in gaps : o.size < g.size \/ (o.size = g.size /\ g.start <= o.start)

Fitting(gaps, need) == {g \in gaps : g.size >= need}

-----------------------------------------------------------------------------
(* Partitions made *)

\* Variant: the end of an entry is taken for the sector after it.
NewRootPast(start, need) == [name |-> Root, start |-> start, end |-> start + need]

NewRoot(start, need) == [name |-> Root, start |-> start, end |-> start + need - 1]

WithRoot(t, start, need) == [t EXCEPT ![LeastUnused(t)] = NewRoot(start, need)]

\* gpt_add_root.
CanAddRoot(t, start, need) ==
    /\ ~Has(t, Root) /\ Unused(t) # {} /\ need >= MinPart
    /\ start % Align = 0 /\ need % Align = 0
    /\ \E g \in Gaps(t) : g.start <= start /\ start + need <= g.start + g.size

\* e5-gpt add: the largest free range, wherever it is.
CanAllocate(t, need) == ~Has(t, Root) /\ Unused(t) # {} /\ Fitting(DeviceGaps(t), need) # {}
Allocated(t, need) == WithRoot(t, FirstOfLargest(Fitting(DeviceGaps(t), need)).start, need)

Resized(t, size) == [t EXCEPT ![SlotOf(t, Data)].end = t[SlotOf(t, Data)].start + size - 1]

\* e5-gpt resize, of userdata.
CanResize(t, size) == Single(t, Data) /\ Of(t, Data).start + size - 1 <= Last /\ NoOverlap(Resized(t, size))

\* e5-gpt carve-userdata: both edits at once.
CanCarve(t, size, need, previous) ==
    /\ CanResize(t, size) /\ ~Has(t, Root) /\ Unused(t) # {}
    /\ Size(Of(t, Data)) = previous /\ size >= MinPart /\ need >= MinPart
    /\ size % Align = 0 /\ need % Align = 0
    /\ (Of(t, Data).start + size) % Align = 0
    /\ size + need <= previous
Carved(t, size, need) == WithRoot(Resized(t, size), Of(t, Data).start + size, need)

-----------------------------------------------------------------------------
(* The root removed *)

\* device_layout: without a record, userdata takes the root's sectors if they follow its own.
Follows(t) == Of(t, Root).start = Of(t, Data).end + 1
CanRemove(t) ==
    /\ Single(t, Data) /\ Single(t, Root)
    /\ Of(t, Root).start % Align = 0 /\ (Of(t, Root).end + 1) % Align = 0
    /\ Size(Of(t, Root)) >= MinPart
\* Variant: the end of an entry is taken for the sector after it.
RemovedPast(t) == [t EXCEPT ![SlotOf(t, Root)] = Empty,
                            ![SlotOf(t, Data)].end = IF Follows(t) THEN Of(t, Root).end + 1 ELSE @]

Removed(t) == [t EXCEPT ![SlotOf(t, Root)] = Empty,
                        ![SlotOf(t, Data)].end = IF Follows(t) THEN Of(t, Root).end ELSE @]

\* restored_layout: with a table saved before the installation, the edits proven and undone.
GaveUp(old, now) == Of(old, Data).end > Of(now, Data).end
\* Variant: what userdata keeps is not rounded.
FromUserdataExactly(old, now) ==
    /\ Of(now, Root).start = Of(now, Data).end + 1
    /\ Of(now, Root).end <= Of(old, Data).end
    /\ Size(Of(now, Data)) = Size(Of(old, Data)) - Size(Of(now, Root))

FromUserdata(old, now) ==
    /\ Of(now, Root).start = Of(now, Data).end + 1
    /\ Of(now, Root).end <= Of(old, Data).end
    /\ Size(Of(now, Data)) = Down(Size(Of(old, Data)) - Size(Of(now, Root)))
FromGap(old, now) ==
    /\ Of(old, Data).end = Of(now, Data).end
    /\ \E g \in Gaps(old) : g.start <= Of(now, Root).start
                            /\ Of(now, Root).end < g.start + g.size
CanRestore(old, now) ==
    /\ Single(now, Data) /\ Single(now, Root) /\ Single(old, Data)
    /\ SlotOf(old, Data) = SlotOf(now, Data) /\ Of(old, Data).start = Of(now, Data).start
    /\ old[SlotOf(now, Root)] = Empty
    /\ \A i \in Slots \ {SlotOf(now, Root), SlotOf(now, Data)} : old[i] = now[i]
    /\ IF GaveUp(old, now) THEN FromUserdata(old, now) ELSE FromGap(old, now)

\* Variant: userdata ends where the root did.
RestoredToRoot(old, now) == [now EXCEPT ![SlotOf(now, Root)] = old[SlotOf(now, Root)],
                                        ![SlotOf(now, Data)].end = IF GaveUp(old, now) THEN Of(now, Root).end ELSE @]

Restored(old, now) == [now EXCEPT ![SlotOf(now, Root)] = old[SlotOf(now, Root)],
                                  ![SlotOf(now, Data)].end = Of(old, Data).end]
=============================================================================
