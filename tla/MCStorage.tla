------------------------------ MODULE MCStorage ------------------------------
(***************************************************************************)
(* The partitions of a phone, for TLC: the table from one installation to  *)
(* the next and the journal of a removal (Storage), and the reader of a    *)
(* partition that proves what is on it (Extents).  One of them runs, the   *)
(* others stay as they are.                                                *)
(***************************************************************************)
EXTENDS Storage, Sequences

VARIABLES
    subject,                          \* which of them runs
    super, count, inode, nodes, rest, pointers, read, reader  \* of Extents

readerVars == <<super, count, inode, nodes, rest, pointers, read, reader>>

-----------------------------------------------------------------------------
(* Tables on small disks *)

Ranged(n, s, e) == [name |-> n, start |-> s, end |-> e]
Tabled(vendor, data, other) ==
    [i \in Slots |-> IF i = 1 THEN vendor ELSE IF i = 2 THEN data ELSE IF i = 3 THEN other ELSE Empty]

\* A partition of the vendor before or after userdata, which begins on a MiB and may end
\* within one.
MCFactory ==
    {t \in {Tabled(Ranged("vendor", v, v + 1), Ranged(Data, d, d + size - 1), Empty) :
              v \in {1, 13, 18}, d \in {2, 4, 6}, size \in {11, 12}} :
        t[2].end <= Last /\ NoOverlap(t) /\ (t[1].start = 18 => t[2].start # 4)}

\* One table with room for a second partition of each size.
OneFactory == {Tabled(Ranged("vendor", 1, 2), Ranged(Data, 4, 14), Empty)}

\* Phones with a root of four sectors, that follows userdata or does not; and the tables that
\* an installation may have found.
MCDisks ==
    {Tabled(Ranged("vendor", d[1], d[1] + 1), Ranged(Data, d[2], d[3]), Ranged(Root, d[4], d[4] + 3)) :
        d \in {<<1, 4, 7, 8>>, <<12, 3, 5, 8>>}}
MCOriginals ==
    {t \in {[d EXCEPT ![3] = Empty, ![2].end = e] : d \in MCDisks, e \in {5, 12}} : Disjoint(t[1], t[2])}

-----------------------------------------------------------------------------
(* Trees of up to two levels below an inode, on a filesystem of eight blocks of which two *)
(* may be nodes.                                                                          *)

Mapping(l, n, t) == [logical |-> l, length |-> n, to |-> t]
Leaves == {Mapping(l, n, t) : l \in 0..2, n \in 1..2, t \in {4, 7}} \cup {Mapping(0, 0, 4)}
Indices == {Mapping(l, 0, t) : l \in 0..1, t \in {0, 1, 2}}
Small == {Mapping(l, 1, t) : l \in 0..2, t \in {4, 6}}
Node(depth, entries) == [depth |-> depth, entries |-> entries]
UpTo(n, S) == UNION {[1..k -> S] : k \in 0..n}

Nodes == {Node(0, s) : s \in UpTo(1, Leaves) \cup UpTo(2, Small)}
         \cup {Node(1, <<Mapping(0, 0, t)>>) : t \in {1, 2}}
Roots == {[kind |-> "tree", node |-> node] :
             node \in {Node(0, s) : s \in UpTo(2, Leaves)}
                          \cup {Node(d, s) : d \in 1..3, s \in UpTo(2, Indices)}}
         \cup {[kind |-> "direct", blocks |-> s] : s \in [1..3 -> {0, 4, 9}]}

Reader == INSTANCE Extents WITH
    Capacity <- 8, Blocks <- {0, 8, 10}, Counts <- {2, 3}, Direct <- 2, MaxDepth <- 2, Budget <- 4

ASSUME ReaderAssumption == Reader!BoundsAssumption

-----------------------------------------------------------------------------

MCInit ==
    /\ subject \in {"table", "journal", "reader"} /\ Init /\ Saved!Init /\ Reader!Init
    /\ subject # "table" => first \in OneFactory /\ unlisted = {} /\ fs = Userdata(first)
    /\ subject = "reader" => ~encrypted
    /\ subject # "journal" => disk[1].start = 12
    /\ subject = "journal" /\ disk[1].start = 12 => encrypted
    /\ fs < Userdata(first) => unlisted = {}
    /\ subject # "reader" =>
           ~super.clean /\ super.blocks = 0 /\ count = 2
           /\ inode = [kind |-> "direct", blocks |-> <<0, 0, 0>>]

MCNext ==
    /\ UNCHANGED subject
    /\ \/ subject = "table" /\ Next /\ UNCHANGED <<journalVars, readerVars>>
       \/ subject = "journal" /\ Saved!Next /\ UNCHANGED <<vars, readerVars>>
       \/ subject = "reader" /\ Reader!Next /\ UNCHANGED <<vars, journalVars>>

MCSpec == MCInit /\ [][MCNext]_<<subject, vars, journalVars, readerVars>>

-----------------------------------------------------------------------------

\* A file is read as a mounted filesystem reads it, inside the partition and its limit, or
\* refused for damage, on whatever lies there; and the reader ends (the properties of Extents).
ReaderAgrees ==
    /\ [](Reader!ReadsInside /\ Reader!ReadsTheFile /\ Reader!RefusesOnlyDamage)
    /\ Reader!WalkEnds
=============================================================================
