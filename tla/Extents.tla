------------------------------- MODULE Extents -------------------------------
(***************************************************************************)
(* The reader of a file on an ext4 partition that is not mounted:          *)
(* Ext4Evidence of install_evidence.py, which proves by a few small files  *)
(* that a partition holds an installed system, before it may be removed.   *)
(*                                                                         *)
(* What is on the partition is arbitrary; a node of the extent tree is     *)
(* chosen when it is read.  The reader's depth-first walk is compared with *)
(* the lookup of a mounted filesystem, which goes down by the first block  *)
(* of each entry.                                                          *)
(***************************************************************************)
EXTENDS Naturals, Sequences, FiniteSets

CONSTANTS
    Capacity, \* blocks of the partition
    Blocks,   \* what a superblock may say
    Counts,   \* blocks of a file
    Direct,   \* block numbers that an inode itself may hold: 12
    MaxDepth, \* levels of an extent tree: 4
    Budget,   \* blocks read at most: 4 MiB
    Roots,    \* what an inode holds
    Nodes     \* what a block of the tree may hold

BoundsAssumption == {Capacity, Direct, MaxDepth, Budget} \cup Blocks \cup Counts \subseteq Nat

VARIABLES
    super,    \* the superblock: clean and supported, and its number of blocks
    count,    \* blocks of the file
    inode,     \* the inode
    nodes,    \* the tree as far as it was read
    rest,     \* entries still to be visited, with the depth below them
    pointers, \* blocks of the file that were found
    read,     \* blocks that were read
    reader    \* where the reader is

vars == <<super, count, inode, nodes, rest, pointers, read, reader>>
disk == <<super, count, inode>>

Entry(logical, length, to) == [logical |-> logical, length |-> length, to |-> to]
Below(node) == [i \in 1..Len(node.entries) |-> [entry |-> node.entries[i], depth |-> node.depth]]
Visited == DOMAIN nodes

\* block, raw: inside the filesystem, and within what may be read.  A block is read once.
Readable(b) == 0 < b /\ b < super.blocks
Affordable(bs) == Cardinality(read \cup bs) <= Budget

Refuse == reader' = "refused" /\ UNCHANGED <<disk, nodes, rest, pointers, read>>
Exhausted == reader' = "exhausted" /\ UNCHANGED <<disk, nodes, rest, pointers, read>>

\* Variant: the superblock is believed.
OpenUnbounded ==
    /\ reader = "open"
    /\ IF super.clean THEN reader' = "inode" /\ UNCHANGED <<disk, nodes, rest, pointers, read>> ELSE Refuse

\* __init__: a filesystem that was closed cleanly and is not larger than its partition.
Open ==
    /\ reader = "open"
    /\ IF super.clean /\ super.blocks \in 1..Capacity
       THEN reader' = "inode" /\ UNCHANGED <<disk, nodes, rest, pointers, read>>
       ELSE Refuse

\* contents: block numbers in the inode, of a small file ...
FromInode ==
    /\ reader = "inode" /\ inode.kind = "direct"
    /\ IF count > Direct THEN Refuse
       ELSE /\ pointers' = [n \in 0..(count - 1) |-> inode.blocks[n + 1]]
            /\ reader' = "join" /\ UNCHANGED <<disk, nodes, rest, read>>

\* ... or the inode of a tree.
FromTree ==
    /\ reader = "inode" /\ inode.kind = "tree"
    /\ IF inode.node.depth > MaxDepth \/ inode.node.entries = <<>> THEN Refuse
       ELSE rest' = Below(inode.node) /\ reader' = "walk" /\ UNCHANGED <<disk, nodes, pointers, read>>

\* Variant: a node is visited as often as it is named, at any depth.
IndexAnyDepth ==
    /\ reader = "walk" /\ rest # <<>> /\ Head(rest).depth > 0
    /\ LET b == Head(rest).entry.to IN
       IF ~Readable(b) THEN Refuse
       ELSE IF ~Affordable({b}) THEN Exhausted
       ELSE \E node \in IF b \in Visited THEN {nodes[b]} ELSE Nodes :
            /\ nodes' = [x \in Visited \cup {b} |-> IF x = b THEN node ELSE nodes[x]]
            /\ read' = read \cup {b}
            /\ rest' = Below(node) \o Tail(rest)
            /\ UNCHANGED <<disk, pointers, reader>>

\* extents, of a node above the leaves: one read, never twice, one level down.
Index ==
    /\ reader = "walk" /\ rest # <<>> /\ Head(rest).depth > 0
    /\ LET b == Head(rest).entry.to IN
       IF ~Readable(b) \/ b \in Visited THEN Refuse
       ELSE IF ~Affordable({b}) THEN Exhausted
       ELSE \E node \in Nodes :
            /\ nodes' = [x \in Visited \cup {b} |-> IF x = b THEN node ELSE nodes[x]]
            /\ read' = read \cup {b}
            /\ IF node.entries = <<>> \/ node.depth # Head(rest).depth - 1
               THEN reader' = "refused" /\ rest' = rest
               ELSE rest' = Below(node) \o Tail(rest) /\ UNCHANGED reader
            /\ UNCHANGED <<disk, pointers>>

\* Variant: without regard to the end of the file.
MappedWhole(e) == e.logical..(e.logical + e.length - 1)

\* The blocks of the file that a leaf's entry maps.
Mapped(e) == {n \in 0..(count - 1) : e.logical <= n /\ n < e.logical + e.length}

\* Variant: every entry maps from its first block on.
LeafFromStart ==
    /\ reader = "walk" /\ rest # <<>> /\ Head(rest).depth = 0
    /\ LET e == Head(rest).entry IN
       IF e.length = 0 \/ e.to = 0 \/ e.to + e.length > super.blocks THEN Refuse
       ELSE /\ pointers' = [n \in DOMAIN pointers \cup Mapped(e) |->
                               IF n \in Mapped(e) THEN e.to ELSE pointers[n]]
            /\ rest' = Tail(rest)
            /\ UNCHANGED <<disk, nodes, read, reader>>

\* Variant: one that ends with the filesystem is taken to end beyond it.
LeafExclusive ==
    /\ reader = "walk" /\ rest # <<>> /\ Head(rest).depth = 0
    /\ LET e == Head(rest).entry IN
       IF e.length = 0 \/ e.to = 0 \/ e.to + e.length >= super.blocks THEN Refuse
       ELSE /\ pointers' = [n \in DOMAIN pointers \cup Mapped(e) |->
                               IF n \in Mapped(e) THEN e.to + n - e.logical ELSE pointers[n]]
            /\ rest' = Tail(rest)
            /\ UNCHANGED <<disk, nodes, read, reader>>

Leaf ==
    /\ reader = "walk" /\ rest # <<>> /\ Head(rest).depth = 0
    /\ LET e == Head(rest).entry IN
       IF \/ e.length = 0 \/ e.to = 0 \/ e.to + e.length > super.blocks
          \/ Mapped(e) \cap DOMAIN pointers # {}
       THEN Refuse
       ELSE /\ pointers' = [n \in DOMAIN pointers \cup Mapped(e) |->
                               IF n \in Mapped(e) THEN e.to + n - e.logical ELSE pointers[n]]
            /\ rest' = Tail(rest)
            /\ UNCHANGED <<disk, nodes, read, reader>>

Walked ==
    /\ reader = "walk" /\ rest = <<>>
    /\ reader' = "join" /\ UNCHANGED <<disk, nodes, rest, pointers, read>>

\* Every block, in order.
Join ==
    /\ reader = "join"
    /\ LET bs == {pointers[n] : n \in DOMAIN pointers} IN
       IF DOMAIN pointers # 0..(count - 1) \/ \E b \in bs : ~Readable(b) THEN Refuse
       ELSE IF ~Affordable(bs) THEN Exhausted
       ELSE read' = read \cup bs /\ reader' = "accepted" /\ UNCHANGED <<disk, nodes, rest, pointers>>

Init ==
    /\ super \in [clean : BOOLEAN, blocks : Blocks] /\ count \in Counts /\ inode \in Roots
    /\ nodes = [b \in {} |-> <<>>] /\ rest = <<>> /\ pointers = [n \in {} |-> 0]
    /\ read = {} /\ reader = "open"

Next == Open \/ FromInode \/ FromTree \/ Index \/ Leaf \/ Walked \/ Join

Spec == Init /\ [][Next]_vars

-----------------------------------------------------------------------------
(* The filesystem as it is meant *)

\* A tree, as far as it was read: entries in order, each within the range of its parent,
\* one level down, and blocks that exist.
RECURSIVE Proper(_, _, _)
Proper(node, low, high) ==
    /\ node.entries # <<>>
    /\ \A i \in 1..Len(node.entries) :
          LET e == node.entries[i]
              end == IF i < Len(node.entries) THEN node.entries[i + 1].logical ELSE high
          IN  /\ low <= e.logical /\ e.logical < end
              /\ IF node.depth = 0 THEN e.length > 0 /\ e.logical + e.length <= end
                                        /\ 0 < e.to /\ e.to + e.length <= super.blocks
                 ELSE /\ 0 < e.to /\ e.to < super.blocks
                      /\ e.to \in Visited =>
                            nodes[e.to].depth = node.depth - 1 /\ Proper(nodes[e.to], e.logical, end)

\* The last entry that begins at a block or before it.
Under(node, n) ==
    LET at == {i \in 1..Len(node.entries) : node.entries[i].logical <= n}
    IN  node.entries[CHOOSE i \in at : \A j \in at : j <= i]

Begins(node, n) == node.entries # <<>> /\ node.entries[1].logical <= n

\* Zero is a hole.
RECURSIVE Lookup(_, _)
Lookup(node, n) ==
    IF ~Begins(node, n) THEN 0
    ELSE LET e == Under(node, n) IN
         IF node.depth > 0 THEN Lookup(nodes[e.to], n)
         ELSE IF n < e.logical + e.length THEN e.to + n - e.logical ELSE 0

ProperTree == inode.kind = "tree" /\ inode.node.depth <= MaxDepth /\ Proper(inode.node, 0, 100)

-----------------------------------------------------------------------------
(* Properties *)

\* Every variable holds what its declaration says.
TypeOK ==
    /\ super.blocks \in Blocks /\ count \in Counts /\ inode.kind \in {"direct", "tree"}
    /\ DOMAIN pointers \subseteq 0..(count - 1) /\ Visited \subseteq read
    /\ reader \in {"open", "inode", "walk", "join", "accepted", "refused", "exhausted"}

\* Nothing outside the partition is read, whatever superblock, inode and tree say, and no
\* more than the limit: "Only fixed, small files are read".
ReadsInside == read \subseteq 1..(Capacity - 1) /\ Cardinality(read) <= Budget

\* What is read of a proper tree is the file as a mounted filesystem reads it, block by block.
ReadsTheFile ==
    reader = "accepted" /\ ProperTree => \A n \in 0..(count - 1) : pointers[n] = Lookup(inode.node, n)

\* A proper file without holes, on a filesystem that was closed cleanly, is not refused: an
\* installed system can be removed.
RefusesOnlyDamage ==
    reader = "refused" /\ super.clean /\ super.blocks \in 1..Capacity /\ ProperTree =>
        rest = <<>> /\ \E n \in 0..(count - 1) : Lookup(inode.node, n) = 0

\* On every partition the reader comes to an end: a step of its walk reads a block that was
\* not read before, of which there are few, or leaves fewer entries to visit.
WalkEnds ==
    [][reader = "walk" /\ reader' = "walk" =>
          (read \subseteq read' /\ read # read') \/ Len(rest') < Len(rest)]_vars
=============================================================================
