---------------------------- MODULE LayoutProofs ----------------------------
(***************************************************************************)
(* Lemmas about partition tables and their edits (Layout), for every number *)
(* of slots, every disk, and every table a phone may have.                 *)
(*                                                                         *)
(* Rounding to a MiB first; then free space, gaps and entries; then each   *)
(* edit: which entries it changes, and that a table stays one; then which  *)
(* edits a saved table explains, and that undoing them gives it back.      *)
(***************************************************************************)
EXTENDS Layout, FiniteSetTheorems, WellFoundedInduction, TLAPS

-----------------------------------------------------------------------------
(* MiBs *)

\* A number is its MiBs and what is less than one.
LEMMA Quotient ==
    ASSUME NEW n \in Int
    PROVE  \E q \in Int : /\ n \div Align = q /\ Down(n) = q * Align
                          /\ q * Align <= n /\ n < q * Align + Align
                          /\ n % Align = 0 <=> n = q * Align
<1>1. Align \in Int /\ Align > 0
  BY AlignAssumption
<1>2. n % Align = n - Align * (n \div Align)
  BY <1>1, SMTT(30)
<1>3. n \div Align \in Int /\ (n \div Align) * Align <= n /\ n < (n \div Align) * Align + Align
  BY <1>1
<1>4. Align * (n \div Align) = (n \div Align) * Align /\ (n \div Align) * Align \in Int
  BY <1>1, <1>3
<1>5. n % Align = 0 <=> n = (n \div Align) * Align
  BY <1>2, <1>3, <1>4
<1> QED BY <1>3, <1>5 DEF Down
\* Arithmetic with whole MiBs.
LEMMA Multiples ==
    ASSUME NEW q \in Int
    PROVE  /\ q * Align \in Int /\ (q * Align) % Align = 0
           /\ \A p \in Int : /\ p < q => p * Align + Align <= q * Align
                             /\ (p + q) * Align = p * Align + q * Align
                             /\ (p - q) * Align = p * Align - q * Align
<1>1. Align \in Int /\ Align > 0
  BY AlignAssumption
<1>2. q * Align \in Int
  BY <1>1
<1>3. (q * Align) % Align = 0
  BY <1>1
<1>4. ASSUME NEW p \in Int, p < q PROVE p * Align + Align <= q * Align
  BY <1>1, <1>4
<1>5. ASSUME NEW p \in Int PROVE (p + q) * Align = p * Align + q * Align
  BY <1>1
<1>6. ASSUME NEW p \in Int PROVE (p - q) * Align = p * Align - q * Align
  BY <1>1
<1> QED BY <1>2, <1>3, <1>4, <1>5, <1>6
\* Down: the last multiple that is not beyond.
LEMMA DownFacts ==
    ASSUME NEW n \in Int
    PROVE  /\ Down(n) \in Int /\ Down(n) <= n /\ n < Down(n) + Align /\ Down(n) % Align = 0
           /\ n % Align = 0 => Down(n) = n
           /\ \A m \in Int : m % Align = 0 /\ m <= n => m <= Down(n)
<1>1. PICK q \in Int : Down(n) = q * Align /\ q * Align <= n /\ n < q * Align + Align /\ (n % Align = 0 <=> n = q * Align)
  BY Quotient
<1>2. Down(n) \in Int /\ Down(n) % Align = 0
  BY <1>1, Multiples
<1>3. ASSUME NEW m \in Int, m % Align = 0, m <= n PROVE m <= Down(n)
  <2>1. PICK p \in Int : m = p * Align
    BY <1>3, Quotient
  <2>2. q < p => q * Align + Align <= p * Align
    BY Multiples
  <2>3. ~(p <= q) => FALSE
    BY <2>1, <2>2, <1>1, <1>3, <1>2, AlignAssumption
  <2>4. p < q => p * Align + Align <= q * Align
    BY Multiples
  <2>5. p <= q
    BY <2>3
  <2> QED BY <1>1, <1>2, <2>1, <2>4, <2>5, AlignAssumption
<1> QED BY <1>1, <1>2, <1>3
\* Sums and differences of whole MiBs are whole MiBs.
LEMMA Shifted ==
    ASSUME NEW n \in Int, NEW m \in Int, n % Align = 0, m % Align = 0
    PROVE  (n + m) % Align = 0 /\ (n - m) % Align = 0
<1>1. PICK p \in Int : m = p * Align
  BY Quotient
<1>2. PICK q \in Int : n = q * Align
  BY Quotient
<1>3. q + p \in Int /\ q - p \in Int
  OBVIOUS
<1>4. (q + p) * Align = n + m /\ (q - p) * Align = n - m
  BY <1>1, <1>2, Multiples
<1> QED BY <1>3, <1>4, Multiples
\* Whole MiBs are added after rounding or before.
LEMMA DownShifted ==
    ASSUME NEW n \in Int, NEW m \in Int, m % Align = 0
    PROVE  Down(n + m) = Down(n) + m
<1>1. n + m \in Int /\ Down(n) \in Int /\ Down(n + m) \in Int
  BY DownFacts
<1>2. Down(n) % Align = 0 /\ Down(n + m) % Align = 0 /\ Down(n) <= n /\ Down(n + m) <= n + m
  BY <1>1, DownFacts
<1>3. (Down(n) + m) % Align = 0 /\ (Down(n + m) - m) % Align = 0
  BY <1>1, <1>2, Shifted
<1>4. Down(n) + m <= Down(n + m)
  BY <1>1, <1>2, <1>3, DownFacts
<1>5. Down(n + m) - m <= Down(n)
  BY <1>1, <1>2, <1>3, DownFacts
<1> QED BY <1>1, <1>4, <1>5
\* Up: the first multiple that is not before.
LEMMA UpFacts ==
    ASSUME NEW n \in Int
    PROVE  /\ Up(n) \in Int /\ n <= Up(n) /\ Up(n) < n + Align /\ Up(n) % Align = 0
           /\ n % Align = 0 => Up(n) = n
           /\ \A m \in Int : m % Align = 0 /\ n <= m => Up(n) <= m
<1>1. n + Align - 1 \in Int /\ Align \in Int /\ Align > 0 /\ Up(n) = Down(n + Align - 1)
  BY AlignAssumption DEF Up, Down
<1>2. Up(n) \in Int /\ n <= Up(n) /\ Up(n) < n + Align /\ Up(n) % Align = 0
  <2> DEFINE u == n + Align - 1
  <2>1. u \in Int /\ Up(n) = Down(u)
    BY <1>1
  <2> HIDE DEF u
  <2>2. Down(u) \in Int /\ Down(u) <= u /\ u < Down(u) + Align /\ Down(u) % Align = 0
    BY <2>1, DownFacts
  <2> QED BY <1>1, <2>1, <2>2 DEF u
<1>3. ASSUME NEW m \in Int, m % Align = 0, n <= m PROVE Up(n) <= m
  <2>1. PICK p \in Int : m = p * Align
    BY <1>3, Quotient
  <2>2. PICK q \in Int : Up(n) = q * Align
    BY <1>2, Quotient
  <2>3. p < q => p * Align + Align <= q * Align
    BY Multiples
  <2>4. q <= p => q * Align <= p * Align
    <3>1. q < p => q * Align + Align <= p * Align
      BY Multiples
    <3> QED BY <1>1, <2>1, <2>2, <3>1
  <2> QED BY <1>1, <1>2, <1>3, <2>1, <2>2, <2>3, <2>4
<1> QED BY <1>2, <1>3

-----------------------------------------------------------------------------
(* Free space *)

\* A set of numbers that has one has a least one.
LEMMA Least ==
    ASSUME NEW S \in SUBSET Nat, S # {}
    PROVE  \E m \in S : \A n \in S : m <= n
<1>1. IsWellFoundedOn(OpToRel(<, Nat), Nat)
  BY NatLessThanWellFounded
<1>2. PICK m \in S : \A n \in S : <<n, m>> \notin OpToRel(<, Nat)
  <2> HIDE DEF OpToRel
  <2> QED BY <1>1, WFMin
<1>3. ASSUME NEW n \in S PROVE m <= n
  <2>1. m \in Nat /\ n \in Nat
    OBVIOUS
  <2>2. ~(n < m)
    BY <1>2, <2>1 DEF OpToRel
  <2> QED BY <2>1, <2>2
<1> QED BY <1>2, <1>3

\* The bounds of an entry, and which entries are empty.
LEMMA Entries ==
    ASSUME NEW t \in Tables, NEW i \in Slots
    PROVE  /\ t[i].start \in Int /\ t[i].end \in Int
           /\ t[i] # Empty <=> t[i].name # "none"
           /\ t[i] # Empty => t[i] \in Entry /\ t[i].name \in Names /\ t[i].start \in First..Last /\ t[i].end \in First..Last
  BY BoundsAssumption DEF Tables, Entry, Empty, Names, Root, Data

\* The slot taken is an empty one.
LEMMA LeastUnusedIs ==
    ASSUME NEW t, Unused(t) # {}
    PROVE  LeastUnused(t) \in Slots /\ t[LeastUnused(t)] = Empty
<1>1. Unused(t) \in SUBSET Nat
  BY SlotsAssumption, FS_CardinalityType DEF Unused
<1>2. \E i \in Unused(t) : \A j \in Unused(t) : i <= j
  BY <1>1, Least
<1> QED BY <1>2 DEF LeastUnused, Unused

\* Sectors that are free are outside every partition.
LEMMA FreeIs ==
    ASSUME NEW t \in Tables, NEW a \in Int, NEW b \in Int, a <= b, a..b \subseteq Free(t)
    PROVE  /\ a \in First..Last /\ b \in First..Last
           /\ \A i \in Used(t) : t[i].start <= t[i].end => b < t[i].start \/ t[i].end < a
<1>1. a \in a..b /\ b \in a..b
  OBVIOUS
<1>2. ASSUME NEW i \in Used(t), t[i].start <= t[i].end, ~(b < t[i].start \/ t[i].end < a)
      PROVE  FALSE
  <2>1. t[i].start \in Int /\ t[i].end \in Int
    BY Entries DEF Used
  <2>2. \E s \in a..b : s \in t[i].start..t[i].end
    <3>1. CASE t[i].start <= a
      BY <1>2, <2>1, <3>1
    <3>2. CASE a < t[i].start
      BY <1>2, <2>1, <3>2
    <3> QED BY <2>1, <3>1, <3>2
  <2> QED BY <1>2, <2>2 DEF Free, Sectors
<1> QED BY <1>1, <1>2 DEF Free

\* An entry put on free sectors leaves a table that is one.
LEMMA Fills ==
    ASSUME NEW t \in Tables, Valid(t), NEW i \in Slots, t[i] = Empty,
           NEW name \in Names, NEW a \in Int, NEW b \in Int, a <= b, a..b \subseteq Free(t),
           NEW new \in Tables, new[i] = [name |-> name, start |-> a, end |-> b], \A j \in Slots \ {i} : new[j] = t[j]
    PROVE  Valid(new)
<1> DEFINE e == [name |-> name, start |-> a, end |-> b]
<1>1. e.start = a /\ e.end = b
  OBVIOUS
<1>2. new[i] = e /\ \A j \in Slots : j # i => new[j] = t[j]
  OBVIOUS
<1>3. \A j \in Used(new) : new[j].start <= new[j].end
  BY <1>1, <1>2 DEF Valid, Used
<1>4. \A j \in Used(t) : Disjoint(e, t[j]) /\ Disjoint(t[j], e)
  BY <1>1, FreeIs DEF Valid, Disjoint
<1>5. NoOverlap(new)
  BY <1>2, <1>4 DEF NoOverlap, Valid, Used
<1> QED BY <1>3, <1>5 DEF Valid

\* A hole is free.
LEMMA HoleIs ==
    ASSUME NEW t, NEW h \in Holes(t)
    PROVE  h[1] \in Int /\ h[2] \in Int /\ h[1] <= h[2] /\ h[1]..h[2] \subseteq Free(t)
  BY BoundsAssumption DEF Holes, Free

\* A gap of gpt_space is aligned on both sides, and free.
LEMMA GapIs ==
    ASSUME NEW t, NEW g \in Gaps(t)
    PROVE  /\ g.start \in Int /\ g.size \in Int /\ g.size > 0 /\ g.start % Align = 0 /\ g.size % Align = 0
           /\ g.start..(g.start + g.size - 1) \subseteq Free(t)
<1>1. PICK h \in Holes(t) : g = [start |-> Up(h[1]), size |-> Down(h[2] + 1) - Up(h[1])]
  BY DEF Gaps
<1>2. h[1] \in Int /\ h[2] \in Int /\ h[2] + 1 \in Int /\ h[1]..h[2] \subseteq Free(t)
  BY HoleIs
<1>3. /\ Up(h[1]) \in Int /\ h[1] <= Up(h[1]) /\ Up(h[1]) % Align = 0
      /\ Down(h[2] + 1) \in Int /\ Down(h[2] + 1) <= h[2] + 1 /\ Down(h[2] + 1) % Align = 0
  BY <1>2, UpFacts, DownFacts
<1>4. g.start = Up(h[1]) /\ g.size = Down(h[2] + 1) - Up(h[1])
  BY <1>1
<1>5. g.size % Align = 0
  BY <1>3, <1>4, Shifted
<1>6. g.start..(g.start + g.size - 1) \subseteq h[1]..h[2]
  BY <1>2, <1>3, <1>4
<1> QED BY <1>2, <1>3, <1>4, <1>5, <1>6 DEF Gaps

\* A gap of e5-gpt is aligned at its start only, and free.
LEMMA DeviceGapIs ==
    ASSUME NEW t, NEW g \in DeviceGaps(t)
    PROVE  /\ g.start \in Int /\ g.size \in Int /\ g.size > 0 /\ g.start % Align = 0 /\ g.start \in First..Last /\ g.size <= Last + 1
           /\ g.start..(g.start + g.size - 1) \subseteq Free(t)
<1>1. PICK h \in Holes(t) : g = [start |-> Up(h[1]), size |-> h[2] - Up(h[1]) + 1]
  BY DEF DeviceGaps
<1>2. h[1] \in Int /\ h[2] \in Int /\ h[1]..h[2] \subseteq Free(t)
  BY HoleIs
<1>3. Up(h[1]) \in Int /\ h[1] <= Up(h[1]) /\ Up(h[1]) % Align = 0
  BY <1>2, UpFacts
<1>4. g.start = Up(h[1]) /\ g.size = h[2] - Up(h[1]) + 1 /\ g.size > 0
  BY <1>1 DEF DeviceGaps
<1>5. g.start..(g.start + g.size - 1) \subseteq h[1]..h[2]
  BY <1>2, <1>3, <1>4
<1>6. g.start \in Free(t) /\ h[2] \in Free(t)
  BY <1>2, <1>3, <1>4, <1>5
<1> QED BY <1>2, <1>3, <1>4, <1>5, <1>6, BoundsAssumption DEF Free

\* There is a largest gap, and a first one of those.
LEMMA FirstOfLargestIs ==
    ASSUME NEW t, NEW need, Fitting(DeviceGaps(t), need) # {}
    PROVE  FirstOfLargest(Fitting(DeviceGaps(t), need)) \in Fitting(DeviceGaps(t), need)
<1> DEFINE G == Fitting(DeviceGaps(t), need)
           Sizes == {Last + 1 - g.size : g \in G}
<1>1. \A g \in G : g \in DeviceGaps(t) /\ g.size \in Int /\ g.size <= Last + 1 /\ g.start \in Nat
  BY DeviceGapIs, BoundsAssumption DEF Fitting
<1>2. Sizes \in SUBSET Nat /\ Sizes # {}
  BY <1>1, BoundsAssumption
<1>3. PICK m \in Sizes : \A n \in Sizes : m <= n
  BY <1>2, Least
<1> DEFINE Starts == {g.start : g \in {x \in G : Last + 1 - x.size = m}}
<1>4. Starts \in SUBSET Nat /\ Starts # {}
  BY <1>1, <1>3
<1>5. PICK s \in Starts : \A n \in Starts : s <= n
  BY <1>4, Least
<1>6. PICK g \in G : g.start = s /\ Last + 1 - g.size = m
  BY <1>5
<1>7. \A o \in G : o.size < g.size \/ (o.size = g.size /\ g.start <= o.start)
  <2> SUFFICES ASSUME NEW o \in G PROVE o.size < g.size \/ (o.size = g.size /\ g.start <= o.start)
    OBVIOUS
  <2>1. m <= Last + 1 - o.size
    BY <1>3
  <2>2. Last + 1 - o.size = m => s <= o.start
    BY <1>5
  <2> QED BY <1>1, <1>6, <2>1, <2>2, BoundsAssumption
<1> HIDE DEF G
<1>8. FirstOfLargest(G) \in G
  BY <1>7 DEF FirstOfLargest
<1> QED BY <1>8 DEF G

-----------------------------------------------------------------------------
\* The slot of a name that is there once.
LEMMA SingleIs ==
    ASSUME NEW t, NEW name, Single(t, name)
    PROVE  /\ SlotOf(t, name) \in Slots /\ t[SlotOf(t, name)].name = name /\ Of(t, name) = t[SlotOf(t, name)]
           /\ \A i \in Slots : t[i].name = name => i = SlotOf(t, name)
           /\ Has(t, name)
<1>1. PICK i \in Slots : t[i].name = name /\ \A j \in Slots : t[j].name = name => j = i
  BY DEF Single
<1>2. SlotOf(t, name) \in Slots /\ t[SlotOf(t, name)].name = name
  BY <1>1 DEF SlotOf
<1> QED BY <1>1, <1>2 DEF Of, Has

\* And the other way around.
LEMMA SlotIs ==
    ASSUME NEW t, NEW name, NEW i \in Slots, t[i].name = name, \A j \in Slots : t[j].name = name => j = i
    PROVE  Single(t, name) /\ SlotOf(t, name) = i /\ Of(t, name) = t[i]
<1>1. Single(t, name)
  BY DEF Single
<1>2. SlotOf(t, name) = i
  BY DEF SlotOf
<1> QED BY <1>1, <1>2 DEF Of

\* At most one root is one root, if there is any.
OneRoot(t) == \A i, j \in Slots : t[i].name = Root /\ t[j].name = Root => i = j

\* What every table is that this program reads or writes.
Sound(t) == t \in Tables /\ Valid(t) /\ Single(t, Data) /\ OneRoot(t)

\* The partitions of others are where they were.
Others(a, b) == \A i \in Slots : a[i].name \notin {"none", Root, Data} => b[i] = a[i]

\* Free, or to be free once the root is removed.
Open(t) == (First..Last) \ UNION {Sectors(t[i]) : i \in {j \in Used(t) : t[j].name # Root}}

\* With at most one root, it is there or it is there once.
LEMMA RootIs ==
    ASSUME NEW t, OneRoot(t)
    PROVE  Has(t, Root) <=> Single(t, Root)
  BY DEF OneRoot, Has, Single

\* The entry of userdata in a table of this program.
LEMMA UserdataIs ==
    ASSUME NEW t, Sound(t)
    PROVE  /\ SlotOf(t, Data) \in Slots /\ t[SlotOf(t, Data)] = Of(t, Data) /\ Of(t, Data) \in Entry
           /\ Of(t, Data).name = Data /\ Of(t, Data).start \in Int /\ Of(t, Data).end \in Int
           /\ First <= Of(t, Data).start /\ Of(t, Data).start <= Of(t, Data).end /\ Of(t, Data).end <= Last
           /\ Size(Of(t, Data)) \in Nat /\ Size(Of(t, Data)) > 0
           /\ Of(t, Data) # Empty
<1>1. SlotOf(t, Data) \in Slots /\ t[SlotOf(t, Data)].name = Data /\ Of(t, Data) = t[SlotOf(t, Data)]
  BY SingleIs DEF Sound
<1>2. t[SlotOf(t, Data)] # Empty
  BY <1>1 DEF Empty, Data
<1>3. Of(t, Data) \in Entry /\ Of(t, Data).start <= Of(t, Data).end
  BY <1>1, <1>2, Entries DEF Sound, Valid, Used
<1> QED BY <1>1, <1>2, <1>3, BoundsAssumption DEF Entry, Size

\* The entry of the root, if there is one.
LEMMA RootEntryIs ==
    ASSUME NEW t, Sound(t), Has(t, Root)
    PROVE  /\ SlotOf(t, Root) \in Slots /\ t[SlotOf(t, Root)] = Of(t, Root) /\ Of(t, Root) \in Entry
           /\ Of(t, Root).name = Root /\ Of(t, Root).start \in Int /\ Of(t, Root).end \in Int
           /\ First <= Of(t, Root).start /\ Of(t, Root).start <= Of(t, Root).end /\ Of(t, Root).end <= Last
           /\ Of(t, Root) # Empty /\ SlotOf(t, Root) # SlotOf(t, Data)
<1>1. SlotOf(t, Root) \in Slots /\ t[SlotOf(t, Root)].name = Root /\ Of(t, Root) = t[SlotOf(t, Root)]
  BY SingleIs, RootIs DEF Sound
<1>2. t[SlotOf(t, Root)] # Empty /\ SlotOf(t, Root) # SlotOf(t, Data)
  BY <1>1, UserdataIs DEF Empty, Root, Data
<1>3. Of(t, Root) \in Entry /\ Of(t, Root).start <= Of(t, Root).end
  BY <1>1, <1>2, Entries DEF Sound, Valid, Used
<1> QED BY <1>1, <1>2, <1>3, BoundsAssumption DEF Entry

\* An entry that was empty takes free sectors.
LEMMA Added ==
    ASSUME NEW t, Sound(t), NEW i \in Slots, t[i] = Empty,
           NEW name \in {Root, "foreign"}, NEW a \in Int, NEW b \in Int, a <= b, a..b \subseteq Free(t),
           name = Root => ~Has(t, Root),
           NEW new \in Tables, new[i] = [name |-> name, start |-> a, end |-> b], \A j \in Slots \ {i} : new[j] = t[j]
    PROVE  /\ Sound(new) /\ SlotOf(new, Data) = SlotOf(t, Data) /\ Of(new, Data) = Of(t, Data)
           /\ Others(t, new) /\ Has(new, name) /\ i # SlotOf(t, Data)
           /\ name = Root => /\ Single(new, Root) /\ SlotOf(new, Root) = i
                             /\ Of(new, Root) = [name |-> Root, start |-> a, end |-> b]
                             /\ (Has(new, "foreign") <=> Has(t, "foreign"))
           /\ name # Root => /\ (Has(new, Root) <=> Has(t, Root))
                             /\ Has(t, Root) => Of(new, Root) = Of(t, Root) /\ SlotOf(new, Root) = SlotOf(t, Root)
           /\ Open(new) \subseteq Open(t)
<1> DEFINE e == [name |-> name, start |-> a, end |-> b]
<1>1. Valid(new)
  BY Fills DEF Sound, Names, Root, Data
<1>2. new[i] = e /\ e.name = name /\ \A j \in Slots \ {i} : new[j] = t[j]
  OBVIOUS
<1>3. t[i].name = "none" /\ name # "none" /\ name # Data
  BY DEF Empty, Root, Data
<1> HIDE DEF e
<1>4. SlotOf(t, Data) \in Slots \ {i} /\ t[SlotOf(t, Data)].name = Data /\ \A j \in Slots : t[j].name = Data => j = SlotOf(t, Data)
  BY SingleIs, <1>3 DEF Sound, Data
<1>5. Single(new, Data) /\ SlotOf(new, Data) = SlotOf(t, Data)
  <2>1. new[SlotOf(t, Data)].name = Data /\ \A j \in Slots : new[j].name = Data => j = SlotOf(t, Data)
    BY <1>2, <1>3, <1>4
  <2> QED BY <1>4, <2>1, SlotIs
<1>6. Of(new, Data) = Of(t, Data)
  BY <1>2, <1>4, <1>5 DEF Of
<1>7. OneRoot(new)
  BY <1>2, <1>3 DEF OneRoot, Sound, Has
<1>8. Others(t, new) /\ Has(new, name)
  BY <1>2, <1>3 DEF Others, Has
<1>9. ASSUME name = Root
      PROVE  /\ Single(new, Root) /\ SlotOf(new, Root) = i /\ Of(new, Root) = e
             /\ (Has(new, "foreign") <=> Has(t, "foreign"))
  <2>1. new[i].name = Root /\ \A j \in Slots : new[j].name = Root => j = i
    BY <1>2, <1>9 DEF Has
  <2>2. Single(new, Root) /\ SlotOf(new, Root) = i
    BY <2>1, SlotIs
  <2>4. Has(new, "foreign") <=> Has(t, "foreign")
    BY <1>2, <1>3, <1>9 DEF Has, Root
  <2> QED BY <1>2, <2>2, <2>4 DEF Of
<1>10. ASSUME name # Root
       PROVE  /\ (Has(new, Root) <=> Has(t, Root))
              /\ Has(t, Root) => Of(new, Root) = Of(t, Root) /\ SlotOf(new, Root) = SlotOf(t, Root)
  <2>1. \A j \in Slots : new[j].name = Root <=> t[j].name = Root
    BY <1>2, <1>3, <1>10 DEF Root
  <2>2. Has(new, Root) <=> Has(t, Root)
    BY <2>1 DEF Has
  <2>3. ASSUME Has(t, Root) PROVE Of(new, Root) = Of(t, Root) /\ SlotOf(new, Root) = SlotOf(t, Root)
    <3>1. SlotOf(t, Root) \in Slots /\ t[SlotOf(t, Root)].name = Root /\ \A j \in Slots : t[j].name = Root => j = SlotOf(t, Root)
      BY <2>3, RootIs, SingleIs DEF Sound
    <3>3. SlotOf(new, Root) = SlotOf(t, Root)
      BY <2>1, <3>1, SlotIs
    <3> QED BY <1>2, <1>3, <3>1, <3>3 DEF Of, Root
  <2> QED BY <2>2, <2>3
<1>11. Open(new) \subseteq Open(t)
  <2>1. \A j \in Used(t) : t[j].name # Root => j \in Used(new) /\ new[j] = t[j]
    BY <1>2, <1>3 DEF Used
  <2> QED BY <2>1 DEF Open
<1> QED BY <1>1, <1>2, <1>4, <1>5, <1>6, <1>7, <1>8, <1>9, <1>10, <1>11 DEF Sound, e

\* Another end for userdata.
LEMMA Ended ==
    ASSUME NEW t, Sound(t), NEW e \in Int, Of(t, Data).start <= e, e <= Last,
           NEW new \in Tables, new[SlotOf(t, Data)] = [Of(t, Data) EXCEPT !.end = e],
           \A j \in Slots \ {SlotOf(t, Data)} : new[j] = t[j]
    PROVE  /\ Single(new, Data) /\ OneRoot(new)
           /\ SlotOf(new, Data) = SlotOf(t, Data) /\ Of(new, Data) = [Of(t, Data) EXCEPT !.end = e]
           /\ Of(new, Data).start = Of(t, Data).start /\ Of(new, Data).end = e
           /\ Others(t, new)
           /\ \A name \in {Root, "foreign"} : Has(new, name) <=> Has(t, name)
           /\ Has(t, Root) => Of(new, Root) = Of(t, Root) /\ SlotOf(new, Root) = SlotOf(t, Root)
           /\ Used(new) = Used(t) /\ Unused(new) = Unused(t)
<1> DEFINE d == SlotOf(t, Data)
           f == [t[d] EXCEPT !.end = e]
<1>1. /\ d \in Slots /\ t[d] \in Entry /\ t[d].name = Data /\ t[d] = Of(t, Data) /\ t[d] # Empty
      /\ \A j \in Slots : t[j].name = Data => j = d
  BY UserdataIs, SingleIs DEF Sound
<1>2. f \in Entry /\ f.name = Data /\ f.start = t[d].start /\ f.end = e /\ f # Empty
  <2>1. e \in First..Last
    BY <1>1, UserdataIs, BoundsAssumption
  <2> QED BY <1>1, <2>1 DEF Entry, Empty, Data
<1>3. new[d] = f /\ \A j \in Slots \ {d} : new[j] = t[j]
  BY <1>1
<1> HIDE DEF f, d
<1>4. \A j \in Slots : (new[j].name = t[j].name) /\ (new[j] = Empty <=> t[j] = Empty)
  BY <1>1, <1>2, <1>3
<1>5. Single(new, Data) /\ SlotOf(new, Data) = d /\ Of(new, Data) = f
  <2>1. new[d].name = Data /\ \A j \in Slots : new[j].name = Data => j = d
    BY <1>1, <1>4
  <2> QED BY <1>1, <1>3, <2>1, SlotIs
<1>6. OneRoot(new)
  BY <1>4 DEF OneRoot, Sound
<1>7. Others(t, new)
  BY <1>1, <1>3 DEF Others
<1>8. \A name \in {Root, "foreign"} : Has(new, name) <=> Has(t, name)
  BY <1>4 DEF Has
<1>9. ASSUME Has(t, Root) PROVE Of(new, Root) = Of(t, Root) /\ SlotOf(new, Root) = SlotOf(t, Root)
  <2>1. SlotOf(t, Root) \in Slots /\ t[SlotOf(t, Root)].name = Root /\ \A j \in Slots : t[j].name = Root => j = SlotOf(t, Root)
    BY <1>9, RootIs, SingleIs DEF Sound
  <2>2. SlotOf(new, Root) = SlotOf(t, Root)
    BY <1>4, <2>1, SlotIs
  <2>3. SlotOf(t, Root) # d
    BY <1>1, <2>1 DEF Root, Data
  <2> QED BY <1>3, <2>1, <2>2, <2>3 DEF Of
<1>10. Used(new) = Used(t) /\ Unused(new) = Unused(t)
  BY <1>4 DEF Used, Unused
<1> QED BY <1>1, <1>2, <1>3, <1>5, <1>6, <1>7, <1>8, <1>9, <1>10 DEF d, f

\* The entry of userdata with another end.
LEMMA EndedIs ==
    ASSUME NEW t, Sound(t), NEW e \in Int, Of(t, Data).start <= e, e <= Last
    PROVE  t[SlotOf(t, Data)] = Of(t, Data) /\ [Of(t, Data) EXCEPT !.end = e] \in Entry
<1>1. /\ t[SlotOf(t, Data)] = Of(t, Data) /\ Of(t, Data) \in Entry /\ First <= Of(t, Data).start
      /\ Of(t, Data).start \in Int
  BY UserdataIs
<1>2. e \in First..Last
  BY <1>1, BoundsAssumption
<1> QED BY <1>1, <1>2 DEF Entry

\* e5-gpt resize changes the end of userdata and nothing else.
LEMMA ResizedIs ==
    ASSUME NEW t, Sound(t), NEW size \in Int, size > 0, CanResize(t, size)
    PROVE  /\ Sound(Resized(t, size)) /\ SlotOf(Resized(t, size), Data) = SlotOf(t, Data)
           /\ Of(Resized(t, size), Data).start = Of(t, Data).start
           /\ Of(Resized(t, size), Data).end = Of(t, Data).start + size - 1
           /\ Size(Of(Resized(t, size), Data)) = size
           /\ Others(t, Resized(t, size)) /\ \A j \in Slots \ {SlotOf(t, Data)} : Resized(t, size)[j] = t[j]
           /\ \A name \in {Root, "foreign"} : Has(Resized(t, size), name) <=> Has(t, name)
           /\ Unused(Resized(t, size)) = Unused(t)
<1> DEFINE e == Of(t, Data).start + size - 1
           new == Resized(t, size)
<1>1. e \in Int /\ Of(t, Data).start <= e /\ e <= Last
  BY UserdataIs DEF CanResize
<1>2. new = [t EXCEPT ![SlotOf(t, Data)].end = e]
  BY DEF Resized, Of
<1> HIDE DEF e, new
<1>0. /\ new \in Tables /\ new[SlotOf(t, Data)] = [Of(t, Data) EXCEPT !.end = e]
      /\ \A j \in Slots \ {SlotOf(t, Data)} : new[j] = t[j]
  <2>1. t[SlotOf(t, Data)] = Of(t, Data) /\ [Of(t, Data) EXCEPT !.end = e] \in Entry /\ SlotOf(t, Data) \in Slots
    BY <1>1, EndedIs, UserdataIs
  <2> QED BY <1>2, <2>1 DEF Sound, Tables
<1>3. /\ Single(new, Data) /\ OneRoot(new)
      /\ SlotOf(new, Data) = SlotOf(t, Data) /\ Of(new, Data).start = Of(t, Data).start /\ Of(new, Data).end = e
      /\ Others(t, new)
      /\ \A name \in {Root, "foreign"} : Has(new, name) <=> Has(t, name)
      /\ Used(new) = Used(t) /\ Unused(new) = Unused(t)
  BY <1>0, <1>1, Ended
<1>4. Valid(new)
  <2>1. NoOverlap(new)
    BY DEF CanResize, new
  <2>2. new[SlotOf(t, Data)] = Of(new, Data)
    BY <1>3 DEF Of
  <2>3. \A j \in Used(new) : new[j].start <= new[j].end
    BY <1>0, <1>1, <1>3, <2>2 DEF Sound, Valid, Used
  <2> QED BY <2>1, <2>3 DEF Valid
<1>5. Sound(new)
  BY <1>0, <1>3, <1>4 DEF Sound
<1>6. Size(Of(new, Data)) = size
  BY <1>3, UserdataIs DEF Size, e
<1> QED BY <1>0, <1>3, <1>5, <1>6 DEF e, new

\* Room for the root where free space was found.
LEMMA WithRootIs ==
    ASSUME NEW t, Sound(t), ~Has(t, Root), Unused(t) # {}, NEW start \in Int, NEW need \in Int, need > 0,
           start..(start + need - 1) \subseteq Free(t)
    PROVE  LET new == WithRoot(t, start, need)
           IN  /\ Sound(new) /\ SlotOf(new, Data) = SlotOf(t, Data) /\ Of(new, Data) = Of(t, Data)
               /\ Others(t, new) /\ Has(new, Root) /\ Single(new, Root)
               /\ SlotOf(new, Root) \in Slots /\ SlotOf(new, Root) # SlotOf(t, Data) /\ t[SlotOf(new, Root)] = Empty
               /\ \A j \in Slots \ {SlotOf(new, Root)} : new[j] = t[j]
               /\ Of(new, Root).start = start /\ Of(new, Root).end = start + need - 1 /\ Size(Of(new, Root)) = need
               /\ Has(new, "foreign") <=> Has(t, "foreign")
               /\ Open(new) \subseteq Open(t)
<1> DEFINE i == LeastUnused(t)
           e == start + need - 1
           new == WithRoot(t, start, need)
<1>1. i \in Slots /\ t[i] = Empty
  BY LeastUnusedIs
<1>2. e \in Int /\ start <= e /\ start..e \subseteq Free(t)
  OBVIOUS
<1> DEFINE entry == [name |-> Root, start |-> start, end |-> e]
<1>3. new = [t EXCEPT ![i] = entry]
  BY DEF WithRoot, NewRoot
<1>a. start \in First..Last /\ e \in First..Last
  BY <1>2, FreeIs DEF Sound
<1>b. entry \in Entry
  BY <1>a DEF Entry, Names
<1>0. new \in Tables /\ new[i] = entry /\ \A j \in Slots \ {i} : new[j] = t[j]
  <2> HIDE DEF entry, i, e, new
  <2> QED BY <1>1, <1>3, <1>b DEF Sound, Tables
<1> HIDE DEF i, e, new
<1>4. /\ Sound(new) /\ SlotOf(new, Data) = SlotOf(t, Data) /\ Of(new, Data) = Of(t, Data)
      /\ Others(t, new) /\ Has(new, Root) /\ i # SlotOf(t, Data)
      /\ Single(new, Root) /\ SlotOf(new, Root) = i
      /\ Of(new, Root) = [name |-> Root, start |-> start, end |-> e]
      /\ (Has(new, "foreign") <=> Has(t, "foreign")) /\ Open(new) \subseteq Open(t)
  BY <1>0, <1>1, <1>2, Added
<1>5. Of(new, Root).start = start /\ Of(new, Root).end = e /\ Size(Of(new, Root)) = need
  BY <1>4 DEF Size, e
<1> QED BY <1>0, <1>1, <1>4, <1>5 DEF e, new

\* gpt_add_root takes free sectors.
LEMMA AddRootFits ==
    ASSUME NEW t, NEW start \in Int, NEW need \in Int, CanAddRoot(t, start, need)
    PROVE  need > 0 /\ ~Has(t, Root) /\ Unused(t) # {} /\ start..(start + need - 1) \subseteq Free(t)
<1>1. need > 0
  BY AlignAssumption DEF CanAddRoot
<1>2. PICK g \in Gaps(t) : g.start <= start /\ start + need <= g.start + g.size
  BY DEF CanAddRoot
<1>3. g.start \in Int /\ g.size \in Int /\ g.start..(g.start + g.size - 1) \subseteq Free(t)
  BY GapIs
<1>4. start..(start + need - 1) \subseteq g.start..(g.start + g.size - 1)
  BY <1>2, <1>3
<1> QED BY <1>1, <1>3, <1>4 DEF CanAddRoot

\* So does e5-gpt add.
LEMMA AllocationFits ==
    ASSUME NEW t, NEW need \in Int, need > 0, CanAllocate(t, need)
    PROVE  LET g == FirstOfLargest(Fitting(DeviceGaps(t), need))
           IN  /\ g \in DeviceGaps(t) /\ g.size >= need /\ g.start \in Int /\ ~Has(t, Root) /\ Unused(t) # {}
               /\ g.start..(g.start + need - 1) \subseteq Free(t)
<1> DEFINE g == FirstOfLargest(Fitting(DeviceGaps(t), need))
<1>1. g \in Fitting(DeviceGaps(t), need)
  BY FirstOfLargestIs DEF CanAllocate
<1>2. g \in DeviceGaps(t) /\ g.size >= need
  BY <1>1 DEF Fitting
<1> HIDE DEF g
<1>3. g.start \in Int /\ g.size \in Int /\ g.start..(g.start + g.size - 1) \subseteq Free(t)
  BY <1>2, DeviceGapIs
<1>4. g.start..(g.start + need - 1) \subseteq g.start..(g.start + g.size - 1)
  BY <1>2, <1>3
<1> QED BY <1>2, <1>3, <1>4 DEF CanAllocate, g

\* What userdata gives up is free.
LEMMA GivenUpIsFree ==
    ASSUME NEW t, Sound(t), NEW size \in Int, size > 0, CanResize(t, size),
           NEW s \in Int, Of(t, Data).start + size <= s, s <= Of(t, Data).end
    PROVE  s \in Free(Resized(t, size))
<1> DEFINE new == Resized(t, size)
           d == SlotOf(t, Data)
<1>1. /\ d \in Slots /\ t[d] = Of(t, Data) /\ t[d].start \in Int /\ t[d].end \in Int /\ t[d] # Empty
      /\ First <= t[d].start /\ t[d].end <= Last
  BY UserdataIs
<1>2. /\ SlotOf(new, Data) = d /\ Of(new, Data).end = t[d].start + size - 1
      /\ \A j \in Slots \ {d} : new[j] = t[j]
  BY <1>1, ResizedIs
<1>3. new[d] = Of(new, Data)
  BY <1>2 DEF Of
<1> HIDE DEF new, d
<1>4. s \in First..Last
  BY <1>1, BoundsAssumption
<1>5. ASSUME NEW j \in Used(new), s \in Sectors(new[j]) PROVE FALSE
  <2>1. CASE j = d
    BY <1>1, <1>2, <1>3, <1>5, <2>1 DEF Sectors
  <2>2. CASE j # d
    <3>1. j \in Used(t) /\ d \in Used(t) /\ new[j] = t[j]
      BY <1>1, <1>2, <2>2 DEF Used
    <3>2. Disjoint(t[j], t[d])
      BY <2>2, <3>1 DEF Sound, Valid, NoOverlap
    <3>3. t[j].start \in Int /\ t[j].end \in Int
      BY <3>1, Entries DEF Used, Sound
    <3> QED BY <1>1, <1>5, <3>1, <3>2, <3>3 DEF Disjoint, Sectors
  <2> QED BY <2>1, <2>2
<1> QED BY <1>4, <1>5 DEF Free, new

\* e5-gpt carve-userdata: both edits, on one table.
LEMMA CarvedIs ==
    ASSUME NEW t, Sound(t), NEW size \in Int, NEW need \in Int, NEW previous, CanCarve(t, size, need, previous)
    PROVE  LET new == Carved(t, size, need)
               small == Resized(t, size)
           IN  /\ size > 0 /\ need > 0 /\ ~Has(t, Root) /\ CanResize(t, size)
               /\ Sound(new) /\ SlotOf(new, Data) = SlotOf(t, Data) /\ Of(new, Data) = Of(small, Data)
               /\ Of(new, Data).start = Of(t, Data).start /\ Of(new, Data).end = Of(t, Data).start + size - 1
               /\ Size(Of(new, Data)) = size
               /\ Others(t, new) /\ Has(new, Root) /\ Single(new, Root)
               /\ SlotOf(new, Root) \in Slots /\ SlotOf(new, Root) # SlotOf(t, Data) /\ t[SlotOf(new, Root)] = Empty
               /\ \A j \in Slots \ {SlotOf(new, Root), SlotOf(new, Data)} : new[j] = t[j]
               /\ Of(new, Root).start = Of(t, Data).start + size
               /\ Of(new, Root).end = Of(t, Data).start + size + need - 1 /\ Size(Of(new, Root)) = need
               /\ Has(new, "foreign") <=> Has(t, "foreign")
<1> DEFINE small == Resized(t, size)
           a == Of(t, Data).start + size
           new == Carved(t, size, need)
<1>1. /\ size > 0 /\ need > 0 /\ ~Has(t, Root) /\ CanResize(t, size) /\ Unused(t) # {}
      /\ size + need <= Size(Of(t, Data))
  BY AlignAssumption DEF CanCarve
<1>2. /\ Sound(small) /\ SlotOf(small, Data) = SlotOf(t, Data)
      /\ Of(small, Data).start = Of(t, Data).start /\ Of(small, Data).end = Of(t, Data).start + size - 1
      /\ Size(Of(small, Data)) = size
      /\ Others(t, small) /\ \A j \in Slots \ {SlotOf(t, Data)} : small[j] = t[j]
      /\ \A name \in {Root, "foreign"} : Has(small, name) <=> Has(t, name)
      /\ Unused(small) = Unused(t)
  BY <1>1, ResizedIs
<1>3. a \in Int /\ a + need - 1 <= Of(t, Data).end /\ new = WithRoot(small, a, need)
  BY <1>1, UserdataIs DEF Size, Carved
<1>4. a..(a + need - 1) \subseteq Free(small)
  BY <1>1, <1>3, UserdataIs, GivenUpIsFree
<1> HIDE DEF small, a, new
<1>5. /\ Sound(new) /\ SlotOf(new, Data) = SlotOf(small, Data) /\ Of(new, Data) = Of(small, Data)
      /\ Others(small, new) /\ Has(new, Root) /\ Single(new, Root)
      /\ SlotOf(new, Root) \in Slots /\ SlotOf(new, Root) # SlotOf(small, Data) /\ small[SlotOf(new, Root)] = Empty
      /\ \A j \in Slots \ {SlotOf(new, Root)} : new[j] = small[j]
      /\ Of(new, Root).start = a /\ Of(new, Root).end = a + need - 1 /\ Size(Of(new, Root)) = need
      /\ (Has(new, "foreign") <=> Has(small, "foreign"))
  BY <1>1, <1>2, <1>3, <1>4, WithRootIs
<1>6. Others(t, new)
  BY <1>2, <1>5 DEF Others
<1> QED BY <1>1, <1>2, <1>5, <1>6 DEF small, a, new

\* The root removed: its sectors go to userdata, or are free.
LEMMA RemovedIs ==
    ASSUME NEW t, Sound(t), CanRemove(t), Valid(Removed(t))
    PROVE  /\ Sound(Removed(t)) /\ ~Has(Removed(t), Root) /\ Others(t, Removed(t))
           /\ Size(Of(t, Data)) <= Size(Of(Removed(t), Data))
           /\ Open(Removed(t)) \subseteq Open(t)
<1> DEFINE r == SlotOf(t, Root)
           d == SlotOf(t, Data)
           e == IF Follows(t) THEN Of(t, Root).end ELSE Of(t, Data).end
           f == [Of(t, Data) EXCEPT !.end = e]
           new == Removed(t)
<1>1. /\ r \in Slots /\ t[r] = Of(t, Root) /\ t[r].name = Root /\ r # d /\ t[r].end \in Int /\ t[r].end <= Last
      /\ t[r].start <= t[r].end /\ t[r].start \in Int
  BY RootIs, RootEntryIs DEF CanRemove, Sound
<1>2. /\ d \in Slots /\ t[d] = Of(t, Data) /\ t[d] \in Entry /\ t[d].name = Data /\ t[d] # Empty
      /\ t[d].start \in Int /\ t[d].end \in Int /\ First <= t[d].start /\ t[d].start <= t[d].end /\ t[d].end <= Last
      /\ \A j \in Slots : t[j].name = Data => j = d
  BY UserdataIs, SingleIs DEF Sound
<1>3. e \in First..Last /\ e >= t[d].end
  BY <1>1, <1>2, BoundsAssumption DEF Follows
<1>4. f \in Entry /\ f.name = Data /\ f.start = t[d].start /\ f.end = e /\ f # Empty
  BY <1>2, <1>3 DEF Entry, Empty, Data
<1>5. /\ new \in Tables /\ new[r] = Empty /\ new[d] = f
      /\ \A j \in Slots : j # r /\ j # d => new[j] = t[j]
  <2> HIDE DEF r, d, e
  <2>1. t \in [Slots -> Entry \cup {Empty}]
    BY DEF Sound, Tables
  <2>2. new = [t EXCEPT ![r] = Empty, ![d].end = e]
    BY <1>1, <1>2, <2>1 DEF Removed, r, d, e
  <2> HIDE DEF new
  <2> QED BY <1>1, <1>2, <1>4, <2>1, <2>2 DEF Tables
<1> HIDE DEF f, new, r, d, e
<1>6. \A j \in Slots : j # r /\ j # d => t[j].name # Root /\ t[j].name # Data
  BY <1>1, <1>2 DEF Sound, OneRoot
<1>7. Single(new, Data) /\ SlotOf(new, Data) = d /\ Of(new, Data) = f
  <2>1. new[d].name = Data /\ \A j \in Slots : new[j].name = Data => j = d
    BY <1>4, <1>5, <1>6 DEF Empty, Data
  <2> QED BY <1>2, <1>5, <2>1, SlotIs
<1>8. \A j \in Slots : new[j].name # Root
  BY <1>4, <1>5, <1>6 DEF Empty, Root, Data
<1>9. Sound(new) /\ ~Has(new, Root)
  BY <1>5, <1>7, <1>8 DEF Sound, OneRoot, Has, new
<1>10. Others(t, new)
  BY <1>1, <1>2, <1>5 DEF Others
<1>11. Size(Of(t, Data)) <= Size(Of(new, Data))
  BY <1>2, <1>3, <1>4, <1>7 DEF Size
<1>12. Open(new) \subseteq Open(t)
  <2>1. ASSUME NEW j \in Used(t), t[j].name # Root
        PROVE  j \in Used(new) /\ new[j].name # Root /\ Sectors(t[j]) \subseteq Sectors(new[j])
    <3>1. CASE j = d
      <4>1. Sectors(t[d]) \subseteq Sectors(f)
        BY <1>2, <1>3, <1>4 DEF Sectors
      <4> QED BY <1>2, <1>4, <1>5, <3>1, <4>1 DEF Used, Root, Data
    <3>2. CASE j # d
      BY <1>1, <1>5, <2>1, <3>2 DEF Used
    <3> QED BY <3>1, <3>2
  <2> QED BY <2>1 DEF Open
<1> QED BY <1>9, <1>10, <1>11, <1>12 DEF new

\* What a saved table explains goes back to that table.
LEMMA RestoredIs ==
    ASSUME NEW old, NEW now, Sound(old), Sound(now), CanRestore(old, now)
    PROVE  /\ Restored(old, now) = old /\ ~Has(old, Root) /\ Others(now, old)
           /\ Size(Of(now, Data)) <= Size(Of(old, Data))
           /\ Open(old) \subseteq Open(now)
<1> DEFINE r == SlotOf(now, Root)
           d == SlotOf(now, Data)
<1>1. /\ r \in Slots /\ now[r] = Of(now, Root) /\ now[r].name = Root /\ r # d
  BY RootIs, RootEntryIs DEF CanRestore, Sound
<1>2. /\ d \in Slots /\ now[d] = Of(now, Data) /\ now[d] \in Entry /\ now[d].name = Data /\ now[d] # Empty
      /\ now[d].start \in Int /\ now[d].end \in Int
  BY UserdataIs
<1>3. /\ old[d] = Of(old, Data) /\ old[d] \in Entry /\ old[d].name = Data /\ old[d] # Empty
      /\ old[d].start \in Int /\ old[d].end \in Int /\ old[d].start = now[d].start
  BY <1>2, UserdataIs DEF CanRestore
<1>4. old[r] = Empty /\ \A i \in Slots : i # r /\ i # d => old[i] = now[i]
  BY DEF CanRestore
<1>5. old[d].end >= now[d].end
  BY <1>2, <1>3 DEF CanRestore, GaveUp, FromGap
<1>6. Restored(old, now) = old
  <2>1. now \in [Slots -> Entry \cup {Empty}] /\ old \in [Slots -> Entry \cup {Empty}]
    BY DEF Sound, Tables
  <2>2. [now[d] EXCEPT !.end = old[d].end] = old[d]
    BY <1>2, <1>3 DEF Entry
  <2>3. Restored(old, now) = [now EXCEPT ![r] = Empty, ![d] = old[d]]
    <3>1. Restored(old, now) = [now EXCEPT ![r] = Empty, ![d].end = old[d].end]
      BY <1>3, <1>4 DEF Restored
    <3>2. [now EXCEPT ![r] = Empty, ![d].end = old[d].end] = [now EXCEPT ![r] = Empty, ![d] = [now[d] EXCEPT !.end = old[d].end]]
      <4> HIDE DEF r, d
      <4> QED BY <1>1, <1>2, <2>1
    <3> HIDE DEF r, d
    <3> QED BY <2>2, <3>1, <3>2
  <2> HIDE DEF r, d
  <2> DEFINE new == [now EXCEPT ![r] = Empty, ![d] = old[d]]
  <2>4. new \in [Slots -> Entry \cup {Empty}] /\ \A i \in Slots : new[i] = old[i]
    BY <1>1, <1>2, <1>3, <1>4, <2>1
  <2>5. new = old
    <3> HIDE DEF new
    <3> QED BY <2>1, <2>4
  <2> QED BY <2>3, <2>5
<1> HIDE DEF r, d
<1>7. \A i \in Slots : i # r /\ i # d => now[i].name # Root /\ now[i].name # Data
  BY <1>1, <1>2, SingleIs DEF Sound, OneRoot, d
<1>8. ~Has(old, Root)
  BY <1>3, <1>4, <1>7 DEF Has, Empty, Root, Data
<1>9. Others(now, old)
  BY <1>1, <1>2, <1>4 DEF Others
<1>10. Size(Of(now, Data)) <= Size(Of(old, Data))
  BY <1>2, <1>3, <1>5 DEF Size
<1>11. Open(old) \subseteq Open(now)
  <2>1. ASSUME NEW j \in Used(now), now[j].name # Root
        PROVE  j \in Used(old) /\ old[j].name # Root /\ Sectors(now[j]) \subseteq Sectors(old[j])
    <3>1. CASE j = d
      <4>1. Sectors(now[d]) \subseteq Sectors(old[d])
        BY <1>2, <1>3, <1>5 DEF Sectors
      <4> QED BY <1>2, <1>3, <3>1, <4>1 DEF Used, Root, Data
    <3>2. CASE j # d
      BY <1>1, <1>4, <2>1, <3>2 DEF Used
    <3> QED BY <3>1, <3>2
  <2> QED BY <2>1 DEF Open
<1> QED BY <1>6, <1>8, <1>9, <1>10, <1>11

\* The gap that a plan names.
LEMMA LastOfLargestIs ==
    ASSUME NEW G, G # {}, NEW t, G \subseteq Gaps(t)
    PROVE  LastOfLargest(G) \in G
<1> DEFINE Widths == {Last + 1 - g.size : g \in G}
<1>0. \A g \in G : g.size \in Int /\ g.size <= Last + 1 /\ g.start \in Int /\ g.start <= Last + 1
  <2> SUFFICES ASSUME NEW g \in G PROVE g.size \in Int /\ g.size <= Last + 1 /\ g.start \in Int /\ g.start <= Last + 1
    OBVIOUS
  <2>1. g.start \in Int /\ g.size \in Int /\ g.size > 0 /\ g.start..(g.start + g.size - 1) \subseteq Free(t)
    BY GapIs
  <2>2. g.start <= g.start + g.size - 1
    BY <2>1
  <2>3. g.start \in First..Last /\ g.start + g.size - 1 \in First..Last
    BY <2>1, <2>2 DEF Free
  <2> QED BY <2>1, <2>3, BoundsAssumption
<1>2. Widths \in SUBSET Nat /\ Widths # {}
  BY <1>0, BoundsAssumption
<1>3. PICK m \in Widths : \A n \in Widths : m <= n
  BY <1>2, Least
<1> DEFINE Starts == {Last + 1 - g.start : g \in {x \in G : Last + 1 - x.size = m}}
<1>4. Starts \in SUBSET Nat /\ Starts # {}
  BY <1>0, <1>3, BoundsAssumption
<1>5. PICK s \in Starts : \A n \in Starts : s <= n
  BY <1>4, Least
<1>6. PICK g \in G : Last + 1 - g.start = s /\ Last + 1 - g.size = m
  BY <1>5
<1>7. \A o \in G : o.size < g.size \/ (o.size = g.size /\ o.start <= g.start)
  <2> SUFFICES ASSUME NEW o \in G PROVE o.size < g.size \/ (o.size = g.size /\ o.start <= g.start)
    OBVIOUS
  <2>1. m <= Last + 1 - o.size
    BY <1>3
  <2>2. Last + 1 - o.size = m => s <= Last + 1 - o.start
    BY <1>5
  <2> QED BY <1>0, <1>6, <2>1, <2>2, BoundsAssumption
<1> QED BY <1>7 DEF LastOfLargest

\* The gap that a plan names.
LEMMA PlannedGapIs ==
    ASSUME NEW G, NEW t, G \subseteq Gaps(t), NEW need, Fitting(G, need) # {}
    PROVE  LastOfLargest(Fitting(G, need)) \in G /\ LastOfLargest(Fitting(G, need)).start \in Int
<1>1. Fitting(G, need) \subseteq Gaps(t)
  BY DEF Fitting
<1>2. LastOfLargest(Fitting(G, need)) \in Fitting(G, need)
  BY <1>1, LastOfLargestIs
<1> QED BY <1>1, <1>2, GapIs DEF Fitting

\* A hole where userdata ended, or one that was there before.
LEMMA NewHoleIs ==
    ASSUME NEW t, Sound(t), NEW size \in Int, size > 0, CanResize(t, size),
           size <= Size(Of(t, Data)), NEW h \in Holes(Resized(t, size))
    PROVE  h \in Holes(t) \/ h[1] = Of(t, Data).start + size
<1> DEFINE new == Resized(t, size)
           d == SlotOf(t, Data)
           a == Of(t, Data).start + size
           e == Of(t, Data).end
<1>1. /\ d \in Slots /\ t[d] = Of(t, Data) /\ t[d] # Empty /\ t[d].start \in Int /\ e \in Int /\ t[d].end = e
      /\ First <= t[d].start /\ t[d].start <= e /\ e <= Last /\ a \in Int /\ a <= e + 1
  BY UserdataIs DEF Size
<1>2. /\ Sound(new) /\ SlotOf(new, Data) = d /\ Of(new, Data).start = t[d].start /\ Of(new, Data).end = a - 1
      /\ \A j \in Slots \ {d} : new[j] = t[j]
  BY <1>1, ResizedIs
<1>3. new[d] = Of(new, Data) /\ new[d] # Empty
  BY <1>2, UserdataIs
<1>4. \A s \in a..e : s \in Free(new)
  BY GivenUpIsFree
<1> HIDE DEF new, a, e
<1>5. Free(new) = Free(t) \cup (a..e)
  <2>1. \A j \in Used(new) : j # d => j \in Used(t) /\ new[j] = t[j]
    BY <1>2 DEF Used
  <2>2. \A j \in Used(t) : j # d => j \in Used(new) /\ new[j] = t[j]
    BY <1>2 DEF Used
  <2>3. ASSUME NEW s \in Free(t) PROVE s \in Free(new)
    <3>1. s \in Int /\ s \in First..Last /\ s \notin Sectors(t[d])
      BY <1>1, BoundsAssumption DEF Free, Used
    <3>2. s \notin Sectors(new[d])
      BY <1>1, <1>2, <1>3, <3>1 DEF Sectors
    <3>3. \A j \in Used(new) : s \notin Sectors(new[j])
      BY <2>1, <3>2 DEF Free
    <3> QED BY <3>1, <3>3 DEF Free
  <2>4. ASSUME NEW s \in Free(new), s \notin a..e PROVE s \in Free(t)
    <3>1. s \in Int /\ s \in First..Last /\ s \notin Sectors(new[d])
      BY <1>1, <1>2, <1>3, BoundsAssumption DEF Free, Used
    <3>2. s \notin Sectors(t[d])
      BY <1>1, <1>2, <1>3, <2>4, <3>1 DEF Sectors
    <3>3. \A j \in Used(t) : s \notin Sectors(t[j])
      BY <2>2, <3>2 DEF Free
    <3> QED BY <3>1, <3>3 DEF Free
  <2> QED BY <1>4, <2>3, <2>4
<1>6. a - 1 \notin Free(new)
  <2>1. a - 1 \in Sectors(new[d])
    BY <1>1, <1>2, <1>3, UserdataIs DEF Sectors
  <2> QED BY <1>1, <1>3, <2>1 DEF Free, Used
<1>7. /\ h[1] \in Int /\ h[2] \in Int /\ h[1] <= h[2] /\ h[1]..h[2] \subseteq Free(new)
      /\ h[1] - 1 \notin Free(new) /\ h[2] + 1 \notin Free(new) /\ h = <<h[1], h[2]>>
  BY HoleIs DEF Holes, new
<1>8. CASE \E s \in h[1]..h[2] : s \in a..e
  <2>1. PICK s \in h[1]..h[2] : s \in a..e
    BY <1>8
  <2>2. h[1] <= a
    <3>1. ~(h[1] <= a) => h[1] - 1 \in a..e
      BY <1>1, <1>7, <2>1
    <3> QED BY <1>5, <1>7, <3>1
  <2>3. ~(h[1] <= a - 1)
    <3>1. h[1] <= a - 1 => a - 1 \in h[1]..h[2]
      BY <1>1, <1>7, <2>1
    <3> QED BY <1>6, <1>7, <3>1
  <2> QED BY <1>1, <1>7, <2>2, <2>3 DEF a
<1>9. CASE \A s \in h[1]..h[2] : s \notin a..e
  <2>1. h[1]..h[2] \subseteq Free(t) /\ h[1] \in Free(t) /\ h[2] \in Free(t)
    BY <1>5, <1>7, <1>9
  <2>2. h[1] - 1 \notin Free(t) /\ h[2] + 1 \notin Free(t)
    BY <1>5, <1>7
  <2> QED BY <1>7, <2>1, <2>2 DEF Holes
<1> QED BY <1>8, <1>9

\* The largest free range of a phone without a gap is where userdata ended.
LEMMA AllocatedAfterUserdata ==
    ASSUME NEW t, Sound(t), NEW size \in Int, size > 0, CanResize(t, size), size <= Size(Of(t, Data)),
           (Of(t, Data).start + size) % Align = 0,
           NEW need \in Int, need > 0, need % Align = 0, Fitting(Gaps(t), need) = {},
           CanAllocate(Resized(t, size), need)
    PROVE  Allocated(Resized(t, size), need) = WithRoot(Resized(t, size), Of(t, Data).start + size, need)
<1> DEFINE g == FirstOfLargest(Fitting(DeviceGaps(Resized(t, size)), need))
           new == Resized(t, size)
           a == Of(t, Data).start + size
<1>1. g \in DeviceGaps(new) /\ g.size >= need
  BY AllocationFits
<1>2. PICK h \in Holes(new) : g = [start |-> Up(h[1]), size |-> h[2] - Up(h[1]) + 1]
  BY <1>1 DEF DeviceGaps
<1>3. h \in Holes(t) \/ h[1] = a
  BY NewHoleIs
<1> HIDE DEF g, new
<1>4. g.start = Up(h[1]) /\ g.size = h[2] - Up(h[1]) + 1
  BY <1>2
<1>5. h \notin Holes(t)
  <2> SUFFICES ASSUME h \in Holes(t) PROVE FALSE
    OBVIOUS
  <2>1. h[1] \in Int /\ h[2] \in Int /\ h[2] + 1 \in Int
    BY HoleIs
  <2>2. Up(h[1]) \in Int /\ Up(h[1]) % Align = 0
    BY <2>1, UpFacts
  <2>3. Up(h[1]) + need <= h[2] + 1
    BY <1>1, <1>4, <2>1, <2>2
  <2>4. (Up(h[1]) + need) % Align = 0 /\ Up(h[1]) + need \in Int
    <3> DEFINE u == Up(h[1])
    <3>1. u \in Int /\ u % Align = 0
      BY <2>2
    <3> HIDE DEF u
    <3>2. (u + need) % Align = 0 /\ u + need \in Int
      BY <3>1, Shifted
    <3> QED BY <3>2 DEF u
  <2>5. Down(h[2] + 1) \in Int /\ Up(h[1]) + need <= Down(h[2] + 1)
    <3> DEFINE m == Up(h[1]) + need
               n == h[2] + 1
    <3>1. m \in Int /\ n \in Int /\ m % Align = 0 /\ m <= n
      BY <2>1, <2>3, <2>4
    <3> HIDE DEF m, n
    <3>2. Down(n) \in Int /\ m <= Down(n)
      BY <3>1, DownFacts
    <3> QED BY <3>2 DEF m, n
  <2> DEFINE gap == [start |-> Up(h[1]), size |-> Down(h[2] + 1) - Up(h[1])]
  <2>6. gap.size >= need /\ gap.size > 0
    BY <2>2, <2>5
  <2>7. gap \in Gaps(t)
    BY <2>6 DEF Gaps
  <2>8. gap \in Fitting(Gaps(t), need)
    BY <2>6, <2>7 DEF Fitting
  <2> QED BY <2>8
<1>6. a \in Int /\ Up(a) = a
  BY UserdataIs, UpFacts
<1>7. g.start = a
  BY <1>3, <1>4, <1>5, <1>6
<1> QED BY <1>7 DEF Allocated, g, new

\* A saved table explains a root in one of its gaps.
LEMMA GapExplained ==
    ASSUME NEW old, Sound(old), NEW start \in Int, NEW need \in Int, CanAddRoot(old, start, need)
    PROVE  LET now == WithRoot(old, start, need)
           IN  CanRestore(old, now) /\ Size(Of(now, Root)) = need /\ Of(now, Root).start = start
<1> DEFINE now == WithRoot(old, start, need)
<1>1. need > 0 /\ ~Has(old, Root) /\ Unused(old) # {} /\ start..(start + need - 1) \subseteq Free(old)
  BY AddRootFits
<1>2. /\ Sound(now) /\ SlotOf(now, Data) = SlotOf(old, Data) /\ Of(now, Data) = Of(old, Data)
      /\ Single(now, Root) /\ SlotOf(now, Root) \in Slots /\ old[SlotOf(now, Root)] = Empty
      /\ \A j \in Slots \ {SlotOf(now, Root)} : now[j] = old[j]
      /\ Of(now, Root).start = start /\ Of(now, Root).end = start + need - 1 /\ Size(Of(now, Root)) = need
  <2>1. now = WithRoot(old, start, need)
    OBVIOUS
  <2> HIDE DEF now
  <2> QED BY <1>1, <2>1, WithRootIs
<1> HIDE DEF now
<1>3. PICK g \in Gaps(old) : g.start <= start /\ start + need <= g.start + g.size
  BY DEF CanAddRoot
<1>4. g.start \in Int /\ g.size \in Int
  BY GapIs
<1>5. ~GaveUp(old, now)
  BY <1>2, UserdataIs DEF GaveUp
<1>6. FromGap(old, now)
  BY <1>2, <1>3, <1>4 DEF FromGap
<1>7. \A i \in Slots \ {SlotOf(now, Root), SlotOf(now, Data)} : old[i] = now[i]
  BY <1>2
<1>8. CanRestore(old, now)
  BY <1>2, <1>5, <1>6, <1>7 DEF CanRestore, Sound
<1> QED BY <1>2, <1>8 DEF now

\* And one in what userdata gave up.
LEMMA TakingExplained ==
    ASSUME NEW old, Sound(old), NEW now, Sound(now), NEW size \in Int, NEW need \in Int, need > 0, need % Align = 0,
           size = Down(Size(Of(old, Data))) - need,
           SlotOf(now, Data) = SlotOf(old, Data), Of(now, Data).start = Of(old, Data).start,
           Of(now, Data).end = Of(old, Data).start + size - 1,
           Single(now, Root), old[SlotOf(now, Root)] = Empty,
           \A j \in Slots \ {SlotOf(now, Root), SlotOf(now, Data)} : now[j] = old[j],
           Of(now, Root).start = Of(old, Data).start + size, Of(now, Root).end = Of(old, Data).start + size + need - 1
    PROVE  CanRestore(old, now) /\ GaveUp(old, now) /\ Size(Of(now, Root)) = need
<1> DEFINE whole == Size(Of(old, Data))
<1>1. /\ Of(old, Data).start \in Int /\ Of(old, Data).end \in Int /\ whole \in Int
      /\ whole = Of(old, Data).end - Of(old, Data).start + 1
  BY UserdataIs DEF Size
<1> HIDE DEF whole
<1>2. Down(whole) \in Int /\ Down(whole) <= whole
  BY <1>1, DownFacts
<1>3. -need \in Int /\ (-need) % Align = 0 /\ whole + (-need) = whole - need
  <2>1. 0 \in Int /\ 0 % Align = 0 /\ 0 - need = -need
    BY AlignAssumption
  <2>2. (0 - need) % Align = 0
    BY <2>1, Shifted
  <2> QED BY <1>1, <2>1, <2>2
<1>4. Down(whole - need) = Down(whole) - need
  <2> DEFINE m == -need
  <2>1. m \in Int /\ m % Align = 0 /\ whole + m = whole - need
    BY <1>3
  <2> HIDE DEF m
  <2>2. Down(whole + m) = Down(whole) + m
    BY <1>1, <2>1, DownShifted
  <2> QED BY <1>2, <2>1, <2>2 DEF m
<1>5. size = Down(whole) - need
  BY DEF whole
<1>6. GaveUp(old, now)
  BY <1>1, <1>2, <1>5 DEF GaveUp
<1>7. Size(Of(now, Root)) = need /\ Size(Of(now, Data)) = size
  BY <1>1 DEF Size
<1>8. FromUserdata(old, now)
  <2>1. Of(now, Root).start = Of(now, Data).end + 1 /\ Of(now, Root).end <= Of(old, Data).end
    BY <1>1, <1>2, <1>5
  <2>2. Size(Of(now, Data)) = Down(Size(Of(old, Data)) - Size(Of(now, Root)))
    BY <1>4, <1>5, <1>7 DEF whole
  <2> QED BY <2>1, <2>2 DEF FromUserdata
<1>9. CanRestore(old, now)
  BY <1>6, <1>8 DEF CanRestore, Sound
<1> QED BY <1>6, <1>7, <1>9

\* A root in a gap that does not begin before an old filesystem is beside it.
LEMMA SparedIs ==
    ASSUME NEW t, NEW start \in Int, NEW need \in Int, CanAddRoot(t, start, need), NEW marks, start \notin marks,
           \A u \in marks : \A s \in First..(u - 1) : s % Align = 0 => ~(s..u \subseteq Open(t))
    PROVE  (start..(start + need - 1)) \cap marks = {}
<1>1. need > 0 /\ start..(start + need - 1) \subseteq Free(t) /\ start % Align = 0
  BY AddRootFits DEF CanAddRoot
<1>2. Free(t) \subseteq Open(t) /\ Free(t) \subseteq First..Last
  BY DEF Free, Open
<1>3. ASSUME NEW u \in start..(start + need - 1), u \in marks PROVE FALSE
  <2>1. u \in Int /\ start < u /\ start \in First..(u - 1)
    BY <1>1, <1>2, <1>3, BoundsAssumption
  <2>2. start..u \subseteq Open(t)
    BY <1>1, <1>2, <1>3
  <2> QED BY <1>1, <1>3, <2>1, <2>2
<1> QED BY <1>3

\* A gap's first sector is the first aligned one of its hole.
LEMMA GapBegins ==
    ASSUME NEW t, ~Has(t, Root), NEW g \in Gaps(t), NEW s \in First..(g.start - 1), s % Align = 0, s..g.start \subseteq Open(t)
    PROVE  FALSE
<1>1. PICK h \in Holes(t) : g = [start |-> Up(h[1]), size |-> Down(h[2] + 1) - Up(h[1])]
  BY DEF Gaps
<1>2. h[1] \in Int /\ h[2] \in Int /\ h[1] <= h[2] /\ h[1]..h[2] \subseteq Free(t) /\ h[1] - 1 \notin Free(t)
  BY HoleIs DEF Holes
<1>3. g.start = Up(h[1]) /\ g.start \in Int /\ s \in Int /\ s < g.start
  BY <1>1, GapIs, BoundsAssumption
<1>4. Open(t) = Free(t)
  BY DEF Open, Free, Has, Used
<1>5. h[1] <= g.start /\ (h[1] <= s => Up(h[1]) <= s)
  BY <1>2, <1>3, UpFacts
<1>6. s <= h[1] - 1 /\ h[1] - 1 <= g.start
  BY <1>2, <1>3, <1>5
<1>7. h[1] - 1 \in s..g.start
  BY <1>2, <1>3, <1>6
<1> QED BY <1>2, <1>4, <1>7

\* A table that userdata's new end made sound is one that e5-gpt makes; making it twice is
\* making it once.
LEMMA ResizedTwice ==
    ASSUME NEW t, Sound(t), NEW size \in Int, size > 0, Sound(Resized(t, size))
    PROVE  CanResize(t, size) /\ Resized(Resized(t, size), size) = Resized(t, size)
<1> DEFINE e == Of(t, Data).start + size - 1
           d == SlotOf(t, Data)
           new == Resized(t, size)
<1>1. /\ d \in Slots /\ t[d] = Of(t, Data) /\ t[d] \in Entry /\ t[d].name = Data
      /\ \A i \in Slots : t[i].name = Data => i = d
      /\ t \in [Slots -> Entry \cup {Empty}]
  BY UserdataIs, SingleIs DEF Sound, Tables
<1>2. new = [t EXCEPT ![d].end = e]
  BY DEF Resized, Of
<1> HIDE DEF new, d
<1>3. new[d] = [t[d] EXCEPT !.end = e] /\ \A j \in Slots \ {d} : new[j] = t[j]
  BY <1>1, <1>2
<1>4. new[d].name = Data /\ new[d].start = t[d].start /\ new[d].end = e
  BY <1>1, <1>3 DEF Entry
<1>5. \A j \in Slots : new[j].name = Data => j = d
  BY <1>1, <1>3, <1>4
<1>6. SlotOf(new, Data) = d /\ Of(new, Data) = new[d]
  BY <1>1, <1>4, <1>5, SlotIs
<1>7. e <= Last /\ NoOverlap(new)
  BY <1>4, <1>6, UserdataIs DEF new, Sound, Valid
<1>8. CanResize(t, size)
  BY <1>7 DEF CanResize, new, Sound
<1>9. Resized(new, size) = [new EXCEPT ![d].end = e]
  BY <1>1, <1>4, <1>6 DEF Resized
<1>10. [new EXCEPT ![d].end = e] = new
  <2>1. new[d] = [name |-> t[d].name, start |-> t[d].start, end |-> e]
    BY <1>1, <1>3 DEF Entry
  <2>2. [new[d] EXCEPT !.end = e] = new[d]
    BY <2>1
  <2> QED BY <1>1, <1>2, <2>2
<1> QED BY <1>8, <1>9, <1>10 DEF new

\* The root that userdata makes room for is explained by the table before.
LEMMA ShrinkExplained ==
    ASSUME NEW old, Sound(old), NEW size \in Int, size > 0, size % Align = 0, NEW need \in Int, need > 0, need % Align = 0,
           size = Down(Size(Of(old, Data))) - need, size <= Size(Of(old, Data)), Of(old, Data).start % Align = 0,
           Sound(Resized(old, size)), Fitting(Gaps(old), need) = {} \/ Unused(old) = {},
           CanAllocate(Resized(old, size), need)
    PROVE  LET now == Allocated(Resized(old, size), need)
           IN  CanRestore(old, now) /\ GaveUp(old, now) /\ Size(Of(now, Root)) = need
<1> DEFINE small == Resized(old, size)
           now == Allocated(small, need)
           s == Of(old, Data).start + size
           g == FirstOfLargest(Fitting(DeviceGaps(small), need)).start
<1>1. CanResize(old, size)
  BY ResizedTwice
<1>2. /\ SlotOf(small, Data) = SlotOf(old, Data) /\ Of(small, Data).start = Of(old, Data).start
      /\ Of(small, Data).end = Of(old, Data).start + size - 1
      /\ \A j \in Slots \ {SlotOf(old, Data)} : small[j] = old[j]
      /\ Unused(small) = Unused(old)
  BY <1>1, ResizedIs
<1>3. /\ g \in Int /\ ~Has(small, Root) /\ Unused(small) # {} /\ g..(g + need - 1) \subseteq Free(small)
  BY AllocationFits
<1>4. s \in Int /\ s % Align = 0
  <2> DEFINE a == Of(old, Data).start
  <2>1. a \in Int /\ a % Align = 0
    BY UserdataIs
  <2> HIDE DEF a
  <2>2. (a + size) % Align = 0
    BY <2>1, Shifted
  <2> QED BY <2>1, <2>2 DEF a
<1>5. now = WithRoot(small, s, need)
  <2>1. Fitting(Gaps(old), need) = {}
    BY <1>2, <1>3
  <2> QED BY <1>1, <1>4, <2>1, AllocatedAfterUserdata
<1>6. now = WithRoot(small, g, need)
  BY DEF Allocated
<1>7. LeastUnused(small) \in Slots
  BY <1>3, LeastUnusedIs
<1> HIDE DEF g, s, now, small
<1>8. Sound(small)
  BY DEF small
<1>9. /\ Sound(now) /\ SlotOf(now, Data) = SlotOf(small, Data) /\ Of(now, Data) = Of(small, Data)
      /\ Single(now, Root)
      /\ SlotOf(now, Root) \in Slots /\ SlotOf(now, Root) # SlotOf(small, Data) /\ small[SlotOf(now, Root)] = Empty
      /\ \A j \in Slots \ {SlotOf(now, Root)} : now[j] = small[j]
      /\ Of(now, Root).start = g /\ Of(now, Root).end = g + need - 1
  BY <1>3, <1>6, <1>8, WithRootIs
<1>10. g = s
  <2> DEFINE i == LeastUnused(small)
  <2>1. now[i].name = Root /\ now[i].start = s
    <3>1. now[i] = NewRoot(s, need)
      BY <1>5, <1>7, <1>8 DEF WithRoot, Sound, Tables
    <3> QED BY <3>1 DEF NewRoot
  <2>2. Of(now, Root) = now[i]
    BY <1>7, <1>9, <2>1, SingleIs
  <2> QED BY <1>9, <2>1, <2>2
<1>11. /\ Of(now, Root).start = Of(old, Data).start + size /\ Of(now, Root).end = Of(old, Data).start + size + need - 1
  BY <1>9, <1>10 DEF s
<1>12. /\ old[SlotOf(now, Root)] = Empty
       /\ \A j \in Slots \ {SlotOf(now, Root), SlotOf(now, Data)} : now[j] = old[j]
       /\ SlotOf(now, Data) = SlotOf(old, Data) /\ Of(now, Data).start = Of(old, Data).start
       /\ Of(now, Data).end = Of(old, Data).start + size - 1
  BY <1>2, <1>9
<1>13. CanRestore(old, now) /\ GaveUp(old, now) /\ Size(Of(now, Root)) = need
  BY <1>9, <1>11, <1>12, TakingExplained
<1> QED BY <1>13 DEF now, small

\* So is the root that is carved out of userdata.
LEMMA CarveExplained ==
    ASSUME NEW old, Sound(old), NEW size \in Int, NEW need \in Int, need % Align = 0,
           size = Down(Size(Of(old, Data))) - need, NEW previous, CanCarve(old, size, need, previous)
    PROVE  LET now == Carved(old, size, need)
           IN  CanRestore(old, now) /\ GaveUp(old, now) /\ Size(Of(now, Root)) = need
<1> DEFINE now == Carved(old, size, need)
<1>1. /\ need > 0 /\ Sound(now) /\ SlotOf(now, Data) = SlotOf(old, Data)
      /\ Of(now, Data).start = Of(old, Data).start /\ Of(now, Data).end = Of(old, Data).start + size - 1
      /\ Single(now, Root) /\ old[SlotOf(now, Root)] = Empty
      /\ \A j \in Slots \ {SlotOf(now, Root), SlotOf(now, Data)} : now[j] = old[j]
      /\ Of(now, Root).start = Of(old, Data).start + size
      /\ Of(now, Root).end = Of(old, Data).start + size + need - 1
  BY CarvedIs
<1> HIDE DEF now
<1>2. CanRestore(old, now) /\ GaveUp(old, now) /\ Size(Of(now, Root)) = need
  BY <1>1, TakingExplained
<1> QED BY <1>2 DEF now

\* A root that may be removed leaves a table that is one, and its sectors go to userdata or to
\* nobody.
LEMMA RemovedLayout ==
    ASSUME NEW t, Sound(t), CanRemove(t)
    PROVE  /\ Removed(t) \in Tables /\ Valid(Removed(t)) /\ ~Has(Removed(t), Root) /\ Single(Removed(t), Data)
           /\ \A i \in Slots : t[i].name \notin {Root, Data} => Removed(t)[i] = t[i]
           /\ Of(Removed(t), Data) =
                 [Of(t, Data) EXCEPT !.end = IF Follows(t) THEN Of(t, Root).end ELSE Of(t, Data).end]
<1> DEFINE r == SlotOf(t, Root)
           d == SlotOf(t, Data)
           e == IF Follows(t) THEN Of(t, Root).end ELSE Of(t, Data).end
           f == [Of(t, Data) EXCEPT !.end = e]
           new == Removed(t)
<1>1. /\ r \in Slots /\ t[r] = Of(t, Root) /\ t[r].name = Root /\ r # d /\ t[r].end \in Int /\ t[r].end <= Last
      /\ t[r].start <= t[r].end /\ t[r].start \in Int /\ t[r] # Empty
      /\ \A j \in Slots : t[j].name = Root => j = r
  BY RootIs, RootEntryIs, SingleIs DEF CanRemove, Sound
<1>2. /\ d \in Slots /\ t[d] = Of(t, Data) /\ t[d] \in Entry /\ t[d].name = Data /\ t[d] # Empty
      /\ t[d].start \in Int /\ t[d].end \in Int /\ First <= t[d].start /\ t[d].start <= t[d].end /\ t[d].end <= Last
      /\ \A j \in Slots : t[j].name = Data => j = d
  BY UserdataIs, SingleIs DEF Sound
<1>3. e \in First..Last /\ e >= t[d].end /\ e \in Int
  BY <1>1, <1>2, BoundsAssumption DEF Follows
<1>4. f \in Entry /\ f.name = Data /\ f.start = t[d].start /\ f.end = e /\ f # Empty
  BY <1>2, <1>3 DEF Entry, Empty, Data
<1>5. /\ new \in Tables /\ new[r] = Empty /\ new[d] = f
      /\ \A j \in Slots : j # r /\ j # d => new[j] = t[j]
  <2> HIDE DEF r, d, e
  <2>1. t \in [Slots -> Entry \cup {Empty}]
    BY DEF Sound, Tables
  <2>2. new = [t EXCEPT ![r] = Empty, ![d].end = e]
    BY <1>1, <1>2, <2>1 DEF Removed, r, d, e
  <2> HIDE DEF new
  <2> QED BY <1>1, <1>2, <1>4, <2>1, <2>2 DEF Tables
<1>6. e = t[d].end \/ (t[r].start = t[d].end + 1 /\ e = t[r].end)
  BY <1>1, <1>2 DEF Follows
<1> HIDE DEF f, new, r, d, e
<1>7. Used(new) = Used(t) \ {r}
  <2>1. d \in Used(new) /\ d \in Used(t) /\ r \notin Used(new)
    BY <1>1, <1>2, <1>4, <1>5 DEF Used
  <2> QED BY <1>5, <2>1 DEF Used
<1>8. ASSUME NEW j \in Used(t), j # r, j # d
      PROVE  t[j].end < f.start \/ f.end < t[j].start
  <2>1. j \in Slots /\ t[j].start \in Int /\ t[j].end \in Int /\ t[j].start <= t[j].end
    BY <1>8, Entries DEF Used, Sound, Valid
  <2>2. Disjoint(t[j], t[d]) /\ Disjoint(t[j], t[r])
    BY <1>1, <1>2, <1>8 DEF Sound, Valid, NoOverlap, Used
  <2> QED BY <1>1, <1>2, <1>3, <1>4, <1>6, <2>1, <2>2 DEF Disjoint
<1>9. NoOverlap(new)
  <2> SUFFICES ASSUME NEW i \in Used(new), NEW j \in Used(new), i # j PROVE Disjoint(new[i], new[j])
    BY DEF NoOverlap
  <2>1. i \in Used(t) /\ j \in Used(t) /\ i # r /\ j # r /\ i \in Slots /\ j \in Slots
    BY <1>7 DEF Used
  <2>2. CASE i = d
    BY <1>5, <1>8, <2>1, <2>2 DEF Disjoint
  <2>3. CASE j = d
    BY <1>5, <1>8, <2>1, <2>3 DEF Disjoint
  <2>4. CASE i # d /\ j # d
    BY <1>5, <2>1, <2>4 DEF Sound, Valid, NoOverlap
  <2> QED BY <2>2, <2>3, <2>4
<1>10. \A i \in Used(new) : new[i].start <= new[i].end
  <2> TAKE i \in Used(new)
  <2>1. i \in Used(t) /\ i # r /\ i \in Slots
    BY <1>7 DEF Used
  <2>2. CASE i = d
    BY <1>2, <1>3, <1>4, <1>5, <2>2
  <2>3. CASE i # d
    BY <1>5, <2>1, <2>3 DEF Sound, Valid
  <2> QED BY <2>2, <2>3
<1>11. Single(new, Data) /\ Of(new, Data) = f
  <2>1. new[d].name = Data /\ \A j \in Slots : new[j].name = Data => j = d
    BY <1>2, <1>4, <1>5 DEF Empty, Data
  <2> QED BY <1>2, <1>5, <2>1, SlotIs
<1>12. ~Has(new, Root)
  <2>1. \A j \in Slots : new[j].name # Root
    BY <1>1, <1>4, <1>5 DEF Empty, Root, Data
  <2> QED BY <2>1 DEF Has
<1>13. \A i \in Slots : t[i].name \notin {Root, Data} => new[i] = t[i]
  BY <1>1, <1>2, <1>5
<1> QED BY <1>5, <1>9, <1>10, <1>11, <1>12, <1>13 DEF Valid, new, f, e

\* What a saved table takes back: the entries of others are the same, userdata keeps its start,
\* and ends where it did, past the root by less than the MiB that it was rounded by.
LEMMA RestoredLayout ==
    ASSUME NEW old \in Tables, NEW now, Sound(now), CanRestore(old, now), Restored(old, now) = old
    PROVE  /\ \A i \in Slots : now[i].name \notin {Root, Data} => old[i] = now[i]
           /\ Of(old, Data) = [Of(now, Data) EXCEPT !.end = Of(old, Data).end]
           /\ Of(old, Data).start = Of(now, Data).start /\ Of(old, Data).end \in Int
           /\ ~GaveUp(old, now) => Of(old, Data).end = Of(now, Data).end
           /\ GaveUp(old, now) => /\ Of(now, Data).end + 1 = Of(now, Root).start
                                  /\ Of(old, Data).end - Of(now, Root).end \in 0..(Align - 1)
<1> DEFINE r == SlotOf(now, Root)
           d == SlotOf(now, Data)
           e == Of(old, Data).end
<1>1. /\ r \in Slots /\ now[r].name = Root /\ r # d /\ Of(now, Root) = now[r]
      /\ now[r].start \in Int /\ now[r].end \in Int /\ now[r].start <= now[r].end
  BY RootIs, RootEntryIs DEF CanRestore, Sound
<1>2. /\ d \in Slots /\ now[d] = Of(now, Data) /\ now[d].name = Data /\ now[d] \in Entry
      /\ now[d].start \in Int /\ now[d].end \in Int /\ now[d].start <= now[d].end
  BY UserdataIs
<1>3. /\ SlotOf(old, Data) = d /\ Of(old, Data) = old[d] /\ old[d].start = now[d].start /\ e \in Int
      /\ \A i \in Slots \ {r, d} : old[i] = now[i]
  BY <1>2, Entries DEF CanRestore, Of
<1>4. old[d] = [now[d] EXCEPT !.end = e]
  <2> HIDE DEF r, d, e
  <2>1. now \in [Slots -> Entry \cup {Empty}]
    BY DEF Sound, Tables
  <2>2. old = [now EXCEPT ![r] = old[r], ![d].end = e]
    BY DEF Restored, r, d, e
  <2> QED BY <1>1, <1>2, <2>1, <2>2
<1>5. \A i \in Slots : now[i].name \notin {Root, Data} => old[i] = now[i]
  BY <1>1, <1>2, <1>3
<1>6. ~GaveUp(old, now) => e = now[d].end
  BY <1>2, <1>3 DEF CanRestore, FromGap
<1>7. ASSUME GaveUp(old, now)
      PROVE  now[d].end + 1 = now[r].start /\ e - now[r].end \in 0..(Align - 1)
  <2> DEFINE n == Size(Of(old, Data)) - Size(Of(now, Root))
             m == Size(Of(now, Data))
  <2>1. now[r].start = now[d].end + 1 /\ now[r].end <= e /\ m = Down(n)
    BY <1>1, <1>2, <1>7 DEF CanRestore, FromUserdata
  <2>2. n = (e - now[d].start + 1) - (now[r].end - now[r].start + 1) /\ m = now[d].end - now[d].start + 1 /\ n \in Int /\ m \in Int
    BY <1>1, <1>2, <1>3 DEF Size
  <2>3. m <= n /\ n < m + Align
    <3> HIDE DEF n, m
    <3> QED BY <2>1, <2>2, DownFacts
  <2> HIDE DEF n, m
  <2> QED BY <1>1, <1>2, <1>3, <2>1, <2>2, <2>3, AlignAssumption
<1> QED BY <1>1, <1>2, <1>3, <1>4, <1>5, <1>6, <1>7
=============================================================================
