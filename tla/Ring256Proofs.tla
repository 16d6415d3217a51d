--------------------------- MODULE Ring256Proofs ---------------------------
(***************************************************************************)
(* The span table of OPENOT_Ring256Producer for every capacity and size of  *)
(* the tables: its invariant, and what a call does to the records it holds. *)
(***************************************************************************)
EXTENDS Ring256Refinement, TLAPS

-----------------------------------------------------------------------------
(* Offsets and positions.                                                   *)

\* Division with remainder.
LEMMA DivMod ==
    ASSUME NEW C \in Nat \ {0}, NEW a \in Nat
    PROVE  /\ a \div C \in Nat
           /\ a % C \in 0 .. (C - 1)
           /\ a = C * (a \div C) + (a % C)
  BY SMT

\* A positive multiple of C is at least C.
LEMMA MultipleBound ==
    ASSUME NEW C \in Nat \ {0}, NEW d \in Int, C * d > 0
    PROVE  C * d >= C
  BY SMT

\* A shift that does not reach the end of the pool shifts the position.
LEMMA ModShift ==
    ASSUME NEW C \in Nat \ {0}, NEW a \in Nat, NEW k \in Nat, (a % C) + k < C
    PROVE  (a + k) % C = (a % C) + k
<1> DEFINE q == a \div C
<1>1. q \in Nat /\ a = C * q + (a % C) /\ a % C \in 0 .. (C - 1)
  BY DivMod, Zenon
<1>2. a + k = C * q + ((a % C) + k)
  BY <1>1
<1> HIDE DEF q
<1> QED
  BY <1>1, <1>2

\* The next multiple of C is at position 0.
LEMMA ModNext ==
    ASSUME NEW C \in Nat \ {0}, NEW a \in Nat
    PROVE  (a + (C - (a % C))) % C = 0
<1> DEFINE q == a \div C
<1>1. q \in Nat /\ a = C * q + (a % C) /\ a % C \in 0 .. (C - 1)
  BY DivMod, Zenon
<1>2. a + (C - (a % C)) = C * (q + 1)
  BY <1>1
<1> HIDE DEF q
<1>3. (C * (q + 1)) % C = 0
  BY <1>1
<1> QED
  BY <1>2, <1>3

\* The same facts about the pool.
LEMMA PhysType ==
    ASSUME NEW a \in Nat
    PROVE  Phys(a) \in 0 .. (Capacity - 1)
  BY DivMod, GeometryAssumption DEF Phys

\* Cells of a record that does not cross the end follow its start.
LEMMA PhysShift ==
    ASSUME NEW a \in Nat, NEW k \in Nat, Phys(a) + k < Capacity
    PROVE  Phys(a + k) = Phys(a) + k
  BY ModShift, GeometryAssumption, Zenon DEF Phys

\* Where a record of a length that fits starts (write_record's wrap decision):
\* not before the head, in one piece, and less than a lap further on.
LEMMA StartAbsProperties ==
    ASSUME NEW head \in Nat, NEW len \in Nat, len <= Capacity
    PROVE  /\ StartAbs(head, len) \in Nat
           /\ head <= StartAbs(head, len)
           /\ Phys(StartAbs(head, len)) + len <= Capacity
<1> USE GeometryAssumption
<1>1. Phys(head) \in 0 .. (Capacity - 1)
  BY PhysType
<1>2. CASE Phys(head) = 0 \/ Phys(head) + len <= Capacity
  BY <1>1, <1>2 DEF StartAbs
<1>3. CASE ~(Phys(head) = 0 \/ Phys(head) + len <= Capacity)
  <2>1. StartAbs(head, len) = head + (Capacity - Phys(head))
    BY <1>3 DEF StartAbs
  <2>2. Phys(StartAbs(head, len)) = 0
    BY <2>1, ModNext, Zenon DEF Phys
  <2> QED
    BY <1>1, <2>1, <2>2
<1> QED
  BY <1>2, <1>3

-----------------------------------------------------------------------------
(* Sequences.                                                               *)

\* Appending adds one element at the end.
LEMMA AppendFacts ==
    ASSUME NEW S, NEW s \in Seq(S), NEW e \in S
    PROVE  /\ Append(s, e) \in Seq(S) /\ Len(Append(s, e)) = Len(s) + 1
           /\ \A i \in 1 .. Len(s) : Append(s, e)[i] = s[i]
           /\ Append(s, e)[Len(s) + 1] = e
  OBVIOUS

\* The elements of a subsequence.
LEMMA SubSeqFacts ==
    ASSUME NEW S, NEW s, NEW m \in Int, NEW n \in Int, \A i \in m .. n : s[i] \in S
    PROVE  /\ SubSeq(s, m, n) \in Seq(S)
           /\ Len(SubSeq(s, m, n)) = IF m <= n THEN n - m + 1 ELSE 0
           /\ \A i \in 1 .. (n - m + 1) : SubSeq(s, m, n)[i] = s[m + i - 1]
  OBVIOUS

\* A subsequence whose end lies before its start is empty.
LEMMA NoSubSeq ==
    ASSUME NEW s, NEW m \in Int, NEW n \in Int, n < m
    PROVE  SubSeq(s, m, n) = << >>
  OBVIOUS

\* The elements of a concatenation.
LEMMA ConcatFacts ==
    ASSUME NEW S, NEW s \in Seq(S), NEW t \in Seq(S)
    PROVE  /\ s \o t \in Seq(S) /\ Len(s \o t) = Len(s) + Len(t)
           /\ \A i \in 1 .. Len(s) + Len(t) :
                (s \o t)[i] = IF i <= Len(s) THEN s[i] ELSE t[i - Len(s)]
  OBVIOUS

\* The empty sequence adds nothing.
LEMMA ConcatNone ==
    ASSUME NEW S, NEW s \in Seq(S)
    PROVE  s \o << >> = s
  OBVIOUS

\* The elements, the length and the domain of a sequence.
LEMMA SeqElement ==
    ASSUME NEW S, NEW s \in Seq(S), NEW n \in 1 .. Len(s)
    PROVE  s[n] \in S
  OBVIOUS

LEMMA SeqLength ==
    ASSUME NEW S, NEW s \in Seq(S)
    PROVE  /\ Len(s) \in Nat /\ s \in [1 .. Len(s) -> S]
           /\ DOMAIN s = 1 .. Len(s)
  OBVIOUS

\* Only the empty sequence has length 0.
LEMMA NoLength ==
    ASSUME NEW S, NEW s \in Seq(S)
    PROVE  s = << >> <=> Len(s) = 0
  OBVIOUS

\* Sequences with the same elements are equal.
LEMMA SameSeq ==
    ASSUME NEW S, NEW s \in Seq(S), NEW t \in Seq(S), Len(s) = Len(t),
           \A i \in 1 .. Len(s) : s[i] = t[i]
    PROVE  s = t
  OBVIOUS

-----------------------------------------------------------------------------
(* The invariant.                                                           *)

SpanType == [StartAbs : Offset, EndAbs : Offset, rec : Record]
EntryType == [start_abs : Offset, end_abs : Offset, rec : Record]

BlockFields ==
    {"Ring", "HeadAbs", "OldestAbs", "LostCount", "LastStartAbs", "LastEndAbs",
     "LossRanges", "LossRangeOverflow", "Done", "Error",
     "Spans", "SpanHead", "SpanTail", "SpanCount", "written", "evicted", "wraps"}

\* The circular table: the tail is SpanCount places after the head, and the slots
\* between them hold spans of records.
TableInv(f) ==
    /\ f.SpanHead \in Slot
    /\ f.SpanCount \in 0 .. SpanSlots
    /\ f.SpanTail = Advance(f.SpanHead, f.SpanCount)
    /\ DOMAIN f.Spans = Slot
    /\ \A i \in 1 .. f.SpanCount : f.Spans[Advance(f.SpanHead, i - 1)] \in SpanType

BlockInv(f) ==
    /\ DOMAIN f = BlockFields
    /\ TableInv(f)
    /\ f.HeadAbs \in Nat /\ f.LostCount \in Nat
    /\ f.SpanCount > 0 => f.OldestAbs = Live(f)[1].StartAbs
    /\ f.written \in Seq(SpanType)
    /\ f.evicted \in Seq(SpanType)

\* The WHILE loop of the eviction stops, whatever the floor.
EvictionStops(f) ==
    \A floor : /\ Evictions(f, floor) \in 0 .. f.SpanCount
               /\ IsEvictions(f, floor, Evictions(f, floor))

-----------------------------------------------------------------------------
(* The refinement mapping on sequences of spans.                            *)

\* A span of the block is an index entry of ring.rs with the same start.
LEMMA AsEntryType ==
    ASSUME NEW s \in SpanType
    PROVE  AsEntry(s) \in EntryType /\ AsEntry(s).start_abs = s.StartAbs
  BY DEF AsEntry, SpanType, EntryType

\* The spans map to entries one by one.
LEMMA AsEntriesType ==
    ASSUME NEW s \in Seq(SpanType)
    PROVE  /\ AsEntries(s) \in Seq(EntryType)
           /\ Len(AsEntries(s)) = Len(s)
           /\ \A i \in 1 .. Len(s) : AsEntries(s)[i] = AsEntry(s[i])
<1>1. Len(s) \in Nat /\ DOMAIN s = 1 .. Len(s)
  BY SeqLength
<1>2. \A i \in 1 .. Len(s) : AsEntry(s[i]) \in EntryType
  BY SeqElement, AsEntryType
<1>3. AsEntries(s) = [i \in 1 .. Len(s) |-> AsEntry(s[i])]
  BY <1>1 DEF AsEntries
<1>4. AsEntries(s) \in Seq(EntryType)
  BY <1>1, <1>2, <1>3
<1> QED
  BY <1>1, <1>3, <1>4

\* Storing a span is pushing an entry.
LEMMA AsEntriesAppend ==
    ASSUME NEW s \in Seq(SpanType), NEW x \in SpanType
    PROVE  AsEntries(Append(s, x)) = Append(AsEntries(s), AsEntry(x))
<1> DEFINE t == Append(s, x)
           l == AsEntries(t)
           e == AsEntries(s)
           r == Append(e, AsEntry(x))
<1>1. /\ t \in Seq(SpanType) /\ Len(t) = Len(s) + 1 /\ Len(s) \in Nat
      /\ \A i \in 1 .. Len(s) : t[i] = s[i]
      /\ t[Len(s) + 1] = x
  BY AppendFacts, SeqLength
<1>2. /\ l \in Seq(EntryType) /\ Len(l) = Len(s) + 1
      /\ \A i \in 1 .. (Len(s) + 1) : l[i] = AsEntry(t[i])
  <2> HIDE DEF t
  <2> QED
    BY <1>1, AsEntriesType
<1>3. e \in Seq(EntryType) /\ Len(e) = Len(s) /\ \A i \in 1 .. Len(s) : e[i] = AsEntry(s[i])
  BY AsEntriesType
<1>4. /\ r \in Seq(EntryType) /\ Len(r) = Len(s) + 1
      /\ \A i \in 1 .. Len(s) : r[i] = e[i]
      /\ r[Len(s) + 1] = AsEntry(x)
  <2>1. AsEntry(x) \in EntryType
    BY AsEntryType
  <2> HIDE DEF e
  <2> QED
    BY <1>3, <2>1, AppendFacts
<1> HIDE DEF t, l, e, r
<1>5. \A i \in 1 .. Len(l) : l[i] = r[i]
  <2>1. TAKE i \in 1 .. Len(l)
  <2>2. CASE i = Len(s) + 1
    BY <1>1, <1>2, <1>4, <2>2
  <2>3. CASE i \in 1 .. Len(s)
    BY <1>1, <1>2, <1>3, <1>4, <2>3
  <2> QED
    BY <1>1, <1>2, <2>2, <2>3
<1> QED
  BY <1>2, <1>4, <1>5, SameSeq DEF l, r, t, e

\* The mapping distributes over concatenation.
LEMMA AsEntriesConcat ==
    ASSUME NEW s \in Seq(SpanType), NEW u \in Seq(SpanType)
    PROVE  AsEntries(s \o u) = AsEntries(s) \o AsEntries(u)
<1> DEFINE t == s \o u
           l == AsEntries(t)
           es == AsEntries(s)
           eu == AsEntries(u)
           r == es \o eu
<1>0. Len(s) \in Nat /\ Len(u) \in Nat
  BY SeqLength
<1>1. /\ t \in Seq(SpanType) /\ Len(t) = Len(s) + Len(u)
      /\ \A i \in 1 .. (Len(s) + Len(u)) : t[i] = IF i <= Len(s) THEN s[i] ELSE u[i - Len(s)]
  BY ConcatFacts
<1>2. /\ l \in Seq(EntryType) /\ Len(l) = Len(s) + Len(u)
      /\ \A i \in 1 .. (Len(s) + Len(u)) : l[i] = AsEntry(t[i])
  <2> HIDE DEF t
  <2> QED
    BY <1>1, AsEntriesType
<1>3. /\ es \in Seq(EntryType) /\ Len(es) = Len(s) /\ \A i \in 1 .. Len(s) : es[i] = AsEntry(s[i])
      /\ eu \in Seq(EntryType) /\ Len(eu) = Len(u) /\ \A i \in 1 .. Len(u) : eu[i] = AsEntry(u[i])
  BY AsEntriesType
<1>4. /\ r \in Seq(EntryType) /\ Len(r) = Len(s) + Len(u)
      /\ \A i \in 1 .. (Len(s) + Len(u)) : r[i] = IF i <= Len(s) THEN es[i] ELSE eu[i - Len(s)]
  <2> HIDE DEF es, eu
  <2>0. es \in Seq(EntryType) /\ eu \in Seq(EntryType)
    BY <1>3
  <2>1. /\ r \in Seq(EntryType) /\ Len(r) = Len(es) + Len(eu)
        /\ \A i \in 1 .. Len(es) + Len(eu) :
              r[i] = IF i <= Len(es) THEN es[i] ELSE eu[i - Len(es)]
    BY <2>0, ConcatFacts
  <2> QED
    BY <1>3, <2>1, Zenon
<1> HIDE DEF t, l, es, eu, r
<1>5. ASSUME NEW i \in 1 .. Len(l) PROVE l[i] = r[i]
  <2>1. i \in 1 .. (Len(s) + Len(u)) /\ i \in Nat
    BY <1>0, <1>2
  <2>2. CASE i <= Len(s)
    <3>1. i \in 1 .. Len(s)
      BY <1>0, <2>1, <2>2
    <3>2. l[i] = AsEntry(s[i])
      BY <1>1, <1>2, <2>1, <2>2
    <3>3. r[i] = es[i]
      BY <1>4, <2>1, <2>2
    <3> QED
      BY <1>3, <3>1, <3>2, <3>3
  <2>3. CASE ~(i <= Len(s))
    <3>1. i - Len(s) \in 1 .. Len(u)
      BY <1>0, <2>1, <2>3
    <3>2. l[i] = AsEntry(u[i - Len(s)])
      BY <1>1, <1>2, <2>1, <2>3
    <3>3. r[i] = eu[i - Len(s)]
      BY <1>4, <2>1, <2>3, Zenon
    <3> QED
      BY <1>3, <3>1, <3>2, <3>3, Zenon
  <2> QED
    BY <2>2, <2>3
<1> QED
  BY <1>2, <1>4, <1>5, SameSeq, SMTT(30) DEF l, r, t, es, eu

\* The mapping commutes with taking a part of the sequence.
LEMMA AsEntriesSubSeq ==
    ASSUME NEW s \in Seq(SpanType), NEW a \in Nat, a >= 1, NEW b \in Nat, b <= Len(s)
    PROVE  AsEntries(SubSeq(s, a, b)) = SubSeq(AsEntries(s), a, b)
<1> DEFINE t == SubSeq(s, a, b)
           l == AsEntries(t)
           e == AsEntries(s)
           r == SubSeq(e, a, b)
           n == IF a <= b THEN b - a + 1 ELSE 0
<1>0. Len(s) \in Nat /\ a .. b \subseteq 1 .. Len(s) /\ n \in Nat
  BY SeqLength
<1>1. /\ t \in Seq(SpanType) /\ Len(t) = n
      /\ \A i \in 1 .. (b - a + 1) : t[i] = s[a + i - 1]
  <2>1. \A i \in a .. b : s[i] \in SpanType
    BY <1>0, SeqElement
  <2> QED
    BY <2>1, SubSeqFacts
<1>2. e \in Seq(EntryType) /\ Len(e) = Len(s) /\ \A i \in 1 .. Len(s) : e[i] = AsEntry(s[i])
  BY AsEntriesType
<1>3. /\ r \in Seq(EntryType) /\ Len(r) = n
      /\ \A i \in 1 .. (b - a + 1) : r[i] = e[a + i - 1]
  <2> HIDE DEF e
  <2>1. \A i \in a .. b : e[i] \in EntryType
    BY <1>0, <1>2, SeqElement
  <2> QED
    BY <2>1, SubSeqFacts
<1>4. l \in Seq(EntryType) /\ Len(l) = n /\ \A i \in 1 .. n : l[i] = AsEntry(t[i])
  <2> HIDE DEF t
  <2> QED
    BY <1>1, AsEntriesType
<1>5. \A i \in 1 .. n : i \in 1 .. (b - a + 1) /\ a + i - 1 \in 1 .. Len(s)
  BY <1>0
<1> HIDE DEF t, l, e, r, n
<1>6. \A i \in 1 .. Len(l) : l[i] = r[i]
  BY <1>1, <1>2, <1>3, <1>4, <1>5, Zenon
<1> QED
  BY <1>3, <1>4, <1>6, SameSeq DEF l, r, t, e

-----------------------------------------------------------------------------
(* The circular span table.                                                 *)

\* Advance stays in the table, and two advances add up.
LEMMA AdvanceProperties ==
    ASSUME NEW h \in Slot, NEW n \in 0 .. SpanSlots
    PROVE  /\ Advance(h, n) \in Slot
           /\ \A m \in 0 .. (SpanSlots - n) : Advance(Advance(h, n), m) = Advance(h, n + m)
           /\ \A m \in 0 .. (n - 1) : n < SpanSlots => Advance(h, m) # Advance(h, n)
  BY Ring256Assumption DEF Advance, Slot

\* The retained spans are a sequence of SpanCount spans.
LEMMA LiveType ==
    ASSUME NEW f, TableInv(f)
    PROVE  /\ Live(f) \in Seq(SpanType)
           /\ Len(Live(f)) = f.SpanCount
           /\ \A i \in 1 .. f.SpanCount : Live(f)[i] = f.Spans[Advance(f.SpanHead, i - 1)]
<1> DEFINE e(i) == f.Spans[Advance(f.SpanHead, i - 1)]
           n == f.SpanCount
<1>1. n \in Nat /\ \A i \in 1 .. n : e(i) \in SpanType
  BY Ring256Assumption DEF TableInv
<1>2. Live(f) = [i \in 1 .. n |-> e(i)]
  BY DEF Live
<1> HIDE DEF e, n
<1>3. Live(f) \in Seq(SpanType) /\ Len(Live(f)) = n /\ \A i \in 1 .. n : Live(f)[i] = e(i)
  BY <1>1, <1>2
<1> QED
  BY <1>3 DEF e, n

\* Moving SpanHead on by n drops the n oldest spans.
LEMMA TableEvict ==
    ASSUME NEW f, TableInv(f), NEW n \in 0 .. f.SpanCount, NEW g,
           g.Spans = f.Spans, g.SpanTail = f.SpanTail,
           g.SpanHead = Advance(f.SpanHead, n), g.SpanCount = f.SpanCount - n
    PROVE  TableInv(g) /\ Live(g) = SubSeq(Live(f), n + 1, f.SpanCount)
<1> DEFINE h == f.SpanHead
           c == f.SpanCount
           kept == SubSeq(Live(f), n + 1, c)
<1>1. /\ h \in Slot /\ c \in 0 .. SpanSlots /\ n \in 0 .. SpanSlots
      /\ SpanSlots \in Nat /\ c \in Nat /\ n \in Nat /\ n <= c
  BY Ring256Assumption DEF TableInv
<1>2. /\ Live(f) \in Seq(SpanType) /\ Len(Live(f)) = c
      /\ \A i \in 1 .. c : Live(f)[i] = f.Spans[Advance(h, i - 1)]
  BY LiveType
<1>3. /\ Advance(h, n) \in Slot
      /\ \A m \in 0 .. (SpanSlots - n) : Advance(Advance(h, n), m) = Advance(h, n + m)
  BY <1>1, AdvanceProperties
<1>4. ASSUME NEW i \in 1 .. (c - n)
      PROVE  /\ Advance(g.SpanHead, i - 1) = Advance(h, (n + i) - 1)
             /\ n + i \in 1 .. c
  <2>1. i - 1 \in 0 .. (SpanSlots - n) /\ n + (i - 1) = (n + i) - 1
    BY <1>1
  <2> QED
    BY <1>1, <1>3, <2>1
<1>5. TableInv(g)
  <2>1. g.SpanTail = Advance(g.SpanHead, g.SpanCount)
    <3>1. c - n \in 0 .. (SpanSlots - n) /\ n + (c - n) = c
      BY <1>1
    <3>2. Advance(Advance(h, n), c - n) = Advance(h, c)
      BY <1>3, <3>1
    <3> QED
      BY <3>2 DEF TableInv
  <2>2. \A i \in 1 .. g.SpanCount : g.Spans[Advance(g.SpanHead, i - 1)] \in SpanType
    BY <1>4 DEF TableInv
  <2>3. g.SpanCount \in 0 .. SpanSlots
    BY <1>1
  <2> QED
    BY <1>3, <2>1, <2>2, <2>3 DEF TableInv
<1>6. /\ Live(g) \in Seq(SpanType) /\ Len(Live(g)) = c - n
      /\ \A i \in 1 .. (c - n) : Live(g)[i] = g.Spans[Advance(g.SpanHead, i - 1)]
  BY <1>5, LiveType
<1>7. /\ kept \in Seq(SpanType) /\ Len(kept) = c - n
      /\ \A i \in 1 .. (c - n) : kept[i] = Live(f)[n + i]
  <2>1. \A i \in (n + 1) .. c : Live(f)[i] \in SpanType
    BY <1>1, <1>2, SeqElement
  <2>2. /\ kept \in Seq(SpanType)
        /\ Len(kept) = IF n + 1 <= c THEN c - (n + 1) + 1 ELSE 0
        /\ \A i \in 1 .. (c - (n + 1) + 1) : kept[i] = Live(f)[(n + 1) + i - 1]
    BY <1>1, <2>1, SubSeqFacts
  <2>3. Len(kept) = c - n
    BY <1>1, <2>2
  <2>4. ASSUME NEW i \in 1 .. (c - n) PROVE kept[i] = Live(f)[n + i]
    <3>1. i \in 1 .. (c - (n + 1) + 1) /\ (n + 1) + i - 1 = n + i
      BY <1>1
    <3> QED
      BY <2>2, <3>1
  <2> QED
    BY <2>2, <2>3, <2>4
<1>8. ASSUME NEW i \in 1 .. (c - n) PROVE Live(g)[i] = kept[i]
  <2>1. Live(g)[i] = f.Spans[Advance(h, (n + i) - 1)]
    BY <1>4, <1>6, SMTT(30)
  <2> QED
    BY <1>2, <1>4, <1>7, <2>1
<1> HIDE DEF kept
<1>9. Live(g) = kept
  BY <1>6, <1>7, <1>8, SameSeq
<1> QED
  BY <1>5, <1>9 DEF kept

\* Storing a span at the tail of a table that is not full appends it.
LEMMA TableAppend ==
    ASSUME NEW f, TableInv(f), f.SpanCount < SpanSlots, NEW x \in SpanType, NEW g,
           g.Spans = [f.Spans EXCEPT ![f.SpanTail] = x],
           g.SpanTail = Advance(f.SpanTail, 1),
           g.SpanHead = f.SpanHead, g.SpanCount = f.SpanCount + 1
    PROVE  TableInv(g) /\ Live(g) = Append(Live(f), x)
<1> DEFINE h == f.SpanHead
           c == f.SpanCount
           long == Append(Live(f), x)
<1>1. /\ h \in Slot /\ c \in 0 .. SpanSlots /\ f.SpanTail = Advance(h, c)
      /\ SpanSlots \in Nat /\ c \in Nat /\ c < SpanSlots /\ DOMAIN f.Spans = Slot
  BY Ring256Assumption DEF TableInv
<1>2. /\ Live(f) \in Seq(SpanType) /\ Len(Live(f)) = c
      /\ \A i \in 1 .. c : Live(f)[i] = f.Spans[Advance(h, i - 1)]
  BY LiveType
<1>3. /\ Advance(h, c) \in Slot /\ Advance(Advance(h, c), 1) = Advance(h, c + 1)
      /\ \A m \in 0 .. (c - 1) : Advance(h, m) # Advance(h, c)
  BY <1>1, AdvanceProperties
<1>4. g.Spans[Advance(h, c)] = x
  BY <1>1, <1>3
<1>5. ASSUME NEW i \in 1 .. c
      PROVE  g.Spans[Advance(h, i - 1)] = f.Spans[Advance(h, i - 1)]
  <2>1. i - 1 \in 0 .. (c - 1) /\ i - 1 \in 0 .. SpanSlots
    BY <1>1
  <2>2. Advance(h, i - 1) \in Slot
    BY <1>1, <2>1, AdvanceProperties
  <2> QED
    BY <1>1, <1>3, <2>1, <2>2
<1>6. TableInv(g)
  <2>1. DOMAIN g.Spans = Slot
    BY <1>1
  <2>2. ASSUME NEW i \in 1 .. (c + 1) PROVE g.Spans[Advance(h, i - 1)] \in SpanType
    <3>1. CASE i = c + 1
      BY <1>1, <1>4, <3>1
    <3>2. CASE i \in 1 .. c
      BY <1>5, <3>2 DEF TableInv
    <3> QED
      BY <1>1, <3>1, <3>2
  <2>3. c + 1 \in 0 .. SpanSlots
    BY <1>1
  <2> QED
    BY <1>1, <1>3, <2>1, <2>2, <2>3 DEF TableInv
<1>7. /\ Live(g) \in Seq(SpanType) /\ Len(Live(g)) = c + 1
      /\ \A i \in 1 .. (c + 1) : Live(g)[i] = g.Spans[Advance(h, i - 1)]
  <2>1. /\ Live(g) \in Seq(SpanType) /\ Len(Live(g)) = g.SpanCount
        /\ \A i \in 1 .. g.SpanCount : Live(g)[i] = g.Spans[Advance(g.SpanHead, i - 1)]
    BY <1>6, LiveType, Zenon
  <2> QED
    BY <2>1
<1>8. /\ long \in Seq(SpanType) /\ Len(long) = c + 1
      /\ \A i \in 1 .. c : long[i] = Live(f)[i]
      /\ long[c + 1] = x
  BY <1>2, AppendFacts
<1> HIDE DEF long
<1>9. ASSUME NEW i \in 1 .. (c + 1) PROVE Live(g)[i] = long[i]
  <2>1. CASE i = c + 1
    <3>1. i - 1 = c
      BY <1>1, <2>1
    <3> QED
      BY <1>4, <1>7, <1>8, <2>1, <3>1
  <2>2. CASE i \in 1 .. c
    BY <1>2, <1>5, <1>7, <1>8, <2>2
  <2> QED
    BY <1>1, <2>1, <2>2
<1>10. Live(g) = long
  BY <1>7, <1>8, <1>9, SameSeq
<1> QED
  BY <1>6, <1>10 DEF long

-----------------------------------------------------------------------------
(* The eviction loop.                                                       *)

\* A loop that ends without overflow has evicted the entries below the floor, up to
\* the first that is not.
LEMMA EvictionsSplit ==
    ASSUME NEW f, TableInv(f), EvictionStops(f), NEW floor \in Nat,
           ~LossAfter(f, Evictions(f, floor)).overflow,
           NEW n, n = Evictions(f, floor),
           NEW idx, idx = AsEntries(Live(f))
    PROVE  /\ f.SpanCount \in Nat /\ n \in 0 .. f.SpanCount /\ Len(idx) = f.SpanCount
           /\ \A i \in 1 .. f.SpanCount : idx[i].start_abs \in Nat
           /\ \A i \in 1 .. n : idx[i].start_abs < floor
           /\ n < f.SpanCount => idx[n + 1].start_abs >= floor
<1> DEFINE c == f.SpanCount
<1>0. n \in 0 .. c /\ IsEvictions(f, floor, n)
  BY DEF EvictionStops
<1>1. c \in Nat /\ Live(f) \in Seq(SpanType) /\ Len(Live(f)) = c
  BY LiveType, Ring256Assumption DEF TableInv
<1>2. Len(idx) = c /\ \A i \in 1 .. c : idx[i] = AsEntry(Live(f)[i])
  BY <1>1, AsEntriesType
<1>3. ASSUME NEW i \in 1 .. c
      PROVE  idx[i].start_abs = Live(f)[i].StartAbs /\ Live(f)[i].StartAbs \in Nat
  <2>1. Live(f)[i] \in SpanType
    BY <1>1, SeqElement
  <2> QED
    BY <1>2, <2>1, AsEntryType DEF SpanType, Offset
<1>4. \A i \in 1 .. n : idx[i].start_abs < floor
  <2>1. TAKE i \in 1 .. n
  <2>2. i - 1 \in 0 .. (n - 1) /\ i \in 1 .. c /\ (i - 1) + 1 = i
    BY <1>0, <1>1
  <2>3. ~(Live(f)[i].StartAbs >= floor)
    <3>1. ~EvictEnds(f, floor, i - 1)
      BY <1>0, <2>2 DEF IsEvictions
    <3>2. ~(Live(f)[(i - 1) + 1].StartAbs >= floor)
      BY <3>1 DEF EvictEnds
    <3> QED
      BY <2>2, <3>2
  <2> QED
    BY <1>3, <2>2, <2>3
<1>5. n < c => idx[n + 1].start_abs >= floor
  <2> SUFFICES ASSUME n < c PROVE idx[n + 1].start_abs >= floor
    OBVIOUS
  <2>1. n + 1 \in 1 .. c /\ n # c
    BY <1>0, <1>1
  <2>2. EvictEnds(f, floor, n)
    BY <1>0 DEF IsEvictions
  <2>3. Live(f)[n + 1].StartAbs >= floor
    BY <2>1, <2>2 DEF EvictEnds
  <2> QED
    BY <1>3, <2>1, <2>3
<1> QED
  BY <1>0, <1>1, <1>2, <1>3, <1>4, <1>5, SMTT(30)

-----------------------------------------------------------------------------
(* One call.                                                                *)

\* What the eviction part of a call changes, field by field.
EvictEffect(f, g, start, n) ==
    /\ DOMAIN g = BlockFields
    /\ g.Ring = f.Ring /\ g.HeadAbs = f.HeadAbs /\ g.Spans = f.Spans
    /\ g.SpanTail = f.SpanTail /\ g.written = f.written /\ g.wraps = f.wraps
    /\ g.LostCount = f.LostCount + n
    /\ g.LossRangeOverflow = LossAfter(f, n).overflow
    /\ g.SpanHead = Advance(f.SpanHead, n)
    /\ g.SpanCount = f.SpanCount - n
    /\ g.OldestAbs = IF SubSeq(Live(f), n + 1, f.SpanCount) = <<>> THEN start
                     ELSE SubSeq(Live(f), n + 1, f.SpanCount)[1].StartAbs
    /\ g.Error = (LossAfter(f, n).overflow \/ SpanTableFull(f.SpanCount - n))
    /\ g.evicted = f.evicted \o SubSeq(Live(f), 1, n)

\* Evict changes the fields that EvictEffect says.
LEMMA EvictFields ==
    ASSUME NEW f, DOMAIN f = BlockFields, NEW start, NEW final_head
    PROVE  EvictEffect(f, Evict(f, start, final_head), start,
                       Evictions(f, RetentionFloor(final_head)))
<1> DEFINE n == Evictions(f, RetentionFloor(final_head))
           g == Evict(f, start, final_head)
<1>1. g = Evict(f, start, final_head) /\ n = Evictions(f, RetentionFloor(final_head))
  OBVIOUS
<1> HIDE DEF n, g
<1>2. EvictEffect(f, g, start, n)
  BY <1>1 DEF Evict, BlockFields, EvictEffect
<1> QED
  BY <1>2 DEF n, g

\* What the publishing part changes.
PublishEffect(f, g, start, rec) ==
    /\ DOMAIN g = BlockFields
    /\ g.Ring = Copy(f.Ring, f.HeadAbs, start, rec)
    /\ g.HeadAbs = start + rec.len
    /\ g.OldestAbs = f.OldestAbs /\ g.LostCount = f.LostCount
    /\ g.LossRangeOverflow = f.LossRangeOverflow
    /\ g.Spans = [f.Spans EXCEPT ![f.SpanTail] = Span(start, rec)]
    /\ g.SpanTail = Advance(f.SpanTail, 1)
    /\ g.SpanHead = f.SpanHead
    /\ g.SpanCount = f.SpanCount + 1
    /\ g.written = Append(f.written, Span(start, rec))
    /\ g.evicted = f.evicted
    /\ g.wraps = IF start # f.HeadAbs THEN f.wraps + 1 ELSE f.wraps

\* Publish changes the fields that PublishEffect says.
LEMMA PublishFields ==
    ASSUME NEW f, DOMAIN f = BlockFields, NEW start, NEW rec
    PROVE  PublishEffect(f, Publish(f, start, rec), start, rec)
<1> DEFINE g == Publish(f, start, rec)
<1>1. g = Publish(f, start, rec)
  OBVIOUS
<1> HIDE DEF g
<1>2. PublishEffect(f, g, start, rec)
  BY <1>1 DEF Publish, BlockFields, PublishEffect
<1> QED
  BY <1>2 DEF g

\* Evicting keeps the invariant.
LEMMA EvictKeepsInv ==
    ASSUME NEW f, BlockInv(f), EvictionStops(f), NEW start, NEW final_head, NEW n, NEW g,
           n = Evictions(f, RetentionFloor(final_head)), g = Evict(f, start, final_head)
    PROVE  /\ n \in 0 .. f.SpanCount
           /\ BlockInv(g)
           /\ Live(g) = SubSeq(Live(f), n + 1, f.SpanCount)
           /\ g.OldestAbs = IF Live(g) = <<>> THEN start ELSE Live(g)[1].StartAbs
<1>0. /\ DOMAIN f = BlockFields /\ TableInv(f) /\ f.HeadAbs \in Nat /\ f.LostCount \in Nat
      /\ f.written \in Seq(SpanType) /\ f.evicted \in Seq(SpanType)
  BY DEF BlockInv
<1>1. n \in 0 .. f.SpanCount
  BY DEF EvictionStops
<1>2. /\ DOMAIN g = BlockFields /\ g.HeadAbs = f.HeadAbs /\ g.Spans = f.Spans
      /\ g.SpanTail = f.SpanTail /\ g.written = f.written /\ g.LostCount = f.LostCount + n
      /\ g.SpanHead = Advance(f.SpanHead, n) /\ g.SpanCount = f.SpanCount - n
      /\ g.OldestAbs = IF SubSeq(Live(f), n + 1, f.SpanCount) = <<>> THEN start
                       ELSE SubSeq(Live(f), n + 1, f.SpanCount)[1].StartAbs
      /\ g.evicted = f.evicted \o SubSeq(Live(f), 1, n)
  <2>1. EvictEffect(f, g, start, n)
    BY <1>0, EvictFields
  <2> QED
    BY <2>1 DEF EvictEffect
<1>3. TableInv(g) /\ Live(g) = SubSeq(Live(f), n + 1, f.SpanCount)
  BY <1>0, <1>1, <1>2, TableEvict, Zenon
<1>4. g.OldestAbs = IF Live(g) = <<>> THEN start ELSE Live(g)[1].StartAbs
  BY <1>2, <1>3
<1>5. g.SpanCount > 0 => g.OldestAbs = Live(g)[1].StartAbs
  <2>1. Live(g) \in Seq(SpanType) /\ Len(Live(g)) = g.SpanCount
    BY <1>3, LiveType, Zenon
  <2>2. g.SpanCount > 0 => Live(g) # <<>>
    BY <2>1, NoLength
  <2> QED
    BY <1>4, <2>2
<1>6. g.evicted \in Seq(SpanType)
  <2>1. Live(f) \in Seq(SpanType) /\ Len(Live(f)) = f.SpanCount /\ f.SpanCount \in Nat
    BY <1>0, LiveType, Ring256Assumption DEF TableInv
  <2>2. \A i \in 1 .. n : Live(f)[i] \in SpanType
    BY <1>1, <2>1, SeqElement
  <2>3. SubSeq(Live(f), 1, n) \in Seq(SpanType)
    BY <1>1, <2>1, <2>2, SubSeqFacts
  <2> QED
    BY <1>0, <1>2, <2>3, ConcatFacts
<1>7. g.LostCount \in Nat
  <2>1. f.SpanCount \in Nat
    BY <1>0, Ring256Assumption DEF TableInv
  <2>2. f.LostCount \in Nat /\ g.LostCount = f.LostCount + n
    BY <1>0, <1>2
  <2> QED
    BY <1>1, <2>1, <2>2
<1>8. BlockInv(g)
  BY <1>0, <1>2, <1>3, <1>5, <1>6, <1>7, Zenon DEF BlockInv
<1> QED
  BY <1>1, <1>3, <1>4, <1>8

\* Publishing a record keeps the invariant.
LEMMA PublishKeepsInv ==
    ASSUME NEW f, BlockInv(f), ~SpanTableFull(f.SpanCount), NEW start \in Nat,
           f.OldestAbs = IF Live(f) = <<>> THEN start ELSE Live(f)[1].StartAbs,
           NEW rec \in Record, NEW g, g = Publish(f, start, rec)
    PROVE  /\ BlockInv(g)
           /\ Span(start, rec) \in SpanType
           /\ Live(g) = Append(Live(f), Span(start, rec))
<1> DEFINE x == Span(start, rec)
<1>0. /\ DOMAIN f = BlockFields /\ TableInv(f) /\ f.HeadAbs \in Nat /\ f.LostCount \in Nat
      /\ f.written \in Seq(SpanType) /\ f.evicted \in Seq(SpanType)
      /\ rec.len \in Nat
  BY Ring256Assumption DEF BlockInv
<1>1. x \in SpanType /\ x.StartAbs = start
  BY <1>0 DEF Span, SpanType, Offset
<1>2. /\ DOMAIN g = BlockFields /\ g.HeadAbs = start + rec.len
      /\ g.OldestAbs = f.OldestAbs /\ g.LostCount = f.LostCount
      /\ g.Spans = [f.Spans EXCEPT ![f.SpanTail] = x]
      /\ g.SpanTail = Advance(f.SpanTail, 1) /\ g.SpanHead = f.SpanHead
      /\ g.SpanCount = f.SpanCount + 1
      /\ g.written = Append(f.written, x) /\ g.evicted = f.evicted
  <2>1. PublishEffect(f, g, start, rec)
    BY <1>0, PublishFields
  <2> QED
    BY <2>1 DEF PublishEffect
<1> HIDE DEF x
<1>3. f.SpanCount < SpanSlots
  BY <1>0, Ring256Assumption DEF TableInv, SpanTableFull
<1>4. TableInv(g) /\ Live(g) = Append(Live(f), x)
  <2>1. TableInv(f) /\ x \in SpanType
    BY <1>0, <1>1
  <2>2. /\ g.Spans = [f.Spans EXCEPT ![f.SpanTail] = x]
        /\ g.SpanTail = Advance(f.SpanTail, 1)
        /\ g.SpanHead = f.SpanHead /\ g.SpanCount = f.SpanCount + 1
    BY <1>2
  <2> QED
    BY <1>3, <2>1, <2>2, TableAppend
<1>5. g.written \in Seq(SpanType)
  BY <1>0, <1>1, <1>2, AppendFacts
<1>6. g.OldestAbs = Live(g)[1].StartAbs
  <2>0. Live(f) \in Seq(SpanType)
    BY <1>0, LiveType
  <2>1. CASE Live(f) = <<>>
    <3>1. Live(g) = <<x>>
      BY <1>4, <2>1
    <3> QED
      BY <1>1, <1>2, <2>1, <3>1
  <2>2. CASE Live(f) # <<>>
    <3>1. 1 \in 1 .. Len(Live(f))
      BY <2>0, <2>2, NoLength
    <3>2. Live(g)[1] = Live(f)[1]
      BY <1>1, <1>4, <2>0, <3>1, AppendFacts
    <3> QED
      BY <1>2, <2>2, <3>2
  <2> QED
    BY <2>1, <2>2
<1>7. BlockInv(g)
  BY <1>0, <1>2, <1>4, <1>5, <1>6, SMTT(30) DEF BlockInv
<1> QED
  BY <1>1, <1>4, <1>7 DEF x

\* A call keeps the invariant, whatever the outcome.
LEMMA ProduceKeepsInv ==
    ASSUME NEW f, BlockInv(f), EvictionStops(f), NEW rec \in Record
    PROVE  BlockInv(Produce(f, rec))
<1> DEFINE start == StartAbs(f.HeadAbs, rec.len)
           swept == Evict(f, start, start + rec.len)
           n == Evictions(f, RetentionFloor(start + rec.len))
<1>1. CASE rec.len > Capacity
  <2>1. Produce(f, rec) = Reject(f)
    BY <1>1 DEF Produce
  <2>2. BlockInv(Reject(f))
    BY DEF BlockInv, Reject, BlockFields, TableInv, Live
  <2> QED
    BY <2>1, <2>2
<1>2. CASE ~(rec.len > Capacity)
  <2>0. f.HeadAbs \in Nat /\ rec.len \in Nat /\ rec.len <= Capacity
    BY <1>2, Ring256Assumption, GeometryAssumption DEF BlockInv
  <2>1. start \in Nat
    BY <2>0, StartAbsProperties
  <2>2. /\ BlockInv(swept)
        /\ swept.OldestAbs = IF Live(swept) = <<>> THEN start ELSE Live(swept)[1].StartAbs
    BY EvictKeepsInv
  <2>3. EvictEffect(f, swept, start, n)
    BY EvictFields DEF BlockInv
  <2> HIDE DEF start, swept, n
  <2>4. Produce(f, rec) = IF swept.Error THEN swept ELSE Publish(swept, start, rec)
    BY <1>2 DEF Produce, start, swept
  <2>5. CASE swept.Error
    BY <2>2, <2>4, <2>5
  <2>6. CASE ~swept.Error
    <3>1. ~SpanTableFull(swept.SpanCount)
      BY <2>3, <2>6, Zenon DEF EvictEffect
    <3>2. BlockInv(Publish(swept, start, rec))
      BY <2>1, <2>2, <3>1, PublishKeepsInv
    <3> QED
      BY <2>4, <2>6, <3>2
  <2> QED
    BY <2>5, <2>6
<1> QED
  BY <1>1, <1>2

\* What a call that writes leaves for a reader of the ring, field by field; n spans
\* were evicted.
PublishView(f, g, start, rec, n) ==
    LET idx == AsEntries(Live(f))
        kept == SubSeq(idx, n + 1, f.SpanCount)
        x == AsEntry(Span(start, rec))
    IN /\ g.Ring = Copy(f.Ring, f.HeadAbs, start, rec)
       /\ g.HeadAbs = start + rec.len
       /\ g.LostCount = f.LostCount + n
       /\ g.wraps = IF start # f.HeadAbs THEN f.wraps + 1 ELSE f.wraps
       /\ g.OldestAbs = IF kept = <<>> THEN start ELSE kept[1].start_abs
       /\ AsEntries(Live(g)) = Append(kept, x)
       /\ AsEntries(g.evicted) = AsEntries(f.evicted) \o SubSeq(idx, 1, n)
       /\ AsEntries(g.written) = Append(AsEntries(f.written), x)
       /\ Len(idx) = f.SpanCount
       /\ ~LossAfter(f, n).overflow

\* A call that evicts without overflow and finds room has that effect.
LEMMA PublishViewHolds ==
    ASSUME NEW f, BlockInv(f), EvictionStops(f), NEW rec \in Record, rec.len <= Capacity,
           NEW start, start = StartAbs(f.HeadAbs, rec.len),
           NEW swept, swept = Evict(f, start, start + rec.len),
           ~swept.LossRangeOverflow, ~swept.Error,
           NEW g, g = Publish(swept, start, rec)
    PROVE  /\ start + rec.len \in Nat
           /\ PublishView(f, g, start, rec, Evictions(f, RetentionFloor(start + rec.len)))
<1> DEFINE final_head == start + rec.len
           n == Evictions(f, RetentionFloor(final_head))
           x == Span(start, rec)
           c == f.SpanCount
           live == Live(f)
           gone == SubSeq(live, 1, n)
           kept == SubSeq(live, n + 1, c)
           idx == AsEntries(live)
<1>0. /\ DOMAIN f = BlockFields /\ TableInv(f) /\ f.HeadAbs \in Nat /\ f.LostCount \in Nat
      /\ f.written \in Seq(SpanType) /\ f.evicted \in Seq(SpanType)
      /\ rec.len \in Nat
  BY Ring256Assumption DEF BlockInv
<1>1. start \in Nat /\ final_head \in Nat
  <2>1. StartAbs(f.HeadAbs, rec.len) \in Nat
    BY <1>0, StartAbsProperties, SMTT(30)
  <2> QED
    BY <1>0, <2>1
<1>2. /\ n \in 0 .. c /\ BlockInv(swept) /\ Live(swept) = kept
      /\ swept.OldestAbs = IF Live(swept) = <<>> THEN start ELSE Live(swept)[1].StartAbs
  <2>1. n = Evictions(f, RetentionFloor(final_head)) /\ swept = Evict(f, start, final_head)
    OBVIOUS
  <2> HIDE DEF n, final_head
  <2> QED
    BY <2>1, EvictKeepsInv
<1>3. EvictEffect(f, swept, start, n)
  BY <1>0, EvictFields
<1>4. PublishEffect(swept, g, start, rec)
  BY <1>2, PublishFields, SMTT(30) DEF BlockInv
<1>5. ~SpanTableFull(swept.SpanCount) /\ ~LossAfter(f, n).overflow
  <2> HIDE DEF n
  <2> QED
    BY <1>3, Zenon DEF EvictEffect
<1>6. x \in SpanType /\ Live(g) = Append(kept, x)
  <2> HIDE DEF kept
  <2> QED
    BY <1>1, <1>2, <1>5, PublishKeepsInv
<1>7. /\ c \in Nat /\ n \in Nat /\ n <= c
      /\ live \in Seq(SpanType) /\ Len(live) = c
  <2>1. live \in Seq(SpanType) /\ Len(live) = c
    BY <1>0, LiveType
  <2>2. c \in Nat
    BY <1>0, Ring256Assumption, SMTT(30) DEF TableInv
  <2> HIDE DEF n, live
  <2> QED
    BY <1>2, <2>1, <2>2
<1>e. /\ swept.Ring = f.Ring /\ swept.HeadAbs = f.HeadAbs /\ swept.wraps = f.wraps
      /\ swept.LostCount = f.LostCount + n /\ swept.written = f.written
      /\ swept.evicted = f.evicted \o gone
  <2> HIDE DEF n
  <2> QED
    BY <1>3, ZenonT(40) DEF EvictEffect
<1>p. /\ g.Ring = Copy(swept.Ring, swept.HeadAbs, start, rec)
      /\ g.HeadAbs = final_head /\ g.OldestAbs = swept.OldestAbs
      /\ g.LostCount = swept.LostCount /\ g.evicted = swept.evicted
      /\ g.written = Append(swept.written, x)
      /\ g.wraps = IF start # swept.HeadAbs THEN swept.wraps + 1 ELSE swept.wraps
  BY <1>4, Zenon DEF PublishEffect
<1> HIDE DEF n, live, x
<1>9. /\ kept \in Seq(SpanType) /\ gone \in Seq(SpanType)
      /\ AsEntries(kept) = SubSeq(idx, n + 1, c)
      /\ AsEntries(gone) = SubSeq(idx, 1, n)
      /\ Len(idx) = c
  <2>1. (\A i \in (n + 1) .. c : live[i] \in SpanType) /\ (\A i \in 1 .. n : live[i] \in SpanType)
    BY <1>7, SeqElement
  <2>2. kept \in Seq(SpanType) /\ gone \in Seq(SpanType)
    BY <1>7, <2>1, SubSeqFacts
  <2>3. /\ n + 1 \in Nat /\ n + 1 >= 1 /\ 1 \in Nat /\ 1 >= 1
        /\ c <= Len(live) /\ n <= Len(live)
    BY <1>7
  <2>4. AsEntries(kept) = SubSeq(idx, n + 1, c)
    BY <1>7, <2>3, AsEntriesSubSeq, Zenon
  <2>5. AsEntries(gone) = SubSeq(idx, 1, n)
    BY <1>7, <2>3, AsEntriesSubSeq
  <2>6. Len(idx) = c
    BY <1>7, AsEntriesType
  <2> QED
    BY <2>2, <2>4, <2>5, <2>6
<1> HIDE DEF kept, gone
<1>10. AsEntries(Live(g)) = Append(SubSeq(idx, n + 1, c), AsEntry(x))
  BY <1>6, <1>9, AsEntriesAppend, Zenon
<1>11. AsEntries(g.evicted) = AsEntries(f.evicted) \o SubSeq(idx, 1, n)
  <2>1. g.evicted = f.evicted \o gone
    BY <1>e, <1>p, Zenon
  <2>2. AsEntries(f.evicted \o gone) = AsEntries(f.evicted) \o AsEntries(gone)
    BY <1>0, <1>9, AsEntriesConcat, Zenon
  <2> QED
    BY <1>9, <2>1, <2>2, Zenon
<1>12. AsEntries(g.written) = Append(AsEntries(f.written), AsEntry(x))
  <2>1. g.written = Append(f.written, x)
    BY <1>e, <1>p, Zenon
  <2>2. AsEntries(Append(f.written, x)) = Append(AsEntries(f.written), AsEntry(x))
    BY <1>0, <1>6, AsEntriesAppend
  <2> QED
    BY <2>1, <2>2, Zenon
<1>14. g.OldestAbs = IF SubSeq(idx, n + 1, c) = <<>> THEN start
                     ELSE SubSeq(idx, n + 1, c)[1].start_abs
  <2>1. g.OldestAbs = IF kept = <<>> THEN start ELSE kept[1].StartAbs
    BY <1>2, <1>p, Zenon
  <2>2. CASE kept = <<>>
    <3>1. AsEntries(kept) = <<>>
      BY <1>9, <2>2, AsEntriesType, NoLength, Zenon
    <3> QED
      BY <1>9, <2>1, <2>2, <3>1, Zenon
  <2>3. CASE kept # <<>>
    <3>1. 1 \in 1 .. Len(kept)
      BY <1>9, <2>3, NoLength
    <3>2. AsEntries(kept)[1] = AsEntry(kept[1]) /\ Len(AsEntries(kept)) = Len(kept)
      BY <1>9, <3>1, AsEntriesType, Zenon
    <3>3. AsEntry(kept[1]).start_abs = kept[1].StartAbs
      BY <1>9, <3>1, SeqElement, AsEntryType
    <3>4. AsEntries(kept) # <<>>
      BY <3>1, <3>2, NoLength
    <3> QED
      BY <1>9, <2>1, <2>3, <3>2, <3>3, <3>4, Zenon
  <2> QED
    BY <2>2, <2>3, Zenon
<1>15. g.Ring = Copy(f.Ring, f.HeadAbs, start, rec)
  BY <1>e, <1>p, ZenonT(40)
<1>16. /\ g.HeadAbs = final_head /\ g.LostCount = f.LostCount + n
       /\ g.wraps = IF start # f.HeadAbs THEN f.wraps + 1 ELSE f.wraps
  BY <1>e, <1>p, ZenonT(40)
<1> HIDE DEF idx
<1>17. PublishView(f, g, start, rec, n)
  BY <1>5, <1>9, <1>10, <1>11, <1>12, <1>14, <1>15, <1>16, ZenonT(40) DEF PublishView,
     idx, live, x
<1> QED
  BY <1>1, <1>17 DEF n

\* A call that does not overflow the loss table leaves the ring alone or publishes.
LEMMA ProduceCases ==
    ASSUME NEW f, BlockInv(f), EvictionStops(f), NEW rec \in Record, ~Produce(f, rec).LossRangeOverflow,
           NEW start, start = StartAbs(f.HeadAbs, rec.len),
           NEW swept, swept = Evict(f, start, start + rec.len)
    PROVE  \/ RingOf(Produce(f, rec)) = RingOf(f)
           \/ /\ rec.len <= Capacity
              /\ ~swept.LossRangeOverflow /\ ~swept.Error
              /\ Produce(f, rec) = Publish(swept, start, rec)
<1> DEFINE n == Evictions(f, RetentionFloor(start + rec.len))
<1>0. DOMAIN f = BlockFields /\ TableInv(f) /\ rec.len \in Nat /\ Capacity \in Nat
  BY Ring256Assumption, GeometryAssumption DEF BlockInv
<1>1. CASE rec.len > Capacity
  <2>1. Produce(f, rec) = Reject(f)
    BY <1>1 DEF Produce
  <2>2. RingOf(Reject(f)) = RingOf(f)
    BY <1>0 DEF RingOf, Live, Reject, BlockFields
  <2> QED
    BY <2>1, <2>2
<1>2. CASE ~(rec.len > Capacity)
  <2>0. rec.len <= Capacity
    BY <1>0, <1>2
  <2>1. Produce(f, rec) = IF swept.Error THEN swept ELSE Publish(swept, start, rec)
    BY <1>2 DEF Produce
  <2>2. EvictEffect(f, swept, start, n)
    BY <1>0, EvictFields
  <2>3. /\ n \in 0 .. f.SpanCount /\ BlockInv(swept)
        /\ Live(swept) = SubSeq(Live(f), n + 1, f.SpanCount)
    BY EvictKeepsInv
  <2> HIDE DEF n
  <2>5. CASE swept.Error
    <3>1. Produce(f, rec) = swept
      BY <2>1, <2>5, SMTT(30)
    <3>2. SpanTableFull(f.SpanCount - n)
      BY <2>2, <2>5, <3>1, Zenon DEF EvictEffect
    <3>3. n = 0 /\ f.SpanCount > 0
      BY <1>0, <2>3, <3>2, Ring256Assumption DEF TableInv, SpanTableFull
    <3>4. /\ swept.Ring = f.Ring /\ swept.HeadAbs = f.HeadAbs /\ swept.wraps = f.wraps
          /\ swept.written = f.written /\ swept.LostCount = f.LostCount + n
          /\ swept.evicted = f.evicted \o SubSeq(Live(f), 1, n)
          /\ swept.Spans = f.Spans /\ swept.SpanCount = f.SpanCount - n
          /\ swept.SpanHead = Advance(f.SpanHead, n)
      BY <2>2, Zenon DEF EvictEffect
    <3>5. f.SpanCount \in Nat /\ f.SpanHead \in Slot /\ f.LostCount \in Nat
          /\ f.evicted \in Seq(SpanType)
      BY Ring256Assumption, SMTT(30) DEF BlockInv, TableInv
    <3>6. swept.SpanCount = f.SpanCount /\ swept.LostCount = f.LostCount
      BY <3>3, <3>4, <3>5, SMTT(30)
    <3>7. swept.SpanHead = f.SpanHead
      BY <3>3, <3>4, <3>5, Ring256Assumption, SMTT(30) DEF Advance, Slot
    <3>8. Live(swept) = Live(f)
      BY <3>4, <3>6, <3>7, Zenon DEF Live
    <3>9. swept.evicted = f.evicted
      <4>1. SubSeq(Live(f), 1, 0) = <<>>
        BY NoSubSeq
      <4> QED
        BY <3>3, <3>4, <3>5, <4>1, ConcatNone, SMTT(30)
    <3>10. swept.OldestAbs = f.OldestAbs
      BY <2>3, <3>3, <3>6, <3>8 DEF BlockInv
    <3>11. RingOf(swept) = RingOf(f)
      BY <3>4, <3>6, <3>8, <3>9, <3>10, Zenon DEF RingOf
    <3> QED
      BY <3>1, <3>11
  <2>6. CASE ~swept.Error
    <3>1. Produce(f, rec) = Publish(swept, start, rec)
      BY <2>1, <2>6, SMTT(30)
    <3>2. PublishEffect(swept, Publish(swept, start, rec), start, rec)
      BY <2>3, PublishFields, SMTT(30) DEF BlockInv
    <3>3. Publish(swept, start, rec).LossRangeOverflow = swept.LossRangeOverflow
      BY <3>2, Zenon DEF PublishEffect
    <3> QED
      BY <2>0, <2>6, <3>1, <3>3
  <2> QED
    BY <2>5, <2>6
<1> QED
  BY <1>1, <1>2

-----------------------------------------------------------------------------
(* The refinement of ByteRing.                                              *)

\* The number of entries that evict_before_clobber of ring.rs pops is determined.
LEMMA EvictCountIs ==
    ASSUME NEW idx, Len(idx) \in Nat, NEW floor \in Nat,
           \A i \in 1 .. Len(idx) : idx[i].start_abs \in Nat,
           NEW n \in 0 .. Len(idx), BR!IsEvictCount(idx, floor, n)
    PROVE  BR!EvictCount(idx, floor) = n
<1> DEFINE m == BR!EvictCount(idx, floor)
<1>1. m \in 0 .. Len(idx) /\ BR!IsEvictCount(idx, floor, m)
  BY DEF BR!EvictCount
<1> HIDE DEF m
<1>2. CASE m < n
  <2>1. m + 1 \in 1 .. n /\ m + 1 \in 1 .. Len(idx) /\ m < Len(idx)
    BY <1>1, <1>2
  <2> QED
    BY <1>1, <2>1 DEF BR!IsEvictCount
<1>3. CASE n < m
  <2>1. n + 1 \in 1 .. m /\ n + 1 \in 1 .. Len(idx) /\ n < Len(idx)
    BY <1>1, <1>3
  <2> QED
    BY <1>1, <2>1 DEF BR!IsEvictCount
<1> QED
  BY <1>1, <1>2, <1>3 DEF m

\* A loop that ends without overflow has evicted what evict_before_clobber evicts.
LEMMA EvictionsAgree ==
    ASSUME NEW f, TableInv(f), EvictionStops(f), NEW floor \in Nat,
           ~LossAfter(f, Evictions(f, floor)).overflow,
           NEW n, n = Evictions(f, floor),
           NEW idx, idx = AsEntries(Live(f))
    PROVE  BR!EvictCount(idx, floor) = n
<1>1. /\ f.SpanCount \in Nat /\ n \in 0 .. f.SpanCount /\ Len(idx) = f.SpanCount
      /\ \A i \in 1 .. f.SpanCount : idx[i].start_abs \in Nat
      /\ \A i \in 1 .. n : idx[i].start_abs < floor
      /\ n < f.SpanCount => idx[n + 1].start_abs >= floor
  BY EvictionsSplit
<1>2. BR!IsEvictCount(idx, floor, n)
  BY <1>1 DEF BR!IsEvictCount
<1> QED
  BY <1>1, <1>2, EvictCountIs, SMTT(30)

\* The geometry of the instance is that of the block.
LEMMA SameGeometry ==
    /\ BR!Position = Position
    /\ \A a : BR!Phys(a) = Phys(a)
    /\ \A h, l : BR!StartAbs(h, l) = StartAbs(h, l)
    /\ \A h : BR!RetentionFloor(h) = RetentionFloor(h)
  BY SMTT(30) DEF BR!Position, Position, BR!Phys, Phys, BR!StartAbs, StartAbs,
     BR!RetentionFloor, RetentionFloor

\* A call that evicts without overflow and finds room writes as write_record does.
LEMMA PublishRefines ==
    ASSUME NEW f, BlockInv(f), EvictionStops(f), NEW rec \in Record, rec.len <= Capacity,
           NEW start, start = StartAbs(f.HeadAbs, rec.len),
           NEW swept, swept = Evict(f, start, start + rec.len),
           ~swept.LossRangeOverflow, ~swept.Error,
           NEW g, g = Publish(swept, start, rec)
    PROVE  RingOf(g) = BR!write_record(RingOf(f), rec)
<1> DEFINE final_head == start + rec.len
           n == Evictions(f, RetentionFloor(final_head))
           c == f.SpanCount
           idx == AsEntries(Live(f))
           r == RingOf(f)
<1>1. final_head \in Nat /\ PublishView(f, g, start, rec, n)
  BY PublishViewHolds
<1>2. AsEntry(Span(start, rec)) = BR!Entry(start, rec)
  BY SMTT(30) DEF AsEntry, Span, BR!Entry
<1>3. BR!EvictCount(idx, RetentionFloor(final_head)) = n
  <2>1. RetentionFloor(final_head) \in Nat
    BY <1>1, GeometryAssumption, SMTT(30) DEF RetentionFloor
  <2>2. ~LossAfter(f, n).overflow
    BY <1>1, Zenon DEF PublishView
  <2> QED
    BY <2>1, <2>2, EvictionsAgree DEF BlockInv
<1>4. Copy(f.Ring, f.HeadAbs, start, rec) = BR!Overwrite(f.Ring, f.HeadAbs, start, rec)
  BY SameGeometry, SMTT(30) DEF Copy, BR!Overwrite, BR!Cell, Cell, BR!Zero, Zero
<1>5. /\ r.bytes = f.Ring /\ r.head_abs = f.HeadAbs /\ r.lost_count = f.LostCount
      /\ r.wraps = f.wraps /\ r.index = idx
      /\ r.producer_loss = AsEntries(f.evicted) /\ r.written = AsEntries(f.written)
  BY ZenonT(40) DEF RingOf
<1>6. BR!EvictCount(r.index, BR!RetentionFloor(final_head)) = n
  BY <1>3, <1>5, SameGeometry, ZenonT(40)
<1>7. BR!StartAbs(r.head_abs, rec.len) = start
  BY <1>5, SameGeometry, ZenonT(40)
<1> HIDE DEF n
<1>8. /\ g.Ring = Copy(f.Ring, f.HeadAbs, start, rec)
      /\ g.HeadAbs = final_head
      /\ g.LostCount = f.LostCount + n
      /\ g.wraps = IF start # f.HeadAbs THEN f.wraps + 1 ELSE f.wraps
      /\ g.OldestAbs = IF SubSeq(idx, n + 1, c) = <<>> THEN start
                       ELSE SubSeq(idx, n + 1, c)[1].start_abs
      /\ AsEntries(Live(g)) = Append(SubSeq(idx, n + 1, c), AsEntry(Span(start, rec)))
      /\ AsEntries(g.evicted) = AsEntries(f.evicted) \o SubSeq(idx, 1, n)
      /\ AsEntries(g.written) = Append(AsEntries(f.written), AsEntry(Span(start, rec)))
      /\ Len(idx) = c
  BY <1>1, ZenonT(40) DEF PublishView
<1> HIDE DEF r, idx, final_head
<1> DEFINE left == BR!evict_before_clobber(r, final_head, start)
<1>9. /\ left.index = SubSeq(idx, n + 1, c)
      /\ left.lost_count = f.LostCount + n
      /\ left.producer_loss = AsEntries(f.evicted) \o SubSeq(idx, 1, n)
      /\ left.oldest_abs = g.OldestAbs
  <2>1. BR!DropFirst(r.index, n) = SubSeq(idx, n + 1, c)
    BY <1>5, <1>8, ZenonT(40) DEF BR!DropFirst
  <2> QED
    BY <1>5, <1>6, <1>8, <2>1, ZenonT(40) DEF BR!evict_before_clobber
<1>10. BR!write_record(r, rec) =
         [bytes |-> BR!Overwrite(r.bytes, r.head_abs, start, rec),
          head_abs |-> final_head,
          oldest_abs |-> left.oldest_abs,
          lost_count |-> left.lost_count,
          wraps |-> IF start # r.head_abs THEN r.wraps + 1 ELSE r.wraps,
          index |-> Append(left.index, BR!Entry(start, rec)),
          producer_loss |-> left.producer_loss,
          written |-> Append(r.written, BR!Entry(start, rec))]
  BY <1>7, ZenonT(40) DEF BR!write_record, final_head
<1> HIDE DEF left
<1>11. /\ BR!Overwrite(r.bytes, r.head_abs, start, rec) = g.Ring
       /\ final_head = g.HeadAbs
       /\ left.oldest_abs = g.OldestAbs
       /\ left.lost_count = g.LostCount
       /\ (IF start # r.head_abs THEN r.wraps + 1 ELSE r.wraps) = g.wraps
       /\ Append(left.index, BR!Entry(start, rec)) = AsEntries(Live(g))
       /\ left.producer_loss = AsEntries(g.evicted)
       /\ Append(r.written, BR!Entry(start, rec)) = AsEntries(g.written)
  BY <1>2, <1>4, <1>5, <1>8, <1>9, ZenonT(40)
<1>12. BR!write_record(r, rec) =
         [bytes |-> g.Ring, head_abs |-> g.HeadAbs, oldest_abs |-> g.OldestAbs,
          lost_count |-> g.LostCount, wraps |-> g.wraps,
          index |-> AsEntries(Live(g)), producer_loss |-> AsEntries(g.evicted),
          written |-> AsEntries(g.written)]
  BY <1>10, <1>11, Zenon
<1> QED
  BY <1>12 DEF RingOf, r

\* A call refines a write or a stuttering step, unless the loss table overflows.
LEMMA ProduceRefines ==
    ASSUME NEW f, BlockInv(f), EvictionStops(f), NEW rec \in Record, ~Produce(f, rec).LossRangeOverflow
    PROVE  \/ RingOf(Produce(f, rec)) = RingOf(f)
           \/ /\ rec.len <= Capacity
              /\ RingOf(Produce(f, rec)) = BR!write_record(RingOf(f), rec)
<1> DEFINE start == StartAbs(f.HeadAbs, rec.len)
           swept == Evict(f, start, start + rec.len)
<1>1. start = StartAbs(f.HeadAbs, rec.len) /\ swept = Evict(f, start, start + rec.len)
  OBVIOUS
<1> HIDE DEF start, swept
<1>2. CASE RingOf(Produce(f, rec)) = RingOf(f)
  BY <1>2
<1>3. CASE /\ rec.len <= Capacity /\ ~swept.LossRangeOverflow /\ ~swept.Error
           /\ Produce(f, rec) = Publish(swept, start, rec)
  BY <1>1, <1>3, PublishRefines
<1> QED
  BY <1>1, <1>2, <1>3, ProduceCases

-----------------------------------------------------------------------------
(* Induction over numbers.                                                  *)
LOCAL INSTANCE WellFoundedInduction

\* A non-empty set of naturals has a least element, as < is well founded on Nat.
LEMMA LeastElement ==
    ASSUME NEW T \in SUBSET Nat, T # {}
    PROVE  \E m \in T : \A y \in T : ~(y < m)
<1> DEFINE less == {p \in Nat \X Nat : p[1] < p[2]}
<1>1. IsWellFoundedOn(less, Nat)
  BY NatLessThanWellFounded DEF OpToRel
<1> HIDE DEF less
<1>2. PICK m \in T : \A y \in T : ~(<<y, m>> \in less)
  BY <1>1, WFMin, Zenon
<1> QED
  BY <1>2, Zenon DEF less

\* The WHILE loop stops, at the latest when no span is left.
LEMMA EvictionsExist ==
    ASSUME NEW f, TableInv(f)
    PROVE  EvictionStops(f)
<1> SUFFICES ASSUME NEW floor
             PROVE  /\ Evictions(f, floor) \in 0 .. f.SpanCount
                    /\ IsEvictions(f, floor, Evictions(f, floor))
  BY DEF EvictionStops
<1> DEFINE T == {m \in 0 .. f.SpanCount : EvictEnds(f, floor, m)}
<1>0. f.SpanCount \in Nat
  BY Ring256Assumption DEF TableInv
<1>1. T \in SUBSET Nat /\ T # {}
  <2>1. EvictEnds(f, floor, f.SpanCount)
    BY DEF EvictEnds
  <2> QED
    BY <1>0, <2>1
<1>2. PICK n \in T : \A y \in T : ~(y < n)
  <2> HIDE DEF T
  <2> QED
    BY <1>1, LeastElement
<1>3. n \in 0 .. f.SpanCount /\ EvictEnds(f, floor, n)
  BY <1>2
<1>4. ASSUME NEW m \in 0 .. (n - 1), EvictEnds(f, floor, m) PROVE FALSE
  <2>1. m \in T /\ m < n
    BY <1>0, <1>3, <1>4
  <2> QED
    BY <1>2, <2>1
<1>5. IsEvictions(f, floor, n)
  BY <1>3, <1>4, SMTT(30) DEF IsEvictions
<1> QED
  BY <1>3, <1>5 DEF Evictions

-----------------------------------------------------------------------------
(* The invariant.                                                           *)

\* A fresh block satisfies the invariant.
LEMMA NewBlockInv == BlockInv(NewBlock)
<1>1. DOMAIN NewBlock = BlockFields
  BY SMTT(30) DEF NewBlock, BlockFields
<1>2. TableInv(NewBlock)
  BY Ring256Assumption DEF NewBlock, TableInv, Slot, Advance
<1> QED
  BY <1>1, <1>2, SMTT(30) DEF NewBlock, BlockInv

\* The span table is sound in every reachable state, before and after an overflow.
THEOREM BlockInvariant == Spec => []BlockInv(fb)
<1>1. Init => BlockInv(fb)
  BY NewBlockInv DEF Init
<1>2. BlockInv(fb) /\ [Next]_fb => BlockInv(fb)'
  <2> SUFFICES ASSUME BlockInv(fb), [Next]_fb PROVE BlockInv(fb')
    OBVIOUS
  <2>1. CASE Idle
    BY <2>1, SMTT(30) DEF Idle, Skip, BlockInv, BlockFields, TableInv, Live
  <2>2. CASE Call
    <3>1. PICK rec \in Record : fb' = Produce(fb, rec)
      BY <2>2 DEF Call
    <3> QED
      BY <3>1, EvictionsExist, ProduceKeepsInv, Zenon DEF BlockInv
  <2>3. CASE UNCHANGED fb
    BY <2>3
  <2> QED
    BY <2>1, <2>2, <2>3 DEF Next
<1> QED
  BY <1>1, <1>2, PTL DEF Spec

\* A fresh block is a fresh ring.
LEMMA NewBlockIsNewRing == RingOf(NewBlock) = BR!NewRing
<1>1. Live(NewBlock) = <<>> /\ AsEntries(<<>>) = <<>>
  BY DEF NewBlock, Live, AsEntries
<1> QED
  BY <1>1, SameGeometry DEF NewBlock, RingOf, BR!NewRing, BR!Zero, Zero

\* OPENOT_Ring256Producer implements RingBuffer until its loss table overflows: every
\* call is a write_record with the same offsets, evictions, cells and index, or changes
\* nothing a reader of the ring can see.
THEOREM Ring256ImplementsByteRing == Spec => ImplementsByteRing
<1>1. Init => BR!Init
  BY NewBlockIsNewRing DEF Init, BR!Init, AbstractRing
<1>2. BlockInv(fb) /\ [Next]_fb
      => [fb'.LossRangeOverflow \/ BR!Write \/ UNCHANGED AbstractRing]_fb
  <2> SUFFICES ASSUME BlockInv(fb), Next, ~fb'.LossRangeOverflow
               PROVE  BR!Write \/ UNCHANGED AbstractRing
    OBVIOUS
  <2>1. CASE Idle
    <3>1. RingOf(Skip(fb)) = RingOf(fb)
      BY DEF RingOf, Live, Skip, BlockInv, BlockFields
    <3> QED
      BY <2>1, <3>1 DEF Idle, AbstractRing
  <2>2. CASE Call
    <3>1. PICK rec \in Record : Len(fb.written) < MaxCalls /\ fb' = Produce(fb, rec)
      BY <2>2 DEF Call
    <3>2. CASE RingOf(fb') = RingOf(fb)
      BY <3>2 DEF AbstractRing
    <3>3. CASE rec.len <= Capacity /\ RingOf(fb') = BR!write_record(RingOf(fb), rec)
      <4>1. Len(RingOf(fb).written) = Len(fb.written)
        BY AsEntriesType DEF RingOf, BlockInv
      <4> QED
        BY <3>1, <3>3, <4>1 DEF BR!Write, BR!Fits, AbstractRing
    <3> QED
      BY <3>1, <3>2, <3>3, EvictionsExist, ProduceRefines DEF BlockInv
  <2> QED
    BY <2>1, <2>2 DEF Next
<1> QED
  BY <1>1, <1>2, BlockInvariant, PTL DEF Spec, ImplementsByteRing

=============================================================================
