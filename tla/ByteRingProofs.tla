--------------------------- MODULE ByteRingProofs ---------------------------
(***************************************************************************)
(* The ring of ByteRing for every capacity, header length, set of records   *)
(* and number of writes: what it retains is a suffix of what was written,   *)
(* is undamaged, and lies in a window that fits the pool.                   *)
(***************************************************************************)
EXTENDS ByteRing, TLAPS

-----------------------------------------------------------------------------
(* Offsets and positions.                                                   *)

\* Division with remainder.
LEMMA DivMod ==
    ASSUME NEW C \in Nat \ {0}, NEW a \in Nat
    PROVE  /\ a \div C \in Nat
           /\ a % C \in 0 .. (C - 1)
           /\ a = C * (a \div C) + (a % C)
  BY SMT

\* A positive multiple of C is at least C.
LEMMA MultipleBound ==
    ASSUME NEW C \in Nat \ {0}, NEW d \in Int, C * d > 0
    PROVE  C * d >= C
  BY SMT

\* Two offsets less than a capacity apart have different physical positions.
LEMMA ModDistinct ==
    ASSUME NEW C \in Nat \ {0}, NEW a \in Nat, NEW b \in Nat, a < b, b < a + C
    PROVE  a % C # b % C
<1> DEFINE qa == a \div C
           qb == b \div C
<1>1. /\ qa \in Int /\ a % C \in Int /\ a = C * qa + (a % C)
      /\ qb \in Int /\ b % C \in Int /\ b = C * qb + (b % C)
  BY DivMod
<1>2. SUFFICES ASSUME a % C = b % C PROVE FALSE
  OBVIOUS
<1>3. C * (qb - qa) = b - a
  BY <1>1, <1>2
<1>4. C * (qb - qa) >= C
  BY <1>1, <1>3, MultipleBound
<1> QED
  BY <1>3, <1>4

\* A shift that does not reach the end of the pool shifts the position.
LEMMA ModShift ==
    ASSUME NEW C \in Nat \ {0}, NEW a \in Nat, NEW k \in Nat, (a % C) + k < C
    PROVE  (a + k) % C = (a % C) + k
<1> DEFINE q == a \div C
<1>1. q \in Nat /\ a = C * q + (a % C) /\ a % C \in 0 .. (C - 1)
  BY DivMod, Zenon
<1>2. a + k = C * q + ((a % C) + k)
  BY <1>1
<1> HIDE DEF q
<1> QED
  BY <1>1, <1>2

\* The next multiple of C is at position 0.
LEMMA ModNext ==
    ASSUME NEW C \in Nat \ {0}, NEW a \in Nat
    PROVE  (a + (C - (a % C))) % C = 0
<1> DEFINE q == a \div C
<1>1. q \in Nat /\ a = C * q + (a % C) /\ a % C \in 0 .. (C - 1)
  BY DivMod, Zenon
<1>2. a + (C - (a % C)) = C * (q + 1)
  BY <1>1
<1> HIDE DEF q
<1>3. (C * (q + 1)) % C = 0
  BY <1>1
<1> QED
  BY <1>2, <1>3

\* The same facts about the pool.
LEMMA PhysType ==
    ASSUME NEW a \in Nat
    PROVE  Phys(a) \in 0 .. (Capacity - 1)
  BY DivMod, GeometryAssumption DEF Phys

\* Offsets less than a lap apart lie at different positions.
LEMMA PhysDistinct ==
    ASSUME NEW a \in Nat, NEW b \in Nat, a < b, b < a + Capacity
    PROVE  Phys(a) # Phys(b)
  BY ModDistinct, GeometryAssumption, Zenon DEF Phys

\* Cells of a record that does not cross the end follow its start.
LEMMA PhysShift ==
    ASSUME NEW a \in Nat, NEW k \in Nat, Phys(a) + k < Capacity
    PROVE  Phys(a + k) = Phys(a) + k
  BY ModShift, GeometryAssumption, Zenon DEF Phys

\* Where a record of a length that fits starts (write_record's wrap decision):
\* not before the head, in one piece, and less than a lap further on.
LEMMA StartAbsProperties ==
    ASSUME NEW head \in Nat, NEW len \in Nat, len <= Capacity
    PROVE  /\ StartAbs(head, len) \in Nat
           /\ head <= StartAbs(head, len)
           /\ Phys(StartAbs(head, len)) + len <= Capacity
<1> USE GeometryAssumption
<1>1. Phys(head) \in 0 .. (Capacity - 1)
  BY PhysType
<1>2. CASE Phys(head) = 0 \/ Phys(head) + len <= Capacity
  BY <1>1, <1>2 DEF StartAbs
<1>3. CASE ~(Phys(head) = 0 \/ Phys(head) + len <= Capacity)
  <2>1. StartAbs(head, len) = head + (Capacity - Phys(head))
    BY <1>3 DEF StartAbs
  <2>2. Phys(StartAbs(head, len)) = 0
    BY <2>1, ModNext, Zenon DEF Phys
  <2> QED
    BY <1>1, <2>1, <2>2
<1> QED
  BY <1>2, <1>3

-----------------------------------------------------------------------------
(* Sequences.                                                               *)

\* Appending adds one element at the end.
LEMMA AppendFacts ==
    ASSUME NEW S, NEW s \in Seq(S), NEW e \in S
    PROVE  /\ Append(s, e) \in Seq(S) /\ Len(Append(s, e)) = Len(s) + 1
           /\ \A i \in 1 .. Len(s) : Append(s, e)[i] = s[i]
           /\ Append(s, e)[Len(s) + 1] = e
  OBVIOUS

\* The elements of a subsequence.
LEMMA SubSeqFacts ==
    ASSUME NEW S, NEW s, NEW m \in Int, NEW n \in Int, \A i \in m .. n : s[i] \in S
    PROVE  /\ SubSeq(s, m, n) \in Seq(S)
           /\ Len(SubSeq(s, m, n)) = IF m <= n THEN n - m + 1 ELSE 0
           /\ \A i \in 1 .. (n - m + 1) : SubSeq(s, m, n)[i] = s[m + i - 1]
  OBVIOUS

\* A subsequence whose end lies before its start is empty.
LEMMA NoSubSeq ==
    ASSUME NEW s, NEW m \in Int, NEW n \in Int, n < m
    PROVE  SubSeq(s, m, n) = << >>
  OBVIOUS

\* The elements of a concatenation.
LEMMA ConcatFacts ==
    ASSUME NEW S, NEW s \in Seq(S), NEW t \in Seq(S)
    PROVE  /\ s \o t \in Seq(S) /\ Len(s \o t) = Len(s) + Len(t)
           /\ \A i \in 1 .. Len(s) + Len(t) :
                (s \o t)[i] = IF i <= Len(s) THEN s[i] ELSE t[i - Len(s)]
  OBVIOUS

\* The elements, the length and the domain of a sequence.
LEMMA SeqElement ==
    ASSUME NEW S, NEW s \in Seq(S), NEW n \in 1 .. Len(s)
    PROVE  s[n] \in S
  OBVIOUS

\* Only the empty sequence has length 0.
LEMMA NoLength ==
    ASSUME NEW S, NEW s \in Seq(S)
    PROVE  s = << >> <=> Len(s) = 0
  OBVIOUS

\* Sequences with the same elements are equal.
LEMMA SameSeq ==
    ASSUME NEW S, NEW s \in Seq(S), NEW t \in Seq(S), Len(s) = Len(t),
           \A i \in 1 .. Len(s) : s[i] = t[i]
    PROVE  s = t
  OBVIOUS

-----------------------------------------------------------------------------
(***************************************************************************)
(* The inductive invariant.  That a write leaves a retained record intact   *)
(* needs to know where the retained records are: in write order, each in    *)
(* one piece inside the pool, none more than a capacity behind the head.    *)
(* Every write re-establishes this because eviction happens before it.      *)
(***************************************************************************)
IndexOrdered(r) ==
    \A i, j \in DOMAIN r.index : i < j => r.index[i].end_abs <= r.index[j].start_abs

IndexInWindow(r) ==
    \A i \in DOMAIN r.index :
        /\ r.index[i].end_abs <= r.head_abs
        /\ r.head_abs <= r.index[i].start_abs + Capacity
        /\ Phys(r.index[i].start_abs) + r.index[i].rec.len <= Capacity

OldestIsFirst(r) ==
    IF r.index = <<>> THEN r.head_abs = 0 /\ r.oldest_abs = 0
    ELSE r.oldest_abs = r.index[1].start_abs

RingInv(r) ==
    /\ r \in RingType
    /\ IndexIsSuffix(r)
    /\ IndexOrdered(r)
    /\ IndexInWindow(r)
    /\ OldestIsFirst(r)
    /\ IndexIsIntact(r)

\* evict_before_clobber stops on idx, whatever the floor.
EvictionStops(idx) ==
    \A floor \in Nat :
        /\ EvictCount(idx, floor) \in 0 .. Len(idx)
        /\ IsEvictCount(idx, floor, EvictCount(idx, floor))

-----------------------------------------------------------------------------
(* Eviction.                                                                *)

-----------------------------------------------------------------------------
(* One write.                                                               *)

\* A fresh ring satisfies the invariant (RingBuffer::new).
LEMMA NewRingInv == RingInv(NewRing)
<1>1. NewRing \in RingType
  <2>1. [p \in Position |-> Zero] \in [Position -> {Zero} \cup [rec : Record, off : Nat]]
    OBVIOUS
  <2>2. <<>> \in Seq(EntryType)
    BY NoLength
  <2> QED
    BY <2>1, <2>2 DEF NewRing, RingType, Offset
<1>2. NewRing.index = <<>> /\ NewRing.written = <<>> /\ NewRing.lost_count = 0
  BY DEF NewRing
<1>3. DOMAIN NewRing.index = {}
  BY <1>2
<1>4. IndexIsSuffix(NewRing)
  <2>1. Len(<<>>) = 0
    BY NoLength
  <2>2. SubSeq(<<>>, 1, 0) = <<>>
    BY NoSubSeq
  <2> QED
    BY <1>2, <2>1, <2>2 DEF IndexIsSuffix, DropFirst
<1> QED
  BY <1>1, <1>2, <1>3, <1>4
     DEF RingInv, IndexOrdered, IndexInWindow, OldestIsFirst, IndexIsIntact, NewRing

\* The first n of the L entries of idx start below the floor.
Evicts(idx, L, floor, n) ==
    /\ idx \in Seq(EntryType) /\ L \in Nat /\ L = Len(idx)
    /\ \A i, j \in 1 .. L : i < j => idx[i].end_abs <= idx[j].start_abs
    /\ floor \in Nat /\ n \in 0 .. L /\ IsEvictCount(idx, floor, n)

\* What is left of an index once the entries below the floor are popped from its
\* front: the entries from n + 1 on, none of which starts below the floor, because
\* the index is ordered.
LEMMA KeptProperties ==
    ASSUME NEW idx, NEW L, NEW floor, NEW n, Evicts(idx, L, floor, n)
    PROVE  /\ DropFirst(idx, n) \in Seq(EntryType)
           /\ Len(DropFirst(idx, n)) = L - n
           /\ \A i \in 1 .. (L - n) : DropFirst(idx, n)[i] = idx[n + i]
           /\ \A i \in 1 .. (L - n) : idx[n + i].start_abs >= floor
<1> USE DEF Evicts
<1> DEFINE kept == DropFirst(idx, n)
<1>1. \A i \in 1 .. L : idx[i] \in EntryType
  BY SeqElement
<1>2. \A x \in EntryType : /\ x.start_abs \in Nat /\ x.end_abs \in Nat
                           /\ x.start_abs <= x.end_abs
  BY RecordAssumption, GeometryAssumption DEF EntryType, Offset
<1>3. /\ kept \in Seq(EntryType)
      /\ Len(kept) = IF n + 1 <= L THEN L - (n + 1) + 1 ELSE 0
      /\ \A i \in 1 .. (L - (n + 1) + 1) : kept[i] = idx[(n + 1) + i - 1]
  <2>1. \A i \in (n + 1) .. L : idx[i] \in EntryType
    BY <1>1
  <2>2. n + 1 \in Int /\ L \in Int
    OBVIOUS
  <2> QED
    BY <2>1, <2>2, SubSeqFacts, SMTT(30) DEF DropFirst
<1> HIDE DEF kept
<1>4. Len(kept) = L - n
  BY <1>3
<1>5. ASSUME NEW i \in 1 .. (L - n) PROVE kept[i] = idx[n + i]
  <2>1. i \in 1 .. (L - (n + 1) + 1) /\ (n + 1) + i - 1 = n + i
    OBVIOUS
  <2> QED
    BY <1>3, <2>1
<1>6. ASSUME NEW i \in 1 .. (L - n) PROVE idx[n + i].start_abs >= floor
  <2> DEFINE x == idx[n + 1]
             y == idx[n + i]
  <2>1. n + 1 \in 1 .. L /\ n + i \in 1 .. L
    OBVIOUS
  <2>2. x \in EntryType /\ y \in EntryType
    BY <1>1, <2>1
  <2>3. x.start_abs >= floor
    BY <2>1 DEF IsEvictCount
  <2>4. CASE i = 1
    BY <2>3, <2>4
  <2>5. CASE i # 1
    <3>1. x.end_abs <= y.start_abs
      BY <2>1, <2>5
    <3> HIDE DEF x, y
    <3> QED
      <4>1. y.start_abs >= floor
        BY <1>2, <2>2, <2>3, <3>1
      <4> QED
        BY <4>1 DEF y
  <2> QED
    BY <2>4, <2>5
<1> QED
  BY <1>3, <1>4, <1>5, <1>6 DEF kept

\* Dropping n entries of a suffix and appending one at both ends gives the suffix
\* that starts n further on.
LEMMA SuffixStep ==
    ASSUME NEW S, NEW seq \in Seq(S), NEW lost \in Nat, lost <= Len(seq),
           NEW n \in 0 .. Len(DropFirst(seq, lost)), NEW x \in S
    PROVE  /\ lost + n <= Len(Append(seq, x))
           /\ Append(DropFirst(DropFirst(seq, lost), n), x)
                = DropFirst(Append(seq, x), lost + n)
<1> DEFINE idx == DropFirst(seq, lost)
           long == Append(seq, x)
           kept == DropFirst(idx, n)
           left == Append(kept, x)
           right == DropFirst(long, lost + n)
<1>0. Len(seq) \in Nat /\ \A i \in 1 .. Len(seq) : seq[i] \in S
  BY SeqElement
<1>1. /\ idx \in Seq(S)
      /\ Len(idx) = Len(seq) - lost
      /\ \A i \in 1 .. Len(idx) : idx[i] = seq[lost + i]
  <2>1. \A i \in (lost + 1) .. Len(seq) : seq[i] \in S
    BY <1>0
  <2>2. /\ idx \in Seq(S)
        /\ Len(idx) = IF lost + 1 <= Len(seq) THEN Len(seq) - (lost + 1) + 1 ELSE 0
        /\ \A i \in 1 .. (Len(seq) - (lost + 1) + 1) : idx[i] = seq[(lost + 1) + i - 1]
    BY <1>0, <2>1, SubSeqFacts DEF DropFirst
  <2>3. Len(idx) = Len(seq) - lost
    BY <1>0, <2>2
  <2>4. ASSUME NEW i \in 1 .. Len(idx) PROVE idx[i] = seq[lost + i]
    <3>1. i \in 1 .. (Len(seq) - (lost + 1) + 1) /\ (lost + 1) + i - 1 = lost + i
      BY <1>0, <2>3
    <3> QED
      BY <2>2, <3>1
  <2> QED
    BY <2>2, <2>3, <2>4
<1>2. /\ kept \in Seq(S)
      /\ Len(kept) = Len(idx) - n
      /\ \A i \in 1 .. Len(kept) : kept[i] = idx[n + i]
  <2>0. Len(idx) \in Nat
    BY <1>1
  <2>n. n \in Nat
    BY <2>0
  <2>1. \A i \in (n + 1) .. Len(idx) : idx[i] \in S
    BY <1>1, <2>0, SeqElement
  <2>2. /\ kept \in Seq(S)
        /\ Len(kept) = IF n + 1 <= Len(idx) THEN Len(idx) - (n + 1) + 1 ELSE 0
        /\ \A i \in 1 .. (Len(idx) - (n + 1) + 1) : kept[i] = idx[(n + 1) + i - 1]
    BY <2>0, <2>1, <2>n, SubSeqFacts DEF DropFirst
  <2> HIDE DEF kept
  <2>3. Len(kept) = Len(idx) - n
    BY <2>0, <2>2
  <2>4. ASSUME NEW i \in 1 .. Len(kept) PROVE kept[i] = idx[n + i]
    <3>1. i \in 1 .. (Len(idx) - (n + 1) + 1) /\ (n + 1) + i - 1 = n + i
      BY <2>0, <2>3
    <3> QED
      BY <2>2, <3>1
  <2> QED
    BY <2>2, <2>3, <2>4
<1>3. /\ long \in Seq(S)
      /\ Len(long) = Len(seq) + 1
      /\ \A i \in 1 .. Len(seq) : long[i] = seq[i]
      /\ long[Len(seq) + 1] = x
  BY AppendFacts
<1> HIDE DEF idx, long, kept
<1>4. /\ left \in Seq(S)
      /\ Len(left) = Len(kept) + 1
      /\ \A i \in 1 .. Len(kept) : left[i] = kept[i]
      /\ left[Len(kept) + 1] = x
  <2> HIDE DEF left
  <2>1. left = Append(kept, x)
    BY DEF left
  <2> QED
    BY <1>2, <2>1, AppendFacts
<1>n. n \in Nat
  BY <1>1 DEF idx
<1>5. Len(kept) \in Nat /\ Len(long) \in Nat /\ Len(long) = (lost + n) + (Len(kept) + 1)
  BY <1>0, <1>1, <1>2, <1>3
<1>6. /\ right \in Seq(S)
      /\ Len(right) = Len(kept) + 1
      /\ \A i \in 1 .. (Len(kept) + 1) : right[i] = long[(lost + n) + i]
  <2>1. \A i \in ((lost + n) + 1) .. Len(long) : long[i] \in S
    BY <1>3, <1>5, SeqElement
  <2>2. /\ right \in Seq(S)
        /\ Len(right) = IF (lost + n) + 1 <= Len(long)
                        THEN Len(long) - ((lost + n) + 1) + 1 ELSE 0
        /\ \A i \in 1 .. (Len(long) - ((lost + n) + 1) + 1) :
              right[i] = long[((lost + n) + 1) + i - 1]
    BY <1>5, <1>n, <2>1, SubSeqFacts DEF DropFirst
  <2> HIDE DEF right
  <2>3. Len(right) = Len(kept) + 1
    BY <1>5, <2>2
  <2>4. ASSUME NEW i \in 1 .. (Len(kept) + 1) PROVE right[i] = long[(lost + n) + i]
    <3>1. /\ i \in 1 .. (Len(long) - ((lost + n) + 1) + 1)
          /\ ((lost + n) + 1) + i - 1 = (lost + n) + i
      BY <1>5
    <3> QED
      BY <2>2, <3>1
  <2> QED
    BY <2>2, <2>3, <2>4
<1> HIDE DEF left, right
<1>7. ASSUME NEW i \in 1 .. (Len(kept) + 1) PROVE left[i] = right[i]
  <2>1. CASE i = Len(kept) + 1
    <3>1. (lost + n) + i = Len(seq) + 1
      BY <1>0, <1>3, <1>5, <2>1, Zenon
    <3>2. right[i] = long[Len(seq) + 1]
      BY <1>6, <3>1
    <3> QED
      BY <1>3, <1>4, <2>1, <3>2
  <2>2. CASE i # Len(kept) + 1
    <3>1. i \in 1 .. Len(kept)
      BY <1>5, <2>2
    <3>2. /\ n + i \in 1 .. Len(idx) /\ lost + (n + i) \in 1 .. Len(seq)
          /\ (lost + n) + i = lost + (n + i)
      BY <1>0, <1>1, <1>2, <3>1
    <3>3. left[i] = seq[lost + (n + i)]
      BY <1>1, <1>2, <1>4, <3>1, <3>2, SMTT(30)
    <3>4. right[i] = long[lost + (n + i)]
      BY <1>6, <3>2
    <3> QED
      BY <1>3, <3>2, <3>3, <3>4, Zenon
  <2> QED
    BY <2>1, <2>2
<1>8. left = right
  BY <1>4, <1>6, <1>7, SameSeq
<1>9. lost + n <= Len(long)
  BY <1>1, <1>2, <1>5
<1> QED
  BY <1>8, <1>9 DEF left, right, kept, idx, long

\* Byte k of the record at s is not one that writing rec at start reclaims.
Apart(head, start, rec, s, len, k) ==
    /\ head \in Nat /\ start \in Nat /\ head <= start
    /\ rec.len \in Nat /\ rec.len > 0 /\ Phys(start) + rec.len <= Capacity
    /\ s \in Nat /\ len \in Nat /\ Phys(s) + len <= Capacity
    /\ s + len <= head /\ start + rec.len <= s + Capacity /\ k \in 0 .. (len - 1)

\* A write leaves every cell of a record alone that ends before the old head and
\* starts less than a capacity before the new one: neither the wrap marker nor the
\* new record reaches it (write_record after evict_before_clobber).
LEMMA WriteMisses ==
    ASSUME NEW pool, NEW head, NEW start, NEW rec, NEW s, NEW len, NEW k,
           Apart(head, start, rec, s, len, k)
    PROVE  Overwrite(pool, head, start, rec)[Phys(s) + k] = pool[Phys(s) + k]
<1> USE DEF Apart
<1> DEFINE p == Phys(s) + k
           a == s + k
<1>0. Capacity \in Nat \ {0} /\ k \in Nat /\ a \in Nat
  BY GeometryAssumption
<1>1. Phys(s) \in Nat /\ Phys(start) \in Nat /\ Phys(head) \in Nat
  BY <1>0, PhysType
<1>2. p \in Position /\ p < Capacity
  BY <1>0, <1>1 DEF Position
<1>3. Phys(a) = p
  BY <1>0, <1>1, <1>2, PhysShift
<1>4. ASSUME Phys(start) <= p, p < Phys(start) + rec.len PROVE FALSE
  <2> DEFINE j == p - Phys(start)
  <2>1. j \in Nat /\ j < rec.len /\ Phys(start) + j = p
    BY <1>1, <1>2, <1>4 DEF Position
  <2> HIDE DEF j
  <2>2. Phys(start + j) = p
    BY <1>2, <2>1, PhysShift
  <2>3. a < start + j /\ start + j < a + Capacity /\ start + j \in Nat
    BY <1>0, <2>1
  <2> HIDE DEF a, p
  <2> QED
    BY <1>0, <1>3, <2>2, <2>3, PhysDistinct
<1>5. ASSUME start # head, p = Phys(head) PROVE FALSE
  <2>1. a < head /\ head < a + Capacity
    BY <1>0, <1>5
  <2> HIDE DEF a, p
  <2> QED
    BY <1>0, <1>3, <1>5, <2>1, PhysDistinct
<1> HIDE DEF p
<1>6. Overwrite(pool, head, start, rec)[p] = pool[p]
  BY <1>2, <1>4, <1>5 DEF Overwrite
<1> QED
  BY <1>6 DEF p

\* The cells of the record just written.
LEMMA WriteHits ==
    ASSUME NEW pool, NEW head \in Nat, NEW start \in Nat,
           NEW rec, rec.len \in Nat, Phys(start) + rec.len <= Capacity,
           NEW k \in 0 .. (rec.len - 1)
    PROVE  Overwrite(pool, head, start, rec)[Phys(start) + k] = Cell(rec, k)
<1> DEFINE p == Phys(start) + k
<1>1. Capacity \in Nat /\ k \in Nat /\ Phys(start) \in Nat
  BY GeometryAssumption, PhysType
<1>2. p \in Position /\ Phys(start) <= p /\ p < Phys(start) + rec.len /\ p - Phys(start) = k
  BY <1>1 DEF Position
<1> HIDE DEF p
<1>3. Overwrite(pool, head, start, rec)[p] = Cell(rec, k)
  BY <1>2 DEF Overwrite
<1> QED
  BY <1>3 DEF p

\* A write of a record that fits re-establishes the invariant (write_record).
LEMMA WriteKeepsRingInv ==
    ASSUME NEW r, RingInv(r), EvictionStops(r.index), NEW rec \in Record, Fits(rec)
    PROVE  RingInv(write_record(r, rec))
<1> DEFINE head == r.head_abs
           idx == r.index
           L == Len(idx)
           start == StartAbs(head, rec.len)
           end == start + rec.len
           floor == RetentionFloor(end)
           n == EvictCount(idx, floor)
           kept == DropFirst(idx, n)
           K == Len(kept)
           e == Entry(start, rec)
           w == write_record(r, rec)
           new == w.index
<1>0. EvictionStops(idx)
  OBVIOUS
<1>1. /\ head \in Nat /\ r.lost_count \in Nat /\ r.wraps \in Nat
      /\ idx \in Seq(EntryType) /\ r.written \in Seq(EntryType)
      /\ r.producer_loss \in Seq(EntryType)
      /\ r.bytes \in [Position -> {Zero} \cup [rec : Record, off : Nat]]
  BY DEF RingInv, RingType, Offset
<1>2. Capacity \in Nat \ {0} /\ rec.len \in Nat /\ rec.len > 0 /\ rec.len <= Capacity
  BY RecordAssumption, GeometryAssumption, SMTT(30) DEF Fits
<1>w. /\ w.bytes = Overwrite(r.bytes, head, start, rec)
      /\ w.head_abs = end
      /\ w.oldest_abs = IF kept = <<>> THEN start ELSE kept[1].start_abs
      /\ w.lost_count = r.lost_count + n
      /\ w.wraps = IF start # head THEN r.wraps + 1 ELSE r.wraps
      /\ new = Append(kept, e)
      /\ w.producer_loss = r.producer_loss \o SubSeq(idx, 1, n)
      /\ w.written = Append(r.written, e)
  BY ZenonT(40) DEF write_record, evict_before_clobber
<1>r. w = [bytes |-> w.bytes, head_abs |-> w.head_abs, oldest_abs |-> w.oldest_abs,
           lost_count |-> w.lost_count, wraps |-> w.wraps, index |-> new,
           producer_loss |-> w.producer_loss, written |-> w.written]
  BY ZenonT(40) DEF write_record, evict_before_clobber
<1> HIDE DEF w
<1>L. L \in Nat /\ DOMAIN idx = 1 .. L
  BY <1>1
<1>i. /\ \A i \in 1 .. L : idx[i] \in EntryType
      /\ \A i, j \in 1 .. L : i < j => idx[i].end_abs <= idx[j].start_abs
      /\ \A i \in 1 .. L : /\ idx[i].end_abs <= head
                           /\ Phys(idx[i].start_abs) + idx[i].rec.len <= Capacity
      /\ \A i \in 1 .. L : \A k \in 0 .. (idx[i].rec.len - 1) :
            r.bytes[Phys(idx[i].start_abs) + k] = Cell(idx[i].rec, k)
  <2>1. \A i \in 1 .. L : idx[i] \in EntryType
    BY <1>1, <1>L, SeqElement, Zenon
  <2> QED
    BY <1>L, <2>1, SMTT(30) DEF RingInv, IndexOrdered, IndexInWindow, IndexIsIntact
<1>x. \A x \in EntryType : /\ x.start_abs \in Nat /\ x.end_abs \in Nat
                           /\ x.rec \in Record /\ x.rec.len \in Nat
                           /\ x.end_abs = x.start_abs + x.rec.len
  BY RecordAssumption DEF EntryType, Offset
<1>s. /\ r.lost_count <= Len(r.written)
      /\ idx = DropFirst(r.written, r.lost_count)
  BY DEF RingInv, IndexIsSuffix
<1> HIDE DEF head, idx, L
<1>3. start \in Nat /\ head <= start /\ Phys(start) + rec.len <= Capacity
  BY <1>1, <1>2, StartAbsProperties, Zenon
<1> HIDE DEF start
<1>4. end \in Nat /\ start < end /\ end = start + rec.len
  BY <1>2, <1>3
<1> HIDE DEF end
<1>5. floor \in Nat /\ end <= floor + Capacity
  BY <1>2, <1>4 DEF RetentionFloor
<1> HIDE DEF floor
<1>6. n \in 0 .. L /\ IsEvictCount(idx, floor, n)
  BY <1>0, <1>5 DEF EvictionStops, L
<1> HIDE DEF n
<1>7. /\ kept \in Seq(EntryType)
      /\ K = L - n
      /\ \A i \in 1 .. (L - n) : kept[i] = idx[n + i]
      /\ \A i \in 1 .. (L - n) : idx[n + i].start_abs >= floor
  <2>1. Evicts(idx, L, floor, n)
    BY <1>1, <1>5, <1>6, <1>L, <1>i DEF L, Evicts
  <2> QED
    BY <2>1, KeptProperties
<1>8. e \in EntryType /\ e.start_abs = start /\ e.end_abs = end /\ e.rec = rec
  BY <1>2, <1>3, <1>4 DEF Entry, EntryType, Offset
<1>K. K \in Nat /\ n + K = L
  BY <1>6, <1>7, <1>L
<1> HIDE DEF kept, K, e
<1>9. /\ new \in Seq(EntryType) /\ DOMAIN new = 1 .. (K + 1)
      /\ \A i \in 1 .. K : new[i] = kept[i]
      /\ new[K + 1] = e
      /\ new # <<>>
  <2>1. /\ new \in Seq(EntryType)
        /\ Len(new) = K + 1
        /\ \A i \in 1 .. K : new[i] = kept[i]
        /\ new[K + 1] = e
        /\ new # <<>>
    <3>1. kept \in Seq(EntryType) /\ e \in EntryType /\ new = Append(kept, e)
      BY <1>7, <1>8, <1>w, SMTT(30)
    <3> HIDE DEF new
    <3> QED
      BY <3>1, AppendFacts, SMTT(30) DEF K
  <2> QED
    BY <2>1
<1> HIDE DEF new
\* A kept entry ends at or before the old head and starts above the floor.
<1>10. ASSUME NEW i \in 1 .. K
       PROVE  /\ n + i \in 1 .. L
              /\ new[i] = idx[n + i]
              /\ kept[i] = idx[n + i]
              /\ new[i] \in EntryType
              /\ new[i].end_abs <= head
              /\ end <= new[i].start_abs + Capacity
              /\ Phys(new[i].start_abs) + new[i].rec.len <= Capacity
  <2>1. n + i \in 1 .. L /\ i \in 1 .. (L - n)
    BY <1>6, <1>K, <1>L
  <2>2. new[i] = idx[n + i] /\ kept[i] = idx[n + i]
    BY <1>7, <1>9, <2>1, SMTT(30)
  <2> DEFINE x == idx[n + i]
  <2>3. /\ x \in EntryType /\ x.end_abs <= head /\ x.start_abs >= floor
        /\ Phys(x.start_abs) + x.rec.len <= Capacity
    BY <1>i, <1>7, <2>1
  <2> HIDE DEF x
  <2>4. end <= x.start_abs + Capacity
    <3>1. x.start_abs \in Nat
      BY <1>x, <2>3
    <3> QED
      BY <1>2, <1>4, <1>5, <2>3, <3>1
  <2>5. new[i] = x
    BY <2>2 DEF x
  <2> QED
    BY <2>1, <2>2, <2>3, <2>4, <2>5
<1>11. w \in RingType
  <2>1. w.bytes \in [Position -> {Zero} \cup [rec : Record, off : Nat]]
    <3>1. ASSUME NEW p \in Position, Phys(start) <= p, p < Phys(start) + rec.len
          PROVE  Cell(rec, p - Phys(start)) \in [rec : Record, off : Nat]
      <4>1. p - Phys(start) \in Nat
        BY <1>2, <1>3, <3>1, PhysType DEF Position
      <4> QED
        BY <4>1 DEF Cell
    <3>2. \A p \in Position : r.bytes[p] \in {Zero} \cup [rec : Record, off : Nat]
      BY <1>1
    <3> QED
      BY <1>w, <3>1, <3>2 DEF Overwrite
  <2>2. w.oldest_abs \in Nat
    <3>1. CASE kept = <<>>
      BY <1>3, <1>w, <3>1
    <3>2. CASE kept # <<>>
      <4>1. 1 \in 1 .. K
        BY <1>7, <1>K, <3>2, NoLength, SMTT(30) DEF K
      <4>2. kept[1] \in EntryType
        BY <1>10, <4>1, SMTT(30)
      <4> QED
        BY <1>w, <1>x, <3>2, <4>2
    <3> QED
      BY <3>1, <3>2
  <2>3. w.producer_loss \in Seq(EntryType)
    <3>1. \A i \in 1 .. n : idx[i] \in EntryType
      BY <1>6, <1>i, <1>L
    <3>2. n \in Int
      BY <1>6, <1>L
    <3>3. SubSeq(idx, 1, n) \in Seq(EntryType)
      BY <3>1, <3>2, SubSeqFacts
    <3> QED
      BY <1>1, <1>w, <3>3, ConcatFacts, SMTT(30)
  <2>4. w.written \in Seq(EntryType)
    BY <1>1, <1>8, <1>w, AppendFacts
  <2>5. w.lost_count \in Nat
    <3>1. n \in Nat
      BY <1>6, <1>L
    <3> QED
      BY <1>1, <1>w, <3>1, SMTT(30)
  <2>6. w.wraps \in Nat /\ w.head_abs \in Nat
    <3>1. w.wraps = r.wraps + 1 \/ w.wraps = r.wraps
      BY <1>w
    <3>2. r.wraps \in Nat
      BY <1>1
    <3>3. w.head_abs \in Nat
      BY <1>4, <1>w
    <3> QED
      BY <3>1, <3>2, <3>3
  <2> QED
    BY <1>r, <1>9, <2>1, <2>2, <2>3, <2>4, <2>5, <2>6, SMTT(30) DEF RingType, Offset
<1>12. IndexIsSuffix(w)
  <2> DEFINE all == r.written
             lost == r.lost_count
  <2>1. /\ all \in Seq(EntryType) /\ lost \in Nat /\ e \in EntryType
        /\ lost <= Len(all) /\ idx = DropFirst(all, lost)
        /\ n \in 0 .. Len(idx)
    BY <1>1, <1>6, <1>8, <1>s, ZenonT(40) DEF L
  <2>2. /\ new = Append(DropFirst(idx, n), e)
        /\ w.written = Append(all, e) /\ w.lost_count = lost + n
    BY <1>w, Zenon DEF kept
  <2> HIDE DEF all, lost
  <2>3. /\ lost + n <= Len(Append(all, e))
        /\ Append(DropFirst(idx, n), e) = DropFirst(Append(all, e), lost + n)
    BY <2>1, SuffixStep, SMTT(30)
  <2> QED
    BY <2>2, <2>3, SMTT(30) DEF IndexIsSuffix, new
<1>13. IndexOrdered(w)
  <2> SUFFICES ASSUME NEW i \in 1 .. (K + 1), NEW j \in 1 .. (K + 1), i < j
               PROVE  new[i].end_abs <= new[j].start_abs
    BY <1>9 DEF IndexOrdered, new
  <2>1. i \in 1 .. K
    BY <1>K
  <2>2. CASE j \in 1 .. K
    <3>1. n + i \in 1 .. L /\ n + j \in 1 .. L /\ n + i < n + j
      BY <1>6, <1>L, <1>10, <2>1, <2>2
    <3> QED
      BY <1>i, <1>10, <2>1, <2>2, <3>1
  <2>3. CASE j = K + 1
    <3> DEFINE x == new[i]
    <3>1. x \in EntryType /\ x.end_abs <= head
      BY <1>10, <2>1, SMTT(30)
    <3> HIDE DEF x
    <3>2. x.end_abs <= start
      BY <1>1, <1>3, <1>x, <3>1
    <3> QED
      BY <1>8, <1>9, <2>3, <3>2, SMTT(30) DEF x
  <2> QED
    BY <1>K, <2>2, <2>3
<1>14. IndexInWindow(w)
  <2> SUFFICES ASSUME NEW i \in 1 .. (K + 1)
               PROVE  /\ new[i].end_abs <= end
                      /\ end <= new[i].start_abs + Capacity
                      /\ Phys(new[i].start_abs) + new[i].rec.len <= Capacity
    BY <1>9, <1>w, Zenon DEF IndexInWindow, new
  <2>1. CASE i \in 1 .. K
    <3> DEFINE x == new[i]
    <3>1. /\ x \in EntryType /\ x.end_abs <= head /\ end <= x.start_abs + Capacity
          /\ Phys(x.start_abs) + x.rec.len <= Capacity
      BY <1>10, <2>1
    <3> HIDE DEF x
    <3>2. x.end_abs <= end
      BY <1>1, <1>3, <1>4, <1>x, <3>1, SMTT(30)
    <3> QED
      BY <3>1, <3>2 DEF x
  <2>2. CASE i = K + 1
    <3>1. end <= end /\ end <= start + Capacity
      BY <1>2, <1>3, <1>4
    <3> QED
      BY <1>3, <1>8, <1>9, <2>2, <3>1
  <2> QED
    BY <1>K, <2>1, <2>2
<1>15. OldestIsFirst(w)
  <2>1. CASE kept = <<>>
    <3>1. K = 0
      BY <2>1, NoLength, SMTT(30) DEF K
    <3> QED
      BY <1>8, <1>9, <1>w, <2>1, <3>1 DEF OldestIsFirst, new
  <2>2. CASE kept # <<>>
    <3>1. 1 \in 1 .. K
      BY <1>7, <1>K, <2>2, NoLength DEF K
    <3> QED
      BY <1>9, <1>w, <2>2, <3>1, SMTT(30) DEF OldestIsFirst, new
  <2> QED
    BY <2>1, <2>2, SMTT(30)
<1>16. IndexIsIntact(w)
  <2> SUFFICES ASSUME NEW i \in 1 .. (K + 1), NEW k \in 0 .. (new[i].rec.len - 1)
               PROVE  w.bytes[Phys(new[i].start_abs) + k] = Cell(new[i].rec, k)
    BY <1>9 DEF IndexIsIntact, new
  <2>1. CASE i \in 1 .. K
    <3> DEFINE x == new[i]
    <3>1. /\ x \in EntryType /\ x.end_abs <= head /\ end <= x.start_abs + Capacity
          /\ Phys(x.start_abs) + x.rec.len <= Capacity
          /\ x = idx[n + i] /\ n + i \in 1 .. L
      BY <1>10, <2>1
    <3>2. k \in 0 .. (x.rec.len - 1)
      BY SMTT(30)
    <3> HIDE DEF x
    <3>3. r.bytes[Phys(x.start_abs) + k] = Cell(x.rec, k)
      BY <1>i, <3>1, <3>2
    <3>4. /\ x.start_abs \in Nat /\ x.rec.len \in Nat
          /\ x.start_abs + x.rec.len <= head
          /\ start + rec.len <= x.start_abs + Capacity
      BY <1>4, <1>x, <3>1, SMTT(30)
    <3>5. Overwrite(r.bytes, head, start, rec)[Phys(x.start_abs) + k]
            = r.bytes[Phys(x.start_abs) + k]
      <4>1. Apart(head, start, rec, x.start_abs, x.rec.len, k)
        BY <1>1, <1>2, <1>3, <3>1, <3>2, <3>4, SMTT(30) DEF Apart
      <4> QED
        BY <4>1, WriteMisses
    <3> QED
      BY <1>w, <3>3, <3>5 DEF x
  <2>2. CASE i = K + 1
    <3>1. new[i].rec = rec /\ new[i].start_abs = start
      BY <1>8, <1>9, <2>2, SMTT(30)
    <3>2. k \in 0 .. (rec.len - 1)
      BY <3>1, SMTT(30)
    <3>3. Overwrite(r.bytes, head, start, rec)[Phys(start) + k] = Cell(rec, k)
      BY <1>1, <1>2, <1>3, <3>2, WriteHits
    <3> QED
      BY <1>w, <3>1, <3>3, SMTT(30)
  <2> QED
    BY <1>K, <2>1, <2>2
<1>17. RingInv(w)
  BY <1>11, <1>12, <1>13, <1>14, <1>15, <1>16 DEF RingInv
<1> QED
  BY <1>17 DEF w

\* Draining the loss ranges touches nothing the invariant is about
\* (take_producer_loss_ranges).
LEMMA TakeKeepsRingInv ==
    ASSUME NEW r, RingInv(r)
    PROVE  RingInv(take_producer_loss_ranges(r))
<1> DEFINE t == take_producer_loss_ranges(r)
<1>1. r \in RingType
  BY DEF RingInv
<1>2. t = [r EXCEPT !.producer_loss = <<>>]
  BY DEF take_producer_loss_ranges
<1>3. <<>> \in Seq(EntryType)
  BY NoLength
<1>4. t \in RingType
  BY <1>1, <1>2, <1>3, Zenon DEF RingType
<1>5. /\ t.bytes = r.bytes /\ t.head_abs = r.head_abs /\ t.oldest_abs = r.oldest_abs
      /\ t.lost_count = r.lost_count /\ t.index = r.index /\ t.written = r.written
  BY <1>1, <1>2 DEF RingType
<1> HIDE DEF t
<1>6. RingInv(t)
  BY <1>4, <1>5
     DEF RingInv, IndexIsSuffix, IndexOrdered, IndexInWindow, OldestIsFirst, IndexIsIntact
<1> QED
  BY <1>6 DEF t

\* The retained window of a ring that satisfies the invariant (from_captured's two
\* checks), and where it begins.
LEMMA WindowOfRingInv ==
    ASSUME NEW r, RingInv(r)
    PROVE  /\ r.head_abs \in Nat /\ r.oldest_abs \in Nat
           /\ r.oldest_abs <= r.head_abs
           /\ r.head_abs - r.oldest_abs <= Capacity
<1>1. r.head_abs \in Nat /\ r.oldest_abs \in Nat /\ r.index \in Seq(EntryType)
  BY DEF RingInv, RingType, Offset
<1>2. Capacity \in Nat
  BY GeometryAssumption
<1>3. CASE r.index = <<>>
  <2>1. r.head_abs = 0 /\ r.oldest_abs = 0
    BY <1>3, SMTT(30) DEF RingInv, OldestIsFirst
  <2> QED
    BY <1>2, <2>1
<1>4. CASE r.index # <<>>
  <2> DEFINE x == r.index[1]
  <2>1. 1 \in 1 .. Len(r.index)
    BY <1>1, <1>4, NoLength
  <2>2. x \in EntryType
    BY <1>1, <2>1, SeqElement
  <2>3. /\ x.end_abs <= r.head_abs /\ r.head_abs <= x.start_abs + Capacity
        /\ r.oldest_abs = x.start_abs
    <3>1. DOMAIN r.index = 1 .. Len(r.index)
      BY <1>1
    <3> QED
      BY <1>4, <2>1, <3>1 DEF RingInv, IndexInWindow, OldestIsFirst
  <2> HIDE DEF x
  <2>4. /\ x.start_abs \in Nat /\ x.end_abs \in Nat /\ x.rec.len \in Nat
        /\ x.end_abs = x.start_abs + x.rec.len
    BY <2>2, RecordAssumption DEF EntryType, Offset
  <2> QED
    BY <1>1, <1>2, <2>3, <2>4
<1> QED
  BY <1>3, <1>4

\* A write moves the head forward and never moves oldest_abs back.
LEMMA WriteGrows ==
    ASSUME NEW r, RingInv(r), EvictionStops(r.index), NEW rec \in Record, Fits(rec)
    PROVE  /\ write_record(r, rec).head_abs > r.head_abs
           /\ write_record(r, rec).oldest_abs >= r.oldest_abs
<1> DEFINE head == r.head_abs
           old == r.oldest_abs
           idx == r.index
           L == Len(idx)
           start == StartAbs(head, rec.len)
           end == start + rec.len
           floor == RetentionFloor(end)
           n == EvictCount(idx, floor)
           kept == DropFirst(idx, n)
           w == write_record(r, rec)
<1>0. EvictionStops(idx)
  OBVIOUS
<1>1. head \in Nat /\ old \in Nat /\ old <= head
  BY WindowOfRingInv
<1>2. idx \in Seq(EntryType) /\ L \in Nat /\ DOMAIN idx = 1 .. L
  BY DEF RingInv, RingType
<1>3. Capacity \in Nat /\ rec.len \in Nat /\ rec.len > 0 /\ rec.len <= Capacity
  BY RecordAssumption, GeometryAssumption, SMTT(30) DEF Fits
<1>4. w.head_abs = end /\ w.oldest_abs = IF kept = <<>> THEN start ELSE kept[1].start_abs
  BY Zenon DEF write_record, evict_before_clobber
<1>5. /\ \A i, j \in 1 .. L : i < j => idx[i].end_abs <= idx[j].start_abs
      /\ idx # <<>> => old = idx[1].start_abs
  BY <1>2 DEF RingInv, IndexOrdered, OldestIsFirst
<1> HIDE DEF w, idx, L, head, old
<1>6. start \in Nat /\ head <= start
  BY <1>1, <1>3, StartAbsProperties
<1> HIDE DEF start
<1>7. end \in Nat /\ end > head
  BY <1>1, <1>3, <1>6
<1> HIDE DEF end
<1>8. floor \in Nat
  BY <1>3, <1>7 DEF RetentionFloor
<1> HIDE DEF floor
<1>9. n \in 0 .. L /\ IsEvictCount(idx, floor, n)
  BY <1>0, <1>8, SMTT(30) DEF EvictionStops, L
<1> HIDE DEF n
<1>10. /\ kept \in Seq(EntryType) /\ Len(kept) = L - n
       /\ \A i \in 1 .. (L - n) : kept[i] = idx[n + i]
  <2>1. Evicts(idx, L, floor, n)
    BY <1>2, <1>5, <1>8, <1>9 DEF L, Evicts
  <2> QED
    BY <2>1, KeptProperties
<1> HIDE DEF kept
<1>11. w.oldest_abs >= old
  <2>1. CASE kept = <<>>
    BY <1>1, <1>4, <1>6, <2>1
  <2>2. CASE kept # <<>>
    <3> DEFINE x == idx[1]
               y == idx[n + 1]
    <3>1. 1 \in 1 .. (L - n) /\ n + 1 \in 1 .. L /\ 1 \in 1 .. L
      <4>1. Len(kept) \in Nat \ {0}
        BY <1>10, <2>2, NoLength
      <4> QED
        BY <1>2, <1>9, <1>10, <4>1
    <3>2. kept[1] = y
      BY <1>10, <3>1
    <3>3. x \in EntryType /\ y \in EntryType
      BY <1>2, <3>1, SeqElement DEF L
    <3>4. x = y \/ x.end_abs <= y.start_abs
      <4>1. CASE n = 0
        BY <4>1
      <4>2. CASE n # 0
        BY <1>2, <1>5, <1>9, <3>1, <4>2
      <4> QED
        BY <4>1, <4>2
    <3>5. old = x.start_abs
      <4>1. idx # <<>>
        BY <1>2, <3>1, NoLength DEF L
      <4> QED
        BY <1>5, <4>1
    <3> HIDE DEF x, y
    <3>6. /\ x.start_abs \in Nat /\ x.end_abs \in Nat /\ y.start_abs \in Nat
          /\ x.start_abs <= x.end_abs
      BY <3>3, RecordAssumption, GeometryAssumption DEF EntryType, Offset
    <3>7. y.start_abs >= old
      BY <3>4, <3>5, <3>6
    <3> QED
      BY <1>4, <2>2, <3>2, <3>7
  <2> QED
    BY <2>1, <2>2
<1> QED
  BY <1>4, <1>7, <1>11 DEF w, head, old

\* A write evicts only what lies below the floor of its own end, and moves the head to
\* that end: the newest record evicted is then more than a capacity behind the head
\* (evict_before_clobber within write_record).
LEMMA WriteEvictsLate ==
    ASSUME NEW r, RingInv(r), NoneEvictedEarly(r), EvictionStops(r.index),
           NEW rec \in Record, Fits(rec)
    PROVE  NoneEvictedEarly(write_record(r, rec))
<1> DEFINE head == r.head_abs
           idx == r.index
           all == r.written
           lost == r.lost_count
           start == StartAbs(head, rec.len)
           end == start + rec.len
           floor == RetentionFloor(end)
           n == EvictCount(idx, floor)
           e == Entry(start, rec)
           w == write_record(r, rec)
<1>1. /\ head \in Nat /\ lost \in Nat /\ idx \in Seq(EntryType) /\ all \in Seq(EntryType)
      /\ lost <= Len(all) /\ idx = DropFirst(all, lost)
  BY DEF RingInv, RingType, Offset, IndexIsSuffix
<1>2. Capacity \in Nat \ {0} /\ rec.len \in Nat /\ rec.len > 0 /\ rec.len <= Capacity
  BY RecordAssumption, GeometryAssumption, SMTT(30) DEF Fits
<1>3. w.head_abs = end /\ w.lost_count = lost + n /\ w.written = Append(all, e)
  BY ZenonT(40) DEF write_record, evict_before_clobber
<1>4. lost > 0 => all[lost].start_abs + Capacity < head
  BY DEF NoneEvictedEarly
<1>0. EvictionStops(idx)
  OBVIOUS
<1> HIDE DEF head, idx, all, lost, w
<1>5. start \in Nat /\ head <= start
  BY <1>1, <1>2, StartAbsProperties, Zenon
<1>6. e \in EntryType
  BY <1>2, <1>5 DEF Entry, EntryType, Offset
<1> HIDE DEF start
<1>7. end \in Nat /\ head < end
  BY <1>1, <1>2, <1>5
<1> HIDE DEF end, e
<1>8. floor \in Nat /\ \A a \in Nat : a < floor => a + Capacity < end
  BY <1>2, <1>7 DEF RetentionFloor
<1> HIDE DEF floor
<1>9. n \in 0 .. Len(idx) /\ IsEvictCount(idx, floor, n)
  BY <1>0, <1>8 DEF EvictionStops
<1> HIDE DEF n
<1>10. Len(idx) = Len(all) - lost /\ \A i \in 1 .. Len(idx) : idx[i] = all[lost + i]
  <2>1. \A i \in (lost + 1) .. Len(all) : all[i] \in EntryType
    BY <1>1, SeqElement
  <2> QED
    BY <1>1, <2>1, SubSeqFacts DEF DropFirst
<1>11. lost + n \in 0 .. Len(all)
  BY <1>1, <1>9, <1>10
<1>12. SUFFICES ASSUME lost + n > 0
                PROVE  all[lost + n].start_abs + Capacity < end
  <2>1. lost + n > 0 => Append(all, e)[lost + n] = all[lost + n]
    BY <1>1, <1>6, <1>11, AppendFacts
  <2>2. w.lost_count > 0 => w.written[w.lost_count].start_abs + Capacity < w.head_abs
    BY <1>3, <2>1, Zenon
  <2> QED
    BY <2>2, Zenon DEF NoneEvictedEarly, w
<1>13. all[lost + n].start_abs \in Nat
  <2>1. all[lost + n] \in EntryType
    BY <1>1, <1>11, <1>12, SeqElement
  <2> QED
    BY <2>1 DEF EntryType, Offset
<1>14. CASE n = 0
  BY <1>1, <1>2, <1>4, <1>7, <1>12, <1>13, <1>14
<1>15. CASE n # 0
  <2>1. n \in 1 .. n /\ n \in 1 .. Len(idx)
    BY <1>1, <1>9, <1>15
  <2>2. all[lost + n].start_abs < floor
    BY <1>9, <1>10, <2>1 DEF IsEvictCount
  <2> QED
    BY <1>8, <1>13, <2>2
<1> QED
  BY <1>14, <1>15

-----------------------------------------------------------------------------
(* Induction over numbers.                                                  *)
LOCAL INSTANCE WellFoundedInduction

\* A non-empty set of naturals has a least element, as < is well founded on Nat.
LEMMA LeastElement ==
    ASSUME NEW T \in SUBSET Nat, T # {}
    PROVE  \E m \in T : \A y \in T : ~(y < m)
<1> DEFINE less == {p \in Nat \X Nat : p[1] < p[2]}
<1>1. IsWellFoundedOn(less, Nat)
  BY NatLessThanWellFounded DEF OpToRel
<1> HIDE DEF less
<1>2. PICK m \in T : \A y \in T : ~(<<y, m>> \in less)
  BY <1>1, WFMin, Zenon
<1> QED
  BY <1>2, Zenon DEF less

\* evict_before_clobber always stops: there is a longest prefix of the index that
\* starts below the floor, and EvictCount is the length of one.
LEMMA EvictCountExists ==
    ASSUME NEW idx \in Seq(EntryType)
    PROVE  EvictionStops(idx)
<1> SUFFICES ASSUME NEW floor \in Nat
             PROVE  /\ EvictCount(idx, floor) \in 0 .. Len(idx)
                    /\ IsEvictCount(idx, floor, EvictCount(idx, floor))
  BY DEF EvictionStops
<1> DEFINE above == {i \in 1 .. Len(idx) : idx[i].start_abs >= floor}
<1>0. Len(idx) \in Nat /\ \A i \in 1 .. Len(idx) : idx[i].start_abs \in Nat
  BY SeqElement DEF EntryType, Offset
<1> SUFFICES \E n \in 0 .. Len(idx) : IsEvictCount(idx, floor, n)
  BY DEF EvictCount
<1>1. CASE above = {}
  <2>1. \A i \in 1 .. Len(idx) : idx[i].start_abs < floor
    BY <1>0, <1>1
  <2>2. IsEvictCount(idx, floor, Len(idx))
    BY <1>0, <2>1 DEF IsEvictCount
  <2> QED
    BY <1>0, <2>2
<1>2. CASE above # {}
  <2>2. PICK m \in above : \A y \in above : ~(y < m)
    <3>1. above \in SUBSET Nat
      OBVIOUS
    <3> HIDE DEF above
    <3> QED
      BY <1>2, <3>1, LeastElement
  <2>3. m \in 1 .. Len(idx) /\ idx[m].start_abs >= floor
    OBVIOUS
  <2>4. \A i \in 1 .. (m - 1) : idx[i].start_abs < floor
    BY <1>0, <2>2, <2>3
  <2>5. IsEvictCount(idx, floor, m - 1)
    BY <1>0, <2>3, <2>4 DEF IsEvictCount
  <2> QED
    BY <1>0, <2>3, <2>5
<1> QED
  BY <1>1, <1>2

-----------------------------------------------------------------------------
(* The theorems.                                                            *)

\* The invariant holds in every reachable state of the ring.
THEOREM RingInvariant == Spec => []RingInv(ring)
<1>1. Init => RingInv(ring)
  BY NewRingInv DEF Init
<1>2. RingInv(ring) /\ [Next]_ring => RingInv(ring)'
  <2> SUFFICES ASSUME RingInv(ring), [Next]_ring PROVE RingInv(ring')
    OBVIOUS
  <2>1. CASE Write
    <3>1. PICK rec \in Record : Fits(rec) /\ ring' = write_record(ring, rec)
      BY <2>1 DEF Write
    <3>2. EvictionStops(ring.index)
      BY EvictCountExists DEF RingInv, RingType
    <3>3. RingInv(write_record(ring, rec))
      BY <3>1, <3>2, WriteKeepsRingInv
    <3> QED
      BY <3>1, <3>3
  <2>2. CASE Take
    BY <2>2, TakeKeepsRingInv DEF Take
  <2>3. CASE UNCHANGED ring
    BY <2>3
  <2> QED
    BY <2>1, <2>2, <2>3 DEF Next
<1> QED
  BY <1>1, <1>2, PTL DEF Spec

\* Type correctness of the ring (RingBuffer's fields).
THEOREM RingTypeCorrect == Spec => []TypeOK
<1>1. RingInv(ring) => TypeOK
  BY DEF RingInv, TypeOK
<1> QED
  BY <1>1, RingInvariant, PTL

\* Drop-oldest: what is retained is the newest part of what was written, lost_count is
\* the number of records before it, and none of those was dropped before a write needed
\* the cell it began in (evict_before_clobber).
THEOREM DropOldest == Spec => []RetainedExactly
<1>1. Init => NoneEvictedEarly(ring)
  BY DEF Init, NewRing, NoneEvictedEarly
<1>2. RingInv(ring) /\ NoneEvictedEarly(ring) /\ [Next]_ring => NoneEvictedEarly(ring)'
  <2> SUFFICES ASSUME RingInv(ring), NoneEvictedEarly(ring), [Next]_ring
               PROVE  NoneEvictedEarly(ring')
    BY DEF NoneEvictedEarly
  <2>0. ring \in RingType
    BY DEF RingInv
  <2>1. CASE Write
    <3>1. PICK rec \in Record : Fits(rec) /\ ring' = write_record(ring, rec)
      BY <2>1 DEF Write
    <3>2. EvictionStops(ring.index)
      BY <2>0, EvictCountExists DEF RingType
    <3>3. NoneEvictedEarly(write_record(ring, rec))
      BY <3>1, <3>2, WriteEvictsLate
    <3> QED
      BY <3>1, <3>3
  <2>2. CASE Take
    <3>1. /\ ring'.head_abs = ring.head_abs /\ ring'.lost_count = ring.lost_count
          /\ ring'.written = ring.written
      BY <2>0, <2>2 DEF Take, take_producer_loss_ranges, RingType
    <3> QED
      BY <3>1 DEF NoneEvictedEarly
  <2>3. CASE UNCHANGED ring
    BY <2>3 DEF NoneEvictedEarly
  <2> QED
    BY <2>1, <2>2, <2>3 DEF Next
<1>3. RingInv(ring) /\ NoneEvictedEarly(ring) => RetainedExactly
  BY DEF RingInv, RetainedExactly
<1> QED
  BY <1>1, <1>2, <1>3, RingInvariant, PTL DEF Spec

\* No write or wrap marker ever damages a retained record (write_record evicts
\* before it overwrites).
THEOREM RetainedUndamaged == Spec => []RetainedIntact
<1>1. RingInv(ring) => RetainedIntact
  BY DEF RingInv, RetainedIntact
<1> QED
  BY <1>1, RingInvariant, PTL

\* The window from oldest_abs to head_abs always fits the pool, which is what
\* from_captured demands of a captured image.
THEOREM WindowAlwaysCapturable == Spec => []WindowCapturable
<1>1. RingInv(ring) => WindowCapturable
  BY WindowOfRingInv DEF WindowCapturable, from_captured_accepts
<1> QED
  BY <1>1, RingInvariant, PTL

\* head_abs and oldest_abs never decrease, and oldest_abs moves only when a record
\* is appended, so a cursor that was valid once is never ahead of the ring.
THEOREM OffsetsOnlyGrow == Spec => OffsetsGrow
<1> DEFINE Grows == /\ ring'.head_abs >= ring.head_abs
                    /\ ring'.oldest_abs >= ring.oldest_abs
                    /\ ring'.oldest_abs # ring.oldest_abs => ring'.head_abs > ring.head_abs
<1>1. RingInv(ring) /\ [Next]_ring => [Grows]_ring
  <2> SUFFICES ASSUME RingInv(ring), Next PROVE Grows
    OBVIOUS
  <2>0. ring.head_abs \in Nat /\ ring.oldest_abs \in Nat /\ ring \in RingType
    BY WindowOfRingInv DEF RingInv
  <2>3. EvictionStops(ring.index)
    BY <2>0, EvictCountExists DEF RingType
  <2>1. CASE Write
    <3>1. PICK rec \in Record : Fits(rec) /\ ring' = write_record(ring, rec)
      BY <2>1 DEF Write
    <3>2. /\ write_record(ring, rec).head_abs > ring.head_abs
          /\ write_record(ring, rec).oldest_abs >= ring.oldest_abs
      BY <2>3, <3>1, WriteGrows
    <3>3. ring'.head_abs \in Nat
      BY <2>3, <3>1, WriteKeepsRingInv, WindowOfRingInv
    <3>4. ring'.head_abs > ring.head_abs /\ ring'.oldest_abs >= ring.oldest_abs
      BY <3>1, <3>2
    <3> QED
      BY <2>0, <3>3, <3>4
  <2>2. CASE Take
    <3>1. ring'.head_abs = ring.head_abs /\ ring'.oldest_abs = ring.oldest_abs
      BY <2>0, <2>2 DEF Take, take_producer_loss_ranges, RingType
    <3> QED
      BY <2>0, <3>1
  <2> QED
    BY <2>1, <2>2 DEF Next
<1> QED
  BY <1>1, RingInvariant, PTL DEF Spec, OffsetsGrow

=============================================================================
