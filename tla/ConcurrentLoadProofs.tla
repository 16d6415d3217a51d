------------------------ MODULE ConcurrentLoadProofs ------------------------
(***************************************************************************)
(* What a reader may load, and what it then knows of the log, for every     *)
(* capacity, set of record shapes and number of appends.                    *)
(***************************************************************************)
EXTENDS ConcurrentLogProofs

-----------------------------------------------------------------------------
(* Numbers and sequences.                                                   *)

\* The empty sequence adds nothing.
LEMMA ConcatNone ==
    ASSUME NEW S, NEW s \in Seq(S)
    PROVE  s \o << >> = s
  OBVIOUS

\* The larger of two numbers.
LEMMA MaxOfTwo ==
    ASSUME NEW a \in Nat, NEW b \in Nat
    PROVE  Mem!Latest({a, b}) \in Nat /\ Mem!Latest({a, b}) >= a /\ Mem!Latest({a, b}) >= b
<1>1. \E x \in {a, b} : \A y \in {a, b} : x >= y
  BY SMT
<1>2. /\ Mem!Latest({a, b}) \in {a, b}
      /\ \A y \in {a, b} : Mem!Latest({a, b}) >= y
  BY <1>1, Zenon DEF Mem!Latest
<1> QED
  BY <1>2, Zenon

-----------------------------------------------------------------------------
(* Offsets of one cell.                                                     *)

\* The messages of a cell are ordered alike by number and by offset.
LEMMA OffsetOrder ==
    ASSUME NEW W, NEW n, LogOK(W, n),
           NEW v \in 1 .. Len(W), NEW w \in 1 .. Len(W), NEW x \in Nat, NEW y \in Nat,
           Stored(W, v, x), Stored(W, w, y), CellAt(W, v, x) <= CellAt(W, w, y)
    PROVE  x <= y
<1>1. v \in Writes(W) /\ w \in Writes(W) /\ v \in Nat /\ w \in Nat
  BY LogTypes, Zenon
<1>2. /\ Prev(W, v) <= x /\ x < End(W, v) /\ CellAt(W, v, x) \in Nat
      /\ OldestAt(W, v) < CellAt(W, v, x)
      /\ \A z \in Nat : Stored(W, v, z) /\ z < x => CellAt(W, v, z) < CellAt(W, v, x)
  BY StoredRange, Zenon
<1>3. /\ Prev(W, w) <= y /\ y < End(W, w) /\ CellAt(W, w, y) \in Nat
      /\ CellAt(W, w, y) < HeadAt(W, w)
  BY StoredRange, Zenon
<1>4. /\ End(W, v) \in Nat /\ Prev(W, w) \in Nat
      /\ OldestAt(W, v) \in Nat /\ HeadAt(W, w) \in Nat
  BY LogTypes, Zenon
<1>5. CASE v = w
  BY <1>2, <1>3, <1>5
<1>6. CASE v < w
  <2>1. End(W, v) <= Prev(W, w)
    BY <1>1, <1>6, LogOrder, Zenon
  <2> QED
    BY <1>2, <1>3, <1>4, <2>1
<1>7. CASE w < v
  <2>1. HeadAt(W, w) < OldestAt(W, v)
    BY <1>1, <1>7, LogOrder, Zenon
  <2> QED
    BY <1>2, <1>3, <1>4, <2>1
<1> QED
  BY <1>5, <1>6, <1>7

\* Distinct writes store to distinct offsets.
LEMMA OffsetOwner ==
    ASSUME NEW W, NEW n, LogOK(W, n), NEW v \in 1 .. Len(W), NEW w \in 1 .. Len(W),
           NEW x \in Nat, Stored(W, v, x), Stored(W, w, x)
    PROVE  v = w
<1>1. v \in Writes(W) /\ w \in Writes(W) /\ v \in Nat /\ w \in Nat
  BY LogTypes, Zenon
<1>2. /\ Prev(W, v) <= x /\ x < End(W, v) /\ Prev(W, w) <= x /\ x < End(W, w)
  BY StoredRange, Zenon
<1>4. /\ End(W, v) \in Nat /\ Prev(W, w) \in Nat
      /\ End(W, w) \in Nat /\ Prev(W, v) \in Nat
  BY LogTypes, Zenon
<1>5. /\ v < w => End(W, v) <= Prev(W, w)
      /\ w < v => End(W, w) <= Prev(W, v)
  BY <1>1, LogOrder, Zenon
<1> QED
  BY <1>2, <1>4, <1>5

\* A write that stores to the position of an earlier offset has moved OldestAbs past
\* it (evict_before_clobber runs before the cells are clobbered).
LEMMA LaterLap ==
    ASSUME NEW W, NEW n, LogOK(W, n), NEW w \in 1 .. Len(W), NEW x \in Nat, NEW y \in Nat,
           Stored(W, w, x), Phys(x) = Phys(y), y < x
    PROVE  Oldest(W, w) > y
<1>1. x < End(W, w)
  BY StoredRange, Zenon
<1>2. x >= y + Capacity
  BY PhysDistinct, GeometryAssumption
<1>3. w \in Writes(W) /\ End(W, w) <= Oldest(W, w) + Capacity
  BY LogTypes, Zenon DEF LogOK, Writes
<1>4. End(W, w) \in Nat /\ Oldest(W, w) \in Nat
  BY LogTypes, Zenon
<1> QED
  BY <1>1, <1>2, <1>3, <1>4, GeometryAssumption

\* At a lap boundary below the head a record starts.
LEMMA BoundaryIsStart ==
    ASSUME NEW W, NEW n, LogOK(W, n), NEW h \in Writes(W), NEW a \in Nat, a < End(W, h),
           Phys(a) = 0
    PROVE  \E w \in 1 .. h : Start(W, w) = a
<1>1. PICK w \in 1 .. h : Prev(W, w) <= a /\ a < End(W, w)
  BY Zenon DEF LogOK, Covered
<1>2. w \in 1 .. Len(W)
  BY DEF Writes
<1> DEFINE start == Start(W, w)
           len == RecLen(W, w)
           prev == Prev(W, w)
<1>3. /\ start \in Nat /\ len \in Nat /\ prev \in Nat
      /\ start = StartAbs(prev, len)
      /\ Phys(start) + len <= Capacity
      /\ a < start + len
  BY <1>1, <1>2, LogTypes, LogOrder, Zenon DEF LogOK, End
<1> HIDE DEF start, len, prev
<1>4. /\ Phys(start) \in 0 .. (Capacity - 1) /\ Phys(prev) \in 0 .. (Capacity - 1)
      /\ Capacity \in Nat
  BY <1>3, PhysType, GeometryAssumption, Zenon
<1>5. ~(a > start)
  <2> SUFFICES ASSUME a > start PROVE FALSE
    BY Zenon
  <2> DEFINE k == a - start
  <2>1. k \in Nat /\ k > 0 /\ Phys(start) + k < Capacity /\ start + k = a
    BY <1>3, <1>4
  <2> HIDE DEF k
  <2>2. Phys(start + k) = Phys(start) + k
    BY <1>3, <2>1, PhysShift, Zenon
  <2> QED
    BY <1>4, <2>1, <2>2
<1>6. ~(a < start)
  <2> SUFFICES ASSUME a < start PROVE FALSE
    BY Zenon
  <2> DEFINE k == a - prev
  <2>1. prev <= a
    BY <1>1, Zenon DEF prev
  <2>2. ~(Phys(prev) = 0 \/ Phys(prev) + len <= Capacity) /\ start = prev + (Capacity - Phys(prev))
    BY <1>3, <2>1 DEF StartAbs
  <2>3. k \in Nat /\ Phys(prev) + k < Capacity /\ prev + k = a
    BY <1>3, <1>4, <2>1, <2>2
  <2> HIDE DEF k
  <2>4. Phys(prev + k) = Phys(prev) + k
    BY <1>3, <2>3, PhysShift, Zenon
  <2> QED
    BY <1>4, <2>2, <2>3, <2>4
<1> QED
  BY <1>3, <1>5, <1>6 DEF start

\* Below the head, a mark is a record start or a wrap marker.
LEMMA AtMark ==
    ASSUME NEW W, NEW n, LogOK(W, n), NEW h \in Writes(W), NEW a \in Nat, a < End(W, h),
           Mark(W, a)
    PROVE  \E w \in 1 .. h :
              /\ w \in 1 .. Len(W)
              /\ Stored(W, w, a)
              /\ \/ Start(W, w) = a
                 \/ /\ Prev(W, w) = a /\ a < Start(W, w)
                    /\ Phys(a) # 0
                    /\ Phys(a) + RecLen(W, w) > Capacity
                    /\ Start(W, w) = a + (Capacity - Phys(a))
<1>0. Len(W) \in Nat /\ h \in Nat /\ h <= Len(W) /\ End(W, h) \in Nat
  BY LogTypes DEF Writes
<1>1. PICK v \in Writes(W) : a = End(W, v) \/ (v > 0 /\ a = Start(W, v))
  BY Zenon DEF Mark
<1>2. CASE a = End(W, v)
  <2> DEFINE w == v + 1
  <2>1. v \in Nat /\ v < h
    <3>1. v \in Nat
      BY DEF Writes
    <3>2. h < v => End(W, h) < End(W, v)
      BY LogOrder, Zenon
    <3> QED
      BY <1>0, <1>2, <3>1, <3>2
  <2>2. w \in 1 .. h /\ w \in 1 .. Len(W) /\ Prev(W, w) = a
    BY <1>0, <1>2, <2>1 DEF Prev
  <2> HIDE DEF w
  <2>3. /\ Start(W, w) \in Nat /\ RecLen(W, w) \in Nat
        /\ Start(W, w) = StartAbs(a, RecLen(W, w))
        /\ a <= Start(W, w) /\ Start(W, w) < End(W, w)
    BY <2>2, LogTypes, LogOrder, Zenon DEF LogOK
  <2>4. Stored(W, w, a)
    BY <2>2, <2>3 DEF Stored
  <2>5. Phys(a) \in 0 .. (Capacity - 1) /\ Capacity \in Nat
    BY PhysType, GeometryAssumption, Zenon
  <2>6. \/ Start(W, w) = a
        \/ /\ a < Start(W, w) /\ Phys(a) # 0
           /\ Phys(a) + RecLen(W, w) > Capacity
           /\ Start(W, w) = a + (Capacity - Phys(a))
    BY <2>3, <2>5 DEF StartAbs
  <2> QED
    BY <2>2, <2>4, <2>6, Zenon
<1>3. CASE v > 0 /\ a = Start(W, v)
  <2>1. v \in 1 .. Len(W) /\ v \in Nat
    BY <1>3 DEF Writes
  <2>2. Start(W, v) \in Nat /\ Prev(W, v) \in Nat /\ End(W, v) \in Nat
    BY <2>1, LogTypes, Zenon
  <2>3. Prev(W, v) <= Start(W, v) /\ Start(W, v) < End(W, v)
    BY <2>1, LogOrder, Zenon
  <2>4. h < v => End(W, h) <= Prev(W, v)
    BY LogOrder, Zenon
  <2>5. v \in 1 .. h
    BY <1>0, <1>3, <2>1, <2>2, <2>3, <2>4
  <2>6. Stored(W, v, a)
    BY <1>3, <2>3 DEF Stored
  <2> QED
    BY <1>3, <2>1, <2>5, <2>6, Zenon
<1> QED
  BY <1>1, <1>2, <1>3, Zenon

-----------------------------------------------------------------------------
(* What a message of the log tells.                                         *)

\* A reader obliged to see the stores up to s may take message m of location l.
Fresh(M, l, m, s) ==
    /\ m \in M[l]
    /\ \A k \in M[l] : k.at > m.at => k.at > s

\* m was stored by a write that had first moved OldestAbs past the offset x.
Overtaken(W, x, m) == \E t \in 1 .. Len(W) : Oldest(W, t) > x /\ OldestAt(W, t) <= m.rel

\* What a reader that knows the head finds in a cell below it: what was stored at
\* that offset, or the mark of a later lap.
LEMMA CellRead ==
    ASSUME NEW M, NEW W, NEW n, LogOK(W, n), CellMessages(M, W),
           NEW h \in Writes(W), NEW w \in 1 .. h, NEW x \in Nat, Stored(W, w, x),
           NEW s \in Nat, HeadAt(W, h) <= s,
           NEW m, Fresh(M, ByteAt(Phys(x)), m, s)
    PROVE  m.val = CellVal(W, w, x) \/ Overtaken(W, x, m)
<1>1. /\ w \in 1 .. Len(W) /\ h \in Nat /\ w \in Nat /\ w <= h /\ w \in Writes(W)
      /\ HeadAt(W, h) \in Nat
  BY LogTypes DEF Writes
<1>2. PICK k \in M[ByteAt(Phys(x))] : From(W, k, w, x)
  BY <1>1, Zenon DEF CellMessages
<1>3. /\ CellAt(W, w, x) \in Nat /\ OldestAt(W, w) \in Nat /\ HeadAt(W, w) \in Nat
      /\ OldestAt(W, w) < CellAt(W, w, x) /\ CellAt(W, w, x) < HeadAt(W, w)
  BY <1>1, StoredRange, LogTypes, Zenon
<1>4. k.at = CellAt(W, w, x) /\ k.at <= s
  <2>1. w < h => HeadAt(W, w) < HeadAt(W, h)
    BY <1>1, LogOrder, Zenon
  <2>2. k.at = CellAt(W, w, x)
    BY <1>2, Zenon DEF From
  <2> QED
    BY <1>1, <1>3, <2>1, <2>2
<1>5. m \in M[ByteAt(Phys(x))] /\ ~(k.at > m.at)
  BY <1>2, <1>3, <1>4 DEF Fresh
<1>6. Phys(x) \in Position
  BY PhysType, Zenon DEF Position
<1>7. ~(m.at = 0)
  BY <1>3, <1>4, <1>5
<1>8. PICK v \in 1 .. Len(W), y \in Nat :
        Stored(W, v, y) /\ Phys(y) = Phys(x) /\ From(W, m, v, y)
  BY <1>5, <1>6, <1>7, Zenon DEF CellMessages
<1>9. CellAt(W, v, y) \in Nat /\ m.at = CellAt(W, v, y) /\ m.val = CellVal(W, v, y)
  BY <1>8, StoredRange, Zenon DEF From
<1>10. CellAt(W, w, x) <= CellAt(W, v, y)
  BY <1>3, <1>4, <1>5, <1>9
<1>11. x <= y
  BY <1>1, <1>8, <1>10, OffsetOrder, Zenon
<1>12. CASE x = y
  <2>1. v = w
    BY <1>1, <1>8, <1>12, OffsetOwner, Zenon
  <2> QED
    BY <1>9, <1>12, <2>1, Zenon
<1>13. CASE x < y
  <2>1. Oldest(W, v) > x
    BY <1>8, <1>13, LaterLap, Zenon
  <2>2. m.rel \in Nat /\ m.rel >= OldestAt(W, v) /\ OldestAt(W, v) \in Nat
    BY <1>8, LogTypes, Zenon DEF From
  <2> QED
    BY <2>1, <2>2, Zenon DEF Overtaken
<1> QED
  BY <1>11, <1>12, <1>13

\* Once obliged to see a write's store to OldestAbs, a reader loads no older value.
LEMMA OldestRead ==
    ASSUME NEW M, NEW W, NEW n, LogOK(W, n), OldestMessages(M, W),
           NEW t \in Writes(W), NEW s \in Nat, OldestAt(W, t) <= s,
           NEW m, Fresh(M, OldestAbs, m, s)
    PROVE  m.val \in Nat /\ Oldest(W, t) <= m.val
<1>1. PICK k \in M[OldestAbs] : k.at = OldestAt(W, t)
  BY Zenon DEF OldestMessages
<1>2. PICK w \in Writes(W) : m.at = OldestAt(W, w) /\ m.val = Oldest(W, w)
  BY Zenon DEF OldestMessages, Fresh
<1>3. /\ OldestAt(W, t) \in Nat /\ OldestAt(W, w) \in Nat
      /\ Oldest(W, t) \in Nat /\ Oldest(W, w) \in Nat /\ t \in Nat /\ w \in Nat
  BY LogTypes DEF Writes
<1>4. ~(OldestAt(W, w) < OldestAt(W, t))
  BY <1>1, <1>2, <1>3 DEF Fresh
<1>5. /\ w < t => OldestAt(W, w) < OldestAt(W, t)
      /\ t < w => Oldest(W, t) <= Oldest(W, w)
  BY LogOrder, Zenon
<1> QED
  BY <1>2, <1>3, <1>4, <1>5

\* A message of a later lap means that the offset is lapped.
LEMMA OvertakenIsLapped ==
    ASSUME NEW W, NEW n, LogOK(W, n), NEW x \in Nat, NEW m, Overtaken(W, x, m),
           NEW a \in Nat, a <= x
    PROVE  Lapped(W, a)
<1>1. PICK t \in 1 .. Len(W) : Oldest(W, t) > x
  BY Zenon DEF Overtaken
<1>2. t \in Writes(W) /\ Len(W) \in Writes(W) /\ Len(W) \in Nat /\ t \in Nat /\ t <= Len(W)
  BY DEF Writes
<1>3. Oldest(W, t) \in Nat /\ Oldest(W, Len(W)) \in Nat
  BY <1>2, LogTypes, Zenon
<1>4. t < Len(W) => Oldest(W, t) <= Oldest(W, Len(W))
  BY <1>2, LogOrder, Zenon
<1> QED
  BY <1>1, <1>2, <1>3, <1>4 DEF Lapped

-----------------------------------------------------------------------------
(* What the reader knows.                                                   *)

Accepted == [start : Nat, rec : Nat]

\* Records of the log, each named by its own start, one after the other.
InOrder(W, B) ==
    /\ B \in Seq(Accepted)
    /\ \A i \in 1 .. Len(B) : B[i].rec \in 1 .. Len(W) /\ Start(W, B[i].rec) = B[i].start
    /\ \A i, j \in 1 .. Len(B) : i < j => End(W, B[i].rec) <= B[j].start

\* h and o are the writes whose HeadAbs and OldestAbs the reader read last.
Known(W, h, o, k) ==
    /\ h \in Writes(W) /\ o \in Writes(W)
    /\ k[HeadAbs] = HeadAt(W, h) /\ k[OldestAbs] = OldestAt(W, o)

\* Between polls: the cursor c is a boundary of the log the reader has seen, and past
\* the delivered records D, unless OldestAbs is.
CursorOK(W, h, o, c, D) ==
    /\ c \in Nat /\ Mark(W, c)
    /\ c <= Oldest(W, o) \/ c <= End(W, h)
    /\ InOrder(W, D)
    /\ \A i \in 1 .. Len(D) : End(W, D[i].rec) <= c \/ End(W, D[i].rec) <= Oldest(W, o)

\* In a poll that has seen the head of write h, with its walk at a and the records B
\* accepted so far.
WalkOK(W, h, o, c, a, head, s, D, B) ==
    /\ head = End(W, h) /\ HeadAt(W, h) <= s
    /\ a \in Nat /\ c <= a /\ Oldest(W, o) <= a
    /\ a < head => Mark(W, a)
    /\ InOrder(W, B)
    /\ \A i \in 1 .. Len(B) : End(W, B[i].rec) <= a /\ End(W, B[i].rec) <= head
    /\ \A i \in 1 .. Len(D), j \in 1 .. Len(B) : End(W, D[i].rec) <= B[j].start

\* At step p of a poll: the record at a is the one written there, or is lapped.
StepOK(W, h, p, a, len, head) ==
    /\ p \in {"header", "body"} =>
        /\ a < head
        /\ Lapped(W, a) \/ \E w \in 1 .. h : Start(W, w) = a /\ (p = "body" => len = RecLen(W, w))
    /\ p = "header" => Phys(a) + HeaderLen <= Capacity
    /\ p = "body" => HeaderLen <= len /\ Phys(a) + len <= Capacity
    /\ p = "recover" => Lapped(W, a)

-----------------------------------------------------------------------------
(* What the invariant says of later knowledge and of longer logs.           *)

\* w is v or a later write.
Later(W, v, w) == v \in Writes(W) /\ w \in Writes(W) /\ v <= w

\* Neither the published head nor the published oldest ever moves back.
LEMMA LaterFacts ==
    ASSUME NEW W, NEW n, LogOK(W, n), NEW v, NEW w, Later(W, v, w)
    PROVE  /\ Oldest(W, v) \in Nat /\ Oldest(W, w) \in Nat
           /\ End(W, v) \in Nat /\ End(W, w) \in Nat
           /\ Oldest(W, v) <= Oldest(W, w) /\ End(W, v) <= End(W, w)
<1>1. /\ v \in Writes(W) /\ w \in Writes(W) /\ v \in Nat /\ w \in Nat /\ v <= w
      /\ Oldest(W, v) \in Nat /\ Oldest(W, w) \in Nat
      /\ End(W, v) \in Nat /\ End(W, w) \in Nat
  <2>1. v \in Writes(W) /\ w \in Writes(W) /\ v <= w
    BY Zenon DEF Later
  <2>2. v \in Nat /\ w \in Nat
    BY <2>1 DEF Writes
  <2> QED
    BY <2>1, <2>2, LogTypes, Zenon
<1>2. v < w => Oldest(W, v) <= Oldest(W, w) /\ End(W, v) < End(W, w)
  BY <1>1, LogOrder, Zenon
<1>3. v = w \/ v < w
  BY <1>1
<1> QED
  BY <1>1, <1>2

\* Where a write puts OldestAbs is a boundary of the log.
LEMMA OldestIsMark ==
    ASSUME NEW W, NEW n, LogOK(W, n), NEW o \in Writes(W)
    PROVE  Mark(W, Oldest(W, o)) /\ Oldest(W, o) \in Nat
<1>1. Len(W) \in Nat /\ Oldest(W, o) \in Nat
  BY LogTypes, Zenon
<1>2. CASE o = 0
  BY <1>2, Zenon DEF Oldest, End, Mark
<1>3. CASE o # 0
  <2>1. o \in 1 .. Len(W)
    BY <1>3 DEF Writes
  <2>2. PICK r \in 1 .. o : Oldest(W, o) = Start(W, r)
    BY <2>1, Zenon DEF LogOK
  <2>3. r \in Writes(W) /\ r > 0
    BY DEF Writes
  <2> QED
    BY <1>1, <2>2, <2>3, Zenon DEF Mark
<1> QED
  BY <1>2, <1>3, Zenon

\* The ends of records that are in order.
LEMMA InOrderTypes ==
    ASSUME NEW W, NEW n, LogOK(W, n), NEW B, InOrder(W, B)
    PROVE  /\ Len(B) \in Nat
           /\ \A i \in 1 .. Len(B) : End(W, B[i].rec) \in Nat /\ B[i].start \in Nat
<1>1. Len(B) \in Nat /\ \A i \in 1 .. Len(B) : B[i].rec \in 1 .. Len(W) /\ B[i] \in Accepted
  <2>1. B \in Seq(Accepted) /\ \A i \in 1 .. Len(B) : B[i].rec \in 1 .. Len(W)
    BY Zenon DEF InOrder
  <2> QED
    BY <2>1, SeqLength, Zenon
<1>2. \A i \in 1 .. Len(B) : B[i].rec \in Writes(W)
  BY <1>1, LogTypes, Zenon
<1>3. \A i \in 1 .. Len(B) : B[i].start \in Nat
  BY <1>1, Zenon DEF Accepted
<1> QED
  BY <1>1, <1>2, <1>3, LogTypes, Zenon

\* What the cursor owes to knowledge it does not lose to later knowledge.
LEMMA CursorLater ==
    ASSUME NEW W, NEW n, LogOK(W, n), NEW h, NEW h2, NEW o, NEW o2,
           Later(W, h, h2), Later(W, o, o2), NEW c, NEW D, CursorOK(W, h, o, c, D)
    PROVE  CursorOK(W, h2, o2, c, D)
<1>1. /\ c \in Nat /\ Mark(W, c)
      /\ c <= Oldest(W, o) \/ c <= End(W, h)
      /\ InOrder(W, D)
      /\ \A i \in 1 .. Len(D) : End(W, D[i].rec) <= c \/ End(W, D[i].rec) <= Oldest(W, o)
  BY Zenon DEF CursorOK
<1>2. /\ Oldest(W, o) \in Nat /\ Oldest(W, o2) \in Nat /\ Oldest(W, o) <= Oldest(W, o2)
      /\ End(W, h) \in Nat /\ End(W, h2) \in Nat /\ End(W, h) <= End(W, h2)
  BY LaterFacts, Zenon
<1>3. c <= Oldest(W, o2) \/ c <= End(W, h2)
  BY <1>1, <1>2
<1>4. ASSUME NEW i \in 1 .. Len(D)
      PROVE  End(W, D[i].rec) <= c \/ End(W, D[i].rec) <= Oldest(W, o2)
  <2>1. End(W, D[i].rec) \in Nat
    BY <1>1, InOrderTypes, Zenon
  <2>2. End(W, D[i].rec) <= c \/ End(W, D[i].rec) <= Oldest(W, o)
    BY <1>1, Zenon
  <2> QED
    BY <1>1, <1>2, <2>1
<1> QED
  BY <1>1, <1>3, <1>4, Zenon DEF CursorOK

\* A walk starts at the cursor, or at OldestAbs if the cursor has fallen behind it.
LEMMA StartOK ==
    ASSUME NEW W, NEW n, LogOK(W, n), NEW h \in Writes(W), NEW o \in Writes(W),
           NEW c, NEW D, CursorOK(W, h, o, c, D), NEW s, HeadAt(W, h) <= s,
           NEW a, a = IF c < Oldest(W, o) THEN Oldest(W, o) ELSE c
    PROVE  WalkOK(W, h, o, c, a, End(W, h), s, D, <<>>)
<1>1. c \in Nat /\ Mark(W, c)
  BY Zenon DEF CursorOK
<1>2. Oldest(W, o) \in Nat /\ Mark(W, Oldest(W, o))
  BY OldestIsMark, Zenon
<1>3. a \in Nat /\ c <= a /\ Oldest(W, o) <= a
  BY <1>1, <1>2
<1>4. Mark(W, a)
  BY <1>1, <1>2, Zenon
<1>5. /\ <<>> \in Seq(Accepted) /\ 1 .. Len(<<>>) = {}
  OBVIOUS
<1>6. InOrder(W, <<>>)
  BY <1>5, Zenon DEF InOrder
<1> QED
  BY <1>3, <1>4, <1>5, <1>6, Zenon DEF WalkOK

\* Overwritten: the cursor moves to what the reader knows of OldestAbs.
LEMMA LapOK ==
    ASSUME NEW W, NEW n, LogOK(W, n), NEW h, NEW o, h \in Writes(W), o \in Writes(W),
           NEW c, NEW D, CursorOK(W, h, o, c, D), Oldest(W, o) > c
    PROVE  CursorOK(W, h, o, Oldest(W, o), D)
<1>1. /\ c \in Nat /\ InOrder(W, D)
      /\ \A i \in 1 .. Len(D) : End(W, D[i].rec) <= c \/ End(W, D[i].rec) <= Oldest(W, o)
  BY Zenon DEF CursorOK
<1>2. Oldest(W, o) \in Nat /\ Mark(W, Oldest(W, o))
  BY OldestIsMark, Zenon
<1>3. ASSUME NEW i \in 1 .. Len(D) PROVE End(W, D[i].rec) <= Oldest(W, o)
  <2>1. End(W, D[i].rec) \in Nat
    BY <1>1, InOrderTypes, Zenon
  <2>2. End(W, D[i].rec) <= c \/ End(W, D[i].rec) <= Oldest(W, o)
    BY <1>1, Zenon
  <2> QED
    BY <1>1, <1>2, <2>1
<1>4. Oldest(W, o) <= Oldest(W, o)
  BY <1>2
<1> QED
  BY <1>1, <1>2, <1>3, <1>4, Zenon DEF CursorOK

\* The records handed over before, and those of this poll.
LEMMA InOrderConcat ==
    ASSUME NEW W, NEW n, LogOK(W, n), NEW D, NEW B, InOrder(W, D), InOrder(W, B),
           \A i \in 1 .. Len(D), j \in 1 .. Len(B) : End(W, D[i].rec) <= B[j].start
    PROVE  /\ InOrder(W, D \o B)
           /\ \A i \in 1 .. Len(D \o B) :
                \/ \E j \in 1 .. Len(D) : (D \o B)[i] = D[j]
                \/ \E j \in 1 .. Len(B) : (D \o B)[i] = B[j]
<1> DEFINE all == D \o B
<1>1. D \in Seq(Accepted) /\ B \in Seq(Accepted) /\ Len(D) \in Nat /\ Len(B) \in Nat
  BY InOrderTypes, Zenon DEF InOrder
<1>2. /\ all \in Seq(Accepted) /\ Len(all) = Len(D) + Len(B)
      /\ \A i \in 1 .. Len(all) : all[i] = IF i <= Len(D) THEN D[i] ELSE B[i - Len(D)]
  BY <1>1
<1> HIDE DEF all
<1>3. ASSUME NEW i \in 1 .. Len(all)
      PROVE  \/ i \in 1 .. Len(D) /\ all[i] = D[i]
             \/ ~(i \in 1 .. Len(D)) /\ i - Len(D) \in 1 .. Len(B) /\ all[i] = B[i - Len(D)]
  BY <1>2
<1>4. ASSUME NEW i \in 1 .. Len(all)
      PROVE  all[i].rec \in 1 .. Len(W) /\ Start(W, all[i].rec) = all[i].start
  BY <1>3, Zenon DEF InOrder
<1>5. ASSUME NEW i \in 1 .. Len(all), NEW j \in 1 .. Len(all), i < j
      PROVE  End(W, all[i].rec) <= all[j].start
  <2>1. CASE i \in 1 .. Len(D) /\ j \in 1 .. Len(D)
    BY <1>3, <1>5, <2>1, Zenon DEF InOrder
  <2>2. CASE i \in 1 .. Len(D) /\ ~(j \in 1 .. Len(D))
    BY <1>3, <2>2, Zenon
  <2>3. CASE ~(i \in 1 .. Len(D)) /\ ~(j \in 1 .. Len(D))
    <3>1. i - Len(D) < j - Len(D)
      BY <1>1, <1>5
    <3> QED
      BY <1>3, <2>3, <3>1, Zenon DEF InOrder
  <2>4. j \in 1 .. Len(D) => i \in 1 .. Len(D)
    BY <1>1, <1>5
  <2> QED
    BY <2>1, <2>2, <2>3, <2>4, Zenon
<1>6. InOrder(W, all)
  BY <1>2, <1>4, <1>5, Zenon DEF InOrder
<1>7. \A i \in 1 .. Len(all) : \/ \E j \in 1 .. Len(D) : all[i] = D[j]
                               \/ \E j \in 1 .. Len(B) : all[i] = B[j]
  BY <1>3, Zenon
<1> QED
  BY <1>6, <1>7, Zenon DEF all

\* The walk has reached the head: the cursor moves there and the batch is handed over.
LEMMA FinishOK ==
    ASSUME NEW W, NEW n, LogOK(W, n), NEW h, NEW o, NEW o2, h \in Writes(W), Later(W, o, o2),
           NEW c, NEW D, CursorOK(W, h, o, c, D),
           NEW a, NEW head, NEW s, NEW B, WalkOK(W, h, o, c, a, head, s, D, B)
    PROVE  CursorOK(W, h, o2, head, D \o B)
<1>1. /\ c \in Nat /\ InOrder(W, D)
      /\ c <= Oldest(W, o) \/ c <= End(W, h)
      /\ \A i \in 1 .. Len(D) : End(W, D[i].rec) <= c \/ End(W, D[i].rec) <= Oldest(W, o)
  BY Zenon DEF CursorOK
<1>2. /\ head = End(W, h) /\ InOrder(W, B)
      /\ \A i \in 1 .. Len(B) : End(W, B[i].rec) <= head
      /\ \A i \in 1 .. Len(D), j \in 1 .. Len(B) : End(W, D[i].rec) <= B[j].start
  BY Zenon DEF WalkOK
<1>3. head \in Nat /\ Oldest(W, o) \in Nat /\ Oldest(W, o2) \in Nat
      /\ Oldest(W, o) <= Oldest(W, o2)
  <2>1. End(W, h) \in Nat
    BY LogTypes, Zenon
  <2> QED
    BY <1>2, <2>1, LaterFacts, Zenon
<1> DEFINE all == D \o B
<1>4. /\ InOrder(W, all)
      /\ \A i \in 1 .. Len(all) : \/ \E j \in 1 .. Len(D) : all[i] = D[j]
                                  \/ \E j \in 1 .. Len(B) : all[i] = B[j]
  BY <1>1, <1>2, InOrderConcat
<1> HIDE DEF all
<1>5. ASSUME NEW i \in 1 .. Len(all)
      PROVE  End(W, all[i].rec) <= head \/ End(W, all[i].rec) <= Oldest(W, o2)
  <2>1. CASE \E j \in 1 .. Len(B) : all[i] = B[j]
    BY <1>2, <2>1, Zenon
  <2>2. CASE \E j \in 1 .. Len(D) : all[i] = D[j]
    <3>1. PICK j \in 1 .. Len(D) : all[i] = D[j]
      BY <2>2, Zenon
    <3>2. End(W, D[j].rec) \in Nat
      BY <1>1, InOrderTypes, Zenon
    <3>3. End(W, D[j].rec) <= c \/ End(W, D[j].rec) <= Oldest(W, o)
      BY <1>1, Zenon
    <3>4. End(W, D[j].rec) <= head \/ End(W, D[j].rec) <= Oldest(W, o2)
      BY <1>1, <1>2, <1>3, <3>2
    <3> QED
      BY <3>1, <3>4, Zenon
  <2> QED
    BY <1>4, <2>1, <2>2, Zenon
<1>6. Mark(W, head) /\ head <= End(W, h)
  <2>1. Mark(W, head)
    BY <1>2, Zenon DEF Mark
  <2> QED
    BY <1>2, <1>3, <2>1
<1> QED
  BY <1>3, <1>4, <1>5, <1>6, Zenon DEF CursorOK, all

\* A wrap marker: the walk goes on at the start of the next lap.
LEMMA NextLapOK ==
    ASSUME NEW W, NEW n, LogOK(W, n), NEW h, NEW o, h \in Writes(W), o \in Writes(W),
           NEW c, NEW D, CursorOK(W, h, o, c, D),
           NEW a, NEW head, NEW s, NEW B, WalkOK(W, h, o, c, a, head, s, D, B), Phys(a) # 0
    PROVE  WalkOK(W, h, o, c, a + (Capacity - Phys(a)), head, s, D, B)
<1> DEFINE b == a + (Capacity - Phys(a))
<1>1. /\ head = End(W, h) /\ HeadAt(W, h) <= s
      /\ a \in Nat /\ c <= a /\ Oldest(W, o) <= a
      /\ InOrder(W, B)
      /\ \A i \in 1 .. Len(B) : End(W, B[i].rec) <= a /\ End(W, B[i].rec) <= head
      /\ \A i \in 1 .. Len(D), j \in 1 .. Len(B) : End(W, D[i].rec) <= B[j].start
  BY Zenon DEF WalkOK
<1>2. c \in Nat /\ Oldest(W, o) \in Nat
  BY OldestIsMark, Zenon DEF CursorOK
<1>3. b \in Nat /\ a <= b /\ Phys(b) = 0
  <2>1. Phys(a) \in 0 .. (Capacity - 1) /\ Capacity \in Nat \ {0}
    BY <1>1, PhysType, GeometryAssumption
  <2>2. Phys(b) = 0
    BY <1>1, <2>1, ModNext, Zenon DEF Phys
  <2> QED
    BY <1>1, <2>1, <2>2
<1> HIDE DEF b
<1>4. c <= b /\ Oldest(W, o) <= b
  BY <1>1, <1>2, <1>3
<1>5. ASSUME NEW i \in 1 .. Len(B) PROVE End(W, B[i].rec) <= b
  <2>1. End(W, B[i].rec) \in Nat /\ End(W, B[i].rec) <= a
    BY <1>1, InOrderTypes, Zenon
  <2> QED
    BY <1>1, <1>3, <2>1
<1>6. ASSUME b < head PROVE Mark(W, b)
  <2>1. \E w \in 1 .. h : Start(W, w) = b
    BY <1>1, <1>3, <1>6, BoundaryIsStart, Zenon
  <2>2. PICK w \in 1 .. h : Start(W, w) = b
    BY <2>1, Zenon
  <2>3. w \in Writes(W) /\ w > 0
    BY DEF Writes
  <2> QED
    BY <2>2, <2>3, Zenon DEF Mark
<1>7. WalkOK(W, h, o, c, b, head, s, D, B)
  BY <1>1, <1>3, <1>4, <1>5, <1>6, Zenon DEF WalkOK
<1> QED
  BY <1>7, Zenon DEF b

\* The record at a is accepted, and the walk goes on behind it.
LEMMA AcceptOK ==
    ASSUME NEW W, NEW n, LogOK(W, n), NEW h, NEW o, h \in Writes(W), o \in Writes(W),
           NEW c, NEW D, CursorOK(W, h, o, c, D),
           NEW a, NEW head, NEW s, NEW B, WalkOK(W, h, o, c, a, head, s, D, B),
           NEW w \in 1 .. h, Start(W, w) = a
    PROVE  WalkOK(W, h, o, c, a + RecLen(W, w), head, s, D, Append(B, [start |-> a, rec |-> w]))
<1>1. /\ head = End(W, h) /\ HeadAt(W, h) <= s
      /\ a \in Nat /\ c <= a /\ Oldest(W, o) <= a
      /\ InOrder(W, B)
      /\ \A i \in 1 .. Len(B) : End(W, B[i].rec) <= a /\ End(W, B[i].rec) <= head
      /\ \A i \in 1 .. Len(D), j \in 1 .. Len(B) : End(W, D[i].rec) <= B[j].start
  BY Zenon DEF WalkOK
<1>2. /\ c \in Nat /\ Oldest(W, o) \in Nat /\ InOrder(W, D)
      /\ \A i \in 1 .. Len(D) : End(W, D[i].rec) <= c \/ End(W, D[i].rec) <= Oldest(W, o)
  BY OldestIsMark, Zenon DEF CursorOK
<1>3. /\ w \in 1 .. Len(W) /\ w \in Writes(W) /\ w > 0 /\ w <= h /\ Later(W, w, h)
      /\ w \in Nat
  BY DEF Writes, Later
<1>4. End(W, w) = a + RecLen(W, w) /\ End(W, w) \in Nat /\ RecLen(W, w) \in Nat
      /\ End(W, w) <= head /\ head \in Nat
  <2>1. RecLen(W, w) \in Nat /\ End(W, w) \in Nat /\ End(W, h) \in Nat /\ End(W, w) <= End(W, h)
    BY <1>3, LogTypes, LaterFacts, Zenon
  <2> QED
    BY <1>1, <2>1 DEF End
<1> DEFINE b == a + RecLen(W, w)
           x == [start |-> a, rec |-> w]
           X == Append(B, x)
<1>5. b \in Nat /\ c <= b /\ Oldest(W, o) <= b /\ a <= b
  BY <1>1, <1>2, <1>4
<1>6. x \in Accepted /\ x.start = a /\ x.rec = w
  BY <1>1, <1>3, Zenon DEF Accepted
<1> HIDE DEF x
<1>7. /\ X \in Seq(Accepted) /\ Len(X) = Len(B) + 1 /\ Len(B) \in Nat
      /\ \A i \in 1 .. Len(B) : X[i] = B[i]
      /\ X[Len(B) + 1] = x
  <2>1. B \in Seq(Accepted) /\ Len(B) \in Nat
    BY <1>1, InOrderTypes, Zenon DEF InOrder
  <2> QED
    BY <1>6, <2>1
<1> HIDE DEF X, b
<1>8. \A i \in 1 .. Len(X) : \/ i \in 1 .. Len(B) /\ X[i] = B[i]
                             \/ i = Len(B) + 1 /\ X[i] = x
  BY <1>7
<1>9. ASSUME NEW i \in 1 .. Len(X)
      PROVE  /\ X[i].rec \in 1 .. Len(W) /\ Start(W, X[i].rec) = X[i].start
             /\ End(W, X[i].rec) <= b /\ End(W, X[i].rec) <= head
  <2>1. CASE i \in 1 .. Len(B) /\ X[i] = B[i]
    <3>1. End(W, B[i].rec) \in Nat /\ End(W, B[i].rec) <= a /\ End(W, B[i].rec) <= head
      BY <1>1, <2>1, InOrderTypes, Zenon
    <3>2. End(W, B[i].rec) <= b
      BY <1>1, <1>5, <3>1
    <3> QED
      BY <1>1, <2>1, <3>2, Zenon DEF InOrder
  <2>2. CASE i = Len(B) + 1 /\ X[i] = x
    <3>1. End(W, w) <= b
      BY <1>4 DEF b
    <3> QED
      BY <1>3, <1>4, <1>6, <2>2, <3>1, Zenon
  <2> QED
    BY <1>8, <2>1, <2>2, Zenon
<1>10. ASSUME NEW i \in 1 .. Len(X), NEW j \in 1 .. Len(X), i < j
       PROVE  End(W, X[i].rec) <= X[j].start
  <2>1. i \in 1 .. Len(B) /\ X[i] = B[i]
    BY <1>7, <1>10
  <2>2. CASE j \in 1 .. Len(B) /\ X[j] = B[j]
    BY <1>1, <1>10, <2>1, <2>2, Zenon DEF InOrder
  <2>3. CASE j = Len(B) + 1 /\ X[j] = x
    BY <1>1, <1>6, <2>1, <2>3, Zenon
  <2> QED
    BY <1>8, <2>2, <2>3, Zenon
<1>11. ASSUME NEW i \in 1 .. Len(D), NEW j \in 1 .. Len(X)
       PROVE  End(W, D[i].rec) <= X[j].start
  <2>1. CASE j \in 1 .. Len(B) /\ X[j] = B[j]
    BY <1>1, <2>1, Zenon
  <2>2. CASE j = Len(B) + 1 /\ X[j] = x
    <3>1. End(W, D[i].rec) \in Nat
      BY <1>2, InOrderTypes, Zenon
    <3>2. End(W, D[i].rec) <= c \/ End(W, D[i].rec) <= Oldest(W, o)
      BY <1>2, Zenon
    <3>3. End(W, D[i].rec) <= a
      BY <1>1, <1>2, <3>1
    <3> QED
      BY <1>6, <2>2, <3>3, Zenon
  <2> QED
    BY <1>8, <2>1, <2>2, Zenon
<1>12. InOrder(W, X)
  BY <1>7, <1>9, <1>10, Zenon DEF InOrder
<1>13. Mark(W, b)
  BY <1>3, <1>4, Zenon DEF Mark, b
<1>14. WalkOK(W, h, o, c, b, head, s, D, X)
  BY <1>1, <1>5, <1>9, <1>11, <1>12, <1>13, Zenon DEF WalkOK
<1> QED
  BY <1>14, Zenon DEF b, x, X

\* A walk is not disturbed by what the reader learns, as long as OldestAbs has not
\* passed it.
LEMMA WalkLater ==
    ASSUME NEW W, NEW n, LogOK(W, n), NEW h, NEW o, NEW o2, h \in Writes(W),
           NEW a, Oldest(W, o2) <= a, NEW c, NEW D, NEW head, NEW s, NEW B, WalkOK(W, h, o, c, a, head, s, D, B),
           s \in Nat, NEW s2, s2 \in Nat, s <= s2
    PROVE  WalkOK(W, h, o2, c, a, head, s2, D, B)
<1>1. HeadAt(W, h) \in Nat /\ HeadAt(W, h) <= s
  BY LogTypes, Zenon DEF WalkOK
<1>2. HeadAt(W, h) <= s2
  BY <1>1
<1> QED
  BY <1>2, Zenon DEF WalkOK

-----------------------------------------------------------------------------
(* Loads.                                                                   *)

ViewType == [seen : Nat, acquired : Nat, last_read : [Location -> Nat]]

\* What a load does to the reader's view: it never forgets, it remembers what it read,
\* and it is bound by the message if it acquires (on x86 every load does).
LEMMA LoadView ==
    ASSUME NEW view \in ViewType, NEW l \in Location,
           NEW m, m.at \in Nat, m.rel \in Nat
    PROVE  /\ Mem!AfterRelaxedLoad(view, l, m) \in ViewType
           /\ Mem!AfterRelaxedLoad(view, l, m).seen >= view.seen
           /\ Mem!AfterRelaxedLoad(view, l, m).acquired >= view.acquired
           /\ Mem!AfterRelaxedLoad(view, l, m).acquired >= m.rel
           /\ Ordering = "x86" => Mem!AfterRelaxedLoad(view, l, m).seen >= m.rel
           /\ Mem!AfterRelaxedLoad(view, l, m).last_read
                = [view.last_read EXCEPT ![l] = m.at]
           /\ Mem!AfterAcquireLoad(view, l, m) \in ViewType
           /\ Mem!AfterAcquireLoad(view, l, m).seen >= view.seen
           /\ Mem!AfterAcquireLoad(view, l, m).seen >= m.rel
           /\ Mem!AfterAcquireLoad(view, l, m).last_read
                = [view.last_read EXCEPT ![l] = m.at]
<1> DEFINE relaxed == Mem!AfterRelaxedLoad(view, l, m)
           acquire == Mem!AfterAcquireLoad(view, l, m)
<1>1. view.seen \in Nat /\ view.acquired \in Nat /\ view.last_read \in [Location -> Nat]
  BY Zenon DEF ViewType
<1>2. /\ Mem!Latest({view.seen, m.rel}) \in Nat /\ Mem!Latest({view.seen, m.rel}) >= view.seen
      /\ Mem!Latest({view.seen, m.rel}) >= m.rel
      /\ Mem!Latest({view.acquired, m.rel}) \in Nat
      /\ Mem!Latest({view.acquired, m.rel}) >= view.acquired
      /\ Mem!Latest({view.acquired, m.rel}) >= m.rel
  BY <1>1, MaxOfTwo, Zenon
<1>3. [view.last_read EXCEPT ![l] = m.at] \in [Location -> Nat]
  BY <1>1, Zenon
<1>4. relaxed = [seen |-> IF Ordering = "x86" THEN Mem!Latest({view.seen, m.rel}) ELSE view.seen,
                 acquired |-> Mem!Latest({view.acquired, m.rel}),
                 last_read |-> [view.last_read EXCEPT ![l] = m.at]]
  BY Zenon DEF Mem!AfterRelaxedLoad
<1>5. /\ relaxed \in ViewType
      /\ relaxed.seen >= view.seen
      /\ relaxed.acquired >= view.acquired
      /\ relaxed.acquired >= m.rel
      /\ Ordering = "x86" => relaxed.seen >= m.rel
      /\ relaxed.last_read = [view.last_read EXCEPT ![l] = m.at]
  BY <1>1, <1>2, <1>4 DEF ViewType
<1> HIDE DEF relaxed
<1>6. acquire = [relaxed EXCEPT !.seen = Mem!Latest({relaxed.seen, m.rel})]
  BY Zenon DEF relaxed, Mem!AfterAcquireLoad
<1>7. relaxed.seen \in Nat
  BY <1>5, Zenon DEF ViewType
<1>8. /\ Mem!Latest({relaxed.seen, m.rel}) \in Nat
      /\ Mem!Latest({relaxed.seen, m.rel}) >= relaxed.seen
      /\ Mem!Latest({relaxed.seen, m.rel}) >= m.rel
  BY <1>7, MaxOfTwo, Zenon
<1>9. /\ acquire \in ViewType
      /\ acquire.seen >= view.seen
      /\ acquire.seen >= m.rel
      /\ acquire.last_read = [view.last_read EXCEPT ![l] = m.at]
  <2>1. acquire \in ViewType /\ acquire.seen = Mem!Latest({relaxed.seen, m.rel})
        /\ acquire.last_read = relaxed.last_read
    BY <1>5, <1>6, <1>8, Zenon DEF ViewType
  <2> HIDE DEF acquire
  <2> QED
    BY <1>1, <1>5, <1>7, <1>8, <2>1
<1> QED
  BY <1>5, <1>9, Zenon DEF relaxed

\* acquire_before_recheck: with the fence, or on x86, the reader is bound by all it has
\* acquired.
LEMMA RecheckView ==
    ASSUME NEW view \in ViewType
    PROVE  /\ acquire_before_recheck(view) \in ViewType
           /\ acquire_before_recheck(view).seen >= view.seen
           /\ Fenced => acquire_before_recheck(view).seen >= view.acquired
           /\ acquire_before_recheck(view).last_read = view.last_read
<1>1. view.seen \in Nat /\ view.acquired \in Nat /\ view.last_read \in [Location -> Nat]
  BY Zenon DEF ViewType
<1>2. CASE Fenced
  <2>1. acquire_before_recheck(view) = [view EXCEPT !.seen = Mem!Latest({view.seen, view.acquired})]
    BY <1>2, Zenon DEF acquire_before_recheck, Mem!AfterAcquireFence
  <2>2. /\ Mem!Latest({view.seen, view.acquired}) \in Nat
        /\ Mem!Latest({view.seen, view.acquired}) >= view.seen
        /\ Mem!Latest({view.seen, view.acquired}) >= view.acquired
    BY <1>1, MaxOfTwo, Zenon
  <2> QED
    BY <1>1, <2>1, <2>2, Zenon DEF ViewType
<1>3. CASE ~Fenced
  BY <1>1, <1>3 DEF acquire_before_recheck
<1> QED
  BY <1>2, <1>3, Zenon

\* The numbers of a cell's messages.
LEMMA CellTypes ==
    ASSUME NEW M, NEW W, NEW n, LogOK(W, n), CellMessages(M, W),
           NEW p \in Position, NEW m \in M[ByteAt(p)]
    PROVE  m.at \in Nat /\ m.rel \in Nat
<1>1. CASE m.at = 0 /\ m.val = ZeroCell /\ m.rel = 0
  BY <1>1
<1>2. CASE \E w \in 1 .. Len(W) : \E x \in Nat :
              Stored(W, w, x) /\ Phys(x) = p /\ From(W, m, w, x)
  BY <1>2, StoredRange DEF From
<1> QED
  BY <1>1, <1>2, Zenon DEF CellMessages

\* The reader's memory of HeadAbs or OldestAbs after a load of it, or of another cell.
LEMMA KnownLoad ==
    ASSUME NEW W, NEW h, NEW o, NEW k, k \in [Location -> Nat], Known(W, h, o, k)
    PROVE  /\ \A h2 \in Writes(W) : Known(W, h2, o, [k EXCEPT ![HeadAbs] = HeadAt(W, h2)])
           /\ \A o2 \in Writes(W) : Known(W, h, o2, [k EXCEPT ![OldestAbs] = OldestAt(W, o2)])
           /\ \A l \in Location : \A x : l # HeadAbs /\ l # OldestAbs
                => Known(W, h, o, [k EXCEPT ![l] = x])
<1>1. /\ h \in Writes(W) /\ o \in Writes(W)
      /\ k[HeadAbs] = HeadAt(W, h) /\ k[OldestAbs] = OldestAt(W, o)
  BY Zenon DEF Known
<1>2. HeadAbs \in Location /\ OldestAbs \in Location /\ HeadAbs # OldestAbs
  BY Locations, Zenon
<1>3. ASSUME NEW h2 \in Writes(W)
      PROVE  Known(W, h2, o, [k EXCEPT ![HeadAbs] = HeadAt(W, h2)])
  <2> DEFINE g == [k EXCEPT ![HeadAbs] = HeadAt(W, h2)]
  <2>1. g[HeadAbs] = HeadAt(W, h2) /\ g[OldestAbs] = OldestAt(W, o)
    BY <1>1, <1>2, Zenon
  <2> QED
    BY <2>1, Zenon DEF Known
<1>4. ASSUME NEW o2 \in Writes(W)
      PROVE  Known(W, h, o2, [k EXCEPT ![OldestAbs] = OldestAt(W, o2)])
  <2> DEFINE g == [k EXCEPT ![OldestAbs] = OldestAt(W, o2)]
  <2>1. g[HeadAbs] = HeadAt(W, h) /\ g[OldestAbs] = OldestAt(W, o2)
    BY <1>1, <1>2, Zenon
  <2> QED
    BY <2>1, Zenon DEF Known
<1>5. ASSUME NEW l \in Location, NEW x, l # HeadAbs /\ l # OldestAbs
      PROVE  Known(W, h, o, [k EXCEPT ![l] = x])
  <2> DEFINE g == [k EXCEPT ![l] = x]
  <2>1. g[HeadAbs] = HeadAt(W, h) /\ g[OldestAbs] = OldestAt(W, o)
    BY <1>1, <1>2, <1>5, Zenon
  <2> QED
    BY <2>1, Zenon DEF Known
<1> QED
  BY <1>3, <1>4, <1>5, Zenon

\* m is the HeadAbs, or the OldestAbs, of write w.
IsHead(W, m, w) == m.at = HeadAt(W, w) /\ m.val = End(W, w) /\ m.rel = HeadAt(W, w)

IsOldest(W, m, w) == m.at = OldestAt(W, w) /\ m.val = Oldest(W, w) /\ m.rel \in Nat

\* The reader never goes back to an older head.
LEMMA HeadVisible ==
    ASSUME WriterOK(written), NEW view, NEW h, NEW o, Known(written, h, o, view.last_read),
           NEW m \in Mem!Visible(view, HeadAbs)
    PROVE  \E w : Later(written, h, w) /\ IsHead(written, m, w)
<1>1. LogOK(written, stores) /\ HeadMessages(messages, written)
  BY Zenon DEF WriterOK
<1>2. m \in messages[HeadAbs] /\ m.at >= view.last_read[HeadAbs]
  BY Zenon DEF Mem!Visible
<1>3. PICK w \in Writes(written) : IsHead(written, m, w)
  BY <1>1, <1>2, Zenon DEF HeadMessages, IsHead
<1>4. h \in Writes(written) /\ HeadAt(written, w) >= HeadAt(written, h)
  BY <1>2, <1>3, Zenon DEF Known, IsHead
<1>5. /\ HeadAt(written, w) \in Nat /\ HeadAt(written, h) \in Nat
      /\ w < h => HeadAt(written, w) < HeadAt(written, h)
  BY <1>1, <1>4, LogTypes, LogOrder, Zenon
<1>6. w \in Nat /\ h \in Nat
  BY <1>1, <1>4 DEF Writes
<1>7. h <= w
  BY <1>4, <1>5, <1>6
<1> QED
  BY <1>3, <1>4, <1>7, Zenon DEF Later

\* Nor to an older OldestAbs; and if it is obliged to see that of write t, it finds one
\* that is not behind it.
LEMMA OldestVisible ==
    ASSUME WriterOK(written), NEW view, view \in ViewType, NEW h, NEW o,
           Known(written, h, o, view.last_read),
           NEW m \in Mem!Visible(view, OldestAbs)
    PROVE  /\ \E w : Later(written, o, w) /\ IsOldest(written, m, w)
           /\ \A t \in Writes(written) :
                OldestAt(written, t) <= view.seen => Oldest(written, t) <= m.val
<1>1. LogOK(written, stores) /\ OldestMessages(messages, written)
  BY Zenon DEF WriterOK
<1>2. m \in messages[OldestAbs] /\ m.at >= view.last_read[OldestAbs]
      /\ Fresh(messages, OldestAbs, m, view.seen)
  BY Zenon DEF Mem!Visible, Fresh
<1>3. PICK w \in Writes(written) : IsOldest(written, m, w)
  BY <1>1, <1>2, Zenon DEF OldestMessages, IsOldest
<1>4. o \in Writes(written) /\ OldestAt(written, w) >= OldestAt(written, o)
  BY <1>2, <1>3, Zenon DEF Known, IsOldest
<1>5. /\ OldestAt(written, w) \in Nat /\ OldestAt(written, o) \in Nat
      /\ w < o => OldestAt(written, w) < OldestAt(written, o)
  BY <1>1, <1>4, LogTypes, LogOrder, Zenon
<1>6. w \in Nat /\ o \in Nat
  BY <1>1, <1>4 DEF Writes
<1>7. o <= w
  BY <1>4, <1>5, <1>6
<1>8. view.seen \in Nat
  BY Zenon DEF ViewType
<1>9. \A t \in Writes(written) :
            OldestAt(written, t) <= view.seen => Oldest(written, t) <= m.val
  BY <1>1, <1>2, <1>8, OldestRead, Zenon
<1> QED
  BY <1>3, <1>4, <1>7, <1>9, Zenon DEF Later

\* A cell's message may be taken by a reader of that view.
LEMMA CellVisible ==
    ASSUME WriterOK(written), NEW view, NEW p, p \in Position,
           NEW m \in Mem!Visible(view, ByteAt(p))
    PROVE  m.at \in Nat /\ m.rel \in Nat /\ Fresh(messages, ByteAt(p), m, view.seen)
<1>1. LogOK(written, stores) /\ CellMessages(messages, written)
  BY Zenon DEF WriterOK
<1>2. m \in messages[ByteAt(p)] /\ Fresh(messages, ByteAt(p), m, view.seen)
  BY Zenon DEF Mem!Visible, Fresh
<1> QED
  BY <1>1, <1>2, CellTypes, Zenon

\* Adopting a view.
LEMMA AdoptView ==
    ASSUME NEW view, view \in ViewType, Mem!Adopt(view)
    PROVE  Mem!View' \in ViewType /\ seen' = view.seen /\ last_read' = view.last_read
<1>1. seen' = view.seen /\ acquired' = view.acquired /\ last_read' = view.last_read
  BY Zenon DEF Mem!Adopt
<1>2. Mem!View' = [seen |-> seen', acquired |-> acquired', last_read |-> last_read']
  BY Zenon DEF Mem!View
<1> QED
  BY <1>1, <1>2, Zenon DEF ViewType

\* v is what a reader of that view may hold next: it forgets nothing, and has read the
\* head of write h and the oldest of write o.
Learned(view, v, h, o) ==
    v \in ViewType /\ v.seen >= view.seen /\ Known(written, h, o, v.last_read)

\* A load of HeadAbs returns the head some write published, not before the last one read.
LEMMA HeadLoad ==
    ASSUME WriterOK(written), NEW view, view \in ViewType, NEW h, NEW o,
           Known(written, h, o, view.last_read), NEW m \in Mem!Visible(view, HeadAbs)
    PROVE  \E w : /\ Later(written, h, w) /\ m.val = End(written, w)
                  /\ Learned(view, Mem!AfterRelaxedLoad(view, HeadAbs, m), w, o)
                  /\ Learned(view, Mem!AfterAcquireLoad(view, HeadAbs, m), w, o)
                  /\ HeadAt(written, w) <= Mem!AfterAcquireLoad(view, HeadAbs, m).seen
                  /\ Ordering = "x86" =>
                        HeadAt(written, w) <= Mem!AfterRelaxedLoad(view, HeadAbs, m).seen
<1>1. PICK w : Later(written, h, w) /\ IsHead(written, m, w)
  <2>1. \E w : Later(written, h, w) /\ IsHead(written, m, w)
    BY HeadVisible, Zenon
  <2> QED
    BY <2>1, Zenon
<1>2. w \in Writes(written) /\ HeadAt(written, w) \in Nat
  BY <1>1, LogTypes, Zenon DEF Later, WriterOK
<1>3. m.at \in Nat /\ m.rel \in Nat /\ m.at = HeadAt(written, w) /\ m.rel = HeadAt(written, w)
      /\ m.val = End(written, w)
  BY <1>1, <1>2, Zenon DEF IsHead
<1> DEFINE relaxed == Mem!AfterRelaxedLoad(view, HeadAbs, m)
           acquire == Mem!AfterAcquireLoad(view, HeadAbs, m)
<1>4. /\ relaxed \in ViewType /\ relaxed.seen >= view.seen
      /\ Ordering = "x86" => relaxed.seen >= m.rel
      /\ relaxed.last_read = [view.last_read EXCEPT ![HeadAbs] = m.at]
      /\ acquire \in ViewType /\ acquire.seen >= view.seen /\ acquire.seen >= m.rel
      /\ acquire.last_read = [view.last_read EXCEPT ![HeadAbs] = m.at]
  <2>1. HeadAbs \in Location
    BY Locations, Zenon
  <2> QED
    BY <1>3, <2>1, LoadView
<1> HIDE DEF relaxed, acquire
<1>5. Known(written, w, o, [view.last_read EXCEPT ![HeadAbs] = m.at])
  <2>1. view.last_read \in [Location -> Nat]
    BY Zenon DEF ViewType
  <2> QED
    BY <1>2, <1>3, <2>1, KnownLoad, Zenon
<1>6. /\ HeadAt(written, w) <= acquire.seen
      /\ Ordering = "x86" => HeadAt(written, w) <= relaxed.seen
  <2>1. acquire.seen \in Nat /\ relaxed.seen \in Nat
    BY <1>4, Zenon DEF ViewType
  <2> QED
    BY <1>2, <1>3, <1>4, Zenon
<1> QED
  BY <1>1, <1>3, <1>4, <1>5 DEF relaxed, acquire, Learned

\* A load of OldestAbs returns the oldest some write published, likewise.
LEMMA OldestLoad ==
    ASSUME WriterOK(written), NEW view, view \in ViewType, NEW h, NEW o,
           Known(written, h, o, view.last_read), NEW m \in Mem!Visible(view, OldestAbs)
    PROVE  \E w : /\ Later(written, o, w) /\ m.val = Oldest(written, w)
                  /\ Learned(view, Mem!AfterRelaxedLoad(view, OldestAbs, m), h, w)
                  /\ Learned(view, Mem!AfterAcquireLoad(view, OldestAbs, m), h, w)
<1>1. PICK w : Later(written, o, w) /\ IsOldest(written, m, w)
  <2>1. \E w : Later(written, o, w) /\ IsOldest(written, m, w)
    BY OldestVisible, Zenon
  <2> QED
    BY <2>1, Zenon
<1>2. w \in Writes(written) /\ OldestAt(written, w) \in Nat
  BY <1>1, LogTypes, Zenon DEF Later, WriterOK
<1>3. m.at \in Nat /\ m.rel \in Nat /\ m.at = OldestAt(written, w)
      /\ m.val = Oldest(written, w)
  BY <1>1, <1>2, Zenon DEF IsOldest
<1> DEFINE relaxed == Mem!AfterRelaxedLoad(view, OldestAbs, m)
           acquire == Mem!AfterAcquireLoad(view, OldestAbs, m)
<1>4. /\ relaxed \in ViewType /\ relaxed.seen >= view.seen
      /\ relaxed.last_read = [view.last_read EXCEPT ![OldestAbs] = m.at]
      /\ acquire \in ViewType /\ acquire.seen >= view.seen
      /\ acquire.last_read = [view.last_read EXCEPT ![OldestAbs] = m.at]
  <2>1. OldestAbs \in Location
    BY Locations, Zenon
  <2> QED
    BY <1>3, <2>1, LoadView
<1> HIDE DEF relaxed, acquire
<1>5. Known(written, h, w, [view.last_read EXCEPT ![OldestAbs] = m.at])
  <2>1. view.last_read \in [Location -> Nat]
    BY Zenon DEF ViewType
  <2> QED
    BY <1>2, <1>3, <2>1, KnownLoad, Zenon
<1> QED
  BY <1>1, <1>3, <1>4, <1>5, Zenon DEF relaxed, acquire, Learned

\* A load of a cell or of the lock says nothing new about the head and the oldest.
LEMMA OtherLoad ==
    ASSUME WriterOK(written), NEW view, view \in ViewType, NEW h, NEW o,
           Known(written, h, o, view.last_read),
           NEW l, l \in Location, l # HeadAbs, l # OldestAbs,
           NEW m, m.at \in Nat, m.rel \in Nat
    PROVE  /\ Learned(view, Mem!AfterRelaxedLoad(view, l, m), h, o)
           /\ Learned(view, Mem!AfterAcquireLoad(view, l, m), h, o)
<1> DEFINE relaxed == Mem!AfterRelaxedLoad(view, l, m)
           acquire == Mem!AfterAcquireLoad(view, l, m)
<1>1. /\ relaxed \in ViewType /\ relaxed.seen >= view.seen
      /\ relaxed.last_read = [view.last_read EXCEPT ![l] = m.at]
      /\ acquire \in ViewType /\ acquire.seen >= view.seen
      /\ acquire.last_read = [view.last_read EXCEPT ![l] = m.at]
  BY LoadView
<1> HIDE DEF relaxed, acquire
<1>2. Known(written, h, o, [view.last_read EXCEPT ![l] = m.at])
  <2>1. view.last_read \in [Location -> Nat]
    BY Zenon DEF ViewType
  <2> QED
    BY <2>1, KnownLoad, Zenon
<1> QED
  BY <1>1, <1>2, Zenon DEF relaxed, acquire, Learned

\* What the reader has learned, it keeps.
LEMMA AdoptLearned ==
    ASSUME NEW view, NEW v, NEW h, NEW o, Learned(view, v, h, o), Mem!Adopt(v)
    PROVE  /\ Mem!View' \in ViewType /\ seen' = v.seen /\ seen' \in Nat /\ seen' >= view.seen
           /\ Known(written, h, o, last_read')
<1>1. v \in ViewType /\ v.seen >= view.seen /\ Known(written, h, o, v.last_read)
  BY Zenon DEF Learned
<1>2. v.seen \in Nat
  BY <1>1, Zenon DEF ViewType
<1> QED
  BY <1>1, <1>2, AdoptView, Zenon

\* A load of the cell at position p.
LEMMA CellLoad ==
    ASSUME WriterOK(written), NEW view, view \in ViewType, NEW h, NEW o,
           Known(written, h, o, view.last_read), NEW p, p \in Position,
           NEW m \in Mem!Visible(view, ByteAt(p))
    PROVE  /\ Fresh(messages, ByteAt(p), m, view.seen) /\ m \in messages[ByteAt(p)]
           /\ Learned(view, Mem!AfterRelaxedLoad(view, ByteAt(p), m), h, o)
<1>1. m.at \in Nat /\ m.rel \in Nat /\ Fresh(messages, ByteAt(p), m, view.seen)
  BY CellVisible
<1>2. ByteAt(p) \in Location /\ ByteAt(p) # HeadAbs /\ ByteAt(p) # OldestAbs
  BY Locations, Zenon
<1>3. Learned(view, Mem!AfterRelaxedLoad(view, ByteAt(p), m), h, o)
  BY <1>1, <1>2, OtherLoad, Zenon
<1> QED
  BY <1>1, <1>3, Zenon DEF Fresh

-----------------------------------------------------------------------------
(* Cells.                                                                   *)

\* An offset past the cursor is lapped only if the cursor is.
LEMMA LappedCursor ==
    ASSUME NEW W, NEW n, LogOK(W, n), NEW c, NEW a, c \in Nat, a \in Nat, c <= a, Lapped(W, a)
    PROVE  Lapped(W, c)
<1>1. Len(W) \in Nat
  BY LogTypes, Zenon
<1>2. Len(W) \in Writes(W)
  BY DEF Writes
<1>3. Oldest(W, Len(W)) \in Nat
  BY <1>2, LogTypes, Zenon
<1> QED
  BY <1>3 DEF Lapped

\* The cells of a record tell its start, its length and, at the end, the record itself.
LEMMA RecordCellValues ==
    ASSUME NEW rec, NEW shape \in Shape
    PROVE  /\ CellOf(rec, shape, 0) = SyncCell
           /\ CellOf(rec, shape, 1) = LenCell(shape.len)
           /\ CellOf(rec, shape, shape.len - 1) = <<"rec", <<rec, shape.len - 1>>>>
           /\ SyncCell # ZeroCell
           /\ \A m, n : LenCell(m) = LenCell(n) => m = n
           /\ \A q, r, m, n : <<"rec", <<q, m>>>> = <<"rec", <<r, n>>>> => q = r
<1>1. shape.len \in Nat /\ shape.len > 2
  BY ConcurrentAssumption, GeometryAssumption
<1>2. ~(1 = 0) /\ ~(1 > 1) /\ ~(0 > 1)
  OBVIOUS
<1>3. ~(shape.len - 1 = 0) /\ ~(shape.len - 1 = 1) /\ ~(shape.len - 1 < shape.len - 1)
  BY <1>1
<1>4. CellOf(rec, shape, 0) = SyncCell
  BY DEF CellOf
<1>5. CellOf(rec, shape, 1) = LenCell(shape.len)
  BY DEF CellOf
<1>6. CellOf(rec, shape, shape.len - 1) = <<"rec", <<rec, shape.len - 1>>>>
  BY <1>3 DEF CellOf
<1>7. SyncCell # ZeroCell /\ \A m, n : LenCell(m) = LenCell(n) => m = n
  BY Zenon DEF SyncCell, ZeroCell, LenCell
<1>8. \A q, r, m, n : <<"rec", <<q, m>>>> = <<"rec", <<r, n>>>> => q = r
  BY Zenon
<1> QED
  BY <1>4, <1>5, <1>6, <1>7, Zenon

\* The cells of the record at a, by their place in it.
LEMMA CellOfRecord ==
    ASSUME NEW W, NEW n, LogOK(W, n), NEW h \in Writes(W), NEW w, w \in 1 .. h
    PROVE  /\ w \in 1 .. Len(W) /\ W[w].shape \in Shape /\ Start(W, w) \in Nat
           /\ RecLen(W, w) \in Nat /\ RecLen(W, w) > HeaderLen /\ RecLen(W, w) >= 3
           /\ Phys(Start(W, w)) + RecLen(W, w) <= Capacity
           /\ \A k \in 0 .. RecLen(W, w) - 1 :
                /\ Start(W, w) + k \in Nat
                /\ Stored(W, w, Start(W, w) + k)
                /\ CellVal(W, w, Start(W, w) + k) = CellOf(w, W[w].shape, k)
                /\ Phys(Start(W, w) + k) = Phys(Start(W, w)) + k
<1>1. w \in 1 .. Len(W)
  BY DEF Writes
<1>2. /\ W[w].shape \in Shape /\ Start(W, w) \in Nat /\ RecLen(W, w) \in Nat
      /\ RecLen(W, w) > HeaderLen /\ RecLen(W, w) >= 3 /\ w # 0
  BY <1>1, LogTypes, Zenon
<1>3. Phys(Start(W, w)) + RecLen(W, w) <= Capacity
  BY <1>1, LogOrder, Zenon
<1>4. End(W, w) = Start(W, w) + RecLen(W, w)
  BY <1>2, Zenon DEF End
<1>5. Phys(Start(W, w)) \in 0 .. (Capacity - 1) /\ Capacity \in Nat
  BY <1>2, PhysType, GeometryAssumption, Zenon
<1>6. ASSUME NEW k \in 0 .. RecLen(W, w) - 1
      PROVE  /\ Start(W, w) + k \in Nat
             /\ Stored(W, w, Start(W, w) + k)
             /\ CellVal(W, w, Start(W, w) + k) = CellOf(w, W[w].shape, k)
             /\ Phys(Start(W, w) + k) = Phys(Start(W, w)) + k
  <2>1. /\ k \in Nat /\ Start(W, w) + k \in Nat /\ Start(W, w) <= Start(W, w) + k
        /\ Start(W, w) + k < End(W, w) /\ Start(W, w) + k - Start(W, w) = k
        /\ Phys(Start(W, w)) + k < Capacity
    BY <1>2, <1>3, <1>4, <1>5
  <2>2. Stored(W, w, Start(W, w) + k)
    BY <2>1, Zenon DEF Stored
  <2>3. Start(W, w) + k >= Start(W, w)
    BY <1>2
  <2>4. CellVal(W, w, Start(W, w) + k) = CellOf(w, W[w].shape, k)
    <3> DEFINE x == Start(W, w) + k
    <3>1. x >= Start(W, w) /\ x - Start(W, w) = k
      BY <1>2
    <3> HIDE DEF x
    <3>2. CellVal(W, w, x) = CellOf(w, W[w].shape, x - Start(W, w))
      BY <3>1, Zenon DEF CellVal
    <3>3. CellVal(W, w, x) = CellOf(w, W[w].shape, k)
      BY <3>1, <3>2, Zenon
    <3> QED
      BY <3>3 DEF x
  <2>5. Phys(Start(W, w) + k) = Phys(Start(W, w)) + k
    BY <1>2, <2>1, PhysShift, Zenon
  <2> QED
    BY <2>1, <2>2, <2>4, <2>5, Zenon
<1> QED
  BY <1>1, <1>2, <1>3, <1>6, Zenon

\* A cell of the walk's view that has been overtaken has been lapped.
LEMMA WalkCell ==
    ASSUME WriterOK(written), NEW h, h \in Writes(written), NEW w, w \in 1 .. h,
           NEW s, s \in Nat, HeadAt(written, h) <= s, NEW a, a \in Nat,
           NEW x, x \in Nat, a <= x, Stored(written, w, x),
           NEW m, Fresh(messages, ByteAt(Phys(x)), m, s)
    PROVE  m.val = CellVal(written, w, x) \/ Lapped(written, a)
<1>1. LogOK(written, stores) /\ CellMessages(messages, written)
  BY Zenon DEF WriterOK
<1>2. m.val = CellVal(written, w, x) \/ Overtaken(written, x, m)
  BY <1>1, CellRead, Zenon
<1> QED
  BY <1>1, <1>2, OvertakenIsLapped, Zenon

\* What the first cell of the walk shows: a record, a wrap marker, or a lap.
LEMMA FirstCell ==
    ASSUME WriterOK(written), NEW h, h \in Writes(written), NEW a, a \in Nat,
           a < End(written, h), Mark(written, a),
           NEW s, s \in Nat, HeadAt(written, h) <= s,
           NEW m, Fresh(messages, ByteAt(Phys(a)), m, s)
    PROVE  \/ Lapped(written, a)
           \/ /\ \E w \in 1 .. h : Start(written, w) = a
              /\ m.val = SyncCell /\ Phys(a) + HeaderLen <= Capacity
           \/ Phys(a) # 0 /\ m.val = ZeroCell
<1>1. LogOK(written, stores)
  BY Zenon DEF WriterOK
<1>2. PICK w \in 1 .. h :
              /\ Stored(written, w, a)
              /\ \/ Start(written, w) = a
                 \/ a < Start(written, w) /\ Phys(a) # 0
  BY <1>1, AtMark, Zenon
<1>3. a <= a
  OBVIOUS
<1>4. m.val = CellVal(written, w, a) \/ Lapped(written, a)
  BY <1>2, <1>3, WalkCell, Zenon
<1>5. /\ written[w].shape \in Shape /\ Start(written, w) \in Nat
      /\ RecLen(written, w) \in Nat /\ RecLen(written, w) > HeaderLen
      /\ Phys(Start(written, w)) + RecLen(written, w) <= Capacity
  BY <1>1, CellOfRecord, Zenon
<1>6. CASE Start(written, w) = a
  <2>1. CellVal(written, w, a) = CellOf(w, written[w].shape, 0)
    <3>1. a >= Start(written, w) /\ a - Start(written, w) = 0
      BY <1>6
    <3> QED
      BY <3>1, Zenon DEF CellVal
  <2>2. CellVal(written, w, a) = SyncCell
    BY <1>5, <2>1, RecordCellValues, Zenon
  <2>3. Phys(a) + HeaderLen <= Capacity
    <3>1. Phys(a) \in 0 .. (Capacity - 1) /\ Capacity \in Nat /\ HeaderLen \in Nat
      BY PhysType, GeometryAssumption, Zenon
    <3>2. Phys(a) + RecLen(written, w) <= Capacity
      BY <1>5, <1>6, Zenon
    <3> QED
      BY <1>5, <3>1, <3>2
  <2> QED
    BY <1>2, <1>4, <1>6, <2>2, <2>3, Zenon
<1>7. CASE a < Start(written, w) /\ Phys(a) # 0
  <2>1. ~(a >= Start(written, w))
    BY <1>5, <1>7
  <2>2. CellVal(written, w, a) = ZeroCell
    BY <2>1, Zenon DEF CellVal
  <2> QED
    BY <1>4, <1>7, <2>2, Zenon
<1> QED
  BY <1>2, <1>6, <1>7, Zenon

\* A length field is a number, whatever cell it is taken from.
LEMMA LengthType ==
    ASSUME WriterOK(written), NEW p, p \in Position, NEW m \in messages[ByteAt(p)],
           NEW len \in LengthsIn(m.val)
    PROVE  len \in Nat
<1>1. \/ m.val = ZeroCell
      \/ m.val = SyncCell
      \/ \E n \in Nat : m.val = LenCell(n)
      \/ \E x : m.val = <<"rec", x>>
  <2>1. LogOK(written, stores) /\ CellMessages(messages, written)
    BY Zenon DEF WriterOK
  <2>2. \/ m.val = ZeroCell
        \/ \E w \in 1 .. Len(written) : \E x \in Nat : m.val = CellVal(written, w, x)
    BY <2>1, Zenon DEF CellMessages, From
  <2>3. ASSUME NEW w \in 1 .. Len(written), NEW k
        PROVE  \/ CellOf(w, written[w].shape, k) = ZeroCell
               \/ CellOf(w, written[w].shape, k) = SyncCell
               \/ \E n \in Nat : CellOf(w, written[w].shape, k) = LenCell(n)
               \/ \E x : CellOf(w, written[w].shape, k) = <<"rec", x>>
    <3>1. written[w].shape.len \in Nat
      BY <2>1, LogTypes DEF RecLen
    <3> QED
      BY <3>1 DEF CellOf
  <2> QED
    BY <2>2, <2>3 DEF CellVal
<1>2. CASE m.val = ZeroCell
  BY <1>2 DEF LengthsIn, ZeroCell
<1>3. CASE m.val = SyncCell
  BY <1>3 DEF LengthsIn, SyncCell
<1>4. CASE \E n \in Nat : m.val = LenCell(n)
  BY <1>4 DEF LengthsIn, LenCell
<1>5. CASE \E x : m.val = <<"rec", x>>
  BY <1>5 DEF LengthsIn
<1> QED
  BY <1>1, <1>2, <1>3, <1>4, <1>5, Zenon

StoredValues == UNION {{m.val : m \in messages[l]} : l \in Location}

\* What the reader holds after k cells from position p: each is a message it was free
\* to take, and its view has acquired all of them.
CopiedCells(r, p, k) ==
    /\ r.view \in ViewType
    /\ r.view.seen >= seen
    /\ r.view.last_read[HeadAbs] = last_read[HeadAbs]
    /\ r.view.last_read[OldestAbs] = last_read[OldestAbs]
    /\ r.cells \in Seq(StoredValues) /\ Len(r.cells) = k
    /\ \A j \in 1 .. k : \E m :
        /\ Fresh(messages, ByteAt(p + j - 1), m, seen)
        /\ r.cells[j] = m.val
        /\ m.rel \in Nat
        /\ m.rel <= r.view.acquired
        /\ Ordering = "x86" => m.rel <= r.view.seen

\* The reader has copied len cells from offset a on, and then found OldestAbs at k, which
\* has not passed a.
Rechecked(r, a, len, h, o, view, k) ==
    /\ a \in Nat /\ len \in Nat /\ Phys(a) + len <= Capacity
    /\ CopiedCells(r, Phys(a), len)
    /\ h \in Writes(written) /\ seen \in Nat /\ HeadAt(written, h) <= seen
    /\ view = acquire_before_recheck(r.view)
    /\ view \in ViewType /\ Known(written, h, o, view.last_read)
    /\ k \in Mem!Visible(view, OldestAbs) /\ k.val <= a

\* Then no copied cell was overtaken: each is what the log has there.
LEMMA CopiedCell ==
    ASSUME WriterOK(written), Ordered, NEW r, NEW a, NEW len, NEW h, NEW o, NEW view, NEW k,
           Rechecked(r, a, len, h, o, view, k)
    PROVE  \A w \in 1 .. h : \A i \in 0 .. len - 1 :
              Stored(written, w, a + i) => r.cells[i + 1] = CellVal(written, w, a + i)
<1> SUFFICES ASSUME NEW w \in 1 .. h, NEW i \in 0 .. len - 1, Stored(written, w, a + i)
             PROVE  r.cells[i + 1] = CellVal(written, w, a + i)
  BY Zenon
<1>1. /\ a \in Nat /\ len \in Nat /\ Phys(a) + len <= Capacity
      /\ CopiedCells(r, Phys(a), len)
      /\ h \in Writes(written) /\ seen \in Nat /\ HeadAt(written, h) <= seen
      /\ view = acquire_before_recheck(r.view)
      /\ view \in ViewType /\ Known(written, h, o, view.last_read)
      /\ k \in Mem!Visible(view, OldestAbs) /\ k.val <= a
  BY Zenon DEF Rechecked
<1>2. LogOK(written, stores) /\ CellMessages(messages, written)
  BY Zenon DEF WriterOK
<1>3. Phys(a) \in 0 .. (Capacity - 1) /\ Capacity \in Nat
  BY <1>1, PhysType, GeometryAssumption, Zenon
<1>4. /\ i \in Nat /\ i + 1 \in 1 .. len /\ a + i \in Nat /\ a <= a + i
      /\ Phys(a) + i < Capacity /\ Phys(a) + (i + 1) - 1 = Phys(a) + i
  BY <1>1, <1>3
<1>5. Phys(a + i) = Phys(a) + i
  BY <1>1, <1>4, PhysShift, Zenon
<1>6. PICK m : /\ Fresh(messages, ByteAt(Phys(a) + (i + 1) - 1), m, seen)
               /\ r.cells[i + 1] = m.val
               /\ m.rel \in Nat
               /\ m.rel <= r.view.acquired
               /\ Ordering = "x86" => m.rel <= r.view.seen
  BY <1>1, <1>4, Zenon DEF CopiedCells
<1>7. Fresh(messages, ByteAt(Phys(a + i)), m, seen)
  BY <1>4, <1>5, <1>6, Zenon
<1>8. m.val = CellVal(written, w, a + i) \/ Overtaken(written, a + i, m)
  BY <1>1, <1>2, <1>4, <1>7, CellRead, Zenon
<1>9. ASSUME Overtaken(written, a + i, m) PROVE FALSE
  <2>1. PICK t \in 1 .. Len(written) :
            Oldest(written, t) > a + i /\ OldestAt(written, t) <= m.rel
    BY <1>9, Zenon DEF Overtaken
  <2>2. t \in Writes(written) /\ Oldest(written, t) \in Nat /\ OldestAt(written, t) \in Nat
    <3>1. t \in Writes(written)
      BY <1>2, LogTypes, ZenonT(40)
    <3> QED
      BY <1>2, LogTypes, Zenon
  <2>3. r.view \in ViewType /\ r.view.seen \in Nat /\ r.view.acquired \in Nat
    BY <1>1, Zenon DEF CopiedCells, ViewType
  <2>4. /\ view.seen >= r.view.seen
        /\ Fenced => view.seen >= r.view.acquired
    BY <1>1, <2>3, RecheckView
  <2>5. view.seen \in Nat
    BY <1>1 DEF ViewType
  <2>6. CASE Fenced
    <3>1. m.rel \in Nat /\ m.rel <= r.view.acquired
      BY <1>6, Zenon
    <3>2. OldestAt(written, t) <= view.seen
      BY <2>1, <2>2, <2>3, <2>4, <2>5, <2>6, <3>1
    <3>3. Oldest(written, t) <= k.val
      BY <1>1, <2>2, <3>2, OldestVisible, ZenonT(40)
    <3>4. k.val \in Nat
      BY <1>1, <1>2, <2>2, <2>5, <3>2, OldestRead, SMTT(30) DEF Mem!Visible, Fresh,
         WriterOK
    <3> QED
      BY <1>1, <1>4, <2>1, <2>2, <3>3, <3>4
  <2>7. CASE Ordering = "x86"
    <3>1. m.rel \in Nat /\ m.rel <= r.view.seen
      BY <1>6, <2>7, Zenon
    <3>2. OldestAt(written, t) <= view.seen
      BY <2>1, <2>2, <2>3, <2>4, <2>5, <3>1, SMTT(30)
    <3>3. Oldest(written, t) <= k.val
      BY <1>1, <2>2, <3>2, OldestVisible, Zenon
    <3>4. k.val \in Nat
      BY <1>1, <1>2, <2>2, <2>5, <3>2, OldestRead DEF Mem!Visible, Fresh, WriterOK
    <3> QED
      BY <1>1, <1>4, <2>1, <2>2, <3>3, <3>4
  <2> QED
    BY <2>6, <2>7 DEF Ordered
<1> QED
  BY <1>6, <1>8, <1>9, Zenon

\* So what decode accepts is the record that was written there.
LEMMA DecodedIsCurrent ==
    ASSUME WriterOK(written), Ordered, NEW r, NEW a, NEW len, NEW h, NEW o, NEW view, NEW k,
           Rechecked(r, a, len, h, o, view, k), len >= HeaderLen,
           a < End(written, h), Mark(written, a), NEW rec \in Decoded(r.cells)
    PROVE  rec \in 1 .. h /\ Start(written, rec) = a /\ RecLen(written, rec) = len
<1>0. \A v \in 1 .. h : \A i \in 0 .. len - 1 :
            Stored(written, v, a + i) => r.cells[i + 1] = CellVal(written, v, a + i)
  BY CopiedCell
<1>1. /\ a \in Nat /\ len \in Nat /\ h \in Writes(written) /\ CopiedCells(r, Phys(a), len)
      /\ LogOK(written, stores)
  BY Zenon DEF Rechecked, WriterOK
<1>2. PICK w \in 1 .. h :
              /\ w \in 1 .. Len(written)
              /\ Stored(written, w, a)
              /\ \/ Start(written, w) = a
                 \/ a < Start(written, w)
  BY <1>1, AtMark, Zenon
<1>3. /\ 0 \in 0 .. len - 1 /\ 1 \in 0 .. len - 1 /\ a + 0 = a /\ len - 1 \in 0 .. len - 1
      /\ 0 + 1 = 1 /\ 1 + 1 = 2 /\ (len - 1) + 1 = len
  BY <1>1, GeometryAssumption
<1>4. r.cells[1] = CellVal(written, w, a)
  <2>1. r.cells[0 + 1] = CellVal(written, w, a + 0)
    BY <1>0, <1>2, <1>3, Zenon
  <2> QED
    BY <1>3, <2>1, Zenon
<1>5. /\ rec \in 1 .. Len(written) /\ written[rec].shape \in Shape
      /\ RecLen(written, rec) = len
      /\ \A j \in 1 .. len : r.cells[j] = CellOf(rec, written[rec].shape, j - 1)
  <2>1. r.cells \in Seq(StoredValues) /\ Len(r.cells) = len
    BY <1>1, Zenon DEF CopiedCells
  <2>2. DOMAIN r.cells = 1 .. len
    BY <2>1
  <2>3. /\ rec \in DOMAIN written /\ written[rec].shape.len = Len(r.cells)
        /\ \A j \in DOMAIN r.cells : r.cells[j] = CellOf(rec, written[rec].shape, j - 1)
    BY DEF Decoded
  <2>4. written \in Seq(LogEntry)
    BY <1>1, Zenon DEF LogOK
  <2>5. DOMAIN written = 1 .. Len(written)
    OBVIOUS
  <2>6. rec \in 1 .. Len(written)
    BY <2>3, <2>5, Zenon
  <2>7. written[rec].shape \in Shape
    BY <1>1, <2>6, LogTypes, Zenon
  <2> QED
    BY <2>1, <2>2, <2>3, <2>6, <2>7, Zenon DEF RecLen
<1>6. /\ 1 \in 1 .. len /\ 2 \in 1 .. len /\ len \in 1 .. len /\ 1 - 1 = 0 /\ 2 - 1 = 1
  BY <1>3
<1>7. /\ r.cells[1] = SyncCell
      /\ r.cells[2] = LenCell(len)
      /\ r.cells[len] = <<"rec", <<rec, len - 1>>>>
  <2>1. /\ r.cells[1] = CellOf(rec, written[rec].shape, 0)
        /\ r.cells[2] = CellOf(rec, written[rec].shape, 1)
        /\ r.cells[len] = CellOf(rec, written[rec].shape, len - 1)
    BY <1>5, <1>6, Zenon
  <2>2. written[rec].shape.len = len
    BY <1>5, Zenon DEF RecLen
  <2> DEFINE shape == written[rec].shape
  <2>3. /\ CellOf(rec, shape, 0) = SyncCell
        /\ CellOf(rec, shape, 1) = LenCell(shape.len)
        /\ CellOf(rec, shape, shape.len - 1) = <<"rec", <<rec, shape.len - 1>>>>
    BY <1>5, RecordCellValues, Zenon
  <2> QED
    BY <2>1, <2>2, <2>3, Zenon
<1>8. Start(written, w) = a
  <2>1. ASSUME a < Start(written, w) PROVE FALSE
    <3>1. Start(written, w) \in Nat
      BY <1>1, <1>2, LogTypes, Zenon
    <3>2. ~(a >= Start(written, w))
      BY <1>1, <2>1, <3>1
    <3>3. r.cells[1] = ZeroCell
      BY <1>4, <3>2, Zenon DEF CellVal
    <3> QED
      BY <1>5, <1>7, <3>3, RecordCellValues, Zenon
  <2> QED
    BY <1>2, <2>1, Zenon
<1>9. /\ written[w].shape \in Shape
      /\ RecLen(written, w) \in Nat /\ RecLen(written, w) >= 3
      /\ \A i \in 0 .. RecLen(written, w) - 1 :
                /\ a + i \in Nat
                /\ Stored(written, w, a + i)
                /\ CellVal(written, w, a + i) = CellOf(w, written[w].shape, i)
  BY <1>1, <1>2, <1>8, CellOfRecord, Zenon
<1>10. RecLen(written, w) = len
  <2>1. 1 \in 0 .. RecLen(written, w) - 1
    BY <1>9
  <2>2. r.cells[1 + 1] = CellVal(written, w, a + 1)
    BY <1>0, <1>2, <1>3, <1>9, <2>1, Zenon
  <2>3. r.cells[2] = CellOf(w, written[w].shape, 1)
    <3>1. 1 + 1 = 2
      OBVIOUS
    <3> QED
      BY <1>9, <2>1, <2>2, <3>1, Zenon
  <2>4. LenCell(RecLen(written, w)) = LenCell(len)
    BY <1>7, <1>9, <2>3, RecordCellValues, Zenon DEF RecLen
  <2> QED
    BY <1>5, <2>4, RecordCellValues, Zenon
<1>11. rec = w
  <2>1. len - 1 \in 0 .. RecLen(written, w) - 1
    BY <1>3, <1>10, Zenon
  <2>2. r.cells[(len - 1) + 1] = CellVal(written, w, a + (len - 1))
    BY <1>0, <1>2, <1>3, <1>9, <2>1, Zenon
  <2>3. r.cells[len] = CellOf(w, written[w].shape, len - 1)
    BY <1>3, <1>9, <2>1, <2>2, Zenon
  <2>4. r.cells[len] = <<"rec", <<w, len - 1>>>>
    BY <1>9, <1>10, <2>3, RecordCellValues, Zenon DEF RecLen
  <2> QED
    BY <1>5, <1>7, <2>4
<1> QED
  BY <1>2, <1>8, <1>10, <1>11, Zenon

\* And a record that is still there is decoded.
LEMMA CurrentIsDecoded ==
    ASSUME WriterOK(written), Ordered, NEW r, NEW a, NEW len, NEW h, NEW o, NEW view, NEW k,
           Rechecked(r, a, len, h, o, view, k),
           NEW w \in 1 .. h, Start(written, w) = a, RecLen(written, w) = len
    PROVE  w \in Decoded(r.cells)
<1>0. \A v \in 1 .. h : \A i \in 0 .. len - 1 :
            Stored(written, v, a + i) => r.cells[i + 1] = CellVal(written, v, a + i)
  BY CopiedCell
<1>1. /\ a \in Nat /\ len \in Nat /\ h \in Writes(written) /\ CopiedCells(r, Phys(a), len)
      /\ LogOK(written, stores)
  BY Zenon DEF Rechecked, WriterOK
<1>2. /\ w \in 1 .. Len(written)
      /\ \A i \in 0 .. len - 1 :
                /\ Stored(written, w, a + i)
                /\ CellVal(written, w, a + i) = CellOf(w, written[w].shape, i)
  BY <1>1, CellOfRecord, Zenon
<1>3. r.cells \in Seq(StoredValues) /\ Len(r.cells) = len
  BY <1>1, Zenon DEF CopiedCells
<1>4. DOMAIN r.cells = 1 .. len
  BY <1>3
<1>5. ASSUME NEW j \in 1 .. len PROVE r.cells[j] = CellOf(w, written[w].shape, j - 1)
  <2>1. j - 1 \in 0 .. len - 1 /\ (j - 1) + 1 = j
    BY <1>1
  <2>2. r.cells[(j - 1) + 1] = CellVal(written, w, a + (j - 1))
    BY <1>0, <1>2, <2>1, Zenon
  <2> QED
    BY <1>2, <2>1, <2>2, Zenon
<1>6. written \in Seq(LogEntry)
  BY <1>1, Zenon DEF LogOK
<1>7. w \in DOMAIN written
  BY <1>2
<1> QED
  BY <1>3, <1>4, <1>5, <1>7, Zenon DEF Decoded, RecLen

-----------------------------------------------------------------------------
(* The copy of a record's cells.                                            *)

\* Copying one more cell.
LEMMA CopyStep ==
    ASSUME LogOK(written, stores), CellMessages(messages, written),
           seen \in Nat,
           NEW p \in Nat, NEW k \in Nat, p + k < Capacity,
           NEW r, CopiedCells(r, p, k),
           NEW m \in Mem!Visible(r.view, ByteAt(p + k))
    PROVE  CopiedCells([view |-> Mem!AfterRelaxedLoad(r.view, ByteAt(p + k), m),
                        cells |-> Append(r.cells, m.val)], p, k + 1)
<1> DEFINE l == ByteAt(p + k)
           view == Mem!AfterRelaxedLoad(r.view, l, m)
           cells == Append(r.cells, m.val)
           q == [view |-> view, cells |-> cells]
<1>1. p + k \in Position /\ l \in Location /\ HeadAbs # l /\ OldestAbs # l
  BY Locations, GeometryAssumption DEF Position
<1>2. m \in messages[l] /\ \A n \in messages[l] : n.at > m.at => n.at > r.view.seen
  BY Zenon DEF Mem!Visible
<1>3. m.at \in Nat /\ m.rel \in Nat
  BY <1>1, <1>2, CellTypes, Zenon
<1>4. /\ r.view \in ViewType /\ r.view.seen >= seen
      /\ r.view.seen \in Nat /\ r.view.acquired \in Nat
      /\ r.view.last_read \in [Location -> Nat]
      /\ r.view.last_read[HeadAbs] = last_read[HeadAbs]
      /\ r.view.last_read[OldestAbs] = last_read[OldestAbs]
      /\ r.cells \in Seq(StoredValues) /\ Len(r.cells) = k
  BY Zenon DEF CopiedCells, ViewType
<1>5. /\ view \in ViewType
      /\ view.seen >= r.view.seen
      /\ view.acquired >= r.view.acquired
      /\ view.acquired >= m.rel
      /\ Ordering = "x86" => view.seen >= m.rel
      /\ view.last_read = [r.view.last_read EXCEPT ![l] = m.at]
  <2>1. l \in Location /\ r.view \in ViewType
    BY <1>1, <1>4, Zenon
  <2> HIDE DEF l
  <2> QED
    BY <1>3, <2>1, LoadView
<1>6. view.seen \in Nat /\ view.acquired \in Nat
  BY <1>5, Zenon DEF ViewType
<1>7. m.val \in StoredValues
  BY <1>1, <1>2 DEF StoredValues
<1>8. /\ cells \in Seq(StoredValues) /\ Len(cells) = k + 1
      /\ \A j \in 1 .. k : cells[j] = r.cells[j]
      /\ cells[k + 1] = m.val
  BY <1>4, <1>7
<1>9. Fresh(messages, l, m, seen)
  <2>1. ASSUME NEW n \in messages[l], n.at > m.at PROVE n.at > seen
    <3>1. n.at \in Nat /\ n.at > r.view.seen
      BY <1>1, <1>2, <2>1, CellTypes, Zenon
    <3> QED
      BY <1>4, <3>1
  <2> QED
    BY <1>2, <2>1, Zenon DEF Fresh
<1>10. view.last_read[HeadAbs] = last_read[HeadAbs]
       /\ view.last_read[OldestAbs] = last_read[OldestAbs]
  <2>1. HeadAbs \in Location /\ OldestAbs \in Location
    BY Locations, Zenon
  <2> QED
    BY <1>1, <1>4, <1>5, <2>1, Zenon
<1> HIDE DEF view, cells
<1>11. ASSUME NEW j \in 1 .. (k + 1)
       PROVE  \E n :
                /\ Fresh(messages, ByteAt(p + j - 1), n, seen)
                /\ cells[j] = n.val
                /\ n.rel \in Nat
                /\ n.rel <= view.acquired
                /\ Ordering = "x86" => n.rel <= view.seen
  <2>1. CASE j = k + 1
    <3>1. p + j - 1 = p + k
      BY <2>1
    <3>2. Fresh(messages, ByteAt(p + j - 1), m, seen)
      BY <1>9, <3>1, Zenon
    <3> QED
      BY <1>3, <1>5, <1>6, <1>8, <2>1, <3>2, Zenon
  <2>2. CASE j # k + 1
    <3>1. j \in 1 .. k
      BY <2>2
    <3>2. PICK n : /\ Fresh(messages, ByteAt(p + j - 1), n, seen)
                   /\ r.cells[j] = n.val
                   /\ n.rel \in Nat
                   /\ n.rel <= r.view.acquired
                   /\ Ordering = "x86" => n.rel <= r.view.seen
      BY <3>1, Zenon DEF CopiedCells
    <3>3. n.rel <= view.acquired /\ (Ordering = "x86" => n.rel <= view.seen)
      <4>1. /\ n.rel \in Nat /\ n.rel <= r.view.acquired
            /\ Ordering = "x86" => n.rel <= r.view.seen
        BY <3>2, Zenon
      <4>2. /\ r.view.seen \in Nat /\ r.view.acquired \in Nat
            /\ view.seen >= r.view.seen /\ view.acquired >= r.view.acquired
        BY <1>4, <1>5, Zenon
      <4> QED
        BY <1>6, <4>1, <4>2
    <3>4. cells[j] = n.val
      BY <1>8, <3>1, <3>2, Zenon
    <3> QED
      BY <3>2, <3>3, <3>4, Zenon
  <2> QED
    BY <2>1, <2>2, Zenon
<1>12. view.seen >= seen
  BY <1>4, <1>5, <1>6
<1>13. q.view = view /\ q.cells = cells
  BY Zenon
<1>14. CopiedCells(q, p, k + 1)
  <2> HIDE DEF q
  <2> QED
    BY <1>5, <1>8, <1>10, <1>11, <1>12, <1>13, Zenon DEF CopiedCells
<1> QED
  BY <1>14, Zenon DEF view, cells

-----------------------------------------------------------------------------
(* What the reader knows is still true of a longer log.                     *)

\* V is W with writes added, and OldestAbs has not moved back.
Grows(W, V) ==
    /\ \E n : LogOK(W, n)
    /\ \E n : LogOK(V, n)
    /\ Continues(W, V)
    /\ Oldest(W, Len(W)) <= Oldest(V, Len(V))

\* What has been given up stays given up.
LEMMA LappedGrows ==
    ASSUME NEW W, NEW V, Grows(W, V), NEW a \in Nat, Lapped(W, a)
    PROVE  Lapped(V, a)
<1>1. Oldest(W, Len(W)) \in Nat /\ Oldest(V, Len(V)) \in Nat
  <2>1. Len(W) \in Writes(W) /\ Len(V) \in Writes(V)
    BY DEF Grows, Continues, Writes
  <2> QED
    BY <2>1, LogTypes, Zenon DEF Grows
<1>2. Oldest(W, Len(W)) <= Oldest(V, Len(V)) /\ Oldest(W, Len(W)) > a
  BY Zenon DEF Grows, Lapped
<1> QED
  BY <1>1, <1>2 DEF Lapped

\* Records in order stay in order.
LEMMA InOrderGrows ==
    ASSUME NEW W, NEW V, Grows(W, V), NEW B, InOrder(W, B)
    PROVE  /\ InOrder(V, B)
           /\ \A i \in 1 .. Len(B) : End(V, B[i].rec) = End(W, B[i].rec)
<1>1. ASSUME NEW r \in 1 .. Len(W)
      PROVE  r \in 1 .. Len(V) /\ Start(V, r) = Start(W, r) /\ End(V, r) = End(W, r)
  <2>1. r \in Writes(W)
    BY DEF Grows, Continues, Writes
  <2> QED
    BY <2>1, SameLog DEF Grows
<1>2. \A i \in 1 .. Len(B) : End(V, B[i].rec) = End(W, B[i].rec)
  BY <1>1, Zenon DEF InOrder
<1> QED
  BY <1>1, <1>2, Zenon DEF InOrder

\* The cursor.
LEMMA CursorGrows ==
    ASSUME NEW W, NEW V, Grows(W, V), NEW h \in Writes(W), NEW o \in Writes(W),
           NEW c, NEW D, CursorOK(W, h, o, c, D)
    PROVE  CursorOK(V, h, o, c, D)
<1>1. /\ \A w \in Writes(W) : w \in Writes(V) /\ End(V, w) = End(W, w) /\ Oldest(V, w) = Oldest(W, w)
      /\ \A w \in 1 .. Len(W) : Start(V, w) = Start(W, w)
  BY SameLog DEF Grows
<1>2. InOrder(V, D) /\ \A i \in 1 .. Len(D) : End(V, D[i].rec) = End(W, D[i].rec)
  BY InOrderGrows, Zenon DEF CursorOK
<1>3. Mark(V, c)
  <2>1. PICK w \in Writes(W) : c = End(W, w) \/ (w > 0 /\ c = Start(W, w))
    BY Zenon DEF CursorOK, Mark
  <2>2. w > 0 => w \in 1 .. Len(W)
    BY DEF Writes, Grows, Continues
  <2> QED
    BY <1>1, <2>1, <2>2, Zenon DEF Mark
<1> QED
  BY <1>1, <1>2, <1>3, Zenon DEF CursorOK

\* The walk.
LEMMA WalkGrows ==
    ASSUME NEW W, NEW V, Grows(W, V), NEW h \in Writes(W), NEW o \in Writes(W),
           NEW c, NEW a, NEW head, NEW s, NEW D, InOrder(W, D), NEW B,
           WalkOK(W, h, o, c, a, head, s, D, B)
    PROVE  WalkOK(V, h, o, c, a, head, s, D, B)
<1>1. /\ End(V, h) = End(W, h) /\ HeadAt(V, h) = HeadAt(W, h) /\ Oldest(V, o) = Oldest(W, o)
      /\ \A w \in Writes(W) : w \in Writes(V) /\ End(V, w) = End(W, w)
      /\ \A w \in 1 .. Len(W) : Start(V, w) = Start(W, w)
  BY SameLog DEF Grows
<1>2. /\ InOrder(V, B) /\ \A i \in 1 .. Len(B) : End(V, B[i].rec) = End(W, B[i].rec)
      /\ \A i \in 1 .. Len(D) : End(V, D[i].rec) = End(W, D[i].rec)
  BY InOrderGrows DEF WalkOK
<1>3. ASSUME Mark(W, a) PROVE Mark(V, a)
  <2>1. PICK w \in Writes(W) : a = End(W, w) \/ (w > 0 /\ a = Start(W, w))
    BY <1>3, Zenon DEF Mark
  <2>2. w > 0 => w \in 1 .. Len(W)
    BY DEF Writes, Grows, Continues
  <2> QED
    BY <1>1, <2>1, <2>2, Zenon DEF Mark
<1> QED
  BY <1>1, <1>2, <1>3, Zenon DEF WalkOK

\* The record that the walk is at.
LEMMA StepGrows ==
    ASSUME NEW W, NEW V, Grows(W, V), NEW h \in Writes(W), NEW p, NEW a \in Nat,
           NEW len, NEW head, StepOK(W, h, p, a, len, head)
    PROVE  StepOK(V, h, p, a, len, head)
<1>1. ASSUME NEW w \in 1 .. h PROVE Start(V, w) = Start(W, w) /\ RecLen(V, w) = RecLen(W, w)
  <2>1. w \in 1 .. Len(W)
    BY DEF Writes, Grows, Continues
  <2> QED
    BY <2>1, SameLog DEF Grows
<1>2. Lapped(W, a) => Lapped(V, a)
  BY LappedGrows, Zenon
<1> QED
  BY <1>1, <1>2, Zenon DEF StepOK

\* What the reader has read.
LEMMA KnownGrows ==
    ASSUME NEW W, NEW V, Grows(W, V), NEW h, NEW o, NEW k, Known(W, h, o, k)
    PROVE  Known(V, h, o, k)
  BY SameLog, Zenon DEF Grows, Known

=============================================================================
