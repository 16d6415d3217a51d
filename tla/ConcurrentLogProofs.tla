------------------------- MODULE ConcurrentLogProofs ------------------------
(***************************************************************************)
(* What append_bytes_core leaves in memory, for every capacity, set of      *)
(* record shapes and number of appends.                                     *)
(*                                                                          *)
(* The argument is about offsets.  Every cell message stems from one write  *)
(* at one absolute offset, and the messages of a cell are ordered alike by  *)
(* number and by offset.  A reader that knows the head reads, at an offset  *)
(* below it, either what was stored there or something from a later lap;    *)
(* and the write of a later lap has first moved OldestAbs past the offset.  *)
(***************************************************************************)
EXTENDS ConcurrentStore, TLAPS

-----------------------------------------------------------------------------
(* Arithmetic of absolute offsets and physical positions.                   *)

\* Division with remainder.
LEMMA DivMod ==
    ASSUME NEW C \in Nat \ {0}, NEW a \in Nat
    PROVE  /\ a \div C \in Nat
           /\ a % C \in 0 .. (C - 1)
           /\ a = C * (a \div C) + (a % C)
  BY SMT

\* A positive multiple of C is at least C.
LEMMA MultipleBound ==
    ASSUME NEW C \in Nat \ {0}, NEW d \in Int, C * d > 0
    PROVE  C * d >= C
  BY SMT

\* Two offsets less than a capacity apart have different physical positions.
LEMMA ModDistinct ==
    ASSUME NEW C \in Nat \ {0}, NEW a \in Nat, NEW b \in Nat, a < b, b < a + C
    PROVE  a % C # b % C
<1> DEFINE qa == a \div C
           qb == b \div C
<1>1. /\ qa \in Int /\ a % C \in Int /\ a = C * qa + (a % C)
      /\ qb \in Int /\ b % C \in Int /\ b = C * qb + (b % C)
  BY DivMod
<1>2. SUFFICES ASSUME a % C = b % C PROVE FALSE
  OBVIOUS
<1>3. C * (qb - qa) = b - a
  BY <1>1, <1>2
<1>4. C * (qb - qa) >= C
  BY <1>1, <1>3, MultipleBound
<1> QED
  BY <1>3, <1>4

\* A shift that does not reach the end of the pool shifts the position.
LEMMA ModShift ==
    ASSUME NEW C \in Nat \ {0}, NEW a \in Nat, NEW k \in Nat, (a % C) + k < C
    PROVE  (a + k) % C = (a % C) + k
<1> DEFINE q == a \div C
<1>1. q \in Nat /\ a = C * q + (a % C) /\ a % C \in 0 .. (C - 1)
  BY DivMod
<1>2. a + k = C * q + ((a % C) + k)
  BY <1>1
<1> HIDE DEF q
<1> QED
  BY <1>1, <1>2

\* The next multiple of C is at position 0.
LEMMA ModNext ==
    ASSUME NEW C \in Nat \ {0}, NEW a \in Nat
    PROVE  (a + (C - (a % C))) % C = 0
<1> DEFINE q == a \div C
<1>1. q \in Nat /\ a = C * q + (a % C) /\ a % C \in 0 .. (C - 1)
  BY DivMod
<1>2. a + (C - (a % C)) = C * (q + 1)
  BY <1>1
<1> HIDE DEF q
<1>3. (C * (q + 1)) % C = 0
  BY <1>1
<1> QED
  BY <1>2, <1>3

\* The same facts about the pool.
LEMMA PhysType ==
    ASSUME NEW a \in Nat
    PROVE  Phys(a) \in 0 .. (Capacity - 1)
  BY DivMod, GeometryAssumption DEF Phys

\* Offsets less than a lap apart lie at different positions.
LEMMA PhysDistinct ==
    ASSUME NEW a \in Nat, NEW b \in Nat, a < b, b < a + Capacity
    PROVE  Phys(a) # Phys(b)
  BY ModDistinct, GeometryAssumption DEF Phys

\* Cells of a record that does not cross the end follow its start.
LEMMA PhysShift ==
    ASSUME NEW a \in Nat, NEW k \in Nat, Phys(a) + k < Capacity
    PROVE  Phys(a + k) = Phys(a) + k
  BY ModShift, GeometryAssumption DEF Phys

\* Where a record of a length that fits starts (write_record's wrap decision):
\* not before the head, in one piece, and less than a lap further on.
LEMMA StartAbsProperties ==
    ASSUME NEW head \in Nat, NEW len \in Nat, len <= Capacity
    PROVE  /\ StartAbs(head, len) \in Nat
           /\ head <= StartAbs(head, len)
           /\ Phys(StartAbs(head, len)) + len <= Capacity
<1> USE GeometryAssumption
<1>1. Phys(head) \in 0 .. (Capacity - 1)
  BY PhysType
<1>2. CASE Phys(head) = 0 \/ Phys(head) + len <= Capacity
  BY <1>1, <1>2 DEF StartAbs
<1>3. CASE ~(Phys(head) = 0 \/ Phys(head) + len <= Capacity)
  <2>1. StartAbs(head, len) = head + (Capacity - Phys(head))
    BY <1>3 DEF StartAbs
  <2>2. Phys(StartAbs(head, len)) = 0
    BY <2>1, ModNext DEF Phys
  <2> QED
    BY <1>1, <2>1, <2>2
<1> QED
  BY <1>2, <1>3

-----------------------------------------------------------------------------
(* Sequences: facts that the solver proves once and the proofs then cite.   *)

\* Appending adds one element at the end.
LEMMA AppendFacts ==
    ASSUME NEW S, NEW s \in Seq(S), NEW e \in S
    PROVE  /\ Append(s, e) \in Seq(S) /\ Len(Append(s, e)) = Len(s) + 1
           /\ \A i \in 1 .. Len(s) : Append(s, e)[i] = s[i]
           /\ Append(s, e)[Len(s) + 1] = e
  OBVIOUS

\* The elements of a concatenation.
LEMMA ConcatFacts ==
    ASSUME NEW S, NEW s \in Seq(S), NEW t \in Seq(S)
    PROVE  /\ s \o t \in Seq(S) /\ Len(s \o t) = Len(s) + Len(t)
           /\ \A i \in 1 .. Len(s) + Len(t) :
                (s \o t)[i] = IF i <= Len(s) THEN s[i] ELSE t[i - Len(s)]
  OBVIOUS

\* The elements, the length and the domain of a sequence.
LEMMA SeqElement ==
    ASSUME NEW S, NEW s \in Seq(S), NEW n \in 1 .. Len(s)
    PROVE  s[n] \in S
  OBVIOUS

\* A sequence is a function on 1 .. its length.
LEMMA SeqLength ==
    ASSUME NEW S, NEW s \in Seq(S)
    PROVE  /\ Len(s) \in Nat /\ s \in [1 .. Len(s) -> S]
           /\ DOMAIN s = 1 .. Len(s)
  OBVIOUS

\* Only the empty sequence has length 0.
LEMMA NoLength ==
    ASSUME NEW S, NEW s \in Seq(S)
    PROVE  s = << >> <=> Len(s) = 0
  OBVIOUS

(***************************************************************************)
(* Where a log W of writes puts things.  Write w occupies the offsets from  *)
(* Prev(W, w) to End(W, w): a wrap marker at the first of them if it        *)
(* skips to the next lap, and its record from Start(W, w) on.  w = 0 stands *)
(* for the empty ring.                                                      *)
(***************************************************************************)
LogEntry == [start : Nat, shape : Shape, oldest : Nat, at : Nat]

Writes(W) == 0 .. Len(W)

Start(W, w) == W[w].start

RecLen(W, w) == W[w].shape.len

End(W, w) == IF w = 0 THEN 0 ELSE Start(W, w) + RecLen(W, w)

Prev(W, w) == End(W, w - 1)

Oldest(W, w) == IF w = 0 THEN 0 ELSE W[w].oldest

\* How many instructions a write executes up to its store to OldestAbs, and
\* between that store and its cells.
Opening == IF Store = "shared" THEN 3 ELSE 1

Fencing == IF Fenced THEN 1 ELSE 0

Marking(W, w) == IF Start(W, w) # Prev(W, w) THEN 1 ELSE 0

\* The record's cell at offset x is store number x + Shift(W, w).
Shift(W, w) == W[w].at + Opening + Fencing + Marking(W, w) + 1 - Start(W, w)

\* The numbers of write w's stores to OldestAbs and to HeadAbs.
OldestAt(W, w) == IF w = 0 THEN 0 ELSE W[w].at + Opening

HeadAt(W, w) == IF w = 0 THEN 0 ELSE End(W, w) + Shift(W, w)

\* Write w stores to the cell at offset x: a cell of its record, or its marker.
Stored(W, w, x) ==
    \/ Start(W, w) <= x /\ x < End(W, w)
    \/ x = Prev(W, w) /\ x < Start(W, w)

CellAt(W, w, x) ==
    IF x >= Start(W, w) THEN x + Shift(W, w) ELSE Start(W, w) + Shift(W, w) - 1

CellVal(W, w, x) ==
    IF x >= Start(W, w) THEN CellOf(w, W[w].shape, x - Start(W, w)) ELSE ZeroCell

\* m is the message that write w left at offset x.
From(W, m, w, x) ==
    /\ m.at = CellAt(W, w, x)
    /\ m.val = CellVal(W, w, x)
    /\ m.rel \in Nat /\ m.rel >= OldestAt(W, w)

\* The cell at offset a has been given up.
Lapped(W, a) == Oldest(W, Len(W)) > a

\* An offset where a record starts or ends.
Mark(W, a) == \E w \in Writes(W) : a = End(W, w) \/ (w > 0 /\ a = Start(W, w))

\* Every offset below the end of a write belongs to a write up to it.
Covered(W) ==
    \A h \in Writes(W), a \in Nat :
        a < End(W, h) => \E w \in 1 .. h : Prev(W, w) <= a /\ a < End(W, w)

\* The log after n instructions: each record where append_bytes_core puts it, and
\* OldestAbs moved, in step with the head, over what the record will overwrite.
LogOK(W, n) ==
    /\ W \in Seq(LogEntry)
    /\ \A w \in 1 .. Len(W) :
        /\ Start(W, w) = StartAbs(Prev(W, w), RecLen(W, w))
        /\ End(W, w) <= Oldest(W, w) + Capacity
        /\ Oldest(W, w) <= Start(W, w)
        /\ \E r \in 1 .. w : Oldest(W, w) = Start(W, r)
        /\ HeadAt(W, w) <= n
    /\ \A v, w \in 1 .. Len(W) : v < w =>
        /\ End(W, v) <= Start(W, w)
        /\ Oldest(W, v) <= Oldest(W, w)
        /\ HeadAt(W, v) <= W[w].at
    /\ Covered(W)

-----------------------------------------------------------------------------
(* Facts about the log.                                                     *)

\* The types of a log entry's fields; a record is longer than its header and no
\* longer than the pool.
LEMMA LogTypes ==
    ASSUME NEW W, NEW n, LogOK(W, n)
    PROVE  /\ Len(W) \in Nat
           /\ \A w \in 1 .. Len(W) :
                /\ Start(W, w) \in Nat /\ RecLen(W, w) \in Nat /\ W[w].at \in Nat
                /\ W[w].oldest \in Nat
                /\ RecLen(W, w) >= 3 /\ RecLen(W, w) <= Capacity
                /\ RecLen(W, w) > HeaderLen
                /\ W[w].shape \in Shape
                /\ Prev(W, w) \in Nat /\ Shift(W, w) \in Int
                /\ W[w].at < OldestAt(W, w)
                /\ OldestAt(W, w) + Marking(W, w) < Start(W, w) + Shift(W, w)
                /\ w \in Writes(W) /\ w # 0 /\ w \in Nat
           /\ \A w \in Writes(W) :
                /\ End(W, w) \in Nat /\ Oldest(W, w) \in Nat
                /\ OldestAt(W, w) \in Nat /\ HeadAt(W, w) \in Nat
<1>1. W \in Seq(LogEntry) /\ Len(W) \in Nat
  BY DEF LogOK
<1>2. ASSUME NEW w \in 1 .. Len(W)
      PROVE  /\ Start(W, w) \in Nat /\ RecLen(W, w) \in Nat /\ W[w].at \in Nat
             /\ W[w].oldest \in Nat
             /\ RecLen(W, w) >= 3 /\ RecLen(W, w) <= Capacity
             /\ RecLen(W, w) > HeaderLen
             /\ W[w].shape \in Shape
  <2>1. W[w] \in LogEntry
    BY <1>1, SeqElement, Zenon
  <2> QED
    BY <2>1, ConcurrentAssumption, GeometryAssumption DEF LogEntry, Start, RecLen
<1>3. ASSUME NEW w \in Writes(W)
      PROVE  /\ End(W, w) \in Nat /\ Oldest(W, w) \in Nat
             /\ OldestAt(W, w) \in Nat /\ HeadAt(W, w) \in Nat
  <2>1. CASE w = 0
    BY <2>1, Zenon DEF End, Oldest, OldestAt, HeadAt
  <2>2. CASE w # 0
    <3>1. w \in 1 .. Len(W)
      BY <1>1, <2>2 DEF Writes
    <3>2. /\ Start(W, w) \in Nat /\ RecLen(W, w) \in Nat /\ W[w].at \in Nat
          /\ W[w].oldest \in Nat
      BY <1>2, <3>1, Zenon
    <3>3. Opening \in Nat /\ Fencing \in Nat /\ Marking(W, w) \in Nat
      BY Zenon DEF Opening, Fencing, Marking
    <3>4. OldestAt(W, w) \in Nat
      BY <2>2, <3>2, <3>3 DEF OldestAt
    <3>5. End(W, w) \in Nat /\ Oldest(W, w) \in Nat
      BY <2>2, <3>2 DEF End, Oldest
    <3>6. HeadAt(W, w) \in Nat
      <4>1. HeadAt(W, w) = (Start(W, w) + RecLen(W, w)) + Shift(W, w)
        BY <2>2, Zenon DEF HeadAt, End
      <4> QED
        BY <3>2, <3>3, <4>1 DEF Shift
    <3> QED
      BY <3>4, <3>5, <3>6, Zenon
  <2> QED
    BY <2>1, <2>2, Zenon
<1>4. ASSUME NEW w \in 1 .. Len(W)
      PROVE  /\ Shift(W, w) \in Int
             /\ W[w].at < OldestAt(W, w)
             /\ OldestAt(W, w) + Marking(W, w) < Start(W, w) + Shift(W, w)
  <2>1. Start(W, w) \in Nat /\ W[w].at \in Nat
    BY <1>2, Zenon
  <2>2. /\ Opening \in Nat /\ Opening > 0 /\ Fencing \in Nat /\ Marking(W, w) \in Nat
    BY DEF Opening, Fencing, Marking
  <2>3. OldestAt(W, w) = W[w].at + Opening
    BY <1>1 DEF OldestAt
  <2>4. Shift(W, w) = W[w].at + Opening + Fencing + Marking(W, w) + 1 - Start(W, w)
    BY Zenon DEF Shift
  <2> DEFINE total == W[w].at + Opening + Fencing + Marking(W, w)
  <2>5. total \in Nat /\ OldestAt(W, w) + Marking(W, w) <= total
    <3>1. \A a, o, f, m \in Nat : a + o + f + m \in Nat /\ a + o + m <= a + o + f + m
      OBVIOUS
    <3> QED
      BY <2>1, <2>2, <2>3, <3>1, Zenon
  <2>6. W[w].at < OldestAt(W, w) /\ OldestAt(W, w) + Marking(W, w) \in Nat
    BY <2>1, <2>2, <2>3
  <2>7. Shift(W, w) = total + (1 - Start(W, w))
    BY <2>4, Zenon
  <2> HIDE DEF total
  <2> QED
    BY <2>1, <2>5, <2>6, <2>7
<1>5. ASSUME NEW w \in 1 .. Len(W)
      PROVE  Prev(W, w) \in Nat /\ w \in Writes(W) /\ w # 0 /\ w \in Nat
  <2>1. w - 1 \in Writes(W) /\ w \in Writes(W) /\ w # 0 /\ w \in Nat
    BY <1>1 DEF Writes
  <2> QED
    BY <1>3, <2>1, Zenon DEF Prev
<1> QED
  BY <1>1, <1>2, <1>3, <1>4, <1>5, Zenon

\* A write lies after the earlier ones: its span starts where the last one ended.
LEMMA LogOrder ==
    ASSUME NEW W, NEW n, LogOK(W, n)
    PROVE  /\ \A w \in 1 .. Len(W) :
                /\ Prev(W, w) <= Start(W, w)
                /\ Start(W, w) < End(W, w)
                /\ Phys(Start(W, w)) + RecLen(W, w) <= Capacity
                /\ OldestAt(W, w) < HeadAt(W, w)
                /\ W[w].at < OldestAt(W, w)
           /\ \A v, w \in Writes(W) : v < w =>
                /\ End(W, v) < End(W, w)
                /\ End(W, v) <= Prev(W, w)
                /\ Oldest(W, v) <= Oldest(W, w)
                /\ HeadAt(W, v) < OldestAt(W, w)
                /\ OldestAt(W, v) < OldestAt(W, w)
                /\ HeadAt(W, v) < HeadAt(W, w)
<1>1. ASSUME NEW w \in 1 .. Len(W)
      PROVE  /\ Prev(W, w) <= Start(W, w)
             /\ Start(W, w) < End(W, w)
             /\ Phys(Start(W, w)) + RecLen(W, w) <= Capacity
             /\ OldestAt(W, w) < HeadAt(W, w)
             /\ W[w].at < OldestAt(W, w)
  <2>1. /\ w \in Writes(W) /\ w # 0 /\ Prev(W, w) \in Nat
        /\ Start(W, w) \in Nat /\ W[w].at < OldestAt(W, w)
        /\ RecLen(W, w) \in Nat /\ RecLen(W, w) <= Capacity /\ RecLen(W, w) >= 3
    BY LogTypes, Zenon
  <2>2. Start(W, w) = StartAbs(Prev(W, w), RecLen(W, w))
    BY Zenon DEF LogOK
  <2>3. /\ Prev(W, w) <= Start(W, w)
        /\ Phys(Start(W, w)) + RecLen(W, w) <= Capacity
    BY <2>1, <2>2, StartAbsProperties, Zenon
  <2>4. Start(W, w) < End(W, w) /\ End(W, w) \in Nat
    BY <2>1 DEF End
  <2>5. /\ OldestAt(W, w) + Marking(W, w) < Start(W, w) + Shift(W, w)
        /\ Shift(W, w) \in Int /\ OldestAt(W, w) \in Nat
    BY <2>1, LogTypes, Zenon
  <2>6. Marking(W, w) \in Nat /\ HeadAt(W, w) = End(W, w) + Shift(W, w)
    BY <2>1, Zenon DEF Marking, HeadAt
  <2>7. OldestAt(W, w) < HeadAt(W, w)
    BY <2>1, <2>4, <2>5, <2>6
  <2> QED
    BY <2>1, <2>3, <2>4, <2>7, Zenon
<1>2. ASSUME NEW v \in Writes(W), NEW w \in Writes(W), v < w
      PROVE  /\ End(W, v) < End(W, w)
             /\ End(W, v) <= Prev(W, w)
             /\ Oldest(W, v) <= Oldest(W, w)
             /\ HeadAt(W, v) < OldestAt(W, w)
             /\ OldestAt(W, v) < OldestAt(W, w)
             /\ HeadAt(W, v) < HeadAt(W, w)
  <2>0. Len(W) \in Nat
    BY LogTypes, Zenon
  <2>1. v \in Nat /\ w \in 1 .. Len(W)
    BY <1>2, <2>0 DEF Writes
  <2>2. /\ End(W, w) \in Nat /\ Prev(W, w) \in Nat /\ Start(W, w) \in Nat
        /\ Oldest(W, w) \in Nat /\ OldestAt(W, w) \in Nat /\ HeadAt(W, w) \in Nat
        /\ W[w].at \in Nat
    BY <2>1, LogTypes, Zenon
  <2>3. /\ Prev(W, w) <= Start(W, w) /\ Start(W, w) < End(W, w)
        /\ OldestAt(W, w) < HeadAt(W, w) /\ W[w].at < OldestAt(W, w)
    BY <1>1, <2>1, Zenon
  <2>4. CASE v = 0
    <3>1. End(W, v) = 0 /\ Oldest(W, v) = 0 /\ OldestAt(W, v) = 0 /\ HeadAt(W, v) = 0
      BY <2>4, Zenon DEF End, Oldest, OldestAt, HeadAt
    <3> QED
      BY <2>2, <2>3, <3>1
  <2>5. CASE v # 0
    <3>1. v \in 1 .. Len(W)
      BY <2>0, <2>1, <2>5 DEF Writes
    <3>2. /\ End(W, v) \in Nat /\ OldestAt(W, v) \in Nat /\ HeadAt(W, v) \in Nat
          /\ OldestAt(W, v) < HeadAt(W, v)
      BY <1>1, <3>1, LogTypes, Zenon
    <3>3. /\ End(W, v) <= Start(W, w) /\ Oldest(W, v) <= Oldest(W, w)
          /\ HeadAt(W, v) <= W[w].at
      BY <1>2, <2>1, <3>1, Zenon DEF LogOK
    <3>4. End(W, v) <= Prev(W, w)
      <4>1. CASE v = w - 1
        BY <3>2, <4>1 DEF Prev
      <4>2. CASE v # w - 1
        <5> DEFINE u == w - 1
        <5>1. v < u /\ u \in 1 .. Len(W) /\ End(W, u) = Prev(W, w)
          BY <1>2, <2>0, <2>1, <3>1, <4>2 DEF Prev
        <5> HIDE DEF u
        <5>2. End(W, v) <= Start(W, u)
          BY <3>1, <5>1, Zenon DEF LogOK
        <5>3. Start(W, u) \in Nat /\ Start(W, u) < End(W, u)
          BY <1>1, <5>1, LogTypes, Zenon
        <5> QED
          BY <2>2, <3>2, <5>1, <5>2, <5>3
      <4> QED
        BY <4>1, <4>2, Zenon
    <3> QED
      BY <2>2, <2>3, <3>2, <3>3, <3>4
  <2> QED
    BY <2>4, <2>5, Zenon
<1> QED
  BY <1>1, <1>2, Zenon

\* What a write stores lies in its span, and is stored between its OldestAbs and its
\* HeadAbs, the marker before the record, the record cell by cell.
LEMMA StoredRange ==
    ASSUME NEW W, NEW n, LogOK(W, n), NEW w \in 1 .. Len(W)
    PROVE  /\ \A x \in Nat : Stored(W, w, x) =>
                /\ Prev(W, w) <= x /\ x < End(W, w)
                /\ CellAt(W, w, x) \in Nat
                /\ OldestAt(W, w) < CellAt(W, w, x)
                /\ CellAt(W, w, x) < HeadAt(W, w)
           /\ \A x, y \in Nat : Stored(W, w, x) /\ Stored(W, w, y) /\ x < y
                => CellAt(W, w, x) < CellAt(W, w, y)
<1> DEFINE start == Start(W, w)
           shift == Shift(W, w)
           end == End(W, w)
           oldest == OldestAt(W, w)
           prev == Prev(W, w)
<1>1. /\ start \in Nat /\ shift \in Int /\ oldest \in Nat /\ prev \in Nat /\ end \in Nat
      /\ oldest + Marking(W, w) < start + shift
      /\ w # 0
  BY LogTypes, Zenon
<1>2. prev <= start /\ start < end /\ HeadAt(W, w) = end + shift
  BY <1>1, LogOrder, Zenon DEF HeadAt
<1>3. ASSUME NEW x \in Nat, Stored(W, w, x)
      PROVE  /\ prev <= x /\ x < end
             /\ x < start => x = prev /\ CellAt(W, w, x) = start + shift - 1 /\ oldest + 1 < start + shift
             /\ x >= start => CellAt(W, w, x) = x + shift
  <2>1. (start <= x /\ x < end) \/ (x = prev /\ x < start)
    BY <1>3, Zenon DEF Stored
  <2>2. CellAt(W, w, x) = IF x >= start THEN x + shift ELSE start + shift - 1
    BY Zenon DEF CellAt
  <2>3. Marking(W, w) = IF start # prev THEN 1 ELSE 0
    BY Zenon DEF Marking
  <2> HIDE DEF start, shift, end, oldest, prev
  <2> QED
    BY <1>1, <1>2, <2>1, <2>2, <2>3
<1>4. oldest < start + shift
  BY <1>1 DEF Marking
<1> HIDE DEF start, shift, end, oldest, prev
<1>5. ASSUME NEW x \in Nat, Stored(W, w, x)
      PROVE  /\ CellAt(W, w, x) \in Nat
             /\ oldest < CellAt(W, w, x)
             /\ CellAt(W, w, x) < HeadAt(W, w)
  <2>1. CASE x < start
    BY <1>1, <1>2, <1>3, <1>5, <2>1
  <2>2. CASE x >= start
    BY <1>1, <1>2, <1>3, <1>4, <1>5, <2>2
  <2> QED
    BY <1>1, <2>1, <2>2
<1>6. ASSUME NEW x \in Nat, NEW y \in Nat, Stored(W, w, x), Stored(W, w, y), x < y
      PROVE  CellAt(W, w, x) < CellAt(W, w, y)
  <2>1. y >= start
    BY <1>1, <1>3, <1>6
  <2>2. CellAt(W, w, y) = y + shift
    BY <1>3, <1>6, <2>1, Zenon
  <2>3. CellAt(W, w, x) = x + shift \/ CellAt(W, w, x) = start + shift - 1
    BY <1>1, <1>3, <1>6
  <2> QED
    BY <1>1, <1>6, <2>1, <2>2, <2>3
<1> QED
  BY <1>3, <1>5, <1>6, Zenon DEF start, shift, end, oldest, prev

\* V is W with writes added to it.
Continues(W, V) ==
    /\ Len(W) \in Nat /\ Len(V) \in Nat /\ Len(W) <= Len(V)
    /\ \A w \in 1 .. Len(W) : V[w] = W[w]

\* Later writes change nothing about the earlier ones.
LEMMA SameLog ==
    ASSUME NEW W, NEW V, Continues(W, V)
    PROVE  /\ \A w \in 1 .. Len(W) :
                /\ w \in 1 .. Len(V)
                /\ V[w] = W[w]
                /\ Start(V, w) = Start(W, w) /\ RecLen(V, w) = RecLen(W, w)
                /\ Prev(V, w) = Prev(W, w)
                /\ \A x : /\ Stored(V, w, x) <=> Stored(W, w, x)
                          /\ \A m : From(V, m, w, x) <=> From(W, m, w, x)
           /\ \A w \in Writes(W) :
                /\ w \in Writes(V)
                /\ End(V, w) = End(W, w) /\ Oldest(V, w) = Oldest(W, w)
                /\ OldestAt(V, w) = OldestAt(W, w) /\ HeadAt(V, w) = HeadAt(W, w)
<1>1. ASSUME NEW w \in 1 .. Len(W)
      PROVE  /\ w \in 1 .. Len(V) /\ V[w] = W[w]
             /\ Start(V, w) = Start(W, w) /\ RecLen(V, w) = RecLen(W, w)
  BY DEF Continues, Start, RecLen
<1>2. ASSUME NEW w \in Writes(W)
      PROVE  /\ w \in Writes(V)
             /\ w # 0 => w \in 1 .. Len(W)
             /\ End(V, w) = End(W, w) /\ Oldest(V, w) = Oldest(W, w)
             /\ OldestAt(V, w) = OldestAt(W, w)
  <2>1. w \in Writes(V) /\ (w # 0 => w \in 1 .. Len(W))
    BY DEF Continues, Writes
  <2> QED
    BY <1>1, <2>1, Zenon DEF End, Oldest, OldestAt
<1>3. ASSUME NEW w \in 1 .. Len(W)
      PROVE  Prev(V, w) = Prev(W, w) /\ Shift(V, w) = Shift(W, w)
  <2>1. w - 1 \in Writes(W)
    BY DEF Continues, Writes
  <2>2. Prev(V, w) = Prev(W, w)
    BY <1>2, <2>1, Zenon DEF Prev
  <2>3. Marking(V, w) = Marking(W, w)
    BY <1>1, <2>2, Zenon DEF Marking
  <2> QED
    BY <1>1, <2>2, <2>3, Zenon DEF Shift
<1>4. ASSUME NEW w \in Writes(W) PROVE HeadAt(V, w) = HeadAt(W, w)
  BY <1>2, <1>3, Zenon DEF HeadAt
<1>5. ASSUME NEW w \in 1 .. Len(W), NEW x
      PROVE  /\ Stored(V, w, x) <=> Stored(W, w, x)
             /\ \A m : From(V, m, w, x) <=> From(W, m, w, x)
  <2>1. w \in Writes(W)
    BY DEF Continues, Writes
  <2>2. Stored(V, w, x) <=> Stored(W, w, x)
    BY <1>1, <1>2, <1>3, <2>1, Zenon DEF Stored
  <2>3. CellAt(V, w, x) = CellAt(W, w, x) /\ CellVal(V, w, x) = CellVal(W, w, x)
    BY <1>1, <1>3, Zenon DEF CellAt, CellVal
  <2>4. OldestAt(V, w) = OldestAt(W, w)
    BY <1>2, <2>1, Zenon
  <2> QED
    BY <2>2, <2>3, <2>4, Zenon DEF From
<1> QED
  BY <1>1, <1>2, <1>3, <1>4, <1>5, Zenon

-----------------------------------------------------------------------------
(* The messages M that a log W leaves in memory.                            *)

HeadMessages(M, W) ==
    \A m \in M[HeadAbs] : \E w \in Writes(W) :
        m.at = HeadAt(W, w) /\ m.val = End(W, w) /\ m.rel = HeadAt(W, w)

OldestMessages(M, W) ==
    /\ \A m \in M[OldestAbs] :
        m.rel \in Nat /\ \E w \in Writes(W) : m.at = OldestAt(W, w) /\ m.val = Oldest(W, w)
    /\ \A w \in Writes(W) : \E m \in M[OldestAbs] : m.at = OldestAt(W, w)

CellMessages(M, W) ==
    /\ \A p \in Position : \A m \in M[ByteAt(p)] :
        \/ m.at = 0 /\ m.val = ZeroCell /\ m.rel = 0
        \/ \E w \in 1 .. Len(W) : \E x \in Nat :
            Stored(W, w, x) /\ Phys(x) = p /\ From(W, m, w, x)
    /\ \A w \in 1 .. Len(W) : \A x \in Nat :
        Stored(W, w, x) => \E m \in M[ByteAt(Phys(x))] : From(W, m, w, x)

LockMessages(M, n) ==
    /\ \A m \in M[SeqLock] : m.at \in Nat /\ m.at <= n /\ m.rel \in Nat
    /\ M[SeqLock] # {}

-----------------------------------------------------------------------------
(* The state of the writer.                                                 *)

\* The orderings under which a reader that sees a cell sees the store to OldestAbs that
\* went before: x86, or the fence of the owned store.
Ordered == Ordering = "x86" \/ (Store = "owned" /\ Fenced)

\* Where a fence decides what is published, its number is a number.
FenceType == Ordering # "x86" => fenced \in Nat

\* What the writer leaves in memory: the part of the inductive invariant that the reader
\* relies on.
WriterOK(W) ==
    /\ stores \in Nat /\ FenceType
    /\ LogOK(W, stores)
    /\ HeadMessages(messages, W)
    /\ OldestMessages(messages, W)
    /\ CellMessages(messages, W)
    /\ LockMessages(messages, stores)

\* The locations.
LEMMA Locations ==
    /\ HeadAbs \in Location /\ OldestAbs \in Location /\ SeqLock \in Location
    /\ \A p \in Position : ByteAt(p) \in Location
    /\ HeadAbs # OldestAbs /\ HeadAbs # SeqLock /\ OldestAbs # SeqLock
    /\ \A p : ByteAt(p) # HeadAbs /\ ByteAt(p) # OldestAbs /\ ByteAt(p) # SeqLock
    /\ \A p, q : ByteAt(p) = ByteAt(q) => p = q
  BY Zenon DEF Location, HeadAbs, OldestAbs, SeqLock, ByteAt

=============================================================================
