----------------------- MODULE ConcurrentWriteProofs ------------------------
(***************************************************************************)
(* The writer's half of the argument: append_bytes_core executes the        *)
(* instructions the log stands for, the messages they leave are those of    *)
(* the longer log, and the spans are the records it retains.                *)
(***************************************************************************)
EXTENDS ConcurrentProducer, ConcurrentLogProofs

-----------------------------------------------------------------------------
(* Sequences and numbers.                                                   *)

\* Sequences with the same elements are equal.
LEMMA SameSeq ==
    ASSUME NEW S, NEW s \in Seq(S), NEW t \in Seq(S), Len(s) = Len(t),
           \A i \in 1 .. Len(s) : s[i] = t[i]
    PROVE  s = t
  OBVIOUS

\* The elements of a subsequence.
LEMMA SubSeqFacts ==
    ASSUME NEW S, NEW s, NEW m \in Int, NEW n \in Int, \A i \in m .. n : s[i] \in S
    PROVE  /\ SubSeq(s, m, n) \in Seq(S)
           /\ Len(SubSeq(s, m, n)) = IF m <= n THEN n - m + 1 ELSE 0
           /\ \A i \in 1 .. (n - m + 1) : SubSeq(s, m, n)[i] = s[m + i - 1]
  OBVIOUS

\* A subsequence whose end lies before its start is empty.
LEMMA NoSubSeq ==
    ASSUME NEW s, NEW m \in Int, NEW n \in Int, n < m
    PROVE  SubSeq(s, m, n) = << >>
  OBVIOUS

-----------------------------------------------------------------------------
(* The log grows.                                                           *)

\* The entry e may follow the log W: its record starts where the geometry puts it after
\* the last one, and its OldestAbs is the start of a record not older than before and
\* less than a lap behind its end.
Follows(W, e, n) ==
    LET end == e.start + e.shape.len IN
    /\ e \in LogEntry
    /\ e.start = StartAbs(End(W, Len(W)), e.shape.len)
    /\ end <= e.oldest + Capacity
    /\ Oldest(W, Len(W)) <= e.oldest /\ e.oldest <= e.start
    /\ e.oldest = e.start \/ \E r \in 1 .. Len(W) : e.oldest = Start(W, r)
    /\ e.at = n

\* V is W with e as write N, at instruction n.
NextLog(W, n, e, V, N) ==
    Follows(W, e, n) /\ V = Append(W, e) /\ N = Len(W) + 1

\* V is the log W with e as its entry N, the first of its stores being n + 1.
EntryAdded(W, n, e, V, N) ==
    /\ Continues(W, V) /\ V \in Seq(LogEntry) /\ Len(V) = N /\ N \in 1 .. Len(V)
    /\ N # 0 /\ N \in Nat /\ N \in Writes(V)
    /\ V[N] = e
    /\ Start(V, N) = e.start /\ RecLen(V, N) = e.shape.len
    /\ End(V, N) = e.start + e.shape.len
    /\ Prev(V, N) = End(W, Len(W))
    /\ Oldest(V, N) = e.oldest
    /\ OldestAt(V, N) = n + Opening
    /\ Prev(V, N) \in Nat /\ Prev(V, N) <= e.start
    /\ Phys(e.start) + e.shape.len <= Capacity
    /\ e.start \in Nat /\ e.oldest \in Nat
    /\ e.shape.len \in Nat /\ e.shape.len > 2 /\ e.shape \in Shape

\* Where the new write puts things.
LEMMA NewWrite ==
    ASSUME NEW W, NEW n \in Nat, LogOK(W, n), NEW e, NEW V, NEW N, NextLog(W, n, e, V, N)
    PROVE  EntryAdded(W, n, e, V, N)
<1>1. /\ W \in Seq(LogEntry) /\ Len(W) \in Nat /\ e \in LogEntry
      /\ Len(W) \in Writes(W) /\ End(W, Len(W)) \in Nat
  <2>1. W \in Seq(LogEntry) /\ Len(W) \in Nat
    BY DEF LogOK
  <2>2. Len(W) \in Writes(W)
    BY DEF Writes
  <2> QED
    BY <2>1, <2>2, LogTypes, Zenon DEF Follows, NextLog
<1>2. /\ V \in Seq(LogEntry) /\ Len(V) = N /\ N \in 1 .. Len(V) /\ N # 0 /\ N - 1 = Len(W)
      /\ N \in Nat
      /\ V[N] = e /\ \A w \in 1 .. Len(W) : V[w] = W[w]
  BY <1>1 DEF NextLog
<1>3. Continues(W, V) /\ N \in Writes(V)
  BY <1>1, <1>2 DEF Continues, Writes
<1>4. Prev(V, N) = End(W, Len(W))
  BY <1>1, <1>2, <1>3, SameLog DEF Prev
<1>5. /\ e.start \in Nat /\ e.oldest \in Nat /\ e.at = n /\ e.shape \in Shape
      /\ e.shape.len \in Nat /\ e.shape.len > 2 /\ e.shape.len <= Capacity
  BY <1>1, ConcurrentAssumption, GeometryAssumption DEF LogEntry, Follows, NextLog
<1>6. /\ Start(V, N) = e.start /\ RecLen(V, N) = e.shape.len
      /\ End(V, N) = e.start + e.shape.len
      /\ Oldest(V, N) = e.oldest
      /\ OldestAt(V, N) = n + Opening
  BY <1>2, <1>5, Zenon DEF Start, RecLen, End, Oldest, OldestAt
<1>7. End(W, Len(W)) <= e.start /\ Phys(e.start) + e.shape.len <= Capacity
  BY <1>1, <1>5, StartAbsProperties, Zenon DEF Follows, NextLog
<1> QED
  BY <1>1, <1>2, <1>3, <1>4, <1>5, <1>6, <1>7, Zenon DEF EntryAdded

\* c instructions precede the first cell of a record at start, with the head at head.
IsPreamble(c, start, head) == c = Opening + Fencing + (IF start # head THEN 1 ELSE 0)

\* The numbers of the new write's stores.
LEMMA NewNumbers ==
    ASSUME NEW W, NEW n \in Nat, LogOK(W, n), NEW e, NEW V, NEW N, NextLog(W, n, e, V, N),
           NEW c, IsPreamble(c, e.start, End(W, Len(W)))
    PROVE  /\ c \in Nat /\ Shift(V, N) \in Int
           /\ e.start + Shift(V, N) = n + c + 1
           /\ HeadAt(V, N) = n + (c + e.shape.len + 1)
<1>1. /\ V[N] = e /\ Start(V, N) = e.start /\ Prev(V, N) = End(W, Len(W)) /\ N # 0
      /\ e.start \in Nat /\ e.shape.len \in Nat
      /\ End(V, N) = e.start + e.shape.len
  <2>1. EntryAdded(W, n, e, V, N)
    BY NewWrite, Zenon
  <2> QED
    BY <2>1, Zenon DEF EntryAdded
<1>2. Opening \in Nat /\ Fencing \in Nat /\ Marking(V, N) \in Nat /\ e.at = n
  BY Zenon DEF Opening, Fencing, Marking, Follows, NextLog
<1>3. c = Opening + Fencing + Marking(V, N) /\ c \in Nat
  BY <1>1, <1>2 DEF Marking, IsPreamble
<1>4. Shift(V, N) = n + Opening + Fencing + Marking(V, N) + 1 - e.start
  BY <1>1, <1>2, Zenon DEF Shift
<1>5. Shift(V, N) = n + c + 1 - e.start
  BY <1>1, <1>2, <1>3, <1>4
<1>6. HeadAt(V, N) = (e.start + e.shape.len) + Shift(V, N)
  BY <1>1, Zenon DEF HeadAt
<1> DEFINE s == e.start
           l == e.shape.len
           t == Shift(V, N)
<1>7. s \in Nat /\ l \in Nat /\ t = n + c + 1 - s /\ HeadAt(V, N) = (s + l) + t
  BY <1>1, <1>5, <1>6, Zenon
<1> HIDE DEF s, l, t
<1>3a. c \in Nat
  BY <1>3, Zenon
<1>8a. t \in Int /\ s + t = n + c + 1
  BY <1>3a, <1>7
<1>8b. (s + l) + t = n + (c + l + 1)
  BY <1>3a, <1>7
<1>8. s + t = n + c + 1 /\ HeadAt(V, N) = n + (c + l + 1) /\ t \in Int
  BY <1>7, <1>8a, <1>8b, Zenon
<1> QED
  BY <1>3, <1>8, Zenon DEF s, l, t

\* The log with the new write.
LEMMA LogStep ==
    ASSUME NEW W, NEW n \in Nat, LogOK(W, n), NEW e, NEW V, NEW N, NextLog(W, n, e, V, N),
           NEW k \in Nat, n <= k, HeadAt(V, N) <= k
    PROVE  LogOK(V, k)
<1>1. /\ Continues(W, V) /\ V \in Seq(LogEntry) /\ Len(V) = N /\ N \in 1 .. Len(V)
      /\ V[N] = e
      /\ Start(V, N) = e.start /\ RecLen(V, N) = e.shape.len
      /\ End(V, N) = e.start + e.shape.len
      /\ Prev(V, N) = End(W, Len(W))
      /\ Oldest(V, N) = e.oldest
      /\ Prev(V, N) \in Nat /\ Prev(V, N) <= e.start /\ e.start \in Nat /\ e.oldest \in Nat
  <2>1. EntryAdded(W, n, e, V, N)
    BY NewWrite, Zenon
  <2> QED
    BY <2>1, Zenon DEF EntryAdded
<1>2. HeadAt(V, N) <= k /\ Len(W) \in Nat /\ N = Len(W) + 1
  BY LogTypes, Zenon DEF NextLog
<1>3. ASSUME NEW w \in 1 .. Len(V), w # N PROVE w \in 1 .. Len(W)
  BY <1>1, <1>2, <1>3
<1>4. ASSUME NEW w \in 1 .. Len(V)
      PROVE  /\ Start(V, w) = StartAbs(Prev(V, w), RecLen(V, w))
             /\ End(V, w) <= Oldest(V, w) + Capacity
             /\ Oldest(V, w) <= Start(V, w)
             /\ \E r \in 1 .. w : Oldest(V, w) = Start(V, r)
             /\ HeadAt(V, w) <= k
  <2>1. CASE w = N
    <3>1. \E r \in 1 .. N : Oldest(V, N) = Start(V, r)
      <4>1. CASE e.oldest = e.start
        BY <1>1, <4>1, Zenon
      <4>2. CASE \E r \in 1 .. Len(W) : e.oldest = Start(W, r)
        <5>1. PICK r \in 1 .. Len(W) : e.oldest = Start(W, r)
          BY <4>2, Zenon
        <5>2. Start(V, r) = Start(W, r)
          BY <1>1, <5>1, SameLog, Zenon
        <5>3. r \in 1 .. N
          BY <1>2
        <5> QED
          BY <1>1, <5>1, <5>2, <5>3, Zenon
      <4> QED
        BY <4>1, <4>2, Zenon DEF Follows, NextLog
    <3> QED
      BY <1>1, <1>2, <2>1, <3>1, Zenon DEF Follows, NextLog
  <2>2. CASE w # N
    <3>1. w \in 1 .. Len(W) /\ w \in Writes(W)
      BY <1>3, <2>2, LogTypes, Zenon
    <3>2. /\ Start(V, w) = Start(W, w) /\ RecLen(V, w) = RecLen(W, w)
          /\ Prev(V, w) = Prev(W, w) /\ End(V, w) = End(W, w)
          /\ Oldest(V, w) = Oldest(W, w) /\ HeadAt(V, w) = HeadAt(W, w)
      BY <1>1, <3>1, SameLog
    <3>3. /\ Start(W, w) = StartAbs(Prev(W, w), RecLen(W, w))
          /\ End(W, w) <= Oldest(W, w) + Capacity
          /\ Oldest(W, w) <= Start(W, w)
          /\ HeadAt(W, w) <= n
      BY <3>1, Zenon DEF LogOK
    <3>4. PICK r \in 1 .. w : Oldest(W, w) = Start(W, r)
      BY <3>1, Zenon DEF LogOK
    <3>5. Start(V, r) = Start(W, r)
      <4>1. r \in 1 .. Len(W)
        BY <1>2, <3>1
      <4> QED
        BY <1>1, <4>1, SameLog, Zenon
    <3>6. HeadAt(W, w) \in Nat
      BY <3>1, LogTypes, Zenon
    <3> QED
      BY <3>2, <3>3, <3>4, <3>5, <3>6
  <2> QED
    BY <2>1, <2>2, Zenon
<1>5. ASSUME NEW v \in 1 .. Len(V), NEW w \in 1 .. Len(V), v < w
      PROVE  /\ End(V, v) <= Start(V, w)
             /\ Oldest(V, v) <= Oldest(V, w)
             /\ HeadAt(V, v) <= V[w].at
  <2>1. v \in 1 .. Len(W)
    BY <1>1, <1>2, <1>5
  <2>2. /\ End(V, v) = End(W, v) /\ Oldest(V, v) = Oldest(W, v)
        /\ HeadAt(V, v) = HeadAt(W, v) /\ v \in Writes(W) /\ v \in Nat
        /\ End(W, v) \in Nat /\ Oldest(W, v) \in Nat
    <3>1. v \in Writes(W) /\ v \in Nat
      BY <2>1, LogTypes, Zenon
    <3> QED
      BY <1>1, <3>1, SameLog, LogTypes
  <2>3. CASE w = N
    <3>1. v <= Len(W) /\ Len(W) \in Writes(W)
      BY <1>2, <2>1 DEF Writes
    <3>2. End(W, v) <= End(W, Len(W)) /\ Oldest(W, v) <= Oldest(W, Len(W))
      <4>1. CASE v = Len(W)
        BY <2>2, <4>1
      <4>2. CASE v < Len(W)
        <5>1. v \in Writes(W) /\ Len(W) \in Writes(W)
          BY <2>2, <3>1, Zenon
        <5>2. End(W, v) < End(W, Len(W)) /\ Oldest(W, v) <= Oldest(W, Len(W))
          BY <4>2, <5>1, LogOrder, Zenon
        <5>3. End(W, v) \in Nat /\ End(W, Len(W)) \in Nat
          BY <5>1, LogTypes, Zenon
        <5> QED
          BY <5>2, <5>3
      <4> QED
        BY <1>2, <2>2, <3>1, <4>1, <4>2
    <3>3. HeadAt(W, v) <= n /\ e.at = n /\ Oldest(W, Len(W)) <= e.oldest
      BY <2>1, Zenon DEF LogOK, Follows, NextLog
    <3>4. Oldest(W, Len(W)) \in Nat
      BY <3>1, LogTypes, Zenon
    <3> QED
      BY <1>1, <2>2, <2>3, <3>2, <3>3, <3>4
  <2>4. CASE w # N
    <3>1. w \in 1 .. Len(W) /\ w \in Writes(W)
      BY <1>3, <2>4, LogTypes, Zenon
    <3>2. /\ Start(V, w) = Start(W, w) /\ Oldest(V, w) = Oldest(W, w) /\ V[w] = W[w]
      BY <1>1, <3>1, SameLog
    <3> QED
      BY <1>5, <2>1, <2>2, <3>1, <3>2, Zenon DEF LogOK
  <2> QED
    BY <2>3, <2>4, Zenon
<1>6. Covered(V)
  <2> SUFFICES ASSUME NEW h \in Writes(V), NEW a \in Nat, a < End(V, h)
               PROVE  \E w \in 1 .. h : Prev(V, w) <= a /\ a < End(V, w)
    BY Zenon DEF Covered
  <2>1. ASSUME NEW g \in Writes(W), a < End(V, g), g <= h
        PROVE  \E w \in 1 .. h : Prev(V, w) <= a /\ a < End(V, w)
    <3>1. g \in Nat /\ g <= Len(W) /\ h \in Nat
      BY <1>1 DEF Writes
    <3>2. a < End(W, g)
      BY <1>1, <2>1, SameLog, Zenon
    <3>3. PICK w \in 1 .. g : Prev(W, w) <= a /\ a < End(W, w)
      BY <3>2, Zenon DEF LogOK, Covered
    <3>4. w \in 1 .. Len(W) /\ w \in Writes(W) /\ w \in 1 .. h
      BY <1>2, <2>1 DEF Writes
    <3>5. Prev(V, w) = Prev(W, w) /\ End(V, w) = End(W, w)
      BY <1>1, <3>4, SameLog, Zenon
    <3> QED
      BY <3>3, <3>4, <3>5, Zenon
  <2>2. CASE h # N
    <3>1. h \in Writes(W) /\ h <= h
      BY <1>1, <1>2, <2>2 DEF Writes
    <3> QED
      BY <2>1, <3>1, Zenon
  <2>3. CASE h = N /\ Prev(V, N) <= a
    BY <1>1, <1>2, <2>3, Zenon
  <2>4. CASE h = N /\ ~(Prev(V, N) <= a)
    <3>1. Len(W) \in Writes(W) /\ Len(W) <= h /\ End(V, Len(W)) = End(W, Len(W))
      BY <1>1, <1>2, <2>4, SameLog DEF Writes
    <3>2. a < End(V, Len(W))
      BY <1>1, <2>4, <3>1
    <3> QED
      BY <2>1, <3>1, <3>2, Zenon
  <2> QED
    BY <2>2, <2>3, <2>4, Zenon
<1> QED
  BY <1>1, <1>4, <1>5, <1>6, Zenon DEF LogOK

-----------------------------------------------------------------------------
(* The spans of the retained records.                                       *)

\* The producer's head is the end of the log it has left in memory.
ProducerOK == WriterOK(written) /\ head_abs = End(written, Len(written))

Span == [start : Nat, end : Nat]

\* The spans are those of records of the log, oldest first, from the one at OldestAbs.
SpansOK(S, W) ==
    /\ S \in Seq(Span)
    /\ \A i \in 1 .. Len(S) : \E r \in 1 .. Len(W) : S[i].start = Start(W, r)
    /\ \A i, j \in 1 .. Len(S) : i < j => S[i].start <= S[j].start
    /\ Len(W) > 0 => Len(S) > 0 /\ S[1].start = Oldest(W, Len(W))
    /\ Len(W) = 0 => Len(S) = 0

\* What KeptSpans leaves: the spans after the first n, none below the floor at their head.
LEMMA KeptFacts ==
    ASSUME spans \in Seq(Span), NEW final, NEW kept \in KeptSpans(final)
    PROVE  \E n \in 0 .. Len(spans) :
              /\ kept \in Seq(Span)
              /\ Len(kept) = Len(spans) - n
              /\ \A i \in 1 .. (Len(spans) - n) : kept[i] = spans[n + i]
              /\ n < Len(spans) => spans[n + 1].start >= RetentionFloor(final)
<1>1. PICK n \in 0 .. Len(spans) : /\ IsEvictCount(RetentionFloor(final), n)
                                  /\ kept = SubSeq(spans, n + 1, Len(spans))
  BY DEF KeptSpans
<1> DEFINE m == n + 1
<1>2. /\ Len(spans) \in Nat /\ m \in 1 .. Len(spans) + 1 /\ n \in Nat
      /\ Len(spans) - n \in Nat
  BY <1>1
<1>3. /\ SubSeq(spans, m, Len(spans)) \in Seq(Span)
      /\ Len(SubSeq(spans, m, Len(spans))) = Len(spans) - m + 1
      /\ \A i \in 1 .. (Len(spans) - m + 1) :
            SubSeq(spans, m, Len(spans))[i] = spans[m + i - 1]
  BY <1>2
<1>4. /\ kept \in Seq(Span) /\ Len(kept) = Len(spans) - n
      /\ \A i \in 1 .. (Len(spans) - n) : kept[i] = spans[n + i]
  BY <1>1, <1>2, <1>3
<1> QED
  BY <1>1, <1>4 DEF IsEvictCount

\* kept is S without some first elements.
IsTail(kept, S) ==
    /\ kept \in Seq(Span)
    /\ \E k \in Nat : \A i \in 1 .. Len(kept) : i + k \in 1 .. Len(S) /\ kept[i] = S[i + k]

\* append_bytes_core logs e.
IsEntry(e, kept, start, shape) ==
    /\ start = StartAbs(head_abs, shape.len)
    /\ kept \in KeptSpans(start + shape.len)
    /\ e = [start |-> start, shape |-> shape, oldest |-> OldestKept(kept, start), at |-> stores]

\* append_bytes_core may log its record: OldestAbs moves to the oldest span that the
\* record leaves alone, or to the record itself.
LEMMA NewEntry ==
    ASSUME ProducerOK, SpansOK(spans, written), NEW shape \in Shape,
           NEW start, NEW kept, NEW e, IsEntry(e, kept, start, shape)
    PROVE  Follows(written, e, stores) /\ IsTail(kept, spans)
<1>0. /\ start = StartAbs(head_abs, shape.len)
      /\ kept \in KeptSpans(start + shape.len)
      /\ e = [start |-> start, shape |-> shape, oldest |-> OldestKept(kept, start),
              at |-> stores]
  BY DEF IsEntry
<1>1. /\ stores \in Nat /\ LogOK(written, stores) /\ head_abs = End(written, Len(written))
      /\ spans \in Seq(Span)
  BY DEF ProducerOK, WriterOK, SpansOK
<1>2. Len(written) \in Nat /\ Len(written) \in Writes(written) /\ head_abs \in Nat
  <2>1. Len(written) \in Nat
    BY <1>1
  <2>2. Len(written) \in Writes(written)
    BY DEF Writes
  <2> QED
    BY <1>1, <2>1, <2>2, LogTypes
<1> DEFINE L == shape.len
<1>3. L \in Nat /\ L <= Capacity /\ Capacity \in Nat
  BY ConcurrentAssumption, GeometryAssumption
<1>4. start \in Nat /\ head_abs <= start
  BY <1>0, <1>2, <1>3, StartAbsProperties, Zenon
<1> DEFINE final == start + L
<1>5. final \in Nat
  BY <1>3, <1>4
<1>6. PICK n \in 0 .. Len(spans) :
              /\ kept \in Seq(Span)
              /\ Len(kept) = Len(spans) - n
              /\ \A i \in 1 .. (Len(spans) - n) : kept[i] = spans[n + i]
              /\ n < Len(spans) => spans[n + 1].start >= RetentionFloor(final)
  BY <1>0, <1>1, <1>5, KeptFacts, SMTT(30)
<1>7. Len(spans) \in Nat /\ n \in Nat /\ n <= Len(spans)
  BY <1>1
<1>8. \A i \in 1 .. Len(kept) : i + n \in 1 .. Len(spans) /\ kept[i] = spans[i + n]
  BY <1>6
<1> DEFINE oldest == OldestKept(kept, start)
<1>9. /\ oldest \in Nat /\ final <= oldest + Capacity
      /\ Oldest(written, Len(written)) <= oldest /\ oldest <= start
      /\ oldest = start \/ \E r \in 1 .. Len(written) : oldest = Start(written, r)
  <2>0. Oldest(written, Len(written)) <= head_abs /\ Oldest(written, Len(written)) \in Nat
    <3>1. CASE Len(written) = 0
      BY <1>2, <3>1 DEF Oldest
    <3>2. CASE Len(written) # 0
      <4> DEFINE N == Len(written)
      <4>1. N \in 1 .. Len(written)
        BY <1>2, <3>2
      <4>2. Oldest(written, N) <= Start(written, N) /\ Start(written, N) < End(written, N)
        BY <1>1, <4>1, LogOrder, Zenon DEF LogOK
      <4>3. Oldest(written, N) \in Nat /\ Start(written, N) \in Nat /\ End(written, N) \in Nat
        BY <1>1, <1>2, <4>1, LogTypes, Zenon
      <4> QED
        BY <1>1, <4>2, <4>3
    <3> QED
      BY <3>1, <3>2
  <2>1. CASE kept = <<>>
    <3>1. oldest = start
      BY <2>1 DEF OldestKept
    <3> QED
      BY <1>2, <1>3, <1>4, <2>0, <3>1
  <2>2. CASE kept # <<>>
    <3>1. Len(kept) > 0 /\ n < Len(spans) /\ 1 \in 1 .. Len(kept)
      BY <1>6, <1>7, <2>2
    <3>2. oldest = kept[1].start /\ kept[1] = spans[1 + n] /\ 1 + n \in 1 .. Len(spans)
      BY <1>8, <2>2 DEF OldestKept
    <3>3. spans[1 + n] \in Span /\ spans[1] \in Span /\ 1 \in 1 .. Len(spans)
      <4>1. 1 \in 1 .. Len(spans)
        BY <1>7, <3>1
      <4> QED
        BY <1>1, <3>2, <4>1
    <3>4. oldest \in Nat /\ spans[1].start \in Nat /\ oldest = spans[1 + n].start
      BY <3>2, <3>3 DEF Span
    <3>5. oldest >= RetentionFloor(final)
      <4>1. 1 + n = n + 1
        OBVIOUS
      <4> QED
        BY <1>6, <3>1, <3>2
    <3>6. final <= oldest + Capacity
      BY <1>3, <1>5, <3>4, <3>5, SMTT(30) DEF RetentionFloor
    <3>7. PICK r \in 1 .. Len(written) : oldest = Start(written, r)
      BY <3>2 DEF SpansOK
    <3>8. oldest <= start
      <4>1. /\ Start(written, r) < End(written, r) /\ End(written, r) \in Nat
            /\ r \in Writes(written) /\ Start(written, r) \in Nat
        BY <1>1, LogTypes, LogOrder
      <4>2. End(written, r) <= head_abs
        <5>1. CASE r = Len(written)
          BY <1>1, <4>1, <5>1
        <5>2. CASE r < Len(written)
          BY <1>1, <1>2, <4>1, <5>2, LogOrder
        <5> QED
          BY <1>2, <5>1, <5>2
      <4> QED
        BY <1>2, <1>4, <3>7, <4>1, <4>2
    <3>9. Oldest(written, Len(written)) <= oldest
      <4>1. Len(written) > 0
        BY <1>2
      <4>2. spans[1].start = Oldest(written, Len(written))
        BY DEF SpansOK
      <4>3. spans[1].start <= spans[1 + n].start
        <5>1. CASE n = 0
          BY <3>4, <5>1
        <5>2. CASE n # 0
          <6>1. 1 < 1 + n
            BY <1>7, <5>2
          <6> QED
            BY <3>2, <3>3, <6>1 DEF SpansOK
        <5> QED
          BY <5>1, <5>2
      <4> QED
        BY <3>4, <4>2, <4>3
    <3> QED
      BY <3>4, <3>6, <3>7, <3>8, <3>9
  <2> QED
    BY <2>1, <2>2
<1>10. /\ e.start = start /\ e.shape = shape /\ e.oldest = oldest /\ e.at = stores
       /\ e \in LogEntry
  BY <1>0, <1>1, <1>4, <1>9 DEF LogEntry
<1> HIDE DEF oldest
<1>11. Follows(written, e, stores)
  BY <1>0, <1>1, <1>9, <1>10 DEF Follows
<1> QED
  BY <1>6, <1>7, <1>8, <1>11, Zenon DEF IsTail

\* The spans with the new record's.
LEMMA SpansStep ==
    ASSUME NEW W, NEW n \in Nat, LogOK(W, n), NEW S, SpansOK(S, W),
           NEW e, NEW V, NEW N, NextLog(W, n, e, V, N),
           NEW kept, IsTail(kept, S), e.oldest = OldestKept(kept, e.start),
           NEW final, final \in Nat
    PROVE  SpansOK(Append(kept, [start |-> e.start, end |-> final]), V)
<1> DEFINE new == [start |-> e.start, end |-> final]
           T == Append(kept, new)
           K == Len(kept)
<1>0. PICK k \in Nat :
        \A i \in 1 .. Len(kept) : i + k \in 1 .. Len(S) /\ kept[i] = S[i + k]
  BY Zenon DEF IsTail
<1>1. /\ Continues(W, V) /\ Len(V) = N /\ N \in 1 .. Len(V) /\ N \in Nat
      /\ Start(V, N) = e.start /\ Prev(V, N) = End(W, Len(W))
      /\ Oldest(V, N) = e.oldest
      /\ Prev(V, N) \in Nat /\ Prev(V, N) <= e.start /\ e.start \in Nat
  <2>1. EntryAdded(W, n, e, V, N)
    BY NewWrite, Zenon
  <2> QED
    BY <2>1, Zenon DEF EntryAdded
<1>2. Len(W) \in Nat /\ Len(W) \in Writes(W) /\ N = Len(W) + 1
  <2>1. Len(W) \in Nat
    OBVIOUS
  <2> QED
    BY DEF Writes, NextLog
<1>3. new \in Span /\ new.start = e.start
  BY <1>1 DEF Span
<1> HIDE DEF new
<1>4. /\ T \in Seq(Span) /\ Len(T) = K + 1 /\ K \in Nat
      /\ \A i \in 1 .. K : T[i] = kept[i]
      /\ T[K + 1] = new
  BY <1>3 DEF IsTail
<1> HIDE DEF T
<1>5. ASSUME NEW i \in 1 .. K
      PROVE  /\ i + k \in 1 .. Len(S) /\ T[i] = S[i + k] /\ T[i].start \in Nat
             /\ \E r \in 1 .. Len(W) : T[i].start = Start(W, r)
             /\ T[i].start <= e.start
  <2>1. i + k \in 1 .. Len(S) /\ T[i] = S[i + k]
    BY <1>0, <1>4
  <2>2. PICK r \in 1 .. Len(W) : S[i + k].start = Start(W, r)
    BY <2>1, SMTT(30) DEF SpansOK
  <2>3. /\ Start(W, r) \in Nat /\ Start(W, r) < End(W, r) /\ r \in Writes(W)
        /\ End(W, r) \in Nat
    BY LogTypes, LogOrder
  <2>4. End(W, r) <= End(W, Len(W))
    <3>1. CASE r = Len(W)
      BY <2>3, <3>1
    <3>2. CASE r < Len(W)
      <4>1. End(W, r) < End(W, Len(W)) /\ End(W, Len(W)) \in Nat
        BY <1>2, <2>3, <3>2, LogOrder, LogTypes, SMTT(30)
      <4> QED
        BY <2>3, <4>1
    <3> QED
      BY <1>2, <3>1, <3>2
  <2> QED
    BY <1>1, <2>1, <2>2, <2>3, <2>4
<1>6. ASSUME NEW i \in 1 .. Len(T) PROVE \E r \in 1 .. Len(V) : T[i].start = Start(V, r)
  <2>1. CASE i \in 1 .. K
    <3>1. PICK r \in 1 .. Len(W) : T[i].start = Start(W, r)
      BY <1>5, <2>1
    <3>2. r \in 1 .. Len(V) /\ Start(V, r) = Start(W, r)
      BY <1>1, SameLog
    <3> QED
      BY <3>1, <3>2
  <2>2. CASE i = K + 1
    BY <1>1, <1>3, <1>4, <2>2
  <2> QED
    BY <1>4, <2>1, <2>2
<1>7. ASSUME NEW i \in 1 .. Len(T), NEW j \in 1 .. Len(T), i < j
      PROVE  T[i].start <= T[j].start
  <2>1. i \in 1 .. K
    BY <1>4, <1>7
  <2>2. CASE j = K + 1
    BY <1>3, <1>4, <1>5, <2>1, <2>2
  <2>3. CASE j # K + 1
    <3>1. j \in 1 .. K
      BY <1>4, <2>3
    <3>2. i + k < j + k
      BY <1>7
    <3> QED
      BY <1>5, <2>1, <3>1, <3>2, Zenon DEF SpansOK
  <2> QED
    BY <2>2, <2>3
<1>8. Len(T) > 0 /\ T[1].start = Oldest(V, Len(V))
  <2>1. CASE kept = <<>>
    <3>1. K = 0 /\ e.oldest = e.start
      BY <2>1 DEF OldestKept
    <3> QED
      BY <1>1, <1>3, <1>4, <3>1
  <2>2. CASE kept # <<>>
    <3>1. 1 \in 1 .. K /\ e.oldest = kept[1].start
      BY <1>4, <2>2 DEF OldestKept
    <3> QED
      BY <1>1, <1>4, <3>1
  <2> QED
    BY <2>1, <2>2
<1>9. Len(V) # 0
  BY <1>1
<1> QED
  BY <1>4, <1>6, <1>7, <1>8, <1>9, SMTT(30) DEF SpansOK, T, new
     ----------------------------------------------------------------------------- (*
     The program of append_bytes_core.                                        *)

\* Where the elements of two joined sequences are.
LEMMA Joined ==
    ASSUME NEW S, NEW s \in Seq(S), NEW t \in Seq(S), NEW a, NEW b, Len(s) = a, Len(t) = b
    PROVE  /\ s \o t \in Seq(S)
           /\ Len(s \o t) = a + b
           /\ a \in Nat /\ b \in Nat
           /\ \A i \in 1 .. a : (s \o t)[i] = s[i]
           /\ \A i \in 1 .. b : (s \o t)[a + i] = t[i]
<1>1. /\ s \o t \in Seq(S) /\ Len(s \o t) = a + b
      /\ \A i \in 1 .. a + b : (s \o t)[i] = IF i <= a THEN s[i] ELSE t[i - a]
  OBVIOUS
<1>2. a \in Nat /\ b \in Nat
  OBVIOUS
<1>3. ASSUME NEW i \in 1 .. b PROVE (s \o t)[a + i] = t[i]
  <2>1. a + i \in 1 .. a + b /\ ~(a + i <= a) /\ (a + i) - a = i
    OBVIOUS
  <2> QED
    BY <1>1, <2>1, Zenon
<1>4. ASSUME NEW i \in 1 .. a PROVE (s \o t)[i] = s[i]
  <2>1. i \in 1 .. a + b /\ i <= a
    OBVIOUS
  <2> QED
    BY <1>1, <2>1, Zenon
<1> QED
  BY <1>1, <1>2, <1>3, <1>4, Zenon

\* Two one-element sequences joined.
LEMMA TwoInstructions ==
    ASSUME NEW x, NEW y
    PROVE  <<x>> \o <<y>> = <<x, y>>
<1>1. <<x>> \in Seq({x, y}) /\ <<y>> \in Seq({x, y}) /\ <<x, y>> \in Seq({x, y})
  OBVIOUS
<1>2. /\ <<x>> \o <<y>> \in Seq({x, y}) /\ Len(<<x>> \o <<y>>) = 2
      /\ (<<x>> \o <<y>>)[1] = x /\ (<<x>> \o <<y>>)[2] = y
  BY <1>1
<1>3. \A i \in 1 .. 2 : (<<x>> \o <<y>>)[i] = <<x, y>>[i]
  OBVIOUS
<1> QED
  BY <1>1, <1>2, <1>3, SameSeq, Zenon

Program(kept, start, shape) ==
    begin_control_update
    \o evict_before_clobber(kept, start)
    \o WrapMarker(start)
    \o RecordCells(Len(written) + 1, shape, start)
    \o <<Mem!Release(HeadAbs, start + shape.len)>>
    \o end_control_update_release

\* Number of instructions before the first cell.
Preamble(start) == Opening + Fencing + (IF start # head_abs THEN 1 ELSE 0)

\* P writes a record of L cells at start after c other instructions: the store to
\* OldestAbs, the fence, the marker, the cells, the store to HeadAbs; the others are
\* fences or concern the sequence lock.
IsProgram(P, c, L, kept, start, shape) ==
    /\ start \in Nat /\ shape \in Shape
    /\ Len(P) \in Nat /\ DOMAIN P = 1 .. Len(P)
    /\ c = Preamble(start) /\ L = shape.len
    /\ c \in Nat /\ L \in Nat /\ c + L + 1 <= Len(P)
    /\ P[Opening] = Mem!Relaxed(OldestAbs, OldestKept(kept, start))
    /\ Fenced => P[Opening + 1] = Mem!ReleaseFence
    /\ start # head_abs => P[c] = Mem!Relaxed(ByteAt(Phys(head_abs)), ZeroCell)
    /\ \A k \in 1 .. L : P[c + k] = Mem!Relaxed(ByteAt(Phys(start) + k - 1),
                                                CellOf(Len(written) + 1, shape, k - 1))
    /\ P[c + L + 1] = Mem!Release(HeadAbs, start + L)
    /\ \A i \in 1 .. Len(P) :
        \/ i = Opening
        \/ start # head_abs /\ i = c
        \/ \E k \in 1 .. L : i = c + k
        \/ i = c + L + 1
        \/ P[i].op = "fence" /\ (Store = "shared" \/ i = Opening + 1)
        \/ P[i].op \in {"rmw", "release"} /\ P[i].loc = SeqLock /\ Store = "shared"

\* append_bytes_core executes such a program.
LEMMA ProgramShape ==
    ASSUME NEW kept, NEW start \in Nat, NEW shape \in Shape
    PROVE  IsProgram(Program(kept, start, shape), Preamble(start), shape.len,
                     kept, start, shape)
<1> DEFINE A == begin_control_update
           B == evict_before_clobber(kept, start)
           C == WrapMarker(start)
           D == RecordCells(Len(written) + 1, shape, start)
           E == <<Mem!Release(HeadAbs, start + shape.len)>>
           F == end_control_update_release
           S == UNION {{s[i] : i \in DOMAIN s} : s \in {A, B, C, D, E, F}}
           a == Opening - 1
           b == 1 + Fencing
           m == IF start # head_abs THEN 1 ELSE 0
           L == shape.len
           f == IF Store = "shared" THEN 1 ELSE 0
<1>0. L \in Nat /\ a \in Nat /\ b \in Nat /\ m \in Nat /\ f \in Nat /\ Fencing \in {0, 1}
  BY ConcurrentAssumption DEF Opening, Fencing
<1>1. /\ A \in Seq(S) /\ Len(A) = a
      /\ \A i \in 1 .. a :
            /\ A[i].op = "fence" \/ (A[i].op \in {"rmw", "release"} /\ A[i].loc = SeqLock)
            /\ Store = "shared"
  <2>1. \A i \in DOMAIN A : A[i] \in S
    OBVIOUS
  <2> HIDE DEF S
  <2>2. CASE Store = "shared"
    <3>1. A = <<Mem!RelaxedRMW(SeqLock, 2 * Len(written) + 1), Mem!ReleaseFence>> /\ a = 2
      BY <2>2 DEF begin_control_update, Opening
    <3> HIDE DEF A
    <3>2. Len(A) = 2 /\ DOMAIN A = 1 .. 2
      BY <3>1
    <3>3. A \in Seq(S)
      BY <2>1, <3>1
    <3> QED
      BY <2>2, <3>1, <3>2, <3>3 DEF Mem!RelaxedRMW, Mem!ReleaseFence
  <2>3. CASE Store # "shared"
    <3>1. A = <<>> /\ a = 0
      BY <2>3 DEF begin_control_update, Opening
    <3> QED
      BY <3>1
  <2> QED
    BY <2>2, <2>3, Zenon
<1>2. /\ B \in Seq(S) /\ Len(B) = b
      /\ B[1] = Mem!Relaxed(OldestAbs, OldestKept(kept, start))
      /\ Fenced => B[2] = Mem!ReleaseFence
  <2>1. \A i \in DOMAIN B : B[i] \in S
    OBVIOUS
  <2> HIDE DEF S
  <2>2. CASE Fenced
    <3>1. B = <<Mem!Relaxed(OldestAbs, OldestKept(kept, start)), Mem!ReleaseFence>> /\ b = 2
      <4>1. b = 2 /\ B = <<Mem!Relaxed(OldestAbs, OldestKept(kept, start))>>
                         \o <<Mem!ReleaseFence>>
        BY <2>2 DEF evict_before_clobber, Fencing
      <4> QED
        BY <4>1, TwoInstructions, Zenon
    <3> HIDE DEF B
    <3> QED
      BY <2>1, <3>1
  <2>3. CASE ~Fenced
    <3>1. B = <<Mem!Relaxed(OldestAbs, OldestKept(kept, start))>> /\ b = 1
      BY <2>3 DEF evict_before_clobber, Fencing
    <3> HIDE DEF B
    <3> QED
      BY <2>1, <2>3, <3>1
  <2> QED
    BY <2>2, <2>3, Zenon
<1>3. /\ C \in Seq(S) /\ Len(C) = m
      /\ start # head_abs => C[1] = Mem!Relaxed(ByteAt(Phys(head_abs)), ZeroCell)
  <2>1. \A i \in DOMAIN C : C[i] \in S
    OBVIOUS
  <2> HIDE DEF S
  <2>2. CASE start # head_abs
    <3>1. C = <<Mem!Relaxed(ByteAt(Phys(head_abs)), ZeroCell)>> /\ m = 1
      BY <2>2, Zenon DEF WrapMarker
    <3> HIDE DEF C
    <3> QED
      BY <2>1, <3>1
  <2>3. CASE start = head_abs
    <3>1. C = <<>> /\ m = 0
      BY <2>3, Zenon DEF WrapMarker
    <3> QED
      BY <2>3, <3>1
  <2> QED
    BY <2>2, <2>3, Zenon
<1>4. /\ D \in Seq(S) /\ Len(D) = L
      /\ \A k \in 1 .. L : D[k] = Mem!Relaxed(ByteAt(Phys(start) + k - 1),
                                              CellOf(Len(written) + 1, shape, k - 1))
  <2>1. \A i \in DOMAIN D : D[i] \in S
    OBVIOUS
  <2> HIDE DEF S
  <2>2. D = [i \in 1 .. L |-> Mem!Relaxed(ByteAt(Phys(start) + i - 1),
                                         CellOf(Len(written) + 1, shape, i - 1))]
    BY Zenon DEF RecordCells
  <2>3. DOMAIN D = 1 .. L /\ D = [i \in 1 .. L |-> D[i]]
    BY <2>2, Zenon
  <2>4. \A k \in 1 .. L : D[k] = Mem!Relaxed(ByteAt(Phys(start) + k - 1),
                                              CellOf(Len(written) + 1, shape, k - 1))
    BY <2>2, Zenon
  <2> HIDE DEF D
  <2>5. D \in [1 .. L -> S]
    BY <2>1, <2>3, Zenon
  <2>6. D \in Seq(S) /\ Len(D) = L
    BY <1>0, <2>5
  <2> QED
    BY <2>4, <2>6, Zenon
<1>5. /\ E \in Seq(S) /\ Len(E) = 1
      /\ E[1] = Mem!Release(HeadAbs, start + L)
  <2>1. \A i \in DOMAIN E : E[i] \in S
    OBVIOUS
  <2> HIDE DEF S
  <2> QED
    BY <2>1
<1>6. /\ F \in Seq(S) /\ Len(F) = f
      /\ f = 1 => F[1].op = "release" /\ F[1].loc = SeqLock
  <2>1. \A i \in DOMAIN F : F[i] \in S
    BY Zenon
  <2> HIDE DEF S
  <2>2. CASE Store = "shared"
    <3>1. F = <<Mem!Release(SeqLock, 2 * Len(written) + 2)>> /\ f = 1
      BY <2>2, Zenon DEF end_control_update_release
    <3> HIDE DEF F
    <3> QED
      BY <2>1, <3>1 DEF Mem!Release
  <2>3. CASE Store # "shared"
    <3>1. F = <<>> /\ f = 0
      BY <2>3, Zenon DEF end_control_update_release
    <3> QED
      BY <3>1
  <2> QED
    BY <2>2, <2>3, Zenon
<1> HIDE DEF A, B, C, D, E, F, S
<1> DEFINE P2 == A \o B
           P3 == P2 \o C
           P4 == P3 \o D
           P5 == P4 \o E
           P == P5 \o F
           c == Preamble(start)
<1>7. /\ P2 \in Seq(S) /\ Len(P2) = a + b
      /\ \A i \in 1 .. a : P2[i] = A[i]
      /\ \A i \in 1 .. b : P2[a + i] = B[i]
  BY <1>1, <1>2, Joined
<1> HIDE DEF P2, a, b, m, L, f
<1> DEFINE ab == a + b
           cl == c + L
<1>7a. Len(P2) = ab
  BY <1>7, Zenon
<1> HIDE DEF ab
<1>8. /\ P3 \in Seq(S) /\ Len(P3) = ab + m
      /\ \A i \in 1 .. ab : P3[i] = P2[i]
      /\ \A i \in 1 .. m : P3[ab + i] = C[i]
  BY <1>3, <1>7, <1>7a, SMTT(20)
<1> HIDE DEF P3
<1>9. a + b + m = c /\ a + 1 = Opening /\ b = 1 + Fencing /\ c \in Nat /\ Opening \in Nat
  BY DEF Preamble, Opening, Fencing, a, b, m
<1> HIDE DEF c
<1>9a. Len(P3) = c
  BY <1>8, <1>9, Zenon DEF ab
<1>10. /\ P4 \in Seq(S) /\ Len(P4) = c + L
       /\ \A i \in 1 .. c : P4[i] = P3[i]
       /\ \A i \in 1 .. L : P4[c + i] = D[i]
  <2>1. P3 \in Seq(S) /\ D \in Seq(S) /\ Len(D) = L
    BY <1>4, <1>8, Zenon
  <2> QED
    BY <1>9a, <2>1, Joined, SMTT(60)
<1> HIDE DEF P4
<1>10a. Len(P4) = cl
  BY <1>10, Zenon
<1> HIDE DEF cl
<1>11. /\ P5 \in Seq(S) /\ Len(P5) = cl + 1
       /\ \A i \in 1 .. cl : P5[i] = P4[i]
       /\ \A i \in 1 .. 1 : P5[cl + i] = E[i]
  <2> DEFINE e == 1
  <2>1. E \in Seq(S) /\ Len(E) = e /\ P4 \in Seq(S)
    BY <1>5, <1>10, Zenon
  <2> HIDE DEF e
  <2>2. /\ P5 \in Seq(S) /\ Len(P5) = cl + e
        /\ \A i \in 1 .. cl : P5[i] = P4[i]
        /\ \A i \in 1 .. e : P5[cl + i] = E[i]
    BY <1>10a, <2>1
  <2> QED
    BY <2>2, Zenon DEF e
<1> HIDE DEF P5
<1> DEFINE cl1 == cl + 1
<1>11a. Len(P5) = cl1
  BY <1>11, Zenon
<1> HIDE DEF cl1
<1>12. /\ P \in Seq(S) /\ Len(P) = cl1 + f
       /\ \A i \in 1 .. cl1 : P[i] = P5[i]
       /\ \A i \in 1 .. f : P[cl1 + i] = F[i]
  BY <1>6, <1>11, <1>11a
<1>13. P = Program(kept, start, shape)
  BY Zenon DEF P, P5, P4, P3, P2, A, B, C, D, E, F, Program
<1> HIDE DEF P
<1>14. \A i \in 1 .. c : P[i] = P3[i]
  <2>1. \A i \in 1 .. c : i \in 1 .. cl /\ i \in 1 .. cl1
    BY <1>0, <1>9 DEF ab, cl, cl1
  <2> QED
    BY <1>10, <1>11, <1>12, <2>1, Zenon
<1>15. \A i \in 1 .. ab : P[i] = P2[i] /\ i \in 1 .. c
  <2>1. \A i \in 1 .. ab : i \in 1 .. c
    BY <1>0, <1>9 DEF ab
  <2> QED
    BY <1>8, <1>14, <2>1, Zenon
<1>16. /\ P[Opening] = B[1]
       /\ Fenced => P[Opening + 1] = B[2]
  <2>1. Opening \in 1 .. ab /\ 1 \in 1 .. b /\ Opening = a + 1
    BY <1>0, <1>9 DEF ab, cl, cl1
  <2>2. Fenced => 2 \in 1 .. b /\ Opening + 1 \in 1 .. ab /\ Opening + 1 = a + 2
    BY <1>0, <1>9 DEF Fencing, ab
  <2> QED
    BY <1>7, <1>15, <2>1, <2>2, Zenon
<1>17. start # head_abs => P[c] = C[1] /\ m = 1
  <2>1. start # head_abs => m = 1 /\ c \in 1 .. c /\ c = ab + 1
    BY <1>0, <1>9 DEF m, ab
  <2> QED
    BY <1>8, <1>14, <2>1
<1>18. ASSUME NEW k \in 1 .. L PROVE P[c + k] = D[k]
  <2>1. c + k \in 1 .. cl /\ c + k \in 1 .. cl1
    BY <1>0, <1>9 DEF ab, cl, cl1
  <2> QED
    BY <1>10, <1>11, <1>12, <2>1, Zenon
<1>19. P[c + L + 1] = E[1]
  <2>1. cl1 \in 1 .. cl1 /\ c + L + 1 = cl1 /\ cl1 = cl + 1
    BY <1>0, <1>9 DEF ab, cl, cl1
  <2> QED
    BY <1>11, <1>12, <2>1
<1>20. Store = "shared" => /\ Len(P) = c + L + 2
                           /\ P[Len(P)].op = "release" /\ P[Len(P)].loc = SeqLock
  <2>1. Store = "shared" => f = 1 /\ Len(P) = c + L + 2 /\ Len(P) = cl1 + 1
    BY <1>0, <1>9, <1>12 DEF f, cl, cl1
  <2> QED
    BY <1>6, <1>12, <2>1
<1>21. ASSUME NEW i \in 1 .. Len(P)
       PROVE  \/ i = Opening
              \/ start # head_abs /\ i = c
              \/ \E k \in 1 .. L : i = c + k
              \/ i = c + L + 1
              \/ P[i].op = "fence" /\ (Store = "shared" \/ i = Opening + 1)
              \/ P[i].op \in {"rmw", "release"} /\ P[i].loc = SeqLock /\ Store = "shared"
  <2>1. CASE i \in 1 .. a
    <3>1. i \in 1 .. ab
      BY <1>0, <2>1 DEF ab
    <3> QED
      BY <1>1, <1>7, <1>15, <2>1, <3>1, Zenon
  <2>2. CASE i \in (a + 1) .. ab
    <3>1. i = Opening \/ (Fenced /\ i = Opening + 1)
      BY <1>0, <1>9, <2>2 DEF Fencing, ab
    <3>2. Mem!ReleaseFence.op = "fence"
      BY Zenon DEF Mem!ReleaseFence
    <3> QED
      BY <1>2, <1>16, <3>1, <3>2, Zenon
  <2>3. CASE i \in (ab + 1) .. c
    BY <1>0, <1>9, <2>3 DEF m, ab
  <2>4. CASE i \in (c + 1) .. cl
    <3> DEFINE k == i - c
    <3>1. k \in 1 .. L /\ i = c + k
      BY <1>0, <1>9, <2>4 DEF cl, cl1
    <3> QED
      BY <3>1, Zenon
  <2>5. CASE i = c + L + 1
    BY <2>5, Zenon
  <2>6. CASE i = c + L + 2
    <3>1. f = 1 /\ Store = "shared" /\ i = Len(P)
      BY <1>0, <1>9, <1>12, <2>6 DEF f, cl, cl1
    <3> QED
      BY <1>20, <3>1, Zenon
  <2>7. f \in {0, 1}
    BY Zenon DEF f
  <2> QED
    BY <1>0, <1>9, <1>12, <2>1, <2>2, <2>3, <2>4, <2>5, <2>6, <2>7 DEF ab, cl, cl1
<1>22. Len(P) \in Nat /\ DOMAIN P = 1 .. Len(P) /\ c + L + 1 <= Len(P)
  BY <1>0, <1>9, <1>12 DEF cl, cl1
<1>23. P[Opening] = Mem!Relaxed(OldestAbs, OldestKept(kept, start))
  BY <1>2, <1>16, Zenon
<1>24. Fenced => P[Opening + 1] = Mem!ReleaseFence
  BY <1>2, <1>16, Zenon
<1>25. start # head_abs => P[c] = Mem!Relaxed(ByteAt(Phys(head_abs)), ZeroCell)
  BY <1>3, <1>17, Zenon
<1>26. \A k \in 1 .. L : P[c + k] = Mem!Relaxed(ByteAt(Phys(start) + k - 1),
                                                CellOf(Len(written) + 1, shape, k - 1))
  BY <1>4, <1>18, Zenon
<1>27. P[c + L + 1] = Mem!Release(HeadAbs, start + L)
  BY <1>5, <1>19, Zenon
<1>28. c = Preamble(start) /\ L = shape.len
  BY Zenon DEF c, L
<1>29. IsProgram(P, c, L, kept, start, shape)
  BY <1>0, <1>9, <1>21, <1>22, <1>23, <1>24, <1>25, <1>26, <1>27, <1>28, Zenon DEF IsProgram
<1> QED
  BY <1>13, <1>28, <1>29, Zenon

\* The locations that the instructions of the program store to.
StoresOf(P, c, L, start) ==
    /\ Mem!StoresTo(P, HeadAbs) = {c + L + 1}
    /\ Mem!StoresTo(P, OldestAbs) = {Opening}
    /\ \A p, i : i \in Mem!StoresTo(P, ByteAt(p)) <=>
          \/ start # head_abs /\ i = c /\ p = Phys(head_abs)
          \/ \E k \in 1 .. L : i = c + k /\ p = Phys(start) + k - 1
    /\ Mem!StoresTo(P, SeqLock) # {} => Store = "shared"

\* Which instructions store to a location.
LEMMA ProgramStores ==
    ASSUME NEW kept, NEW start, NEW shape,
           NEW P, NEW c, NEW L, IsProgram(P, c, L, kept, start, shape)
    PROVE  StoresOf(P, c, L, start)
<1>1. /\ Len(P) \in Nat /\ DOMAIN P = 1 .. Len(P)
      /\ c \in Nat /\ L \in Nat /\ c + L + 1 <= Len(P)
  BY Zenon DEF IsProgram
<1>2. P[Opening].op = "relaxed" /\ P[Opening].loc = OldestAbs
  BY DEF IsProgram, Mem!Relaxed
<1>3. start # head_abs => P[c].op = "relaxed" /\ P[c].loc = ByteAt(Phys(head_abs))
  BY DEF IsProgram, Mem!Relaxed
<1>4. ASSUME NEW k \in 1 .. L
      PROVE  P[c + k].op = "relaxed" /\ P[c + k].loc = ByteAt(Phys(start) + k - 1)
  <2>1. P[c + k] = Mem!Relaxed(ByteAt(Phys(start) + k - 1), CellOf(Len(written) + 1, shape, k - 1))
    BY Zenon DEF IsProgram
  <2> QED
    BY <2>1 DEF Mem!Relaxed
<1>5. P[c + L + 1].op = "release" /\ P[c + L + 1].loc = HeadAbs
  BY DEF IsProgram, Mem!Release
<1>6. \A i \in 1 .. Len(P) :
        \/ i = Opening
        \/ start # head_abs /\ i = c
        \/ \E k \in 1 .. L : i = c + k
        \/ i = c + L + 1
        \/ P[i].op = "fence"
        \/ P[i].loc = SeqLock /\ Store = "shared"
  BY Zenon DEF IsProgram
<1>7. /\ Opening \in 1 .. Len(P) /\ c + L + 1 \in 1 .. Len(P)
      /\ start # head_abs => c \in 1 .. Len(P)
      /\ \A k \in 1 .. L : c + k \in 1 .. Len(P)
  <2>1. Opening \in Nat /\ Opening >= 1 /\ Fencing \in Nat
    BY DEF Opening, Fencing
  <2>2. c >= Opening
    BY <2>1, SMTT(30) DEF Preamble, IsProgram
  <2> QED
    BY <1>1, <2>1, <2>2
<1>8. Mem!StoresTo(P, HeadAbs) = {c + L + 1}
  <2>1. c + L + 1 \in Mem!StoresTo(P, HeadAbs)
    BY <1>1, <1>5, <1>7, Zenon DEF Mem!StoresTo
  <2>2. ASSUME NEW i \in Mem!StoresTo(P, HeadAbs) PROVE i = c + L + 1
    <3>1. i \in 1 .. Len(P) /\ P[i].op # "fence" /\ P[i].loc = HeadAbs
      BY <1>1, Zenon DEF Mem!StoresTo
    <3> QED
      BY <1>2, <1>3, <1>4, <1>6, <3>1, Locations
  <2> QED
    BY <2>1, <2>2, Zenon
<1>9. Mem!StoresTo(P, OldestAbs) = {Opening}
  <2>1. Opening \in Mem!StoresTo(P, OldestAbs)
    BY <1>1, <1>2, <1>7, Zenon DEF Mem!StoresTo
  <2>2. ASSUME NEW i \in Mem!StoresTo(P, OldestAbs) PROVE i = Opening
    <3>1. i \in 1 .. Len(P) /\ P[i].op # "fence" /\ P[i].loc = OldestAbs
      BY <1>1, Zenon DEF Mem!StoresTo
    <3> QED
      BY <1>3, <1>4, <1>5, <1>6, <3>1, Locations, SMTT(30)
  <2> QED
    BY <2>1, <2>2, Zenon
<1>10. ASSUME NEW i \in Mem!StoresTo(P, SeqLock) PROVE Store = "shared"
  <2>1. i \in 1 .. Len(P) /\ P[i].op # "fence" /\ P[i].loc = SeqLock
    BY <1>1, Zenon DEF Mem!StoresTo
  <2> QED
    BY <1>2, <1>3, <1>4, <1>5, <1>6, <2>1, Locations
<1>11. ASSUME NEW p, NEW i \in Mem!StoresTo(P, ByteAt(p))
       PROVE  \/ start # head_abs /\ i = c /\ p = Phys(head_abs)
              \/ \E k \in 1 .. L : i = c + k /\ p = Phys(start) + k - 1
  <2>1. i \in 1 .. Len(P) /\ P[i].op # "fence" /\ P[i].loc = ByteAt(p)
    BY <1>1, Zenon DEF Mem!StoresTo
  <2>2. P[i].loc # OldestAbs /\ P[i].loc # HeadAbs /\ P[i].loc # SeqLock
    BY <2>1, Locations, Zenon
  <2>3. (start # head_abs /\ i = c) \/ \E k \in 1 .. L : i = c + k
    BY <1>2, <1>5, <1>6, <2>1, <2>2, Zenon
  <2>4. ASSUME start # head_abs, i = c PROVE p = Phys(head_abs)
    BY <1>3, <2>1, <2>4, Locations, Zenon
  <2>5. ASSUME NEW k \in 1 .. L, i = c + k PROVE p = Phys(start) + k - 1
    BY <1>4, <2>1, <2>5, Locations, Zenon
  <2> QED
    BY <2>3, <2>4, <2>5, Zenon
<1>12. ASSUME start # head_abs PROVE c \in Mem!StoresTo(P, ByteAt(Phys(head_abs)))
  BY <1>1, <1>3, <1>7, <1>12, Zenon DEF Mem!StoresTo
<1>13. ASSUME NEW k \in 1 .. L PROVE c + k \in Mem!StoresTo(P, ByteAt(Phys(start) + k - 1))
  BY <1>1, <1>4, <1>7, Zenon DEF Mem!StoresTo
<1>14. \A p, i : i \in Mem!StoresTo(P, ByteAt(p)) <=>
          \/ start # head_abs /\ i = c /\ p = Phys(head_abs)
          \/ \E k \in 1 .. L : i = c + k /\ p = Phys(start) + k - 1
  BY <1>11, <1>12, <1>13, Zenon
<1> QED
  BY <1>8, <1>9, <1>10, <1>14, Zenon DEF StoresOf

\* The fence of evict_before_clobber is the only one of an owned store's program.
LEMMA FenceFacts ==
    ASSUME stores \in Nat, FenceType, Ordered, Ordering # "x86",
           NEW kept, NEW start, NEW shape,
           NEW P, NEW c, NEW L, IsProgram(P, c, L, kept, start, shape),
           NEW i \in 1 .. Len(P) + 1
    PROVE  /\ Mem!FenceBefore(P, i) \in Nat
           /\ i > Opening + 1 => Mem!FenceBefore(P, i) >= stores + Opening
<1> DEFINE fences == {j \in 1 .. (i - 1) : P[j].op = "fence"}
<1>1. Store # "shared" /\ Fenced /\ fenced \in Nat /\ Opening \in Nat
  BY Zenon DEF Ordered, FenceType, Opening
<1>2. /\ Len(P) \in Nat /\ c \in Nat /\ L \in Nat /\ P[Opening + 1].op = "fence"
      /\ P[Opening].op # "fence" /\ P[c + L + 1].op # "fence"
      /\ start # head_abs => P[c].op # "fence"
  BY <1>1, SMTT(30) DEF IsProgram, Mem!Relaxed, Mem!Release, Mem!ReleaseFence
<1>3. ASSUME NEW k \in 1 .. L PROVE P[c + k].op # "fence"
  <2>1. P[c + k] = Mem!Relaxed(ByteAt(Phys(start) + k - 1), CellOf(Len(written) + 1, shape, k - 1))
    BY Zenon DEF IsProgram
  <2> QED
    BY <2>1 DEF Mem!Relaxed
<1>4. ASSUME NEW j \in 1 .. (i - 1), P[j].op = "fence" PROVE j = Opening + 1
  <2>1. j \in 1 .. Len(P)
    OBVIOUS
  <2>2. \/ j = Opening \/ (start # head_abs /\ j = c) \/ (\E k \in 1 .. L : j = c + k)
        \/ j = c + L + 1 \/ j = Opening + 1
    BY <1>1, <1>4, <2>1, Zenon DEF IsProgram
  <2> QED
    BY <1>2, <1>3, <1>4, <2>2, Zenon
<1>5. CASE i > Opening + 1
  <2>1. Opening + 1 \in 1 .. (i - 1)
    BY <1>1, <1>2, <1>5
  <2>2. fences = {Opening + 1}
    BY <1>2, <1>4, <2>1, Zenon
  <2>3. Mem!FenceBefore(P, i) = stores + Mem!Latest(fences)
    BY <2>2, Zenon DEF Mem!FenceBefore
  <2>4. Mem!Latest({Opening + 1}) = Opening + 1
    <3> DEFINE f == Opening + 1
    <3>1. f \in Nat
      BY <1>1
    <3> HIDE DEF f
    <3>2. Mem!Latest({f}) \in {f}
      <4>1. \E n \in {f} : \A k \in {f} : n >= k
        BY <3>1, SMT
      <4> QED
        BY <4>1, Zenon DEF Mem!Latest
    <3> QED
      BY <3>2, Zenon DEF f
  <2>5. Mem!FenceBefore(P, i) = stores + (Opening + 1)
    BY <2>2, <2>3, <2>4, Zenon
  <2> HIDE DEF fences
  <2> QED
    BY <1>1, <2>5
<1>6. CASE ~(i > Opening + 1)
  <2>1. fences = {}
    BY <1>1, <1>2, <1>4, <1>6, SMTT(30)
  <2> QED
    BY <1>1, <1>6, <2>1, Zenon DEF Mem!FenceBefore
<1> QED
  BY <1>5, <1>6, Zenon

\* What the messages of the program publish.
PublishedBy(P, c, L, start) ==
    /\ Mem!Published(P, c + L + 1) = stores + (c + L + 1)
    /\ Mem!Published(P, Opening) \in Nat
    /\ start # head_abs => /\ Mem!Published(P, c) \in Nat
                           /\ Mem!Published(P, c) >= stores + Opening
    /\ \A k \in 1 .. L : /\ Mem!Published(P, c + k) \in Nat
                         /\ Mem!Published(P, c + k) >= stores + Opening
    /\ \A i \in Mem!StoresTo(P, SeqLock) : Mem!Published(P, i) \in Nat

\* What the program's messages publish: the store to HeadAbs everything before it, and,
\* with the fence or on x86, every cell the store to OldestAbs.
LEMMA ProgramPublishes ==
    ASSUME stores \in Nat, FenceType, Ordered,
           NEW kept, NEW start, NEW shape,
           NEW P, NEW c, NEW L, IsProgram(P, c, L, kept, start, shape)
    PROVE  PublishedBy(P, c, L, start)
<1>1. /\ Len(P) \in Nat /\ DOMAIN P = 1 .. Len(P)
      /\ c \in Nat /\ L \in Nat /\ c + L + 1 <= Len(P)
  BY Zenon DEF IsProgram
<1>2. P[Opening].op = "relaxed"
  BY DEF IsProgram, Mem!Relaxed
<1>3. start # head_abs => P[c].op = "relaxed"
  BY DEF IsProgram, Mem!Relaxed
<1>4. ASSUME NEW k \in 1 .. L PROVE P[c + k].op = "relaxed"
  <2>1. P[c + k] = Mem!Relaxed(ByteAt(Phys(start) + k - 1), CellOf(Len(written) + 1, shape, k - 1))
    BY Zenon DEF IsProgram
  <2> QED
    BY <2>1 DEF Mem!Relaxed
<1>5. P[c + L + 1].op = "release"
  BY DEF IsProgram, Mem!Release
<1>8. /\ Opening \in Nat /\ Opening >= 1
      /\ Fenced => c >= Opening + 1 /\ (start # head_abs => c > Opening + 1)
      /\ start # head_abs => c > Opening
      /\ c >= Opening
  BY SMTT(30) DEF Opening, Fencing, Preamble, IsProgram
<1>9. ASSUME NEW i \in 1 .. Len(P), P[i].op = "relaxed"
      PROVE  /\ Mem!Published(P, i) \in Nat
             /\ i > Opening + Fencing => Mem!Published(P, i) >= stores + Opening
  <2>1. CASE Ordering = "x86"
    <3>1. Mem!Published(P, i) = stores + i
      BY <2>1, Zenon DEF Mem!Published
    <3>2. Fencing \in Nat
      BY Zenon DEF Fencing
    <3> QED
      BY <1>8, <3>1, <3>2
  <2>2. CASE Ordering # "x86"
    <3>1. Mem!Published(P, i) = Mem!FenceBefore(P, i)
      BY <1>9, <2>2, Zenon DEF Mem!Published
    <3>2. Fenced /\ Fencing = 1
      BY <2>2, Zenon DEF Ordered, Fencing
    <3>3. i \in 1 .. Len(P) + 1
      OBVIOUS
    <3>4. /\ Mem!FenceBefore(P, i) \in Nat
          /\ i > Opening + 1 => Mem!FenceBefore(P, i) >= stores + Opening
      BY <2>2, <3>3, FenceFacts, Zenon
    <3> QED
      BY <1>8, <3>1, <3>2, <3>4, Zenon
  <2> QED
    BY <2>1, <2>2, Zenon
<1>10. Mem!Published(P, c + L + 1) = stores + (c + L + 1)
  BY <1>5, Zenon DEF Mem!Published
<1>11. start # head_abs => c > Opening + Fencing
  BY <1>8 DEF Fencing
<1>12. \A k \in 1 .. L : c + k \in 1 .. Len(P) /\ c + k > Opening + Fencing
  BY <1>1, <1>8 DEF Fencing
<1>13. ASSUME NEW i \in Mem!StoresTo(P, SeqLock) PROVE Mem!Published(P, i) \in Nat
  <2>1. i \in Nat /\ Store = "shared"
    <3>1. StoresOf(P, c, L, start)
      BY ProgramStores, Zenon
    <3>2. Store = "shared"
      BY <3>1, Zenon DEF StoresOf
    <3> QED
      BY <1>1, <3>2 DEF Mem!StoresTo
  <2>2. Ordering = "x86"
    BY <2>1, Zenon DEF Ordered
  <2> QED
    BY <2>1, <2>2 DEF Mem!Published
<1>14. start # head_abs => /\ Mem!Published(P, c) \in Nat
                           /\ Mem!Published(P, c) >= stores + Opening
  <2>1. start # head_abs => c \in 1 .. Len(P)
    BY <1>1, <1>8
  <2> QED
    BY <1>3, <1>9, <1>11, <2>1, Zenon
<1>15. \A k \in 1 .. L : /\ Mem!Published(P, c + k) \in Nat
                         /\ Mem!Published(P, c + k) >= stores + Opening
  BY <1>4, <1>9, <1>12, Zenon
<1>16. Mem!Published(P, Opening) \in Nat
  <2>1. Opening \in 1 .. Len(P)
    BY <1>1, <1>8
  <2> QED
    BY <1>2, <1>9, <2>1, Zenon
<1> QED
  BY <1>10, <1>13, <1>14, <1>15, <1>16, Zenon DEF PublishedBy

-----------------------------------------------------------------------------
(* A write adds its messages.                                               *)

\* The program P writes the log entry e of V.
Writing(P, c, L, kept, e, V, N) ==
    /\ NextLog(written, stores, e, V, N)
    /\ e.shape \in Shape
    /\ e.oldest = OldestKept(kept, e.start)
    /\ IsProgram(P, c, L, kept, e.start, e.shape)
    /\ Mem!Execute(P)

\* What is stored to a location is what was there and the program's messages.
LEMMA Executed ==
    ASSUME NEW P, Mem!Execute(P), NEW l \in Location
    PROVE  messages'[l] = messages[l] \cup {Mem!Message(P, i) : i \in Mem!StoresTo(P, l)}
  BY Zenon DEF Mem!Execute

\* What a store stores.
LEMMA StoredValue ==
    ASSUME NEW l, NEW v
    PROVE  Mem!Relaxed(l, v).val = v /\ Mem!Release(l, v).val = v
  BY Zenon DEF Mem!Relaxed, Mem!Release

\* The fields of a message.
LEMMA MessageFields ==
    ASSUME NEW P, NEW i
    PROVE  /\ Mem!Message(P, i).at = stores + i
           /\ Mem!Message(P, i).val = P[i].val
           /\ Mem!Message(P, i).rel = Mem!Published(P, i)
  BY Zenon DEF Mem!Message

\* What a write does to the numbers of the log and of the memory.
WriteFacts(P, c, L, e, V, N) ==
    /\ c \in Nat /\ L \in Nat /\ L = e.shape.len /\ e.start \in Nat
    /\ Opening \in Nat
    /\ e.start + Shift(V, N) = stores + c + 1 /\ Shift(V, N) \in Int
    /\ HeadAt(V, N) = stores + (c + L + 1)
    /\ OldestAt(V, N) = stores + Opening
    /\ Start(V, N) = e.start /\ End(V, N) = e.start + L
    /\ Prev(V, N) = head_abs /\ head_abs \in Nat /\ head_abs <= e.start
    /\ Oldest(V, N) = e.oldest
    /\ Continues(written, V) /\ N \in 1 .. Len(V) /\ N \in Writes(V)
    /\ N = Len(written) + 1 /\ V[N] = e /\ Len(V) = N
    /\ Phys(e.start) + L <= Capacity
    /\ stores' = stores + Len(P) /\ Len(P) \in Nat /\ c + L + 1 <= Len(P)
    /\ FenceType'

\* The parameters of a write.
LEMMA WritingFacts ==
    ASSUME ProducerOK, Ordered,
           NEW P, NEW c, NEW L, NEW kept, NEW e, NEW V, NEW N,
           Writing(P, c, L, kept, e, V, N)
    PROVE  WriteFacts(P, c, L, e, V, N)
<1>1. /\ stores \in Nat /\ FenceType /\ LogOK(written, stores)
      /\ head_abs = End(written, Len(written))
  BY Zenon DEF ProducerOK, WriterOK
<1>2. /\ NextLog(written, stores, e, V, N) /\ IsProgram(P, c, L, kept, e.start, e.shape)
      /\ Mem!Execute(P)
  BY Zenon DEF Writing
<1>3. /\ c \in Nat /\ L \in Nat /\ L = e.shape.len
      /\ Len(P) \in Nat /\ c + L + 1 <= Len(P)
      /\ IsPreamble(c, e.start, End(written, Len(written)))
  BY <1>1, <1>2, ZenonT(40) DEF IsProgram, Preamble, IsPreamble
<1>4. /\ e.start + Shift(V, N) = stores + c + 1 /\ Shift(V, N) \in Int
      /\ HeadAt(V, N) = stores + (c + e.shape.len + 1)
  BY <1>1, <1>2, <1>3, NewNumbers, SMTT(30)
<1>5. /\ OldestAt(V, N) = stores + Opening
      /\ Start(V, N) = e.start /\ End(V, N) = e.start + e.shape.len
      /\ Prev(V, N) = End(written, Len(written)) /\ Prev(V, N) \in Nat
      /\ Prev(V, N) <= e.start
      /\ Oldest(V, N) = e.oldest
      /\ Continues(written, V) /\ N \in 1 .. Len(V) /\ N \in Writes(V)
      /\ V[N] = e /\ Len(V) = N
      /\ Phys(e.start) + e.shape.len <= Capacity
      /\ e.start \in Nat
  <2>1. EntryAdded(written, stores, e, V, N)
    BY <1>1, <1>2, NewWrite, Zenon
  <2> QED
    BY <2>1, Zenon DEF EntryAdded
<1>6. stores' = stores + Len(P) /\ FenceType'
  <2>1. Len(P) + 1 \in 1 .. Len(P) + 1
    OBVIOUS
  <2>2. Ordering # "x86" => Mem!FenceBefore(P, Len(P) + 1) \in Nat
    BY <1>1, <1>2, <2>1, FenceFacts, Zenon
  <2> QED
    BY <1>2, <2>2, Zenon DEF Mem!Execute, FenceType
<1>7. N = Len(written) + 1 /\ Opening \in Nat
  BY <1>2, Zenon DEF NextLog, Opening
<1> QED
  BY <1>1, <1>3, <1>4, <1>5, <1>6, <1>7, Zenon DEF WriteFacts

\* The messages of HeadAbs.
LEMMA HeadStep ==
    ASSUME ProducerOK, Ordered,
           NEW P, NEW c, NEW L, NEW kept, NEW e, NEW V, NEW N,
           Writing(P, c, L, kept, e, V, N)
    PROVE  HeadMessages(messages', V)
<1>1. /\ HeadAt(V, N) = stores + (c + L + 1) /\ End(V, N) = e.start + L
      /\ Continues(written, V) /\ N \in Writes(V) /\ e.start \in Nat
  <2>1. WriteFacts(P, c, L, e, V, N)
    BY WritingFacts, Zenon
  <2> QED
    BY <2>1, Zenon DEF WriteFacts
<1>2. /\ IsProgram(P, c, L, kept, e.start, e.shape) /\ Mem!Execute(P) /\ e.shape \in Shape
      /\ stores \in Nat /\ FenceType /\ LockMessages(messages, stores)
      /\ HeadMessages(messages, written)
  BY Zenon DEF Writing, ProducerOK, WriterOK
<1>3. Mem!StoresTo(P, HeadAbs) = {c + L + 1}
  <2>1. StoresOf(P, c, L, e.start)
    BY <1>2, ProgramStores, Zenon
  <2> QED
    BY <2>1, Zenon DEF StoresOf
<1>4. Mem!Published(P, c + L + 1) = stores + (c + L + 1)
  <2>1. PublishedBy(P, c, L, e.start)
    BY <1>2, ProgramPublishes, Zenon
  <2> QED
    BY <2>1, Zenon DEF PublishedBy
<1>5. P[c + L + 1].val = e.start + L
  <2>1. P[c + L + 1] = Mem!Release(HeadAbs, e.start + L)
    BY <1>2, Zenon DEF IsProgram
  <2> QED
    BY <2>1, StoredValue, Zenon
<1> DEFINE i == c + L + 1
<1>6. messages'[HeadAbs] = messages[HeadAbs] \cup {Mem!Message(P, i)}
  <2>1. Mem!Execute(P) /\ HeadAbs \in Location
    BY <1>2, Locations, Zenon
  <2>2. messages'[HeadAbs] = messages[HeadAbs]
                        \cup {Mem!Message(P, j) : j \in Mem!StoresTo(P, HeadAbs)}
    BY <2>1, Executed, Zenon
  <2> QED
    BY <1>3, <2>2
<1>7. /\ Mem!Message(P, i).at = HeadAt(V, N) /\ Mem!Message(P, i).val = End(V, N)
      /\ Mem!Message(P, i).rel = HeadAt(V, N)
  BY <1>1, <1>4, <1>5, MessageFields, Zenon
<1> HIDE DEF i
<1>8. ASSUME NEW m \in messages[HeadAbs]
      PROVE  \E w \in Writes(V) : m.at = HeadAt(V, w) /\ m.val = End(V, w) /\ m.rel = HeadAt(V, w)
  <2>1. PICK w \in Writes(written) : /\ m.at = HeadAt(written, w) /\ m.val = End(written, w)
                                     /\ m.rel = HeadAt(written, w)
    BY <1>2, Zenon DEF HeadMessages
  <2>2. w \in Writes(V) /\ HeadAt(V, w) = HeadAt(written, w) /\ End(V, w) = End(written, w)
    BY <1>1, SameLog, Zenon
  <2> QED
    BY <2>1, <2>2, Zenon
<1> QED
  BY <1>1, <1>6, <1>7, <1>8, Zenon DEF HeadMessages

\* The messages of OldestAbs.
LEMMA OldestStep ==
    ASSUME ProducerOK, Ordered,
           NEW P, NEW c, NEW L, NEW kept, NEW e, NEW V, NEW N,
           Writing(P, c, L, kept, e, V, N)
    PROVE  OldestMessages(messages', V)
<1>1. /\ OldestAt(V, N) = stores + Opening /\ Oldest(V, N) = e.oldest
      /\ Continues(written, V) /\ N \in Writes(V) /\ e.start \in Nat
      /\ Len(V) = N /\ N = Len(written) + 1
  <2>1. WriteFacts(P, c, L, e, V, N)
    BY WritingFacts, Zenon
  <2> QED
    BY <2>1, Zenon DEF WriteFacts
<1>2. /\ IsProgram(P, c, L, kept, e.start, e.shape) /\ Mem!Execute(P) /\ e.shape \in Shape
      /\ stores \in Nat /\ FenceType /\ LockMessages(messages, stores)
      /\ OldestMessages(messages, written) /\ e.oldest = OldestKept(kept, e.start)
      /\ LogOK(written, stores)
  BY Zenon DEF Writing, ProducerOK, WriterOK
<1>3. Mem!StoresTo(P, OldestAbs) = {Opening}
  <2>1. StoresOf(P, c, L, e.start)
    BY <1>2, ProgramStores, Zenon
  <2> QED
    BY <2>1, Zenon DEF StoresOf
<1>4. Mem!Published(P, Opening) \in Nat
  <2>1. PublishedBy(P, c, L, e.start)
    BY <1>2, ProgramPublishes, Zenon
  <2> QED
    BY <2>1, Zenon DEF PublishedBy
<1>5. P[Opening].val = e.oldest
  <2>1. P[Opening] = Mem!Relaxed(OldestAbs, OldestKept(kept, e.start))
    BY <1>2, Zenon DEF IsProgram
  <2>2. OldestKept(kept, e.start) = e.oldest
    BY <1>2, Zenon
  <2>3. Mem!Relaxed(OldestAbs, OldestKept(kept, e.start)).val = OldestKept(kept, e.start)
    BY StoredValue, Zenon
  <2> QED
    BY <2>1, <2>2, <2>3, Zenon
<1>6. messages'[OldestAbs] = messages[OldestAbs] \cup {Mem!Message(P, Opening)}
  <2>1. Mem!Execute(P) /\ OldestAbs \in Location
    BY <1>2, Locations, Zenon
  <2>2. messages'[OldestAbs] = messages[OldestAbs]
                        \cup {Mem!Message(P, j) : j \in Mem!StoresTo(P, OldestAbs)}
    BY <2>1, Executed, Zenon
  <2> QED
    BY <1>3, <2>2
<1>7. /\ Mem!Message(P, Opening).at = OldestAt(V, N)
      /\ Mem!Message(P, Opening).val = Oldest(V, N)
      /\ Mem!Message(P, Opening).rel \in Nat
  BY <1>1, <1>4, <1>5, MessageFields, Zenon
<1>8. ASSUME NEW m \in messages[OldestAbs]
      PROVE  m.rel \in Nat /\ \E w \in Writes(V) : m.at = OldestAt(V, w) /\ m.val = Oldest(V, w)
  <2>1. PICK w \in Writes(written) : m.at = OldestAt(written, w) /\ m.val = Oldest(written, w)
    BY <1>2, Zenon DEF OldestMessages
  <2>2. /\ w \in Writes(V) /\ OldestAt(V, w) = OldestAt(written, w)
        /\ Oldest(V, w) = Oldest(written, w)
    BY <1>1, SameLog, Zenon
  <2> QED
    BY <1>2, <2>1, <2>2, Zenon DEF OldestMessages
<1>9. ASSUME NEW w \in Writes(V) PROVE \E m \in messages'[OldestAbs] : m.at = OldestAt(V, w)
  <2>1. CASE w = N
    BY <1>6, <1>7, <2>1, Zenon
  <2>2. CASE w # N
    <3>1. Len(written) \in Nat
      BY <1>2, LogTypes, Zenon
    <3>2. w \in Writes(written)
      BY <1>1, <2>2 DEF Writes
    <3>3. PICK m \in messages[OldestAbs] : m.at = OldestAt(written, w)
      BY <1>2, <3>2, Zenon DEF OldestMessages
    <3>4. OldestAt(V, w) = OldestAt(written, w)
      BY <1>1, <3>2, SameLog, ZenonT(30)
    <3> QED
      BY <1>6, <3>3, <3>4, Zenon
  <2> QED
    BY <2>1, <2>2, Zenon
<1> QED
  BY <1>1, <1>6, <1>7, <1>8, <1>9, Zenon DEF OldestMessages

\* The marker and the cells of the record are left at their offsets.
LEMMA NewCells ==
    ASSUME ProducerOK, Ordered,
           NEW P, NEW c, NEW L, NEW kept, NEW e, NEW V, NEW N,
           Writing(P, c, L, kept, e, V, N)
    PROVE  /\ e.start # head_abs =>
                /\ Stored(V, N, head_abs)
                /\ From(V, Mem!Message(P, c), N, head_abs)
           /\ \A k \in 1 .. L : \E x \in Nat :
                /\ x = e.start + (k - 1)
                /\ Stored(V, N, x) /\ Phys(x) = Phys(e.start) + k - 1
                /\ From(V, Mem!Message(P, c + k), N, x)
<1>1. /\ c \in Nat /\ L \in Nat /\ e.start \in Nat /\ Opening \in Nat
      /\ e.start + Shift(V, N) = stores + c + 1 /\ Shift(V, N) \in Int
      /\ OldestAt(V, N) = stores + Opening
      /\ Start(V, N) = e.start /\ End(V, N) = e.start + L
      /\ Prev(V, N) = head_abs /\ head_abs \in Nat /\ head_abs <= e.start
      /\ N = Len(written) + 1 /\ V[N] = e
      /\ Phys(e.start) + L <= Capacity
  <2>1. WriteFacts(P, c, L, e, V, N)
    BY WritingFacts, Zenon
  <2> QED
    BY <2>1, Zenon DEF WriteFacts
<1>2. /\ IsProgram(P, c, L, kept, e.start, e.shape)
      /\ stores \in Nat /\ FenceType /\ LockMessages(messages, stores)
  BY Zenon DEF Writing, ProducerOK, WriterOK
<1> DEFINE s == e.start
           t == Shift(V, N)
<1>3. s \in Nat /\ t \in Int /\ s + t = stores + c + 1
  BY <1>1, Zenon
<1>4. ASSUME s # head_abs
      PROVE  Stored(V, N, head_abs) /\ From(V, Mem!Message(P, c), N, head_abs)
  <2>1. head_abs < s
    BY <1>1, <1>4
  <2>2. Stored(V, N, head_abs)
    BY <1>1, <2>1, Zenon DEF Stored
  <2>3. /\ CellAt(V, N, head_abs) = s + t - 1 /\ CellVal(V, N, head_abs) = ZeroCell
    BY <1>1, <2>1 DEF CellAt, CellVal
  <2>4. P[c].val = ZeroCell
    <3>1. P[c] = Mem!Relaxed(ByteAt(Phys(head_abs)), ZeroCell)
      BY <1>2, <1>4, Zenon DEF IsProgram
    <3> QED
      BY <3>1, StoredValue, Zenon
  <2>5. Mem!Published(P, c) \in Nat /\ Mem!Published(P, c) >= stores + Opening
    <3>1. PublishedBy(P, c, L, e.start)
      BY <1>2, ProgramPublishes, Zenon
    <3> QED
      BY <1>4, <3>1, Zenon DEF PublishedBy
  <2> HIDE DEF s, t
  <2>6. stores + c = s + t - 1
    BY <1>1, <1>2, <1>3
  <2>7. /\ Mem!Message(P, c).at = CellAt(V, N, head_abs)
        /\ Mem!Message(P, c).val = CellVal(V, N, head_abs)
        /\ Mem!Message(P, c).rel \in Nat /\ Mem!Message(P, c).rel >= OldestAt(V, N)
    <3>1. /\ Mem!Message(P, c).at = stores + c
          /\ Mem!Message(P, c).val = P[c].val
          /\ Mem!Message(P, c).rel = Mem!Published(P, c)
      BY MessageFields, Zenon
    <3>2. OldestAt(V, N) = stores + Opening
      BY <1>1, Zenon
    <3> QED
      BY <2>3, <2>4, <2>5, <2>6, <3>1, <3>2, Zenon
  <2> QED
    BY <2>2, <2>7, Zenon DEF From
<1>5. ASSUME NEW k \in 1 .. L
      PROVE  \E x \in Nat :
                /\ x = s + (k - 1)
                /\ Stored(V, N, x) /\ Phys(x) = Phys(s) + k - 1
                /\ From(V, Mem!Message(P, c + k), N, x)
  <2> DEFINE j == k - 1
             x == s + j
  <2>1. j \in Nat /\ x \in Nat /\ s <= x /\ x < s + L /\ j < L
    <3>1. s \in Nat /\ L \in Nat
      BY <1>1, Zenon
    <3> HIDE DEF s
    <3> QED
      BY <3>1
  <2>2. Stored(V, N, x)
    BY <1>1, <2>1, Zenon DEF Stored
  <2>3. Phys(s) \in Nat
    <3>1. Phys(s) \in 0 .. (Capacity - 1)
      BY <1>3, PhysType, Zenon
    <3> QED
      BY <3>1
  <2>4. Phys(x) = Phys(s) + j
    <3>1. Phys(s) + j < Capacity
      BY <1>1, <2>1, <2>3, GeometryAssumption
    <3> QED
      BY <1>3, <2>1, <3>1, PhysShift, Zenon
  <2>5. CellAt(V, N, x) = x + t /\ CellVal(V, N, x) = CellOf(N, e.shape, x - s)
    BY <1>1, <2>1, Zenon DEF CellAt, CellVal
  <2>6. P[c + k].val = CellOf(N, e.shape, k - 1)
    <3>1. P[c + k] = Mem!Relaxed(ByteAt(Phys(e.start) + k - 1),
                                 CellOf(Len(written) + 1, e.shape, k - 1))
      BY <1>2, Zenon DEF IsProgram
    <3>2. Len(written) + 1 = N
      BY <1>1, Zenon
    <3>3. P[c + k].val = CellOf(Len(written) + 1, e.shape, k - 1)
      BY <3>1, StoredValue, ZenonT(40)
    <3> QED
      BY <3>2, <3>3
  <2>7. Mem!Published(P, c + k) \in Nat /\ Mem!Published(P, c + k) >= stores + Opening
    <3>1. PublishedBy(P, c, L, e.start)
      BY <1>2, ProgramPublishes, Zenon
    <3> QED
      BY <3>1, Zenon DEF PublishedBy
  <2> HIDE DEF s, t
  <2>8. stores + (c + k) = x + t /\ x - s = k - 1 /\ Phys(x) = Phys(s) + k - 1
    <3>1. c \in Nat /\ L \in Nat /\ stores \in Nat /\ s \in Nat /\ t \in Int /\ k \in Nat
      BY <1>1, <1>2, <1>3
    <3>2. x + t = (s + t) + (k - 1)
      BY <3>1
    <3>3. stores + (c + k) = (stores + c + 1) + (k - 1)
      BY <3>1
    <3>4. x - s = k - 1
      BY <3>1
    <3>5. Phys(x) = Phys(s) + k - 1
      BY <2>3, <2>4, ZenonT(40)
    <3> QED
      BY <1>3, <3>2, <3>3, <3>4, <3>5, Zenon
  <2> HIDE DEF x, j
  <2>9. /\ Mem!Message(P, c + k).at = CellAt(V, N, x)
        /\ Mem!Message(P, c + k).val = CellVal(V, N, x)
        /\ Mem!Message(P, c + k).rel \in Nat /\ Mem!Message(P, c + k).rel >= OldestAt(V, N)
    BY <1>1, <2>5, <2>6, <2>7, <2>8, MessageFields
  <2>10. From(V, Mem!Message(P, c + k), N, x)
    BY <2>9, Zenon DEF From
  <2>11. x = s + (k - 1)
    BY Zenon DEF x, j
  <2> QED
    BY <2>1, <2>2, <2>8, <2>10, <2>11, Zenon
<1> QED
  BY <1>4, <1>5, Zenon DEF s

\* The messages of the cells.
LEMMA CellStep ==
    ASSUME ProducerOK, Ordered,
           NEW P, NEW c, NEW L, NEW kept, NEW e, NEW V, NEW N,
           Writing(P, c, L, kept, e, V, N)
    PROVE  CellMessages(messages', V)
<1>1. /\ c \in Nat /\ L \in Nat /\ e.start \in Nat
      /\ Start(V, N) = e.start /\ End(V, N) = e.start + L
      /\ Prev(V, N) = head_abs /\ head_abs \in Nat /\ head_abs <= e.start
      /\ Continues(written, V) /\ N \in 1 .. Len(V)
      /\ N = Len(written) + 1 /\ Len(V) = N
  <2>1. WriteFacts(P, c, L, e, V, N)
    BY WritingFacts, Zenon
  <2> QED
    BY <2>1, Zenon DEF WriteFacts
<1>2. /\ IsProgram(P, c, L, kept, e.start, e.shape) /\ Mem!Execute(P)
      /\ LogOK(written, stores) /\ CellMessages(messages, written)
  BY Zenon DEF Writing, ProducerOK, WriterOK
<1>3. Len(written) \in Nat
  BY <1>2, LogTypes, Zenon
<1>4. \A p, i : i \in Mem!StoresTo(P, ByteAt(p)) <=>
        \/ e.start # head_abs /\ i = c /\ p = Phys(head_abs)
        \/ \E k \in 1 .. L : i = c + k /\ p = Phys(e.start) + k - 1
  <2>1. StoresOf(P, c, L, e.start)
    BY <1>2, ProgramStores, Zenon
  <2> QED
    BY <2>1, Zenon DEF StoresOf
<1>5. \A p \in Position :
        messages'[ByteAt(p)] = messages[ByteAt(p)]
                               \cup {Mem!Message(P, i) : i \in Mem!StoresTo(P, ByteAt(p))}
  <2> SUFFICES ASSUME NEW p \in Position
               PROVE  messages'[ByteAt(p)] = messages[ByteAt(p)]
                        \cup {Mem!Message(P, i) : i \in Mem!StoresTo(P, ByteAt(p))}
    BY Zenon
  <2>1. Mem!Execute(P) /\ ByteAt(p) \in Location
    BY <1>2, Locations, Zenon
  <2> QED
    BY <2>1, Executed, Zenon
<1>6. ASSUME NEW p \in Position, NEW m \in messages'[ByteAt(p)]
      PROVE  \/ m.at = 0 /\ m.val = ZeroCell /\ m.rel = 0
             \/ \E w \in 1 .. Len(V) : \E x \in Nat :
                  Stored(V, w, x) /\ Phys(x) = p /\ From(V, m, w, x)
  <2>1. CASE m \in messages[ByteAt(p)]
    <3>1. CASE m.at = 0 /\ m.val = ZeroCell /\ m.rel = 0
      BY <3>1, Zenon
    <3>2. CASE \E w \in 1 .. Len(written) : \E x \in Nat :
                  Stored(written, w, x) /\ Phys(x) = p /\ From(written, m, w, x)
      <4>1. PICK w \in 1 .. Len(written) : \E x \in Nat :
                  Stored(written, w, x) /\ Phys(x) = p /\ From(written, m, w, x)
        BY <3>2, Zenon
      <4>2. PICK x \in Nat : Stored(written, w, x) /\ Phys(x) = p /\ From(written, m, w, x)
        BY <4>1, Zenon
      <4>3. /\ w \in 1 .. Len(V) /\ (Stored(V, w, x) <=> Stored(written, w, x))
            /\ (From(V, m, w, x) <=> From(written, m, w, x))
        BY <1>1, SameLog, Zenon
      <4> QED
        BY <4>2, <4>3, Zenon
    <3> QED
      BY <1>2, <2>1, <3>1, <3>2, Zenon DEF CellMessages
  <2>2. CASE m \notin messages[ByteAt(p)]
    <3>1. PICK i \in Mem!StoresTo(P, ByteAt(p)) : m = Mem!Message(P, i)
      BY <1>5, <2>2, ZenonT(40)
    <3>2. CASE e.start # head_abs /\ i = c /\ p = Phys(head_abs)
      <4>1. Stored(V, N, head_abs) /\ From(V, Mem!Message(P, c), N, head_abs)
        BY <3>2, NewCells
      <4> QED
        BY <1>1, <3>1, <3>2, <4>1, Zenon
    <3>3. CASE \E k \in 1 .. L : i = c + k /\ p = Phys(e.start) + k - 1
      <4>1. PICK k \in 1 .. L : i = c + k /\ p = Phys(e.start) + k - 1
        BY <3>3, ZenonT(40)
      <4>2. PICK x \in Nat : /\ Stored(V, N, x) /\ Phys(x) = Phys(e.start) + k - 1
                             /\ From(V, Mem!Message(P, c + k), N, x)
        BY NewCells
      <4>3. Phys(x) = p /\ From(V, m, N, x)
        BY <3>1, <4>1, <4>2, ZenonT(40)
      <4> QED
        BY <1>1, <4>2, <4>3, Zenon
    <3>4. \/ e.start # head_abs /\ i = c /\ p = Phys(head_abs)
          \/ \E k \in 1 .. L : i = c + k /\ p = Phys(e.start) + k - 1
      <4>1. i \in Mem!StoresTo(P, ByteAt(p))
        BY <3>1, Zenon
      <4> QED
        BY <1>4, <4>1
    <3> QED
      BY <3>2, <3>3, <3>4, Zenon
  <2> QED
    BY <2>1, <2>2, Zenon
<1>7. ASSUME NEW w \in 1 .. Len(V), NEW x \in Nat, Stored(V, w, x)
      PROVE  \E m \in messages'[ByteAt(Phys(x))] : From(V, m, w, x)
  <2>0. Phys(x) \in Position
    BY PhysType, Zenon DEF Position
  <2>1. CASE w = N
    <3>1. CASE x >= e.start
      <4> DEFINE k == x - e.start + 1
      <4>1. k \in 1 .. L /\ x = e.start + (k - 1)
        <5>1. x < e.start + L
          BY <1>1, <1>7, <2>1 DEF Stored
        <5>2. e.start \in Nat /\ L \in Nat
          BY <1>1, Zenon
        <5> QED
          BY <3>1, <5>1, <5>2, SMTT(30)
      <4> HIDE DEF k
      <4>2. PICK y \in Nat : /\ y = e.start + (k - 1)
                             /\ Phys(y) = Phys(e.start) + k - 1
                             /\ From(V, Mem!Message(P, c + k), N, y)
        BY <4>1, NewCells
      <4>3. y = x
        BY <4>1, <4>2, Zenon
      <4>4. c + k \in Mem!StoresTo(P, ByteAt(Phys(x)))
        BY <1>4, <4>1, <4>2, Zenon
      <4> QED
        BY <1>5, <2>0, <2>1, <4>2, <4>3, <4>4, Zenon
    <3>2. CASE x < e.start
      <4>1. x = head_abs /\ e.start # head_abs
        BY <1>1, <1>7, <2>1, <3>2 DEF Stored
      <4>2. From(V, Mem!Message(P, c), N, head_abs)
        BY <4>1, NewCells
      <4>3. c \in Mem!StoresTo(P, ByteAt(Phys(x)))
        BY <1>4, <4>1, Zenon
      <4> QED
        BY <1>5, <2>0, <2>1, <4>1, <4>2, <4>3, Zenon
    <3> QED
      BY <1>1, <3>1, <3>2
  <2>2. CASE w # N
    <3>1. w \in 1 .. Len(written)
      BY <1>1, <1>3, <2>2
    <3>2. Stored(written, w, x)
      BY <1>1, <1>7, <3>1, SameLog, Zenon
    <3>3. PICK m \in messages[ByteAt(Phys(x))] : From(written, m, w, x)
      BY <1>2, <3>1, <3>2, Zenon DEF CellMessages
    <3>4. From(V, m, w, x)
      BY <1>1, <3>1, <3>3, SameLog, Zenon
    <3> QED
      BY <1>5, <2>0, <3>4, Zenon
  <2> QED
    BY <2>1, <2>2, Zenon
<1> QED
  BY <1>6, <1>7, Zenon DEF CellMessages

\* The messages of the sequence lock.
LEMMA LockStep ==
    ASSUME ProducerOK, Ordered,
           NEW P, NEW c, NEW L, NEW kept, NEW e, NEW V, NEW N,
           Writing(P, c, L, kept, e, V, N)
    PROVE  LockMessages(messages', stores')
<1>1. stores' = stores + Len(P) /\ Len(P) \in Nat
  <2>1. WriteFacts(P, c, L, e, V, N)
    BY WritingFacts, Zenon
  <2> QED
    BY <2>1, Zenon DEF WriteFacts
<1>2. /\ IsProgram(P, c, L, kept, e.start, e.shape) /\ Mem!Execute(P)
      /\ stores \in Nat /\ FenceType /\ LockMessages(messages, stores)
  BY Zenon DEF Writing, ProducerOK, WriterOK
<1>3. messages'[SeqLock] = messages[SeqLock]
                           \cup {Mem!Message(P, i) : i \in Mem!StoresTo(P, SeqLock)}
  <2>1. Mem!Execute(P) /\ SeqLock \in Location
    BY <1>2, Locations, Zenon
  <2> QED
    BY <2>1, Executed, Zenon
<1>4. ASSUME NEW i \in Mem!StoresTo(P, SeqLock)
      PROVE  /\ Mem!Message(P, i).at \in Nat /\ Mem!Message(P, i).at <= stores'
             /\ Mem!Message(P, i).rel \in Nat
  <2>1. i \in 1 .. Len(P)
    BY <1>2, Zenon DEF Mem!StoresTo, IsProgram
  <2>2. Mem!Published(P, i) \in Nat
    <3>1. PublishedBy(P, c, L, e.start)
      BY <1>2, ProgramPublishes, Zenon
    <3> QED
      BY <3>1, Zenon DEF PublishedBy
  <2> QED
    <3>1. /\ Mem!Message(P, i).at = stores + i
          /\ Mem!Message(P, i).rel = Mem!Published(P, i)
      BY MessageFields, Zenon
    <3>2. stores + i \in Nat /\ stores + i <= stores'
      <4>1. stores \in Nat
        BY <1>2, Zenon
      <4> QED
        BY <1>1, <2>1, <4>1
    <3> QED
      BY <2>2, <3>1, <3>2, Zenon
<1>5. ASSUME NEW m \in messages[SeqLock]
      PROVE  m.at \in Nat /\ m.at <= stores' /\ m.rel \in Nat
  <2>1. m.at \in Nat /\ m.at <= stores /\ m.rel \in Nat
    BY <1>2, Zenon DEF LockMessages
  <2>2. stores \in Nat
    BY <1>2, Zenon
  <2> QED
    BY <1>1, <2>1, <2>2
<1>6. messages'[SeqLock] # {}
  BY <1>2, <1>3, Zenon DEF LockMessages
<1> QED
  BY <1>3, <1>4, <1>5, <1>6, Zenon DEF LockMessages

\* The writer's part of the inductive invariant.
WriterInv == ProducerOK /\ SpansOK(spans, written)

\* A write keeps the writer's invariant, and only adds to the log.
LEMMA AppendStep ==
    ASSUME WriterInv, Ordered, NEW shape \in Shape, append_bytes_core(shape)
    PROVE  /\ WriterInv'
           /\ Continues(written, written')
           /\ Oldest(written, Len(written)) <= Oldest(written', Len(written'))
           /\ UNCHANGED <<seen, acquired, last_read>>
<1> DEFINE start == StartAbs(head_abs, shape.len)
           final == start + shape.len
<1>0. PICK kept \in KeptSpans(final) :
        /\ spans' = Append(kept, [start |-> start, end |-> final])
        /\ head_abs' = final
        /\ written' = Append(written, [start |-> start, shape |-> shape,
                                       oldest |-> OldestKept(kept, start), at |-> stores])
        /\ Mem!Execute(Program(kept, start, shape))
        /\ UNCHANGED <<seen, acquired, last_read>>
  BY Zenon DEF append_bytes_core, Program
<1> DEFINE e == [start |-> start, shape |-> shape, oldest |-> OldestKept(kept, start),
                 at |-> stores]
           P == Program(kept, start, shape)
           c == Preamble(start)
           L == shape.len
           V == Append(written, e)
           N == Len(written) + 1
<1>1. /\ stores \in Nat /\ LogOK(written, stores) /\ head_abs = End(written, Len(written))
      /\ ProducerOK /\ SpansOK(spans, written)
  BY DEF WriterInv, ProducerOK, WriterOK
<1>2. IsEntry(e, kept, start, shape)
  BY DEF IsEntry
<1>4. /\ spans' = Append(kept, [start |-> start, end |-> final])
      /\ head_abs' = final /\ written' = V
      /\ Mem!Execute(P)
      /\ UNCHANGED <<seen, acquired, last_read>>
  BY <1>0
<1>5. start \in Nat /\ L \in Nat /\ final \in Nat
  <2>1. L \in Nat /\ L <= Capacity
    BY ConcurrentAssumption
  <2>2. Len(written) \in Writes(written)
    BY <1>1, SMTT(30) DEF Writes
  <2>3. head_abs \in Nat
    BY <1>1, <2>2, LogTypes
  <2> QED
    BY <2>1, <2>3, StartAbsProperties
<1>6. IsProgram(P, c, L, kept, start, shape)
  BY <1>5, ProgramShape
<1>7. /\ e.start = start /\ e.shape = shape /\ e.oldest = OldestKept(kept, start)
      /\ final = start + L
  OBVIOUS
<1> HIDE DEF e, start, P, c, V
<1>3. Follows(written, e, stores) /\ IsTail(kept, spans)
  BY <1>1, <1>2, NewEntry
<1>8. NextLog(written, stores, e, V, N)
  BY <1>3 DEF NextLog, V
<1> HIDE DEF N, L, final
<1>9. Writing(P, c, L, kept, e, V, N)
  BY <1>4, <1>6, <1>7, <1>8 DEF Writing
<1>10. /\ HeadAt(V, N) = stores + (c + L + 1)
       /\ Continues(written, V) /\ Len(V) = N
       /\ stores' = stores + Len(P) /\ Len(P) \in Nat /\ c + L + 1 <= Len(P)
       /\ FenceType' /\ End(V, N) = e.start + L
       /\ Oldest(V, N) = e.oldest
       /\ c \in Nat
  <2>1. WriteFacts(P, c, L, e, V, N)
    BY <1>1, <1>9, WritingFacts, Zenon
  <2> QED
    BY <2>1, Zenon DEF WriteFacts
<1>11. stores' \in Nat /\ stores <= stores' /\ HeadAt(V, N) <= stores'
  BY <1>1, <1>5, <1>10
<1>12. LogOK(V, stores')
  BY <1>1, <1>8, <1>11, LogStep
<1>13. /\ HeadMessages(messages', V) /\ OldestMessages(messages', V)
       /\ CellMessages(messages', V) /\ LockMessages(messages', stores')
  <2>1. HeadMessages(messages', V)
    BY <1>1, <1>9, HeadStep, Zenon
  <2>2. OldestMessages(messages', V)
    BY <1>1, <1>9, OldestStep, Zenon
  <2>3. CellMessages(messages', V)
    BY <1>1, <1>9, CellStep, Zenon
  <2>4. LockMessages(messages', stores')
    BY <1>1, <1>9, LockStep, Zenon
  <2> QED
    BY <2>1, <2>2, <2>3, <2>4, Zenon
<1>14. SpansOK(spans', V)
  <2>1. SpansOK(Append(kept, [start |-> e.start, end |-> final]), V)
    <3>1. final \in Nat /\ e.oldest = OldestKept(kept, e.start)
      BY <1>5, <1>7
    <3> QED
      BY <1>1, <1>3, <1>8, <3>1, SpansStep, Zenon
  <2> QED
    BY <1>4, <1>7, <2>1
<1>15. head_abs' = End(V, Len(V))
  <2>1. Len(V) = N /\ End(V, N) = e.start + L
    BY <1>10, Zenon
  <2> QED
    BY <1>4, <1>7, <2>1, Zenon
<1>16. Oldest(written, Len(written)) <= Oldest(V, Len(V))
  <2>1. Len(V) = N /\ Oldest(V, N) = e.oldest
    BY <1>10, Zenon
  <2>2. Oldest(written, Len(written)) <= e.oldest
    BY <1>3, Zenon DEF Follows
  <2> QED
    BY <2>1, <2>2, Zenon
<1> QED
  <2>1. stores' \in Nat
    BY <1>11, Zenon
  <2>2. FenceType' /\ Continues(written, V)
    BY <1>10, Zenon
  <2>3. WriterInv'
    BY <1>4, <1>12, <1>13, <1>14, <1>15, <2>1, <2>2, SMTT(30) DEF WriterInv, ProducerOK,
       WriterOK
  <2> QED
    BY <1>4, <1>16, <2>2, <2>3

=============================================================================
