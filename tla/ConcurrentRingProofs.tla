------------------------ MODULE ConcurrentRingProofs ------------------------
(***************************************************************************)
(* ConcurrentRing for every capacity, set of record shapes and number of    *)
(* appends, where the memory orders a cell after the store to OldestAbs     *)
(* that gave it up (x86, or the fence of the owned store): a poll delivers  *)
(* only the records that were written where it found them, each at most     *)
(* once and in the order they were written, and returns an error only when  *)
(* the producer has lapped its cursor.                                      *)
(***************************************************************************)
EXTENDS ConcurrentReadProofs, ConcurrentWriteProofs

-----------------------------------------------------------------------------
(* The inductive invariant.                                                 *)

\* The image is read only from the shared store.
ImageInv == pc = "image" => Store = "shared"

Inv == WriterInv /\ ReaderInv /\ ImageInv

\* The writer's part does not depend on the reader's view.
LEMMA WriterUnchanged ==
    ASSUME WriterInv, UNCHANGED <<messages, stores, fenced, producerVars>>
    PROVE  WriterInv'
  BY DEF WriterInv, ProducerOK, WriterOK, FenceType, producerVars

\* An empty ring, and a reader at its start.
LEMMA EmptyLog ==
    /\ LogOK(<<>>, 0) /\ Writes(<<>>) = {0} /\ Len(<<>>) = 0
    /\ End(<<>>, 0) = 0 /\ Oldest(<<>>, 0) = 0
    /\ HeadAt(<<>>, 0) = 0 /\ OldestAt(<<>>, 0) = 0
  BY DEF Writes, End, Oldest, HeadAt, OldestAt, Covered, LogOK

\* The invariant holds of a fresh ring, ConcurrentRing::new.
LEMMA InitInv ==
    ASSUME Init
    PROVE  Inv
<1>1. /\ written = <<>> /\ stores = 0 /\ fenced = 0 /\ head_abs = 0 /\ spans = <<>>
      /\ messages = [l \in Location |-> {[at |-> 0, val |-> Initial[l], rel |-> 0]}]
      /\ seen = 0 /\ acquired = 0 /\ last_read = [l \in Location |-> 0]
      /\ pc = "idle" /\ cursor_abs = 0 /\ total_len = 0 /\ batch = <<>>
      /\ delivered = <<>> /\ failure = "none"
  BY Zenon DEF Init, ProducerInit, Mem!MemInit
<1>2. /\ messages[HeadAbs] = {[at |-> 0, val |-> 0, rel |-> 0]}
      /\ messages[OldestAbs] = {[at |-> 0, val |-> 0, rel |-> 0]}
      /\ messages[SeqLock] = {[at |-> 0, val |-> 0, rel |-> 0]}
      /\ \A p \in Position : messages[ByteAt(p)] = {[at |-> 0, val |-> ZeroCell, rel |-> 0]}
  BY Locations, <1>1, SMTT(30) DEF HeadAbs, OldestAbs, SeqLock, ByteAt, Initial
<1> DEFINE m0 == [at |-> 0, val |-> 0, rel |-> 0]
<1>3. WriterOK(written)
  BY <1>2, EmptyLog, <1>1, SMTT(30) DEF HeadMessages, OldestMessages, CellMessages,
     LockMessages, WriterOK, FenceType
<1> QED
  BY <1>1, EmptyLog, <1>3, Locations, SMTT(30) DEF Inv, ImageInv, SpansOK, WriterInv,
     ProducerOK, ReaderInv, Walking, Mem!View, ViewType, Known, InOrder, Mark, CursorOK,
     ReaderAt

\* An append leaves the reader's knowledge true of the longer log.
LEMMA AppendReader ==
    ASSUME WriterInv, ReaderInv, Ordered, NEW shape \in Shape, append_bytes_core(shape),
           UNCHANGED consumerVars
    PROVE  ReaderInv'
<1>1. /\ WriterInv' /\ Continues(written, written')
      /\ Oldest(written, Len(written)) <= Oldest(written', Len(written'))
      /\ UNCHANGED <<seen, acquired, last_read>>
  BY AppendStep, Zenon
<1>2. Grows(written, written')
  BY <1>1, Zenon DEF Grows, WriterInv, ProducerOK, WriterOK
<1>3. PICK h, o \in Writes(written) : ReaderAt(h, o)
  BY Zenon DEF ReaderInv
<1>6. CursorOK(written, h, o, cursor_abs, delivered) /\ Known(written, h, o, last_read)
  BY <1>3, Zenon DEF ReaderAt
<1>8. ASSUME Walking
      PROVE  /\ WalkOK(written', h, o, cursor_abs, abs, snap.head, seen, delivered, batch)
             /\ StepOK(written', h, pc, abs, total_len, snap.head)
  <2>1. /\ WalkOK(written, h, o, cursor_abs, abs, snap.head, seen, delivered, batch)
        /\ StepOK(written, h, pc, abs, total_len, snap.head)
    BY <1>3, <1>8, Zenon DEF ReaderAt
  <2>2. InOrder(written, delivered) /\ abs \in Nat
    BY <1>6, <2>1, Zenon DEF CursorOK, WalkOK
  <2> QED
    BY <1>2, <2>1, <2>2, WalkGrows, StepGrows, Zenon
<1> QED
  BY <1>1, SameLog, <1>8, <1>2, <1>6, CursorGrows, KnownGrows, LappedGrows, ZenonT(40)
     DEF ReaderInv, Walking, Mem!View, ReaderAt, consumerVars, pollVars, CursorOK

-----------------------------------------------------------------------------
(* Induction over numbers, and the copy of a record.                         *)

LOCAL INSTANCE WellFoundedInduction

\* A non-empty set of naturals has a least element, as < is well founded on Nat.
LEMMA LeastElement ==
    ASSUME NEW T \in SUBSET Nat, T # {}
    PROVE  \E m \in T : \A y \in T : ~(y < m)
<1> DEFINE less == {p \in Nat \X Nat : p[1] < p[2]}
<1>1. IsWellFoundedOn(less, Nat)
  BY NatLessThanWellFounded DEF OpToRel
<1> HIDE DEF less
<1>2. PICK m \in T : \A y \in T : ~(<<y, m>> \in less)
  BY <1>1, WFMin, Zenon
<1> QED
  BY <1>2, Zenon DEF less

\* One more cell.
ReadCell(R, l) ==
    UNION {{[view |-> Mem!AfterRelaxedLoad(r.view, l, m), cells |-> Append(r.cells, m.val)] :
                m \in Mem!Visible(r.view, l)} : r \in R}

\* The function reads of BodyReads, on 0 .. n.
IsReads(g, p, n) ==
    g = [k \in 0 .. n |->
            IF k = 0 THEN {[view |-> Mem!View, cells |-> <<>>]}
            ELSE ReadCell(g[k - 1], ByteAt(p + k - 1))]

\* The recursion of BodyReads is well founded.
LEMMA ReadsExist ==
    ASSUME NEW p \in Nat, NEW len \in Nat
    PROVE  \E g : IsReads(g, p, len)
<1> DEFINE open == {n \in Nat : ~\E g : IsReads(g, p, n)}
<1> SUFFICES open = {}
  OBVIOUS
<1> SUFFICES ASSUME open # {} PROVE FALSE
  OBVIOUS
<1>1. PICK n \in open : \A y \in open : ~(y < n)
  <2>1. open \in SUBSET Nat
    OBVIOUS
  <2> HIDE DEF open
  <2> QED
    BY <2>1, LeastElement, SMTT(20)
<1>2. n \in Nat /\ ~\E g : IsReads(g, p, n)
  OBVIOUS
<1>3. CASE n = 0
  <2> DEFINE g == [k \in 0 .. 0 |-> {[view |-> Mem!View, cells |-> <<>>]}]
  <2>1. g = [k \in 0 .. 0 |->
                IF k = 0 THEN {[view |-> Mem!View, cells |-> <<>>]}
                ELSE ReadCell(g[k - 1], ByteAt(p + k - 1))]
    OBVIOUS
  <2>2. IsReads(g, p, n)
    BY <1>3 DEF IsReads
  <2> QED
    BY <2>2
<1>4. CASE n > 0
  <2>2. PICK g : IsReads(g, p, n - 1)
    BY <1>1, <1>4, SMTT(20)
  <2> DEFINE f == [k \in 0 .. n |-> IF k = n THEN ReadCell(g[n - 1], ByteAt(p + n - 1)) ELSE g[k]]
             Val(k) == IF k = 0 THEN {[view |-> Mem!View, cells |-> <<>>]}
                       ELSE ReadCell(f[k - 1], ByteAt(p + k - 1))
  <2>3. ASSUME NEW k \in 0 .. (n - 1)
        PROVE  g[k] = IF k = 0 THEN {[view |-> Mem!View, cells |-> <<>>]}
                      ELSE ReadCell(g[k - 1], ByteAt(p + k - 1))
    <3> DEFINE e(j) == IF j = 0 THEN {[view |-> Mem!View, cells |-> <<>>]}
                       ELSE ReadCell(g[j - 1], ByteAt(p + j - 1))
    <3> HIDE DEF e
    <3> QED
      BY <2>2, Zenon DEF e, IsReads
  <2>4. ASSUME NEW k \in 0 .. n PROVE f[k] = Val(k)
    <3>1. CASE k = n
      BY <1>2, <1>4, <3>1, SMTT(30)
    <3>2. CASE k # n
      <4>1. k \in 0 .. (n - 1)
        BY <3>2
      <4>3. CASE k = 0
        BY <2>3, <4>1, <4>3, SMTT(30)
      <4>4. CASE k # 0
        BY <1>2, <4>4, <2>3, <4>1, <3>2, SMTT(30)
      <4> QED
        BY <4>3, <4>4, SMTT(30)
    <3> QED
      BY <3>1, <3>2, SMTT(30)
  <2>5. f = [k \in 0 .. n |-> Val(k)]
    <3>1. f = [k \in 0 .. n |-> f[k]]
      OBVIOUS
    <3> HIDE DEF f, Val
    <3> QED
      BY <2>4, <3>1, SMTT(30)
  <2>6. IsReads(f, p, n)
    <3> HIDE DEF f
    <3> QED
      BY <2>5 DEF IsReads
  <2> QED
    BY <2>6
<1> QED
  BY <1>2, <1>3, <1>4, SMTT(30)

\* BodyReads is the last value of such a function.
LEMMA BodyReadsDef ==
    ASSUME NEW p \in Nat, NEW len \in Nat
    PROVE  \E g : IsReads(g, p, len) /\ BodyReads(p, len) = g[len]
<1> DEFINE g == CHOOSE f : IsReads(f, p, len)
<1> QED
  BY ReadsExist, Zenon DEF BodyReads, IsReads, ReadCell

\* The cells of a record, copied one after the other.
LEMMA CopyBody ==
    ASSUME LogOK(written, stores), CellMessages(messages, written),
           Mem!View \in ViewType,
           NEW p \in Nat, NEW len \in Nat, p + len <= Capacity,
           NEW r \in BodyReads(p, len)
    PROVE  CopiedCells(r, p, len)
<1>1. PICK g : IsReads(g, p, len) /\ BodyReads(p, len) = g[len]
  BY BodyReadsDef, SMTT(30)
<1>0. seen \in Nat
  BY DEF ViewType, Mem!View
<1> DEFINE e(j) == IF j = 0 THEN {[view |-> Mem!View, cells |-> <<>>]}
                   ELSE ReadCell(g[j - 1], ByteAt(p + j - 1))
<1>2. \A k \in 0 .. len : g[k] = e(k)
  <2>1. g = [k \in 0 .. len |-> e(k)]
    BY <1>1, Zenon DEF IsReads
  <2> HIDE DEF e
  <2> QED
    BY <2>1
<1> DEFINE wrong == {k \in 0 .. len : \E q \in g[k] : ~CopiedCells(q, p, k)}
<1>3. SUFFICES wrong = {}
  BY <1>1
<1>4. SUFFICES ASSUME wrong # {} PROVE FALSE
  OBVIOUS
<1>5. PICK k \in wrong : \A y \in wrong : ~(y < k)
  <2>1. wrong \in SUBSET Nat
    OBVIOUS
  <2> HIDE DEF wrong
  <2> QED
    BY <1>4, <2>1, LeastElement, SMTT(30)
<1>6. k \in 0 .. len
  OBVIOUS
<1>7. PICK q \in g[k] : ~CopiedCells(q, p, k)
  OBVIOUS
<1>8. CASE k = 0
  <2>2. q.view = Mem!View /\ q.cells = <<>>
    BY <1>2, <1>6, <1>8, SMTT(30)
  <2>4. <<>> \in Seq(StoredValues) /\ Len(<<>>) = 0
    OBVIOUS
  <2> QED
    BY <1>7, <1>0, <1>8, <2>2, SMTT(30) DEF CopiedCells, Mem!View
<1>9. CASE k # 0
  <2> DEFINE i == k - 1
  <2>1. i \in Nat /\ i \in 0 .. len /\ i < k /\ k = i + 1 /\ p + i < Capacity
        /\ p + k - 1 = p + i
    BY <1>6, <1>9, GeometryAssumption, SMTT(30)
  <2>2. g[k] = ReadCell(g[i], ByteAt(p + i))
    BY <1>2, <1>6, <1>9, ZenonT(40)
  <2> HIDE DEF i
  <2>4. PICK s \in g[i] :
            \E m \in Mem!Visible(s.view, ByteAt(p + i)) :
                q = [view |-> Mem!AfterRelaxedLoad(s.view, ByteAt(p + i), m),
                     cells |-> Append(s.cells, m.val)]
    BY <2>2, SMTT(30) DEF ReadCell
  <2> QED
    BY <1>7, <2>1, <1>0, <2>4, CopyStep, <1>5, ZenonT(40)
<1> QED
  BY <1>8, <1>9, SMTT(30)

-----------------------------------------------------------------------------
(* The theorems.                                                            *)

\* A poll's actions leave the producer and its stores alone, and a poll reads the image
\* only if it has looked at the lock of a shared store.
LEMMA PollFrame ==
    ASSUME Poll, ImageInv
    PROVE  /\ UNCHANGED <<messages, stores, fenced, producerVars>>
           /\ ImageInv'
  BY Zenon DEF OwnedSnapshot, StartWalk, ImageInv, SharedLock, PollError, Return,
     SharedImage, ReadFirst, Continue, ReadHeader, ReadBody, Overwritten, Finish, Recover,
     Poll

\* What ReadBody copies.
LEMMA BodyCopied ==
    ASSUME WriterOK(written), ReaderInv, pc = "body"
    PROVE  \A r \in BodyReads(Phys(abs), total_len) : CopiedCells(r, Phys(abs), total_len)
<1>2. PICK h, o : /\ WalkOK(written, h, o, cursor_abs, abs, snap.head, seen, delivered, batch)
                  /\ StepOK(written, h, pc, abs, total_len, snap.head)
  BY WalkFacts DEF Walking
<1>3. abs \in Nat /\ Phys(abs) + total_len <= Capacity /\ total_len \in Nat
  BY <1>2, ZenonT(40) DEF WalkOK, StepOK, ReaderInv
<1>4. Phys(abs) \in Nat
  BY <1>3, PhysType, SMTT(30)
<1> QED
  BY <1>3, <1>4, CopyBody, ZenonT(40) DEF WriterOK, ReaderInv

\* Every poll action preserves the reader's invariant.
LEMMA PollReader ==
    ASSUME WriterOK(written), Ordered, ReaderInv, ImageInv, Poll
    PROVE  ReaderInv'
  BY SharedImageStep, BodyCopied, ReadBodyStep, OwnedSnapshotStep, SharedLockStep,
     ReadFirstStep, ReadHeaderStep, FinishStep, RecoverStep, ZenonT(40) DEF SharedImage,
     ImageInv, Ordered, ReadBody, Poll

\* Every append of the producer and every step of a poll keeps the invariant.
LEMMA NextInv ==
    ASSUME Ordered, Inv, [Next]_vars
    PROVE  Inv'
  BY AppendStep, AppendReader, PollFrame, PollReader, WriterUnchanged, PropagateStep,
     ZenonT(40) DEF Inv, WriterInv, ProducerOK, ImageInv, consumerVars, pollVars,
     Propagate, Mem!Propagate, vars, memVars, producerVars, ReaderInv, ReaderAt,
     Walking, Mem!View, Next

\* The invariant of the ring.
THEOREM RingInvariant ==
    ASSUME Ordered
    PROVE  Spec => []Inv
<1>1. Init => Inv
  BY InitInv, SMTT(30)
<1>2. Inv /\ [Next]_vars => Inv'
  BY NextInv
<1> QED
  BY <1>1, <1>2, PTL DEF Spec

\* poll hands over only the records that were written where its walk found them: the
\* re-check of OldestAbs after the copy catches every cell that the producer has reused.
THEOREM AcceptedRecordsAreCurrent ==
    ASSUME Ordered
    PROVE  Spec => []AcceptedIsCurrent
<1>1. Inv => AcceptedIsCurrent
  <2> SUFFICES ASSUME Inv PROVE AcceptedIsCurrent
    OBVIOUS
  <2>1. InOrder(written, delivered)
    BY ZenonT(40) DEF Inv, ReaderInv, ReaderAt, CursorOK
  <2> QED
    BY <2>1 DEF AcceptedIsCurrent, InOrder, Start
<1> QED
  BY <1>1, RingInvariant, PTL

\* No poll, lap or recovery makes a reader deliver a record twice or out of order.
THEOREM RecordsDeliveredInOrder ==
    ASSUME Ordered
    PROVE  Spec => []DeliveredInOrder
<1>1. Inv => DeliveredInOrder
  <2> SUFFICES ASSUME Inv, NEW i \in DOMAIN delivered, NEW j \in DOMAIN delivered, i < j
               PROVE  delivered[i].rec < delivered[j].rec
    BY Zenon DEF DeliveredInOrder
  <2>1. InOrder(written, delivered) /\ LogOK(written, stores)
    BY Zenon DEF Inv, ReaderInv, ReaderAt, CursorOK, WriterInv, ProducerOK, WriterOK
  <2> DEFINE r == delivered[i].rec
             q == delivered[j].rec
  <2>2. /\ r \in 1 .. Len(written) /\ q \in 1 .. Len(written)
        /\ End(written, r) <= Start(written, q)
    BY <2>1, SMTT(30) DEF InOrder
  <2> HIDE DEF r, q
  <2>3. /\ r \in Writes(written) /\ q \in Writes(written) /\ r \in Nat /\ q \in Nat
        /\ Start(written, q) \in Nat /\ End(written, q) \in Nat /\ End(written, r) \in Nat
    BY <2>1, <2>2, LogTypes, SMTT(30)
  <2>4. Start(written, q) < End(written, q) /\ (q < r => End(written, q) < End(written, r))
    BY <2>1, <2>2, <2>3, LogOrder, SMTT(30)
  <2> QED
    BY <2>2, <2>3, <2>4, SMTT(30) DEF r, q
<1> QED
  BY <1>1, RingInvariant, PTL

\* An error that poll returns never speaks of a damaged record: the producer has lapped
\* the cursor.
THEOREM ErrorsMeanLapped ==
    ASSUME Ordered
    PROVE  Spec => []ErrorMeansLapped
<1>1. Inv => ErrorMeansLapped
  <2> SUFFICES ASSUME Inv, failure # "none" PROVE cursor_abs < spans[1].start
    BY Zenon DEF ErrorMeansLapped
  <2>1. /\ Lapped(written, cursor_abs) /\ cursor_abs \in Nat
        /\ SpansOK(spans, written) /\ LogOK(written, stores)
    BY Zenon DEF Inv, ReaderInv, ReaderAt, CursorOK, WriterInv, ProducerOK, WriterOK
  <2>2. Len(written) \in Nat /\ Oldest(written, Len(written)) > cursor_abs
    BY <2>1, LogTypes, SMTT(30) DEF Lapped
  <2>3. Len(written) > 0
    BY <2>1, <2>2, SMTT(30) DEF Oldest
  <2>4. spans[1].start = Oldest(written, Len(written))
    BY <2>1, <2>3, SMTT(30) DEF SpansOK
  <2>5. Oldest(written, Len(written)) \in Nat
    BY <2>1, <2>2, LogTypes, SMTT(30) DEF Writes
  <2> QED
    BY <2>1, <2>2, <2>4, <2>5, SMTT(30)
<1> QED
  BY <1>1, RingInvariant, PTL

=============================================================================
