------------------------------ MODULE ByteRing ------------------------------
(***************************************************************************)
(* RingBuffer of crates/carriage/src/ring.rs: a fixed byte pool with        *)
(* drop-oldest reclamation, an in-memory index, and two ways of reading it, *)
(* through the index (read_from) and by walking the raw cells               *)
(* (read_raw_from).  The struct is one record; its methods are operators on *)
(* it, so that a caller that writes several records in one call composes    *)
(* them.                                                                    *)
(*                                                                          *)
(* The client of this module's Spec is the most general one: it writes any  *)
(* records in any order.  LossAccounting and EpochStream put the            *)
(* repository's producers and consumers around the ring.                    *)
(***************************************************************************)
EXTENDS RingGeometry, Sequences

CONSTANTS
    Record,      \* the records a producer may write; r.len is the encoded length
    MaxWrites    \* bound: records written in a behaviour

ASSUME RecordAssumption ==
    \A r \in Record : r.len \in Nat /\ HeaderLen < r.len

ASSUME MaxWritesAssumption == MaxWrites \in Nat

VARIABLE ring

\* A cell is zero or the cell at some offset of an encoded record.
Zero == [rec |-> <<>>, off |-> -1]
Cell(rec, k) == [rec |-> rec, off |-> k]

\* What is left of a sequence without its first n elements.
DropFirst(seq, n) == SubSeq(seq, n + 1, Len(seq))

Entry(start, rec) == [start_abs |-> start, end_abs |-> start + rec.len, rec |-> rec]

-----------------------------------------------------------------------------
(* Writing.                                                                 *)

NewRing ==
    [bytes |-> [p \in Position |-> Zero],  \* the physical pool
     head_abs |-> 0,                       \* next write position
     oldest_abs |-> 0,                     \* oldest retained position
     lost_count |-> 0,                     \* records evicted
     wraps |-> 0,                          \* wrap markers written
     index |-> <<>>,                       \* retained records, oldest first
     producer_loss |-> <<>>,               \* entries evicted and not yet taken
     written |-> <<>>]                     \* history: every record written

\* How many entries evict_before_clobber pops: the longest prefix of the index
\* that starts below the floor.
IsEvictCount(idx, floor, n) ==
    /\ \A i \in 1 .. n : idx[i].start_abs < floor
    /\ n < Len(idx) => idx[n + 1].start_abs >= floor

EvictCount(idx, floor) == CHOOSE n \in 0 .. Len(idx) : IsEvictCount(idx, floor, n)

\* The fields that evict_before_clobber changes.
evict_before_clobber(r, final_head, next_record_start) ==
    LET n == EvictCount(r.index, RetentionFloor(final_head))
        kept == DropFirst(r.index, n)
    IN [index |-> kept,
        lost_count |-> r.lost_count + n,
        producer_loss |-> r.producer_loss \o SubSeq(r.index, 1, n),
        oldest_abs |-> IF kept = <<>> THEN next_record_start ELSE kept[1].start_abs]

\* Faulty variant of Overwrite: no wrap marker is left behind.
OverwriteUnmarked(pool, head, start, rec) ==
    [p \in Position |->
        IF Phys(start) <= p /\ p < Phys(start) + rec.len
        THEN Cell(rec, p - Phys(start)) ELSE pool[p]]

\* The pool after a record is written at start: a zero cell at the old head if
\* the writer skipped to the next lap, then the record's cells.
Overwrite(pool, head, start, rec) ==
    [p \in Position |->
        IF Phys(start) <= p /\ p < Phys(start) + rec.len
        THEN Cell(rec, p - Phys(start))
        ELSE IF start # head /\ p = Phys(head) THEN Zero ELSE pool[p]]

Fits(rec) == rec.len <= Capacity

\* write_record for a record that fits; one that does not leaves the ring alone.
write_record(r, rec) ==
    LET start == StartAbs(r.head_abs, rec.len)
        end == start + rec.len
        left == evict_before_clobber(r, end, start)
    IN [bytes |-> Overwrite(r.bytes, r.head_abs, start, rec),
        head_abs |-> end,
        oldest_abs |-> left.oldest_abs,
        lost_count |-> left.lost_count,
        wraps |-> IF start # r.head_abs THEN r.wraps + 1 ELSE r.wraps,
        index |-> Append(left.index, Entry(start, rec)),
        producer_loss |-> left.producer_loss,
        written |-> Append(r.written, Entry(start, rec))]

take_producer_loss_ranges(r) == [r EXCEPT !.producer_loss = <<>>]

\* Vec<LossRange>: record_producer_loss extends the last range when the evicted
\* record continues it, and opens a new range otherwise.
record_producer_loss(ranges, e) ==
    LET new == [run_id |-> e.rec.run_id, source_id |-> e.rec.source_id,
                first_seq |-> e.rec.seq, last_seq |-> e.rec.seq]
        last == ranges[Len(ranges)]
    IN IF /\ ranges # <<>>
          /\ last.run_id = new.run_id
          /\ last.source_id = new.source_id
          /\ last.last_seq + 1 = new.first_seq
       THEN [ranges EXCEPT ![Len(ranges)].last_seq = new.first_seq]
       ELSE Append(ranges, new)

producer_loss_ranges(r) ==
    LET after[n \in 0 .. Len(r.producer_loss)] ==
            IF n = 0 THEN <<>> ELSE record_producer_loss(after[n - 1], r.producer_loss[n])
    IN after[Len(r.producer_loss)]

-----------------------------------------------------------------------------
(* Reading.  A read returns the records found, where to resume, and whether *)
(* the cursor had fallen behind; status is "ok" or the RingError returned.  *)
Batch(status, records, next, lapped) ==
    [status |-> status, records |-> records, next_abs |-> next, lapped |-> lapped]
Fault(status) == Batch(status, <<>>, 0, FALSE)

\* decode of the cells from p on: every cell is the expected cell of one record.
Decodes(pool, p, len) ==
    LET rec == pool[p].rec IN
    /\ p + len <= Capacity
    /\ \A k \in 0 .. (len - 1) : pool[p + k] = Cell(rec, k)
    /\ rec.len = len

ReadRecord(pool, abs, len) ==
    [start_abs |-> abs, end_abs |-> abs + len, rec |-> pool[Phys(abs)].rec]

read_from(r, cursor) ==
    LET lapped == cursor < r.oldest_abs
        from == IF lapped THEN r.oldest_abs ELSE cursor
        hits == SelectSeq(r.index, LAMBDA e : e.start_abs >= from)
        Length(e) == e.end_abs - e.start_abs
    IN IF \A i \in DOMAIN hits : Decodes(r.bytes, Phys(hits[i].start_abs), Length(hits[i]))
       THEN Batch("ok",
                  [i \in DOMAIN hits |->
                      ReadRecord(r.bytes, hits[i].start_abs, Length(hits[i]))],
                  r.head_abs, lapped)
       ELSE Fault("Wire")

\* The length field, in the header cell after Sync; a cell of any other kind
\* there reads as no usable length.
TotalLen(pool, p) == IF pool[p + 1].off = 1 THEN pool[p + 1].rec.len ELSE 0

\* What stops the walk at abs, or "ok" when a whole record can be read there.
Obstacle(pool, abs, oldest) ==
    LET p == Phys(abs) IN
    IF p + HeaderLen > Capacity THEN "RecordCrossesBoundary"
    ELSE IF pool[p].off # 0 \/ TotalLen(pool, p) < HeaderLen THEN "Wire"
    ELSE IF p + TotalLen(pool, p) > Capacity THEN "RecordCrossesBoundary"
    ELSE IF ~Decodes(pool, p, TotalLen(pool, p)) THEN "Wire"
    ELSE IF oldest > abs THEN "OverwrittenMidRead"
    ELSE "ok"

\* read_raw_window over one pair of head and oldest.  In both of its callers the
\* re-read of oldest_abs returns the value the walk began with.
read_raw_window(pool, cursor, head, oldest) ==
    LET lapped == cursor < oldest
        walk[abs \in Offset] ==
            IF abs >= head THEN Batch("ok", <<>>, head, lapped)
            ELSE IF pool[Phys(abs)] = Zero
            THEN IF Phys(abs) = 0 THEN Fault("UnexpectedWrapMarker")
                 ELSE walk[abs + (Capacity - Phys(abs))]
            ELSE IF Obstacle(pool, abs, oldest) # "ok" THEN Fault(Obstacle(pool, abs, oldest))
            ELSE LET len == TotalLen(pool, Phys(abs))
                     rest == walk[abs + len]
                 IN IF rest.status # "ok" THEN rest
                    ELSE [rest EXCEPT !.records = <<ReadRecord(pool, abs, len)>> \o @]
    IN walk[IF lapped THEN oldest ELSE cursor]

read_raw_from(r, cursor) == read_raw_window(r.bytes, cursor, r.head_abs, r.oldest_abs)

\* from_captured accepts a pool with these control fields.
from_captured_accepts(head, oldest) ==
    /\ oldest <= head
    /\ head - oldest <= Capacity

-----------------------------------------------------------------------------
Init == ring = NewRing

Write ==
    /\ Len(ring.written) < MaxWrites
    /\ \E rec \in Record : Fits(rec) /\ ring' = write_record(ring, rec)

Take == ring' = take_producer_loss_ranges(ring)

Next == Write \/ Take

Spec == Init /\ [][Next]_ring

-----------------------------------------------------------------------------
EntryType ==
    {e \in [start_abs : Offset, end_abs : Offset, rec : Record] :
        e.end_abs = e.start_abs + e.rec.len}

RingType ==
    [bytes : [Position -> {Zero} \cup [rec : Record, off : Nat]],
     head_abs : Offset, oldest_abs : Offset, lost_count : Nat, wraps : Nat,
     index : Seq(EntryType), producer_loss : Seq(EntryType), written : Seq(EntryType)]

TypeOK == ring \in RingType

\* Drop-oldest keeps the newest records: the index is the suffix of everything
\* written that is left once lost_count records are gone, so the eviction counter
\* never drifts from what was evicted (evict_before_clobber).
IndexIsSuffix(r) ==
    /\ r.lost_count <= Len(r.written)
    /\ r.index = DropFirst(r.written, r.lost_count)

RetainedIsSuffix == IndexIsSuffix(ring)

\* The newest record evicted began more than a capacity behind the head: a later
\* write has passed over its first cell.
NoneEvictedEarly(r) ==
    r.lost_count > 0 => r.written[r.lost_count].start_abs + Capacity < r.head_abs

\* What is retained is a suffix of what was written, and the longest one the pool can
\* hold: no record is dropped before the space it begins in is needed, over however many
\* laps and skipped tails (the floor of evict_before_clobber).
RetainedExactly == IndexIsSuffix(ring) /\ NoneEvictedEarly(ring)

\* No write, and no wrap marker, damages a record that is still indexed: its
\* cells are those write_record put there, over however many laps.
IndexIsIntact(r) ==
    \A i \in DOMAIN r.index : \A k \in 0 .. (r.index[i].rec.len - 1) :
        r.bytes[Phys(r.index[i].start_abs) + k] = Cell(r.index[i].rec, k)

RetainedIntact == IndexIsIntact(ring)

\* The retained window always passes from_captured's checks, so an image taken
\* at any moment is a valid capture.
WindowCapturable == from_captured_accepts(ring.head_abs, ring.oldest_abs)

\* A consumer that holds any offset the ring ever published as a head, or starts
\* at 0, gets the same batch from the raw walk as from the index: wrap markers,
\* skipped tails and lapped cursors included, and never an error.
RawWalkAgrees ==
    \A c \in {0} \cup {ring.written[i].end_abs : i \in DOMAIN ring.written} :
        /\ read_raw_from(ring, c) = read_from(ring, c)
        /\ read_from(ring, c).status = "ok"

\* The offsets only grow, and oldest_abs moves only in a step that appends a
\* record (a consumer's saved cursor never becomes a position in the future).
OffsetsGrow ==
    [][ /\ ring'.head_abs >= ring.head_abs
        /\ ring'.oldest_abs >= ring.oldest_abs
        /\ ring'.oldest_abs # ring.oldest_abs => ring'.head_abs > ring.head_abs ]_ring

=============================================================================
