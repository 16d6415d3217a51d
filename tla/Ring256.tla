------------------------------ MODULE Ring256 ------------------------------
(***************************************************************************)
(* OPENOT_Ring256Producer of st/iec61131/src/openot_ring256_producer.st: the*)
(* ring as a PLC function block.  It follows the rules of ring.rs with      *)
(* tables of fixed size: a circular array of spans for the retained records *)
(* and an array of loss ranges that is filled and never emptied.            *)
(*                                                                          *)
(* The block's variables are one record, and a call of the block is an      *)
(* operator on it.  A span holds RunId, SourceId and Seq of its record; here*)
(* it holds the record.  written, evicted and wraps are history.            *)
(***************************************************************************)
EXTENDS RingGeometry, Sequences

CONSTANTS
    Record,      \* the records a caller may pass; len is Length
    SpanSlots,   \* entries of Spans
    LossSlots,   \* entries of LossRanges
    MaxCalls     \* bound: records written in a behaviour

ASSUME Ring256Assumption ==
    /\ SpanSlots \in Nat \ {0}
    /\ LossSlots \in Nat \ {0}
    /\ MaxCalls \in Nat
    /\ \A r \in Record : r.len \in Nat /\ HeaderLen < r.len

\* The span table has a slot for every record the pool can hold.
ASSUME SpanTableAssumption ==
    \A r \in Record : (SpanSlots + 1) * r.len > Capacity

VARIABLE fb

\* A cell is zero or the cell at some offset of an encoded record.
Zero == [rec |-> <<>>, off |-> -1]
Cell(rec, k) == [rec |-> rec, off |-> k]

Slot == 0 .. (SpanSlots - 1)
Span(start, rec) == [StartAbs |-> start, EndAbs |-> start + rec.len, rec |-> rec]
NoSpan == [StartAbs |-> 0, EndAbs |-> 0, rec |-> <<>>]

\* The slot n places after h in the circular table.
Advance(h, n) == IF h + n < SpanSlots THEN h + n ELSE h + n - SpanSlots

\* The retained spans, oldest first.
Live(f) == [i \in 1 .. f.SpanCount |-> f.Spans[Advance(f.SpanHead, i - 1)]]

NewBlock ==
    [Ring |-> [p \in Position |-> Zero],
     HeadAbs |-> 0, OldestAbs |-> 0, LostCount |-> 0,
     LastStartAbs |-> 0, LastEndAbs |-> 0,
     LossRanges |-> <<>>, LossRangeOverflow |-> FALSE,
     Done |-> FALSE, Error |-> FALSE,
     Spans |-> [s \in Slot |-> NoSpan], SpanHead |-> 0, SpanTail |-> 0, SpanCount |-> 0,
     written |-> <<>>, evicted |-> <<>>, wraps |-> 0]

-----------------------------------------------------------------------------
(* Eviction.                                                                *)

\* Faulty variant of CanExtendLoss: the source is not compared.
CanExtendAnySource(last, rec) ==
    last.run_id = rec.run_id /\ last.last_seq + 1 = rec.seq

CanExtendLoss(last, rec) ==
    /\ last.run_id = rec.run_id
    /\ last.source_id = rec.source_id
    /\ last.last_seq + 1 = rec.seq

\* One evicted span is added to the loss ranges: it extends the last range, opens
\* a new one, or finds the table full.
RecordLoss(loss, span) ==
    LET ranges == loss.ranges
        rec == span.rec
        new == [run_id |-> rec.run_id, source_id |-> rec.source_id,
                first_seq |-> rec.seq, last_seq |-> rec.seq]
    IN IF ranges # <<>> /\ CanExtendLoss(ranges[Len(ranges)], rec)
       THEN [loss EXCEPT !.ranges[Len(ranges)].last_seq = rec.seq]
       ELSE IF Len(ranges) >= LossSlots THEN [loss EXCEPT !.overflow = TRUE]
       ELSE [loss EXCEPT !.ranges = Append(@, new)]

LossAfter(f, n) ==
    LET after[i \in 0 .. n] ==
            IF i = 0 THEN [ranges |-> f.LossRanges, overflow |-> f.LossRangeOverflow]
            ELSE RecordLoss(after[i - 1], Live(f)[i])
    IN after[n]

\* Faulty variant of EvictEnds: a span that starts at the floor is evicted.
EvictEndsAbove(f, floor, n) ==
    \/ n = f.SpanCount
    \/ Live(f)[n + 1].StartAbs > floor
    \/ n > 0 /\ LossAfter(f, n).overflow

\* The WHILE loop ends after n evictions.  An overflow ends it only after an
\* eviction: a call that starts with the flag set still evicts one span.
EvictEnds(f, floor, n) ==
    \/ n = f.SpanCount
    \/ Live(f)[n + 1].StartAbs >= floor
    \/ n > 0 /\ LossAfter(f, n).overflow

IsEvictions(f, floor, n) ==
    /\ EvictEnds(f, floor, n)
    /\ \A m \in 0 .. (n - 1) : ~EvictEnds(f, floor, m)

Evictions(f, floor) == CHOOSE n \in 0 .. f.SpanCount : IsEvictions(f, floor, n)

-----------------------------------------------------------------------------
(* A call of the block.                                                     *)

\* Execute is FALSE.
Skip(f) == [f EXCEPT !.Done = FALSE, !.Error = f.LossRangeOverflow]

\* Length is 0 or above the capacity.
Reject(f) == [f EXCEPT !.Done = FALSE, !.Error = TRUE]

\* Faulty variant of SpanTableFull: full with one slot left.
SpanTableFullEarly(count) == count + 1 >= SpanSlots

SpanTableFull(count) == count >= SpanSlots

\* The block after eviction, OldestAbs and the check of the span table.
Evict(f, start, final_head) ==
    LET n == Evictions(f, RetentionFloor(final_head))
        loss == LossAfter(f, n)
        kept == SubSeq(Live(f), n + 1, f.SpanCount)
    IN [f EXCEPT
        !.LostCount = @ + n,
        !.LossRanges = loss.ranges,
        !.LossRangeOverflow = loss.overflow,
        !.SpanHead = Advance(@, n),
        !.SpanCount = @ - n,
        !.OldestAbs = IF kept = <<>> THEN start ELSE kept[1].StartAbs,
        !.Done = FALSE,
        !.Error = loss.overflow \/ SpanTableFull(f.SpanCount - n),
        !.evicted = @ \o SubSeq(Live(f), 1, n)]

\* The pool after the wrap marker, if the writer skips to the next lap, and the copy.
Copy(pool, head, start, rec) ==
    [p \in Position |->
        IF Phys(start) <= p /\ p < Phys(start) + rec.len
        THEN Cell(rec, p - Phys(start))
        ELSE IF start # head /\ p = Phys(head) THEN Zero ELSE pool[p]]

\* The record is copied, its span stored and the head published.
Publish(f, start, rec) ==
    [f EXCEPT
        !.Ring = Copy(@, f.HeadAbs, start, rec),
        !.Spans[f.SpanTail] = Span(start, rec),
        !.SpanTail = Advance(@, 1),
        !.SpanCount = @ + 1,
        !.HeadAbs = start + rec.len,
        !.LastStartAbs = start,
        !.LastEndAbs = start + rec.len,
        !.Done = TRUE,
        !.written = Append(@, Span(start, rec)),
        !.wraps = IF start # f.HeadAbs THEN @ + 1 ELSE @]

Produce(f, rec) ==
    LET start == StartAbs(f.HeadAbs, rec.len)
        swept == Evict(f, start, start + rec.len)
    IN IF rec.len > Capacity THEN Reject(f)
       ELSE IF swept.Error THEN swept ELSE Publish(swept, start, rec)

Init == fb = NewBlock

Idle == fb' = Skip(fb)

Call ==
    \E rec \in Record :
        /\ Len(fb.written) < MaxCalls
        /\ fb' = Produce(fb, rec)

Next == Idle \/ Call

Spec == Init /\ [][Next]_fb

-----------------------------------------------------------------------------
(* The block seen as the ring of ring.rs.                                   *)

AsEntry(span) == [start_abs |-> span.StartAbs, end_abs |-> span.EndAbs, rec |-> span.rec]
AsEntries(spans) == [i \in DOMAIN spans |-> AsEntry(spans[i])]

RingOf(f) ==
    [bytes |-> f.Ring,
     head_abs |-> f.HeadAbs,
     oldest_abs |-> f.OldestAbs,
     lost_count |-> f.LostCount,
     wraps |-> f.wraps,
     index |-> AsEntries(Live(f)),
     producer_loss |-> AsEntries(f.evicted),
     written |-> AsEntries(f.written)]

-----------------------------------------------------------------------------
(* Properties.                                                              *)

\* The span table never fills up: whatever record that fits comes next, the call
\* writes it, unless the loss table overflows.
SpansSuffice ==
    \A rec \in Record :
        rec.len <= Capacity =>
            Produce(fb, rec).Done \/ Produce(fb, rec).LossRangeOverflow

=============================================================================
