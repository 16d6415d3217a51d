------------------------- MODULE ConcurrentProducer -------------------------
(***************************************************************************)
(* ConcurrentProducer of crates/carriage/src/concurrent.rs: what an append  *)
(* stores, and in which order.                                              *)
(***************************************************************************)
EXTENDS ConcurrentStore

VARIABLES
    spans,        \* (start, end) of the retained records, oldest first
    head_abs      \* private head

producerVars == <<spans, head_abs, written>>

ProducerInit ==
    /\ Mem!MemInit
    /\ spans = <<>>
    /\ head_abs = 0
    /\ written = <<>>

\* How many spans evict_before_clobber pops from the front: the longest prefix
\* that starts below the floor.
IsEvictCount(floor, n) ==
    /\ \A i \in 1 .. n : spans[i].start < floor
    /\ n < Len(spans) => spans[n + 1].start >= floor

\* The spans it leaves, as a set of one element.
KeptSpans(final_head) ==
    {SubSeq(spans, n + 1, Len(spans)) :
        n \in {n \in 0 .. Len(spans) : IsEvictCount(RetentionFloor(final_head), n)}}

OldestKept(kept, start) == IF kept = <<>> THEN start ELSE kept[1].start

\* Faulty variant of evict_before_clobber: OldestAbs is not published.
evict_privately(kept, start) == <<>>

\* Advance OldestAbs, then fence, before any reclaimed cell is clobbered.
evict_before_clobber(kept, start) ==
    <<Mem!Relaxed(OldestAbs, OldestKept(kept, start))>>
    \o (IF Fenced THEN <<Mem!ReleaseFence>> ELSE <<>>)

WrapMarker(start) ==
    IF start # head_abs THEN <<Mem!Relaxed(ByteAt(Phys(head_abs)), ZeroCell)>> ELSE <<>>

RecordCells(rec, shape, start) ==
    [i \in 1 .. shape.len |->
        Mem!Relaxed(ByteAt(Phys(start) + i - 1), CellOf(rec, shape, i - 1))]

append_bytes_core(shape) ==
    LET start == StartAbs(head_abs, shape.len)
        final_head == start + shape.len
    IN \E kept \in KeptSpans(final_head) :
        /\ Len(written) < MaxWrites
        /\ Mem!Execute(begin_control_update
                       \o evict_before_clobber(kept, start)
                       \o WrapMarker(start)
                       \o RecordCells(Len(written) + 1, shape, start)
                       \o <<Mem!Release(HeadAbs, final_head)>>
                       \o end_control_update_release)
        /\ spans' = Append(kept, [start |-> start, end |-> final_head])
        /\ head_abs' = final_head
        /\ written' = Append(written, [start |-> start, shape |-> shape,
                                       oldest |-> OldestKept(kept, start), at |-> stores])
        /\ UNCHANGED <<seen, acquired, last_read>>

=============================================================================
