--------------------------- MODULE ConcurrentRing ---------------------------
(***************************************************************************)
(* The concurrent publish/read protocol of crates/carriage/src/concurrent.rs*)
(* over weakly ordered memory: ConcurrentProducer appends, and              *)
(* ConcurrentRawConsumer polls.                                             *)
(***************************************************************************)
EXTENDS ConcurrentProducer

VARIABLES
    pc,           \* consumer: where poll is
    cursor_abs,   \* consumer: absolute read cursor
    snap,         \* consumer: the control snapshot [lock, head, oldest]
    abs,          \* consumer: position of the walk
    total_len,    \* consumer: length field of the record being read
    batch,        \* consumer: records accepted so far in this poll
    delivered,    \* history: records handed to the caller, [start, rec]
    failure       \* history: the error the last poll returned, or "none"

pollVars == <<pc, snap, abs, total_len, batch>>
consumerVars == <<pollVars, cursor_abs, delivered, failure>>
vars == <<memVars, producerVars, consumerVars>>

Init ==
    /\ ProducerInit
    /\ pc = "idle"
    /\ cursor_abs = 0
    /\ snap = [lock |-> 0, head |-> 0, oldest |-> 0]
    /\ abs = 0
    /\ total_len = 0
    /\ batch = <<>>
    /\ delivered = <<>>
    /\ failure = "none"

-----------------------------------------------------------------------------
(* The consumer: poll, one action per group of loads.                       *)

\* poll returns: to idle, with the cursor it leaves and what it hands over.
Return(cursor, records, error) ==
    /\ pc' = "idle"
    /\ cursor_abs' = cursor
    /\ delivered' = delivered \o records
    /\ failure' = error
    /\ snap' = [lock |-> 0, head |-> 0, oldest |-> 0]
    /\ abs' = 0
    /\ total_len' = 0
    /\ batch' = <<>>

\* poll goes on at another step, with the walk at a and len the length read.
Continue(step, a, len, records) ==
    /\ pc' = step
    /\ abs' = a
    /\ total_len' = len
    /\ batch' = records
    /\ UNCHANGED <<snap, cursor_abs, delivered, failure>>

\* Faulty variants of Overwritten: the records read so far are handed over without
\* moving the cursor; the cursor is moved to the head; it is moved past the header of the
\* oldest record.
OverwrittenKeepingCursor(oldest) == Return(cursor_abs, batch, "none")
OverwrittenToHead(oldest) == Return(snap.head, <<>>, "none")
OverwrittenPastHeader(oldest) == Return(oldest + HeaderLen, <<>>, "none")

Overwritten(oldest) == Return(oldest, <<>>, "none")

PollError(error) == Return(cursor_abs, <<>>, error)

\* The snapshot is taken: the walk starts at the cursor, or at the oldest
\* retained cell if the cursor has fallen behind it.
StartWalk(head, oldest) ==
    /\ snap' = [lock |-> snap.lock, head |-> head, oldest |-> oldest]
    /\ abs' = IF cursor_abs < oldest THEN oldest ELSE cursor_abs
    /\ pc' = "walk"
    /\ UNCHANGED <<total_len, batch, cursor_abs, delivered, failure>>

\* OwnedConcurrentStore: head, then oldest, each an acquire load.
OwnedSnapshot ==
    /\ pc = "idle" /\ Store = "owned"
    /\ \E h \in Mem!Visible(Mem!View, HeadAbs) :
        LET view1 == Mem!AfterAcquireLoad(Mem!View, HeadAbs, h) IN
        \E o \in Mem!Visible(view1, OldestAbs) :
            /\ Mem!Adopt(Mem!AfterAcquireLoad(view1, OldestAbs, o))
            /\ StartWalk(h.val, o.val)
    /\ UNCHANGED <<messages, stores, fenced, producerVars>>

\* SharedConcurrentStore: an attempt that finds the lock odd is retried until the
\* budget is spent; poll then returns an empty batch and keeps its cursor.
SharedLock ==
    /\ pc = "idle" /\ Store = "shared"
    /\ \E l \in Mem!Visible(Mem!View, SeqLock) :
        LET first == l.val IN
        /\ Mem!Adopt(Mem!AfterAcquireLoad(Mem!View, SeqLock, l))
        /\ \/ /\ first % 2 = 0
              /\ pc' = "image"
              /\ snap' = [snap EXCEPT !.lock = first]
              /\ UNCHANGED <<abs, total_len, batch, cursor_abs, delivered, failure>>
           \/ first % 2 # 0 /\ PollError("none")
    /\ UNCHANGED <<messages, stores, fenced, producerVars>>

\* The image is read with relaxed loads, and the lock again with an acquire load;
\* decode_with_locks rejects an image whose two lock values differ.
SharedImage ==
    /\ pc = "image"
    /\ \E h \in Mem!Visible(Mem!View, HeadAbs) :
        LET view1 == Mem!AfterRelaxedLoad(Mem!View, HeadAbs, h) IN
        \E o \in Mem!Visible(view1, OldestAbs) :
            LET view2 == Mem!AfterRelaxedLoad(view1, OldestAbs, o) IN
            \E l \in Mem!Visible(view2, SeqLock) :
                /\ Mem!Adopt(Mem!AfterAcquireLoad(view2, SeqLock, l))
                /\ \/ /\ l.val = snap.lock
                      /\ StartWalk(h.val, o.val)
                   \/ /\ l.val # snap.lock
                      /\ PollError("none")
    /\ UNCHANGED <<messages, stores, fenced, producerVars>>

ReadFirst ==
    /\ pc = "walk" /\ abs < snap.head
    /\ \E m \in Mem!Visible(Mem!View, ByteAt(Phys(abs))) :
        LET zero == IsZero(m.val) IN
        /\ Mem!Adopt(Mem!AfterRelaxedLoad(Mem!View, ByteAt(Phys(abs)), m))
        /\ \/ /\ zero /\ Phys(abs) = 0
              /\ PollError("UnexpectedWrapMarker")
           \/ /\ zero /\ Phys(abs) # 0
              /\ Continue("walk", abs + (Capacity - Phys(abs)), 0, batch)
           \/ /\ ~zero /\ Phys(abs) + HeaderLen > Capacity
              /\ PollError("RecordCrossesBoundary")
           \/ /\ ~zero /\ Phys(abs) + HeaderLen <= Capacity
              /\ Continue("header", abs, 0, batch)
    /\ UNCHANGED <<messages, stores, fenced, producerVars>>

ReadHeader ==
    /\ pc = "header"
    /\ LET p == Phys(abs) IN
       \E m \in Mem!Visible(Mem!View, ByteAt(p)) :
        LET view1 == Mem!AfterRelaxedLoad(Mem!View, ByteAt(p), m) IN
        \/ /\ m.val # SyncCell
           /\ Mem!Adopt(view1)
           /\ Continue("recover", abs, 0, batch)
        \/ /\ m.val = SyncCell
           /\ \E n \in Mem!Visible(view1, ByteAt(p + 1)) :
                /\ Mem!Adopt(Mem!AfterRelaxedLoad(view1, ByteAt(p + 1), n))
                /\ \E len \in LengthsIn(n.val) :
                    \/ len < HeaderLen /\ Continue("recover", abs, 0, batch)
                    \/ /\ len >= HeaderLen /\ p + len > Capacity
                       /\ PollError("RecordCrossesBoundary")
                    \/ /\ len >= HeaderLen /\ p + len <= Capacity
                       /\ Continue("body", abs, len, batch)
    /\ UNCHANGED <<messages, stores, fenced, producerVars>>

\* Copy the cells, fence, re-check OldestAbs with a relaxed load, then decode.
ReadBody ==
    /\ pc = "body"
    /\ \E r \in BodyReads(Phys(abs), total_len) :
        LET view1 == acquire_before_recheck(r.view) IN
        \E o \in Mem!Visible(view1, OldestAbs) :
            LET oldest_after == o.val IN
            /\ Mem!Adopt(Mem!AfterRelaxedLoad(view1, OldestAbs, o))
            /\ \/ oldest_after > abs /\ Overwritten(oldest_after)
               \/ /\ oldest_after <= abs
                  /\ \E rec \in Decoded(r.cells) :
                        Continue("walk", abs + total_len, 0,
                                 Append(batch, [start |-> abs, rec |-> rec]))
               \/ /\ oldest_after <= abs /\ Decoded(r.cells) = {}
                  /\ Continue("recover", abs, 0, batch)
    /\ UNCHANGED <<messages, stores, fenced, producerVars>>

\* The end of the walk: the last look at OldestAbs, then the batch is handed over.
Finish ==
    /\ pc = "walk" /\ abs >= snap.head
    /\ \E o \in Mem!Visible(Mem!View, OldestAbs) :
        LET final_oldest == o.val IN
        /\ Mem!Adopt(Mem!AfterAcquireLoad(Mem!View, OldestAbs, o))
        /\ IF final_oldest # snap.oldest /\ final_oldest > cursor_abs
           THEN Overwritten(final_oldest)
           ELSE Return(snap.head, batch, "none")
    /\ UNCHANGED <<messages, stores, fenced, producerVars>>

\* poll after a wire fault: lap to OldestAbs if it has moved past the cursor,
\* return the fault otherwise.
Recover ==
    /\ pc = "recover"
    /\ \E o \in Mem!Visible(Mem!View, OldestAbs) :
        LET oldest == o.val IN
        /\ Mem!Adopt(Mem!AfterAcquireLoad(Mem!View, OldestAbs, o))
        /\ IF oldest > cursor_abs THEN Overwritten(oldest) ELSE PollError("Wire")
    /\ UNCHANGED <<messages, stores, fenced, producerVars>>

-----------------------------------------------------------------------------
Poll ==
    \/ OwnedSnapshot
    \/ SharedLock
    \/ SharedImage
    \/ ReadFirst
    \/ ReadHeader
    \/ ReadBody
    \/ Finish
    \/ Recover

Propagate == Mem!Propagate /\ UNCHANGED <<producerVars, consumerVars>>

Next ==
    \/ \E shape \in Shape : append_bytes_core(shape) /\ UNCHANGED consumerVars
    \/ Poll
    \/ Propagate

Spec == Init /\ [][Next]_vars

\* The consumer keeps polling, and stores reach it in the end.
FairSpec == Spec /\ WF_vars(Poll) /\ WF_vars(Propagate)

-----------------------------------------------------------------------------
\* A record is delivered only as the record that was written where the walk found
\* it: no torn record, and no whole record of another lap, is ever accepted.
AcceptedIsCurrent ==
    \A i \in DOMAIN delivered : written[delivered[i].rec].start = delivered[i].start

\* Across polls, laps and recoveries no record is delivered twice or out of order.
DeliveredInOrder ==
    \A i, j \in DOMAIN delivered : i < j => delivered[i].rec < delivered[j].rec

\* An error poll returns to its caller never speaks of a damaged record: the producer
\* has lapped the cursor, and another poll starts at the oldest retained record.
ErrorMeansLapped == failure # "none" => cursor_abs < spans[1].start

\* Records the cursor has passed were delivered, unless the producer has
\* reclaimed them.
NothingRetainedSkipped ==
    pc = "idle" =>
        \A r \in DOMAIN written :
            /\ written[r].start < cursor_abs
            /\ written[r].start >= spans[1].start
            => \E i \in DOMAIN delivered : delivered[i].rec = r

\* Once the producer stops, the consumer catches up with the head for good.
CatchesUp == <>[](cursor_abs = head_abs)

=============================================================================
