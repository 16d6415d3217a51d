---------------------------- MODULE LossTracker ----------------------------
(***************************************************************************)
(* LossTracker of crates/carriage/src/loss.rs as operators on a tracker     *)
(* value: per-stream expected sequence numbers and delivery counts, and the *)
(* loss intervals reconciled from sequence gaps, RecordsDropped records and *)
(* SourceHighWater checkpoints.                                             *)
(*                                                                          *)
(* A stream is a (run, source) pair.  The body of a record is what the      *)
(* tracker parses out of its slots: kind "data", "dropped" (with first_seq, *)
(* last_seq and count) or "high_water" (with produced).  Of the header's    *)
(* flags the tracker looks only at Synthetic, and only in a report.         *)
(***************************************************************************)
EXTENDS Integers, Sequences, FiniteSets, SequencesExt

FLAG_SYNTHETIC == "Synthetic"

StreamOf(rec) == <<rec.run_id, rec.source_id>>

NewTracker == [next |-> <<>>, delivered |-> <<>>, events |-> {}]

\* BTreeMap lookups with a default of 0, and insertion.
Lookup(map, key) == IF key \in DOMAIN map THEN map[key] ELSE 0
Put(map, key, val) == [k \in DOMAIN map \cup {key} |-> IF k = key THEN val ELSE map[k]]

LossEvent(stream, first, last, synthetic) ==
    [stream |-> stream, first_seq |-> first, last_seq |-> last,
     count |-> last - first + 1, synthetic |-> synthetic]

same_loss_stream(left, right) == left.stream = right.stream

ranges_touch_or_overlap(left, right) ==
    /\ right.first_seq <= left.last_seq + 1
    /\ left.first_seq <= right.last_seq + 1


\* One pass over intervals sorted by first_seq: an interval that touches the
\* last merged one widens it.
MergeInterval(merged, interval) ==
    LET last == merged[Len(merged)] IN
    IF merged # <<>> /\ ranges_touch_or_overlap(last, interval)
    THEN [merged EXCEPT ![Len(merged)] =
            LossEvent(last.stream,
                      IF interval.first_seq < last.first_seq
                      THEN interval.first_seq ELSE last.first_seq,
                      IF interval.last_seq > last.last_seq
                      THEN interval.last_seq ELSE last.last_seq,
                      last.synthetic /\ interval.synthetic)]
    ELSE Append(merged, interval)

\* Faulty variant of insert_loss_event: the event is added without merging.
insert_unmerged(events, event) == events \cup {event}

insert_loss_event(events, event) ==
    LET touching == {e \in events : /\ same_loss_stream(e, event)
                                    /\ ranges_touch_or_overlap(e, event)}
        intervals == SetToSortSeq(touching \cup {event},
                                  LAMBDA a, b : a.first_seq < b.first_seq)
    IN (events \ touching) \cup ToSet(FoldLeft(MergeInterval, <<>>, intervals))

\* A checkpoint counts only if it names its own sequence number.
parse_source_high_water(rec) ==
    rec.body.kind = "high_water" /\ rec.body.produced = rec.seq

\* A report counts only if its three fields agree.
parse_records_dropped(rec) ==
    /\ rec.body.kind = "dropped"
    /\ rec.body.last_seq >= rec.body.first_seq
    /\ rec.body.count = rec.body.last_seq - rec.body.first_seq + 1

\* The loss events after the checkpoint, the sequence gap and the report that a
\* record may carry, each given the sequence number expected in its stream.
AfterCheckpoint(events, rec, expected) ==
    IF parse_source_high_water(rec) /\ rec.body.produced > expected
    THEN insert_loss_event(events,
            LossEvent(StreamOf(rec), expected, rec.body.produced - 1, FALSE))
    ELSE events

\* Faulty variant of AfterGap: the gap begins one late.
AfterGapShort(events, rec, expected) ==
    IF rec.seq > expected + 1
    THEN insert_loss_event(events, LossEvent(StreamOf(rec), expected + 1, rec.seq - 1, TRUE))
    ELSE events

AfterGap(events, rec, expected) ==
    IF rec.seq > expected
    THEN insert_loss_event(events, LossEvent(StreamOf(rec), expected, rec.seq - 1, TRUE))
    ELSE events

\* The interval of a report is synthetic when the report's own flag says so.
AfterReport(events, rec) ==
    IF parse_records_dropped(rec)
    THEN insert_loss_event(events,
            LossEvent(StreamOf(rec), rec.body.first_seq, rec.body.last_seq,
                      FLAG_SYNTHETIC \in rec.flags))
    ELSE events

account(tracker, rec) ==
    LET stream == StreamOf(rec)
        expected == Lookup(tracker.next, stream)
        fresh == rec.seq >= expected
    IN [next |-> IF fresh THEN Put(tracker.next, stream, rec.seq + 1) ELSE tracker.next,
        delivered |-> IF fresh
                      THEN Put(tracker.delivered, stream, Lookup(tracker.delivered, stream) + 1)
                      ELSE tracker.delivered,
        events |-> AfterReport(AfterGap(AfterCheckpoint(tracker.events, rec, expected),
                                        rec, expected), rec)]

Delivered(tracker, stream) == Lookup(tracker.delivered, stream)

Lost(tracker, stream) ==
    MapThenSumSet(LAMBDA e : e.count, {e \in tracker.events : e.stream = stream})

=============================================================================
