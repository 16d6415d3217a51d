--------------------------- MODULE LossAccounting ---------------------------
(***************************************************************************)
(* A ring (ring.rs), a producer that writes data, SourceHighWater           *)
(* checkpoints and RecordsDropped reports for several sources (loss.rs, as  *)
(* the repository's consumer tests and live harness drive it), and a        *)
(* RawByteConsumer (consumer.rs) that accounts what it reads.  The producer *)
(* may lap the consumer at any point.                                       *)
(***************************************************************************)
EXTENDS ByteRing, LossTracker

CONSTANTS
    Source,         \* source ids
    CountModulus    \* DroppedCount is a UDINT: 2^32 in the code

VARIABLES
    next_seq,    \* producer: next sequence number of each source
    reports,     \* producer: taken loss ranges still to be written
    cursor_abs,  \* consumer: absolute read cursor
    tracker,     \* consumer: loss tracker
    got          \* history: entries the consumer was given

producerVars == <<next_seq, reports>>
consumerVars == <<cursor_abs, tracker, got>>
lossVars == <<ring, producerVars, consumerVars>>

\* Encoded lengths in cells: a report carries three slots, a checkpoint one.
DataLen == HeaderLen + 1
HighWaterLen == HeaderLen + 2
DroppedLen == HeaderLen + 3

MakeRecord(s, seq, len, body) ==
    [run_id |-> 1, source_id |-> s, seq |-> seq, flags |-> {}, len |-> len, body |-> body]

\* Faulty variant of records_dropped_record: last_seq is taken for an exclusive end.
records_dropped_exclusive(seq, range) ==
    MakeRecord(range.source_id, seq, DroppedLen,
               [kind |-> "dropped",
                first_seq |-> range.first_seq,
                last_seq |-> range.last_seq + 1,
                count |-> (range.last_seq - range.first_seq + 2) % CountModulus])

records_dropped_record(seq, range) ==
    MakeRecord(range.source_id, seq, DroppedLen,
               [kind |-> "dropped",
                first_seq |-> range.first_seq,
                last_seq |-> range.last_seq,
                count |-> (range.last_seq - range.first_seq + 1) % CountModulus])

-----------------------------------------------------------------------------
LossInit ==
    /\ Init
    /\ next_seq = [s \in Source |-> 0]
    /\ reports = <<>>
    /\ cursor_abs = 0
    /\ tracker = NewTracker
    /\ got = <<>>

\* Each write takes the source's next sequence number.
Publish(s, rec) ==
    /\ Len(ring.written) < MaxWrites
    /\ Fits(rec)
    /\ ring' = write_record(ring, rec)
    /\ next_seq' = [next_seq EXCEPT ![s] = @ + 1]

WriteData(s) ==
    /\ Publish(s, MakeRecord(s, next_seq[s], DataLen, [kind |-> "data"]))
    /\ UNCHANGED <<reports, consumerVars>>

WriteHighWater(s) ==
    /\ Publish(s, MakeRecord(s, next_seq[s], HighWaterLen,
                             [kind |-> "high_water", produced |-> next_seq[s]]))
    /\ UNCHANGED <<reports, consumerVars>>

\* The producer drains its loss ranges and reports them one by one, each in the
\* stream of the source that lost the records.  records_dropped_record sets no flag;
\* flags is a public field of the record, and the wire format lets a producer mark any
\* record Synthetic before it is written.
TakeRanges ==
    /\ reports = <<>> /\ ring.producer_loss # <<>>
    /\ ring' = take_producer_loss_ranges(ring)
    /\ reports' = producer_loss_ranges(ring)
    /\ UNCHANGED <<next_seq, consumerVars>>

WriteReport ==
    /\ reports # <<>>
    /\ LET s == Head(reports).source_id IN
       \E flags \in SUBSET {FLAG_SYNTHETIC} :
            Publish(s, [records_dropped_record(next_seq[s], Head(reports)) EXCEPT !.flags = flags])
    /\ reports' = Tail(reports)
    /\ UNCHANGED consumerVars

account_batch(batch) ==
    /\ tracker' = FoldLeft(LAMBDA t, r : account(t, r.rec), tracker, batch.records)
    /\ cursor_abs' = batch.next_abs
    /\ got' = got \o batch.records

Poll ==
    LET batch == read_raw_from(ring, cursor_abs) IN
    /\ batch.status = "ok"
    /\ account_batch(batch)
    /\ UNCHANGED <<ring, producerVars>>

\* The document of a loss interval: what the loss is known from.
document_from_loss(event) ==
    [stream |-> event.stream, first_seq |-> event.first_seq, last_seq |-> event.last_seq,
     count |-> event.count, basis |-> IF event.synthetic THEN "Inferred" ELSE "Authoritative"]

LossNext ==
    \/ \E s \in Source : WriteData(s) \/ WriteHighWater(s)
    \/ TakeRanges
    \/ WriteReport
    \/ Poll

LossSpec == LossInit /\ [][LossNext]_lossVars

-----------------------------------------------------------------------------
Stream == {<<1, s>> : s \in Source}

SeqsGiven(stream) ==
    {got[i].rec.seq : i \in {j \in DOMAIN got : StreamOf(got[j].rec) = stream}}

SeqsReportedLost(stream) ==
    UNION {e.first_seq .. e.last_seq : e \in {x \in tracker.events : x.stream = stream}}

SeqsRetained(stream) ==
    {ring.index[i].rec.seq :
        i \in {j \in DOMAIN ring.index : StreamOf(ring.index[j].rec) = stream}}

\* Below a stream's expected sequence number every record was either handed to
\* the consumer or is covered by a loss interval: the three mechanisms of account
\* together leave no hole, whatever was evicted between polls.
NoLossMissed ==
    \A stream \in Stream :
        0 .. (Lookup(tracker.next, stream) - 1)
            \subseteq SeqsGiven(stream) \cup SeqsReportedLost(stream)

\* A sequence number is reported lost only after the ring evicted that record,
\* and only if the producer wrote it.
LossMeansEvicted ==
    \A s \in Source :
        /\ SeqsReportedLost(<<1, s>>) \cap SeqsRetained(<<1, s>>) = {}
        /\ SeqsReportedLost(<<1, s>>) \subseteq 0 .. (next_seq[s] - 1)

\* A consumer that has read up to the head and can still read a stream's newest
\* record.
Drained(s) ==
    /\ cursor_abs = ring.head_abs
    /\ (next_seq[s] - 1) \in SeqsRetained(<<1, s>>)

\* delivered + lost = produced, as assert_run_result of the live harness demands of
\* each source at the end of a run.
DeliveredPlusLost ==
    \A s \in Source : Drained(s) =>
        Delivered(tracker, <<1, s>>) + Lost(tracker, <<1, s>>) = next_seq[s]

\* The same sum is exact, over gaps, checkpoints and reports in any order, for a
\* stream of which no record was reported dropped after it had been delivered.
ProducedIsAccounted ==
    \A s \in Source :
        (Drained(s) /\ SeqsGiven(<<1, s>>) \cap SeqsReportedLost(<<1, s>>) = {}) =>
            Delivered(tracker, <<1, s>>) + Lost(tracker, <<1, s>>) = next_seq[s]

\* The entries of a stream that the consumer was given, and those among them that
\* report a range of lost records.
GivenOf(stream) == {i \in DOMAIN got : StreamOf(got[i].rec) = stream}

ReportsOf(stream) == {i \in GivenOf(stream) : parse_records_dropped(got[i].rec)}

Named(rec) == rec.body.first_seq .. rec.body.last_seq

\* What the checkpoints told of: everything below each one and above all that the
\* stream had delivered before it.
ToldByCheckpoint(stream) ==
    UNION {{q \in 0 .. (got[i].rec.seq - 1) :
                \A j \in GivenOf(stream) : j < i => got[j].rec.seq < q} :
              i \in {k \in GivenOf(stream) : parse_source_high_water(got[k].rec)}}

ToldByUnflaggedReport(stream) ==
    UNION {Named(got[i].rec) :
              i \in {k \in ReportsOf(stream) : FLAG_SYNTHETIC \notin got[k].rec.flags}}


=============================================================================
