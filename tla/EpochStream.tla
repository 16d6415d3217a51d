---------------------------- MODULE EpochStream ----------------------------
(***************************************************************************)
(* EpochProducer and EpochResolver of crates/carriage/src/epoch.rs around a *)
(* ring, with a RawByteConsumer (consumer.rs) that may be lapped between    *)
(* any two calls of the producer.  A method of the producer is one action:  *)
(* it runs on the producer's thread and the consumer polls between calls.   *)
(* A call that only returns an error (a data emission inside a transition,  *)
(* a second begin, ...) changes nothing and is a stuttering step.           *)
(*                                                                          *)
(* A definition hash is named by the epoch it belongs to.  There is one     *)
(* buffer, so the resolver's buffer_id tests succeed.                       *)
(***************************************************************************)
EXTENDS ByteRing, LossTracker, TLC

CONSTANTS
    Source,         \* ids of the data sources
    DefinitionLens, \* lengths DefinitionChanged may have, fixed in a behaviour
    MaxEpoch,       \* bound: epochs opened in a behaviour
    MaxWhenRejected \* bound: records written when DefinitionChanged never fits

ASSUME MaxEpochAssumption == MaxEpoch \in Nat \ {0}

SYSTEM_SOURCE_ID == 0

ASSUME SourceAssumption == Source \subseteq Nat \ {SYSTEM_SOURCE_ID}

VARIABLES
    definition_len,                        \* length of DefinitionChanged: never changes
    run_id, epoch_id, epoch_first_abs,     \* producer: identity it publishes
    system_seq, source_seq,                \* producer: next sequence numbers
    definition_hash, prev_definition_hash, \* producer: hashes it publishes
    transition,                            \* producer: the open transition or None
    cursor_abs, tracker,                   \* consumer: cursor and loss tracker
    resolver,                              \* consumer: epoch resolver
    got,                                   \* history: entries the consumer was given
    epoch_at                               \* history: epoch of each data record, by offset

sequenceVars == <<system_seq, source_seq>>
identityVars == <<run_id, epoch_id, epoch_first_abs, definition_hash, prev_definition_hash>>
consumerVars == <<cursor_abs, tracker, resolver, got>>
epochVars == <<definition_len, ring, identityVars, sequenceVars, transition,
               consumerVars, epoch_at>>

None == [epoch_id |-> 0]

PendingTransition(old, new) ==
    [def_hash_old |-> old, def_hash_new |-> new, epoch_id |-> new,
     definition_changed_emitted |-> FALSE]

-----------------------------------------------------------------------------
(* Records.  Lengths in cells follow the number and width of the slots; one *)
(* that is longer than the pool makes the ring reject DefinitionChanged.    *)
DataLen == HeaderLen + 1
StoppedLen == HeaderLen + 1
HighWaterLen == HeaderLen + 2
StartedLen == HeaderLen + 2

RecordOf(run, s, seq, len, body) ==
    [run_id |-> run, source_id |-> s, seq |-> seq, len |-> len, body |-> body]

SystemRecord(run, seq, len, body) == RecordOf(run, SYSTEM_SOURCE_ID, seq, len, body)

\* write_record as a caller sees it: the ring is unchanged when the record does
\* not fit (RecordExceedsCapacity), which is the only error it can return here.
TryWrite(r, rec) == IF Fits(rec) THEN write_record(r, rec) ELSE r

\* A loop of writes that stops at the first error: how many are done.
Written(recs) ==
    CHOOSE n \in 0 .. Len(recs) :
        /\ \A i \in 1 .. n : Fits(recs[i])
        /\ n < Len(recs) => ~Fits(recs[n + 1])

\* The ring rejects no write.
NoneRejected == definition_len <= Capacity

Bound == IF NoneRejected THEN MaxWrites ELSE MaxWhenRejected

\* Bounds the records written, and the sequence numbers that rejected writes use.
RoomFor(n) ==
    /\ Len(ring.written) + n <= Bound
    /\ system_seq < Bound
    /\ \A s \in DOMAIN source_seq : source_seq[s] < Bound

-----------------------------------------------------------------------------
(* The producer.                                                            *)
EpochInit ==
    /\ Init
    /\ definition_len \in DefinitionLens
    /\ run_id = 1 /\ epoch_id = 1 /\ epoch_first_abs = 0
    /\ system_seq = 0 /\ source_seq = <<>>
    /\ definition_hash = 0 /\ prev_definition_hash = 0
    /\ transition = None
    /\ cursor_abs = 0 /\ tracker = NewTracker
    /\ resolver = [run_default_epoch |-> 1 :> 1, epoch_boundaries |-> <<>>, pending_epoch |-> 0]
    /\ got = <<>>
    /\ epoch_at = <<>>

\* The early return TransitionInProgress of the methods that need no transition.
NotInTransition == transition = None

\* The sequence number is taken before the write and is not given back when the
\* ring rejects the record.
emit_data(s, len) ==
    LET rec == RecordOf(run_id, s, Lookup(source_seq, s), len, [kind |-> "data"]) IN
    /\ NotInTransition /\ RoomFor(1)
    /\ source_seq' = Put(source_seq, s, Lookup(source_seq, s) + 1)
    /\ ring' = TryWrite(ring, rec)
    /\ epoch_at' = IF Fits(rec)
                   THEN Put(epoch_at, StartAbs(ring.head_abs, len), epoch_id) ELSE epoch_at
    /\ UNCHANGED <<identityVars, system_seq, transition, consumerVars>>

\* One checkpoint per source that ever emitted in this run, in source order.
HighWaterRecords ==
    LET sources == SetToSortSeq(DOMAIN source_seq, <) IN
    [i \in DOMAIN sources |->
        RecordOf(run_id, sources[i], source_seq[sources[i]], HighWaterLen,
                 [kind |-> "high_water", produced |-> source_seq[sources[i]]])]

\* Faulty variant of AfterCheckpoints: a checkpoint takes no sequence number.
UnchangedByCheckpoints(n) == source_seq

\* Sequence numbers after the first n checkpoints were written.
AfterCheckpoints(n) ==
    [s \in DOMAIN source_seq |->
        IF \E i \in 1 .. n : HighWaterRecords[i].source_id = s
        THEN source_seq[s] + 1 ELSE source_seq[s]]

checkpoint_high_water ==
    LET n == Written(HighWaterRecords) IN
    /\ NotInTransition /\ RoomFor(Len(HighWaterRecords))
    /\ ring' = FoldLeft(write_record, ring, SubSeq(HighWaterRecords, 1, n))
    /\ source_seq' = AfterCheckpoints(n)
    /\ UNCHANGED <<identityVars, system_seq, transition, consumerVars, epoch_at>>

\* LoggerStopped, then the checkpoints; the transition opens only if all of them
\* were written.  The caller names the published hash as the old one.
begin_epoch_transition(new_epoch) ==
    LET stopped == SystemRecord(run_id, system_seq, StoppedLen, [kind |-> "stopped"])
        recs == <<stopped>> \o HighWaterRecords
        n == Written(recs)
    IN /\ NotInTransition /\ RoomFor(Len(recs))
       /\ ring' = FoldLeft(write_record, ring, SubSeq(recs, 1, n))
       /\ system_seq' = system_seq + 1
       /\ source_seq' = AfterCheckpoints(n - 1)
       /\ transition' = IF n = Len(recs)
                        THEN PendingTransition(definition_hash, new_epoch) ELSE None
       /\ UNCHANGED <<identityVars, consumerVars, epoch_at>>

\* The pending transition is taken out first and put back only after the write:
\* when the record does not fit the transition is gone.
emit_definition_changed ==
    LET rec == SystemRecord(run_id, system_seq, definition_len,
                            [kind |-> "definition_changed", epoch_id |-> transition.epoch_id])
    IN /\ transition # None /\ RoomFor(1)
       /\ ~transition.definition_changed_emitted
       /\ system_seq' = system_seq + 1
       /\ ring' = TryWrite(ring, rec)
       /\ transition' = IF Fits(rec)
                        THEN [transition EXCEPT !.definition_changed_emitted = TRUE] ELSE None
       /\ UNCHANGED <<identityVars, source_seq, consumerVars, epoch_at>>

\* Faulty variant of PublishEpoch: the offset of the previous epoch stays.
PublishHashesOnly(ok, start) ==
    /\ epoch_first_abs' = epoch_first_abs
    /\ prev_definition_hash' = IF ok THEN transition.def_hash_old ELSE prev_definition_hash
    /\ definition_hash' = IF ok THEN transition.def_hash_new ELSE definition_hash

\* The offset and the hashes are published only if LoggerStarted was written.
PublishEpoch(ok, start) ==
    /\ epoch_first_abs' = IF ok THEN start ELSE epoch_first_abs
    /\ prev_definition_hash' = IF ok THEN transition.def_hash_old ELSE prev_definition_hash
    /\ definition_hash' = IF ok THEN transition.def_hash_new ELSE definition_hash

\* LoggerStarted closes the transition under the run and sequence it is given.
CloseTransition(run, seq, cold) ==
    LET rec == SystemRecord(run, seq, StartedLen, [kind |-> "started", cold |-> cold])
    IN /\ transition # None /\ RoomFor(1)
       /\ transition.definition_changed_emitted
       /\ transition' = None
       /\ run_id' = run
       /\ epoch_id' = transition.epoch_id
       /\ system_seq' = seq + 1
       /\ ring' = TryWrite(ring, rec)
       /\ PublishEpoch(Fits(rec), StartAbs(ring.head_abs, rec.len))
       /\ UNCHANGED <<consumerVars, epoch_at>>

finish_definition_change ==
    /\ CloseTransition(run_id, system_seq, FALSE)
    /\ UNCHANGED source_seq

\* Faulty variant of finish_cold_start: the sources go on counting.
finish_cold_start_keeping_seqs ==
    /\ CloseTransition(run_id + 1, 0, TRUE)
    /\ UNCHANGED source_seq

finish_cold_start ==
    /\ CloseTransition(run_id + 1, 0, TRUE)
    /\ source_seq' = <<>>

-----------------------------------------------------------------------------
(* The consumer.                                                            *)

\* DefinitionChanged names the epoch that the next LoggerStarted opens; one
\* without a pending epoch is ignored.  A warm start sorts all boundaries again.
observe(res, read) ==
    LET run == read.rec.run_id
        known == IF run \in DOMAIN res.epoch_boundaries
                 THEN res.epoch_boundaries[run] ELSE <<>>
        boundary == [start_abs |-> read.start_abs, epoch_id |-> res.pending_epoch]
        pushed == Put(res.epoch_boundaries, run, Append(known, boundary))
        sorted == [r \in DOMAIN pushed |->
                    SortSeq(pushed[r], LAMBDA a, b : a.start_abs < b.start_abs)]
    IN IF read.rec.body.kind = "definition_changed"
       THEN [res EXCEPT !.pending_epoch = read.rec.body.epoch_id]
       ELSE IF read.rec.body.kind = "started" /\ res.pending_epoch # 0
       THEN [run_default_epoch |-> IF read.rec.body.cold
                                   THEN Put(res.run_default_epoch, run, res.pending_epoch)
                                   ELSE res.run_default_epoch,
             epoch_boundaries |-> IF read.rec.body.cold THEN pushed ELSE sorted,
             pending_epoch |-> 0]
       ELSE res

\* Faulty variants of resolve: the first boundary below the record is taken; the
\* latest boundary is taken wherever the record is.
resolve_first(res, run, start_abs) ==
    LET known == IF run \in DOMAIN res.epoch_boundaries
                 THEN res.epoch_boundaries[run] ELSE <<>>
        below == SelectSeq(known, LAMBDA b : b.start_abs <= start_abs)
    IN IF below # <<>> THEN Head(below).epoch_id ELSE Lookup(res.run_default_epoch, run)

resolve_latest(res, run, start_abs) ==
    LET known == IF run \in DOMAIN res.epoch_boundaries
                 THEN res.epoch_boundaries[run] ELSE <<>>
    IN IF known # <<>> THEN Last(known).epoch_id ELSE Lookup(res.run_default_epoch, run)

\* The epoch of a record at start_abs, or 0 for none.
resolve(res, run, start_abs) ==
    LET known == IF run \in DOMAIN res.epoch_boundaries
                 THEN res.epoch_boundaries[run] ELSE <<>>
        below == SelectSeq(known, LAMBDA b : b.start_abs <= start_abs)
    IN IF below # <<>> THEN Last(below).epoch_id ELSE Lookup(res.run_default_epoch, run)

Poll ==
    LET batch == read_raw_from(ring, cursor_abs) IN
    /\ batch.status = "ok"
    /\ cursor_abs' = batch.next_abs
    /\ tracker' = FoldLeft(LAMBDA t, r : account(t, r.rec), tracker, batch.records)
    /\ resolver' = FoldLeft(observe, resolver, batch.records)
    /\ got' = got \o batch.records
    /\ UNCHANGED <<ring, identityVars, sequenceVars, transition, epoch_at>>

EpochNext ==
    /\ \/ \E s \in Source : emit_data(s, DataLen)
       \/ checkpoint_high_water
       \/ epoch_id < MaxEpoch /\ begin_epoch_transition(epoch_id + 1)
       \/ emit_definition_changed
       \/ finish_definition_change
       \/ finish_cold_start
       \/ Poll
    /\ UNCHANGED definition_len

EpochSpec == EpochInit /\ [][EpochNext]_epochVars

-----------------------------------------------------------------------------
DataGiven == {i \in DOMAIN got : got[i].rec.body.kind = "data"}

Resolved(i) == resolve(resolver, got[i].rec.run_id, got[i].start_abs)

TrueEpoch(i) == epoch_at[got[i].start_abs]

\* The consumer was never lapped: it was given every record behind its cursor.
KeptUp == Len(got) = Cardinality({i \in DOMAIN ring.written :
                                    ring.written[i].end_abs <= cursor_abs})

\* A consumer that keeps up resolves every data record it was given to the epoch
\* the producer was in when it wrote it, now and after any later transition, warm
\* or cold (EpochResolver over the records EpochProducer brackets).
EpochResolved ==
    KeptUp => \A i \in DataGiven : Resolved(i) = TrueEpoch(i)

\* However many transition records a lapped consumer missed, no data record
\* resolves to an epoch that had not yet begun when it was written.
NeverFutureEpoch ==
    \A i \in DataGiven : Resolved(i) <= TrueEpoch(i)

\* What control_snapshot publishes splits the data records by epoch: those at or
\* after epoch_first_abs are of epoch_id, the ones before it are of older epochs.
SnapshotSplitsEpochs ==
    \A abs \in DOMAIN epoch_at : epoch_at[abs] = epoch_id <=> abs >= epoch_first_abs

\* No two records of a stream share a sequence number and the numbers grow, even
\* when the ring rejects some of the writes.
SeqsIncrease ==
    \A i, j \in DOMAIN ring.written :
        (i < j /\ StreamOf(ring.written[i].rec) = StreamOf(ring.written[j].rec))
            => ring.written[i].rec.seq < ring.written[j].rec.seq

\* A sequence number that the consumer counts as lost belongs to a record that was
\* written in that run and is no longer retained: a cold start makes no phantom
\* loss in the run it closes or in the one it opens.  (A rejected write uses up a
\* number that no record has.)
LossIsReal ==
    NoneRejected => \A e \in tracker.events : \A q \in e.first_seq .. e.last_seq :
        \E i \in 1 .. ring.lost_count :
            StreamOf(ring.written[i].rec) = e.stream /\ ring.written[i].rec.seq = q

=============================================================================
