------------------------------ MODULE Harness ------------------------------
(***************************************************************************)
(* The live harness (crates/live-harness/src/main.rs) with the conformance  *)
(* checks it applies (crates/conformance/src/lib.rs) and the shared mapping *)
(* it runs over (crates/open-ot-shm/src/lib.rs): an orchestrator that       *)
(* creates a mapping, spawns a consumer and a producer process, waits for   *)
(* both and judges the report the consumer wrote; and a done file through   *)
(* which the producer tells the consumer that the stream is complete.       *)
(*                                                                          *)
(* Each run has a mapping of its own, but all runs share the paths of the   *)
(* done file and of the report.  A poll is two steps, the control snapshot  *)
(* and the walk with its re-checks; what a walk may return while the        *)
(* producer writes is what ConcurrentRing shows of it.  An append is two    *)
(* steps as well, so that a producer may die with the sequence lock odd.    *)
(***************************************************************************)
EXTENDS RingGeometry, LossTracker

CONSTANTS
    Sources,     \* --sources: source ids are 1 .. Sources
    PerSource,   \* --per-source
    MessageLen,  \* cells of a message record with its expected-offset slot
    HighWaterLen,\* cells of a SourceHighWater record with its slot
    MinLaps,     \* laps the head must have made for a run to count (100)
    MaxRuns      \* bound: runs of the harness on the same paths

ASSUME HarnessAssumption ==
    /\ Sources \in Nat \ {0} /\ PerSource \in Nat /\ MinLaps \in Nat /\ MaxRuns \in Nat
    /\ {MessageLen, HighWaterLen} \subseteq HeaderLen .. Capacity

\* The settings of a run: the high-water records at the end of the stream, with a tail
\* skipped among them, do not push each other out of the pool, as with the defaults
\* (512 bytes for one source, 4096 for four).
ASSUME CheckpointsRetained == Sources * HighWaterLen + (HighWaterLen - 1) <= Capacity

VARIABLES
    fence_mode,   \* "fenced" or "unfenced", for the whole behaviour
    run,          \* the current run, 0 before the first
    step,         \* where run_once of the current run is
    result,       \* what the last finished run_once returned
    mapping,      \* mapping[r]: the control block and records of run r's file
    producer,     \* producer process of the current run: [state, next]
    consumers,    \* consumers[r]: the consumer process of run r
    done,         \* the done file exists
    observed,     \* the report file: a report, or NoReport
    spawn_failed  \* history: some run could not spawn its producer

vars == <<fence_mode, run, step, result, mapping, producer, consumers, done, observed,
          spawn_failed>>

Run == 1 .. MaxRuns
source_ids == 1 .. Sources
RunId == 1

-----------------------------------------------------------------------------
(* The mapping.                                                             *)

\* create_with_mode: a zeroed file, whose control block initialize_counters sets.  log is
\* history: where each record was put.
NewMapping == [head |-> 0, oldest |-> 0, lost |-> 0, lock |-> 0, spans |-> <<>>,
               log |-> <<>>]

Record(source, seq, kind) ==
    [run_id |-> RunId, source_id |-> source, seq |-> seq,
     body |-> IF kind = "message" THEN [kind |-> "data"]
              ELSE [kind |-> "high_water", produced |-> seq]]

EncodedLen(rec) == IF rec.body.kind = "data" THEN MessageLen ELSE HighWaterLen

\* The records producer_cmd appends: message seq of every source for each seq, then a
\* high-water record per source.
Program ==
    [i \in 1 .. Sources * (PerSource + 1) |->
        LET source == ((i - 1) % Sources) + 1
            seq == (i - 1) \div Sources
        IN Record(source, seq, IF seq < PerSource THEN "message" ELSE "high_water")]

\* A record as published: with the offset that record_with_expected_abs embedded.
Published(rec, head) ==
    [rec |-> rec, start |-> StartAbs(head, EncodedLen(rec)),
     len |-> EncodedLen(rec), embedded |-> StartAbs(head, EncodedLen(rec))]

EndOf(span) == span.start + span.len

Kept(m, rec) ==
    LET floor == RetentionFloor(EndOf(Published(rec, m.head)))
    IN SelectSeq(m.spans, LAMBDA s : s.start >= floor)

\* append_bytes_core up to the clobbering: the lock is odd and the oldest offset
\* published (evict_before_clobber).
BeginAppend(m, rec) ==
    LET kept == Kept(m, rec) IN
    [m EXCEPT !.lock = @ + 1,
              !.lost = @ + Len(m.spans) - Len(kept),
              !.oldest = IF kept = <<>> THEN Published(rec, m.head).start ELSE kept[1].start,
              !.spans = kept]

\* The rest of append_bytes_core: the bytes, the head, the lock even again.
EndAppend(m, rec) ==
    LET span == Published(rec, m.head) IN
    [m EXCEPT !.lock = @ + 1, !.spans = Append(@, span), !.head = EndOf(span),
              !.log = Append(@, span.start)]

-----------------------------------------------------------------------------
(* The producer process: producer_cmd.                                      *)
NoProducer == [state |-> "none", next |-> 1]

BeginPublish ==
    /\ producer.state = "ready" /\ producer.next <= Len(Program)
    /\ mapping' = [mapping EXCEPT ![run] = BeginAppend(@, Program[producer.next])]
    /\ producer' = [producer EXCEPT !.state = "appending"]
    /\ UNCHANGED <<fence_mode, run, step, result, consumers, done, observed, spawn_failed>>

EndPublish ==
    /\ producer.state = "appending"
    /\ mapping' = [mapping EXCEPT ![run] = EndAppend(@, Program[producer.next])]
    /\ producer' = [state |-> "ready", next |-> producer.next + 1]
    /\ UNCHANGED <<fence_mode, run, step, result, consumers, done, observed, spawn_failed>>

\* write_done_atomic by rename, then the process exits with success.
WriteDone ==
    /\ producer.state = "ready" /\ producer.next > Len(Program)
    /\ done' = TRUE
    /\ producer' = [producer EXCEPT !.state = "succeeded"]
    /\ UNCHANGED <<fence_mode, run, step, result, mapping, consumers, observed, spawn_failed>>

\* The producer process dies, wherever it is.
ProducerDies ==
    /\ producer.state \in {"ready", "appending"}
    /\ producer' = [producer EXCEPT !.state = "failed"]
    /\ UNCHANGED <<fence_mode, run, step, result, mapping, consumers, done, observed,
                   spawn_failed>>

-----------------------------------------------------------------------------
(* The oracles and the observer (open-ot-conformance).  What a consumer got is *)
(* a sequence of [rec, at, embedded]: a record, the offset it was read at and  *)
(* the offset its slot names.                                                  *)

\* Faulty variant of next_start_abs: a record that ends at the end of the pool wraps.
next_start_abs_strict(head, len) ==
    IF Phys(head) = 0 \/ Phys(head) + len < Capacity
    THEN head ELSE head + (Capacity - Phys(head))

next_start_abs(head, len) ==
    IF Phys(head) = 0 \/ Phys(head) + len <= Capacity
    THEN head ELSE head + (Capacity - Phys(head))

\* SidecarExpectedAbsOracle::new over the expected records in producer order.
SidecarExpected ==
    LET place(starts, rec) ==
            LET last == Len(starts)
                head == IF starts = <<>> THEN 0 ELSE starts[last] + EncodedLen(Program[last])
            IN Append(starts, next_start_abs(head, EncodedLen(rec)))
    IN FoldLeft(place, <<>>, Program)

ExpectedOf(rec) == SidecarExpected[CHOOSE i \in DOMAIN Program : Program[i] = rec]

\* EmbeddedAbsOracle::observe.
EmbeddedMismatch(read) == read.at # read.embedded

\* SidecarExpectedAbsOracle::observe: a misplaced record, and one out of order with
\* the record observed before it.
SidecarMismatch(read) == read.at # ExpectedOf(read.rec)
SidecarMisordered(got, i) ==
    i > 1 /\ ExpectedOf(got[i].rec) < ExpectedOf(got[i - 1].rec)

\* BatchObserver: the state after one more read.  next is the sequence number
\* expected of each source, stale the positions that were reported.
NewObserver == [seen |-> {}, next |-> [s \in source_ids |-> 0], stale |-> {}, count |-> 0]

\* Faulty variant of observe_sequence: only duplicates are reported.
ObserveDuplicates(o, read) ==
    LET s == read.rec.source_id IN
    IF read.rec \in o.seen THEN [o EXCEPT !.stale = @ \cup {o.count}]
    ELSE [o EXCEPT !.seen = @ \cup {read.rec}, !.next[s] = read.rec.seq + 1]

observe_sequence(o, read) ==
    LET s == read.rec.source_id IN
    IF read.rec \in o.seen THEN [o EXCEPT !.stale = @ \cup {o.count}]
    ELSE IF read.rec.seq < o.next[s]
    THEN [o EXCEPT !.seen = @ \cup {read.rec}, !.stale = @ \cup {o.count}]
    ELSE [o EXCEPT !.seen = @ \cup {read.rec}, !.next[s] = read.rec.seq + 1]

observe(o, read) ==
    LET counted == [o EXCEPT !.count = @ + 1]
        judged == IF EmbeddedMismatch(read)
                  THEN [counted EXCEPT !.stale = @ \cup {counted.count}] ELSE counted
    IN observe_sequence(judged, read)

-----------------------------------------------------------------------------
(* The consumer process: consumer_cmd.                                      *)
NoSnapshot == [head |-> 0, oldest |-> 0, spans |-> <<>>]

NewConsumer ==
    [pc |-> "poll", cursor |-> 0, snap |-> NoSnapshot, batch |-> <<>>, got |-> <<>>,
     rejected |-> FALSE, observer |-> NewObserver, accounting |-> NewTracker]
NoConsumer == [NewConsumer EXCEPT !.pc = "none"]

Running(c) == c.pc \in {"poll", "walk", "batch", "check", "compare"}

Becomes(r, c) ==
    /\ consumers' = [consumers EXCEPT ![r] = c]
    /\ UNCHANGED <<fence_mode, run, step, result, mapping, producer, done, spawn_failed>>

\* poll returned a batch, to be taken record by record before the done file is looked at.
AfterPoll(c, cursor, batch) ==
    [c EXCEPT !.pc = IF batch = <<>> THEN "check" ELSE "batch",
              !.cursor = cursor, !.snap = NoSnapshot, !.batch = batch]

\* The next record of the batch: observe_batch and account_batch.
TakeRead(r) ==
    LET c == consumers[r]
        read == Head(c.batch)
    IN /\ c.pc = "batch"
       /\ Becomes(r, [c EXCEPT !.pc = IF Len(c.batch) = 1 THEN "check" ELSE "batch",
                               !.batch = Tail(@),
                               !.got = Append(@, read),
                               !.observer = observe(@, read),
                               !.accounting = account(@, read.rec)])
       /\ UNCHANGED observed

\* The control snapshot.  While the lock is odd its retries may run out, and poll
\* returns an empty batch.
PollSnapshot(r) ==
    LET c == consumers[r]
        m == mapping[r]
        from == IF c.cursor < m.oldest THEN m.oldest ELSE c.cursor
    IN /\ c.pc = "poll"
       /\ IF m.lock % 2 = 0
          THEN Becomes(r, [c EXCEPT !.pc = "walk",
                    !.snap = [head |-> m.head, oldest |-> m.oldest,
                              spans |-> SelectSeq(m.spans, LAMBDA s : s.start >= from)]])
          ELSE Becomes(r, AfterPoll(c, c.cursor, <<>>))
       /\ UNCHANGED observed

ReadAt(span, at) == [rec |-> span.rec, at |-> at, embedded |-> span.embedded]

\* The producer has reclaimed what the walk was to read.
Overtaken(c, m) == m.oldest # c.snap.oldest /\ m.oldest > c.cursor

\* What the walk may read where span was: span itself, or, without the fences, a
\* record of a later lap that lies exactly there.
Readable(span, m) ==
    {span} \cup {s \in ToSet(m.spans) : /\ fence_mode = "unfenced"
                                        /\ s.start > span.start
                                        /\ Phys(s.start) = Phys(span.start)
                                        /\ s.len = span.len}

WalkReturns(r) ==
    LET c == consumers[r]
        m == mapping[r]
        spans == c.snap.spans
    IN /\ c.pc = "walk"
       /\ fence_mode = "unfenced" \/ ~Overtaken(c, m)
       /\ \E read \in [DOMAIN spans -> UNION {Readable(spans[i], m) : i \in DOMAIN spans}] :
            /\ \A i \in DOMAIN spans : read[i] \in Readable(spans[i], m)
            /\ Becomes(r, AfterPoll(c, c.snap.head,
                    [i \in DOMAIN spans |-> ReadAt(read[i], spans[i].start)]))
       /\ UNCHANGED observed

\* Overtaken: poll laps to the oldest offset, having met the re-check or, if rejected,
\* a wire fault.
WalkLaps(r) ==
    LET c == consumers[r] IN
    /\ c.pc = "walk" /\ Overtaken(c, mapping[r])
    /\ \E rejected \in BOOLEAN :
        Becomes(r, [AfterPoll(c, mapping[r].oldest, <<>>) EXCEPT !.rejected = @ \/ rejected])
    /\ UNCHANGED observed

\* Overtaken, and what the walk meets is an error poll does not recover from: the
\* process exits without a report.
WalkFails(r) ==
    /\ consumers[r].pc = "walk" /\ Overtaken(consumers[r], mapping[r])
    /\ Becomes(r, [consumers[r] EXCEPT !.pc = "failed"])
    /\ UNCHANGED observed

\* args.done.exists(), the first half of the condition to stop.
CheckDone(r) ==
    LET c == consumers[r] IN
    /\ c.pc = "check"
    /\ Becomes(r, [c EXCEPT !.pc = IF done THEN "compare" ELSE "poll"])
    /\ UNCHANGED observed

\* ObservedReport::from_consumer and write, the counters loaded from the store now.
Report(r, c) ==
    [of |-> r, head |-> mapping[r].head, lost_count |-> mapping[r].lost,
     rejected |-> c.rejected, stale |-> c.observer.stale # {},
     delivered |-> [s \in source_ids |-> Delivered(c.accounting, <<RunId, s>>)],
     lost |-> [s \in source_ids |-> Lost(c.accounting, <<RunId, s>>)]]
NoReport == [of |-> 0]

\* raw.cursor_abs() == raw.head_abs(), the second half: the report, or once more.
CompareHead(r) ==
    LET c == consumers[r]
        caught_up == c.cursor = mapping[r].head
    IN /\ c.pc = "compare"
       /\ Becomes(r, [c EXCEPT !.pc = IF caught_up THEN "reported" ELSE "poll"])
       /\ observed' = IF caught_up THEN Report(r, c) ELSE observed

\* Faulty variant of TimeOut: the deadline is looked at only once the done file exists.
TimeOutAfterDone(r) ==
    LET c == consumers[r] IN
    /\ c.pc = "compare" /\ c.cursor # mapping[r].head
    /\ Becomes(r, [c EXCEPT !.pc = "failed"])
    /\ UNCHANGED observed

\* The condition to stop does not hold and the deadline has passed.
TimeOut(r) ==
    LET c == consumers[r] IN
    /\ \/ c.pc = "check" /\ ~done
       \/ c.pc = "compare" /\ c.cursor # mapping[r].head
    /\ Becomes(r, [c EXCEPT !.pc = "failed"])
    /\ UNCHANGED observed

Consume(r) ==
    \/ PollSnapshot(r)
    \/ WalkReturns(r)
    \/ WalkLaps(r)
    \/ WalkFails(r)
    \/ TakeRead(r)
    \/ CheckDone(r)
    \/ CompareHead(r)

-----------------------------------------------------------------------------
(* The orchestrator: run_once.                                              *)

\* Faulty variant of expected_sources: the high-water record is not counted.
expected_messages == [s \in source_ids |-> PerSource]

expected_sources == [s \in source_ids |-> PerSource + 1]

Total(counts) == MapThenSumSet(LAMBDA s : counts[s], source_ids)

assert_run_result(report) ==
    LET reconciled(s) == report.delivered[s] + report.lost[s] IN
    CASE Total(report.delivered) = 0 -> "no progress"
      [] Total(report.delivered) > 0 /\ report.head <= Capacity * MinLaps -> "too short"
      [] OTHER ->
        IF report.lost_count = 0 THEN "no evictions"
        ELSE IF fence_mode = "unfenced" THEN "ok"
        ELSE IF Total(report.delivered) + Total(report.lost) < Total(expected_sources)
        THEN "not reconciled"
        ELSE IF report.stale THEN "stale records"
        ELSE IF \E s \in source_ids : reconciled(s) # expected_sources[s]
        THEN "not reconciled" ELSE "ok"

\* What is left of earlier runs: the consumers that still run.  The mapping of such a
\* consumer is an unlinked file that no producer ever wrote to.
Survivors == [r \in Run |-> IF Running(consumers[r]) THEN consumers[r] ELSE NoConsumer]

\* Faulty variant of Prepare: the done file of an earlier run is left behind.
PrepareLeavingDone ==
    /\ step = "returned" /\ run < MaxRuns
    /\ run' = run + 1
    /\ step' = "prepared"
    /\ observed' = NoReport
    /\ mapping' = [r \in Run |-> NewMapping]
    /\ consumers' = Survivors
    /\ producer' = NoProducer
    /\ result' = "none"
    /\ UNCHANGED <<fence_mode, done, spawn_failed>>

\* A run begins, by a new command or by run_stress_cmd's loop: the files of earlier
\* runs are removed and a new mapping is created.
Prepare ==
    /\ step = "returned" /\ run < MaxRuns
    /\ run' = run + 1
    /\ step' = "prepared"
    /\ done' = FALSE
    /\ observed' = NoReport
    /\ mapping' = [r \in Run |-> NewMapping]
    /\ consumers' = Survivors
    /\ producer' = NoProducer
    /\ result' = "none"
    /\ UNCHANGED <<fence_mode, spawn_failed>>

SpawnConsumer ==
    /\ step = "prepared"
    /\ step' = "consumer spawned"
    /\ consumers' = [consumers EXCEPT ![run] = NewConsumer]
    /\ UNCHANGED <<fence_mode, run, result, mapping, producer, done, observed, spawn_failed>>

SpawnProducer ==
    /\ step = "consumer spawned"
    /\ step' = "waiting for producer"
    /\ producer' = [producer EXCEPT !.state = "ready"]
    /\ UNCHANGED <<fence_mode, run, result, mapping, consumers, done, observed, spawn_failed>>

Returns(outcome) == step' = "returned" /\ result' = outcome

\* producer.spawn()? returns at once and leaves the consumer process running.
SpawnFails ==
    /\ step = "consumer spawned"
    /\ Returns("not spawned")
    /\ spawn_failed' = TRUE
    /\ UNCHANGED <<fence_mode, run, mapping, producer, consumers, done, observed>>

\* producer.wait(): a failed producer takes the consumer with it.
WaitProducer ==
    /\ step = "waiting for producer"
    /\ \/ /\ producer.state = "succeeded"
          /\ step' = "waiting for consumer"
          /\ UNCHANGED <<result, consumers>>
       \/ /\ producer.state = "failed"
          /\ Returns("producer failed")
          /\ consumers' = [consumers EXCEPT ![run] =
                IF Running(@) THEN [@ EXCEPT !.pc = "killed"] ELSE @]
    /\ UNCHANGED <<fence_mode, run, mapping, producer, done, observed, spawn_failed>>

\* consumer.wait(), then the report is read and judged.
WaitConsumer ==
    /\ step = "waiting for consumer"
    /\ \/ consumers[run].pc = "failed" /\ Returns("consumer failed")
       \/ consumers[run].pc = "reported" /\ Returns(assert_run_result(observed))
    /\ UNCHANGED <<fence_mode, run, mapping, producer, consumers, done, observed, spawn_failed>>

-----------------------------------------------------------------------------
HarnessInit ==
    /\ fence_mode \in {"fenced", "unfenced"}
    /\ run = 0
    /\ step = "returned"
    /\ result = "none"
    /\ mapping = [r \in Run |-> NewMapping]
    /\ producer = NoProducer
    /\ consumers = [r \in Run |-> NoConsumer]
    /\ done = FALSE
    /\ observed = NoReport
    /\ spawn_failed = FALSE

Produce == BeginPublish \/ EndPublish \/ WriteDone

Orchestrate == SpawnConsumer \/ SpawnProducer \/ SpawnFails \/ WaitProducer \/ WaitConsumer

Finished ==
    /\ run = MaxRuns /\ step = "returned" /\ \A r \in Run : ~Running(consumers[r])
    /\ UNCHANGED vars

Next ==
    \/ Prepare
    \/ Orchestrate
    \/ Produce
    \/ ProducerDies
    \/ \E r \in Run : Consume(r) \/ TimeOut(r)
    \/ Finished

\* The three processes are scheduled, and a consumer that comes to its deadline check
\* again and again finds it passed in the end; nothing makes an operator start another
\* run, or a producer die.
HarnessSpec ==
    /\ HarnessInit /\ [][Next]_vars
    /\ WF_vars(Orchestrate) /\ WF_vars(Produce)
    /\ \A r \in Run : WF_vars(Consume(r)) /\ SF_vars(TimeOut(r))

-----------------------------------------------------------------------------
\* Where the producer of run r put the record.
PutAt(r, rec) == mapping[r].log[CHOOSE i \in DOMAIN Program : Program[i] = rec]

\* The oracle and the observer flag exactly the reads that are wrong: those of a record
\* that was published elsewhere in the stream, and those that do not come after every
\* earlier read of their source (EmbeddedAbsOracle, BatchObserver::observe_sequence).
StaleIsCaught ==
    \A r \in Run : LET c == consumers[r] IN
        c.observer.stale =
            {i \in DOMAIN c.got :
                \/ c.got[i].at # PutAt(r, c.got[i].rec)
                \/ \E j \in 1 .. (i - 1) : /\ c.got[j].rec.source_id = c.got[i].rec.source_id
                                           /\ c.got[j].rec.seq >= c.got[i].rec.seq}

\* The sidecar oracle, which recomputes every offset from the expected records, finds the
\* same reads misplaced as the slots embedded in the records do, and calls a read out of
\* order only after a misplaced one (SidecarExpectedAbsOracle against EmbeddedAbsOracle).
OraclesAgree ==
    \A r \in Run : LET got == consumers[r].got IN
        \A i \in DOMAIN got :
            /\ SidecarMismatch(got[i]) <=> EmbeddedMismatch(got[i])
            /\ SidecarMisordered(got, i) => EmbeddedMismatch(got[i]) \/ EmbeddedMismatch(got[i - 1])

InLoss(c, rec) ==
    \E e \in c.accounting.events :
        e.stream = StreamOf(rec) /\ rec.seq \in e.first_seq .. e.last_seq

Got(c, rec) == \E i \in DOMAIN c.got : c.got[i].rec = rec

\* A consumer that reports in a fenced run has heard of every record its producer wrote,
\* the last ones included: each is delivered or in a loss range, and not both
\* (the done file, then the comparison of cursor and head, in consumer_cmd).
ReportIsComplete ==
    \A r \in Run :
        /\ fence_mode = "fenced" /\ ~spawn_failed /\ consumers[r].pc = "reported"
        => \A i \in DOMAIN Program : Got(consumers[r], Program[i]) # InLoss(consumers[r], Program[i])

\* However producer and consumer interleave, and whatever earlier runs left behind, a
\* fenced run whose processes both succeed is never judged stale, unreconciled or without
\* progress, unless an earlier run left its consumer running (assert_run_result).
RunNeverAccuses ==
    fence_mode = "fenced" /\ ~spawn_failed =>
        result \notin {"no progress", "not reconciled", "stale records"}

\* The harness always comes to rest: run_once returns and every process it spawned ends,
\* with the producer dead inside an append and the lock odd for good, and also when the
\* producer was never spawned (the deadline of consumer_cmd, the kill in run_once).
RunsEnd == []<>(step = "returned" /\ \A r \in Run : ~Running(consumers[r]))

=============================================================================
