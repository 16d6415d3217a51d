----------------------------- MODULE StProducer -----------------------------
(***************************************************************************)
(* OPENOT_Producer of st/iec61131/src/openot_producer.st: the function block*)
(* that a PLC program calls to log.  It keeps its tables, numbers the       *)
(* records, writes each one into its ring (Ring256) and hands it to the     *)
(* runtime through the list ScanRecords, which the runtime reads after the  *)
(* scan.                                                                    *)
(*                                                                          *)
(* The block's variables are one record p, the ring is fb.  A call with a   *)
(* rising edge of Execute is one action; any other call at most resets the  *)
(* list.  An input is a choice: a source, a value, whether the fields of a  *)
(* command are complete and short enough.  Times, names and the debug log   *)
(* Emissions are left out.  Definition hashes are named by their epoch.     *)
(***************************************************************************)
EXTENDS Ring256, LossTracker, TLC

CONSTANTS
    SourceSlots,    \* entries of Sources
    StateSlots,     \* entries of each table of values, machines and conditions
    AttestSlots,    \* entries of AttestableEvents, and the largest id they take
    ScanSlots,      \* entries of ScanRecordOffsets
    ScanBytes,      \* length of ScanRecords
    Deadband,       \* deadband of the REAL values
    Programs        \* the PLC programs: the operations and inputs each uses

ASSUME ProducerAssumption ==
    /\ {SourceSlots, StateSlots, ScanSlots, ScanBytes} \subseteq Nat \ {0}
    /\ AttestSlots \in Nat /\ Deadband \in Nat
    \* A transition's burst fits the list: LoggerStopped and a checkpoint per source.
    /\ SourceSlots < ScanSlots

VARIABLES
    p,        \* the block
    program,  \* the program that calls it: never changes
    seen      \* the runtime: what it knew at its last reading of the outputs

producerVars == <<fb, p, program, seen>>

NoValue == -1
NewValueState == [LastValue |-> NoValue, BandCenter |-> NoValue, HasLastEmit |-> FALSE]

\* published, issued and observed are history: every record that entered the list
\* with the attestable id it was given, the commands issued, and the value of each
\* id at the last call for it that reported no error.
NewProducer ==
    [Sources |-> <<>>, Values |-> <<>>, Machines |-> <<>>, Conditions |-> <<>>,
     Attestables |-> <<>>,
     RunId |-> 1, SystemSeq |-> 0, EpochId |-> 1, EpochFirstAbs |-> 0,
     DefinitionHash |-> 0, PrevDefinitionHash |-> 0, NextCorrelationId |-> 1,
     PendingOpen |-> FALSE, PendingDefChangedEmitted |-> FALSE,
     PendingEpochId |-> 0, PendingHashOld |-> 0,
     ScanRecords |-> <<>>, PublishedRecordCount |-> 0,
     DroppedCommandCount |-> 0, DroppedLifecycleCount |-> 0, Error |-> FALSE,
     published |-> <<>>, issued |-> 0, observed |-> <<>>, epoch_at |-> <<>>,
     effort |-> 0]

-----------------------------------------------------------------------------
(* Records, with the lengths of EpochStream.                                *)
SYSTEM == 0
DataLen == HeaderLen + 1
StoppedLen == HeaderLen + 1
HighWaterLen == HeaderLen + 2
StartedLen == HeaderLen + 2
DefinitionLen == HeaderLen + 3
TypedLen == HeaderLen + 2

RecordOf(q, s, seq, len, body) ==
    [run_id |-> q.RunId, source_id |-> s, seq |-> seq, len |-> len, body |-> body]

-----------------------------------------------------------------------------
(* Steps that every operation is made of.  A call in progress is the ring,  *)
(* the block and whether all has gone well so far.                          *)

Fail(q) == [q EXCEPT !.Error = TRUE]

\* OPENOT_AppendScanRecord: the list has a free entry and enough bytes.
Appends(q, rec) ==
    /\ Len(q.ScanRecords) < ScanSlots
    /\ FoldLeft(LAMBDA n, r : n + r.len, 0, q.ScanRecords) + rec.len <= ScanBytes

\* Faulty variant of Listed: the record is listed and not counted.
ListedUncounted(q, rec, attest) ==
    [q EXCEPT !.ScanRecords = Append(@, rec),
              !.published = Append(@, [rec |-> rec, attest |-> attest])]

\* The record is in the list, and counted.
Listed(q, rec, attest) ==
    [q EXCEPT !.ScanRecords = Append(@, rec),
              !.PublishedRecordCount = @ + 1,
              !.published = Append(@, [rec |-> rec, attest |-> attest])]

\* A record that the ring f took is listed.  One that the list does not take stays in
\* the ring.
HandOver(q, f, rec, attest) ==
    LET ok == f.Done /\ ~f.Error /\ Appends(q, rec)
    IN [f |-> f, ok |-> ok, q |-> IF ok THEN Listed(q, rec, attest) ELSE Fail(q)]

\* The record is written to the ring and then listed.
Emit(c, rec, attest) == HandOver(c.q, Produce(c.f, rec), rec, attest)

\* What an operation does to the block only once its record is listed.
IfListed(c, Do(_)) == IF c.ok THEN [c EXCEPT !.q = Do(@)] ELSE c

\* Nothing is written.
Only(q) == [f |-> fb, ok |-> FALSE, q |-> q]

\* The list at the start of a call: a typed operation (6 to 16) never resets it.
Reset(typed, accumulate) ==
    IF typed \/ accumulate THEN p.ScanRecords ELSE <<>>

\* The block at the start of a call with an edge.
Called(typed, accumulate) ==
    [p EXCEPT !.Error = FALSE, !.ScanRecords = Reset(typed, accumulate)]

\* A source is known, or there is a slot for it.
HasSlot(q, s) == s \in DOMAIN q.Sources \/ Cardinality(DOMAIN q.Sources) < SourceSlots

SetSeq(q, s, n) == [q EXCEPT !.Sources = Put(@, s, n)]
NextSeq(q, s) == Lookup(q.Sources, s)

\* The typed operations take source 1 when none is given.
ActiveSource(s) == IF s = 0 THEN 1 ELSE s

\* OPENOT_RecordAttestableSeq: one entry per id, whatever the source.
RecordAttestable(q, a, s, seq) ==
    IF a \in 1 .. AttestSlots
    THEN [q EXCEPT !.Attestables = Put(@, a, [SourceId |-> s, LastSeq |-> seq])] ELSE q

\* Faulty variant of Use: the sequence number is not used up.
UseFree(q, s, seq, a) == RecordAttestable(q, a, s, seq)

\* The sequence number is used up, and the attestable id bound to it.
Use(q, s, seq, a) == RecordAttestable(SetSeq(q, s, seq + 1), a, s, seq)

\* A typed record of source s: its entry is made first, and the sequence number is
\* used up only once the record is listed.
EmitTyped(q, s, len, body, a) ==
    LET seq == NextSeq(q, s) IN
    IfListed(Emit([f |-> fb, q |-> SetSeq(q, s, seq)], RecordOf(q, s, seq, len, body), a),
             LAMBDA listed : Use(listed, s, seq, a))

\* The call c ends.  effort counts the calls that changed anything.
Return(c) ==
    /\ p.effort < program.calls
    /\ fb' = c.f
    /\ p' = [c.q EXCEPT !.effort =
                IF c.f = fb /\ [c.q EXCEPT !.Error = p.Error] = p THEN @ ELSE @ + 1]
    /\ UNCHANGED <<program, seen>>

Uses(op) == op \in program.ops

UntypedOps == {"message", "staged", "checkpoint", "begin", "definition", "warm", "cold",
               "read"}

-----------------------------------------------------------------------------
(* Messages, staged records and checkpoints.                                *)

\* History: the epoch in which a record was written.
Note(c, epoch) ==
    IF c.f.Done THEN [c EXCEPT !.q.epoch_at = Put(@, c.f.LastStartAbs, epoch)] ELSE c

\* Op 0.  The sequence number is used up before the write.
Message(s, a, accumulate) ==
    LET q == Called(FALSE, accumulate)
        seq == NextSeq(q, s)
        rec == RecordOf(q, s, seq, DataLen, [kind |-> "data"])
    IN /\ Uses("message")
       /\ Return(IF q.PendingOpen \/ s = 0 \/ ~HasSlot(q, s) THEN Only(Fail(q))
                 ELSE IfListed(Note(Emit([f |-> fb, q |-> SetSeq(q, s, seq + 1)], rec, a),
                                    q.EpochId),
                               LAMBDA listed : RecordAttestable(listed, a, s, seq)))

\* Op 5: the caller encoded the record with the number it expects to be next, and
\* the source's entry is made before that number is compared.
Staged(s, seq, accumulate) ==
    LET q == Called(FALSE, accumulate)
        entered == SetSeq(q, s, NextSeq(q, s))
        rec == RecordOf(q, s, seq, DataLen, [kind |-> "data"])
    IN /\ Uses("staged")
       /\ Return(IF q.PendingOpen \/ s = 0 \/ ~HasSlot(q, s) THEN Only(Fail(q))
                 ELSE IF seq # NextSeq(q, s) THEN Only(Fail(entered))
                 ELSE IfListed(Note(Emit([f |-> fb, q |-> entered], rec, 0), q.EpochId),
                               LAMBDA listed : SetSeq(listed, s, seq + 1)))

\* One checkpoint, unless an earlier step of the call failed.
EmitHighWater(c, s) ==
    LET n == NextSeq(c.q, s)
        rec == RecordOf(c.q, s, n, HighWaterLen, [kind |-> "high_water", produced |-> n])
    IN IF c.ok THEN IfListed(Emit(c, rec, 0), LAMBDA listed : SetSeq(listed, s, n + 1)) ELSE c

Checkpoint(s, accumulate) ==
    LET q == Called(FALSE, accumulate) IN
    /\ Uses("checkpoint")
    /\ Return(IF q.PendingOpen \/ s \notin DOMAIN q.Sources THEN Only(Fail(q))
              ELSE EmitHighWater([f |-> fb, ok |-> TRUE, q |-> q], s))

-----------------------------------------------------------------------------
(* The transition.                                                          *)

\* A system record; its sequence number is used up before the write.
EmitSystem(q, len, body) ==
    Emit([f |-> fb, q |-> [q EXCEPT !.SystemSeq = @ + 1]],
         RecordOf(q, SYSTEM, q.SystemSeq, len, body), 0)

\* The transition opens once LoggerStopped and all checkpoints are listed.
Open(c, epoch) ==
    IF c.ok
    THEN [c EXCEPT !.q.PendingOpen = TRUE, !.q.PendingDefChangedEmitted = FALSE,
                   !.q.PendingEpochId = epoch, !.q.PendingHashOld = c.q.DefinitionHash]
    ELSE c

\* Op 1: LoggerStopped, then a checkpoint per source in the order of the ids.
BeginTransition(accumulate) ==
    LET q == Called(FALSE, accumulate)
        sources == SetToSortSeq(DOMAIN q.Sources, <)
    IN /\ Uses("begin")
       /\ Return(IF q.PendingOpen THEN Only(Fail(q))
                 ELSE Open(FoldLeft(EmitHighWater,
                                    EmitSystem(q, StoppedLen, [kind |-> "stopped"]), sources),
                           q.EpochId + 1))

\* Op 2.
DefinitionChanged(accumulate) ==
    LET q == Called(FALSE, accumulate)
        body == [kind |-> "definition_changed", epoch_id |-> q.PendingEpochId]
    IN /\ Uses("definition")
       /\ Return(IF ~q.PendingOpen \/ q.PendingDefChangedEmitted THEN Only(Fail(q))
                 ELSE IfListed(EmitSystem(q, DefinitionLen, body),
                          LAMBDA listed : [listed EXCEPT !.PendingDefChangedEmitted = TRUE]))

\* Once LoggerStarted is listed the epoch is published and the transition closed.
Close(c) ==
    IF c.ok
    THEN [c EXCEPT !.q.EpochFirstAbs = c.f.LastStartAbs,
                   !.q.PrevDefinitionHash = c.q.PendingHashOld,
                   !.q.DefinitionHash = c.q.PendingEpochId,
                   !.q.PendingOpen = FALSE, !.q.PendingDefChangedEmitted = FALSE]
    ELSE c

\* Faulty variant of ForgetAttestables: the entries survive the epoch.
KeepAttestables(q) == q

ForgetAttestables(q) == [q EXCEPT !.Attestables = <<>>]

MayFinish(q) == q.PendingOpen /\ q.PendingDefChangedEmitted

\* Op 3.  The epoch id is set before the write, the rest after it.
FinishWarm(accumulate) ==
    LET q == Called(FALSE, accumulate) IN
    /\ Uses("warm")
    /\ Return(IF ~MayFinish(q) THEN Only(Fail(q))
              ELSE IfListed(Close(EmitSystem([q EXCEPT !.EpochId = q.PendingEpochId],
                                             StartedLen, [kind |-> "started", cold |-> FALSE])),
                            ForgetAttestables))

\* Faulty variant of NewRun: the sources go on counting.
NewRunKeepingSources(q) ==
    [q EXCEPT !.RunId = @ + 1, !.SystemSeq = 0, !.EpochId = q.PendingEpochId]

NewRun(q) ==
    [q EXCEPT !.RunId = @ + 1, !.SystemSeq = 0, !.EpochId = q.PendingEpochId,
              !.Sources = <<>>]

\* Op 4.  The new run begins before the write: its id, and the empty tables of
\* sources and attestables.  Values, machines and conditions are kept.
FinishCold(accumulate) ==
    LET q == Called(FALSE, accumulate) IN
    /\ Uses("cold")
    /\ Return(IF ~MayFinish(q) THEN Only(Fail(q))
              ELSE Close(EmitSystem(NewRun(ForgetAttestables(q)), StartedLen,
                                    [kind |-> "started", cold |-> TRUE])))

-----------------------------------------------------------------------------
(* Values and state machines.                                               *)

\* An entry for key exists, or its table has a free slot.  A value's key starts
\* with its table, so that each table has slots of its own.
Enters(table, key, mates) ==
    key \in DOMAIN table \/ Cardinality(DOMAIN table \cap mates) < StateSlots

ValueEntry(q, key) == IF key \in DOMAIN q.Values THEN q.Values[key] ELSE NewValueState

TableOf(key) == {k \in DOMAIN p.Values : k[1] = key[1]}

Distance(x, y) == IF x < y THEN y - x ELSE x - y

\* Faulty variant of Changed: a change as large as the deadband is enough.
ChangedAtBand(entry, key, mode, v) ==
    IF mode = "band" /\ key[1] = "real"
    THEN entry.BandCenter = NoValue \/ Distance(v, entry.BandCenter) >= Deadband
    ELSE \/ entry.LastValue = NoValue
         \/ IF key[1] = "real" THEN Distance(v, entry.LastValue) >= Deadband
            ELSE v # entry.LastValue

\* The value left the deadband around the one last logged; integers, bit strings
\* and strings have none.  An audited change moves the last value, not the band.
Changed(entry, key, mode, v) ==
    IF mode = "band" /\ key[1] = "real"
    THEN entry.BandCenter = NoValue \/ Distance(v, entry.BandCenter) > Deadband
    ELSE \/ entry.LastValue = NoValue
         \/ IF key[1] = "real" THEN Distance(v, entry.LastValue) > Deadband
            ELSE v # entry.LastValue

\* Faulty variant of Remember: the entry is updated although the record is not listed.
RememberAlways(c, key, v) ==
    [c EXCEPT !.q.Values = Put(@, key, [LastValue |-> v, BandCenter |-> v,
                                        HasLastEmit |-> TRUE])]

\* The value is the last one logged.
Remember(c, key, v) ==
    IF c.ok
    THEN [c EXCEPT !.q.Values = Put(@, key, [LastValue |-> v, BandCenter |-> v,
                                             HasLastEmit |-> TRUE])]
    ELSE c

\* History: a call for the value key that reports no error.
Observe(c, key, v) ==
    IF c.q.Error THEN c ELSE [c EXCEPT !.q.observed = Put(@, key, v)]

\* Ops 6, 7, 10 and 11.  due is the answer of the periodic policy, which the times
\* decide once a record was logged: before that it is always due.
Value(source, key, mode, v, due, a) ==
    LET q == Called(TRUE, FALSE)
        s == ActiveSource(source)
        entry == ValueEntry(q, key)
        entered == [q EXCEPT !.Values = Put(@, key, entry)]
        body == [kind |-> "value", id |-> key, prev |-> entry.LastValue, new |-> v]
        emits == Changed(entry, key, mode, v) \/ (mode = "periodic" /\ due)
    IN /\ Uses("value")
       /\ mode = "periodic" /\ ~entry.HasLastEmit => due
       /\ Return(IF ~Enters(q.Values, key, TableOf(key)) THEN Only(Fail(q))
                 ELSE IF ~emits THEN Observe(Only(entered), key, v)
                 ELSE IF ~HasSlot(q, s) THEN Only(Fail(entered))
                 ELSE Observe(Remember(EmitTyped(entered, s, TypedLen, body, a), key, v),
                              key, v))

\* Op 8.  The caller names the state it left; nothing is entered when it left none.
StateTransition(source, m, prev, new, a) ==
    LET q == Called(TRUE, FALSE)
        s == ActiveSource(source)
        last == IF m \in DOMAIN q.Machines THEN q.Machines[m] ELSE NoValue
        entered == [q EXCEPT !.Machines = Put(@, m, last)]
        body == [kind |-> "state", id |-> m, prev |-> prev, new |-> new]
    IN /\ Uses("state")
       /\ Return(IF prev = new THEN Only(q)
                 ELSE IF ~Enters(q.Machines, m, DOMAIN q.Machines) THEN Only(Fail(q))
                 ELSE IF last = new THEN Only(q)
                 ELSE IF ~HasSlot(q, s) THEN Only(Fail(entered))
                 ELSE IfListed(EmitTyped(entered, s, TypedLen, body, a),
                          LAMBDA listed : [listed EXCEPT !.Machines = Put(@, m, new)]))

-----------------------------------------------------------------------------
(* Conditions.                                                              *)
NewCondition == [HasLast |-> FALSE, LastActive |-> FALSE, CorrelationId |-> 0]

\* An activation draws an id and stores it, before anything is written.
Correlate(q, key) ==
    [q EXCEPT !.Conditions[key].CorrelationId = q.NextCorrelationId,
              !.NextCorrelationId = @ + 1]

SetActive(q, key, active) ==
    [q EXCEPT !.Conditions[key].HasLast = TRUE, !.Conditions[key].LastActive = active]

\* Op 9, on an edge of the condition id of a source.
Condition(source, id, active) ==
    LET q == Called(TRUE, FALSE)
        s == ActiveSource(source)
        key == <<s, id>>
        entry == IF key \in DOMAIN q.Conditions THEN q.Conditions[key] ELSE NewCondition
        entered == [q EXCEPT !.Conditions = Put(@, key, entry)]
        drawn == IF active THEN Correlate(entered, key) ELSE entered
        body == [kind |-> IF active THEN "active" ELSE "cleared", id |-> id,
                 correlation |-> IF active THEN q.NextCorrelationId ELSE entry.CorrelationId]
        emits == IF entry.HasLast THEN entry.LastActive # active ELSE active
    IN /\ Uses("condition")
       /\ Return(IF ~Enters(q.Conditions, key, DOMAIN q.Conditions) THEN Only(Fail(q))
                 ELSE IF ~emits THEN Only(SetActive(entered, key, active))
                 ELSE IF ~HasSlot(q, s) THEN Only(Fail(entered))
                 ELSE IfListed(EmitTyped(drawn, s, TypedLen, body, 0),
                               LAMBDA listed : SetActive(listed, key, active)))

\* Faulty variant of LiveActivation: a cleared condition counts as live.
AnyActivation(q, key) ==
    /\ key \in DOMAIN q.Conditions
    /\ q.Conditions[key].CorrelationId # 0

LiveActivation(q, key) ==
    /\ key \in DOMAIN q.Conditions
    /\ q.Conditions[key].HasLast /\ q.Conditions[key].LastActive
    /\ q.Conditions[key].CorrelationId # 0

DropLifecycle(q) == Fail([q EXCEPT !.DroppedLifecycleCount = @ + 1])

\* Op 12: acknowledge, shelve, comment, ... (scoped to an activation, which the
\* record then names) or suppress, priority, ... (scoped to the condition).
Lifecycle(source, id, scoped, complete) ==
    LET q == Called(TRUE, FALSE)
        s == ActiveSource(source)
        key == <<s, id>>
        body == [kind |-> "lifecycle", id |-> id,
                 correlation |-> IF scoped THEN q.Conditions[key].CorrelationId ELSE 0]
    IN /\ Uses("lifecycle")
       /\ Return(IF scoped /\ ~LiveActivation(q, key) THEN Only(DropLifecycle(q))
                 ELSE IF ~complete THEN Only(DropLifecycle(q))
                 ELSE IF ~HasSlot(q, s) THEN Only(Fail(q))
                 ELSE EmitTyped(q, s, TypedLen, body, 0))

-----------------------------------------------------------------------------
(* Commands.                                                                *)

\* Faulty variant of DropCommand: a drop is reported and not counted.
DropUncounted(q) == Fail(q)

DropCommand(q) == Fail([q EXCEPT !.DroppedCommandCount = @ + 1])

\* A command that reached the ring and was not listed is counted as dropped.
CountDrop(c) == IF c.ok THEN c ELSE [c EXCEPT !.q = DropCommand(@)]

\* History: a command that must either be listed or be counted.
Issued(c) == [c EXCEPT !.q.issued = @ + 1]

\* Ops 13 and 14: a batch, recipe, material, operator or security record.
Command(source, complete, a) ==
    LET q == Called(TRUE, FALSE)
        s == ActiveSource(source)
    IN /\ Uses("command")
       /\ Return(Issued(
            IF ~complete \/ ~HasSlot(q, s) THEN Only(DropCommand(q))
            ELSE CountDrop(EmitTyped(q, s, TypedLen, [kind |-> "command"], a))))

\* The first value of an audited parameter is what the first change starts from.
Seed(q, key, v) ==
    [q EXCEPT !.Values = Put(@, key, [NewValueState EXCEPT !.LastValue = v])]

\* Op 15: a change of an audited value, in the tables of the plain values.
Audit(source, key, v, complete, a) ==
    LET q == Called(TRUE, FALSE)
        s == ActiveSource(source)
        entry == ValueEntry(q, key)
        body == [kind |-> "change", id |-> key, prev |-> entry.LastValue, new |-> v]
        kept(listed) == [listed EXCEPT !.Values[key].LastValue = v]
    IN /\ Uses("audit")
       /\ Return(IF ~Enters(q.Values, key, TableOf(key)) THEN Issued(Only(DropCommand(q)))
                 ELSE IF entry.LastValue = NoValue
                 THEN Observe(Only(Seed(q, key, v)), key, v)
                 ELSE IF entry.LastValue = v THEN Observe(Only(q), key, v)
                 ELSE IF ~complete \/ ~HasSlot(q, s) THEN Issued(Only(DropCommand(q)))
                 ELSE Issued(Observe(CountDrop(IfListed(
                                EmitTyped(q, s, TypedLen + 1, body, a), kept)), key, v)))

\* Op 16: a signature of the record that the source last listed under the id.
Signature(source, a, complete) ==
    LET q == Called(TRUE, FALSE)
        s == ActiveSource(source)
        known == a \in DOMAIN q.Attestables /\ q.Attestables[a].SourceId = s
        body == [kind |-> "signature", attests |-> a, signed |-> q.Attestables[a].LastSeq]
    IN /\ Uses("signature")
       /\ Return(Issued(
            IF ~known \/ ~complete \/ ~HasSlot(q, s) THEN Only(DropCommand(q))
            ELSE CountDrop(EmitTyped(q, s, TypedLen + 1, body, 0))))

-----------------------------------------------------------------------------
(* The program and the runtime.                                             *)
ProducerInit ==
    /\ Init
    /\ p = NewProducer
    /\ program \in Programs
    /\ seen = [count |-> 0, published |-> 0]

\* A call with ResetScanRecords, as generated code makes it at the top of a scan.
ResetScanRecords ==
    /\ p' = [p EXCEPT !.Error = FALSE, !.ScanRecords = <<>>]
    /\ UNCHANGED <<fb, program, seen>>

\* The runtime reads the outputs after a scan.
Read ==
    /\ Uses("read")
    /\ seen' = [count |-> p.PublishedRecordCount, published |-> Len(p.published)]
    /\ UNCHANGED <<fb, p, program>>

UntypedCall ==
    \E accumulate \in program.accumulate :
        \/ BeginTransition(accumulate)
        \/ DefinitionChanged(accumulate)
        \/ FinishWarm(accumulate)
        \/ FinishCold(accumulate)
        \/ \E s \in program.sources :
            \/ \E a \in program.attests : Message(s, a, accumulate)
            \/ \E early \in {0, 1} : Staged(s, NextSeq(p, s) + early, accumulate)
            \/ Checkpoint(s, accumulate)

TypedCall ==
    \E s \in program.sources, a \in program.attests, complete \in BOOLEAN :
        \/ Command(s, complete, a)
        \/ Signature(s, a, complete)
        \/ \E id \in program.conditions :
            \/ Condition(s, id, complete)
            \/ \E scoped \in BOOLEAN : Lifecycle(s, id, scoped, complete)
        \/ \E val \in program.values : \E v \in val.range :
            \/ val.mode = "audit" /\ Audit(s, val.key, v, complete, a)
            \/ val.mode # "audit" /\ Value(s, val.key, val.mode, v, complete, a)
        \/ \E m \in program.machines, prev, new \in 0 .. 1 :
            StateTransition(s, m, prev, new, a)

ProducerNext == UntypedCall \/ TypedCall \/ ResetScanRecords \/ Read

ProducerSpec == ProducerInit /\ [][ProducerNext]_producerVars

-----------------------------------------------------------------------------
(* Properties.                                                              *)

Kind(i) == p.published[i].rec.body.kind
Body(i) == p.published[i].rec.body
Published == DOMAIN p.published

\* The records handed to the runtime carry growing sequence numbers in each
\* (run, source) stream and none twice, although a typed record that the list does
\* not take leaves its number in the ring and gives it to the next record, and a
\* cold start that fails is tried again with another run.
HandedSeqsIncrease ==
    \A i, j \in Published :
        (i < j /\ StreamOf(p.published[i].rec) = StreamOf(p.published[j].rec))
            => p.published[i].rec.seq < p.published[j].rec.seq

\* The runtime's check "delta == ScanRecordCount" is sound: when it holds, the list
\* is exactly what was published since the runtime's last reading, whenever the
\* program resets or accumulates.
HandoffExact ==
    p.PublishedRecordCount - seen.count = Len(p.ScanRecords) =>
        p.ScanRecords = [i \in 1 .. (Len(p.published) - seen.published) |->
                            p.published[seen.published + i].rec]

\* A signature names the record that was last handed over under the id it attests:
\* a record of the same run and source, with no start of an epoch since.
SignatureNamesLatest ==
    \A i \in Published : Kind(i) = "signature" =>
        \E j \in 1 .. (i - 1) :
            /\ p.published[j].attest = Body(i).attests
            /\ StreamOf(p.published[j].rec) = StreamOf(p.published[i].rec)
            /\ p.published[j].rec.seq = Body(i).signed
            /\ \A k \in (j + 1) .. (i - 1) :
                /\ p.published[k].attest # Body(i).attests
                /\ Kind(k) # "started"

EdgeOf(i, s, id) ==
    /\ Kind(i) \in {"active", "cleared"}
    /\ p.published[i].rec.source_id = s /\ Body(i).id = id

\* A condition's records tell one story: a cleared record, and a command scoped to
\* an activation, carry the id of the activation that was handed over last for that
\* source and condition and is not cleared yet, also when activations failed between.
ConditionsCorrelate ==
    \A i \in Published :
        (\/ Kind(i) = "cleared"
         \/ Kind(i) = "lifecycle" /\ Body(i).correlation # 0) =>
            LET s == p.published[i].rec.source_id
                edges == {j \in 1 .. (i - 1) : EdgeOf(j, s, Body(i).id)}
            IN /\ edges # {}
               /\ Kind(Max(edges)) = "active"
               /\ Body(Max(edges)).correlation = Body(i).correlation

\* Every command and signature that was issued was handed over or counted in
\* DroppedCommandCount, and not both.
CommandsAccounted ==
    p.issued = p.DroppedCommandCount
        + Cardinality({i \in Published : Kind(i) \in {"command", "change", "signature"}})

Reports(key) ==
    {i \in Published : Kind(i) \in {"value", "change"} /\ Body(i).id = key}

\* What the records say of a value is no further from it than its deadband, after
\* every call for it that reports no error: a record that was lost on the way to the
\* runtime is made up for by the next call.
ReportedTracksObserved ==
    \A key \in DOMAIN p.observed :
        Reports(key) # {} =>
            Distance(Body(Max(Reports(key))).new, p.observed[key])
                <= IF key[1] = "real" THEN Deadband ELSE 0

ModeOf(key) == (CHOOSE val \in program.values : val.key = key).mode

\* The reports of a value form a chain of news: the previous value in each is the new
\* value of the one before it, and a value that is logged on change has moved by more
\* than its deadband.  Transitions of a state machine lead to another state each time.
ReportsChain ==
    \A i, j \in Published :
        (/\ i < j /\ Kind(i) = Kind(j) /\ Kind(i) \in {"value", "change", "state"}
         /\ Body(i).id = Body(j).id
         /\ \A k \in (i + 1) .. (j - 1) : Kind(k) # Kind(i) \/ Body(k).id # Body(i).id)
            => /\ Kind(i) # "state" => Body(j).prev = Body(i).new
               /\ \/ Kind(i) = "value" /\ ModeOf(Body(i).id) = "periodic"
                  \/ Distance(Body(i).new, Body(j).new)
                        > IF Kind(i) = "value" /\ Body(i).id[1] = "real" THEN Deadband ELSE 0

-----------------------------------------------------------------------------
(* The block compared with the EpochProducer of epoch.rs.                   *)
ES == INSTANCE EpochStream WITH
    ring <- RingOf(fb), definition_len <- DefinitionLen,
    run_id <- p.RunId, epoch_id <- p.EpochId, epoch_first_abs <- p.EpochFirstAbs,
    system_seq <- p.SystemSeq, source_seq <- p.Sources,
    definition_hash <- p.DefinitionHash, prev_definition_hash <- p.PrevDefinitionHash,
    transition <- IF p.PendingOpen
                  THEN [def_hash_old |-> p.PendingHashOld, def_hash_new |-> p.PendingEpochId,
                        epoch_id |-> p.PendingEpochId,
                        definition_changed_emitted |-> p.PendingDefChangedEmitted]
                  ELSE [epoch_id |-> 0],
    cursor_abs <- 0, tracker <- NewTracker, got <- <<>>,
    resolver <- [run_default_epoch |-> 1 :> 1, epoch_boundaries |-> <<>>, pending_epoch |-> 0],
    epoch_at <- p.epoch_at,
    Source <- 1 .. 3, DefinitionLens <- {DefinitionLen},
    MaxEpoch <- 100, MaxWrites <- 100, MaxWhenRejected <- 100

\* The checkpoint of one source, as checkpoint_high_water writes it in its loop.
OneCheckpoint ==
    \E rec \in Range(ES!HighWaterRecords) :
        /\ RingOf(fb)' = ES!write_record(RingOf(fb), rec)
        /\ p'.Sources = Put(p.Sources, rec.source_id, rec.seq + 1)
        /\ p'.SystemSeq = p.SystemSeq /\ p'.RunId = p.RunId

\* A program that uses no typed operation gets what epoch.rs does: a call that
\* reports no error is a step of EpochProducer, on the same ring, with the same
\* sequence numbers, epochs, offsets and hashes, or changes nothing it has.
ImplementsEpochProducer ==
    /\ ES!EpochInit
    /\ [][program.ops \subseteq UntypedOps =>
            \/ p'.Error
            \/ UNCHANGED ES!epochVars
            \/ OneCheckpoint
            \/ ES!EpochNext]_producerVars

=============================================================================
