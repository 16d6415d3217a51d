----------------------------- MODULE Resolution -----------------------------
(***************************************************************************)
(* One record from the producer's epoch to the consumer's document: it is   *)
(* written under some definition, epochs open and close around it, a        *)
(* consumer reads it together with the control block, and resolves it with  *)
(* whatever definition files it holds (resolver.rs, schema.rs, document).   *)
(* Records are resolved one by one, so one record per behaviour is enough.  *)
(*                                                                          *)
(* A definition file is named by its index in Files; 0 is no file.          *)
(***************************************************************************)
EXTENDS Documents

CONSTANTS
    Files,     \* the definition files there are, by name
    Inputs     \* records to write, each with the files around it and its bounds

VARIABLES
    input,     \* the record, the file of its first epoch, the bounds of this behaviour
    head_abs,  \* producer: next offset, counted in records
    snapshot,  \* producer: what the control block publishes
    epochs,    \* history: the file of each epoch, in order
    written,   \* the record's offset and epoch, or Unwritten
    seen,      \* consumer: the snapshot it read the record under, or Unseen
    held,      \* consumer: names of the current and the prior definition it held
    document   \* consumer: what it made of the record, or NoDocument

resolutionVars == <<input, head_abs, snapshot, epochs, written, seen, held, document>>

Unwritten == [abs |-> -1, epoch_id |-> 0]
Unseen == [epoch_id |-> 0]
NoDocument == [kind |-> None]
NoManifest == [event |-> None, expected |-> None, slots |-> <<>>]
Nothing == [current |-> 0, prior |-> 0]

File(name) == IF name = 0 THEN NoDefinition ELSE Files[name]

DefinitionSet(names) == [current |-> File(names.current), prior |-> File(names.prior)]

RecordDocumentContext ==
    [definition_hash |-> SelectedHash(EpochOf(written.abs, seen), seen),
     source |-> None, source_time |-> NoTime, flags |-> {}]

-----------------------------------------------------------------------------
ResolutionInit ==
    /\ input \in Inputs
    /\ head_abs = 0
    /\ snapshot = [epoch_id |-> 1, epoch_first_abs |-> 0, prev_definition_hash |-> 0,
                   definition_hash |-> compute_content_hash(File(input.first))]
    /\ epochs = <<input.first>>
    /\ written = Unwritten /\ seen = Unseen
    /\ held = Nothing /\ document = NoDocument

\* The record goes to the head of the ring, in the epoch that is open.
write_record ==
    /\ written = Unwritten
    /\ written' = [abs |-> head_abs, epoch_id |-> snapshot.epoch_id]
    /\ head_abs' = head_abs + 1
    /\ UNCHANGED <<input, snapshot, epochs, seen, held, document>>

PublishEpoch(name) ==
    snapshot' = [epoch_id |-> snapshot.epoch_id + 1, epoch_first_abs |-> head_abs,
                 definition_hash |-> compute_content_hash(File(name)),
                 prev_definition_hash |-> snapshot.definition_hash]

\* A whole transition as the ring shows it: LoggerStarted opens the epoch of
\* another definition at its own offset.
open_epoch(name) ==
    /\ Len(epochs) < input.max_epochs
    /\ seen = Unseen
    /\ PublishEpoch(name)
    /\ epochs' = Append(epochs, name)
    /\ head_abs' = head_abs + 1
    /\ UNCHANGED <<input, written, seen, held, document>>

\* The consumer reads the record behind the head of the snapshot it took.
poll_snapshot ==
    /\ written # Unwritten /\ seen = Unseen
    /\ seen' = snapshot
    /\ UNCHANGED <<input, head_abs, snapshot, epochs, written, held, document>>

\* It resolves it with the definitions it holds then, and keeps the document.
make_document(names) ==
    /\ seen # Unseen /\ document = NoDocument
    /\ held' = names
    /\ document' = document_from_resolution(
           resolve_record(input.rec, written.abs, seen, DefinitionSet(names)),
           RecordDocumentContext)
    /\ UNCHANGED <<input, head_abs, snapshot, epochs, written, seen>>

Done == document # NoDocument /\ UNCHANGED resolutionVars

ResolutionNext ==
    \/ write_record
    \/ \E name \in input.later : open_epoch(name)
    \/ poll_snapshot
    \/ \E names \in input.holdings : make_document(names)
    \/ Done

ResolutionSpec == ResolutionInit /\ [][ResolutionNext]_resolutionVars

-----------------------------------------------------------------------------
(* The schema as a grammar, independent of the order in which it is checked.*)
Slots == input.rec.slots

KeysOf(slots) == [i \in DOMAIN slots |-> slots[i].key]

Copies(key, n) == [i \in 1 .. n |-> key]

FitsType(s, type) ==
    /\ KnownType(type) /\ s.ty = type
    /\ TLV_TYPE_SPECS[type] \in {0, s.len}

\* The type a declared slot must have: its registry type, the type of the value the
\* record names, any known type, or for a vendor key the type it is declared with.
WellTyped(s, event, definition) ==
    LET rule == IF s.key \in DOMAIN FIELD_SPECS THEN FIELD_SPECS[s.key]
                ELSE SchemaOf(event, s.key).tlv_type
    IN IF rule # "ValuePayload" THEN FitsType(s, rule)
       ELSE /\ FitsType(s, s.ty)
            /\ s.key # "arg" =>
                 \A i \in Positions(Slots, "valueId") :
                     Slots[i].val \in DOMAIN definition.values
                         => s.ty = definition.values[Slots[i].val].data_type

\* Declared slots in the order of the definition, each as often as it allows, then
\* private extensions in ascending order.
Conforms(event, definition) ==
    LET declared == SelectSeq(Slots, LAMBDA s : Declares(event, s.key))
        private == SelectSeq(Slots, LAMBDA s : ~Declares(event, s.key))
        occurs(i) == Cardinality(Positions(Slots, event.slots[i].key))
    IN /\ Slots = declared \o private
       /\ KeysOf(declared) = FlattenSeq([i \in DOMAIN event.slots |->
                                            Copies(event.slots[i].key, occurs(i))])
       /\ \A i \in DOMAIN event.slots :
             /\ event.slots[i].min_occurs <= occurs(i)
             /\ event.slots[i].max_occurs \in {UNBOUNDED} \cup occurs(i) .. 16
       /\ \A s \in ToSet(declared) : WellTyped(s, event, definition)
       /\ \A i \in DOMAIN private :
             /\ is_vendor_key(private[i].key)
             /\ i > 1 => VendorRank(private[i - 1].key) < VendorRank(private[i].key)

-----------------------------------------------------------------------------
MadeEvent == document.kind = "Event"
MadePlaceholder == document.kind = "Placeholder"

\* The name of the file the record was resolved with, and of the one it was written under.
UsedName == IF EpochOf(written.abs, seen) = "Current" THEN held.current ELSE held.prior
OwnName == epochs[written.epoch_id]

\* The consumer reads the record in its own epoch or in the one after it.
Recent == written.epoch_id >= seen.epoch_id - 1

\* The definition admits the record: it is sound, within its limits, and the slots
\* conform to the grammar and hold valid text.
Admits(definition) ==
    LET events == find_event(definition, input.rec.event_type_id) IN
    /\ validate_definition(definition) = Ok
    /\ events # {}
    /\ Len(Slots) <= definition.max_slots
    /\ encoded_record_len(Slots) \in 0 .. definition.max_record_size
    /\ Conforms(definition.event_types[Min(events)], definition)
    /\ \A s \in ToSet(Slots) : is_core_key(s.key) /\ s.ty = "String" => s.val # InvalidUtf8

\* A record becomes an event exactly when the definition it is resolved with has the
\* hash its epoch published (and the full hash it states) and admits the record: the
\* order of the checks in validate_record, and its separate contiguity check, neither
\* refuse nor admit more than the grammar.
EventIffAdmitted ==
    document # NoDocument =>
        (MadeEvent <=>
            /\ UsedName # 0
            /\ File(UsedName).version = SelectedHash(EpochOf(written.abs, seen), seen)
            /\ File(UsedName).content_hash \in {0, File(UsedName).version}
            /\ Admits(File(UsedName)))

\* No slot is lost: the core slots are the fields, each with a value unless it is a
\* real that is not finite, the vendor slots are extensions with their payload, in
\* record order; a placeholder keeps all slots as they were, so that a later pass can
\* resolve the record, and gives one of the reasons documents have: decode_value, which
\* indexes without a check, never reads past a payload that validation let through.
NothingLost ==
    LET core == SelectSeq(Slots, LAMBDA s : is_core_key(s.key)) IN
    /\ MadePlaceholder => document.raw_slots = Slots /\ document.reason.kind \in ReasonKinds
    /\ MadeEvent =>
         /\ KeysOf(document.fields) = KeysOf(core)
         /\ \A i \in DOMAIN core :
               document.fields[i].value = NoValue
                   => core[i].ty \in {"Real", "LReal"} /\ core[i].val = NonFinite
         /\ [i \in DOMAIN document.extension_fields |-> document.extension_fields[i].payload]
                = SelectSeq(Slots, LAMBDA s : is_vendor_key(s.key))

\* Whatever files the consumer holds, a record of the current epoch or of the one
\* before it is never resolved under another definition than the one in force when
\* it was written ("drift placeholder rather than a guess").
NeverUnderAnother ==
    Recent /\ MadeEvent => File(UsedName).version = File(OwnName).version

\* A record of the current epoch or of the one before it is never resolved under
\* another definition than its own; and it does resolve if that definition admits it
\* and is held for its epoch, current or prior (select_definition, resolve_record).
OwnDefinition ==
    /\ NeverUnderAnother
    /\ (/\ Recent /\ document # NoDocument
        /\ (IF written.epoch_id = seen.epoch_id THEN held.current ELSE held.prior) = OwnName
        /\ File(OwnName).content_hash \in {0, File(OwnName).version}
        /\ Admits(File(OwnName)))
           => MadeEvent

\* The values of an event are typed, named and given a unit by one and the same entry
\* of the definition's value table.
ValueMeansOneThing ==
    MadeEvent =>
        \A i, j \in DOMAIN document.fields :
            (/\ document.fields[i].key = "valueId"
             /\ document.fields[j].key \in {"previousValue", "newValue"}
             /\ document.fields[i].value.text # None)
                => \E id \in DOMAIN File(UsedName).values :
                      LET entry == File(UsedName).values[id] IN
                      /\ document.fields[i].value = TextValue(entry.name)
                      /\ document.fields[j].type = entry.data_type
                      /\ document.fields[j].unit = Label(File(UsedName).units, entry.unit)

\* The conformance vectors are what their manifests say: a vector marked "accept"
\* becomes an event under the sample definition and one marked "reject" does not, and
\* the manifest lists the slots of the record in their order.
VectorsAsDescribed ==
    input.manifest # NoManifest /\ document # NoDocument =>
        /\ input.manifest.expected # "unstated" =>
             (MadeEvent <=> input.manifest.expected = "accept")
        /\ input.manifest.event = input.rec.event_type_id
        /\ input.manifest.slots = [i \in DOMAIN Slots |-> <<Slots[i].key, Slots[i].ty>>]
=============================================================================
