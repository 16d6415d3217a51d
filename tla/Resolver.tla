------------------------------ MODULE Resolver ------------------------------
(***************************************************************************)
(* Record resolution of crates/definition/src/resolver.rs: the definition   *)
(* is chosen by the record's place relative to the epoch the control block  *)
(* publishes, checked by its hash, and turns a record into named fields or  *)
(* into a placeholder that keeps the raw slots.                             *)
(*                                                                          *)
(* A decoded value is the type it was decoded as and the bits it was        *)
(* decoded from, or a text that stands for it.  A hash is the version it is *)
(* the hash of: digests are taken not to collide, and hashing a definition  *)
(* cannot fail (it has no floating-point member).                           *)
(***************************************************************************)
EXTENDS Schema

NoDefinition == [version |-> -1]

compute_content_hash(definition) == definition.version

EpochOf(record_abs, snapshot) ==
    IF record_abs >= snapshot.epoch_first_abs THEN "Current" ELSE "Prior"

SelectedHash(epoch, snapshot) ==
    IF epoch = "Current" THEN snapshot.definition_hash ELSE snapshot.prev_definition_hash

selected_definition(epoch, definitions) ==
    IF epoch = "Current" THEN definitions.current ELSE definitions.prior

\* Faulty variant of verify_definition_hash: a stated content hash is enough.
verify_stated_hash(definition, expected) ==
    IF definition.content_hash = 0 /\ compute_content_hash(definition) # expected THEN "Drift"
    ELSE IF definition.content_hash \notin {0, compute_content_hash(definition)}
    THEN "FullHashDrift" ELSE Ok

\* A content hash of 0 is the empty text of a definition that does not state one.
verify_definition_hash(definition, expected) ==
    IF compute_content_hash(definition) # expected THEN "Drift"
    ELSE IF definition.content_hash \notin {0, compute_content_hash(definition)}
    THEN "FullHashDrift" ELSE Ok

-----------------------------------------------------------------------------
(* Values.                                                                  *)

\* A read past the end of the payload is an index out of bounds.
decode_error(s) ==
    IF ~KnownType(s.ty) THEN "UnknownTlvType"
    ELSE IF s.len < TLV_TYPE_SPECS[s.ty] THEN "OutOfBounds"
    ELSE IF s.ty = "String" /\ s.val = InvalidUtf8 THEN "InvalidUtf8" ELSE Ok

NoValue == [ty |-> None, bits |-> 0, text |-> None]
TextValue(text) == [ty |-> "String", bits |-> 0, text |-> text]

decode_value(s) ==
    [ty |-> s.ty, text |-> None,
     bits |-> IF s.ty = "Bool" /\ s.val # 0 THEN 1 ELSE s.val]

\* The id of kind `key` that the record names: the last such slot of the right width.
Context(slots, key, width) ==
    LET named == {i \in DOMAIN slots : slots[i].key = key /\ slots[i].len = width}
    IN IF named = {} THEN -1 ELSE slots[Max(named)].val

Label(labels, value) == IF value \in DOMAIN labels THEN labels[value] ELSE None

find_machine(id, definition) ==
    {i \in DOMAIN definition.state_machines :
        definition.state_machines[i].state_machine_id = id}

state_label(id, value, definition) ==
    LET found == find_machine(id, definition) IN
    IF found = {} THEN None
    ELSE LET set == definition.state_machines[Min(found)].enum_set
         IN IF set \in DOMAIN definition.enum_sets
            THEN Label(definition.enum_sets[set], value) ELSE None

enum_label(s, slots, definition) ==
    CASE s.ty # "UInt" -> None
      [] s.ty = "UInt" /\ s.key = "category" -> Label(CATEGORY_VALUES, s.val)
      [] s.ty = "UInt" /\ s.key = "authResult" -> Label(AUTH_RESULT_VALUES, s.val)
      [] s.ty = "UInt" /\ s.key = "signatureMeaning" -> Label(SIGNATURE_MEANING_VALUES, s.val)
      [] s.ty = "UInt" /\ s.key \in {"previousState", "newState"} ->
            state_label(Context(slots, "stateMachineId", 4), s.val, definition)
      [] s.ty = "UInt" /\ s.key = "severity" -> severity_band(s.val)
      [] OTHER -> None

\* Faulty variant of unit_label: a unit slot names its own unit only.
unit_label_of_slot(s, slots, definition) ==
    IF s.key = "unit" /\ s.ty = "UInt" THEN Label(definition.units, s.val) ELSE None

unit_label(s, slots, definition) ==
    LET id == Context(slots, "valueId", 4) IN
    IF s.key = "unit" /\ s.ty = "UInt" THEN Label(definition.units, s.val)
    ELSE IF s.key \in {"previousValue", "newValue"} /\ id \in DOMAIN definition.values
    THEN Label(definition.units, definition.values[id].unit) ELSE None

\* The text that replaces an id in a field, or None.
NameOf(s, slots, definition) ==
    LET condition == Context(slots, "conditionId", 4) IN
    CASE s.key = "stateMachineId" /\ find_machine(s.val, definition) # {} ->
            definition.state_machines[Min(find_machine(s.val, definition))].name
      [] s.key = "valueId" /\ s.val \in DOMAIN definition.values ->
            definition.values[s.val].name
      [] s.key = "conditionId" /\ s.val \in DOMAIN definition.conditions ->
            definition.conditions[s.val].name
      [] s.key = "messageTemplateId" -> Label(definition.message_templates, s.val)
      [] s.key = "causeOperand" /\ condition \in DOMAIN definition.conditions ->
            Label(definition.conditions[condition].cause_operands, s.val)
      [] OTHER -> None

semantic_value(s, slots, definition) ==
    LET text == IF s.key \in {"previousState", "newState"}
                THEN enum_label(s, slots, definition)
                ELSE IF s.ty = "UDInt" THEN NameOf(s, slots, definition) ELSE None
    IN IF text = None THEN decode_value(s) ELSE TextValue(text)

resolve_field(s, slots, definition) ==
    [key |-> s.key, type |-> s.ty,
     value |-> semantic_value(s, slots, definition),
     unit |-> unit_label(s, slots, definition),
     enum_label |-> enum_label(s, slots, definition)]

\* An extension is decoded only when its width is the width of its type.
decode_extension_value(s) ==
    IF validate_payload_width(s) = Ok /\ decode_error(s) = Ok THEN decode_value(s) ELSE NoValue

resolve_extension_field(s) ==
    [key |-> s.key, type |-> s.ty, value |-> decode_extension_value(s), payload |-> s]

-----------------------------------------------------------------------------
\* The slots that become fields: the others are skipped without an error.
FieldSlots(slots, event) ==
    SelectSeq(slots, LAMBDA s : /\ is_core_key(s.key) /\ Declares(event, s.key)
                                /\ s.key \in DOMAIN FIELD_SPECS
                                /\ FIELD_SPECS[s.key] # "Reserved")

ExtensionSlots(slots, event) == SelectSeq(slots, LAMBDA s : is_vendor_key(s.key))

resolve_slots(slots, event, definition) ==
    LET core == FieldSlots(slots, event)
        private == ExtensionSlots(slots, event)
    IN [reason |-> FirstOf([i \in DOMAIN core |-> decode_error(core[i])]),
        fields |-> [i \in DOMAIN core |-> resolve_field(core[i], slots, definition)],
        extension_fields |-> [i \in DOMAIN private |-> resolve_extension_field(private[i])]]

placeholder(rec, snapshot, epoch, reason) ==
    [kind |-> "Placeholder", envelope |-> rec.envelope, event_type_id |-> rec.event_type_id,
     epoch_id |-> snapshot.epoch_id, epoch |-> epoch, slots |-> rec.slots, reason |-> reason]

resolve_source(source_id, definition) == Label(definition.sources, source_id)

\* A defect of the slots or of the definition that prevents resolution, or Ok.
Refusal(rec, definition, expected) ==
    IF definition = NoDefinition THEN "Missing"
    ELSE FirstOf(<<verify_definition_hash(definition, expected),
                   IF encoded_record_len(rec.slots) = EncodeError THEN "Encode" ELSE Ok,
                   IF validate_record(rec, definition) = Valid
                   THEN Ok ELSE validate_record(rec, definition)>>)

resolve_record(rec, record_abs, snapshot, definitions) ==
    LET epoch == EpochOf(record_abs, snapshot)
        definition == selected_definition(epoch, definitions)
        refusal == Refusal(rec, definition, SelectedHash(epoch, snapshot))
    IN IF refusal = "Missing"
       THEN placeholder(rec, snapshot, epoch,
                IF epoch = "Current" THEN "MissingCurrentDefinition" ELSE "StalePriorEpoch")
       ELSE IF refusal # Ok THEN placeholder(rec, snapshot, epoch, refusal)
       ELSE LET event == definition.event_types[Min(find_event(definition, rec.event_type_id))]
                resolved == resolve_slots(rec.slots, event, definition)
            IN IF resolved.reason # Ok
               THEN placeholder(rec, snapshot, epoch, resolved.reason)
               ELSE [kind |-> "Resolved", envelope |-> rec.envelope,
                     event_type_id |-> rec.event_type_id,
                     epoch_id |-> snapshot.epoch_id, epoch |-> epoch,
                     source |-> resolve_source(rec.envelope.source_id, definition),
                     fields |-> resolved.fields,
                     extension_fields |-> resolved.extension_fields]
=============================================================================
