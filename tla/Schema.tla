------------------------------- MODULE Schema -------------------------------
(***************************************************************************)
(* Validation of definition files and of records against them               *)
(* (crates/definition/src/schema.rs).  A slot of a record is a key, a type  *)
(* tag, a payload length and the decoded payload `val`; a tag outside the   *)
(* catalogue is any name outside it.  A violation is its kind: which key or *)
(* which limit it names is left out.                                        *)
(***************************************************************************)
EXTENDS DefinitionModel, SequencesExt, FiniteSetsExt

Ok == "Ok"
Valid == "Valid"

\* The first verdict other than Ok, or Ok.
FirstOf(verdicts) ==
    LET bad == {i \in DOMAIN verdicts : verdicts[i] # Ok}
    IN IF bad = {} THEN Ok ELSE verdicts[Min(bad)]

KnownType(type) == type \in DOMAIN TLV_TYPE_SPECS

-----------------------------------------------------------------------------
(* Definitions.                                                             *)
validate_max_occurs(slot_def) ==
    IF \/ slot_def.max_occurs >= 0 /\ slot_def.max_occurs < slot_def.min_occurs
       \/ slot_def.max_occurs = 0
       \/ slot_def.max_occurs < UNBOUNDED
    THEN "InvalidMaxOccurs" ELSE Ok

validate_slot_definition_type(slot_def) ==
    LET kind == IF slot_def.key \in DOMAIN FIELD_SPECS THEN FIELD_SPECS[slot_def.key]
                ELSE IF is_core_key(slot_def.key) THEN "Reserved" ELSE "Vendor"
    IN CASE kind = "Reserved" -> "ReservedCoreKey"
         [] kind = "ValuePayload" ->
              IF slot_def.value_payload /\ slot_def.tlv_type = None
              THEN Ok ELSE "CoreTypeMismatch"
         [] KnownType(kind) ->
              IF slot_def.tlv_type = kind /\ ~slot_def.value_payload
              THEN Ok ELSE "CoreTypeMismatch"
         [] kind = "Vendor" ->
              IF slot_def.value_payload THEN "CoreTypeMismatch"
              ELSE IF KnownType(slot_def.tlv_type) THEN Ok ELSE "UnknownTlvType"

validate_event_definition(event) ==
    LET verdict(i) ==
            LET slot_def == event.slots[i] IN
            IF \E j \in 1 .. i - 1 : event.slots[j].key = slot_def.key THEN "DuplicateSlotKey"
            ELSE IF i > 1 /\ slot_def.order_class <= event.slots[i - 1].order_class
            THEN "OrderClassNotAscending"
            ELSE FirstOf(<<validate_max_occurs(slot_def),
                           validate_slot_definition_type(slot_def)>>)
    IN FirstOf([i \in DOMAIN event.slots |-> verdict(i)])

validate_state_machine_models(definition) ==
    LET verdict(machine) ==
            IF machine.procedural_model = None THEN Ok
            ELSE IF machine.procedural_model \notin DOMAIN PROCEDURAL_MODELS
            THEN "UnknownProceduralModel"
            ELSE IF machine.enum_set \notin DOMAIN definition.enum_sets THEN "MissingEnumSet"
            ELSE LET states == PROCEDURAL_MODELS[machine.procedural_model]
                     members == definition.enum_sets[machine.enum_set]
                 IN IF \A value \in DOMAIN members :
                          value \in DOMAIN states /\ states[value] = members[value]
                    THEN Ok ELSE "ProceduralStateMismatch"
    IN FirstOf([i \in DOMAIN definition.state_machines |->
                    verdict(definition.state_machines[i])])

validate_definition(definition) ==
    LET events == definition.event_types
        verdict(i) == IF \E j \in 1 .. i - 1 : events[j].id = events[i].id
                      THEN "DuplicateEventId" ELSE validate_event_definition(events[i])
    IN FirstOf([i \in DOMAIN events |-> verdict(i)]
               \o <<validate_state_machine_models(definition)>>)

-----------------------------------------------------------------------------
(* Records.                                                                 *)
Pad4(len) == 4 * ((len + 3) \div 4)

EncodeError == -1      \* a payload that its length byte cannot hold
InvalidUtf8 == -1      \* the payload of a string that is not valid UTF-8

\* Header, slots padded to four bytes, and the CRC trailer a ring record carries.
encoded_record_len(slots) ==
    IF \E i \in DOMAIN slots : slots[i].len > 255 THEN EncodeError
    ELSE FoldLeft(LAMBDA total, s : total + 4 + Pad4(s.len), 44, slots)

find_event(definition, id) ==
    {i \in DOMAIN definition.event_types : definition.event_types[i].id = id}

SchemaOf(event, key) ==
    event.slots[CHOOSE i \in DOMAIN event.slots : event.slots[i].key = key]

Declares(event, key) == \E i \in DOMAIN event.slots : event.slots[i].key = key

validate_record_slot_type(s, slot_def) ==
    LET kind == IF s.key \in DOMAIN FIELD_SPECS THEN FIELD_SPECS[s.key]
                ELSE IF is_core_key(s.key) THEN "Reserved" ELSE slot_def.tlv_type
    IN CASE kind = "ValuePayload" -> IF KnownType(s.ty) THEN Ok ELSE "UnknownTlvType"
         [] kind = "Reserved" -> "ReservedCoreKey"
         [] OTHER -> IF s.ty = kind THEN Ok ELSE "TypeMismatch"

\* The data type of the value that the first valueId slot names, when it is known.
validate_value_payload_type(s, slots, definition) ==
    LET ids == {i \in DOMAIN slots : slots[i].key = "valueId" /\ slots[i].len = 4}
    IN IF \/ s.key \notin {"previousValue", "newValue"}
          \/ ids = {}
          \/ slots[Min(ids)].val \notin DOMAIN definition.values
          \/ s.ty = definition.values[slots[Min(ids)].val].data_type
       THEN Ok ELSE "TypeMismatch"

validate_payload_width(s) ==
    IF ~KnownType(s.ty) THEN "UnknownTlvType"
    ELSE IF TLV_TYPE_SPECS[s.ty] # 0 /\ s.len # TLV_TYPE_SPECS[s.ty]
    THEN "FixedWidthMismatch" ELSE Ok

\* A vendor key that the event does not declare.
Extension(event, key) == is_vendor_key(key) /\ ~Declares(event, key)

\* One turn of the loop over the slots of a record.
validate_slot_at(slots, i, event, definition) ==
    LET s == slots[i]
        earlier == {j \in 1 .. i - 1 : Extension(event, slots[j].key)}
    IN CASE Declares(event, s.key) ->
              IF earlier # {} THEN "VendorExtensionNotTrailing"
              ELSE FirstOf(<<validate_record_slot_type(s, SchemaOf(event, s.key)),
                             validate_value_payload_type(s, slots, definition),
                             validate_payload_width(s)>>)
         [] ~Declares(event, s.key) /\ is_vendor_key(s.key) ->
              IF earlier # {} /\ VendorRank(s.key) <= VendorRank(slots[Max(earlier)].key)
              THEN "VendorExtensionOutOfOrder" ELSE Ok
         [] OTHER -> "UnexpectedCoreKey"

Positions(slots, key) == {i \in DOMAIN slots : slots[i].key = key}

is_contiguous(positions) ==
    \A i, j \in positions : \A k \in i .. j : k \in positions

\* Faulty variant of validate_occurs: the lower bound is not checked.
validate_occurs_max(slots, slot_def) ==
    IF slot_def.max_occurs >= 0
         /\ Cardinality(Positions(slots, slot_def.key)) > slot_def.max_occurs
    THEN "TooManyOccurrences" ELSE Ok

validate_occurs(slots, slot_def) ==
    LET actual == Cardinality(Positions(slots, slot_def.key)) IN
    IF actual < slot_def.min_occurs THEN "MissingRequired"
    ELSE IF slot_def.max_occurs >= 0 /\ actual > slot_def.max_occurs
    THEN "TooManyOccurrences" ELSE Ok

\* Faulty variant of validate_order: a slot may not repeat either.
validate_strict_order(slots, event) ==
    LET known == SelectSeq(slots, LAMBDA s : Declares(event, s.key)) IN
    IF \A i \in 1 .. Len(known) - 1 :
          SchemaOf(event, known[i].key).order_class
              < SchemaOf(event, known[i + 1].key).order_class
    THEN Ok ELSE "OrderClassViolation"

\* The order classes of the declared slots do not descend.
validate_order(slots, event) ==
    LET known == SelectSeq(slots, LAMBDA s : Declares(event, s.key)) IN
    IF \A i \in 1 .. Len(known) - 1 :
          SchemaOf(event, known[i].key).order_class
              <= SchemaOf(event, known[i + 1].key).order_class
    THEN Ok ELSE "OrderClassViolation"

validate_record_slots(slots, event, definition) ==
    FirstOf([i \in DOMAIN slots |-> validate_slot_at(slots, i, event, definition)]
            \o <<IF \A s \in ToSet(slots) :
                       Declares(event, s.key) => is_contiguous(Positions(slots, s.key))
                 THEN Ok ELSE "RepeatedSlotNotContiguous",
                 validate_order(slots, event)>>
            \o [i \in DOMAIN event.slots |-> validate_occurs(slots, event.slots[i])])

validate_record(rec, definition) ==
    LET events == find_event(definition, rec.event_type_id) IN
    IF validate_definition(definition) # Ok THEN "Definition"
    ELSE IF encoded_record_len(rec.slots) > definition.max_record_size THEN "RecordTooLarge"
    ELSE IF Len(rec.slots) > definition.max_slots THEN "TooManySlots"
    ELSE IF events = {} THEN "UnknownEventId"
    ELSE LET verdict == validate_record_slots(rec.slots,
                            definition.event_types[Min(events)], definition)
         IN IF verdict = Ok THEN Valid ELSE verdict
=============================================================================
