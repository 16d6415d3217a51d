----------------------------- MODULE Documents -----------------------------
(***************************************************************************)
(* Documents of crates/document/src/lib.rs: what is kept of a resolution    *)
(* (the documents of loss intervals are in LossAccounting).  A raw payload  *)
(* is printed in hexadecimal, which loses nothing: it is the slot itself.   *)
(* The JSON detail of a reason is the variant it is named by.               *)
(*                                                                          *)
(* A context holds what the caller knows and the resolution does not: the   *)
(* definition hash, the record's flags and, when given, its time and source.*)
(***************************************************************************)
EXTENDS Resolver

NoTime == -1     \* a context that gives no source time

\* The flags a document shows.
from_record_flags(flags) == flags \cap {"TIME_UNSYNCED", "SYNTHETIC", "PARTIAL_PAYLOAD"}

DocumentEpoch(id, relation, context) ==
    [id |-> id, relation |-> relation, definition_hash |-> context.definition_hash]

DocumentSource(id, name) == [id |-> id, name |-> name]

provenance_for_record(context, resolution, source_time, name) ==
    [source |-> DocumentSource(resolution.envelope.source_id,
                               IF name # None THEN name ELSE context.source),
     run_id |-> resolution.envelope.run_id,
     epoch |-> DocumentEpoch(resolution.epoch_id, resolution.epoch, context),
     source_time |-> source_time,
     flags |-> from_record_flags(context.flags)]

\* The kinds of schema violation: a defect of the definition counts as one.
schema_violations ==
    {"Definition", "RecordTooLarge", "TooManySlots", "UnexpectedCoreKey",
     "VendorExtensionNotTrailing", "VendorExtensionOutOfOrder", "TypeMismatch",
     "UnknownTlvType", "ReservedCoreKey", "FixedWidthMismatch", "MissingRequired",
     "TooManyOccurrences", "RepeatedSlotNotContiguous", "OrderClassViolation", "Encode"}

\* An unknown type tag is reported by the schema before a payload is decoded.
reason_document(reason) ==
    IF reason \in schema_violations THEN [kind |-> "SchemaViolation", detail |-> reason]
    ELSE IF reason = "InvalidUtf8" THEN [kind |-> "InvalidPayload", detail |-> reason]
    ELSE [kind |-> reason, detail |-> None]

ReasonKinds ==
    {"MissingCurrentDefinition", "StalePriorEpoch", "Drift", "FullHashDrift",
     "UnknownEventId", "SchemaViolation", "InvalidPayload", "HashError"}

\* JSON has no number for a real that is not finite: it is null.
NonFinite == -2

value_document(value) ==
    IF value.ty \in {"Real", "LReal"} /\ value.bits = NonFinite THEN NoValue ELSE value

field_document(field) == [field EXCEPT !.value = value_document(@)]

\* Faulty variant of extension_field_document: a decoded value replaces the payload.
extension_value_document(field) ==
    [field EXCEPT !.value = value_document(@),
                  !.payload = IF field.value = NoValue THEN @ ELSE NoValue]

extension_field_document(field) == [field EXCEPT !.value = value_document(@)]

raw_slot_document(s) == s

event_document_from_record(resolution, context) ==
    [kind |-> "Event",
     provenance |-> provenance_for_record(context, resolution,
                        resolution.envelope.source_time, resolution.source),
     event_type_id |-> resolution.event_type_id, seq |-> resolution.envelope.seq,
     fields |-> [i \in DOMAIN resolution.fields |-> field_document(resolution.fields[i])],
     extension_fields |-> [i \in DOMAIN resolution.extension_fields |->
                            extension_field_document(resolution.extension_fields[i])]]

\* The resolver's placeholder has no time: it comes from the context, if given.
placeholder_document_from_record(resolution, context) ==
    [kind |-> "Placeholder",
     provenance |-> provenance_for_record(context, resolution, context.source_time, None),
     event_type_id |-> resolution.event_type_id, seq |-> resolution.envelope.seq,
     reason |-> reason_document(resolution.reason),
     raw_slots |-> [i \in DOMAIN resolution.slots |-> raw_slot_document(resolution.slots[i])]]

document_from_resolution(resolution, context) ==
    IF resolution.kind = "Resolved" THEN event_document_from_record(resolution, context)
    ELSE placeholder_document_from_record(resolution, context)
=============================================================================
