---------------------------- MODULE MCResolution ----------------------------
(***************************************************************************)
(* An instance of Resolution: every short slot sequence over an alphabet of *)
(* right and wrong slots, a few records carried across epochs, defective    *)
(* definition files, and the vectors.                                       *)
(***************************************************************************)
EXTENDS Resolution

V == INSTANCE Vectors

Small == sample_definition(<<"ValueChanged", "Message", "StateTransition">>)

SetEvent(definition, i, f, value) ==
    [definition EXCEPT !.event_types[i].slots = [@ EXCEPT ![1] =
        [n \in DOMAIN @ |-> IF n = f THEN value ELSE @[n]]]]

Machine(definition, model, set) ==
    [definition EXCEPT !.state_machines[1].procedural_model = model,
                       !.state_machines[1].enum_set = set]

Vendor == slot("vendor1", "UInt", 0, 1) @@ ("order_class" :> 9)

Revision(n, definition) == [definition EXCEPT !.version = n]

\* 1 and 2 are two revisions, 2 and 4 with their hash stated, 3 with a wrong one; 5 has
\* tight limits, 6 declares a vendor slot, 7 is the whole sample; the rest are defective.
MCFiles ==
    <<Small,
      [Revision(2, Small) EXCEPT !.content_hash = 2, !.units = <<"L">>,
           !.values = 2001 :> [name |-> "Level", data_type |-> "DInt", unit |-> 1] @@ @],
      [Small EXCEPT !.content_hash = 9],
      [Small EXCEPT !.content_hash = 1],
      [Revision(5, Small) EXCEPT !.max_slots = 2, !.max_record_size = 60],
      [Revision(6, Small) EXCEPT !.event_types[2].slots = Append(@, Vendor)],
      Revision(7, sample_definition(FoldSet(LAMBDA e, s : Append(s, e), <<>>, EVENT_SPECS))),
      [Revision(8, Small) EXCEPT !.event_types[3] = Small.event_types[1]],
      [Revision(9, Small) EXCEPT !.event_types[1].slots = Append(@, @[1])],
      [Revision(10, Small) EXCEPT !.event_types[1].slots = Reverse(@)],
      SetEvent(Revision(11, Small), 1, "max_occurs", 0),
      SetEvent(Revision(12, Small), 1, "tlv_type", "UInt"),
      SetEvent(Revision(13, Small), 1, "key", "dataType"),
      SetEvent(Revision(14, Small), 1, "key", "newValue"),
      [Revision(15, Small) EXCEPT !.event_types[2].slots =
           Append(@, [Vendor EXCEPT !.tlv_type = "Opaque"])],
      Machine(Revision(16, Small), "S88", "CoreProcedureStates"),
      Machine(Revision(17, Small), "ISA-88", "States"),
      Machine(Revision(18, Small), "PackML", "CoreProcedureStates"),
      [Revision(19, Small) EXCEPT !.event_types[2].slots =
           Append(@, [Vendor EXCEPT !.value_payload = TRUE])],
      SetEvent(Revision(20, Small), 1, "max_occurs", -2)>>

Now(name) == [current |-> name, prior |-> 0]

Input(rec, first, later, max_epochs, holdings, manifest) ==
    [rec |-> rec, first |-> first, later |-> later, max_epochs |-> max_epochs,
     holdings |-> holdings, manifest |-> manifest]

-----------------------------------------------------------------------------
ValueAlphabet ==
    {V!Slot("valueId", "UDInt", 4, 2001), V!Slot("valueId", "UDInt", 2, 2001),
     V!Slot("valueId", "UDInt", 4, 5), V!Slot("newValue", "Real", 4, 1),
     V!Slot("newValue", "Real", 2, 1), V!Slot("newValue", "DInt", 4, 1),
     V!Slot("newValue", "Opaque", 4, 1), V!Slot("newValue", "Real", 4, NonFinite), V!Slot("previousValue", "Real", 4, 1),
     V!Slot("quality", "UInt", 2, 0), V!Slot("dataType", "UInt", 2, 1),
     V!Slot("vendor1", "UInt", 2, 1), V!Slot("vendor2", "Opaque", 3, 1)}

MessageAlphabet ==
    {V!Slot("messageTemplateId", "UDInt", 4, 1001), V!Text("arg", 3),
     V!Slot("arg", "String", 3, InvalidUtf8), V!Slot("arg", "Bool", 0, 1),
     V!Slot("severity", "UInt", 2, 500), V!Slot("unassigned", "UInt", 2, 1),
     V!Slot("vendor1", "UInt", 2, 1), V!Slot("vendor1", "UInt", 1, 1),
     V!Slot("vendor2", "Bytes", 256, 1)}

Short(alphabet, n) == UNION {[1 .. k -> alphabet] : k \in 0 .. n}

\* Any slots, one epoch: every file that could matter for a current record.
WildInputs ==
    {Input(V!Record(66, "ValueChanged", slots), first, {}, 1, {Now(first)}, NoManifest) :
        slots \in Short(ValueAlphabet, 3), first \in {2, 5}}
    \cup {Input(V!Record(66, "Message", slots), first, {}, 1, {Now(first)}, NoManifest) :
        slots \in Short(MessageAlphabet, 3), first \in {1, 6}}
    \cup {Input(V!Record(66, "Message", <<V!Slot("messageTemplateId", "UDInt", 4, 1001)>> \o slots),
                 6, {}, 1, {Now(6)}, NoManifest) :
        slots \in [1 .. 3 -> MessageAlphabet]}

Bodies ==
    {V!Record(66, "ValueChanged",
        <<V!Slot("valueId", "UDInt", 4, 2001), V!Slot("newValue", type, 4, 1)>>) :
            type \in {"Real", "DInt"}}
    \cup {V!Records.conformant_state_transition, V!Records.conformant_message,
          V!Records.logger_stopped}

\* Any files around a record, up to two epochs after its own.
TameInputs ==
    {Input(rec, first, 1 .. 4, 3, [current : 0 .. 4, prior : 0 .. 4], NoManifest) :
        rec \in Bodies, first \in 1 .. 4}

DefectInputs ==
    {Input(rec, first, {}, 1, {Now(first)}, NoManifest) :
        rec \in Bodies, first \in 8 .. Len(MCFiles)}

VectorInputs ==
    {Input(V!generate_files[stem].rec, 7, {}, 1, {Now(7)}, V!generate_files[stem].manifest) :
        stem \in DOMAIN V!generate_files}

MCInputs == WildInputs \cup TameInputs \cup DefectInputs \cup VectorInputs
=============================================================================
