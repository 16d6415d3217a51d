--------------------------- MODULE DefinitionModel ---------------------------
(***************************************************************************)
(* Definition files of crates/definition/src/model.rs: the canonical slot   *)
(* schema of every registry event, and the sample definition.  A definition *)
(* keeps the tables that validation and resolution read; the identity of    *)
(* all its other bytes is `version`, which stands for the hash preimage.    *)
(***************************************************************************)
EXTENDS Registry

None == "none"     \* an absent type, model, label or name
NoUnit == 0       \* a value without a unit
UNBOUNDED == -1    \* MaxOccurs::Unbounded("unbounded")

slot(key, tlv_type, min_occurs, max_occurs) ==
    [key |-> key, tlv_type |-> tlv_type, value_payload |-> FALSE,
     min_occurs |-> min_occurs, max_occurs |-> max_occurs]

value_slot(key, min_occurs, max_occurs) ==
    [key |-> key, tlv_type |-> None, value_payload |-> TRUE,
     min_occurs |-> min_occurs, max_occurs |-> max_occurs]

Required(key, type) == slot(key, type, 1, 1)
Optional(key, type) == slot(key, type, 0, 1)

BaseSlots ==
    [StateTransition |-> <<Required("stateMachineId", "UDInt"), Required("category", "UInt"),
        Required("previousState", "UInt"), Required("newState", "UInt")>>,
     ValueChanged |-> <<Required("valueId", "UDInt"), value_slot("newValue", 1, 1),
        value_slot("previousValue", 0, 1), Optional("quality", "UInt"),
        Optional("semanticRole", "UInt"), Optional("unit", "UInt")>>,
     Message |-> <<Required("messageTemplateId", "UDInt"), value_slot("arg", 0, UNBOUNDED),
        Optional("severity", "UInt")>>]

SystemSlots ==
    [Heartbeat |-> <<Optional("intervalMs", "UDInt"), Optional("seqBase", "ULInt")>>,
     LoggerStarted |-> <<Required("coldStart", "Bool")>>,
     LoggerStopped |-> <<>>,
     BufferCleared |-> <<>>,
     RecordsDropped |-> <<Required("count", "UDInt"), Required("firstLostSeq", "ULInt"),
        Required("lastLostSeq", "ULInt"), Optional("windowStart", "DateTime"),
        Optional("windowEnd", "DateTime")>>,
     SourceRegistered |-> <<Required("registeredSourceId", "UDInt"),
        Optional("sourcePath", "String")>>,
     DefinitionChanged |-> <<Required("defHashOld", "Bytes"), Required("defHashNew", "Bytes"),
        Required("epochId", "ULInt")>>,
     TimeSyncChanged |-> <<Required("clockQuality", "UInt"),
        Optional("windowStart", "DateTime"), Optional("windowEnd", "DateTime")>>,
     SourceHighWater |-> <<Required("producedCount", "ULInt")>>]

Refresh == <<Optional("refreshId", "UDInt")>>
Condition == <<Required("conditionId", "UDInt")>>
Activation == Condition \o <<Required("correlationId", "UDInt")>>
Edge == Condition \o <<Required("conditionClass", "UInt"), Required("correlationId", "UDInt")>>
AckBy == <<Optional("ackBy", "String")>>

ConditionSlots ==
    [ConditionActive |-> Edge \o <<Optional("severity", "UInt"),
        slot("causeOperand", "UDInt", 0, UNBOUNDED), Optional("groupId", "UDInt"),
        Optional("firstInGroup", "Bool")>> \o Refresh,
     ConditionCleared |-> Edge \o Refresh,
     ConditionAcknowledged |-> Activation \o AckBy \o Refresh,
     ConditionConfirmed |-> Activation \o AckBy \o Refresh,
     ConditionShelved |-> Activation \o AckBy \o <<Optional("shelveSecs", "UDInt")>> \o Refresh,
     ConditionUnshelved |-> Activation \o Refresh,
     ConditionSuppressed |-> Condition \o <<Optional("reason", "String")>> \o Refresh,
     ConditionUnsuppressed |-> Condition \o Refresh,
     ConditionOutOfService |-> Condition \o AckBy \o Refresh,
     ConditionInService |-> Condition \o Refresh,
     ConditionCommented |-> Activation \o <<Required("comment", "String")>> \o AckBy \o Refresh,
     ConditionReset |-> Activation \o AckBy \o Refresh,
     ConditionPriorityChanged |-> Condition \o <<Required("previousPriority", "UInt"),
        Required("newPriority", "UInt")>> \o AckBy \o Refresh,
     RefreshStart |-> <<Required("refreshId", "UDInt")>>,
     RefreshEnd |-> <<Required("refreshId", "UDInt")>>]

ProceduralSlots ==
    [RecipeLoaded |-> <<Required("recipeId", "UDInt"), Required("recipeVersion", "String"),
        Optional("batchId", "UDInt"), Optional("effectiveTime", "DateTime")>>,
     RecipeApproved |-> <<Required("recipeId", "UDInt"), Required("recipeVersion", "String"),
        Optional("authResult", "UInt"), Optional("ackBy", "String")>>,
     BatchEvent |-> <<Required("batchId", "UDInt"), Required("newState", "UInt"),
        Optional("recipeId", "UDInt")>>,
     MaterialAddition |-> <<Required("batchId", "UDInt"), Required("materialId", "UDInt"),
        Required("quantity", "LReal"), Optional("unit", "UInt"),
        Optional("correctionOf", "ULInt")>>]

RegulatedSlots ==
    [OperatorAction |-> <<Required("actionId", "UDInt"), Required("actor", "String"),
        slot("contextRef", "UDInt", 0, UNBOUNDED), Optional("authResult", "UInt"),
        Optional("workstation", "String")>>,
     OperatorLogin |-> <<Required("actor", "String"), Required("authResult", "UInt"),
        Optional("workstation", "String"), Optional("role", "UInt")>>,
     OperatorLogout |-> <<Required("actor", "String"), Optional("workstation", "String")>>,
     ParameterChange |-> <<Required("valueId", "UDInt"), value_slot("previousValue", 1, 1),
        value_slot("newValue", 1, 1), Required("actor", "String"),
        Required("reason", "String"), Optional("authResult", "UInt")>>,
     ESignature |-> <<Required("actionId", "UDInt"), Required("actor", "String"),
        Required("signatureMeaning", "UInt"), Required("signedEventSeq", "ULInt"),
        Optional("authResult", "UInt")>>,
     SecurityAccessFailure |-> <<Required("actor", "String"), Optional("workstation", "String"),
        Optional("reason", "String")>>,
     ProgramDownload |-> <<Required("defHashNew", "Bytes"), Required("programId", "UDInt"),
        Required("actor", "String"), Optional("authResult", "UInt")>>]

\* Order classes number the slots of an event in the order they are listed.
canonical_event_type(id) ==
    LET slots == (BaseSlots @@ SystemSlots @@ ConditionSlots
                  @@ ProceduralSlots @@ RegulatedSlots)[id]
    IN [id |-> id, slots |-> [i \in DOMAIN slots |-> slots[i] @@ ("order_class" :> i)]]

SampleValues ==
    2001 :> [name |-> "Temperature", data_type |-> "Real", unit |-> NoUnit]
    @@ 2002 :> [name |-> "BatchCount", data_type |-> "DInt", unit |-> NoUnit]
    @@ 2003 :> [name |-> "Enabled", data_type |-> "Bool", unit |-> NoUnit]
    @@ 2004 :> [name |-> "SmallSigned", data_type |-> "SInt", unit |-> NoUnit]
    @@ 2005 :> [name |-> "SmallUnsigned", data_type |-> "USInt", unit |-> NoUnit]
    @@ 2006 :> [name |-> "SignedWord", data_type |-> "Int", unit |-> NoUnit]
    @@ 2007 :> [name |-> "UnsignedWord", data_type |-> "UInt", unit |-> NoUnit]
    @@ 2008 :> [name |-> "UnsignedDoubleWord", data_type |-> "UDInt", unit |-> NoUnit]
    @@ 2009 :> [name |-> "UnsignedLong", data_type |-> "ULInt", unit |-> NoUnit]
    @@ 2010 :> [name |-> "SignedLong", data_type |-> "LInt", unit |-> NoUnit]
    @@ 2011 :> [name |-> "HighPrecision", data_type |-> "LReal", unit |-> NoUnit]
    @@ 2012 :> [name |-> "StatusText", data_type |-> "String", unit |-> NoUnit]

\* The sample definition, restricted to the event types in `events`.
sample_definition(events) ==
    [version |-> 1, content_hash |-> 0, max_record_size |-> 256, max_slots |-> 16,
     event_types |-> [i \in DOMAIN events |-> canonical_event_type(events[i])],
     sources |-> 66 :> "UnitA.Phase1",
     state_machines |-> <<[state_machine_id |-> 7, name |-> "CoreProcedure",
                           procedural_model |-> "ISA-88", enum_set |-> "CoreProcedureStates"]>>,
     conditions |-> 9001 :> [name |-> "HighPhAlarm", cause_operands |-> 1 :> "Level"],
     message_templates |-> 1001 :> "Status: {1}",
     values |-> SampleValues,
     units |-> <<>>,
     enum_sets |-> "CoreProcedureStates" :> (3 :> "Pausing" @@ 4 :> "Paused")]
=============================================================================
