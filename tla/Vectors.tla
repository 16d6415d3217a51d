------------------------------ MODULE Vectors ------------------------------
(***************************************************************************)
(* The record vectors of crates/carriage/src/vectors.rs: the records the    *)
(* generator builds, and apart from them the manifests it publishes (what a *)
(* reader is told each vector holds, and whether the schema accepts it).    *)
(* Manifests name a slot by its key; 0x0016 is the count of RecordsDropped. *)
(* A payload keeps its width; a text, a real and a number of more than 31   *)
(* bits is 1.                                                               *)
(***************************************************************************)
EXTENDS Integers, Sequences, TLC

Record(source_id, event, slots) ==
    [envelope |-> [source_id |-> source_id, run_id |-> 1, seq |-> 1, source_time |-> 1],
     event_type_id |-> event, slots |-> slots]

Slot(key, ty, len, val) == [key |-> key, ty |-> ty, len |-> len, val |-> val]

Text(key, len) == Slot(key, "String", len, 1)

Manifest(event, expected, slots) ==
    [event |-> event, expected |-> expected, slots |-> slots]

-----------------------------------------------------------------------------
(* The records.                                                             *)
StateRecords ==
    [state_transition |-> Record(42, "StateTransition", <<
          Slot("stateMachineId", "UInt", 2, 4660), Slot("category", "UInt", 2, 2)>>),
     conformant_state_transition |-> Record(66, "StateTransition", <<
          Slot("stateMachineId", "UDInt", 4, 7), Slot("category", "UInt", 2, 2),
          Slot("previousState", "UInt", 2, 3), Slot("newState", "UInt", 2, 4)>>)]

NarrowValueRecords ==
    [conformant_value_changed_real |-> Record(66, "ValueChanged", <<
          Slot("valueId", "UDInt", 4, 2001), Slot("newValue", "Real", 4, 1)>>),
     conformant_value_changed_dint |-> Record(66, "ValueChanged", <<
          Slot("valueId", "UDInt", 4, 2002), Slot("newValue", "DInt", 4, 42),
          Slot("previousValue", "DInt", 4, 40), Slot("quality", "UInt", 2, 0)>>),
     conformant_value_changed_bool |-> Record(66, "ValueChanged", <<
          Slot("valueId", "UDInt", 4, 2003), Slot("newValue", "Bool", 1, 1)>>),
     conformant_value_changed_sint |-> Record(66, "ValueChanged", <<
          Slot("valueId", "UDInt", 4, 2004), Slot("newValue", "SInt", 1, -5)>>),
     conformant_value_changed_usint |-> Record(66, "ValueChanged", <<
          Slot("valueId", "UDInt", 4, 2005), Slot("newValue", "USInt", 1, 250)>>),
     conformant_value_changed_int |-> Record(66, "ValueChanged", <<
          Slot("valueId", "UDInt", 4, 2006), Slot("newValue", "Int", 2, -1234)>>)]

WideValueRecords ==
    [conformant_value_changed_uint |-> Record(66, "ValueChanged", <<
          Slot("valueId", "UDInt", 4, 2007), Slot("newValue", "UInt", 2, 1234)>>),
     conformant_value_changed_udint |-> Record(66, "ValueChanged", <<
          Slot("valueId", "UDInt", 4, 2008), Slot("newValue", "UDInt", 4, 123456)>>),
     conformant_value_changed_ulint |-> Record(66, "ValueChanged", <<
          Slot("valueId", "UDInt", 4, 2009), Slot("newValue", "ULInt", 8, 1)>>),
     conformant_value_changed_lint |-> Record(66, "ValueChanged", <<
          Slot("valueId", "UDInt", 4, 2010), Slot("newValue", "LInt", 8, 1)>>),
     conformant_value_changed_lreal |-> Record(66, "ValueChanged", <<
          Slot("valueId", "UDInt", 4, 2011), Slot("newValue", "LReal", 8, 1)>>),
     conformant_value_changed_string |-> Record(66, "ValueChanged", <<
          Slot("valueId", "UDInt", 4, 2012), Text("newValue", 5)>>)]

MessageRecords ==
    [conformant_message |-> Record(66, "Message", <<
          Slot("messageTemplateId", "UDInt", 4, 1001), Text("arg", 11),
          Slot("severity", "UInt", 2, 500)>>)]

ActivationRecords ==
    [conformant_condition_active |-> Record(66, "ConditionActive", <<
          Slot("conditionId", "UDInt", 4, 9001), Slot("conditionClass", "UInt", 2, 0),
          Slot("correlationId", "UDInt", 4, 77), Slot("severity", "UInt", 2, 900),
          Slot("causeOperand", "UDInt", 4, 1)>>),
     conformant_condition_cleared |-> Record(66, "ConditionCleared", <<
          Slot("conditionId", "UDInt", 4, 9001), Slot("conditionClass", "UInt", 2, 0),
          Slot("correlationId", "UDInt", 4, 77)>>),
     conformant_condition_acknowledged |-> Record(66, "ConditionAcknowledged", <<
          Slot("conditionId", "UDInt", 4, 9001), Slot("correlationId", "UDInt", 4, 77),
          Text("ackBy", 10)>>),
     conformant_condition_confirmed |-> Record(66, "ConditionConfirmed", <<
          Slot("conditionId", "UDInt", 4, 9001), Slot("correlationId", "UDInt", 4, 77),
          Text("ackBy", 10)>>),
     conformant_condition_shelved |-> Record(66, "ConditionShelved", <<
          Slot("conditionId", "UDInt", 4, 9001), Slot("correlationId", "UDInt", 4, 77),
          Text("ackBy", 10), Slot("shelveSecs", "UDInt", 4, 300)>>)]

ServiceRecords ==
    [conformant_condition_unshelved |-> Record(66, "ConditionUnshelved", <<
          Slot("conditionId", "UDInt", 4, 9001), Slot("correlationId", "UDInt", 4, 77)>>),
     conformant_condition_suppressed |-> Record(66, "ConditionSuppressed", <<
          Slot("conditionId", "UDInt", 4, 9001), Text("reason", 11)>>),
     conformant_condition_unsuppressed |-> Record(66, "ConditionUnsuppressed", <<
          Slot("conditionId", "UDInt", 4, 9001)>>),
     conformant_condition_out_of_service |-> Record(66, "ConditionOutOfService", <<
          Slot("conditionId", "UDInt", 4, 9001), Text("ackBy", 10)>>),
     conformant_condition_in_service |-> Record(66, "ConditionInService", <<
          Slot("conditionId", "UDInt", 4, 9001)>>),
     conformant_condition_reset |-> Record(66, "ConditionReset", <<
          Slot("conditionId", "UDInt", 4, 9001), Slot("correlationId", "UDInt", 4, 77),
          Text("ackBy", 10)>>)]

CommentRecords ==
    [conformant_condition_commented |-> Record(66, "ConditionCommented", <<
          Slot("conditionId", "UDInt", 4, 9001), Slot("correlationId", "UDInt", 4, 77),
          Text("comment", 16), Text("ackBy", 10)>>),
     conformant_condition_priority_changed |-> Record(66, "ConditionPriorityChanged", <<
          Slot("conditionId", "UDInt", 4, 9001), Slot("previousPriority", "UInt", 2, 600),
          Slot("newPriority", "UInt", 2, 900), Text("ackBy", 10)>>)]

ProceduralRecords ==
    [conformant_recipe_loaded |-> Record(66, "RecipeLoaded", <<
          Slot("recipeId", "UDInt", 4, 3001), Text("recipeVersion", 6),
          Slot("batchId", "UDInt", 4, 4001)>>),
     conformant_recipe_approved |-> Record(66, "RecipeApproved", <<
          Slot("recipeId", "UDInt", 4, 3001), Text("recipeVersion", 6),
          Slot("authResult", "UInt", 2, 1), Text("ackBy", 10)>>),
     conformant_batch_event |-> Record(66, "BatchEvent", <<Slot("batchId", "UDInt", 4, 4001),
          Slot("newState", "UInt", 2, 2), Slot("recipeId", "UDInt", 4, 3001)>>),
     conformant_material_addition |-> Record(66, "MaterialAddition", <<
          Slot("batchId", "UDInt", 4, 4001), Slot("materialId", "UDInt", 4, 5001),
          Slot("quantity", "LReal", 8, 1), Slot("unit", "UInt", 2, 8)>>)]

OperatorRecords ==
    [conformant_operator_action |-> Record(66, "OperatorAction", <<
          Slot("actionId", "UDInt", 4, 6001), Text("actor", 10),
          Slot("contextRef", "UDInt", 4, 7001), Slot("contextRef", "UDInt", 4, 7002),
          Slot("authResult", "UInt", 2, 0), Text("workstation", 9)>>),
     conformant_operator_login |-> Record(66, "OperatorLogin", <<Text("actor", 10),
          Slot("authResult", "UInt", 2, 0), Text("workstation", 9),
          Slot("role", "UInt", 2, 3)>>),
     conformant_operator_logout |-> Record(66, "OperatorLogout", <<Text("actor", 10),
          Text("workstation", 9)>>),
     conformant_security_access_failure |-> Record(66, "SecurityAccessFailure", <<
          Text("actor", 10), Text("workstation", 9), Text("reason", 6)>>)]

ParameterRecords ==
    [conformant_parameter_change_real |-> Record(66, "ParameterChange", <<
          Slot("valueId", "UDInt", 4, 2001), Slot("previousValue", "Real", 4, 1),
          Slot("newValue", "Real", 4, 1), Text("actor", 10), Text("reason", 15),
          Slot("authResult", "UInt", 2, 0)>>),
     conformant_parameter_change_dint |-> Record(66, "ParameterChange", <<
          Slot("valueId", "UDInt", 4, 2002), Slot("previousValue", "DInt", 4, 40),
          Slot("newValue", "DInt", 4, 42), Text("actor", 10), Text("reason", 15)>>),
     conformant_parameter_change_bool |-> Record(66, "ParameterChange", <<
          Slot("valueId", "UDInt", 4, 2003), Slot("previousValue", "Bool", 1, 0),
          Slot("newValue", "Bool", 1, 1), Text("actor", 10), Text("reason", 12)>>),
     conformant_parameter_change_string |-> Record(66, "ParameterChange", <<
          Slot("valueId", "UDInt", 4, 2012), Text("previousValue", 6), Text("newValue", 4),
          Text("actor", 10), Text("reason", 9), Slot("authResult", "UInt", 2, 1)>>)]

SignatureRecords ==
    [conformant_e_signature |-> Record(66, "ESignature", <<Slot("actionId", "UDInt", 4, 6002),
          Text("actor", 8), Slot("signatureMeaning", "UInt", 2, 2),
          Slot("signedEventSeq", "ULInt", 8, 37), Slot("authResult", "UInt", 2, 0)>>)]

LossRecords ==
    [conformant_records_dropped |-> Record(66, "RecordsDropped", <<
          Slot("count", "UDInt", 4, 18), Slot("firstLostSeq", "ULInt", 8, 40),
          Slot("lastLostSeq", "ULInt", 8, 57),
          Slot("windowStart", "DateTime", 8, 1000000000),
          Slot("windowEnd", "DateTime", 8, 1000010000)>>),
     conformant_source_high_water |-> Record(88, "SourceHighWater", <<
          Slot("producedCount", "ULInt", 8, 5)>>),
     records_dropped |-> Record(42, "RecordsDropped", <<Slot("count", "UDInt", 4, 5),
          Slot("firstLostSeq", "ULInt", 8, 100), Slot("lastLostSeq", "ULInt", 8, 104)>>),
     source_high_water |-> Record(88, "SourceHighWater", <<
          Slot("producedCount", "ULInt", 8, 5)>>)]

SystemRecords ==
    [minimal_message |-> Record(7, "Message", <<Slot("messageTemplateId", "UDInt", 4, 1001)>>),
     logger_stopped |-> Record(0, "LoggerStopped", <<>>),
     definition_changed |-> Record(0, "DefinitionChanged", <<Slot("defHashOld", "Bytes", 8, 1),
          Slot("defHashNew", "Bytes", 8, 1), Slot("epochId", "ULInt", 8, 2)>>),
     logger_started_warm |-> Record(0, "LoggerStarted", <<Slot("coldStart", "Bool", 1, 0)>>),
     logger_started_cold |-> Record(0, "LoggerStarted", <<Slot("coldStart", "Bool", 1, 1)>>)]

-----------------------------------------------------------------------------
(* The manifests.                                                           *)
StateManifests ==
    [state_transition |-> Manifest("StateTransition", "reject", <<<<"stateMachineId", "UInt">>,
          <<"category", "UInt">>>>),
     conformant_state_transition |-> Manifest("StateTransition", "accept", <<
          <<"stateMachineId", "UDInt">>, <<"category", "UInt">>,
          <<"previousState", "UInt">>, <<"newState", "UInt">>>>)]

NarrowValueManifests ==
    [conformant_value_changed_real |-> Manifest("ValueChanged", "accept", <<
          <<"valueId", "UDInt">>, <<"newValue", "Real">>>>),
     conformant_value_changed_dint |-> Manifest("ValueChanged", "accept", <<
          <<"valueId", "UDInt">>, <<"newValue", "DInt">>, <<"previousValue", "DInt">>,
          <<"quality", "UInt">>>>),
     conformant_value_changed_bool |-> Manifest("ValueChanged", "accept", <<
          <<"valueId", "UDInt">>, <<"newValue", "Bool">>>>),
     conformant_value_changed_sint |-> Manifest("ValueChanged", "accept", <<
          <<"valueId", "UDInt">>, <<"newValue", "SInt">>>>),
     conformant_value_changed_usint |-> Manifest("ValueChanged", "accept", <<
          <<"valueId", "UDInt">>, <<"newValue", "USInt">>>>),
     conformant_value_changed_int |-> Manifest("ValueChanged", "accept", <<
          <<"valueId", "UDInt">>, <<"newValue", "Int">>>>)]

WideValueManifests ==
    [conformant_value_changed_uint |-> Manifest("ValueChanged", "accept", <<
          <<"valueId", "UDInt">>, <<"newValue", "UInt">>>>),
     conformant_value_changed_udint |-> Manifest("ValueChanged", "accept", <<
          <<"valueId", "UDInt">>, <<"newValue", "UDInt">>>>),
     conformant_value_changed_ulint |-> Manifest("ValueChanged", "accept", <<
          <<"valueId", "UDInt">>, <<"newValue", "ULInt">>>>),
     conformant_value_changed_lint |-> Manifest("ValueChanged", "accept", <<
          <<"valueId", "UDInt">>, <<"newValue", "LInt">>>>),
     conformant_value_changed_lreal |-> Manifest("ValueChanged", "accept", <<
          <<"valueId", "UDInt">>, <<"newValue", "LReal">>>>),
     conformant_value_changed_string |-> Manifest("ValueChanged", "accept", <<
          <<"valueId", "UDInt">>, <<"newValue", "String">>>>)]

MessageManifests ==
    [conformant_message |-> Manifest("Message", "accept", <<<<"messageTemplateId", "UDInt">>,
          <<"arg", "String">>, <<"severity", "UInt">>>>)]

ActivationManifests ==
    [conformant_condition_active |-> Manifest("ConditionActive", "accept", <<
          <<"conditionId", "UDInt">>, <<"conditionClass", "UInt">>,
          <<"correlationId", "UDInt">>, <<"severity", "UInt">>,
          <<"causeOperand", "UDInt">>>>),
     conformant_condition_cleared |-> Manifest("ConditionCleared", "accept", <<
          <<"conditionId", "UDInt">>, <<"conditionClass", "UInt">>,
          <<"correlationId", "UDInt">>>>),
     conformant_condition_acknowledged |-> Manifest("ConditionAcknowledged", "accept", <<
          <<"conditionId", "UDInt">>, <<"correlationId", "UDInt">>,
          <<"ackBy", "String">>>>),
     conformant_condition_confirmed |-> Manifest("ConditionConfirmed", "accept", <<
          <<"conditionId", "UDInt">>, <<"correlationId", "UDInt">>,
          <<"ackBy", "String">>>>),
     conformant_condition_shelved |-> Manifest("ConditionShelved", "accept", <<
          <<"conditionId", "UDInt">>, <<"correlationId", "UDInt">>, <<"ackBy", "String">>,
          <<"shelveSecs", "UDInt">>>>)]

ServiceManifests ==
    [conformant_condition_unshelved |-> Manifest("ConditionUnshelved", "accept", <<
          <<"conditionId", "UDInt">>, <<"correlationId", "UDInt">>>>),
     conformant_condition_suppressed |-> Manifest("ConditionSuppressed", "accept", <<
          <<"conditionId", "UDInt">>, <<"reason", "String">>>>),
     conformant_condition_unsuppressed |-> Manifest("ConditionUnsuppressed", "accept", <<
          <<"conditionId", "UDInt">>>>),
     conformant_condition_out_of_service |-> Manifest("ConditionOutOfService", "accept", <<
          <<"conditionId", "UDInt">>, <<"ackBy", "String">>>>),
     conformant_condition_in_service |-> Manifest("ConditionInService", "accept", <<
          <<"conditionId", "UDInt">>>>),
     conformant_condition_reset |-> Manifest("ConditionReset", "accept", <<
          <<"conditionId", "UDInt">>, <<"correlationId", "UDInt">>,
          <<"ackBy", "String">>>>)]

CommentManifests ==
    [conformant_condition_commented |-> Manifest("ConditionCommented", "accept", <<
          <<"conditionId", "UDInt">>, <<"correlationId", "UDInt">>,
          <<"comment", "String">>, <<"ackBy", "String">>>>),
     conformant_condition_priority_changed |-> Manifest("ConditionPriorityChanged", "accept", <<
          <<"conditionId", "UDInt">>, <<"previousPriority", "UInt">>,
          <<"newPriority", "UInt">>, <<"ackBy", "String">>>>)]

ProceduralManifests ==
    [conformant_recipe_loaded |-> Manifest("RecipeLoaded", "accept", <<<<"recipeId", "UDInt">>,
          <<"recipeVersion", "String">>, <<"batchId", "UDInt">>>>),
     conformant_recipe_approved |-> Manifest("RecipeApproved", "accept", <<
          <<"recipeId", "UDInt">>, <<"recipeVersion", "String">>, <<"authResult", "UInt">>,
          <<"ackBy", "String">>>>),
     conformant_batch_event |-> Manifest("BatchEvent", "accept", <<<<"batchId", "UDInt">>,
          <<"newState", "UInt">>, <<"recipeId", "UDInt">>>>),
     conformant_material_addition |-> Manifest("MaterialAddition", "accept", <<
          <<"batchId", "UDInt">>, <<"materialId", "UDInt">>, <<"quantity", "LReal">>,
          <<"unit", "UInt">>>>)]

OperatorManifests ==
    [conformant_operator_action |-> Manifest("OperatorAction", "accept", <<
          <<"actionId", "UDInt">>, <<"actor", "String">>, <<"contextRef", "UDInt">>,
          <<"contextRef", "UDInt">>, <<"authResult", "UInt">>,
          <<"workstation", "String">>>>),
     conformant_operator_login |-> Manifest("OperatorLogin", "accept", <<<<"actor", "String">>,
          <<"authResult", "UInt">>, <<"workstation", "String">>, <<"role", "UInt">>>>),
     conformant_operator_logout |-> Manifest("OperatorLogout", "accept", <<
          <<"actor", "String">>, <<"workstation", "String">>>>),
     conformant_security_access_failure |-> Manifest("SecurityAccessFailure", "accept", <<
          <<"actor", "String">>, <<"workstation", "String">>, <<"reason", "String">>>>)]

ParameterManifests ==
    [conformant_parameter_change_real |-> Manifest("ParameterChange", "accept", <<
          <<"valueId", "UDInt">>, <<"previousValue", "Real">>, <<"newValue", "Real">>,
          <<"actor", "String">>, <<"reason", "String">>, <<"authResult", "UInt">>>>),
     conformant_parameter_change_dint |-> Manifest("ParameterChange", "accept", <<
          <<"valueId", "UDInt">>, <<"previousValue", "DInt">>, <<"newValue", "DInt">>,
          <<"actor", "String">>, <<"reason", "String">>>>),
     conformant_parameter_change_bool |-> Manifest("ParameterChange", "accept", <<
          <<"valueId", "UDInt">>, <<"previousValue", "Bool">>, <<"newValue", "Bool">>,
          <<"actor", "String">>, <<"reason", "String">>>>),
     conformant_parameter_change_string |-> Manifest("ParameterChange", "accept", <<
          <<"valueId", "UDInt">>, <<"previousValue", "String">>, <<"newValue", "String">>,
          <<"actor", "String">>, <<"reason", "String">>, <<"authResult", "UInt">>>>)]

SignatureManifests ==
    [conformant_e_signature |-> Manifest("ESignature", "accept", <<<<"actionId", "UDInt">>,
          <<"actor", "String">>, <<"signatureMeaning", "UInt">>,
          <<"signedEventSeq", "ULInt">>, <<"authResult", "UInt">>>>)]

LossManifests ==
    [conformant_records_dropped |-> Manifest("RecordsDropped", "accept", <<
          <<"count", "UDInt">>, <<"firstLostSeq", "ULInt">>, <<"lastLostSeq", "ULInt">>,
          <<"windowStart", "DateTime">>, <<"windowEnd", "DateTime">>>>),
     conformant_source_high_water |-> Manifest("SourceHighWater", "accept", <<
          <<"producedCount", "ULInt">>>>),
     records_dropped |-> Manifest("RecordsDropped", "unstated", <<<<"count", "UDInt">>,
          <<"firstLostSeq", "ULInt">>, <<"lastLostSeq", "ULInt">>>>),
     source_high_water |-> Manifest("SourceHighWater", "unstated", <<
          <<"producedCount", "ULInt">>>>)]

SystemManifests ==
    [minimal_message |-> Manifest("Message", "unstated", <<<<"messageTemplateId", "UDInt">>>>),
     logger_stopped |-> Manifest("LoggerStopped", "unstated", <<>>),
     definition_changed |-> Manifest("DefinitionChanged", "unstated", <<
          <<"defHashOld", "Bytes">>, <<"defHashNew", "Bytes">>, <<"epochId", "ULInt">>>>),
     logger_started_warm |-> Manifest("LoggerStarted", "unstated", <<<<"coldStart", "Bool">>>>),
     logger_started_cold |-> Manifest("LoggerStarted", "unstated", <<<<"coldStart", "Bool">>>>)]

-----------------------------------------------------------------------------
Records ==
    StateRecords @@ NarrowValueRecords @@ WideValueRecords @@ MessageRecords @@ ActivationRecords @@
    ServiceRecords @@ CommentRecords @@ ProceduralRecords @@ OperatorRecords @@ ParameterRecords @@
    SignatureRecords @@ LossRecords @@ SystemRecords

Manifests ==
    StateManifests @@ NarrowValueManifests @@ WideValueManifests @@ MessageManifests @@
    ActivationManifests @@ ServiceManifests @@ CommentManifests @@ ProceduralManifests @@
    OperatorManifests @@ ParameterManifests @@ SignatureManifests @@ LossManifests @@
    SystemManifests

(* The vectors by name, each with its manifest.                             *)
generate_files ==
    [stem \in DOMAIN Records |-> [rec |-> Records[stem], manifest |-> Manifests[stem]]]
=============================================================================
