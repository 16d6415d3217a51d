------------------------------ MODULE Registry ------------------------------
(***************************************************************************)
(* The catalogues of crates/carriage/src/registry.rs.  A key, an event and  *)
(* a type tag are named by their registry name instead of their number.     *)
(* Keys outside the catalogue are "unassigned" (in the core range) and the  *)
(* vendor keys, whose numeric order is their place in VendorKeys.           *)
(***************************************************************************)
EXTENDS Integers, Sequences, FiniteSets, TLC

BaseEvents == {"StateTransition", "ValueChanged", "Message"}

SystemEvents == {"Heartbeat", "LoggerStarted", "LoggerStopped", "BufferCleared",
    "RecordsDropped", "SourceRegistered", "DefinitionChanged", "TimeSyncChanged",
    "SourceHighWater"}

ConditionEvents == {"ConditionActive", "ConditionCleared", "ConditionAcknowledged",
    "ConditionConfirmed", "ConditionShelved", "ConditionUnshelved", "ConditionSuppressed",
    "ConditionUnsuppressed", "ConditionOutOfService", "ConditionInService",
    "ConditionCommented", "ConditionReset", "ConditionPriorityChanged",
    "RefreshStart", "RefreshEnd"}

ProceduralEvents == {"RecipeLoaded", "RecipeApproved", "BatchEvent", "MaterialAddition"}

RegulatedEvents == {"OperatorAction", "OperatorLogin", "OperatorLogout", "ParameterChange",
    "ESignature", "SecurityAccessFailure", "ProgramDownload"}

EVENT_SPECS == BaseEvents \cup SystemEvents \cup ConditionEvents
               \cup ProceduralEvents \cup RegulatedEvents

\* The type rule of a field: a fixed type, the type of the logged value, or none.
OperationalFields ==
    [stateMachineId |-> "UDInt", category |-> "UInt", previousState |-> "UInt",
     newState |-> "UInt", conditionId |-> "UDInt", conditionClass |-> "UInt",
     correlationId |-> "UDInt", severity |-> "UInt", causeOperand |-> "UDInt",
     actionId |-> "UDInt", actor |-> "String", contextRef |-> "UDInt",
     valueId |-> "UDInt", dataType |-> "Reserved", previousValue |-> "ValuePayload",
     newValue |-> "ValuePayload", quality |-> "UInt", semanticRole |-> "UInt",
     unit |-> "UInt", messageTemplateId |-> "UDInt", arg |-> "ValuePayload",
     count |-> "UDInt", firstLostSeq |-> "ULInt", lastLostSeq |-> "ULInt",
     windowStart |-> "DateTime", windowEnd |-> "DateTime", sourcePath |-> "String",
     defHashNew |-> "Bytes"]

AuditFields ==
    [ackBy |-> "String", shelveSecs |-> "UDInt", reason |-> "String",
     authResult |-> "UInt", workstation |-> "String", signatureMeaning |-> "UInt",
     recipeId |-> "UDInt", recipeVersion |-> "String", batchId |-> "UDInt",
     materialId |-> "UDInt", quantity |-> "LReal", programId |-> "UDInt",
     registeredSourceId |-> "UDInt", intervalMs |-> "UDInt", seqBase |-> "ULInt",
     newPriority |-> "UInt", reserved002D |-> "Reserved", previousPriority |-> "UInt",
     signedEventSeq |-> "ULInt", effectiveTime |-> "DateTime", correctionOf |-> "ULInt",
     clockQuality |-> "UInt", role |-> "UInt", refreshId |-> "UDInt",
     groupId |-> "UDInt", firstInGroup |-> "Bool", comment |-> "String",
     producedCount |-> "ULInt", defHashOld |-> "Bytes", epochId |-> "ULInt",
     coldStart |-> "Bool"]

FIELD_SPECS == OperationalFields @@ AuditFields

\* Payload width of a type; 0 for the types of variable length.
TLV_TYPE_SPECS ==
    [Bool |-> 1, SInt |-> 1, USInt |-> 1, UInt |-> 2, Int |-> 2, UDInt |-> 4,
     DInt |-> 4, ULInt |-> 8, LInt |-> 8, Real |-> 4, LReal |-> 8, DateTime |-> 8,
     String |-> 0, Bytes |-> 0]

VendorKeys == <<"vendor1", "vendor2">>

is_vendor_key(key) == \E i \in DOMAIN VendorKeys : VendorKeys[i] = key

is_core_key(key) == ~is_vendor_key(key)

VendorRank(key) == CHOOSE i \in DOMAIN VendorKeys : VendorKeys[i] = key

\* Labels of the enumerations the resolver names, by value.
Labels(seq) == [value \in 0 .. Len(seq) - 1 |-> seq[value + 1]]

CATEGORY_VALUES == Labels(<<"ProcessState", "Mode", "Procedural">>)

AUTH_RESULT_VALUES ==
    Labels(<<"Granted", "Denied", "NotRequired", "Pending", "Expired">>)

SIGNATURE_MEANING_VALUES ==
    Labels(<<"Authored", "Reviewed", "Approved", "Verified", "Performed", "Witnessed">>)

PROCEDURAL_MODEL_A_STATES ==
    Labels(<<"Idle", "Running", "Complete", "Pausing", "Paused", "Holding", "Held",
             "Restarting", "Stopping", "Stopped", "Aborting", "Aborted">>)

PROCEDURAL_MODEL_B_STATES ==
    Labels(<<"Idle", "Starting", "Execute", "Completing", "Complete", "Holding", "Held",
             "Unholding", "Suspending", "Suspended", "Unsuspending", "Stopping", "Stopped",
             "Aborting", "Aborted", "Clearing", "Resetting">>)

PROCEDURAL_MODELS ==
    "ISA-88" :> PROCEDURAL_MODEL_A_STATES @@ "PackML" :> PROCEDURAL_MODEL_B_STATES

severity_band(severity) ==
    CASE severity \in 1 .. 332 -> "Low"
      [] severity \in 333 .. 666 -> "Medium"
      [] severity \in 667 .. 1000 -> "High"
      [] OTHER -> "none"
=============================================================================
