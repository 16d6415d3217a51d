--------------------------- MODULE MCEpochStream ---------------------------
(* EpochStream with a DefinitionChanged that fits the pool, and one that is  *)
(* longer than it, so that a transition fails half way.                     *)
EXTENDS EpochStream

MCDefinitionLens == {HeaderLen + 3, Capacity + 1}

MCSeq == 0 .. MaxWrites

MCBody ==
    [kind : {"data", "stopped"}]
    \cup [kind : {"high_water"}, produced : MCSeq]
    \cup [kind : {"definition_changed"}, epoch_id : 1 .. MaxEpoch]
    \cup [kind : {"started"}, cold : BOOLEAN]

MCRecord ==
    [run_id : 1 .. MaxEpoch, source_id : {SYSTEM_SOURCE_ID} \cup Source, seq : MCSeq,
     len : {DataLen, HighWaterLen} \cup MCDefinitionLens, body : MCBody]

=============================================================================
