-------------------------- MODULE MCLossAccounting --------------------------
(* LossAccounting with two sources on a pool of 8 cells, so that at most two *)
(* records fit and every report or checkpoint evicts something.  Nothing     *)
(* tells one source from another but its name.                               *)
EXTENDS LossAccounting, TLC

MCSymmetry == Permutations(Source)

MCSeq == 0 .. MaxWrites

MCBody ==
    [kind : {"data"}]
    \cup [kind : {"high_water"}, produced : MCSeq]
    \cup [kind : {"dropped"}, first_seq : MCSeq, last_seq : MCSeq, count : MCSeq]

MCRecord ==
    [run_id : {1}, source_id : Source, seq : MCSeq, flags : SUBSET {FLAG_SYNTHETIC},
     len : {DataLen, HighWaterLen, DroppedLen}, body : MCBody]

=============================================================================
