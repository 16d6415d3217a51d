----------------------------- MODULE MCRing256 -----------------------------
(* Ring256 on a pool of 7 cells: the shortest record has 3, so two slots are *)
(* what the pool needs, and the third range does not fit the loss table.     *)
EXTENDS Ring256Refinement

MCRecord == [run_id : {1}, source_id : {1, 2}, seq : {0, 1}, len : {3, 4}]
            \cup [run_id : {1}, source_id : {1}, seq : {0}, len : {7, 8}]

=============================================================================
