----------------------------- MODULE MCByteRing -----------------------------
(* ByteRing on a pool of 7 cells with records of 3, 4 and 7 cells: records   *)
(* that fit the pool's end exactly, that skip it, that land on the cell of   *)
(* their own wrap marker, and one that fills the pool.                       *)
EXTENDS ByteRing

MCRecord == [run_id : {1}, source_id : {1, 2}, seq : {0}, len : {3, 4}]
            \cup [run_id : {1}, source_id : {1}, seq : {0}, len : {7, 8}]

=============================================================================
