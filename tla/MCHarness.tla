----------------------------- MODULE MCHarness -----------------------------
(* Harness on a pool of 11 cells, which two sources with two messages each go   *)
(* round twice.  The second lap begins where a tail of two cells was skipped,    *)
(* with a message of the other source, and ends exactly at the end of the pool:  *)
(* a walk without the fences can meet a source's second message before its first,*)
(* and the high-water records of both sources are retained at the end.           *)
EXTENDS Harness

=============================================================================
