---------------------------- MODULE RingGeometry ----------------------------
(***************************************************************************)
(* The arithmetic every OpenOT ring shares: absolute byte offsets that only *)
(* grow, physical positions modulo the capacity, the skip to the next lap   *)
(* when a record would cross the end of the pool, and the retention floor   *)
(* that decides which records a write reclaims.  The sequential ring        *)
(* (ring.rs), the concurrent producer (concurrent.rs) and the Structured    *)
(* Text ring all use these definitions.                                     *)
(*                                                                          *)
(* A cell stands for the smallest unit the code's record lengths are made   *)
(* of; HeaderLen is the length of a record header in cells.                 *)
(***************************************************************************)
EXTENDS Integers

CONSTANTS
    Capacity,    \* cells of the byte pool
    HeaderLen    \* HEADER_LEN: cells of a record header (Sync, then length)

ASSUME GeometryAssumption ==
    /\ Capacity \in Nat \ {0}
    /\ HeaderLen \in Nat /\ HeaderLen >= 2

Offset == Nat

Position == 0 .. (Capacity - 1)

Phys(abs) == abs % Capacity

\* Where a record of the given length starts: at the head, or at the next
\* multiple of the capacity when it would cross the end of the pool.
StartAbs(head, len) ==
    IF Phys(head) = 0 \/ Phys(head) + len <= Capacity
    THEN head
    ELSE head + (Capacity - Phys(head))

\* Faulty variants of RetentionFloor: one cell too low, and one too high.
RetentionFloorOffByOne(final_head) ==
    IF final_head > Capacity THEN final_head - Capacity - 1 ELSE 0
RetentionFloorTooHigh(final_head) ==
    IF final_head >= Capacity THEN final_head - Capacity + 1 ELSE 0

\* Records that start below the floor are reclaimed (saturating_sub).
RetentionFloor(final_head) ==
    IF final_head > Capacity THEN final_head - Capacity ELSE 0

=============================================================================
