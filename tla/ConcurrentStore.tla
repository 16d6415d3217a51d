--------------------------- MODULE ConcurrentStore --------------------------
(***************************************************************************)
(* ConcurrentStore of crates/carriage/src/concurrent.rs: the memory that    *)
(* the producer and the consumer share, either the owned in-process store   *)
(* or the mmap-backed store of crates/open-ot-shm (whose control fields are *)
(* guarded by a sequence lock and whose fences can be switched off), and    *)
(* how records are put into its cells and taken out again.                  *)
(*                                                                          *)
(* lost_count is left out of the shared memory: the reader never uses the   *)
(* value it loads, and it can always load the message it already knows.     *)
(***************************************************************************)
EXTENDS RingGeometry, Sequences

CONSTANTS
    Store,       \* "owned" or "shared"
    Fenced,      \* FenceMode: TRUE for Fenced, FALSE for Unfenced
    Ordering,    \* memory of the hardware: "c11" or "x86"
    Shape,       \* record shapes: [len, zero], zero if the payload is zero bytes
    MaxWrites    \* bound: records appended

ASSUME ConcurrentAssumption ==
    /\ Store \in {"owned", "shared"}
    /\ Fenced \in BOOLEAN
    /\ Ordering \in {"c11", "x86"}
    /\ MaxWrites \in Nat
    /\ \A s \in Shape : s.len \in Nat /\ HeaderLen < s.len /\ s.len <= Capacity

VARIABLES
    messages, stores, fenced, seen, acquired, last_read,   \* WeakMemory
    written       \* history: [start, shape, oldest, at] of each record, numbered from 1:
                  \* oldest is the OldestAbs of its write, at the stores before it

-----------------------------------------------------------------------------
(* Memory: the cells of the pool and the control fields.                    *)
ByteAt(p) == <<"byte", p>>
HeadAbs == <<"head", 0>>
OldestAbs == <<"oldest", 0>>
SeqLock == <<"lock", 0>>

Location == {ByteAt(p) : p \in Position} \cup {HeadAbs, OldestAbs, SeqLock}

\* Cell values.  All records share their Sync cell, records of one length share
\* their length cell, payloads may be zero, and the last cell (the CRC) tells
\* one record from every other.
ZeroCell == <<"zero", 0>>
SyncCell == <<"sync", 0>>
LenCell(len) == <<"len", len>>

CellOf(rec, shape, k) ==
    CASE k = 0 -> SyncCell
      [] k = 1 -> LenCell(shape.len)
      [] k > 1 /\ k < shape.len - 1 /\ shape.zero -> ZeroCell
      [] OTHER -> <<"rec", <<rec, k>>>>

Initial == [l \in Location |-> IF l[1] = "byte" THEN ZeroCell ELSE 0]

Mem == INSTANCE WeakMemory

memVars == <<messages, stores, fenced, seen, acquired, last_read>>

-----------------------------------------------------------------------------
(* The producer's side of the store.                                        *)
begin_control_update ==
    IF Store = "shared"
    THEN <<Mem!RelaxedRMW(SeqLock, 2 * Len(written) + 1), Mem!ReleaseFence>>
    ELSE <<>>

\* Faulty variant of end_control_update_release: the lock stays odd.
update_left_open == <<>>

end_control_update_release ==
    IF Store = "shared" THEN <<Mem!Release(SeqLock, 2 * Len(written) + 2)>> ELSE <<>>

-----------------------------------------------------------------------------
(* The consumer's side of the store.                                        *)
\* A cell that reads as the byte 0x00.
IsZero(v) == v = ZeroCell

\* What a cell yields where the length field is expected.  A payload or CRC cell
\* can hold any number there.
LengthsIn(v) ==
    CASE v[1] = "len" -> {v[2]}
      [] v[1] = "zero" -> {0}
      [] OTHER -> 0 .. (Capacity + 1)

\* The ways of loading the cells from p on, one after the other.
BodyReads(p, len) ==
    LET reads[k \in 0 .. len] ==
            IF k = 0 THEN {[view |-> Mem!View, cells |-> <<>>]}
            ELSE LET l == ByteAt(p + k - 1) IN
                 UNION {{[view |-> Mem!AfterRelaxedLoad(r.view, l, m),
                          cells |-> Append(r.cells, m.val)] :
                            m \in Mem!Visible(r.view, l)} : r \in reads[k - 1]}
    IN reads[len]

\* decode: the record whose encoding the cells are, if there is one.
Decoded(cells) ==
    {rec \in DOMAIN written :
        /\ written[rec].shape.len = Len(cells)
        /\ \A k \in DOMAIN cells : cells[k] = CellOf(rec, written[rec].shape, k - 1)}

\* Faulty variant of acquire_before_recheck: no fence.
recheck_unfenced(view) == view

acquire_before_recheck(view) == IF Fenced THEN Mem!AfterAcquireFence(view) ELSE view

=============================================================================
