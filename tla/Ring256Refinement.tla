------------------------- MODULE Ring256Refinement -------------------------
(***************************************************************************)
(* OPENOT_Ring256Producer compared with the RingBuffer of ring.rs, which it *)
(* follows until its loss table overflows.                                  *)
(***************************************************************************)
EXTENDS Ring256

AbstractRing == RingOf(fb)

BR == INSTANCE ByteRing WITH ring <- AbstractRing, MaxWrites <- MaxCalls

\* Until the loss table overflows, the block is the ring of ring.rs: every call
\* either writes a record exactly as write_record does or leaves the ring alone.
ImplementsByteRing ==
    /\ BR!Init
    /\ [][fb'.LossRangeOverflow \/ BR!Write \/ UNCHANGED AbstractRing]_fb

\* The ranges reported are those of the ring of ring.rs, as long as they all fit.
LossRangesExact ==
    ~fb.LossRangeOverflow => fb.LossRanges = BR!producer_loss_ranges(AbstractRing)

\* Calls that fail after an overflow go on evicting; LostCount and the spans stay in
\* step with what was written, and the records still listed are intact.
CountsSurviveOverflow == BR!RetainedIsSuffix /\ BR!RetainedIntact

=============================================================================
