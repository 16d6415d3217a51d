-------------------------- MODULE MCConcurrentRing --------------------------
(* ConcurrentRing on a pool of 7 cells.                                      *)
EXTENDS ConcurrentRing

MCShape == {[len |-> 3, zero |-> FALSE],
            [len |-> 4, zero |-> FALSE],
            [len |-> 4, zero |-> TRUE]}

\* Records of 3 cells and of 5 whose payload is zero: a reader can find a zero
\* payload cell of the next lap where a record it wants used to start.
MCShapeZero == {[len |-> 3, zero |-> FALSE], [len |-> 5, zero |-> TRUE]}

=============================================================================
