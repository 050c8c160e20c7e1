---------------------------- MODULE MCTagCache ----------------------------
(* Small instances of TagCache for TLC.                                    *)
EXTENDS TagCache, TLC

blk(t, s, r, o) == [tag |-> t, idx |-> s, row |-> r, slot |-> o]

\* Two lines of one set, the first in BRAM and the second in DRAM; of the
\* first line two blocks that share a row.
TwoLines == {blk(0, 0, 0, 0), blk(0, 0, 0, 1), blk(1, 0, 1, 0)}

\* Three lines that compete for the two ways of one set.
ThreeLines == {blk(0, 0, 0, 0), blk(1, 0, 0, 0), blk(2, 0, 1, 0)}

\* The acquire trackers of the L2 are interchangeable.
Symmetry == Permutations(Ids)
=============================================================================
