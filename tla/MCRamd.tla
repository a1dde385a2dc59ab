------------------------------- MODULE MCRamd -------------------------------
(* RamdDriver with cells of which two make a sector, and numbers so small  *)
(* that the sizes that do not fit are within reach.                        *)
EXTENDS RamdDriver

CONSTANTS u1, u2

(* The recursion of RamdDriver is the power of two.                        *)
ASSUME TwoToIsPower == \A n \in 0..Uint : TwoTo[n] = 2 ^ n

Extent(pos, nr, len) ==
  [pos |-> pos, nr |-> nr, ends |-> [c \in 0..2*nr-1 |-> c - (c % len) + len]]

(* The last sector of the larger disk, in segments that do not end with a  *)
(* sector, and its last two sectors, in a segment for each.                *)
MCExtents == {Extent(3, 1, 1), Extent(2, 2, 2)}

=============================================================================
