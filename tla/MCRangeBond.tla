---------------------------- MODULE MCRangeBond ----------------------------
(* A bond of 4 sats on a range split into two slices of half its maximum.   *)
EXTENDS RangeBond

TwoSlices == 1..2
HalfEach == [s \in TwoSlices |-> 1]
=============================================================================
