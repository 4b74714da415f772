---------------------------- MODULE MCVerifiedSync -----------------------------
(* Constants for the run of VerifiedSync.                                  *)
EXTENDS VerifiedSync, TLC

CONSTANTS p1, p2, i1, i2

TwoProcs == {p1, p2}
TwoItems == {i1, i2}
Symmetry == Permutations(TwoProcs) \cup Permutations(TwoItems)
=============================================================================
