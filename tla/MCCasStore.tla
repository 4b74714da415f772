----------------------------- MODULE MCCasStore -----------------------------
(* Constants for the runs of CasStore.                                     *)
EXTENDS CasStore, TLC

CONSTANTS c1, c2, c3, c4

ThreeCalls == {c1, c2, c3}
FourCalls  == {c1, c2, c3, c4}
AnyKind    == Operations

\* Calls are interchangeable: each may make any operation.
Symmetry == Permutations(Calls)
=============================================================================
