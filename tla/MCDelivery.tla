----------------------------- MODULE MCDelivery -----------------------------
(* Constants for the runs of Delivery.                                     *)
EXTENDS Delivery, TLC

CONSTANTS p1, p2, e1, e2

OneProc    == {p1}
TwoProcs   == {p1, p2}
OneEvent   == {e1}
TwoEvents  == {e1, e2}

\* Processes are interchangeable, and so are events.
Symmetry == Permutations(Procs) \cup Permutations(Events)
=============================================================================
