---------------------------- MODULE MCSchedules -----------------------------
(* Constants for the runs of Schedules.                                    *)
EXTENDS Schedules

CONSTANTS p1, s1

OneProc   == {p1}
OneSched  == {s1}
Jobs      == {"job"}
AnyTarget == {"task", "job"}
=============================================================================
