------------------------------ MODULE MCBridge -------------------------------
(* Constants for the run of Bridge.                                        *)
EXTENDS Bridge

CONSTANTS c1, c2, s1

TwoConns == {c1, c2}
OneCall  == {s1}
=============================================================================
