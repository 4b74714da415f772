------------------------------ MODULE MCBuilds -------------------------------
(* Constants for the runs of Builds.                                       *)
EXTENDS Builds

CONSTANTS j1, j2

TwoJobs == {j1, j2}
=============================================================================
