---------------------------- MODULE MCRunService ----------------------------
(* RunService for TLC.                                                       *)
EXTENDS RunService
=============================================================================
