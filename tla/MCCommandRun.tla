---------------------------- MODULE MCCommandRun -----------------------------
(***************************************************************************)
(* The Command Run for TLC.  Three Frames give every shape of three phases *)
(* and a phase of three Frames, in which shared and lone waves follow each *)
(* other; "continue" and "diagnose" between them take every branch on the  *)
(* onFailure of a Frame.  The run with two Frames adds "stop" and liveness.*)
(***************************************************************************)
EXTENDS CommandRun
=============================================================================
