------------------------------ MODULE MCAgentRun ------------------------------
(***************************************************************************)
(* The run of a primary Agent for TLC: two tasks, one steer, three streams *)
(* of at most two turns.                                                   *)
(***************************************************************************)
EXTENDS AgentRun

CONSTANTS t1, t2, s1
=============================================================================
