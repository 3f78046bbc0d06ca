----------------------------- MODULE MCAgentTasks -----------------------------
(***************************************************************************)
(* The Agent Tasks of a root thread for TLC: two tasks, one request that   *)
(* interrupts the turn, one restart or start of another Server.            *)
(***************************************************************************)
EXTENDS AgentTasks

CONSTANTS t1, t2, i1
=============================================================================
