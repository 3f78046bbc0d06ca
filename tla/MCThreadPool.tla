----------------------------- MODULE MCThreadPool ------------------------------
(***************************************************************************)
(* The pool for TLC: two controllers that subscribe to one thread, which   *)
(* is loaded up to MaxGen times, and one Server Request.                   *)
(***************************************************************************)
EXTENDS ThreadPool
CONSTANTS c1, c2, r1
=============================================================================
