----------------------------- MODULE MCThreadTurns -----------------------------
(***************************************************************************)
(* The turns of a thread for TLC.  Two turns, two requests and one failed  *)
(* append for safety; one turn with one request, which may have an item    *)
(* and a compaction beside it, for liveness.                               *)
(***************************************************************************)
EXTENDS ThreadTurns, TLC

CONSTANTS t1, t2, r1, r2, c1

Symmetry == Permutations(Turns) \cup Permutations(Requests)
=============================================================================
