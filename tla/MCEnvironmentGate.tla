------------------------- MODULE MCEnvironmentGate --------------------------
(***************************************************************************)
(* The gate for TLC.  Four callers are enough for the pattern writer       *)
(* fairness is about, a reader inside, a writer and two readers behind it, *)
(* and for every order of cancelling them.  No symmetry: the run checks a  *)
(* liveness property.                                                      *)
(***************************************************************************)
EXTENDS EnvironmentGate
=============================================================================
