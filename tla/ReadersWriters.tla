--------------------------- MODULE ReadersWriters ---------------------------
(***************************************************************************)
(* What the Environment execution gate promises to the commands of every   *)
(* Agent that shares one Environment generation: any number of shared      *)
(* operations, or one exclusive operation, are inside at a time.  How the  *)
(* gate picks who enters next (its queue, its counters, cancellation) is   *)
(* left to EnvironmentGate, which implements this module.                  *)
(***************************************************************************)
CONSTANT Callers

VARIABLE inside    \* what each caller holds: nothing, or the gate in a mode

Holding == {"out", "shared", "exclusive"}

\* An exclusive holder is alone.
Compatible(holding) ==
  \A c, d \in Callers :
    c # d /\ holding[c] = "exclusive" => holding[d] = "out"

Init == inside = [c \in Callers |-> "out"]

(***************************************************************************)
(* One step may let the holder leave and, in the same turn of the event    *)
(* loop, let waiters in; a holder never changes its mode.                  *)
(***************************************************************************)
Move ==
  /\ inside' \in [Callers -> Holding]
  /\ Compatible(inside')
  /\ \A c \in Callers :
       inside[c] # "out" => inside'[c] \in {inside[c], "out"}

Spec == Init /\ [][Move]_inside
=============================================================================
