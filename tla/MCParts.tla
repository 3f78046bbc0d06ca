------------------------------- MODULE MCParts --------------------------------
(***************************************************************************)
(* An instance of the small components:                                    *)
(*                                                                         *)
(*   lease         three Servers; the first has two callers                *)
(*   goals         three goals, two turns that cost nothing or reach the   *)
(*                 budget together                                         *)
(*   artifacts     three puts and two collectors, with faults              *)
(*   processes     an exec, and a background process with its time limit   *)
(*   tree          two tasks of which another Server may change one        *)
(*   repositories  two callers                                             *)
(***************************************************************************)
EXTENDS Parts

CONSTANTS c1, c2, c3, c4, p1, p2, p3

MCProcess == c1 :> p1 @@ c2 :> p1 @@ c3 :> p2 @@ c4 :> p3
=============================================================================
