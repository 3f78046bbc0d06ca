----------------------------- MODULE MCWorkspaces ------------------------------
(***************************************************************************)
(* Workspaces for TLC: two workspaces, two selectors, two repositories     *)
(* with keys of one first segment and two operations at a time.            *)
(***************************************************************************)
EXTENDS Workspaces, TLC
Symmetry ==
  Permutations(WorkspaceIds) \cup Permutations(Names) \cup Permutations(Repos) \cup Permutations(Ops)
=============================================================================
