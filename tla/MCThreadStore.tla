---------------------------- MODULE MCThreadStore -----------------------------
(* One thread, shared by the Servers of the cfg.                           *)
EXTENDS ThreadStore, TLC

CONSTANTS s1, s2

Symmetry == Permutations(Servers)

\* The run follows the behaviours its properties speak of, and on a log of
\* one record also those with one overlap, one failure or one death in the
\* creation, which take the branches that only such a log leads to.
Guaranteed ==
  \/ causes \subseteq {"start", "crash"}
  \/ /\ causes \in {{"overlap"}, {"failure"}, {"creation"}}
     /\ \A p \in Places : file[p].len <= 1
=============================================================================
