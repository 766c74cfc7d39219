------------------------------ MODULE MCServer ------------------------------
(***************************************************************************)
(* Small instances of Server for TLC.                                      *)
(***************************************************************************)
EXTENDS ServerRefinement

(* Handles of one kind are interchangeable: every use compares them only.  *)
Symmetry ==
    Permutations(Conns) \cup Permutations(Sockets)
        \cup Permutations(Groups) \cup Permutations(Servers)
=============================================================================
