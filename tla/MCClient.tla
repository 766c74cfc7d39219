------------------------------ MODULE MCClient ------------------------------
(***************************************************************************)
(* Small instances of Client for TLC.                                      *)
(***************************************************************************)
EXTENDS ClientRefinement

(* Handles and clients are interchangeable: every use compares them only.  *)
Symmetry == Permutations(Conns) \cup Permutations(Clients)
=============================================================================
