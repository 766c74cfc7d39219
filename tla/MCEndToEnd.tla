----------------------------- MODULE MCEndToEnd -----------------------------
(***************************************************************************)
(* A small instance of EndToEnd for TLC.                                   *)
(***************************************************************************)
EXTENDS EndToEnd
Symmetry == Permutations(Conns)
=============================================================================
