------------------------------ MODULE MCExample ------------------------------
(***************************************************************************)
(* Small instances of ExampleServer for TLC.                               *)
(***************************************************************************)
EXTENDS ExampleServer

(* Handles of one kind are interchangeable: every use compares them only.  *)
Symmetry == Permutations(Conns)
=============================================================================
