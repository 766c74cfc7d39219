-------------------------- MODULE ClientRefinement --------------------------
(***************************************************************************)
(* The refinement mapping from Client to Sessions.                         *)
(***************************************************************************)
EXTENDS Client

S == INSTANCE Sessions WITH
        current  <- connection,
        past     <- {c \in Conns : state[c] = "None"},
        reported <- gone,
        Nothing  <- Invalid

(* Every behaviour of the clients, the service thread and the application  *)
(* is one of Sessions': Join begins a session and ends the one before,     *)
(* Leave and a failed Join or Update leave, the callback tells and loses.  *)
ImplementsSessions == S!Spec
=============================================================================
