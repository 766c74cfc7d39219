-------------------------- MODULE ServerRefinement --------------------------
(***************************************************************************)
(* The refinement mapping from Server to Membership.                       *)
(***************************************************************************)
EXTENDS Server

Current == UNION {clients[s] : s \in Servers}

M == INSTANCE Membership WITH
        running <- {s \in Servers : IsRunning(s)},
        members <- clients,
        past    <- admitted \ Current

(* Every behaviour of the servers, the service thread and the application  *)
(* is one of Membership's: Start and Stop open and close, AcceptClient     *)
(* admits, RemoveClient and the callback for a closed connection drop.     *)
ImplementsMembership == M!Spec
=============================================================================
