------------------------------ MODULE Sessions ------------------------------
(***************************************************************************)
(* What CushiNet::Client promises an application that looks at IsConnected *)
(* and at what its listener hears, whatever the servers, the network and   *)
(* its own listeners do:                                                   *)
(*  - a client is in one session or in none, and no two share one;         *)
(*  - a session begins once and never comes back;                          *)
(*  - OnConnect speaks of the session the client is in, and once;          *)
(*  - OnDisconnect is heard exactly where the client loses a session it    *)
(*    did not leave, when the session is already over.                     *)
(***************************************************************************)
CONSTANTS Clients, Conns, Nothing

VARIABLES
    current,      \* the session each client is in
    told,         \* sessions whose OnConnect has been heard
    past,         \* sessions that are over
    reported      \* ... and whose OnDisconnect has been heard

vars == <<current, told, past, reported>>

Init ==
    /\ current = [cl \in Clients |-> Nothing]
    /\ told = {} /\ past = {} /\ reported = {}

(* The sessions that would be over if cl were in none.                     *)
Over(cl) == past \cup ({current[cl]} \ {Nothing})

Begin(cl, c) ==
    /\ c \notin past
    /\ \A other \in Clients : current[other] # c
    /\ current' = [current EXCEPT ![cl] = c]
    /\ past' = Over(cl)
    /\ UNCHANGED <<told, reported>>

Leave(cl) ==
    /\ current' = [current EXCEPT ![cl] = Nothing]
    /\ past' = Over(cl)
    /\ UNCHANGED <<told, reported>>

(* Unheard if the client has no listener.                                  *)
Lose(cl) ==
    /\ current[cl] # Nothing
    /\ current' = [current EXCEPT ![cl] = Nothing]
    /\ past' = Over(cl)
    /\ reported' \in {reported, reported \cup {current[cl]}}
    /\ UNCHANGED told

Tell(cl) ==
    /\ current[cl] \notin told \cup {Nothing}
    /\ told' = told \cup {current[cl]}
    /\ UNCHANGED <<current, past, reported>>

Next ==
    \E cl \in Clients :
        \/ Leave(cl) \/ Lose(cl) \/ Tell(cl)
        \/ \E c \in Conns : Begin(cl, c)

Spec == Init /\ [][Next]_vars
-----------------------------------------------------------------------------
(* What these steps add up to.                                             *)

(* No two clients share a session, no client is in one that is over, what  *)
(* was lost is over, and OnConnect spoke of a session that had begun.      *)
OneSession ==
    /\ \A cl, other \in Clients :
        cl # other /\ current[cl] = current[other] => current[cl] = Nothing
    /\ \A cl \in Clients : current[cl] \notin past
    /\ reported \subseteq past
    /\ told \subseteq past \cup {current[cl] : cl \in Clients}

(* ... which is for ever: a session that is over never comes back, and     *)
(* OnConnect is not taken back.                                            *)
OverForEver ==
    [][/\ past \subseteq past' /\ told \subseteq told' /\ reported \subseteq reported'
       /\ \A cl \in Clients : current[cl] \in {current'[cl], Nothing} \cup past']_vars
=============================================================================
