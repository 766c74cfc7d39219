----------------------------- MODULE Membership -----------------------------
(***************************************************************************)
(* What CushiNet::Server promises an application that looks at IsRunning   *)
(* and GetClients only, whatever the network and the listeners do:         *)
(*  - only a running server has members;                                   *)
(*  - members come one at a time, when the application admits one, and     *)
(*    nobody is a member of two servers;                                   *)
(*  - whoever has been dropped, or was a member of a server that stopped   *)
(*    or restarted, is never a member again: a handle stands for one stay. *)
(***************************************************************************)
CONSTANTS Servers, Conns

VARIABLES
    running,      \* the servers whose IsRunning() is true
    members,      \* GetClients() of every server
    past          \* everybody whose membership is over

vars == <<running, members, past>>

Everybody == UNION {members[s] : s \in Servers}

TypeOK ==
    /\ running \subseteq Servers
    /\ members \in [Servers -> SUBSET Conns]
    /\ past \subseteq Conns

Init ==
    /\ running = {}
    /\ members = [s \in Servers |-> {}]
    /\ past = {}

Empties(s) ==
    /\ members' = [members EXCEPT ![s] = {}]
    /\ past' = past \cup members[s]

(* A running server that is opened again starts empty.                     *)
Open(s) == running' = running \cup {s} /\ Empties(s)

Close(s) == running' = running \ {s} /\ Empties(s)

Admit(s, c) ==
    /\ s \in running
    /\ c \notin past \cup Everybody
    /\ members' = [members EXCEPT ![s] = @ \cup {c}]
    /\ UNCHANGED <<running, past>>

Drop(s, c) ==
    /\ c \in members[s]
    /\ members' = [members EXCEPT ![s] = @ \ {c}]
    /\ past' = past \cup {c}
    /\ UNCHANGED running

Next ==
    \E s \in Servers :
        \/ Open(s) \/ Close(s)
        \/ \E c \in Conns : Admit(s, c) \/ Drop(s, c)

Spec == Init /\ [][Next]_vars
-----------------------------------------------------------------------------
(* What these steps add up to.                                             *)

(* Only a running server has members, nobody is a member of two servers,   *)
(* and nobody whose membership is over is a member.                        *)
OneStay ==
    /\ \A s \in Servers : members[s] # {} => s \in running
    /\ \A s, t \in Servers : s # t => members[s] \cap members[t] = {}
    /\ Everybody \cap past = {}

(* ... which is for ever: a handle stands for one stay.                    *)
OverForEver == [][past \subseteq past' /\ Everybody \subseteq Everybody' \cup past']_vars
=============================================================================
