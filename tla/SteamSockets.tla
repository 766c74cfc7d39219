---------------------------- MODULE SteamSockets ----------------------------
(***************************************************************************)
(* EXTERNAL: the listening half of GameNetworkingSockets, which only       *)
(* CushiNet::Server uses: listen sockets and poll groups.                  *)
(***************************************************************************)
EXTENDS SteamConnections

CONSTANTS
    Sockets,      \* HSteamListenSocket handles
    Groups        \* HSteamNetPollGroup handles

ASSUME SocketsAssumption ==
    /\ Sockets \cap Groups = {}
    /\ Invalid \notin Sockets \cup Groups

VARIABLES
    handle,       \* "free", "open" or "closed", for every socket and group
    parent,       \* m_hListenSocket: the socket a connection came in on
    group         \* the poll group a connection was put in

socketVars == <<handle, parent, group>>

SocketsTypeOK ==
    /\ handle \in [Sockets \cup Groups -> {"free", "open", "closed"}]
    /\ parent \in [Conns -> Sockets \cup {Invalid}]
    /\ group \in [Conns -> Groups \cup {Invalid}]

SocketsInit ==
    /\ handle = [h \in Sockets \cup Groups |-> "free"]
    /\ parent = [c \in Conns |-> Invalid]
    /\ group = [c \in Conns |-> Invalid]

(* The handles CreateListenSocketIP and CreatePollGroup may return.        *)
Fresh(H) == {h \in H : handle[h] = "free"}

(* The connections CloseListenSocket(k) closes: all that came in on k.     *)
Children(k) == {c \in Conns : parent[c] = k}

(* The messages ReceiveMessagesOnPollGroup(g) may read from a connection.  *)
Pending(c, g) == IF group[c] = g THEN inbox[c] ELSE 0

(* A peer connects to an open listen socket (service thread).              *)
PeerConnects(c) ==
    /\ Created(c)
    /\ \E k \in Sockets :
        /\ handle[k] = "open"
        /\ parent' = [parent EXCEPT ![c] = k]
    /\ UNCHANGED <<inbox, sent, handle, group>>

ServiceThread ==
    \E c \in Conns :
        \/ PeerConnects(c)
        \/ (Ends(c) \/ MessageArrives(c)) /\ UNCHANGED socketVars
=============================================================================
