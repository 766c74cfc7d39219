------------------------------ MODULE EndToEnd ------------------------------
(***************************************************************************)
(* Both ends together: a process with the server program of ExampleServer  *)
(* and a process with the clients of module Client, and GNS between them.  *)
(*                                                                         *)
(* A member of Conns names a link: at the client it is the connection that *)
(* Join opened, at the server the connection that came in for it, and each *)
(* end has a state of its own.  What the modules of the two ends leave to  *)
(* the peer (a request arrives, the server accepts, the peer hangs up, a   *)
(* message arrives) happens here only when the peer has done it; packets   *)
(* are late or lost, so it may happen later, or the end may time out.      *)
(*                                                                         *)
(* Either process may crash or end without Stop, Leave or Dispose: it does *)
(* nothing from then on, and the other end has only its timeout to tell.   *)
(***************************************************************************)
EXTENDS ExampleServer

CONSTANTS
    Clients,      \* the Client objects of the other process
    Mortal        \* the processes that may crash

VARIABLES
    cState, cQueue, cInbox, cSent,      \* GNS in the process of the clients,
    connection, cListener, globalClientRegistry, cPc, cUpdating, cLeft,
    client, cHConn, cIncomingMsgs, source, told, quit, cGone, \* and Client's
    accepted,     \* the links on which the server sent an acceptance
    written,      \* messages each client has sent to the server
    up            \* the processes that have not crashed

C == INSTANCE Client WITH
        state <- cState, queue <- cQueue, inbox <- cInbox, sent <- cSent,
        listener <- cListener, pc <- cPc, updating <- cUpdating, left <- cLeft,
        hConn <- cHConn, incomingMsgs <- cIncomingMsgs, gone <- cGone

Processes == {"server", "client"}

cConnVars == <<cState, cQueue, cInbox, cSent>>
cAppVars  == <<connection, globalClientRegistry, cListener, cPc, cUpdating,
               cLeft, client, cHConn, cIncomingMsgs, source, told, quit, cGone>>
cVars     == <<cConnVars, cAppVars>>
endVars   == <<allVars, cVars, accepted, written, up>>

EndTypeOK ==
    /\ TypeOK /\ ExampleTypeOK /\ C!TypeOK
    /\ accepted \subseteq Conns
    /\ written \in [Conns -> 0 .. MaxMessages]
    /\ up \subseteq Processes

EndInit ==
    /\ ExampleInit
    /\ C!Init /\ cListener = [cl \in Clients |-> TRUE]
    /\ accepted = {}
    /\ written = [c \in Conns |-> 0]
    /\ up = Processes

-----------------------------------------------------------------------------
(* The process of the server.                                              *)

(* The client's end is closed, broken or was never reached again.          *)
ClientGone(c) ==
    "client" \notin up \/ cState[c] \in {"None", "ProblemDetectedLocally"}

(* A status change, of a peer that has gone or after a timeout.            *)
ServerEnds(c) ==
    /\ Ends(c) /\ UNCHANGED socketVars
    /\ state'[c] = "ClosedByPeer" => cState[c] \in {"None", "ProblemDetectedLocally"}

ServerReceives(c) ==
    /\ sent[c] < written[c]
    /\ MessageArrives(c) /\ UNCHANGED socketVars

ServerHears(c) ==
    \/ cState[c] # "Free" /\ PeerConnects(c)
    \/ ServerEnds(c)
    \/ ServerReceives(c)

(* A step of this process; what AcceptConnection sends goes on the wire.   *)
ServerStep(A) ==
    /\ "server" \in up /\ A
    /\ accepted' = accepted \cup {c \in Conns : Posted(c, "Connected")'}
    /\ UNCHANGED <<cVars, written, up>>

ServerNetwork(A) == ServerStep(A /\ UNCHANGED <<serverVars, exampleVars>>)

ServerProcess ==
    \/ ServerStep(ExampleThread)
    \/ \E c \in Conns : ServerNetwork(ServerHears(c))

-----------------------------------------------------------------------------
(* The process of the clients.                                             *)

ServerGone(c) ==
    "server" \notin up \/ state[c] \in {"None", "ProblemDetectedLocally"}

(* ... or has not answered the request.                                    *)
ServerSilent(c) == ServerGone(c) \/ cState[c] = "Connecting"

ClientEnds(c) ==
    /\ C!Ends(c)
    /\ cState'[c] = "ClosedByPeer" => state[c] \in {"None", "ProblemDetectedLocally"}

ClientHears(c) == (c \in accepted /\ C!PeerAccepts(c)) \/ ClientEnds(c)

(* A step of this process.                                                 *)
ClientStep(A) ==
    /\ "client" \in up /\ A
    /\ UNCHANGED <<allVars, accepted, up>>

ClientNetwork(A) == ClientStep(A /\ UNCHANGED <<cAppVars, written>>)

(* SendMessage, when GNS takes the message.                                *)
Sends(cl) ==
    /\ cPc = "idle" /\ "OK" \in C!SendMessage(cl)
    /\ written[connection[cl]] < MaxMessages
    /\ written' = [written EXCEPT ![connection[cl]] = @ + 1]
    /\ UNCHANGED cVars

(* README 130 to 194: Join, a game loop, Leave; CListener only looks.  The *)
(* README's loop calls Update(false), for a client in the process of its   *)
(* server; in a process of its own somebody has to run the callbacks (183  *)
(* to 189), and the loop may do it with Update(true) or with RunCallbacks. *)
ClientProgram ==
    \/ /\ cPc = "idle"
       /\ \E cl \in Clients : C!Join(cl) \/ (C!IsConnected(cl) /\ C!Leave(cl))
       /\ UNCHANGED <<cListener, cPc, cUpdating, cLeft, client, cHConn,
                      cIncomingMsgs, source>>
    \/ C!RunCallbacks
    \/ \E cl \in Clients : C!Update(cl) \/ C!UpdateWithoutCallbacks(cl)

ClientProcess ==
    \/ ClientStep((ClientProgram \/ C!Library) /\ UNCHANGED written)
    \/ \E c \in Conns : ClientNetwork(ClientHears(c))
    \/ \E cl \in Clients : ClientStep(Sends(cl))

(* One process dies; after both nothing happens.                           *)
Crash ==
    /\ up = Processes
    /\ \E p \in up \cap Mortal : up' = up \ {p}
    /\ UNCHANGED <<allVars, cVars, accepted, written>>

EndNext == ServerProcess \/ ClientProcess \/ Crash

EndSpec == EndInit /\ [][EndNext]_endVars
-----------------------------------------------------------------------------
(* Safety.                                                                 *)

(* The client may hear of its acceptance before AcceptClient has put it in *)
(* the poll group and among the clients, or given it up.  But it is never  *)
(* left there: while the server program itself runs, or Update does        *)
(* anything else, whoever GNS has told of its acceptance is a member, or   *)
(* the server has closed the link.  Nobody believes to be in a server that *)
(* does not count, poll or send to it, and the server program sees nobody  *)
(* half accepted.                                                          *)
ConnectedIsMember ==
    \A c \in Conns : cState[c] = "Connected" /\ state[c] # "None" =>
        \E s \in Servers :
            \/ c \in clients[s]
            \/ accepting[s] = c /\ ran /\ pc = "OnConnectionRequest" /\ hConn = c

-----------------------------------------------------------------------------
(* Liveness.                                                               *)

(* Both game loops call Update(true) again and again and neither thread is *)
(* suspended for ever inside it, as long as its process lives; and GNS     *)
(* notices in the end that the other end of a link is gone or does not     *)
(* answer, and brings what was sent on a link that stays up.               *)
EndFairness ==
    /\ WF_endVars(ServerStep(ExampleLibrary))
    /\ \A s \in Servers : SF_endVars(ServerStep(Update(s) /\ UNCHANGED exampleVars))
    /\ WF_endVars(ClientStep(C!Library /\ UNCHANGED written))
    /\ \A cl \in Clients : SF_endVars(ClientStep(C!Update(cl) /\ UNCHANGED written))
    /\ \A c \in Conns :
        /\ WF_endVars(ServerNetwork(ClientGone(c) /\ ServerEnds(c)))
        /\ WF_endVars(ClientNetwork(ServerSilent(c) /\ ClientEnds(c)))
        /\ WF_endVars(ServerNetwork(ServerReceives(c)))

EndFairSpec == EndSpec /\ EndFairness

(* A client that has left, or whose process has died, does not remain a    *)
(* member of a server that lives.                                          *)
LeaverDropped ==
    \A c \in Conns, s \in Servers :
        (c \in clients[s] /\ ClientGone(c)) ~> (c \notin clients[s] \/ "server" \notin up)

(* Every Join is answered: the listener hears OnConnect or OnDisconnect,   *)
(* whatever has become of the server, unless the client leaves first.      *)
JoinAnswered ==
    \A c \in Conns, cl \in Clients :
        connection[cl] = c
            ~> (c \in told \cup cGone \/ connection[cl] # c \/ "client" \notin up)

(* A message sent on a link that stays up is given to the listener.        *)
SentIsHeard ==
    \A c \in Conns :
        (state[c] = "Connected" /\ sent[c] < written[c])
            ~> (\/ sent[c] = written[c] /\ inbox[c] = 0 /\ incomingMsgs[c] = 0
                \/ state[c] # "Connected" \/ "server" \notin up)

(* A client whose link the server has closed, refused or lost, or whose    *)
(* server has died, does not go on saying that it is connected.            *)
RefusedHears ==
    \A c \in Conns, cl \in Clients :
        (connection[cl] = c /\ ServerGone(c) /\ state[c] # "Free")
            ~> (connection[cl] # c \/ "client" \notin up)
=============================================================================
