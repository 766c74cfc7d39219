------------------------------- MODULE Server -------------------------------
(***************************************************************************)
(* CushiNet::Server (src/src/Server.cpp): the servers of one process, the  *)
(* application thread that owns them, and the ServerListener callbacks.    *)
(*                                                                         *)
(* Two threads interleave: GNS's service thread (ServiceThread, in         *)
(* SteamSockets) and the application's.  The application thread runs       *)
(* CushiNet's functions; control returns to the application between the    *)
(* calls and inside every listener callback, and in both places it may     *)
(* call any function of any server: `AppRuns`.  Update and RunCallbacks    *)
(* call listeners, so they are cut at the callbacks and `pc` says where    *)
(* the thread is.  AcceptClient is cut between its calls of GNS, because   *)
(* the peer may answer the acceptance before the rest is done: `accepting` *)
(* says who is half accepted.  Every other function is one step, as GNS    *)
(* shows the peer no intermediate state of it.                             *)
(*                                                                         *)
(* Bounds: finite sets of handles, MaxMessages.  The application never     *)
(* calls Update or RunCallbacks from inside a listener, destroys no server *)
(* there, and its listeners return and do not throw.                       *)
(***************************************************************************)
EXTENDS SteamSockets

CONSTANTS
    Servers,      \* the Server objects
    MaxMsgs       \* maxMsgs in Update: how many messages one call reads

ASSUME ServerAssumption ==
    /\ Invalid \notin Servers
    /\ MaxMsgs \in Nat \ {0}

VARIABLES
    socket, pollGroup, clients, \* the members of each Server,
    listener,                   \* whether its listener pointer is non-null
    globalServerRegistry,       \* the static map from listen sockets
    pc,                         \* where the application thread is
    accepting,                  \* whom an AcceptClient of each Server that has
                                \* sent its acceptance and not returned is for
    updating,                   \* the server whose Update runs, if any
    left,                       \* status changes RunCallbacks still hands out
    server, hConn,              \* arguments of the listener callback running
    incomingMsgs,               \* fetched messages not yet given to it
    admitted, gone              \* history: connections AcceptClient took in,
                                \* and OnDisconnect reported

objectVars  == <<socket, pollGroup, clients, globalServerRegistry>>
threadVars  == <<pc, updating, left, server, hConn, incomingMsgs>>
historyVars == <<admitted, gone>>
serverVars  == <<objectVars, listener, accepting, threadVars, historyVars>>
vars        == <<connVars, socketVars, serverVars>>

(* Where the application's own code runs.                                  *)
Callbacks == {"OnConnectionRequest", "OnDisconnect", "OnMessageReceived"}
AppRuns ==
    /\ pc \in {"idle"} \cup Callbacks
    /\ \A s \in Servers : accepting[s] = Invalid

TypeOK ==
    /\ ConnectionsTypeOK
    /\ SocketsTypeOK
    /\ socket \in [Servers -> Sockets \cup {Invalid}]
    /\ pollGroup \in [Servers -> Groups \cup {Invalid}]
    /\ clients \in [Servers -> SUBSET Conns]
    /\ listener \in [Servers -> BOOLEAN]
    /\ accepting \in [Servers -> Conns \cup {Invalid}]
    /\ globalServerRegistry \in [Sockets -> Servers \cup {Invalid}]
    /\ pc \in {"idle", "callbacks", "polling", "failed"} \cup Callbacks
    /\ updating \in Servers \cup {Invalid}
    /\ left \in Nat
    /\ server \in Servers \cup {Invalid}
    /\ hConn \in Conns \cup {Invalid}
    /\ incomingMsgs \in [Conns -> Nat]
    /\ admitted \subseteq Conns /\ gone \subseteq Conns

IsRunning(s) == socket[s] # Invalid /\ pollGroup[s] # Invalid

Init ==
    /\ ConnectionsInit
    /\ SocketsInit
    /\ socket = [s \in Servers |-> Invalid]
    /\ pollGroup = [s \in Servers |-> Invalid]
    /\ clients = [s \in Servers |-> {}]
    /\ listener \in [Servers -> BOOLEAN]
    /\ globalServerRegistry = [k \in Sockets |-> Invalid]
    /\ accepting = [s \in Servers |-> Invalid]
    /\ pc = "idle" /\ updating = Invalid /\ left = 0
    /\ server = Invalid /\ hConn = Invalid
    /\ incomingMsgs = [c \in Conns |-> 0]
    /\ admitted = {} /\ gone = {}

-----------------------------------------------------------------------------
(* Start and Stop.                                                         *)

(* What Stop closes: its clients, and whatever else is on its listen       *)
(* socket, which CloseListenSocket closes.                                 *)
OwnConnections(s) ==
    (IF IsRunning(s) THEN clients[s] ELSE {})
        \cup (IF socket[s] # Invalid THEN Children(socket[s]) ELSE {})

(* The handles after CloseListenSocket and DestroyPollGroup.               *)
Destroyed(s) ==
    [h \in Sockets \cup Groups |->
        IF h \in {socket[s], pollGroup[s]} THEN "closed" ELSE handle[h]]

(* Mutant: Stop leaves its entry in the registry.                          *)
NotErased(s) == globalServerRegistry

(* The registry after erase(socket).                                       *)
Erased(s) ==
    [k \in Sockets |->
        IF k = socket[s] THEN Invalid ELSE globalServerRegistry[k]]

(* Mutant: Stop forgets clients.clear().                                   *)
BecomesWithClients(s, k, g) ==
    /\ Closed(OwnConnections(s))
    /\ socket' = [socket EXCEPT ![s] = k]
    /\ pollGroup' = [pollGroup EXCEPT ![s] = g]
    /\ UNCHANGED <<clients, queue, sent, parent, group>>

(* Members of s, after its clients and its connections have gone.          *)
Becomes(s, k, g) ==
    /\ Closed(OwnConnections(s))
    /\ clients' = [clients EXCEPT ![s] = {}]
    /\ socket' = [socket EXCEPT ![s] = k]
    /\ pollGroup' = [pollGroup EXCEPT ![s] = g]
    /\ UNCHANGED <<queue, sent, parent, group>>

Stop(s) ==
    /\ Becomes(s, Invalid, Invalid)
    /\ handle' = Destroyed(s)
    /\ globalServerRegistry' = Erased(s)

(* Both overloads: stop, open a listen socket and a poll group, register.  *)
Start(s) ==
    \E k \in Fresh(Sockets), g \in Fresh(Groups) :
        /\ Becomes(s, k, g)
        /\ handle' = [Destroyed(s) EXCEPT ![k] = "open", ![g] = "open"]
        /\ globalServerRegistry' = [Erased(s) EXCEPT ![k] = s]

(* Start throws: the options are null or there is no listen socket.  The   *)
(* session that was running has been stopped by then.                      *)
StartWithoutSocket(s) == Stop(s)

(* Mutant: Start throws without closing the listen socket.                 *)
StartLeaksSocket(s) ==
    \E k \in Fresh(Sockets) :
        /\ Becomes(s, Invalid, Invalid)
        /\ handle' = [Destroyed(s) EXCEPT ![k] = "open"]
        /\ globalServerRegistry' = Erased(s)

(* Start throws: there is a listen socket but no poll group.               *)
StartWithoutPollGroup(s) ==
    \E k \in Fresh(Sockets) :
        /\ Becomes(s, Invalid, Invalid)
        /\ handle' = [Destroyed(s) EXCEPT ![k] = "closed"]
        /\ globalServerRegistry' = Erased(s)

-----------------------------------------------------------------------------
(* AcceptClient, RemoveClient, SetListener.                                *)

(* The application has been told the handle of c, as one of server s: its  *)
(* request has been handed out.  Old handles of closed connections too.    *)
MayName(s, c) ==
    /\ state[c] # "Free" /\ ~ Posted(c, "Connecting")
    /\ parent[c] = socket[s] \/ state[c] = "None"

(* The early returns of AcceptClient change nothing.                       *)
MayAccept(s, c) == IsRunning(s) /\ c \notin clients[s] /\ MayName(s, c)

(* AcceptConnection says OK: the acceptance is on its way to the peer.     *)
AcceptClient(s, c) ==
    /\ MayAccept(s, c)
    /\ state[c] = "Connecting"
    /\ Established(c)
    /\ accepting' = [accepting EXCEPT ![s] = c]
    /\ UNCHANGED <<inbox, sent, socketVars, objectVars, historyVars>>

(* AcceptConnection says no: the peer has left, or the handle is closed,   *)
(* which nobody but this thread can change before it closes the handle.    *)
AcceptRefused(s, c) ==
    /\ MayAccept(s, c)
    /\ state[c] # "Connecting"
    /\ Closed({c})
    /\ UNCHANGED <<queue, sent, socketVars, objectVars, accepting, historyVars>>

(* SetConnectionPollGroup says yes.                                        *)
EnterPollGroup(s) ==
    /\ accepting[s] # Invalid /\ group[accepting[s]] = Invalid
    /\ group' = [group EXCEPT ![accepting[s]] = pollGroup[s]]
    /\ UNCHANGED <<connVars, handle, parent, objectVars, accepting, historyVars>>

(* Mutant: who cannot be put in the poll group is not closed.              *)
AcceptLeftOpen(s) ==
    /\ accepting[s] # Invalid /\ group[accepting[s]] = Invalid
    /\ accepting' = [accepting EXCEPT ![s] = Invalid]
    /\ UNCHANGED <<connVars, socketVars, objectVars, historyVars>>

(* SetConnectionPollGroup says no: accepted for a moment, then closed.     *)
AcceptUndone(s) ==
    /\ accepting[s] # Invalid /\ group[accepting[s]] = Invalid
    /\ Closed({accepting[s]})
    /\ accepting' = [accepting EXCEPT ![s] = Invalid]
    /\ UNCHANGED <<queue, sent, socketVars, objectVars, historyVars>>

(* Mutant: the client need not be in the poll group.                       *)
AcceptOutsideGroup(s) ==
    /\ accepting[s] # Invalid
    /\ clients' = [clients EXCEPT ![s] = @ \cup {accepting[s]}]
    /\ admitted' = admitted \cup {accepting[s]}
    /\ accepting' = [accepting EXCEPT ![s] = Invalid]
    /\ UNCHANGED <<connVars, socketVars, socket, pollGroup,
                   globalServerRegistry, gone>>

(* clients.insert, and AcceptClient returns OK.                            *)
AcceptDone(s) ==
    /\ accepting[s] # Invalid /\ group[accepting[s]] # Invalid
    /\ clients' = [clients EXCEPT ![s] = @ \cup {accepting[s]}]
    /\ admitted' = admitted \cup {accepting[s]}
    /\ accepting' = [accepting EXCEPT ![s] = Invalid]
    /\ UNCHANGED <<connVars, socketVars, socket, pollGroup,
                   globalServerRegistry, gone>>

(* Mutant: a client is dropped but its connection stays open.              *)
DroppedOpen(s, c) ==
    /\ clients' = [clients EXCEPT ![s] = @ \ {c}]
    /\ UNCHANGED <<state, inbox>>

(* Mutant: the connection of a client is closed but the client is listed.  *)
DroppedListed(s, c) == Closed({c}) /\ UNCHANGED clients

(* CloseConnection, then clients.erase.                                    *)
Dropped(s, c) ==
    /\ Closed({c})
    /\ clients' = [clients EXCEPT ![s] = @ \ {c}]

RemoveClient(s, c) ==
    /\ IsRunning(s) /\ c \in clients[s]
    /\ Dropped(s, c)
    /\ UNCHANGED <<queue, sent, socketVars, socket, pollGroup,
                   globalServerRegistry, accepting, historyVars>>

(* What a send may return; it changes nothing CushiNet keeps.              *)
SendMessageToClient(s, c) ==
    IF ~ IsRunning(s) THEN {"NoConnection"}
    ELSE IF c \notin clients[s] THEN {"InvalidState"}
    ELSE SendResult(c)

(* It sends to everybody, in the order of a hash set, and the last failure *)
(* wins: any failure of any client may be the one that is returned.        *)
SendMessageToAllClients(s, except) ==
    LET results == {SendResult(c) : c \in clients[s] \ {except}}
    IN  IF ~ IsRunning(s) THEN {"NoConnection"}
        ELSE ((UNION results) \ {"OK"})
                \cup {r \in {"OK"} : \A R \in results : r \in R}

SetListener(s, l) ==
    /\ listener' = [listener EXCEPT ![s] = l]
    /\ UNCHANGED <<connVars, socketVars, objectVars, accepting, historyVars>>

(* Any call the application may make, outside or inside a listener.        *)
AppCalls ==
    /\ AppRuns
    /\ UNCHANGED threadVars
    /\ \E s \in Servers :
        \/ /\ Start(s) \/ StartWithoutSocket(s)
              \/ StartWithoutPollGroup(s) \/ Stop(s)
           /\ UNCHANGED <<listener, accepting, historyVars>>
        \/ /\ \E c \in Conns : \/ AcceptClient(s, c)
                               \/ AcceptRefused(s, c)
                               \/ RemoveClient(s, c)
           /\ UNCHANGED listener
        \/ \E l \in BOOLEAN : SetListener(s, l)

(* The rest of an AcceptClient that has sent its acceptance.               *)
InsideAccept ==
    /\ UNCHANGED <<listener, threadVars>>
    /\ \E s \in Servers : EnterPollGroup(s) \/ AcceptUndone(s) \/ AcceptDone(s)

-----------------------------------------------------------------------------
(* Update and RunCallbacks.                                                *)

(* RunCallbacks, by itself (s = Invalid) or for Update(true): everything   *)
(* posted so far will be handed out, in order.                             *)
EnterCallbacks(s) ==
    /\ pc = "idle" /\ AppRuns
    /\ pc' = "callbacks" /\ updating' = s /\ left' = Len(queue)
    /\ UNCHANGED <<connVars, socketVars, objectVars, listener, accepting,
                   server, hConn, incomingMsgs, historyVars>>

RunCallbacks == EnterCallbacks(Invalid)

Update(s) == EnterCallbacks(s)

(* Update(false) on a running server goes straight to the messages.        *)
UpdateWithoutCallbacks(s) ==
    /\ pc = "idle" /\ AppRuns /\ IsRunning(s)
    /\ pc' = "polling" /\ updating' = s
    /\ UNCHANGED <<connVars, socketVars, objectVars, listener, accepting,
                   left, server, hConn, incomingMsgs, historyVars>>

(* Every change has been handed out: Update goes on if the server runs.    *)
CallbacksDone ==
    /\ pc = "callbacks" /\ left = 0
    /\ LET polls == updating # Invalid /\ IsRunning(updating)
       IN  /\ pc' = IF polls THEN "polling" ELSE "idle"
           /\ updating' = IF polls THEN updating ELSE Invalid
    /\ UNCHANGED <<connVars, socketVars, objectVars, listener, accepting,
                   left, server, hConn, incomingMsgs, historyVars>>

(* globalServerRegistry.find(m_hListenSocket), Invalid if it has none.     *)
ServerOf(c) == globalServerRegistry[parent[c]]

Handled(c) == ServerOf(c) # Invalid /\ IsRunning(ServerOf(c))

(* GNS takes the next change off its queue and calls the static callback.  *)
TakeEvent(sts) ==
    /\ pc = "callbacks" /\ left > 0
    /\ Head(queue).state \in sts
    /\ queue' = Tail(queue) /\ left' = left - 1
    /\ UNCHANGED <<sent, socketVars, listener, accepting, updating, incomingMsgs>>

(* No running server is registered for its socket, or nothing to do.       *)
CallbackIgnores ==
    /\ TakeEvent(Alive)
    /\ Handled(Head(queue).conn) => Head(queue).state = "Connected"
    /\ UNCHANGED <<state, inbox, objectVars, pc, server, hConn, historyVars>>

(* Mutant: a request nobody accepted is left alone.                        *)
NeverClose(s, c) == UNCHANGED <<state, inbox>>

(* A request nobody accepted is turned away.                               *)
CloseUnlessClient(s, c) == Closed(IF c \in clients[s] THEN {} ELSE {c})

(* Connecting: the listener, if there is one, is asked first.              *)
CallbackConnecting ==
    /\ TakeEvent({"Connecting"})
    /\ LET c == Head(queue).conn
       IN  /\ Handled(c)
           /\ IF listener[ServerOf(c)]
              THEN /\ pc' = "OnConnectionRequest"
                   /\ server' = ServerOf(c) /\ hConn' = c
                   /\ UNCHANGED <<state, inbox>>
              ELSE /\ CloseUnlessClient(ServerOf(c), c)
                   /\ UNCHANGED <<pc, server, hConn>>
    /\ UNCHANGED <<objectVars, historyVars>>

(* ClosedByPeer, ProblemDetectedLocally: closed, dropped, then reported.   *)
CallbackClosed ==
    /\ TakeEvent(Ended)
    /\ LET c == Head(queue).conn
           s == ServerOf(c)
       IN  /\ Handled(c)
           /\ Dropped(s, c)
           /\ IF listener[s]
              THEN /\ pc' = "OnDisconnect" /\ server' = s /\ hConn' = c
                   /\ gone' = gone \cup {c}
              ELSE UNCHANGED <<pc, server, hConn, gone>>
    /\ UNCHANGED <<socket, pollGroup, globalServerRegistry, admitted>>

Return(from, to) ==
    /\ pc = from /\ AppRuns /\ pc' = to
    /\ server' = Invalid /\ hConn' = Invalid
    /\ UNCHANGED <<queue, sent, socketVars, objectVars, listener, accepting,
                   updating, left, incomingMsgs, historyVars>>

ReturnFromConnectionRequest ==
    /\ Return("OnConnectionRequest", "callbacks")
    /\ CloseUnlessClient(server, hConn)

ReturnFromDisconnect ==
    /\ Return("OnDisconnect", "callbacks")
    /\ UNCHANGED <<state, inbox>>

(* OnMessageReceived returns and the message is released.                  *)
ReturnFromMessage ==
    /\ Return("OnMessageReceived", "polling")
    /\ UNCHANGED <<state, inbox>>

-----------------------------------------------------------------------------
(* The receive loop of Update.                                             *)

BatchRead == \A c \in Conns : incomingMsgs[c] = 0

Total(f) == FoldFunction(+, 0, f)

Unread(g) == [c \in Conns |-> Pending(c, g)]

(* ReceiveMessagesOnPollGroup fills the array, as far as there is mail,    *)
(* with the oldest messages of some of the connections.                    *)
Receive ==
    /\ pc = "polling" /\ BatchRead /\ pollGroup[updating] # Invalid
    /\ \E f \in [Conns -> 0 .. MaxMsgs] :
        LET mail == Unread(pollGroup[updating])
        IN  /\ \A c \in Conns : f[c] <= mail[c]
            /\ f # [c \in Conns |-> 0]
            /\ \/ Total(f) = MaxMsgs
               \/ Total(f) < MaxMsgs /\ f = mail
            /\ incomingMsgs' = f
            /\ inbox' = [c \in Conns |-> inbox[c] - f[c]]
    /\ UNCHANGED <<state, queue, sent, socketVars, objectVars, listener, accepting,
                   pc, updating, left, server, hConn, historyVars>>

(* ... returns 0: Update returns.                                          *)
ReceiveNothing ==
    /\ pc = "polling" /\ BatchRead /\ pollGroup[updating] # Invalid
    /\ \A c \in Conns : Pending(c, pollGroup[updating]) = 0
    /\ pc' = "idle" /\ updating' = Invalid
    /\ UNCHANGED <<connVars, socketVars, objectVars, listener, accepting,
                   left, server, hConn, incomingMsgs, historyVars>>

(* ... returns -1, as it does for the handle 0.                            *)
ReceiveFails ==
    /\ pc = "polling" /\ BatchRead /\ pollGroup[updating] = Invalid
    /\ pc' = "failed"
    /\ UNCHANGED <<connVars, socketVars, objectVars, listener, accepting,
                   updating, left, server, hConn, incomingMsgs, historyVars>>

(* Update stops the server and throws; the application catches.            *)
UpdateThrows ==
    /\ pc = "failed" /\ pc' = "idle"
    /\ Stop(updating)
    /\ updating' = Invalid
    /\ UNCHANGED <<listener, accepting, left, server, hConn, incomingMsgs, historyVars>>

(* Mutant: the loop over the array runs past its end.                      *)
DeliverPastEnd ==
    /\ pc = "polling"
    /\ \E c \in Conns :
        /\ incomingMsgs' = [incomingMsgs EXCEPT ![c] = @ - 1]
        /\ IF listener[updating]
           THEN pc' = "OnMessageReceived" /\ server' = updating /\ hConn' = c
           ELSE UNCHANGED <<pc, server, hConn>>
    /\ UNCHANGED <<connVars, socketVars, objectVars, listener, accepting,
                   updating, left, historyVars>>

(* The next message of the array, which the listener gets if there is one. *)
Deliver ==
    /\ pc = "polling"
    /\ \E c \in Conns :
        /\ incomingMsgs[c] > 0
        /\ incomingMsgs' = [incomingMsgs EXCEPT ![c] = @ - 1]
        /\ IF listener[updating]
           THEN pc' = "OnMessageReceived" /\ server' = updating /\ hConn' = c
           ELSE UNCHANGED <<pc, server, hConn>>
    /\ UNCHANGED <<connVars, socketVars, objectVars, listener, accepting,
                   updating, left, historyVars>>

-----------------------------------------------------------------------------
StaticCallback == CallbackIgnores \/ CallbackConnecting \/ CallbackClosed

ListenerReturns ==
    ReturnFromConnectionRequest \/ ReturnFromDisconnect \/ ReturnFromMessage

ReceiveLoop ==
    Receive \/ ReceiveNothing \/ ReceiveFails \/ UpdateThrows \/ Deliver

(* What the application thread does once it is inside CushiNet.            *)
Library ==
    \/ InsideAccept
    \/ StaticCallback \/ CallbacksDone \/ ListenerReturns \/ ReceiveLoop

Next ==
    \/ ServiceThread /\ UNCHANGED serverVars
    \/ AppCalls
    \/ RunCallbacks
    \/ \E s \in Servers : Update(s) \/ UpdateWithoutCallbacks(s)
    \/ Library

Spec == Init /\ [][Next]_vars
-----------------------------------------------------------------------------
(* Safety.                                                                 *)

(* The static registry and the servers agree: a listen socket leads to the *)
(* server that holds it and to no other, so a status change reaches the    *)
(* session it belongs to or nobody (Start 67 and 100, Stop 115).           *)
RegistryMatchesSockets ==
    \A k \in Sockets, s \in Servers :
        globalServerRegistry[k] = s <=> socket[s] = k

(* Whatever Start managed to create before it failed and whatever Stop     *)
(* tears down is given back: every open listen socket or poll group is     *)
(* held by exactly one server, and a server holds both or neither.         *)
HandlesHeldOnce ==
    /\ \A s \in Servers : socket[s] = Invalid <=> pollGroup[s] = Invalid
    /\ \A h \in Sockets \cup Groups :
        handle[h] = "open" <=> \E s \in Servers : h \in {socket[s], pollGroup[s]}
    /\ \A s, r \in Servers : s # r =>
        {socket[s], pollGroup[s]} \cap {socket[r], pollGroup[r]} \subseteq {Invalid}

(* GetClients lists only connections that can still be sent to or whose    *)
(* end is about to be reported: of this session's socket, in its poll      *)
(* group, never closed by the server.                                      *)
TrackedClientIsLive ==
    \A s \in Servers : \A c \in clients[s] :
        /\ IsRunning(s)
        /\ state[c] \in {"Connected"} \cup Ended
        /\ parent[c] = socket[s] /\ group[c] = pollGroup[s]

(* No connection is forgotten ("MUST either accept or close"): one that    *)
(* GNS holds open is a client, or half accepted, or its request has still  *)
(* to be handed out, or the listener is being asked about it now.          *)
NoLeakedConnection ==
    \A c \in Conns : state[c] \in Alive =>
        \E s \in Servers :
            /\ parent[c] = socket[s]
            /\ \/ c \in clients[s]
               \/ accepting[s] = c
               \/ Posted(c, "Connecting")
               \/ pc = "OnConnectionRequest" /\ hConn = c

(* A dead connection is never kept for ever: as long as GNS holds one that *)
(* has ended by itself, the change that makes the server close it and drop *)
(* the client is on its way.                                               *)
EndedIsPosted ==
    \A c \in Conns : state[c] \in Ended => Posted(c, state[c])

(* ReceiveMessages reads mail of the server's present clients only.  What  *)
(* a listener may still hear from a client it has removed, or from an      *)
(* earlier session, is therefore the rest of one batch and no more.        *)
FetchesFromClients ==
    [][\A c \in Conns :
        incomingMsgs'[c] > incomingMsgs[c] => c \in clients[updating]]_vars

(* A status change is reported on the server whose present listen socket   *)
(* it came in on: never to a stopped server, nor to a restarted one on     *)
(* account of an earlier session.                                          *)
ReportsOwnSession ==
    [][pc' # pc /\ pc' \in {"OnConnectionRequest", "OnDisconnect"} =>
        IsRunning(server') /\ parent[hConn'] = socket[server']]_vars

(* OnDisconnect is the last a listener hears of a connection: no second    *)
(* one, no request, and no message that had waited to be read.             *)
DisconnectIsLast ==
    [][pc' # pc /\ pc' \in Callbacks => hConn' \notin gone]_vars

-----------------------------------------------------------------------------
(* What the headers say and the code does not do.                          *)

(* Server.h:53: "OnDisconnect() will NOT be called if you manually/        *)
(* forcefully remove the client via RemoveClient(client)".  Who had been   *)
(* admitted and is no client when it is called has been removed, since     *)
(* nothing is reported of the sessions that Stop has ended.                *)
RemovedIsNotReported ==
    [][\A c \in gone' \ gone :
        c \in admitted => \E s \in Servers : c \in clients[s]]_vars

(* Server.h:143: Update throws "if there is an error when receiving        *)
(* incoming messages from poll group": the server was still running, and   *)
(* the exception stops it.                                                 *)
FailureStopsRunningServer == pc = "failed" => IsRunning(updating)

-----------------------------------------------------------------------------
(* Liveness.                                                               *)

(* The application calls Update(true) again and again (README 111: in its  *)
(* main loop), its listeners return, and the thread is not suspended for   *)
(* ever inside CushiNet.  Nothing is asked of the peers or the network.    *)
Fairness ==
    /\ WF_vars(Library)
    /\ \A s \in Servers : SF_vars(Update(s))

FairSpec == Spec /\ Fairness

(* Every request is answered, one way or the other.                        *)
RequestsAnswered ==
    \A c \in Conns : state[c] = "Connecting" ~> state[c] # "Connecting"

(* A client whose connection has ended is dropped.                         *)
DeadClientsDropped ==
    \A c \in Conns, s \in Servers :
        (c \in clients[s] /\ state[c] \in Ended) ~> c \notin clients[s]

(* A message that has arrived is read, or thrown away with its connection. *)
MailIsRead == \A c \in Conns : inbox[c] > 0 ~> inbox[c] = 0
=============================================================================
