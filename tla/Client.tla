------------------------------- MODULE Client -------------------------------
(***************************************************************************)
(* CushiNet::Client (src/src/Client.cpp): the clients of one process, the  *)
(* application thread that owns them, and the ClientListener callbacks.    *)
(*                                                                         *)
(* The threads are those of module Server: GNS's service thread moves the  *)
(* connections on, and the application thread runs CushiNet's functions,   *)
(* one step each but for Update and RunCallbacks, which are cut at the     *)
(* listener callbacks (`pc`).  Every connection here is one a client       *)
(* opened; the servers at the other ends are whatever makes them come up,  *)
(* end and deliver messages.                                               *)
(*                                                                         *)
(* Bounds: finitely many handles, MaxMessages.  The application never      *)
(* calls Update or RunCallbacks from inside a listener, destroys no client *)
(* there, and its listeners return and do not throw.                       *)
(***************************************************************************)
EXTENDS SteamConnections

CONSTANTS
    Clients,      \* the Client objects
    MaxMsgs       \* maxMsgs in Update: how many messages one call reads

ASSUME ClientAssumption ==
    /\ Invalid \notin Clients
    /\ MaxMsgs \in Nat \ {0}

VARIABLES
    connection,   \* the member of each Client,
    listener,     \* whether its listener pointer is non-null
    globalClientRegistry,       \* the static map from connections
    pc,                         \* where the application thread is
    updating,                   \* the client whose Update runs, if any
    left,                       \* status changes RunCallbacks still hands out
    client, hConn,              \* arguments of the listener callback running
    incomingMsgs, source,       \* messages fetched and not yet given to the
                                \* listener, and the connection they came on
    told, quit, gone            \* history: connections OnConnect reported,
                                \* Leave closed, OnDisconnect reported

objectVars  == <<connection, globalClientRegistry>>
threadVars  == <<pc, updating, left, client, hConn, incomingMsgs, source>>
historyVars == <<told, quit, gone>>
clientVars  == <<objectVars, listener, threadVars, historyVars>>
vars        == <<connVars, clientVars>>

(* Where the application's own code runs.                                  *)
Callbacks == {"OnConnect", "OnDisconnect", "OnMessageReceived"}
AppRuns == pc \in {"idle"} \cup Callbacks

TypeOK ==
    /\ ConnectionsTypeOK
    /\ connection \in [Clients -> Conns \cup {Invalid}]
    /\ listener \in [Clients -> BOOLEAN]
    /\ globalClientRegistry \in [Conns -> Clients \cup {Invalid}]
    /\ pc \in {"idle", "callbacks", "polling", "failed"} \cup Callbacks
    /\ updating \in Clients \cup {Invalid}
    /\ left \in Nat
    /\ client \in Clients \cup {Invalid}
    /\ hConn \in Conns \cup {Invalid}
    /\ incomingMsgs \in 0 .. MaxMsgs
    /\ source \in Conns \cup {Invalid}
    /\ told \subseteq Conns /\ quit \subseteq Conns /\ gone \subseteq Conns

IsConnected(cl) == connection[cl] # Invalid

Init ==
    /\ ConnectionsInit
    /\ connection = [cl \in Clients |-> Invalid]
    /\ listener \in [Clients -> BOOLEAN]
    /\ globalClientRegistry = [c \in Conns |-> Invalid]
    /\ pc = "idle" /\ updating = Invalid /\ left = 0
    /\ client = Invalid /\ hConn = Invalid
    /\ incomingMsgs = 0 /\ source = Invalid
    /\ told = {} /\ quit = {} /\ gone = {}

-----------------------------------------------------------------------------
(* Leave, Join, SetListener.                                               *)

(* What Leave closes: nothing if the client is not connected.              *)
Own(cl) == {connection[cl]} \ {Invalid}

(* Mutant: Leave leaves its entry in the registry.                         *)
NotErased(cl) == globalClientRegistry

(* The registry after erase(connection).                                   *)
Erased(cl) ==
    [c \in Conns |-> IF c \in Own(cl) THEN Invalid ELSE globalClientRegistry[c]]

Leave(cl) ==
    /\ Closed(Own(cl))
    /\ connection' = [connection EXCEPT ![cl] = Invalid]
    /\ globalClientRegistry' = Erased(cl)
    /\ quit' = quit \cup Own(cl)
    /\ UNCHANGED <<queue, sent, told, gone>>

(* Join throws: the options are null, or there is no connection.  The      *)
(* client has left the server it was in by then.                           *)
JoinFails(cl) == Leave(cl)

(* Mutant: Join forgets to leave.                                          *)
JoinWithoutLeaving(cl) ==
    \E c \in Conns :
        /\ Created(c)
        /\ connection' = [connection EXCEPT ![cl] = c]
        /\ globalClientRegistry' = [globalClientRegistry EXCEPT ![c] = cl]
        /\ UNCHANGED <<inbox, sent, historyVars>>

(* Mutant: Join forgets to register.                                       *)
JoinUnregistered(cl) ==
    \E c \in Conns :
        /\ ~ IsConnected(cl)
        /\ Created(c)
        /\ connection' = [connection EXCEPT ![cl] = c]
        /\ UNCHANGED <<inbox, sent, globalClientRegistry, historyVars>>

(* All three overloads: leave, connect by address, register.               *)
Join(cl) ==
    \E c \in Conns :
        /\ state[c] = "Free"
        /\ state' = [d \in Conns |-> IF d = c THEN "Connecting"
                                     ELSE IF d \in Own(cl) THEN "None"
                                     ELSE state[d]]
        /\ inbox' = [d \in Conns |-> IF d \in Own(cl) THEN 0 ELSE inbox[d]]
        /\ queue' = Append(queue, [conn |-> c, state |-> "Connecting"])
        /\ connection' = [connection EXCEPT ![cl] = c]
        /\ globalClientRegistry' = [Erased(cl) EXCEPT ![c] = cl]
        /\ quit' = quit \cup Own(cl)
        /\ UNCHANGED <<sent, told, gone>>

(* What SendMessage may return; it changes nothing CushiNet keeps.         *)
SendMessage(cl) ==
    IF IsConnected(cl) THEN SendResult(connection[cl]) ELSE {"NoConnection"}

SetListener(cl, l) ==
    /\ listener' = [listener EXCEPT ![cl] = l]
    /\ UNCHANGED <<connVars, objectVars, historyVars>>

(* Any call the application may make, outside or inside a listener.        *)
AppCalls ==
    /\ AppRuns
    /\ UNCHANGED threadVars
    /\ \E cl \in Clients :
        \/ /\ Join(cl) \/ JoinFails(cl) \/ Leave(cl)
           /\ UNCHANGED listener
        \/ \E l \in BOOLEAN : SetListener(cl, l)

-----------------------------------------------------------------------------
(* Update and RunCallbacks.                                                *)

(* RunCallbacks, by itself (cl = Invalid) or for Update(true): everything  *)
(* posted so far will be handed out, in order.                             *)
EnterCallbacks(cl) ==
    /\ pc = "idle"
    /\ pc' = "callbacks" /\ updating' = cl /\ left' = Len(queue)
    /\ UNCHANGED <<connVars, objectVars, listener,
                   client, hConn, incomingMsgs, source, historyVars>>

RunCallbacks == EnterCallbacks(Invalid)

Update(cl) == EnterCallbacks(cl)

(* Update(false) on a connected client goes straight to the messages.      *)
UpdateWithoutCallbacks(cl) ==
    /\ pc = "idle" /\ IsConnected(cl)
    /\ pc' = "polling" /\ updating' = cl
    /\ UNCHANGED <<connVars, objectVars, listener, left,
                   client, hConn, incomingMsgs, source, historyVars>>

(* Mutant: Update(true) runs the callbacks and forgets the messages.       *)
CallbacksOnly ==
    /\ pc = "callbacks" /\ left = 0
    /\ pc' = "idle" /\ updating' = Invalid
    /\ UNCHANGED <<connVars, objectVars, listener, left,
                   client, hConn, incomingMsgs, source, historyVars>>

(* Every change has been handed out: Update goes on if it is connected.    *)
CallbacksDone ==
    /\ pc = "callbacks" /\ left = 0
    /\ LET polls == updating # Invalid /\ IsConnected(updating)
       IN  /\ pc' = IF polls THEN "polling" ELSE "idle"
           /\ updating' = IF polls THEN updating ELSE Invalid
    /\ UNCHANGED <<connVars, objectVars, listener, left,
                   client, hConn, incomingMsgs, source, historyVars>>

(* globalClientRegistry.find(m_hConn), Invalid if there is none.           *)
ClientOf(c) == globalClientRegistry[c]

Handled(c) == ClientOf(c) # Invalid /\ IsConnected(ClientOf(c))

(* GNS takes the next change off its queue and calls the static callback.  *)
TakeEvent(sts) ==
    /\ pc = "callbacks" /\ left > 0
    /\ Head(queue).state \in sts
    /\ queue' = Tail(queue) /\ left' = left - 1
    /\ UNCHANGED <<sent, listener, updating, incomingMsgs, source, quit>>

(* No connected client is registered for it, or there is nothing to do.    *)
CallbackIgnores ==
    /\ TakeEvent(Alive)
    /\ Handled(Head(queue).conn) => Head(queue).state = "Connecting"
    /\ UNCHANGED <<state, inbox, objectVars, pc, client, hConn, told, gone>>

(* The listener of cl, if there is one, is called with c.                  *)
Calls(name, cl, c) ==
    IF listener[cl]
    THEN pc' = name /\ client' = cl /\ hConn' = c
    ELSE UNCHANGED <<pc, client, hConn>>

CallbackConnected ==
    /\ TakeEvent({"Connected"})
    /\ LET c == Head(queue).conn
       IN  /\ Handled(c)
           /\ Calls("OnConnect", ClientOf(c), c)
           /\ told' = IF listener[ClientOf(c)] THEN told \cup {c} ELSE told
    /\ UNCHANGED <<state, inbox, objectVars, gone>>

(* Mutant: the connection is reported as gone but kept.                    *)
NotForgotten(cl) == UNCHANGED <<state, inbox, objectVars>>

(* The client's connection is closed and forgotten.                        *)
Forgotten(cl) ==
    /\ Closed(Own(cl))
    /\ connection' = [connection EXCEPT ![cl] = Invalid]
    /\ globalClientRegistry' = Erased(cl)

(* ClosedByPeer, ProblemDetectedLocally: forgotten, then reported.         *)
CallbackClosed ==
    /\ TakeEvent(Ended)
    /\ LET c == Head(queue).conn
       IN  /\ Handled(c)
           /\ Forgotten(ClientOf(c))
           /\ Calls("OnDisconnect", ClientOf(c), c)
           /\ gone' = IF listener[ClientOf(c)] THEN gone \cup {c} ELSE gone
    /\ UNCHANGED told

(* A listener callback returns.                                            *)
Return(from, to) ==
    /\ pc \in from /\ pc' = to
    /\ client' = Invalid /\ hConn' = Invalid
    /\ UNCHANGED <<connVars, objectVars, listener, updating, left,
                   incomingMsgs, source, historyVars>>

ReturnFromStatusChange == Return({"OnConnect", "OnDisconnect"}, "callbacks")

(* OnMessageReceived returns and the message is released.                  *)
ReturnFromMessage == Return({"OnMessageReceived"}, "polling")

-----------------------------------------------------------------------------
(* The receive loop of Update.                                             *)

(* ReceiveMessagesOnConnection needs a handle that names a connection.     *)
Readable(cl) == IsConnected(cl) /\ state[connection[cl]] \in Alive

(* The next call of it, once the messages of the last one are delivered.   *)
Polls ==
    /\ pc = "polling" /\ incomingMsgs = 0
    /\ UNCHANGED <<state, queue, sent, objectVars, listener,
                   left, client, hConn, historyVars>>

(* It fills the array with the oldest messages, as far as there are any.   *)
Receive ==
    /\ Polls /\ Readable(updating)
    /\ LET c == connection[updating]
           n == IF inbox[c] < MaxMsgs THEN inbox[c] ELSE MaxMsgs
       IN  /\ n > 0
           /\ incomingMsgs' = n /\ source' = c
           /\ inbox' = [inbox EXCEPT ![c] = @ - n]
    /\ UNCHANGED <<pc, updating>>

(* ... returns 0: Update returns.                                          *)
ReceiveNothing ==
    /\ Polls /\ Readable(updating)
    /\ inbox[connection[updating]] = 0
    /\ pc' = "idle" /\ updating' = Invalid /\ source' = Invalid
    /\ UNCHANGED <<inbox, incomingMsgs>>

(* ... returns -1.                                                         *)
ReceiveFails ==
    /\ Polls /\ ~ Readable(updating)
    /\ pc' = "failed"
    /\ UNCHANGED <<inbox, updating, incomingMsgs, source>>

(* Update leaves the server and throws; the application catches.           *)
UpdateThrows ==
    /\ pc = "failed" /\ pc' = "idle"
    /\ Leave(updating)
    /\ updating' = Invalid /\ source' = Invalid
    /\ UNCHANGED <<listener, left, client, hConn, incomingMsgs>>

(* Mutant: the loop over the array runs past its end.                      *)
DeliverPastEnd ==
    /\ pc = "polling"
    /\ incomingMsgs' = incomingMsgs - 1
    /\ Calls("OnMessageReceived", updating, source)
    /\ UNCHANGED <<connVars, objectVars, listener, updating, left, source,
                   historyVars>>

(* The next message of the array, which the listener gets if there is one. *)
Deliver ==
    /\ pc = "polling" /\ incomingMsgs > 0
    /\ incomingMsgs' = incomingMsgs - 1
    /\ Calls("OnMessageReceived", updating, source)
    /\ UNCHANGED <<connVars, objectVars, listener, updating, left, source,
                   historyVars>>

-----------------------------------------------------------------------------
StaticCallback == CallbackIgnores \/ CallbackConnected \/ CallbackClosed

ReceiveLoop ==
    Receive \/ ReceiveNothing \/ ReceiveFails \/ UpdateThrows \/ Deliver

(* What the application thread does once it is inside Update.              *)
Library ==
    \/ StaticCallback \/ CallbacksDone
    \/ ReturnFromStatusChange \/ ReturnFromMessage
    \/ ReceiveLoop

(* The server at the other end accepts.                                    *)
PeerAccepts(c) ==
    /\ state[c] = "Connecting"
    /\ Established(c)
    /\ UNCHANGED <<inbox, sent>>

ServiceThread ==
    \E c \in Conns : PeerAccepts(c) \/ Ends(c) \/ MessageArrives(c)

Next ==
    \/ ServiceThread /\ UNCHANGED clientVars
    \/ AppCalls
    \/ RunCallbacks
    \/ \E cl \in Clients : Update(cl) \/ UpdateWithoutCallbacks(cl)
    \/ Library

Spec == Init /\ [][Next]_vars
-----------------------------------------------------------------------------
(* Safety.                                                                 *)

(* The static registry and the clients agree: a connection leads to the    *)
(* client that holds it and to no other (Join 61 and 86, Leave 92, the     *)
(* callback 186).                                                          *)
RegistryMatchesConnections ==
    \A c \in Conns, cl \in Clients :
        globalClientRegistry[c] = cl <=> connection[cl] = c

(* The connections GNS holds for the process are the ones the clients      *)
(* hold: Join, Leave and the callback lose none (GNS would keep it for     *)
(* ever) and keep none that is closed (Update would throw).                *)
ConnectionsHeld ==
    \A c \in Conns :
        state[c] \in Alive <=> \E cl \in Clients : connection[cl] = c

(* A dead connection is never kept for ever: as long as a client holds one *)
(* that has ended by itself, the change that makes it let go is on its way.*)
LossIsPosted ==
    \A cl \in Clients : IsConnected(cl) /\ state[connection[cl]] \in Ended =>
        Posted(connection[cl], state[connection[cl]])

(* What a listener hears of the life of a connection: OnConnect at most    *)
(* once, then OnDisconnect at most once, and neither after the application *)
(* called Leave (Client.h:39) or joined another server, whatever changes   *)
(* of the old connection are still queued.                                 *)
StatusChangesInOrder ==
    [][/\ pc' # pc /\ pc' = "OnConnect" => hConn' \notin told \cup quit \cup gone
       /\ pc' # pc /\ pc' = "OnDisconnect" => hConn' \notin quit \cup gone]_vars

(* OnDisconnect is the last a listener hears of a connection: no message   *)
(* that had waited to be read comes after it.                              *)
DisconnectIsLast ==
    [][pc' # pc /\ pc' \in Callbacks => hConn' \notin gone]_vars

-----------------------------------------------------------------------------
(* What the header says and the code does not do.                          *)

(* Client.h:135: Update throws "if there is an error when receiving        *)
(* incoming messages from the server": the client was still in it, and the *)
(* exception makes it leave.                                               *)
FailureLeavesServer == pc = "failed" => IsConnected(updating)

-----------------------------------------------------------------------------
(* Liveness.                                                               *)

(* As in module Server: the application calls Update(true) again and again *)
(* and the thread is not suspended for ever inside it.                     *)
Fairness ==
    /\ WF_vars(Library)
    /\ \A cl \in Clients : SF_vars(Update(cl))

FairSpec == Spec /\ Fairness

(* A client whose connection has ended stops saying that it is connected.  *)
LossNoticed ==
    \A c \in Conns, cl \in Clients :
        connection[cl] = c /\ state[c] \in Ended ~> connection[cl] # c

(* A client that has a listener when its connection comes up, and keeps    *)
(* both, hears OnConnect: the change is not lost between two updates.      *)
ConnectReported ==
    \A c \in Conns, cl \in Clients :
        (connection[cl] = c /\ listener[cl] /\ Posted(c, "Connected"))
            ~> (c \in told \/ connection[cl] # c \/ ~ listener[cl])

(* A message that has arrived is read, or thrown away with its connection. *)
MailIsRead == \A c \in Conns : inbox[c] > 0 ~> inbox[c] = 0
=============================================================================
