--------------------------- MODULE EndToEndProofs ---------------------------
(***************************************************************************)
(* Theorems about the two processes together: each behaves as the module   *)
(* of its end says, so what is proved there holds here; and a client that  *)
(* has been told of its acceptance is a member of the server.              *)
(***************************************************************************)
EXTENDS EndToEnd, ExampleServerProofs

LEMMA EndStarts == EndInit => ExampleInit /\ C!Init
  BY DEF EndInit

(* What the peer and the network do to the server is what its module       *)
(* allows them to do.                                                      *)
LEMMA ServerEndSteps == [EndNext]_endVars => [ExampleNext]_allVars
<1> SUFFICES ASSUME [EndNext]_endVars PROVE [ExampleNext]_allVars
  OBVIOUS
<1>1. CASE ServerStep(ExampleThread)
  BY <1>1 DEF ServerStep, ExampleNext
<1>2. ASSUME NEW c \in Conns, ServerNetwork(ServerHears(c)) PROVE ExampleNext
  <2>1. ServerHears(c) /\ UNCHANGED <<serverVars, exampleVars>>
    BY <1>2 DEF ServerNetwork, ServerStep
  <2>2. \/ PeerConnects(c)
        \/ (Ends(c) \/ MessageArrives(c)) /\ UNCHANGED socketVars
    BY <2>1 DEF ServerHears, ServerEnds, ServerReceives
  <2> QED BY <2>1, <2>2 DEF ExampleNext, ServiceThread
<1>3. CASE ClientProcess
  BY <1>3 DEF ClientProcess, ClientStep, ClientNetwork
<1>4. CASE Crash \/ UNCHANGED endVars
  BY <1>4 DEF Crash, endVars
<1> QED BY <1>1, <1>2, <1>3, <1>4 DEF EndNext, ServerProcess

LEMMA ClientEndSteps == [EndNext]_endVars => [C!Next]_(C!vars)
<1> SUFFICES ASSUME [EndNext]_endVars PROVE [C!Next]_(C!vars)
  OBVIOUS
<1> USE DEF cVars, cConnVars, cAppVars
<1>0. ASSUME UNCHANGED cVars PROVE UNCHANGED C!vars
  BY <1>0 DEF C!vars, C!connVars, C!clientVars, C!objectVars, C!threadVars, C!historyVars
<1>1. CASE ServerProcess
  BY <1>0, <1>1 DEF ServerProcess, ServerStep, ServerNetwork
<1>2. CASE Crash \/ UNCHANGED endVars
  BY <1>0, <1>2 DEF Crash, endVars
<1>3. ASSUME NEW cl \in Clients, ClientStep(Sends(cl)) PROVE UNCHANGED C!vars
  BY <1>0, <1>3 DEF ClientStep, Sends
<1>4. ASSUME NEW c \in Conns, ClientNetwork(ClientHears(c)) PROVE C!Next
  <2>1. ClientHears(c) /\ UNCHANGED C!clientVars
    BY <1>4 DEF ClientNetwork, ClientStep, C!clientVars, C!objectVars, C!threadVars,
       C!historyVars
  <2> QED BY <2>1 DEF ClientHears, ClientEnds, C!Next, C!ServiceThread
<1>5. CASE ClientStep((ClientProgram \/ C!Library) /\ UNCHANGED written)
  <2>1. ClientProgram \/ C!Library
    BY <1>5 DEF ClientStep
  <2>2. CASE /\ cPc = "idle"
             /\ \E cl \in Clients : C!Join(cl) \/ (C!IsConnected(cl) /\ C!Leave(cl))
             /\ UNCHANGED <<cListener, cPc, cUpdating, cLeft, client, cHConn,
                            cIncomingMsgs, source>>
    BY <2>2 DEF C!Next, C!AppCalls, C!AppRuns, C!threadVars
  <2>3. CASE \/ C!RunCallbacks \/ C!Library
             \/ \E cl \in Clients : C!Update(cl) \/ C!UpdateWithoutCallbacks(cl)
    BY <2>3 DEF C!Next
  <2> QED BY <2>1, <2>2, <2>3 DEF ClientProgram
<1> QED BY <1>1, <1>2, <1>3, <1>4, <1>5 DEF EndNext, ClientProcess

(* In the composition each end is as its module says: the server process   *)
(* runs the README's server program, the other one CushiNet's clients.     *)
THEOREM EndsImplement == EndSpec => ExampleSpec /\ C!Spec
  BY EndStarts, ServerEndSteps, ClientEndSteps, PTL DEF EndSpec, ExampleSpec, C!Spec

(* ... so the listener counts as it does with any clients and network,     *)
THEOREM EndCounterCorrect == EndSpec => []CounterLaw
  BY EndsImplement, CounterCorrect, PTL

(* and keeps its limit while it counts pairs.                              *)
THEOREM EndLimitCorrect == EndSpec => []LimitKeptWhilePaired
  BY EndsImplement, LimitCorrect, PTL

(* ... and so do CushiNet's servers: whatever the clients do and however   *)
(* the processes end, no connection is leaked, forgotten or taken for a    *)
(* live one, the reports go to the right session and in the right order,   *)
(* and a connection is one stay in one server.                             *)
THEOREM EndServerCorrect ==
    EndSpec =>
        /\ [](RegistryMatchesSockets /\ HandlesHeldOnce /\ TrackedClientIsLive)
        /\ [](NoLeakedConnection /\ EndedIsPosted)
        /\ ReportsOwnSession /\ FetchesFromClients /\ DisconnectIsLast
        /\ ImplementsMembership /\ []M!OneStay /\ M!OverForEver
<1>1. EndSpec => Spec
  BY EndsImplement, ExampleIsServer, PTL
<1>2. Spec => []RegistryMatchesSockets /\ []HandlesHeldOnce
  BY RegistryCorrect, HandlesCorrect
<1>3. Spec => []TrackedClientIsLive /\ []NoLeakedConnection
  BY TrackedCorrect, NothingLeaks
<1>4. Spec => []EndedIsPosted
  BY EndsAreNews
<1>5. Spec => ReportsOwnSession /\ FetchesFromClients /\ DisconnectIsLast
  BY ReportsCorrect, FetchesCorrect, DisconnectCorrect
<1>6. Spec => ImplementsMembership /\ []M!OneStay /\ M!OverForEver
  BY Implementation, StaysCorrect
<1> QED BY <1>1, <1>2, <1>3, <1>4, <1>5, <1>6, PTL
-----------------------------------------------------------------------------
(* What a step of the server may do to one connection: a member leaves the *)
(* clients only when it is closed, and what comes up is being accepted,    *)
(* until it becomes a member or is closed.                                 *)
MemberOrClosed(c) ==
    state[c] = "None" \/ \E s \in Servers : c \in clients[s] \/ accepting[s] = c

Settles(c) ==
    /\ state[c] = "None" => state'[c] = "None"
    /\ \A s \in Servers : c \in clients[s] => c \in clients'[s] \/ state'[c] = "None"
    /\ \A s \in Servers : accepting[s] = c => accepting'[s] = c \/ MemberOrClosed(c)'
    /\ Posted(c, "Connected")' => Posted(c, "Connected") \/ MemberOrClosed(c)'

LEMMA BecomesSettles ==
    ASSUME Inv, NEW c \in Conns, NEW s \in Servers, NEW k, NEW g, Becomes(s, k, g),
           accepting' = accepting
    PROVE  Settles(c)
<1>1. /\ Closed(OwnConnections(s)) /\ queue' = queue
      /\ clients' = [clients EXCEPT ![s] = {}]
  BY DEF Becomes
<1>2. clients[s] \subseteq OwnConnections(s)
  BY DEF Inv, ConnInv, TrackedClientIsLive, OwnConnections
<1>3. clients \in [Servers -> SUBSET Conns]
  BY DEF Inv, TypeInv, TypeOK
<1> QED BY <1>1, <1>2, <1>3 DEF Closed, Settles, Posted

LEMMA AppSettles ==
    ASSUME Inv, NEW c \in Conns, AppCalls
    PROVE  Settles(c)
<1>0. /\ state \in [Conns -> States] /\ clients \in [Servers -> SUBSET Conns]
      /\ accepting \in [Servers -> Conns \cup {Invalid}]
      /\ \A s \in Servers : accepting[s] = Invalid
  BY DEF Inv, TypeInv, TypeOK, ConnectionsTypeOK, AppCalls, AppRuns
<1>1. PICK s \in Servers :
        \/ /\ Start(s) \/ StartWithoutSocket(s) \/ StartWithoutPollGroup(s) \/ Stop(s)
           /\ accepting' = accepting
        \/ \E d \in Conns : AcceptClient(s, d) \/ AcceptRefused(s, d) \/ RemoveClient(s, d)
        \/ \E l \in BOOLEAN : SetListener(s, l)
  BY DEF AppCalls
<1>2. CASE /\ Start(s) \/ StartWithoutSocket(s) \/ StartWithoutPollGroup(s) \/ Stop(s)
           /\ accepting' = accepting
  <2>1. \E k, g : Becomes(s, k, g)
    BY <1>2, Zenon DEF Start, StartWithoutSocket, StartWithoutPollGroup, Stop
  <2> QED BY <1>2, <2>1, BecomesSettles
<1>3. ASSUME NEW d \in Conns, AcceptClient(s, d) PROVE Settles(c)
  <2>1. /\ state' = [state EXCEPT ![d] = "Connected"] /\ state[d] = "Connecting"
        /\ queue' = Append(queue, [conn |-> d, state |-> "Connected"])
        /\ clients' = clients /\ accepting' = [accepting EXCEPT ![s] = d]
    BY <1>3 DEF AcceptClient, Established, objectVars
  <2>2. ToSet(queue') = ToSet(queue) \cup {[conn |-> d, state |-> "Connected"]}
    BY <2>1, QueueGrows DEF Inv, Alive
  <2>3. Posted(c, "Connected")' => Posted(c, "Connected") \/ c = d
    BY <2>2 DEF Posted
  <2> QED BY <1>0, <2>1, <2>3, ConnectionsAssumption DEF Settles, MemberOrClosed
<1>4. ASSUME NEW d \in Conns, AcceptRefused(s, d) \/ RemoveClient(s, d) PROVE Settles(c)
  <2>1. /\ Closed({d}) /\ queue' = queue
        /\ \A r \in Servers : clients'[r] = clients[r] \/ clients'[r] = clients[r] \ {d}
        /\ accepting' = accepting
    BY <1>0, <1>4 DEF AcceptRefused, RemoveClient, Dropped, objectVars
  <2> QED BY <2>1 DEF Closed, Settles, Posted
<1>6. ASSUME NEW l \in BOOLEAN, SetListener(s, l) PROVE Settles(c)
  BY <1>6 DEF SetListener, connVars, objectVars, Settles, Posted
<1> QED BY <1>1, <1>2, <1>3, <1>4, <1>6

LEMMA InsideAcceptSettles ==
    ASSUME Inv, NEW c \in Conns, InsideAccept
    PROVE  Settles(c)
<1>0. /\ state \in [Conns -> States] /\ clients \in [Servers -> SUBSET Conns]
      /\ accepting \in [Servers -> Conns \cup {Invalid}]
  BY DEF Inv, TypeInv, TypeOK, ConnectionsTypeOK
<1>1. PICK s \in Servers : EnterPollGroup(s) \/ AcceptUndone(s) \/ AcceptDone(s)
  BY DEF InsideAccept
<1>2. CASE EnterPollGroup(s)
  BY <1>2 DEF EnterPollGroup, connVars, objectVars, Settles, Posted
<1>3. CASE AcceptUndone(s)
  <2>1. /\ Closed({accepting[s]}) /\ UNCHANGED <<queue, clients>>
        /\ accepting' = [accepting EXCEPT ![s] = Invalid]
    BY <1>3 DEF AcceptUndone, objectVars
  <2> QED BY <1>0, <2>1 DEF Closed, Settles, MemberOrClosed, Posted
<1>4. CASE AcceptDone(s)
  <2>1. /\ clients' = [clients EXCEPT ![s] = @ \cup {accepting[s]}]
        /\ accepting' = [accepting EXCEPT ![s] = Invalid]
        /\ UNCHANGED <<state, queue>>
    BY <1>4 DEF AcceptDone, connVars
  <2> QED BY <1>0, <2>1 DEF Settles, MemberOrClosed, Posted
<1> QED BY <1>1, <1>2, <1>3, <1>4

LEMMA ServiceThreadSettles ==
    ASSUME Inv, NEW c \in Conns, ServiceThread, UNCHANGED serverVars
    PROVE  Settles(c)
<1>0. state \in [Conns -> States] /\ clients' = clients /\ accepting' = accepting
  BY DEF Inv, TypeInv, TypeOK, ConnectionsTypeOK, serverVars, objectVars
<1>1. PICK d \in Conns : PeerConnects(d) \/ Ends(d) \/ MessageArrives(d)
  BY DEF ServiceThread
<1>2. CASE MessageArrives(d)
  BY <1>0, <1>2 DEF MessageArrives, Settles, Posted
<1>3. CASE PeerConnects(d) \/ Ends(d)
  <2>1. PICK st \in Alive \ {"Connected"} :
          /\ state[d] # "None" /\ state' = [state EXCEPT ![d] = st]
          /\ queue' = Append(queue, [conn |-> d, state |-> st])
    BY <1>3 DEF PeerConnects, Created, Ends, Ended, Alive
  <2>2. ToSet(queue') = ToSet(queue) \cup {[conn |-> d, state |-> st]}
    BY <2>1, QueueGrows DEF Inv
  <2>3. Posted(c, "Connected")' => Posted(c, "Connected")
    BY <2>1, <2>2 DEF Posted
  <2> QED BY <1>0, <2>1, <2>3 DEF Settles
<1> QED BY <1>1, <1>2, <1>3

(* Taking a change off the queue posts none.                               *)
LEMMA TakingPostsNothing ==
    ASSUME Inv, NEW sts, TakeEvent(sts), NEW c \in Conns, Posted(c, "Connected")'
    PROVE  Posted(c, "Connected")
  BY EventTaken DEF Inv, Posted

LEMMA StaticCallbackSettles ==
    ASSUME Inv, NEW c \in Conns, StaticCallback
    PROVE  Settles(c)
<1>0. clients \in [Servers -> SUBSET Conns] /\ accepting' = accepting
  BY DEF Inv, TypeInv, TypeOK, StaticCallback, CallbackIgnores, CallbackConnecting,
     CallbackClosed, TakeEvent
<1>1. Posted(c, "Connected")' => Posted(c, "Connected")
  BY TakingPostsNothing DEF StaticCallback, CallbackIgnores, CallbackConnecting,
     CallbackClosed
<1>2. CASE CallbackIgnores \/ CallbackConnecting
  <2>1. clients' = clients /\ (state' = state \/ \E D : Closed(D))
    BY <1>2 DEF CallbackIgnores, CallbackConnecting, CloseUnlessClient, objectVars
  <2> QED BY <1>0, <1>1, <2>1 DEF Closed, Settles
<1>3. CASE CallbackClosed
  <2>1. \E s, d : Dropped(s, d)
    BY <1>3 DEF CallbackClosed
  <2> QED BY <1>0, <1>1, <2>1 DEF Dropped, Closed, Settles
<1> QED BY <1>2, <1>3 DEF StaticCallback

LEMMA StepSettles ==
    ASSUME Inv, [Next]_vars, NEW c \in Conns
    PROVE  Settles(c)
<1> USE DEF connVars, objectVars
<1>1. CASE ListenerReturns
  <2>1. UNCHANGED <<queue, clients, accepting>> /\ (state' = state \/ \E D : Closed(D))
    BY <1>1 DEF ListenerReturns, ReturnFromConnectionRequest, ReturnFromDisconnect,
       ReturnFromMessage, Return, CloseUnlessClient
  <2> QED BY <2>1 DEF Closed, Settles, Posted
<1>2. CASE UpdateThrows
  <2>1. updating \in Servers /\ Becomes(updating, Invalid, Invalid) /\ accepting' = accepting
    BY <1>2 DEF UpdateThrows, Stop, Inv, TypeInv, ThreadOK
  <2> QED BY <2>1, BecomesSettles
<1>3. ASSUME UNCHANGED <<state, queue, clients, accepting>> PROVE Settles(c)
  BY <1>3 DEF Settles, Posted
<1>4. ASSUME NEW s \in Servers \cup {Invalid}, EnterCallbacks(s)
      PROVE  UNCHANGED <<state, queue, clients, accepting>>
  BY <1>4 DEF EnterCallbacks
<1>5. ASSUME NEW s \in Servers, UpdateWithoutCallbacks(s)
      PROVE  UNCHANGED <<state, queue, clients, accepting>>
  BY <1>5 DEF UpdateWithoutCallbacks
<1>6. ASSUME \/ CallbacksDone \/ UNCHANGED vars
             \/ Receive \/ ReceiveNothing \/ ReceiveFails \/ Deliver
      PROVE  UNCHANGED <<state, queue, clients, accepting>>
  BY <1>6 DEF CallbacksDone, vars, serverVars, Receive, ReceiveNothing, ReceiveFails, Deliver
<1> QED BY <1>1, <1>2, <1>3, <1>4, <1>5, <1>6, NextCases, ServiceThreadSettles, AppSettles,
           InsideAcceptSettles, StaticCallbackSettles DEF ReceiveLoop

-----------------------------------------------------------------------------
(* A client hears of its acceptance only from the server, on a connection  *)
(* that was asking for it.                                                 *)
Unheard ==
    /\ DOMAIN cState' = Conns
    /\ \A c \in Conns : cState'[c] = "Connected" => cState[c] = "Connected"

LEMMA ClientKeeps ==
    ASSUME DOMAIN cState = Conns, ClientProgram \/ C!Library
    PROVE  Unheard
<1> USE DEF cConnVars, C!connVars, Unheard
<1>1. ASSUME NEW D, C!Closed(D)
      PROVE  Unheard
  BY <1>1 DEF C!Closed
<1>2. ASSUME NEW cl, C!Join(cl)
      PROVE  Unheard
  BY <1>2 DEF C!Join
<1>3. \/ cState' = cState \/ (\E D : C!Closed(D)) \/ \E cl : C!Join(cl)
  BY Zenon DEF ClientProgram, C!Leave, C!Update, C!RunCallbacks,
     C!UpdateWithoutCallbacks, C!EnterCallbacks, C!Library, C!StaticCallback,
     C!CallbackIgnores, C!CallbackConnected, C!CallbackClosed, C!Forgotten, C!CallbacksDone,
     C!ReturnFromStatusChange, C!ReturnFromMessage, C!Return, C!ReceiveLoop, C!Polls,
     C!Receive, C!ReceiveNothing, C!ReceiveFails, C!UpdateThrows, C!Deliver
<1> QED BY <1>1, <1>2, <1>3

(* Who has been accepted becomes a member at once, is one, or has been     *)
(* closed since; and whoever has heard of it has been accepted.            *)
AcceptedInv ==
    /\ \A c \in Conns : Posted(c, "Connected") => c \in accepted
    /\ \A c \in accepted : c \in Conns /\ MemberOrClosed(c)

HeardInv ==
    /\ DOMAIN cState = Conns
    /\ \A c \in Conns : cState[c] = "Connected" => c \in accepted

LEMMA AcceptedStarts == EndInit => AcceptedInv /\ HeardInv
<1> SUFFICES ASSUME EndInit PROVE AcceptedInv /\ HeardInv
  OBVIOUS
<1>1. queue = <<>> /\ accepted = {} /\ cState = [c \in Conns |-> "Free"]
  BY DEF EndInit, ExampleInit, Init, ConnectionsInit, C!Init, C!ConnectionsInit
<1>2. ToSet(queue) = {}
  BY <1>1 DEF ToSet
<1> QED BY <1>1, <1>2 DEF AcceptedInv, HeardInv, Posted

LEMMA AcceptedStep ==
    ASSUME ServerInv, AcceptedInv, [EndNext]_endVars
    PROVE  AcceptedInv' /\ accepted \subseteq accepted'
<1>0. [Next]_vars
  BY ServerEndSteps, ExampleSteps
<1>1. CASE accepted' = accepted \cup {c \in Conns : Posted(c, "Connected")'}
  <2>1. \A c \in Conns : Posted(c, "Connected")' => c \in accepted'
    BY <1>1
  <2>2. ASSUME NEW c \in accepted' PROVE c \in Conns /\ MemberOrClosed(c)'
    <3>1. c \in Conns /\ Settles(c)
      BY <1>0, <1>1, StepSettles DEF AcceptedInv, ServerInv
    <3>2. CASE c \in accepted
      BY <3>1, <3>2 DEF AcceptedInv, Settles, MemberOrClosed
    <3>3. CASE c \notin accepted
      BY <1>1, <3>1, <3>3 DEF AcceptedInv, Settles
    <3> QED BY <3>1, <3>2, <3>3
  <2> QED BY <1>1, <2>1, <2>2 DEF AcceptedInv
<1>2. CASE UNCHANGED <<allVars, accepted>>
  BY <1>2 DEF allVars, vars, connVars, serverVars, objectVars, AcceptedInv, MemberOrClosed, Posted
<1>3. \/ accepted' = accepted \cup {c \in Conns : Posted(c, "Connected")'}
      \/ UNCHANGED <<allVars, accepted>>
  BY DEF EndNext, ServerProcess, ServerStep, ServerNetwork, ClientProcess, ClientStep,
     ClientNetwork, Crash, endVars
<1> QED BY <1>1, <1>2, <1>3

LEMMA HeardStep ==
    ASSUME HeardInv, [EndNext]_endVars, accepted \subseteq accepted'
    PROVE  HeardInv'
<1> USE DEF HeardInv, cVars, cConnVars
<1>1. CASE ServerProcess \/ Crash \/ UNCHANGED endVars
  <2>1. cState' = cState
    BY <1>1 DEF ServerProcess, ServerStep, ServerNetwork, Crash, endVars
  <2> QED BY <2>1
<1>2. ASSUME NEW cl \in Clients, ClientStep(Sends(cl)) PROVE HeardInv'
  BY <1>2 DEF ClientStep, Sends
<1>3. CASE ClientStep((ClientProgram \/ C!Library) /\ UNCHANGED written)
  <2>1. (ClientProgram \/ C!Library) /\ accepted' = accepted
    BY <1>3 DEF ClientStep
  <2> QED BY <2>1, ClientKeeps DEF Unheard
<1>4. ASSUME NEW c \in Conns, ClientNetwork(ClientHears(c)) PROVE HeardInv'
  <2>1. \/ c \in accepted /\ cState' = [cState EXCEPT ![c] = "Connected"]
        \/ \E st \in C!Ended : cState' = [cState EXCEPT ![c] = st]
    BY <1>4 DEF ClientNetwork, ClientStep, ClientHears, C!PeerAccepts, C!Established,
       ClientEnds, C!Ends
  <2> QED BY <2>1 DEF C!Ended
<1> QED BY <1>1, <1>2, <1>3, <1>4 DEF EndNext, ClientProcess

(* A client that has been told of its acceptance is in the AcceptClient    *)
(* the listener has called for it, or a member, until the server closes it *)
(* (AcceptClient 178 to 191, and every place that closes or erases a       *)
(* client).                                                                *)
THEOREM MembersAgree == EndSpec => []ConnectedIsMember
<1>1. EndSpec => [](ServerInv /\ ProgramInv)
  BY EndsImplement, ProgramInvariance, PTL
<1>2. EndSpec => [](AcceptedInv /\ HeardInv)
  BY <1>1, AcceptedStarts, AcceptedStep, HeardStep, PTL DEF EndSpec
<1>3. AcceptedInv /\ HeardInv /\ ProgramInv => ConnectedIsMember
  BY ConnectionsAssumption DEF AcceptedInv, HeardInv, ProgramInv, ConnectedIsMember,
     MemberOrClosed
<1> QED BY <1>1, <1>2, <1>3, PTL
=============================================================================
