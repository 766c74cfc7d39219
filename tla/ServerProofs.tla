---------------------------- MODULE ServerProofs ----------------------------
(***************************************************************************)
(* Theorems about Server, for every number of servers, handles, messages   *)
(* and status changes.                                                     *)
(***************************************************************************)
EXTENDS ServerRefinement, SteamConnectionsProofs

USE ConnectionsAssumption, SocketsAssumption, ServerAssumption

(* What the thread is doing fits the variables it does it with: changes    *)
(* still to be handed out are in the queue, a callback has its arguments,  *)
(* a receive loop its server, and one AcceptClient at a time has begun,    *)
(* where the application's code runs.                                      *)
ThreadOK ==
    /\ left <= Len(queue)
    /\ pc \in {"polling", "failed", "OnMessageReceived"} => updating \in Servers
    /\ pc \in Callbacks => server \in Servers /\ hConn \in Conns
    /\ \A s \in Servers : accepting[s] # Invalid =>
        /\ pc \in {"idle"} \cup Callbacks
        /\ \A r \in Servers : accepting[r] # Invalid => r = s

(* A handle GNS has given out came in on a socket; only such handles are   *)
(* in the queue, among the clients, half accepted, or given to a listener. *)
HandedOut ==
    /\ \A c \in Conns : parent[c] = Invalid <=> state[c] = "Free"
    /\ \A c \in Conns, st \in Alive : Posted(c, st) => state[c] # "Free"
    /\ \A s \in Servers : \A c \in clients[s] : state[c] # "Free"
    /\ \A s \in Servers : accepting[s] # Invalid => state[accepting[s]] # "Free"
    /\ pc = "OnConnectionRequest" => state[hConn] # "Free"

TypeInv == TypeOK /\ ThreadOK /\ HandedOut

-----------------------------------------------------------------------------
(* The queue is at least as long as what RunCallbacks has still to do.     *)
LEMMA QueueGrows ==
    ASSUME TypeInv, NEW c \in Conns, NEW st \in Alive,
           queue' = Append(queue, [conn |-> c, state |-> st])
    PROVE  /\ queue' \in Seq(Event)
           /\ Len(queue') = Len(queue) + 1
           /\ ToSet(queue') = ToSet(queue) \cup {[conn |-> c, state |-> st]}
<1>1. [conn |-> c, state |-> st] \in Event /\ queue \in Seq(Event)
  BY DEF TypeInv, TypeOK, ConnectionsTypeOK, Event
<1> QED BY <1>1, AppendPosts, Zenon

LEMMA QueueShrinks ==
    ASSUME TypeInv, left > 0, queue' = Tail(queue)
    PROVE  /\ queue' \in Seq(Event)
           /\ Len(queue') = Len(queue) - 1
           /\ Head(queue) \in Event /\ Head(queue) \in ToSet(queue)
           /\ ToSet(queue) = ToSet(queue') \cup {Head(queue)}
<1>1. queue \in Seq(Event) /\ Len(queue) \in Nat /\ left \in Nat /\ left <= Len(queue)
  BY DEF TypeInv, TypeOK, ThreadOK, ConnectionsTypeOK
<1>2. Len(queue) > 0
  BY <1>1
<1>3. /\ Tail(queue) \in Seq(Event)
      /\ Len(Tail(queue)) = Len(queue) - 1
      /\ Head(queue) \in Event
      /\ ToSet(queue) = ToSet(Tail(queue)) \cup {Head(queue)}
  BY <1>1, <1>2, TailUnposts, Zenon
<1> QED BY <1>3, Zenon

LEMMA QueueType == TypeInv => queue \in Seq(Event) /\ Len(queue) \in Nat
  BY DEF TypeInv, TypeOK, ConnectionsTypeOK

-----------------------------------------------------------------------------
THEOREM TypeInit == Init => TypeInv
<1> SUFFICES ASSUME Init PROVE TypeInv
  OBVIOUS
<1>1. queue = <<>> /\ queue \in Seq(Event) /\ Len(queue) = 0
  BY DEF Init, ConnectionsInit
<1>2. ToSet(queue) = {}
  BY <1>1 DEF ToSet
<1>3. ConnectionsTypeOK /\ SocketsTypeOK
  BY <1>1 DEF Init, ConnectionsInit, SocketsInit, ConnectionsTypeOK, SocketsTypeOK, States
<1> QED
  BY <1>1, <1>2, <1>3 DEF Init, ConnectionsInit, SocketsInit, TypeInv, TypeOK, ThreadOK,
     HandedOut, Posted, Callbacks

(* The service thread only adds to the queue.                              *)
LEMMA TypeServiceThread ==
    ASSUME TypeInv, ServiceThread, UNCHANGED serverVars
    PROVE  TypeInv'
<1> USE DEF TypeInv, TypeOK, ThreadOK, HandedOut, ConnectionsTypeOK, SocketsTypeOK,
        Posted, serverVars, objectVars, threadVars, historyVars, socketVars
<1>1. PICK c \in Conns :
        \/ PeerConnects(c)
        \/ Ends(c) /\ UNCHANGED socketVars
        \/ MessageArrives(c) /\ UNCHANGED socketVars
  BY DEF ServiceThread
<1>2. CASE PeerConnects(c)
  <2>1. /\ queue' \in Seq(Event) /\ Len(queue') = Len(queue) + 1
        /\ ToSet(queue') = ToSet(queue) \cup {[conn |-> c, state |-> "Connecting"]}
    BY <1>2, QueueGrows DEF PeerConnects, Created, Alive
  <2>2. ConnectionsTypeOK' /\ SocketsTypeOK'
    BY <1>2, <2>1 DEF PeerConnects, Created, States, Alive
  <2>3. TypeOK' /\ ThreadOK'
    BY <1>2, <2>1, <2>2, QueueType, SMTT(30) DEF PeerConnects
  <2>4. /\ state[c] = "Free"
        /\ state' = [state EXCEPT ![c] = "Connecting"]
        /\ \E k \in Sockets : parent' = [parent EXCEPT ![c] = k]
    BY <1>2 DEF PeerConnects, Created
  <2>5. HandedOut'
    BY <1>2, <2>1, <2>2, <2>4, SMTT(30) DEF PeerConnects, States, Alive
  <2> QED BY <2>3, <2>5
<1>3. CASE Ends(c) /\ UNCHANGED socketVars
  <2>1. PICK st \in Ended :
          /\ state' = [state EXCEPT ![c] = st]
          /\ queue' = Append(queue, [conn |-> c, state |-> st])
    BY <1>3 DEF Ends
  <2>2. /\ queue' \in Seq(Event) /\ Len(queue') = Len(queue) + 1
        /\ ToSet(queue') = ToSet(queue) \cup {[conn |-> c, state |-> st]}
    BY <2>1, QueueGrows DEF Alive
  <2>3. st \in States \ {"Free"} /\ state[c] # "Free"
    BY <1>3 DEF Ends, Ended, States, Alive
  <2>4. ConnectionsTypeOK' /\ HandedOut'
    BY <1>3, <2>1, <2>2, <2>3, SMTT(30) DEF Ends
  <2>5. TypeOK' /\ ThreadOK'
    BY <1>3, <2>2, <2>4, QueueType, SMTT(30) DEF Ends
  <2> QED BY <2>4, <2>5
<1>4. CASE MessageArrives(c) /\ UNCHANGED socketVars
  <2>1. inbox' \in [Conns -> Nat] /\ sent' \in [Conns -> Nat]
    BY <1>4, SMTT(30) DEF MessageArrives
  <2>2. TypeOK'
    BY <1>4, <2>1, SMTT(30) DEF MessageArrives
  <2>3. ThreadOK'
    BY <1>4 DEF MessageArrives
  <2>4. UNCHANGED <<state, queue, parent, clients, accepting, pc, hConn>>
    BY <1>4 DEF MessageArrives
  <2> QED BY <2>2, <2>3, <2>4
<1> QED BY <1>1, <1>2, <1>3, <1>4

(* Closing connections that exist makes no handle free again.              *)
LEMMA TypeClosed ==
    ASSUME TypeInv, NEW C \in SUBSET Conns, \A c \in C : state[c] # "Free", Closed(C)
    PROVE  /\ state' \in [Conns -> States] /\ inbox' \in [Conns -> Nat]
           /\ \A c \in Conns : state'[c] = "Free" <=> state[c] = "Free"
  BY DEF TypeInv, TypeOK, ConnectionsTypeOK, Closed, States

LEMMA OwnConnectionsExist ==
    ASSUME TypeInv, NEW s \in Servers
    PROVE  /\ OwnConnections(s) \in SUBSET Conns
           /\ \A c \in OwnConnections(s) : state[c] # "Free"
  BY DEF TypeInv, TypeOK, SocketsTypeOK, HandedOut, OwnConnections, Children

LEMMA TypeDestroyed ==
    ASSUME TypeInv, NEW s \in Servers
    PROVE  /\ Destroyed(s) \in [Sockets \cup Groups -> {"free", "open", "closed"}]
           /\ Erased(s) \in [Sockets -> Servers \cup {Invalid}]
  BY DEF TypeInv, TypeOK, SocketsTypeOK, Destroyed, Erased

(* What Start and Stop have in common.                                     *)
LEMMA TypeBecomes ==
    ASSUME TypeInv, NEW s \in Servers, UNCHANGED threadVars, UNCHANGED historyVars,
           NEW k \in Sockets \cup {Invalid}, NEW g \in Groups \cup {Invalid},
           Becomes(s, k, g), UNCHANGED <<listener, accepting>>,
           handle' \in [Sockets \cup Groups -> {"free", "open", "closed"}],
           globalServerRegistry' \in [Sockets -> Servers \cup {Invalid}]
    PROVE  TypeInv'
<1> DEFINE C == OwnConnections(s)
<1>1. /\ C \in SUBSET Conns /\ \A c \in C : state[c] # "Free"
      /\ Closed(C)
  BY OwnConnectionsExist DEF Becomes
<1>2. /\ state' \in [Conns -> States] /\ inbox' \in [Conns -> Nat]
      /\ \A c \in Conns : state'[c] = "Free" <=> state[c] = "Free"
  BY <1>1, TypeClosed
<1>3. ConnectionsTypeOK' /\ SocketsTypeOK' /\ TypeOK'
  BY <1>2 DEF TypeInv, TypeOK, ConnectionsTypeOK, SocketsTypeOK, Becomes, threadVars,
     historyVars
<1>4. ThreadOK'
  BY DEF TypeInv, ThreadOK, Becomes, threadVars
<1>5. /\ \A r \in Servers : clients'[r] \in {clients[r], {}}
      /\ UNCHANGED <<queue, parent, accepting, pc, hConn>>
  BY DEF TypeInv, TypeOK, Becomes, threadVars
<1>6. HandedOut'
  <2>1. /\ \A c \in Conns : parent'[c] = Invalid <=> state'[c] = "Free"
        /\ \A c \in Conns, st \in Alive : Posted(c, st)' => state'[c] # "Free"
    BY <1>2, <1>5 DEF TypeInv, HandedOut, Posted
  <2>2. \A r \in Servers : \A c \in clients'[r] : state'[c] # "Free"
    BY <1>2, <1>5 DEF TypeInv, TypeOK, HandedOut
  <2>3. /\ \A r \in Servers : accepting'[r] # Invalid => state'[accepting'[r]] # "Free"
        /\ pc' = "OnConnectionRequest" => state'[hConn'] # "Free"
    <3>1. \A r \in Servers : accepting[r] # Invalid => accepting[r] \in Conns
      BY DEF TypeInv, TypeOK
    <3>2. pc = "OnConnectionRequest" => hConn \in Conns
      BY DEF TypeInv, ThreadOK, Callbacks
    <3> QED BY <1>2, <1>5, <3>1, <3>2 DEF TypeInv, HandedOut
  <2> QED BY <2>1, <2>2, <2>3 DEF HandedOut
<1> QED BY <1>3, <1>4, <1>6 DEF TypeInv

LEMMA TypeStartStop ==
    ASSUME TypeInv, NEW s \in Servers, UNCHANGED threadVars,
           Start(s) \/ StartWithoutSocket(s) \/ StartWithoutPollGroup(s) \/ Stop(s),
           UNCHANGED <<listener, accepting, historyVars>>
    PROVE  TypeInv'
<1>1. ASSUME Stop(s) PROVE TypeInv'
  BY <1>1, TypeBecomes, TypeDestroyed DEF Stop
<1>2. CASE Start(s)
  <2>1. PICK k \in Fresh(Sockets), g \in Fresh(Groups) :
          /\ Becomes(s, k, g)
          /\ handle' = [Destroyed(s) EXCEPT ![k] = "open", ![g] = "open"]
          /\ globalServerRegistry' = [Erased(s) EXCEPT ![k] = s]
    BY <1>2 DEF Start
  <2>2. /\ k \in Sockets /\ g \in Groups
        /\ handle' \in [Sockets \cup Groups -> {"free", "open", "closed"}]
        /\ globalServerRegistry' \in [Sockets -> Servers \cup {Invalid}]
    BY <2>1, TypeDestroyed DEF Fresh
  <2> QED BY <2>1, <2>2, TypeBecomes
<1>3. CASE StartWithoutPollGroup(s)
  <2>1. PICK k \in Fresh(Sockets) :
          /\ Becomes(s, Invalid, Invalid)
          /\ handle' = [Destroyed(s) EXCEPT ![k] = "closed"]
          /\ globalServerRegistry' = Erased(s)
    BY <1>3 DEF StartWithoutPollGroup
  <2>2. /\ handle' \in [Sockets \cup Groups -> {"free", "open", "closed"}]
        /\ globalServerRegistry' \in [Sockets -> Servers \cup {Invalid}]
    BY <2>1, TypeDestroyed DEF Fresh
  <2> QED BY <2>1, <2>2, TypeBecomes
<1> QED BY <1>1, <1>2, <1>3 DEF StartWithoutSocket
LEMMA TypeClients ==
    ASSUME TypeInv, AppRuns, NEW s \in Servers, NEW c \in Conns, UNCHANGED threadVars,
           AcceptClient(s, c) \/ AcceptRefused(s, c) \/ RemoveClient(s, c),
           UNCHANGED listener
    PROVE  TypeInv'
<1> USE DEF TypeInv, TypeOK, ConnectionsTypeOK, SocketsTypeOK, threadVars, socketVars,
        objectVars, historyVars
<1>1. CASE AcceptClient(s, c)
  <2>1. /\ queue' \in Seq(Event) /\ Len(queue') = Len(queue) + 1
        /\ ToSet(queue') = ToSet(queue) \cup {[conn |-> c, state |-> "Connected"]}
    BY <1>1, QueueGrows DEF AcceptClient, Established, Alive
  <2>2. accepting' = [accepting EXCEPT ![s] = c]
    BY <1>1 DEF AcceptClient
  <2>3. TypeOK'
    BY <1>1, <2>1, <2>2 DEF AcceptClient, Established, States, Alive
  <2>4. ThreadOK'
    BY <1>1, <2>1, <2>2, QueueType DEF AcceptClient, ThreadOK, Callbacks, AppRuns
  <2>5. HandedOut'
    BY <1>1, <2>1 DEF AcceptClient, Established, HandedOut, Posted, Callbacks
  <2> QED BY <2>3, <2>4, <2>5
<1>2. ASSUME Closed({c}), state[c] # "Free"
      PROVE  /\ state' \in [Conns -> States] /\ inbox' \in [Conns -> Nat]
             /\ \A d \in Conns : state'[d] = "Free" <=> state[d] = "Free"
  BY <1>2, TypeClosed
<1>3. CASE AcceptRefused(s, c)
  <2>1. TypeOK' /\ ThreadOK'
    BY <1>2, <1>3 DEF AcceptRefused, MayAccept, MayName, ThreadOK, Callbacks
  <2>2. HandedOut'
    BY <1>2, <1>3, SMTT(30) DEF AcceptRefused, MayAccept, MayName, HandedOut, Posted,
       ThreadOK, Callbacks
  <2> QED BY <2>1, <2>2
<1>4. CASE RemoveClient(s, c)
  <2>1. state[c] # "Free"
    BY <1>4 DEF RemoveClient, HandedOut
  <2>2. TypeOK' /\ ThreadOK'
    BY <1>2, <1>4, <2>1 DEF RemoveClient, Dropped, ThreadOK, Callbacks
  <2>3. HandedOut'
    BY <1>2, <1>4, <2>1, SMTT(30)
    DEF RemoveClient, Dropped, HandedOut, Posted, ThreadOK, Callbacks
  <2> QED BY <2>2, <2>3
<1> QED BY <1>1, <1>3, <1>4

(* What is left of an AcceptClient.                                        *)
LEMMA TypeInsideAccept ==
    ASSUME TypeInv, InsideAccept
    PROVE  TypeInv'
<1> USE DEF TypeInv, TypeOK, ConnectionsTypeOK, SocketsTypeOK, threadVars, socketVars,
        objectVars, historyVars, connVars
<1>1. PICK s \in Servers : EnterPollGroup(s) \/ AcceptUndone(s) \/ AcceptDone(s)
  BY DEF InsideAccept
<1>2. UNCHANGED <<listener, threadVars>>
  BY DEF InsideAccept
<1> DEFINE c == accepting[s]
<1>3. c \in Conns /\ state[c] # "Free"
  BY <1>1 DEF EnterPollGroup, AcceptUndone, AcceptDone, HandedOut
<1>4. CASE EnterPollGroup(s)
  BY <1>2, <1>4 DEF EnterPollGroup, ThreadOK, HandedOut, Posted, Callbacks
<1>5. CASE AcceptUndone(s)
  <2>1. /\ state' \in [Conns -> States] /\ inbox' \in [Conns -> Nat]
        /\ \A d \in Conns : state'[d] = "Free" <=> state[d] = "Free"
    BY <1>3, <1>5, TypeClosed DEF AcceptUndone
  <2>2. TypeOK' /\ ThreadOK'
    BY <1>2, <1>5, <2>1, SMTT(30) DEF AcceptUndone, ThreadOK, Callbacks
  <2>3. HandedOut'
    BY <1>2, <1>5, <2>1, SMTT(30)
       DEF AcceptUndone, HandedOut, Posted, ThreadOK, Callbacks
  <2> QED BY <2>2, <2>3
<1>6. CASE AcceptDone(s)
  <2>1. TypeOK' /\ ThreadOK'
    BY <1>2, <1>3, <1>6 DEF AcceptDone, ThreadOK, Callbacks
  <2>2. HandedOut'
    BY <1>2, <1>3, <1>6 DEF AcceptDone, HandedOut, Posted, ThreadOK, Callbacks
  <2> QED BY <2>1, <2>2
<1> QED BY <1>1, <1>4, <1>5, <1>6

LEMMA TypeAppCalls ==
    ASSUME TypeInv, AppCalls
    PROVE  TypeInv'
<1>1. PICK s \in Servers :
        \/ /\ Start(s) \/ StartWithoutSocket(s) \/ StartWithoutPollGroup(s) \/ Stop(s)
           /\ UNCHANGED <<listener, accepting, historyVars>>
        \/ /\ \E c \in Conns : \/ AcceptClient(s, c) \/ AcceptRefused(s, c)
                               \/ RemoveClient(s, c)
           /\ UNCHANGED listener
        \/ \E l \in BOOLEAN : SetListener(s, l)
  BY DEF AppCalls
<1>2. AppRuns /\ UNCHANGED threadVars
  BY DEF AppCalls
<1>3. ASSUME NEW l \in BOOLEAN, SetListener(s, l) PROVE TypeInv'
  BY <1>2, <1>3 DEF SetListener, TypeInv, TypeOK, ThreadOK, HandedOut, Posted, ConnectionsTypeOK,
     SocketsTypeOK, Callbacks, threadVars, connVars, socketVars, objectVars, historyVars
<1> QED BY <1>1, <1>2, <1>3, TypeStartStop, TypeClients

-----------------------------------------------------------------------------
(* The first change in the queue, when RunCallbacks takes it.              *)
LEMMA EventTaken ==
    ASSUME TypeInv, NEW sts, TakeEvent(sts)
    PROVE  /\ Head(queue).conn \in Conns /\ Head(queue).state \in Alive
           /\ state[Head(queue).conn] # "Free"
           /\ parent[Head(queue).conn] \in Sockets
           /\ ServerOf(Head(queue).conn) \in Servers \cup {Invalid}
           /\ queue' \in Seq(Event) /\ Len(queue') = Len(queue) - 1
           /\ ToSet(queue) = ToSet(queue') \cup {Head(queue)}
           /\ left' \in Nat /\ left' <= Len(queue')
<1>1. /\ queue' \in Seq(Event)
      /\ Len(queue') = Len(queue) - 1
      /\ Head(queue) \in Event /\ Head(queue) \in ToSet(queue)
      /\ ToSet(queue) = ToSet(queue') \cup {Head(queue)}
  BY QueueShrinks DEF TakeEvent
<1>2. /\ Head(queue).conn \in Conns /\ Head(queue).state \in Alive
      /\ Head(queue) = [conn |-> Head(queue).conn, state |-> Head(queue).state]
  BY <1>1 DEF Event
<1>3. Posted(Head(queue).conn, Head(queue).state)
  BY <1>1, <1>2 DEF Posted
<1>4. state[Head(queue).conn] # "Free"
  BY <1>2, <1>3 DEF TypeInv, HandedOut
<1>5. parent[Head(queue).conn] \in Sockets
  BY <1>2, <1>4 DEF TypeInv, HandedOut, TypeOK, SocketsTypeOK
<1>6. ServerOf(Head(queue).conn) \in Servers \cup {Invalid}
  BY <1>5 DEF TypeInv, TypeOK, ServerOf
<1>7. left' \in Nat /\ left' <= Len(queue')
  BY <1>1, QueueType DEF TakeEvent, TypeInv, TypeOK, ThreadOK
<1> QED BY <1>1, <1>2, <1>4, <1>5, <1>6, <1>7
LEMMA TypeStaticCallback ==
    ASSUME TypeInv, StaticCallback
    PROVE  TypeInv'
<1> DEFINE c == Head(queue).conn
           s == ServerOf(c)
<1> USE DEF TypeInv, TypeOK, ConnectionsTypeOK, SocketsTypeOK, socketVars, objectVars,
        historyVars
<1>1. CASE CallbackIgnores
  <2>1. /\ queue' \in Seq(Event) /\ Len(queue') = Len(queue) - 1
        /\ ToSet(queue) = ToSet(queue') \cup {Head(queue)}
        /\ left' \in Nat /\ left' <= Len(queue')
    BY <1>1, EventTaken DEF CallbackIgnores
  <2>2. TypeOK' /\ ThreadOK'
    BY <1>1, <2>1 DEF CallbackIgnores, TakeEvent, ThreadOK, Callbacks
  <2>3. HandedOut'
    BY <1>1, <2>1 DEF CallbackIgnores, TakeEvent, ThreadOK, HandedOut, Posted, Callbacks
  <2> QED BY <2>2, <2>3
<1>2. ASSUME NEW C \in SUBSET {c}, Closed(C), state[c] # "Free", c \in Conns
      PROVE  /\ state' \in [Conns -> States] /\ inbox' \in [Conns -> Nat]
             /\ \A d \in Conns : state'[d] = "Free" <=> state[d] = "Free"
  BY <1>2, TypeClosed
<1>3. CASE CallbackConnecting
  <2>1. /\ c \in Conns /\ state[c] # "Free" /\ s \in Servers
        /\ queue' \in Seq(Event) /\ Len(queue') = Len(queue) - 1
        /\ ToSet(queue) = ToSet(queue') \cup {Head(queue)}
        /\ left' \in Nat /\ left' <= Len(queue')
    BY <1>3, EventTaken DEF CallbackConnecting, Handled
  <2>2. CASE listener[s]
    <3>1. /\ pc' = "OnConnectionRequest" /\ server' = s /\ hConn' = c
          /\ UNCHANGED <<state, inbox>>
      BY <1>3, <2>2 DEF CallbackConnecting
    <3>2. TypeOK' /\ ThreadOK'
      BY <1>3, <2>1, <3>1 DEF CallbackConnecting, TakeEvent, ThreadOK, Callbacks
    <3>3. HandedOut'
      BY <1>3, <2>1, <3>1 DEF CallbackConnecting, TakeEvent, HandedOut, Posted
    <3> QED BY <3>2, <3>3
  <2>3. CASE ~ listener[s]
    <3>1. CloseUnlessClient(s, c) /\ UNCHANGED <<pc, server, hConn>>
      BY <1>3, <2>3 DEF CallbackConnecting
    <3>2. /\ state' \in [Conns -> States] /\ inbox' \in [Conns -> Nat]
          /\ \A d \in Conns : state'[d] = "Free" <=> state[d] = "Free"
      BY <1>2, <2>1, <3>1 DEF CloseUnlessClient
    <3>3. TypeOK' /\ ThreadOK'
      BY <1>3, <2>1, <3>1, <3>2 DEF CallbackConnecting, TakeEvent, ThreadOK, Callbacks
    <3>4. HandedOut'
      BY <1>3, <2>1, <3>1, <3>2 DEF CallbackConnecting, TakeEvent, HandedOut, Posted,
         ThreadOK, Callbacks
    <3> QED BY <3>3, <3>4
  <2> QED BY <2>2, <2>3
<1>4. CASE CallbackClosed
  <2>1. /\ c \in Conns /\ state[c] # "Free" /\ s \in Servers
        /\ queue' \in Seq(Event) /\ Len(queue') = Len(queue) - 1
        /\ ToSet(queue) = ToSet(queue') \cup {Head(queue)}
        /\ left' \in Nat /\ left' <= Len(queue')
    BY <1>4, EventTaken DEF CallbackClosed, Handled
  <2>2. /\ Closed({c})
        /\ clients' = [clients EXCEPT ![s] = @ \ {c}]
        /\ \/ /\ pc' = "OnDisconnect" /\ server' = s /\ hConn' = c
              /\ gone' = gone \cup {c}
           \/ UNCHANGED <<pc, server, hConn, gone>>
    BY <1>4 DEF CallbackClosed, Dropped
  <2>3. /\ state' \in [Conns -> States] /\ inbox' \in [Conns -> Nat]
        /\ \A d \in Conns : state'[d] = "Free" <=> state[d] = "Free"
    BY <1>2, <2>1, <2>2
  <2>4. TypeOK'
    BY <1>4, <2>1, <2>2, <2>3, SMTT(30) DEF CallbackClosed, TakeEvent, Callbacks
  <2>5. ThreadOK'
    BY <1>4, <2>1, <2>2 DEF CallbackClosed, TakeEvent, ThreadOK, Callbacks
  <2>6. HandedOut'
    BY <1>4, <2>1, <2>2, <2>3, SMTT(30) DEF CallbackClosed, TakeEvent, HandedOut, Posted,
       ThreadOK, Callbacks
  <2> QED BY <2>4, <2>5, <2>6
<1> QED BY <1>1, <1>3, <1>4 DEF StaticCallback
-----------------------------------------------------------------------------
LEMMA TypeReturns ==
    ASSUME TypeInv, ListenerReturns
    PROVE  TypeInv'
<1> USE DEF TypeInv, TypeOK, ConnectionsTypeOK, SocketsTypeOK, socketVars, objectVars,
        historyVars, Return, Callbacks
<1>1. CASE ReturnFromConnectionRequest
  <2>1. hConn \in Conns /\ state[hConn] # "Free" /\ CloseUnlessClient(server, hConn)
    BY <1>1 DEF ReturnFromConnectionRequest, ThreadOK, HandedOut
  <2>2. /\ state' \in [Conns -> States] /\ inbox' \in [Conns -> Nat]
        /\ \A d \in Conns : state'[d] = "Free" <=> state[d] = "Free"
    BY <2>1, TypeClosed DEF CloseUnlessClient
  <2>3. TypeOK'
    BY <1>1, <2>2 DEF ReturnFromConnectionRequest
  <2>4. ThreadOK'
    BY <1>1 DEF ReturnFromConnectionRequest, ThreadOK, AppRuns
  <2>5. HandedOut'
    BY <1>1, <2>2 DEF ReturnFromConnectionRequest, HandedOut, Posted
  <2> QED BY <2>3, <2>4, <2>5
<1>2. ASSUME ReturnFromDisconnect \/ ReturnFromMessage PROVE TypeInv'
  <2>1. TypeOK'
    BY <1>2 DEF ReturnFromDisconnect, ReturnFromMessage
  <2>2. ThreadOK'
    BY <1>2 DEF ReturnFromDisconnect, ReturnFromMessage, ThreadOK, AppRuns
  <2>3. HandedOut'
    BY <1>2 DEF ReturnFromDisconnect, ReturnFromMessage, HandedOut, Posted
  <2> QED BY <2>1, <2>2, <2>3
<1> QED BY <1>1, <1>2 DEF ListenerReturns

(* Entering and leaving RunCallbacks and Update.                           *)
LEMMA TypeUpdate ==
    ASSUME TypeInv,
           \/ \E s \in Servers \cup {Invalid} : EnterCallbacks(s)
           \/ \E s \in Servers : UpdateWithoutCallbacks(s)
           \/ CallbacksDone
    PROVE  TypeInv'
<1> USE DEF TypeInv, TypeOK, ConnectionsTypeOK, SocketsTypeOK, connVars, socketVars,
        objectVars, historyVars, Callbacks
<1>1. ASSUME NEW s \in Servers \cup {Invalid}, EnterCallbacks(s) PROVE TypeInv'
  <2>1. TypeOK' /\ ThreadOK'
    BY <1>1, QueueType DEF EnterCallbacks, AppRuns, ThreadOK
  <2> QED BY <1>1, <2>1 DEF EnterCallbacks, HandedOut, Posted
<1>2. ASSUME NEW s \in Servers, UpdateWithoutCallbacks(s) PROVE TypeInv'
  <2>1. TypeOK' /\ ThreadOK'
    BY <1>2 DEF UpdateWithoutCallbacks, AppRuns, ThreadOK
  <2> QED BY <1>2, <2>1 DEF UpdateWithoutCallbacks, HandedOut, Posted
<1>3. CASE CallbacksDone
  <2>1. TypeOK' /\ ThreadOK'
    BY <1>3 DEF CallbacksDone, ThreadOK
  <2> QED BY <1>3, <2>1 DEF CallbacksDone, HandedOut, Posted
<1> QED BY <1>1, <1>2, <1>3

LEMMA TypeReceiveLoop ==
    ASSUME TypeInv, ReceiveLoop
    PROVE  TypeInv'
<1> USE DEF TypeInv, TypeOK, ConnectionsTypeOK, SocketsTypeOK, connVars, socketVars,
        objectVars, historyVars, ThreadOK, HandedOut, Posted, Callbacks
<1>1. CASE Receive
  <2>1. PICK f \in [Conns -> 0 .. MaxMsgs] :
          /\ \A c \in Conns : f[c] <= Unread(pollGroup[updating])[c]
          /\ incomingMsgs' = f
          /\ inbox' = [c \in Conns |-> inbox[c] - f[c]]
    BY <1>1 DEF Receive
  <2>2. \A c \in Conns : inbox[c] \in Nat /\ f[c] \in Nat /\ f[c] <= inbox[c]
    BY <2>1 DEF Unread, Pending
  <2>3. inbox' \in [Conns -> Nat] /\ incomingMsgs' \in [Conns -> Nat]
    BY <2>1, <2>2
  <2>4. TypeOK'
    BY <1>1, <2>3 DEF Receive
  <2>5. ThreadOK'
    BY <1>1 DEF Receive
  <2>6. UNCHANGED <<state, queue, parent, clients, accepting, pc, hConn>>
    BY <1>1 DEF Receive
  <2> QED BY <2>4, <2>5, <2>6
<1>2. CASE ReceiveNothing
  BY <1>2 DEF ReceiveNothing
<1>3. CASE ReceiveFails
  BY <1>3 DEF ReceiveFails
<1>4. CASE UpdateThrows
  <2>1. updating \in Servers /\ Becomes(updating, Invalid, Invalid)
    BY <1>4 DEF UpdateThrows, Stop
  <2>2. /\ OwnConnections(updating) \in SUBSET Conns
        /\ \A c \in OwnConnections(updating) : state[c] # "Free"
        /\ Closed(OwnConnections(updating))
    BY <2>1, OwnConnectionsExist DEF Becomes
  <2>3. /\ state' \in [Conns -> States] /\ inbox' \in [Conns -> Nat]
        /\ \A d \in Conns : state'[d] = "Free" <=> state[d] = "Free"
    BY <2>2, TypeClosed
  <2>7. ConnectionsTypeOK'
    BY <1>4, <2>1, <2>3 DEF UpdateThrows, Stop, Becomes
  <2>9. handle' = Destroyed(updating) /\ UNCHANGED <<parent, group>>
    BY <1>4 DEF UpdateThrows, Stop, Becomes
  <2>8. SocketsTypeOK'
    BY <2>1, <2>9, TypeDestroyed
  <2>4. ConnectionsTypeOK' /\ SocketsTypeOK'
    BY <2>7, <2>8
  <2>5. TypeOK'
    BY <1>4, <2>1, <2>4, TypeDestroyed DEF UpdateThrows, Stop, Becomes
  <2>6. ThreadOK' /\ HandedOut'
    BY <1>4, <2>1, <2>3 DEF UpdateThrows, Stop, Becomes
  <2> QED BY <2>5, <2>6
<1>5. CASE Deliver
  <2>1. PICK c \in Conns :
        /\ incomingMsgs[c] > 0
        /\ incomingMsgs' = [incomingMsgs EXCEPT ![c] = @ - 1]
        /\ \/ pc' = "OnMessageReceived" /\ server' = updating /\ hConn' = c
           \/ UNCHANGED <<pc, server, hConn>>
    BY <1>5 DEF Deliver
  <2>2. incomingMsgs' \in [Conns -> Nat]
    BY <2>1
  <2>3. TypeOK'
    BY <1>5, <2>1, <2>2, SMTT(30) DEF Deliver
  <2>4. ThreadOK'
    BY <1>5, <2>1 DEF Deliver
  <2>5. HandedOut'
    BY <1>5, <2>1, SMTT(30) DEF Deliver
  <2> QED BY <2>3, <2>4, <2>5
<1> QED BY <1>1, <1>2, <1>3, <1>4, <1>5 DEF ReceiveLoop

-----------------------------------------------------------------------------
(* The steps of the specification, sorted the way the lemmas are.          *)
LEMMA NextCases ==
    ASSUME Next
    PROVE  \/ ServiceThread /\ UNCHANGED serverVars
           \/ AppCalls
           \/ InsideAccept
           \/ \E s \in Servers \cup {Invalid} : EnterCallbacks(s)
           \/ \E s \in Servers : UpdateWithoutCallbacks(s)
           \/ CallbacksDone
           \/ StaticCallback
           \/ ListenerReturns
           \/ ReceiveLoop
  BY Zenon DEF Next, RunCallbacks, Update, Library

THEOREM TypeStep == TypeInv /\ [Next]_vars => TypeInv'
<1> SUFFICES ASSUME TypeInv, [Next]_vars PROVE TypeInv'
  OBVIOUS
<1>1. CASE Next
  BY <1>1, NextCases, TypeServiceThread, TypeAppCalls, TypeInsideAccept, TypeUpdate,
     TypeStaticCallback, TypeReturns, TypeReceiveLoop
<1>2. CASE UNCHANGED vars
  BY <1>2 DEF TypeInv, TypeOK, ThreadOK, HandedOut, Posted, ConnectionsTypeOK, SocketsTypeOK,
     vars, connVars, socketVars, serverVars, objectVars, threadVars, historyVars, Callbacks
<1> QED BY <1>1, <1>2

(* Every variable keeps its type, whatever the service thread, the         *)
(* application and its listeners do.                                       *)
THEOREM TypeCorrect == Spec => []TypeOK
<1>1. Spec => []TypeInv
  BY TypeInit, TypeStep, PTL DEF Spec
<1>2. TypeInv => TypeOK
  BY DEF TypeInv
<1> QED BY <1>1, <1>2, PTL
-----------------------------------------------------------------------------
(* The handles of servers and the registry.  Only Start and Stop touch     *)
(* them, so the proof is about those; everything else is a stutter here.   *)
HandleInv == RegistryMatchesSockets /\ HandlesHeldOnce

handleVars == <<handle, socket, pollGroup, globalServerRegistry>>

LEMMA HeldByOne ==
    ASSUME HandlesHeldOnce, NEW s \in Servers, NEW r \in Servers, r # s,
           NEW h \in {socket[s], pollGroup[s]}, h # Invalid
    PROVE  h # socket[r] /\ h # pollGroup[r]
<1>1. {r, s} \subseteq Servers /\ {socket[s], pollGroup[s]} \cap {socket[r], pollGroup[r]} \subseteq {Invalid}
  BY DEF HandlesHeldOnce
<1> QED BY <1>1

(* A fresh handle is nobody's.                                             *)
LEMMA FreshIsUnheld ==
    ASSUME HandlesHeldOnce, NEW h \in Fresh(Sockets) \cup Fresh(Groups), NEW s \in Servers
    PROVE  h # socket[s] /\ h # pollGroup[s] /\ h # Invalid
  BY DEF HandlesHeldOnce, Fresh

(* Server s gives up its handles and takes k and g, both fresh or none.    *)
HandlesMove(s, k, g) ==
    /\ k = Invalid <=> g = Invalid
    /\ \A h \in {k, g} \ {Invalid} : \A r \in Servers : h # socket[r] /\ h # pollGroup[r]
    /\ socket' = [socket EXCEPT ![s] = k]
    /\ pollGroup' = [pollGroup EXCEPT ![s] = g]
    /\ \A h \in Sockets \cup Groups :
          handle'[h] = "open" <=> \/ h \in {k, g}
                                  \/ handle[h] = "open" /\ h \notin {socket[s], pollGroup[s]}
    /\ \A j \in Sockets :
          globalServerRegistry'[j] = IF j = k THEN s ELSE Erased(s)[j]

LEMMA HandlesBecome ==
    ASSUME TypeInv, HandleInv, NEW s \in Servers,
           NEW k \in Sockets \cup {Invalid}, NEW g \in Groups \cup {Invalid},
           HandlesMove(s, k, g)
    PROVE  HandleInv'
<1> USE DEF TypeInv, TypeOK, SocketsTypeOK, HandlesMove
<1>1. RegistryMatchesSockets'
  <2> SUFFICES ASSUME NEW j \in Sockets, NEW r \in Servers
               PROVE  (globalServerRegistry[j] = r <=> socket[r] = j)'
    BY Zenon DEF RegistryMatchesSockets
  <2>1. /\ globalServerRegistry[j] = r <=> socket[r] = j
        /\ globalServerRegistry[j] = s <=> socket[s] = j
    BY DEF HandleInv, RegistryMatchesSockets
  <2>2. j = k => r = s \/ socket[r] # j
    OBVIOUS
  <2>3. socket'[r] = IF r = s THEN k ELSE socket[r]
    OBVIOUS
  <2>4. globalServerRegistry'[j] =
          IF j = k THEN s
          ELSE IF j = socket[s] THEN Invalid ELSE globalServerRegistry[j]
    BY Zenon DEF Erased
  <2> QED BY <2>1, <2>2, <2>3, <2>4
<1>2. \A r \in Servers : (socket[r] = Invalid <=> pollGroup[r] = Invalid)'
  BY DEF HandleInv, HandlesHeldOnce
<1>3. ASSUME NEW h \in Sockets \cup Groups
      PROVE  (handle[h] = "open" <=> \E r \in Servers : h \in {socket[r], pollGroup[r]})'
  <2>1. handle[h] = "open" <=> \E r \in Servers : h = socket[r] \/ h = pollGroup[r]
    BY DEF HandleInv, HandlesHeldOnce
  <2>2. h \in {socket[s], pollGroup[s]} =>
          \A r \in Servers : r # s => h # socket[r] /\ h # pollGroup[r]
    BY HeldByOne DEF HandleInv
  <2>3. \A r \in Servers : r # s => socket'[r] = socket[r] /\ pollGroup'[r] = pollGroup[r]
    OBVIOUS
  <2>4. socket'[s] = k /\ pollGroup'[s] = g
    OBVIOUS
  <2> QED BY <2>1, <2>2, <2>3, <2>4
<1>4. ASSUME NEW q \in Servers, NEW r \in Servers, q # r
      PROVE  ({socket[q], pollGroup[q]} \cap {socket[r], pollGroup[r]} \subseteq {Invalid})'
  <2>1. {socket[q], pollGroup[q]} \cap {socket[r], pollGroup[r]} \subseteq {Invalid}
    BY <1>4 DEF HandleInv, HandlesHeldOnce
  <2> QED BY <1>4, <2>1
<1>5. HandlesHeldOnce'
  BY <1>2, <1>3, <1>4, Zenon DEF HandlesHeldOnce
<1> QED BY <1>1, <1>5 DEF HandleInv

LEMMA HandlesStop ==
    ASSUME TypeInv, HandleInv, NEW s \in Servers, Stop(s)
    PROVE  HandleInv'
<1>1. /\ handle' = Destroyed(s) /\ globalServerRegistry' = Erased(s)
      /\ socket' = [socket EXCEPT ![s] = Invalid]
      /\ pollGroup' = [pollGroup EXCEPT ![s] = Invalid]
  BY DEF Stop, Becomes
<1>2. \A h \in Sockets \cup Groups :
        handle'[h] = "open" <=> \/ h \in {Invalid, Invalid}
                                \/ handle[h] = "open" /\ h \notin {socket[s], pollGroup[s]}
  BY <1>1 DEF Destroyed
<1>3. \A j \in Sockets : globalServerRegistry'[j] = IF j = Invalid THEN s ELSE Erased(s)[j]
  BY <1>1
<1>4. \A h \in {Invalid, Invalid} \ {Invalid} :
        \A r \in Servers : h # socket[r] /\ h # pollGroup[r]
  OBVIOUS
<1>5. Invalid \in Sockets \cup {Invalid} /\ Invalid \in Groups \cup {Invalid}
  OBVIOUS
<1>6. HandlesMove(s, Invalid, Invalid)
  BY <1>1, <1>2, <1>3, <1>4 DEF HandlesMove
<1> QED BY <1>5, <1>6, HandlesBecome

LEMMA HandlesStart ==
    ASSUME TypeInv, HandleInv, NEW s \in Servers, Start(s)
    PROVE  HandleInv'
<1>1. PICK k \in Fresh(Sockets), g \in Fresh(Groups) :
        /\ handle' = [Destroyed(s) EXCEPT ![k] = "open", ![g] = "open"]
        /\ globalServerRegistry' = [Erased(s) EXCEPT ![k] = s]
        /\ socket' = [socket EXCEPT ![s] = k]
        /\ pollGroup' = [pollGroup EXCEPT ![s] = g]
  BY DEF Start, Becomes
<1>2. /\ k \in Sockets /\ g \in Groups /\ k # Invalid /\ g # Invalid
      /\ \A r \in Servers : k \notin {socket[r], pollGroup[r]} /\ g \notin {socket[r], pollGroup[r]}
  BY FreshIsUnheld DEF Fresh, HandleInv
<1>3. \A h \in Sockets \cup Groups :
        handle'[h] = "open" <=> \/ h \in {k, g}
                                \/ handle[h] = "open" /\ h \notin {socket[s], pollGroup[s]}
  BY <1>1, <1>2 DEF Destroyed
<1>4. \A j \in Sockets : globalServerRegistry'[j] = IF j = k THEN s ELSE Erased(s)[j]
  BY <1>1 DEF Erased
<1>5. \A h \in {k, g} \ {Invalid} : \A r \in Servers : h # socket[r] /\ h # pollGroup[r]
  BY <1>2
<1>6. k \in Sockets \cup {Invalid} /\ g \in Groups \cup {Invalid}
  BY <1>2
<1>7. k = Invalid <=> g = Invalid
  BY <1>2
<1>8. /\ socket' = [socket EXCEPT ![s] = k]
      /\ pollGroup' = [pollGroup EXCEPT ![s] = g]
  BY <1>1
<1>9. HandlesMove(s, k, g)
  BY <1>3, <1>4, <1>5, <1>7, <1>8 DEF HandlesMove
<1> QED BY <1>6, <1>9, HandlesBecome

LEMMA HandlesStartWithoutPollGroup ==
    ASSUME TypeInv, HandleInv, NEW s \in Servers, StartWithoutPollGroup(s)
    PROVE  HandleInv'
<1>1. PICK k \in Fresh(Sockets) :
        /\ handle' = [Destroyed(s) EXCEPT ![k] = "closed"]
        /\ globalServerRegistry' = Erased(s)
        /\ socket' = [socket EXCEPT ![s] = Invalid]
        /\ pollGroup' = [pollGroup EXCEPT ![s] = Invalid]
  BY DEF StartWithoutPollGroup, Becomes
<1>2. handle[k] = "free"
  BY DEF Fresh
<1>3. \A h \in Sockets \cup Groups :
        handle'[h] = "open" <=> \/ h \in {Invalid, Invalid}
                                \/ handle[h] = "open" /\ h \notin {socket[s], pollGroup[s]}
  BY <1>1, <1>2 DEF Destroyed
<1>4. \A j \in Sockets : globalServerRegistry'[j] = IF j = Invalid THEN s ELSE Erased(s)[j]
  BY <1>1
<1>5. \A h \in {Invalid, Invalid} \ {Invalid} :
        \A r \in Servers : h # socket[r] /\ h # pollGroup[r]
  OBVIOUS
<1>6. Invalid \in Sockets \cup {Invalid} /\ Invalid \in Groups \cup {Invalid}
  OBVIOUS
<1>7. HandlesMove(s, Invalid, Invalid)
  BY <1>1, <1>3, <1>4, <1>5 DEF HandlesMove
<1> QED BY <1>6, <1>7, HandlesBecome

(* Which steps do touch them.                                              *)
LEMMA HandleSteps ==
    ASSUME [Next]_vars
    PROVE  \/ \E s \in Servers : Start(s) \/ StartWithoutPollGroup(s)
           \/ \E s \in Servers : Stop(s)
           \/ UpdateThrows
           \/ UNCHANGED handleVars
<1> USE DEF handleVars, socketVars, objectVars, serverVars
<1>1. CASE ServiceThread /\ UNCHANGED serverVars
  BY <1>1 DEF ServiceThread, PeerConnects
<1>2. CASE AppCalls
  <2>1. PICK s \in Servers :
          \/ Start(s) \/ StartWithoutSocket(s) \/ StartWithoutPollGroup(s) \/ Stop(s)
          \/ \E c \in Conns : \/ AcceptClient(s, c) \/ AcceptRefused(s, c)
                              \/ RemoveClient(s, c)
          \/ \E l \in BOOLEAN : SetListener(s, l)
    BY <1>2 DEF AppCalls
  <2> QED BY <2>1 DEF StartWithoutSocket, AcceptClient, AcceptRefused, RemoveClient,
             SetListener
<1>3. ASSUME NEW s \in Servers \cup {Invalid}, EnterCallbacks(s) PROVE UNCHANGED handleVars
  BY <1>3 DEF EnterCallbacks
<1>4. ASSUME NEW s \in Servers, UpdateWithoutCallbacks(s) PROVE UNCHANGED handleVars
  BY <1>4 DEF UpdateWithoutCallbacks
<1>5. CASE CallbacksDone
  BY <1>5 DEF CallbacksDone
<1>6. CASE StaticCallback
  BY <1>6 DEF StaticCallback, CallbackIgnores, CallbackConnecting, CallbackClosed, TakeEvent
<1>7. CASE ListenerReturns
  BY <1>7 DEF ListenerReturns, ReturnFromConnectionRequest, ReturnFromDisconnect,
     ReturnFromMessage, Return
<1>8. CASE ReceiveLoop
  BY <1>8 DEF ReceiveLoop, Receive, ReceiveNothing, ReceiveFails, Deliver
<1>9. CASE UNCHANGED vars
  BY <1>9 DEF vars
<1>10. CASE InsideAccept
  BY <1>10 DEF InsideAccept, EnterPollGroup, AcceptUndone, AcceptDone
<1> QED BY <1>1, <1>2, <1>3, <1>4, <1>5, <1>6, <1>7, <1>8, <1>9, <1>10, NextCases

THEOREM HandlesStep == TypeInv /\ HandleInv /\ [Next]_vars => HandleInv'
<1> SUFFICES ASSUME TypeInv, HandleInv, [Next]_vars PROVE HandleInv'
  OBVIOUS
<1>1. CASE UpdateThrows
  BY <1>1, HandlesStop DEF UpdateThrows, TypeInv, ThreadOK
<1>2. CASE UNCHANGED handleVars
  BY <1>2 DEF handleVars, HandleInv, RegistryMatchesSockets, HandlesHeldOnce
<1> QED BY <1>1, <1>2, HandleSteps, HandlesStop, HandlesStart, HandlesStartWithoutPollGroup

LEMMA HandlesInit == Init => HandleInv
<1> SUFFICES ASSUME Init PROVE HandleInv
  OBVIOUS
<1>1. RegistryMatchesSockets
  BY DEF Init, RegistryMatchesSockets
<1>2. HandlesHeldOnce
  BY DEF Init, SocketsInit, HandlesHeldOnce
<1> QED BY <1>1, <1>2 DEF HandleInv

LEMMA TypeHandleInvariant == Spec => [](TypeInv /\ HandleInv)
  BY TypeInit, TypeStep, HandlesInit, HandlesStep, PTL DEF Spec

(* The static registry leads from a listen socket to the server that holds *)
(* it, and to no other (Server.cpp 67, 100, 115, 263).                     *)
THEOREM RegistryCorrect == Spec => []RegistryMatchesSockets
<1>1. TypeInv /\ HandleInv => RegistryMatchesSockets
  BY DEF HandleInv
<1> QED BY <1>1, TypeHandleInvariant, PTL

(* No listen socket and no poll group is leaked, not even by a Start that  *)
(* fails half-way, and none is shared (Server.cpp 41 to 67, 103 to 125).   *)
THEOREM HandlesCorrect == Spec => []HandlesHeldOnce
<1>1. TypeInv /\ HandleInv => HandlesHeldOnce
  BY DEF HandleInv
<1> QED BY <1>1, TypeHandleInvariant, PTL
-----------------------------------------------------------------------------
(* Connections.  The three invariants of Server need five more: nobody but *)
(* a client, or who is half accepted, is connected or has mail; who is     *)
(* half accepted is alive on the socket of the server that accepts it, and *)
(* not yet a client; nobody is in a poll group before that; and a listener *)
(* is asked about a connection of its own server, until that is closed.    *)
ConnectedIsClient ==
    \A c \in Conns : state[c] = "Connected" =>
        \E s \in Servers : c \in clients[s] \/ accepting[s] = c

MailOfClients ==
    \A c \in Conns : inbox[c] > 0 =>
        \E s \in Servers : c \in clients[s] \/ accepting[s] = c

AcceptingOwn ==
    \A s \in Servers : accepting[s] # Invalid =>
        /\ IsRunning(s)
        /\ state[accepting[s]] \in {"Connected"} \cup Ended
        /\ parent[accepting[s]] = socket[s]
        /\ group[accepting[s]] \in {Invalid, pollGroup[s]}
        /\ accepting[s] \notin clients[s]

Ungrouped ==
    \A c \in Conns : state[c] \in {"Free", "Connecting"} => group[c] = Invalid

AskedOwn ==
    pc = "OnConnectionRequest" /\ state[hConn] \in Alive => parent[hConn] = socket[server]

ConnInv ==
    /\ TrackedClientIsLive /\ NoLeakedConnection /\ EndedIsPosted
    /\ ConnectedIsClient /\ MailOfClients /\ AcceptingOwn /\ Ungrouped /\ AskedOwn

Inv == TypeInv /\ HandleInv /\ ConnInv

(* The set C of connections is closed and leaves the clients and those     *)
(* half accepted; a server that keeps a connection keeps its handles; a    *)
(* request or an end that is posted stays posted until it is dealt with.   *)
(* Nearly every step is of this form, most of them with C = {}.            *)
Closing(C) ==
    /\ \A c \in Conns : state'[c] = IF c \in C THEN "None" ELSE state[c]
    /\ \A c \in Conns : inbox'[c] > 0 => c \notin C /\ inbox[c] > 0
    /\ \A s \in Servers :
        /\ clients'[s] = clients[s] \ C
        /\ accepting'[s] = IF accepting[s] \in C THEN Invalid ELSE accepting[s]
    /\ parent' = parent /\ group' = group

KeepsHandles(C) ==
    \A s \in Servers : \A c \in Conns \ C :
        parent[c] = socket[s] /\ state[c] \in Alive =>
            socket'[s] = socket[s] /\ pollGroup'[s] = pollGroup[s]

KeepsPosts(C) ==
    \A c \in Conns \ C, st \in {"Connecting"} \cup Ended :
        state[c] \in Alive /\ Posted(c, st) =>
            \/ Posted(c, st)'
            \/ st = "Connecting" /\ pc' = "OnConnectionRequest" /\ hConn' = c
            \/ st = "Connecting" /\ \E s \in Servers : c \in clients[s]

KeepsAsking(C) ==
    \A c \in Conns \ C :
        pc = "OnConnectionRequest" /\ hConn = c =>
            \/ pc' = "OnConnectionRequest" /\ hConn' = c
            \/ \E s \in Servers : c \in clients[s]

AsksOwn ==
    pc' = "OnConnectionRequest" =>
        \/ UNCHANGED <<pc, server, hConn>>
        \/ server' \in Servers /\ hConn' \in Conns /\ parent[hConn'] = socket[server']

LEMMA ConnClosing ==
    ASSUME TypeInv, ConnInv, NEW C \in SUBSET Conns,
           Closing(C), KeepsHandles(C), KeepsPosts(C), KeepsAsking(C), AsksOwn
    PROVE  ConnInv'
<1>1. \A s \in Servers : clients[s] \subseteq Conns
  BY DEF TypeInv, TypeOK
<1>2. \A s \in Servers : \A c \in clients[s] :
        state[c] \in Alive /\ parent[c] = socket[s] /\ group[c] = pollGroup[s]
  BY DEF ConnInv, TrackedClientIsLive, Alive
<1>0. \A s \in Servers : accepting[s] # Invalid =>
        accepting[s] \in Conns /\ state[accepting[s]] \in Alive
            /\ parent[accepting[s]] = socket[s]
  BY DEF ConnInv, AcceptingOwn, Alive, TypeInv, TypeOK
<1>3. TrackedClientIsLive'
  <2> SUFFICES ASSUME NEW s \in Servers, NEW c \in clients'[s]
               PROVE  (/\ IsRunning(s)
                       /\ state[c] \in {"Connected"} \cup Ended
                       /\ parent[c] = socket[s] /\ group[c] = pollGroup[s])'
    BY Zenon DEF TrackedClientIsLive
  <2>1. c \in clients[s] /\ c \in Conns /\ c \notin C
    BY <1>1 DEF Closing
  <2>2. /\ socket'[s] = socket[s] /\ pollGroup'[s] = pollGroup[s]
        /\ state'[c] = state[c] /\ parent' = parent /\ group' = group
    BY <1>2, <2>1 DEF Closing, KeepsHandles
  <2> QED BY <2>1, <2>2 DEF ConnInv, TrackedClientIsLive, IsRunning
<1>4. NoLeakedConnection'
  <2> SUFFICES ASSUME NEW c \in Conns, state'[c] \in Alive
               PROVE  (\E s \in Servers :
                        /\ parent[c] = socket[s]
                        /\ \/ c \in clients[s]
                           \/ accepting[s] = c
                           \/ Posted(c, "Connecting")
                           \/ pc = "OnConnectionRequest" /\ hConn = c)'
    BY Zenon DEF NoLeakedConnection
  <2>1. c \notin C /\ state[c] \in Alive
    BY DEF Closing, Alive, Ended
  <2>2. PICK s \in Servers : /\ parent[c] = socket[s]
                             /\ \/ c \in clients[s]
                                \/ accepting[s] = c
                                \/ Posted(c, "Connecting")
                                \/ pc = "OnConnectionRequest" /\ hConn = c
    BY <2>1 DEF ConnInv, NoLeakedConnection
  <2>3. ASSUME NEW r \in Servers, parent[c] = socket[r]
        PROVE  /\ (parent[c] = socket[r])' /\ clients'[r] = clients[r] \ C
               /\ accepting[r] = c => accepting'[r] = c
    BY <2>1, <2>3 DEF Closing, KeepsHandles
  <2>4. CASE \E r \in Servers : c \in clients[r] \/ accepting[r] = c
    BY <1>0, <1>2, <2>1, <2>3, <2>4
  <2>5. CASE ~ \E r \in Servers : c \in clients[r] \/ accepting[r] = c
    <3>1. \/ Posted(c, "Connecting")'
          \/ pc' = "OnConnectionRequest" /\ hConn' = c
      BY <2>1, <2>2, <2>5 DEF KeepsPosts, KeepsAsking, AsksOwn
    <3> QED BY <2>2, <2>3, <3>1
  <2> QED BY <2>4, <2>5
<1>5. EndedIsPosted'
  <2> SUFFICES ASSUME NEW c \in Conns, state'[c] \in Ended
               PROVE  Posted(c, state[c])'
    BY Zenon DEF EndedIsPosted
  <2>1. c \notin C /\ state'[c] = state[c] /\ state[c] \in Alive
    BY DEF Closing, Alive, Ended
  <2>2. Posted(c, state[c]) /\ state[c] \in Ended
    BY <2>1 DEF ConnInv, EndedIsPosted
  <2>3. Posted(c, state[c])' \/ state[c] = "Connecting"
    BY <2>1, <2>2 DEF KeepsPosts, Posted
  <2> QED BY <2>1, <2>2, <2>3 DEF Ended
<1>6. ConnectedIsClient'
  <2> SUFFICES ASSUME NEW c \in Conns, state'[c] = "Connected"
               PROVE  \E s \in Servers : c \in clients'[s] \/ accepting'[s] = c
    BY Zenon DEF ConnectedIsClient
  <2>1. c \notin C /\ state[c] = "Connected"
    BY DEF Closing
  <2> QED BY <2>1 DEF ConnInv, ConnectedIsClient, Closing
<1>7. MailOfClients'
  <2> SUFFICES ASSUME NEW c \in Conns, inbox'[c] > 0
               PROVE  \E s \in Servers : c \in clients'[s] \/ accepting'[s] = c
    BY Zenon DEF MailOfClients
  <2>1. c \notin C /\ inbox[c] > 0
    BY DEF Closing
  <2> QED BY <2>1 DEF ConnInv, MailOfClients, Closing
<1>9. AcceptingOwn'
  <2> SUFFICES ASSUME NEW s \in Servers, accepting'[s] # Invalid
               PROVE  (/\ IsRunning(s)
                       /\ state[accepting[s]] \in {"Connected"} \cup Ended
                       /\ parent[accepting[s]] = socket[s]
                       /\ group[accepting[s]] \in {Invalid, pollGroup[s]}
                       /\ accepting[s] \notin clients[s])'
    BY Zenon DEF AcceptingOwn
  <2> DEFINE c == accepting[s]
  <2>1. accepting'[s] = c /\ c # Invalid /\ c \notin C /\ c \in Conns
    BY <1>0 DEF Closing
  <2>2. /\ socket'[s] = socket[s] /\ pollGroup'[s] = pollGroup[s]
        /\ state'[c] = state[c] /\ parent' = parent /\ group' = group
        /\ clients'[s] = clients[s] \ C
    BY <1>0, <2>1 DEF Closing, KeepsHandles
  <2> QED BY <2>1, <2>2 DEF ConnInv, AcceptingOwn, IsRunning
<1>10. Ungrouped'
  BY DEF ConnInv, Ungrouped, Closing
<1>8. AskedOwn'
  <2> SUFFICES ASSUME pc' = "OnConnectionRequest", state'[hConn'] \in Alive
               PROVE  parent'[hConn'] = socket'[server']
    BY Zenon DEF AskedOwn
  <2>1. /\ server' \in Servers /\ hConn' \in Conns
        /\ state[hConn'] \in Alive => parent[hConn'] = socket[server']
    BY DEF AsksOwn, TypeInv, ThreadOK, Callbacks, ConnInv, AskedOwn
  <2>2. hConn' \notin C /\ state[hConn'] \in Alive
    BY <2>1 DEF Closing, Alive, Ended
  <2> QED BY <2>1, <2>2 DEF KeepsHandles, Closing
<1> QED BY <1>3, <1>4, <1>5, <1>6, <1>7, <1>8, <1>9, <1>10 DEF ConnInv

LEMMA ConnInit == Init => ConnInv
<1> SUFFICES ASSUME Init PROVE ConnInv
  OBVIOUS
<1>1. /\ \A c \in Conns : state[c] = "Free" /\ inbox[c] = 0 /\ group[c] = Invalid
      /\ \A s \in Servers : clients[s] = {} /\ accepting[s] = Invalid
  BY DEF Init, ConnectionsInit, SocketsInit
<1> QED BY <1>1 DEF ConnInv, TrackedClientIsLive, NoLeakedConnection, EndedIsPosted,
           ConnectedIsClient, MailOfClients, AcceptingOwn, Ungrouped, AskedOwn, Init,
           Alive, Ended

(* A connection that was asked about by nobody yet is no client.           *)
LEMMA ConnServiceThread ==
    ASSUME Inv, ServiceThread, UNCHANGED serverVars
    PROVE  ConnInv'
<1> USE DEF Inv, ConnInv, serverVars, objectVars, threadVars, socketVars
<1>0. TypeOK /\ queue \in Seq(Event)
  BY QueueType DEF TypeInv
<1>1. PICK c \in Conns :
        \/ PeerConnects(c)
        \/ Ends(c) /\ UNCHANGED socketVars
        \/ MessageArrives(c) /\ UNCHANGED socketVars
  BY DEF ServiceThread
<1>2. CASE PeerConnects(c)
  <2>1. /\ state[c] = "Free" /\ state' = [state EXCEPT ![c] = "Connecting"]
        /\ UNCHANGED <<inbox, group>>
        /\ ToSet(queue') = ToSet(queue) \cup {[conn |-> c, state |-> "Connecting"]}
    BY <1>2, QueueGrows DEF PeerConnects, Created, Alive
  <2>2. PICK k \in Sockets : handle[k] = "open" /\ parent' = [parent EXCEPT ![c] = k]
    BY <1>2 DEF PeerConnects
  <2>3. PICK s \in Servers : socket[s] = k
    BY <1>0, <2>2 DEF HandleInv, HandlesHeldOnce, TypeOK
  <2>4. \A r \in Servers : c \notin clients[r] /\ accepting[r] # c
    BY <2>1 DEF TypeInv, HandedOut, TypeOK
  <2>5. TrackedClientIsLive'
    BY <1>0, <2>1, <2>2, <2>4 DEF TrackedClientIsLive, IsRunning, TypeOK, SocketsTypeOK,
       ConnectionsTypeOK
  <2>10. AcceptingOwn'
    BY <1>0, <2>1, <2>2, <2>4 DEF AcceptingOwn, IsRunning, TypeOK, SocketsTypeOK,
       ConnectionsTypeOK
  <2>11. Ungrouped'
    BY <1>0, <2>1 DEF Ungrouped, TypeOK, ConnectionsTypeOK
  <2>6. NoLeakedConnection'
    <3> SUFFICES ASSUME NEW d \in Conns, state'[d] \in Alive
                 PROVE  (\E r \in Servers :
                          /\ parent[d] = socket[r]
                          /\ \/ d \in clients[r]
                             \/ accepting[r] = d
                             \/ Posted(d, "Connecting")
                             \/ pc = "OnConnectionRequest" /\ hConn = d)'
      BY Zenon DEF NoLeakedConnection
    <3>1. CASE d = c
      BY <1>0, <2>1, <2>2, <2>3, <3>1 DEF Posted, TypeOK, SocketsTypeOK
    <3>2. CASE d # c
      BY <1>0, <2>1, <2>2, <3>2 DEF NoLeakedConnection, Posted, TypeOK, SocketsTypeOK,
         ConnectionsTypeOK
    <3> QED BY <3>1, <3>2
  <2>7. EndedIsPosted'
    BY <1>0, <2>1 DEF EndedIsPosted, Posted, Ended, TypeOK, ConnectionsTypeOK
  <2>8. ConnectedIsClient' /\ MailOfClients'
    BY <1>0, <2>1 DEF ConnectedIsClient, MailOfClients, TypeOK, ConnectionsTypeOK
  <2>9. AskedOwn'
    <3>1. pc = "OnConnectionRequest" => hConn # c /\ hConn \in Conns
      BY <2>1 DEF TypeInv, ThreadOK, HandedOut, Callbacks
    <3> QED BY <1>0, <2>1, <2>2, <3>1 DEF AskedOwn, TypeOK, ConnectionsTypeOK, SocketsTypeOK
  <2> QED BY <2>5, <2>6, <2>7, <2>8, <2>9, <2>10, <2>11
<1>3. CASE Ends(c) /\ UNCHANGED socketVars
  <2>1. PICK st \in Ended :
          /\ state[c] \in {"Connecting", "Connected"}
          /\ state' = [state EXCEPT ![c] = st]
          /\ queue' = Append(queue, [conn |-> c, state |-> st])
          /\ inbox' = inbox
    BY <1>3 DEF Ends
  <2>2. ToSet(queue') = ToSet(queue) \cup {[conn |-> c, state |-> st]}
    BY <2>1, QueueGrows DEF Alive
  <2>3. TrackedClientIsLive'
    BY <1>0, <1>3, <2>1 DEF TrackedClientIsLive, IsRunning, TypeOK, ConnectionsTypeOK
  <2>4. NoLeakedConnection'
    BY <1>0, <1>3, <2>1, <2>2 DEF NoLeakedConnection, Posted, TypeOK, ConnectionsTypeOK,
       Alive
  <2>5. EndedIsPosted'
    BY <1>0, <2>1, <2>2 DEF EndedIsPosted, Posted, TypeOK, ConnectionsTypeOK
  <2>6. ConnectedIsClient' /\ MailOfClients'
    BY <1>0, <2>1 DEF ConnectedIsClient, MailOfClients, Ended, TypeOK, ConnectionsTypeOK
  <2>7. AskedOwn'
    BY <1>0, <1>3, <2>1 DEF AskedOwn, TypeInv, ThreadOK, Callbacks, TypeOK, ConnectionsTypeOK,
       Alive
  <2>8. AcceptingOwn' /\ Ungrouped'
    BY <1>0, <1>3, <2>1 DEF AcceptingOwn, Ungrouped, IsRunning, Ended, TypeOK,
       ConnectionsTypeOK
  <2> QED BY <2>3, <2>4, <2>5, <2>6, <2>7, <2>8
<1>4. CASE MessageArrives(c) /\ UNCHANGED socketVars
  <2>1. /\ state[c] = "Connected" /\ inbox' = [inbox EXCEPT ![c] = @ + 1]
        /\ UNCHANGED <<state, queue, socketVars, objectVars, accepting, pc, server, hConn>>
    BY <1>4 DEF MessageArrives
  <2>2. MailOfClients'
    BY <1>0, <2>1 DEF ConnectedIsClient, MailOfClients, TypeOK, ConnectionsTypeOK
  <2>3. /\ TrackedClientIsLive' /\ NoLeakedConnection' /\ EndedIsPosted'
        /\ ConnectedIsClient' /\ AcceptingOwn' /\ Ungrouped' /\ AskedOwn'
    BY <2>1 DEF TrackedClientIsLive, IsRunning, NoLeakedConnection, EndedIsPosted,
       Posted, ConnectedIsClient, AcceptingOwn, Ungrouped, AskedOwn
  <2> QED BY <2>2, <2>3
<1> QED BY <1>1, <1>2, <1>3, <1>4

LEMMA ConnAccept ==
    ASSUME Inv, AppRuns, NEW s \in Servers, NEW c \in Conns, AcceptClient(s, c),
           UNCHANGED threadVars
    PROVE  ConnInv'
<1> USE DEF Inv, ConnInv, threadVars
<1>0. TypeOK /\ queue \in Seq(Event)
  BY QueueType DEF TypeInv
<1>1. /\ state[c] = "Connecting" /\ IsRunning(s) /\ parent[c] = socket[s]
      /\ state' = [state EXCEPT ![c] = "Connected"]
      /\ accepting' = [accepting EXCEPT ![s] = c]
      /\ \A r \in Servers : accepting[r] = Invalid
      /\ UNCHANGED <<inbox, clients, parent, group, socket, pollGroup>>
  BY DEF AcceptClient, MayAccept, MayName, Established, AppRuns, socketVars, objectVars
<1>2. ToSet(queue') = ToSet(queue) \cup {[conn |-> c, state |-> "Connected"]}
  BY QueueGrows DEF AcceptClient, Established, Alive
<1>3. \A r \in Servers : c \notin clients[r]
  BY <1>1 DEF TrackedClientIsLive, Ended
<1>4. TrackedClientIsLive'
  BY <1>0, <1>1, <1>3 DEF TrackedClientIsLive, IsRunning, TypeOK, ConnectionsTypeOK, SocketsTypeOK
<1>5. NoLeakedConnection'
  <2> SUFFICES ASSUME NEW d \in Conns, state'[d] \in Alive
               PROVE  (\E r \in Servers :
                        /\ parent[d] = socket[r]
                        /\ \/ d \in clients[r]
                           \/ accepting[r] = d
                           \/ Posted(d, "Connecting")
                           \/ pc = "OnConnectionRequest" /\ hConn = d)'
    BY Zenon DEF NoLeakedConnection
  <2>1. CASE d = c
    BY <1>0, <1>1, <2>1 DEF TypeOK
  <2>2. CASE d # c
    <3>1. PICK r \in Servers : /\ parent[d] = socket[r]
                               /\ \/ d \in clients[r]
                                  \/ Posted(d, "Connecting")
                                  \/ pc = "OnConnectionRequest" /\ hConn = d
      BY <1>0, <1>1, <2>2 DEF NoLeakedConnection, TypeOK, ConnectionsTypeOK
    <3> QED BY <1>1, <1>2, <3>1 DEF Posted
  <2> QED BY <2>1, <2>2
<1>6. EndedIsPosted'
  BY <1>0, <1>1, <1>2 DEF EndedIsPosted, Posted, Ended, TypeOK, ConnectionsTypeOK
<1>7. ConnectedIsClient' /\ MailOfClients'
  BY <1>0, <1>1 DEF ConnectedIsClient, MailOfClients, TypeOK, ConnectionsTypeOK
<1>8. AskedOwn'
  BY <1>0, <1>1 DEF AskedOwn, TypeInv, ThreadOK, Callbacks, TypeOK, ConnectionsTypeOK, Alive
<1>9. AcceptingOwn' /\ Ungrouped'
  BY <1>0, <1>1, <1>3 DEF AcceptingOwn, Ungrouped, IsRunning, TypeOK, ConnectionsTypeOK
<1> QED BY <1>4, <1>5, <1>6, <1>7, <1>8, <1>9
-----------------------------------------------------------------------------
(* A step that closes nothing, drops nobody and loses no news.             *)
LEMMA ConnIdle ==
    ASSUME Inv,
           \A c \in Conns : inbox'[c] > 0 => inbox[c] > 0,
           UNCHANGED <<state, queue, clients, accepting, parent, group, socket, pollGroup>>,
           UNCHANGED <<pc, server, hConn>> \/ "OnConnectionRequest" \notin {pc, pc'}
    PROVE  ConnInv'
<1>1. Closing({})
  BY DEF Closing
<1>2. KeepsHandles({}) /\ KeepsPosts({}) /\ KeepsAsking({}) /\ AsksOwn
  BY DEF KeepsHandles, KeepsPosts, KeepsAsking, AsksOwn, Posted
<1> QED BY <1>1, <1>2, ConnClosing DEF Inv

(* A client of one server is a client of no other, so taking the clients   *)
(* in C from one of them takes them from all.                              *)
LEMMA OneServer ==
    ASSUME Inv, NEW s \in Servers, NEW r \in Servers, NEW c \in Conns,
           c \in clients[r], parent[c] = socket[s]
    PROVE  r = s
<1>1. parent[c] = socket[r] /\ socket[r] # Invalid
  BY DEF Inv, ConnInv, TrackedClientIsLive, IsRunning
<1>2. socket[r] \in Sockets
  BY <1>1 DEF Inv, TypeInv, TypeOK
<1>3. globalServerRegistry[socket[r]] = r /\ globalServerRegistry[socket[r]] = s
  BY <1>1, <1>2 DEF Inv, HandleInv, RegistryMatchesSockets
<1> QED BY <1>3

(* No AcceptClient has begun, and none begins in this step.                *)
NobodyIsAccepted ==
    (\A s \in Servers : accepting[s] = Invalid) /\ UNCHANGED accepting

(* Start and Stop close what is on their listen socket and clear clients.  *)
LEMMA ConnBecomes ==
    ASSUME Inv, NEW s \in Servers, NEW k, NEW g, Becomes(s, k, g), NobodyIsAccepted,
           UNCHANGED <<pc, server, hConn>> \/ "OnConnectionRequest" \notin {pc, pc'}
    PROVE  ConnInv'
<1> DEFINE C == OwnConnections(s)
<1> USE DEF Inv
<1>0. TypeOK
  BY DEF TypeInv
<1>1. /\ C \in SUBSET Conns
      /\ \A c \in Conns : c \in C <=> socket[s] # Invalid /\ parent[c] = socket[s]
  BY <1>0 DEF OwnConnections, Children, ConnInv, TrackedClientIsLive, IsRunning, TypeOK
<1>2. /\ Closed(C) /\ parent' = parent /\ group' = group /\ queue' = queue
      /\ clients' = [clients EXCEPT ![s] = {}]
      /\ socket' = [socket EXCEPT ![s] = k] /\ pollGroup' = [pollGroup EXCEPT ![s] = g]
  BY DEF Becomes
<1>3. \A r \in Servers : clients'[r] = clients[r] \ C
  <2> SUFFICES ASSUME NEW r \in Servers PROVE clients'[r] = clients[r] \ C
    OBVIOUS
  <2>1. clients[r] \subseteq Conns
    BY <1>0 DEF TypeOK
  <2>2. CASE r = s
    <3>1. \A c \in clients[s] : socket[s] # Invalid /\ parent[c] = socket[s]
      BY DEF ConnInv, TrackedClientIsLive, IsRunning
    <3> QED BY <1>0, <1>1, <1>2, <2>1, <2>2, <3>1 DEF TypeOK
  <2>3. CASE r # s
    <3>1. \A c \in clients[r] : c \notin C
      BY <1>1, <2>1, <2>3, OneServer
    <3> QED BY <1>0, <1>2, <2>3, <3>1 DEF TypeOK
  <2> QED BY <2>2, <2>3
<1>4. Closing(C)
  BY <1>1, <1>2, <1>3 DEF Closing, Closed, NobodyIsAccepted
<1>5. KeepsHandles(C)
  <2>1. \A c \in Conns : state[c] \in Alive => parent[c] # Invalid
    BY DEF TypeInv, HandedOut, Alive, Ended
  <2> QED BY <1>0, <1>1, <1>2, <2>1 DEF KeepsHandles, TypeOK
<1>6. KeepsPosts(C) /\ KeepsAsking(C) /\ AsksOwn
  BY <1>2 DEF KeepsPosts, KeepsAsking, AsksOwn, Posted
<1> QED BY <1>1, <1>4, <1>5, <1>6, ConnClosing

LEMMA UnacceptedIsNoClient ==
    ASSUME Inv, NEW s \in Servers, NEW c \in Conns, MayAccept(s, c)
    PROVE  \A r \in Servers : c \notin clients[r]
<1> SUFFICES ASSUME NEW r \in Servers, c \in clients[r] PROVE FALSE
  OBVIOUS
<1>1. state[c] # "None"
  BY DEF Inv, ConnInv, TrackedClientIsLive, Ended
<1>2. parent[c] = socket[s] /\ c \notin clients[s]
  BY <1>1 DEF MayAccept, MayName
<1>3. r = s
  BY <1>2, OneServer
<1> QED BY <1>2, <1>3

LEMMA ConnAppCalls ==
    ASSUME Inv, AppCalls
    PROVE  ConnInv'
<1> USE DEF Inv, socketVars, objectVars, threadVars
<1>0. TypeOK /\ UNCHANGED threadVars /\ AppRuns
  BY DEF TypeInv, AppCalls
<1>1. ASSUME NEW s \in Servers, Start(s) \/ StartWithoutPollGroup(s) \/ Stop(s),
             UNCHANGED accepting
      PROVE  ConnInv'
  <2>1. PICK k, g : Becomes(s, k, g)
    BY <1>1, Zenon DEF Start, StartWithoutPollGroup, Stop
  <2>2. NobodyIsAccepted
    BY <1>0, <1>1 DEF NobodyIsAccepted, AppRuns
  <2> QED BY <1>0, <2>1, <2>2, ConnBecomes
<1>2. ASSUME NEW s \in Servers, NEW c \in Conns, AcceptRefused(s, c)
      PROVE  ConnInv'
  <2>1. /\ Closed({c}) /\ MayAccept(s, c) /\ NobodyIsAccepted
        /\ UNCHANGED <<queue, parent, group, clients, socket, pollGroup>>
    BY <1>0, <1>2 DEF AcceptRefused, NobodyIsAccepted, AppRuns
  <2>2. \A r \in Servers : c \notin clients[r]
    BY <2>1, UnacceptedIsNoClient
  <2>3. Closing({c})
    BY <2>1, <2>2 DEF Closing, Closed, NobodyIsAccepted
  <2>5. KeepsHandles({c}) /\ KeepsPosts({c}) /\ KeepsAsking({c}) /\ AsksOwn
    BY <1>0, <2>1 DEF KeepsHandles, KeepsPosts, KeepsAsking, AsksOwn, Posted
  <2> QED BY <2>3, <2>5, ConnClosing
<1>3. ASSUME NEW s \in Servers, NEW c \in Conns, RemoveClient(s, c)
      PROVE  ConnInv'
  <2>1. /\ c \in clients[s] /\ Closed({c}) /\ NobodyIsAccepted
        /\ clients' = [clients EXCEPT ![s] = @ \ {c}]
        /\ UNCHANGED <<parent, group, queue, socket, pollGroup>>
    BY <1>0, <1>3 DEF RemoveClient, Dropped, NobodyIsAccepted, AppRuns
  <2>2. parent[c] = socket[s]
    BY <2>1 DEF ConnInv, TrackedClientIsLive
  <2>3. \A r \in Servers : clients'[r] = clients[r] \ {c}
    BY <1>0, <2>1, <2>2, OneServer DEF TypeOK
  <2>4. Closing({c})
    BY <2>1, <2>3 DEF Closing, Closed, NobodyIsAccepted
  <2>5. KeepsHandles({c}) /\ KeepsPosts({c}) /\ KeepsAsking({c}) /\ AsksOwn
    BY <1>0, <2>1 DEF KeepsHandles, KeepsPosts, KeepsAsking, AsksOwn, Posted
  <2> QED BY <2>4, <2>5, ConnClosing
<1>4. ASSUME NEW s \in Servers, NEW l \in BOOLEAN, SetListener(s, l)
      PROVE  ConnInv'
  BY <1>0, <1>4, ConnIdle DEF SetListener, connVars
<1>5. ASSUME NEW s \in Servers, NEW c \in Conns, AcceptClient(s, c)
      PROVE  ConnInv'
  BY <1>0, <1>5, ConnAccept
<1> QED BY <1>1, <1>2, <1>3, <1>4, <1>5, Zenon DEF AppCalls, StartWithoutSocket

(* What is left of an AcceptClient: it enters the poll group, is closed if *)
(* it cannot, and becomes a client.                                        *)
LEMMA ConnInsideAccept ==
    ASSUME Inv, InsideAccept
    PROVE  ConnInv'
<1> USE DEF Inv, ConnInv, connVars, socketVars, objectVars, threadVars
<1>0. TypeOK /\ UNCHANGED threadVars
  BY DEF TypeInv, InsideAccept
<1>1. PICK s \in Servers : EnterPollGroup(s) \/ AcceptUndone(s) \/ AcceptDone(s)
  BY DEF InsideAccept
<1> DEFINE c == accepting[s]
<1>2. /\ c # Invalid /\ c \in Conns
      /\ IsRunning(s) /\ state[c] \in {"Connected"} \cup Ended
      /\ parent[c] = socket[s] /\ group[c] \in {Invalid, pollGroup[s]}
      /\ c \notin clients[s]
  BY <1>0, <1>1 DEF EnterPollGroup, AcceptUndone, AcceptDone, AcceptingOwn, TypeOK
<1>3. \A r \in Servers : c \notin clients[r]
  BY <1>2, OneServer
<1>4. \A r \in Servers \ {s} : accepting[r] = Invalid
  BY <1>2 DEF TypeInv, ThreadOK
<1>5. CASE EnterPollGroup(s)
  <2>1. /\ group' = [group EXCEPT ![c] = pollGroup[s]]
        /\ UNCHANGED <<state, queue, inbox, clients, accepting, parent, socket,
                        pollGroup, pc, server, hConn>>
    BY <1>0, <1>5 DEF EnterPollGroup
  <2>2. TrackedClientIsLive'
    BY <1>0, <1>3, <2>1 DEF TrackedClientIsLive, IsRunning, TypeOK, SocketsTypeOK
  <2>3. AcceptingOwn'
    BY <1>0, <1>2, <1>4, <2>1 DEF AcceptingOwn, IsRunning, TypeOK, SocketsTypeOK
  <2>4. Ungrouped'
    BY <1>0, <1>2, <2>1 DEF Ungrouped, Ended, TypeOK, SocketsTypeOK
  <2>5. /\ NoLeakedConnection' /\ EndedIsPosted' /\ ConnectedIsClient'
        /\ MailOfClients' /\ AskedOwn'
    BY <2>1 DEF NoLeakedConnection, EndedIsPosted, Posted, ConnectedIsClient,
       MailOfClients, AskedOwn
  <2> QED BY <2>2, <2>3, <2>4, <2>5
<1>6. CASE AcceptUndone(s)
  <2>1. /\ Closed({c}) /\ accepting' = [accepting EXCEPT ![s] = Invalid]
        /\ UNCHANGED <<queue, clients, parent, group, socket, pollGroup, pc, server, hConn>>
    BY <1>0, <1>6 DEF AcceptUndone
  <2>2. Closing({c})
    BY <1>0, <1>2, <1>3, <1>4, <2>1 DEF Closing, Closed, TypeOK
  <2>3. KeepsHandles({c}) /\ KeepsPosts({c}) /\ KeepsAsking({c}) /\ AsksOwn
    BY <2>1 DEF KeepsHandles, KeepsPosts, KeepsAsking, AsksOwn, Posted
  <2> QED BY <1>2, <2>2, <2>3, ConnClosing
<1>7. CASE AcceptDone(s)
  <2>1. /\ clients' = [clients EXCEPT ![s] = @ \cup {c}]
        /\ accepting' = [accepting EXCEPT ![s] = Invalid]
        /\ group[c] = pollGroup[s]
        /\ UNCHANGED <<state, queue, inbox, parent, group, socket, pollGroup,
                        pc, server, hConn>>
    BY <1>0, <1>2, <1>7 DEF AcceptDone
  <2>2. /\ \A r \in Servers : accepting'[r] = Invalid
        /\ \A r \in Servers, d \in Conns :
              d \in clients'[r] <=> d \in clients[r] \/ accepting[r] = d
    BY <1>0, <1>2, <1>4, <2>1 DEF TypeOK
  <2>3. TrackedClientIsLive'
    BY <1>0, <1>2, <2>1 DEF TrackedClientIsLive, IsRunning, TypeOK
  <2>4. NoLeakedConnection' /\ ConnectedIsClient' /\ MailOfClients'
    BY <2>1, <2>2 DEF NoLeakedConnection, ConnectedIsClient, MailOfClients, Posted
  <2>5. AcceptingOwn' /\ Ungrouped' /\ EndedIsPosted' /\ AskedOwn'
    BY <2>1, <2>2 DEF AcceptingOwn, Ungrouped, EndedIsPosted, AskedOwn, Posted
  <2> QED BY <2>3, <2>4, <2>5
<1> QED BY <1>1, <1>5, <1>6, <1>7

(* A status change that nobody handles is one of a closed connection, or   *)
(* the news that a connection came up.                                     *)
LEMMA AliveIsHandled ==
    ASSUME Inv, NEW c \in Conns, state[c] \in Alive
    PROVE  /\ Handled(c) /\ ServerOf(c) \in Servers
           /\ parent[c] = socket[ServerOf(c)]
<1>1. PICK s \in Servers : parent[c] = socket[s]
  BY DEF Inv, ConnInv, NoLeakedConnection
<1>2. parent[c] \in Sockets
  BY DEF Inv, TypeInv, HandedOut, TypeOK, SocketsTypeOK, Alive, Ended
<1>3. ServerOf(c) = s
  BY <1>1, <1>2 DEF Inv, HandleInv, RegistryMatchesSockets, ServerOf
<1>4. IsRunning(s)
  BY <1>1, <1>2 DEF Inv, HandleInv, HandlesHeldOnce, IsRunning
<1> QED BY <1>1, <1>3, <1>4 DEF Handled

(* The connection of the change at hand, and its server, if it is handled. *)
LEMMA EventHandled ==
    ASSUME Inv, NEW sts, TakeEvent(sts), Handled(Head(queue).conn)
    PROVE  /\ Head(queue).conn \in Conns
           /\ ServerOf(Head(queue).conn) \in Servers
           /\ parent[Head(queue).conn] = socket[ServerOf(Head(queue).conn)]
<1> DEFINE c == Head(queue).conn
<1>1. c \in Conns /\ parent[c] \in Sockets /\ ServerOf(c) \in Servers
  BY EventTaken DEF Handled, Inv
<1> QED BY <1>1 DEF Inv, HandleInv, RegistryMatchesSockets, ServerOf

(* Only the change at hand leaves the queue.                               *)
LEMMA OthersStayPosted ==
    ASSUME Inv, NEW sts, TakeEvent(sts), NEW d \in Conns, NEW st \in Alive, Posted(d, st)
    PROVE  Posted(d, st)' \/ (d = Head(queue).conn /\ st = Head(queue).state)
<1>1. ToSet(queue) = ToSet(queue') \cup {Head(queue)}
  BY EventTaken DEF Inv
<1>2. [conn |-> d, state |-> st] \in ToSet(queue') \/ [conn |-> d, state |-> st] = Head(queue)
  BY <1>1 DEF Posted
<1>3. [conn |-> d, state |-> st].conn = d /\ [conn |-> d, state |-> st].state = st
  OBVIOUS
<1> QED BY <1>2, <1>3, Zenon DEF Posted

LEMMA ConnStaticCallback ==
    ASSUME Inv, StaticCallback
    PROVE  ConnInv'
<1> DEFINE c == Head(queue).conn
           s == ServerOf(c)
<1> USE DEF Inv, socketVars, objectVars
<1>0. TypeOK
  BY DEF TypeInv
<1>9. NobodyIsAccepted
  BY DEF NobodyIsAccepted, TypeInv, ThreadOK, Callbacks, StaticCallback, CallbackIgnores,
     CallbackConnecting, CallbackClosed, TakeEvent
<1>1. CASE CallbackIgnores
  <2>1. /\ TakeEvent(Alive) /\ pc = "callbacks"
        /\ UNCHANGED <<state, inbox, clients, parent, group, socket, pollGroup>>
        /\ UNCHANGED <<pc, server, hConn>>
        /\ Handled(c) => Head(queue).state = "Connected"
    BY <1>1 DEF CallbackIgnores, TakeEvent
  <2>2. c \in Conns
    BY <2>1, EventTaken
  <2>3. ASSUME NEW d \in Conns, NEW st \in {"Connecting"} \cup Ended,
               state[d] \in Alive, Posted(d, st)
        PROVE  Posted(d, st)'
    <3>1. st \in Alive /\ st # "Connected"
      BY DEF Alive, Ended
    <3>2. Posted(d, st)' \/ (d = c /\ st = Head(queue).state)
      BY <2>1, <2>3, <3>1, OthersStayPosted
    <3>3. Handled(d)
      BY <2>3, AliveIsHandled
    <3> QED BY <2>1, <3>1, <3>2, <3>3
  <2>4. Closing({})
    BY <1>9, <2>1 DEF Closing, NobodyIsAccepted
  <2>5. KeepsHandles({}) /\ KeepsPosts({}) /\ KeepsAsking({}) /\ AsksOwn
    BY <2>1, <2>3 DEF KeepsHandles, KeepsPosts, KeepsAsking, AsksOwn
  <2> QED BY <2>4, <2>5, ConnClosing
<1>2. CASE CallbackConnecting
  <2>1. /\ TakeEvent({"Connecting"}) /\ pc = "callbacks" /\ Handled(c)
        /\ Head(queue).state = "Connecting"
        /\ UNCHANGED <<clients, parent, group, socket, pollGroup>>
    BY <1>2 DEF CallbackConnecting, TakeEvent
  <2>2. c \in Conns /\ s \in Servers /\ parent[c] = socket[s]
    BY <2>1, EventHandled
  <2>3. \A d \in Conns, st \in Alive :
          Posted(d, st) => Posted(d, st)' \/ (d = c /\ st = "Connecting")
    BY <2>1, OthersStayPosted
  <2>4. CASE listener[s]
    <3>1. /\ UNCHANGED <<state, inbox>>
          /\ pc' = "OnConnectionRequest" /\ hConn' = c /\ server' = s
      BY <1>2, <2>4 DEF CallbackConnecting
    <3>2. Closing({})
      BY <1>9, <2>1, <3>1 DEF Closing, NobodyIsAccepted
    <3>3. KeepsHandles({}) /\ KeepsPosts({}) /\ KeepsAsking({}) /\ AsksOwn
      BY <2>1, <2>2, <2>3, <3>1 DEF KeepsHandles, KeepsPosts, KeepsAsking, AsksOwn, Alive
    <3> QED BY <3>2, <3>3, ConnClosing
  <2>5. CASE ~ listener[s]
    <3> DEFINE C == IF c \in clients[s] THEN {} ELSE {c}
    <3>1. Closed(C) /\ C \in SUBSET Conns /\ UNCHANGED <<pc, server, hConn>>
      BY <1>2, <2>2, <2>5 DEF CallbackConnecting, CloseUnlessClient
    <3>2. \A r \in Servers : clients[r] = clients[r] \ C
      BY <2>2, OneServer
    <3>3. Closing(C)
      BY <1>9, <2>1, <3>1, <3>2 DEF Closing, Closed, NobodyIsAccepted
    <3>4. KeepsHandles(C) /\ KeepsPosts(C) /\ KeepsAsking(C) /\ AsksOwn
      BY <2>1, <2>2, <2>3, <3>1 DEF KeepsHandles, KeepsPosts, KeepsAsking, AsksOwn, Alive
    <3> QED BY <3>1, <3>3, <3>4, ConnClosing
  <2> QED BY <2>4, <2>5
<1>3. CASE CallbackClosed
  <2>1. /\ TakeEvent(Ended) /\ pc = "callbacks" /\ Handled(c) /\ Closed({c})
        /\ clients' = [clients EXCEPT ![s] = @ \ {c}]
        /\ UNCHANGED <<parent, group, socket, pollGroup>>
        /\ UNCHANGED <<pc, server, hConn>> \/ pc' = "OnDisconnect"
    BY <1>3 DEF CallbackClosed, TakeEvent, Dropped
  <2>2. c \in Conns /\ s \in Servers /\ parent[c] = socket[s]
    BY <2>1, EventHandled
  <2>3. \A d \in Conns, st \in Alive : Posted(d, st) => Posted(d, st)' \/ d = c
    BY <2>1, OthersStayPosted
  <2>4. \A r \in Servers : clients'[r] = clients[r] \ {c}
    BY <1>0, <2>1, <2>2, OneServer DEF TypeOK
  <2>5. Closing({c})
    BY <1>9, <2>1, <2>4 DEF Closing, Closed, NobodyIsAccepted
  <2>6. KeepsHandles({c}) /\ KeepsPosts({c}) /\ KeepsAsking({c}) /\ AsksOwn
    BY <2>1, <2>3 DEF KeepsHandles, KeepsPosts, KeepsAsking, AsksOwn, Alive
  <2> QED BY <2>2, <2>5, <2>6, ConnClosing
<1> QED BY <1>1, <1>2, <1>3 DEF StaticCallback

LEMMA ConnReturns ==
    ASSUME Inv, ListenerReturns
    PROVE  ConnInv'
<1> USE DEF Inv, socketVars, objectVars, Return
<1>1. CASE ReturnFromConnectionRequest
  <2> DEFINE C == IF hConn \in clients[server] THEN {} ELSE {hConn}
  <2>1. /\ pc = "OnConnectionRequest" /\ pc' = "callbacks" /\ server \in Servers /\ hConn \in Conns
        /\ Closed(C) /\ NobodyIsAccepted
        /\ UNCHANGED <<queue, clients, parent, group, socket, pollGroup>>
    BY <1>1 DEF ReturnFromConnectionRequest, CloseUnlessClient, TypeInv, ThreadOK, Callbacks,
       AppRuns, NobodyIsAccepted
  <2>2. \A r \in Servers : hConn \in clients[r] => hConn \in clients[server]
    <3> SUFFICES ASSUME NEW r \in Servers, hConn \in clients[r]
                 PROVE  hConn \in clients[server]
      OBVIOUS
    <3>1. server = r \/ parent[hConn] # socket[server]
      BY <2>1, OneServer
    <3>2. parent[hConn] = socket[server]
      BY <2>1 DEF ConnInv, TrackedClientIsLive, AskedOwn, Alive
    <3> QED BY <3>1, <3>2
  <2>3. \A r \in Servers : clients[r] = clients[r] \ C
    BY <2>2
  <2>4. Closing(C)
    BY <2>1, <2>3 DEF Closing, Closed, NobodyIsAccepted
  <2>5. KeepsHandles(C) /\ KeepsPosts(C) /\ KeepsAsking(C) /\ AsksOwn
    BY <2>1 DEF KeepsHandles, KeepsPosts, KeepsAsking, AsksOwn, Posted
  <2>6. C \in SUBSET Conns
    BY <2>1
  <2> QED BY <2>4, <2>5, <2>6, ConnClosing
<1>2. CASE ReturnFromDisconnect
  BY <1>2, ConnIdle DEF ReturnFromDisconnect
<1>3. CASE ReturnFromMessage
  BY <1>3, ConnIdle DEF ReturnFromMessage
<1> QED BY <1>1, <1>2, <1>3 DEF ListenerReturns

LEMMA ConnReceiveLoop ==
    ASSUME Inv, ReceiveLoop
    PROVE  ConnInv'
<1> USE DEF socketVars, objectVars, connVars
<1>1. CASE Receive
  <2>1. PICK f \in [Conns -> 0 .. MaxMsgs] :
          inbox' = [c \in Conns |-> inbox[c] - f[c]]
    BY <1>1 DEF Receive
  <2>2. \A c \in Conns : inbox'[c] > 0 => inbox[c] > 0
    BY <2>1 DEF Inv, TypeInv, TypeOK, ConnectionsTypeOK
  <2>3. /\ UNCHANGED <<state, queue, clients, accepting, parent, group, socket, pollGroup>>
        /\ UNCHANGED <<pc, server, hConn>>
    BY <1>1 DEF Receive
  <2> QED BY <2>2, <2>3, ConnIdle
<1>2. CASE ReceiveNothing
  BY <1>2, ConnIdle DEF ReceiveNothing
<1>3. CASE ReceiveFails
  BY <1>3, ConnIdle DEF ReceiveFails
<1>4. CASE UpdateThrows
  <2>1. updating \in Servers /\ Becomes(updating, Invalid, Invalid)
    BY <1>4 DEF UpdateThrows, Stop, Inv, TypeInv, ThreadOK
  <2>2. "OnConnectionRequest" \notin {pc, pc'} /\ NobodyIsAccepted
    BY <1>4 DEF UpdateThrows, NobodyIsAccepted, Inv, TypeInv, ThreadOK, Callbacks
  <2> QED BY <2>1, <2>2, ConnBecomes
<1>5. CASE Deliver
  <2>1. /\ UNCHANGED <<state, queue, inbox, clients, accepting, parent, group, socket,
                        pollGroup>>
        /\ UNCHANGED <<pc, server, hConn>> \/ "OnConnectionRequest" \notin {pc, pc'}
    BY <1>5 DEF Deliver
  <2> QED BY <2>1, ConnIdle
<1> QED BY <1>1, <1>2, <1>3, <1>4, <1>5 DEF ReceiveLoop

THEOREM ConnStep == Inv /\ [Next]_vars => ConnInv'
<1> SUFFICES ASSUME Inv, [Next]_vars PROVE ConnInv'
  OBVIOUS
<1> USE DEF socketVars, objectVars, connVars
<1>1. ASSUME NEW s \in Servers \cup {Invalid}, EnterCallbacks(s) PROVE ConnInv'
  BY <1>1, ConnIdle DEF EnterCallbacks
<1>2. ASSUME NEW s \in Servers, UpdateWithoutCallbacks(s) PROVE ConnInv'
  BY <1>2, ConnIdle DEF UpdateWithoutCallbacks
<1>3. CASE CallbacksDone
  BY <1>3, ConnIdle DEF CallbacksDone
<1>4. CASE UNCHANGED vars
  BY <1>4, ConnIdle DEF vars, serverVars, threadVars
<1> QED BY <1>1, <1>2, <1>3, <1>4, NextCases, ConnServiceThread, ConnAppCalls,
           ConnInsideAccept, ConnStaticCallback, ConnReturns, ConnReceiveLoop

-----------------------------------------------------------------------------
(* The inductive invariant of Server.                                      *)
THEOREM Invariance == Spec => []Inv
<1>1. Init => Inv
  BY TypeInit, HandlesInit, ConnInit DEF Inv
<1>2. Inv /\ [Next]_vars => Inv'
  BY TypeStep, HandlesStep, ConnStep DEF Inv
<1> QED BY <1>1, <1>2, PTL DEF Spec

(* GetClients lists live connections of the present session only           *)
(* (Server.cpp 106 to 111, 177 to 191, 206, 303).                          *)
THEOREM TrackedCorrect == Spec => []TrackedClientIsLive
<1>1. Inv => TrackedClientIsLive
  BY DEF Inv, ConnInv
<1> QED BY <1>1, Invariance, PTL

(* Every connection is a client's, or about to be asked about, or being    *)
(* asked about: none is forgotten (Server.cpp 279 to 297).                 *)
THEOREM NothingLeaks == Spec => []NoLeakedConnection
<1>1. Inv => NoLeakedConnection
  BY DEF Inv, ConnInv
<1> QED BY <1>1, Invariance, PTL

(* The change that drops a dead client is always on its way (Server.cpp    *)
(* 300 to 309).                                                            *)
THEOREM EndsAreNews == Spec => []EndedIsPosted
<1>1. Inv => EndedIsPosted
  BY DEF Inv, ConnInv
<1> QED BY <1>1, Invariance, PTL

(* Requests and disconnects are reported on the running server on whose    *)
(* present listen socket the connection came in (Server.cpp 263 to 270).   *)
THEOREM ReportsCorrect == Spec => ReportsOwnSession
<1>1. ASSUME Inv, [Next]_vars, pc' # pc, pc' \in {"OnConnectionRequest", "OnDisconnect"}
      PROVE  IsRunning(server') /\ parent[hConn'] = socket[server']
  <2>1. CallbackConnecting \/ CallbackClosed
    <3>1. CASE AppCalls
      BY <1>1, <3>1 DEF AppCalls, threadVars
    <3>2. CASE ListenerReturns
      BY <1>1, <3>2 DEF ListenerReturns, ReturnFromConnectionRequest, ReturnFromDisconnect,
         ReturnFromMessage, Return
    <3>3. CASE ReceiveLoop
      BY <1>1, <3>3 DEF ReceiveLoop, Receive, ReceiveNothing, ReceiveFails, UpdateThrows, Deliver
    <3>4. CASE StaticCallback
      BY <1>1, <3>4 DEF StaticCallback, CallbackIgnores
    <3>5. CASE InsideAccept
      BY <1>1, <3>5 DEF InsideAccept, threadVars
    <3> QED BY <1>1, <3>1, <3>2, <3>3, <3>4, <3>5, NextCases DEF vars, serverVars, threadVars,
               EnterCallbacks, UpdateWithoutCallbacks, CallbacksDone
  <2> DEFINE c == Head(queue).conn
             s == ServerOf(c)
  <2>2. /\ Handled(c)
        /\ TakeEvent({"Connecting"}) \/ TakeEvent(Ended)
        /\ server' = s /\ hConn' = c
    BY <1>1, <2>1 DEF CallbackConnecting, CallbackClosed
  <2>3. Handled(c) /\ server' = s /\ hConn' = c /\ parent[c] = socket[s]
    BY <1>1, <2>1, <2>2, EventHandled DEF CallbackConnecting, CallbackClosed
  <2> QED BY <2>3 DEF Handled
<1>2. Inv /\ [Next]_vars
        => [pc' # pc /\ pc' \in {"OnConnectionRequest", "OnDisconnect"} =>
              IsRunning(server') /\ parent[hConn'] = socket[server']]_vars
  BY <1>1
<1> QED BY <1>2, Invariance, PTL DEF Spec, ReportsOwnSession

(* A fetch reads mail of present clients only, so a removed client is      *)
(* heard for the rest of one batch at most (Server.cpp 147 to 155).        *)
THEOREM FetchesCorrect == Spec => FetchesFromClients
<1>1. ASSUME Inv, [Next]_vars, NEW c \in Conns, incomingMsgs'[c] > incomingMsgs[c]
      PROVE  c \in clients[updating]
  <2>0. incomingMsgs \in [Conns -> Nat] /\ inbox \in [Conns -> Nat]
    BY <1>1 DEF Inv, TypeInv, TypeOK, ConnectionsTypeOK
  <2>1. incomingMsgs' # incomingMsgs /\ ~ (incomingMsgs'[c] = incomingMsgs[c] - 1)
    BY <1>1, <2>0
  <2>2. ReceiveLoop
    BY <1>1, <2>1, NextCases DEF vars, serverVars, threadVars, AppCalls, InsideAccept,
       EnterCallbacks, UpdateWithoutCallbacks, CallbacksDone, StaticCallback, CallbackIgnores,
       CallbackConnecting, CallbackClosed, TakeEvent, ListenerReturns,
       ReturnFromConnectionRequest, ReturnFromDisconnect, ReturnFromMessage, Return
  <2>3. Receive
    <3>1. CASE Deliver
      <4>1. PICK d \in Conns : incomingMsgs' = [incomingMsgs EXCEPT ![d] = @ - 1]
        BY <3>1 DEF Deliver
      <4> QED BY <1>1, <2>0, <4>1
    <3> QED BY <2>1, <2>2, <3>1 DEF ReceiveLoop, ReceiveNothing, ReceiveFails, UpdateThrows
  <2>4. PICK f \in [Conns -> 0 .. MaxMsgs] :
          /\ \A d \in Conns : f[d] <= Unread(pollGroup[updating])[d]
          /\ incomingMsgs' = f
    BY <2>3 DEF Receive
  <2>5. pc = "polling" /\ updating \in Servers /\ pollGroup[updating] # Invalid
    BY <1>1, <2>3 DEF Receive, Inv, TypeInv, ThreadOK
  <2>6. inbox[c] > 0 /\ group[c] = pollGroup[updating]
    BY <1>1, <2>0, <2>4 DEF Unread, Pending
  <2>7. PICK s \in Servers : c \in clients[s]
    BY <1>1, <2>5, <2>6 DEF Inv, ConnInv, MailOfClients, TypeInv, ThreadOK, Callbacks
  <2>8. pollGroup[s] = pollGroup[updating]
    BY <1>1, <2>6, <2>7 DEF Inv, ConnInv, TrackedClientIsLive
  <2>9. s = updating
    BY <1>1, <2>5, <2>8, HeldByOne DEF Inv, HandleInv
  <2> QED BY <2>7, <2>9
<1>2. Inv /\ [Next]_vars
        => [\A c \in Conns :
              incomingMsgs'[c] > incomingMsgs[c] => c \in clients[updating]]_vars
  BY <1>1
<1> QED BY <1>2, Invariance, PTL DEF Spec, FetchesFromClients
=============================================================================
