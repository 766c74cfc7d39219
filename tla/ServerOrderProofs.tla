------------------------- MODULE ServerOrderProofs -------------------------
(***************************************************************************)
(* What a listener of a Server hears of a connection, in which order.      *)
(***************************************************************************)
EXTENDS ServerProofs

(* In the queue, nothing follows the end of a connection.                  *)
EndIsLast(q) ==
    \A i, j \in 1 .. Len(q) :
        i < j /\ q[i].conn = q[j].conn => q[i].state \notin Ended

(* What is posted of a connection that has ended, or was reported gone.    *)
QueueOrder ==
    /\ EndIsLast(queue)
    /\ \A c \in Conns, st \in Ended : Posted(c, st) => state[c] \in Ended \cup {"None"}
    /\ \A c \in gone : state[c] = "None"
    /\ \A c \in gone, st \in {"Connecting"} \cup Ended : ~ Posted(c, st)

(* Fetched messages are there in the receive loop only.                    *)
BatchOrder ==
    /\ pc \in {"polling", "OnMessageReceived"} \/ \A c \in Conns : incomingMsgs[c] = 0
    /\ \A c \in gone : incomingMsgs[c] = 0

-----------------------------------------------------------------------------
LEMMA AppendEnds ==
    ASSUME NEW q \in Seq(Event), NEW e \in Event, EndIsLast(q),
           \A st \in Ended : [conn |-> e.conn, state |-> st] \notin ToSet(q)
    PROVE  EndIsLast(Append(q, e))
<1>1. /\ Len(Append(q, e)) = Len(q) + 1 /\ Len(q) \in Nat
      /\ \A i \in 1 .. Len(q) : Append(q, e)[i] = q[i]
      /\ Append(q, e)[Len(q) + 1] = e
  BY AppendProperties
<1>2. ASSUME NEW i \in 1 .. Len(q), q[i].conn = e.conn PROVE q[i].state \notin Ended
  <2>1. q[i] \in Event /\ q[i] \in ToSet(q)
    BY ToSetMembers
  <2>2. q[i] = [conn |-> e.conn, state |-> q[i].state]
    BY <1>2, <2>1 DEF Event
  <2> QED BY <2>1, <2>2
<1> QED BY <1>1, <1>2 DEF EndIsLast

LEMMA TailEnds ==
    ASSUME NEW q \in Seq(Event), Len(q) > 0, EndIsLast(q)
    PROVE  /\ EndIsLast(Tail(q))
           /\ Head(q).state \in Ended =>
                \A st : [conn |-> Head(q).conn, state |-> st] \notin ToSet(Tail(q))
<1>1. /\ Tail(q) \in Seq(Event) /\ Len(Tail(q)) = Len(q) - 1 /\ Len(q) \in Nat
      /\ Head(q) = q[1]
      /\ \A i \in 1 .. Len(q) - 1 : Tail(q)[i] = q[i + 1]
  BY HeadTailProperties
<1>2. EndIsLast(Tail(q))
  <2> SUFFICES ASSUME NEW i \in 1 .. Len(q) - 1, NEW j \in 1 .. Len(q) - 1, i < j,
                      Tail(q)[i].conn = Tail(q)[j].conn
               PROVE  Tail(q)[i].state \notin Ended
    BY <1>1 DEF EndIsLast
  <2>1. /\ i + 1 \in 1 .. Len(q) /\ j + 1 \in 1 .. Len(q) /\ i + 1 < j + 1
        /\ q[i + 1].conn = q[j + 1].conn
    BY <1>1
  <2>2. q[i + 1].state \notin Ended
    BY <2>1 DEF EndIsLast
  <2> QED BY <1>1, <2>2
<1>3. ASSUME Head(q).state \in Ended, NEW st,
             [conn |-> Head(q).conn, state |-> st] \in ToSet(Tail(q))
      PROVE  FALSE
  <2>0. \A x : x \in ToSet(Tail(q)) <=> \E i \in 1 .. Len(Tail(q)) : Tail(q)[i] = x
    BY <1>1, ToSetMembers
  <2>1. PICK i \in 1 .. Len(q) - 1 : Tail(q)[i] = [conn |-> Head(q).conn, state |-> st]
    BY <1>1, <1>3, <2>0
  <2>2. /\ 1 \in 1 .. Len(q) /\ i + 1 \in 1 .. Len(q) /\ 1 < i + 1
        /\ q[i + 1].conn = q[1].conn /\ q[1].state \in Ended
    BY <1>1, <1>3, <2>1
  <2> QED BY <2>2 DEF EndIsLast
<1> QED BY <1>2, <1>3

-----------------------------------------------------------------------------
(* GNS posts a change of c, which has not ended.                           *)
LEMMA OrderPosts ==
    ASSUME TypeInv, QueueOrder, NEW c \in Conns, NEW st \in Alive,
           state[c] \notin Ended \cup {"None"},
           queue' = Append(queue, [conn |-> c, state |-> st]),
           \A d \in Conns \ {c} : state'[d] = state[d],
           st \in Ended => state'[c] \in Ended,
           gone' = gone
    PROVE  QueueOrder'
<1> USE DEF QueueOrder, Posted
<1> DEFINE e == [conn |-> c, state |-> st]
<1>1. queue \in Seq(Event) /\ e \in Event /\ e.conn = c /\ gone \subseteq Conns
  BY DEF TypeInv, TypeOK, ConnectionsTypeOK, Event
<1>2. \A st2 \in Ended : [conn |-> e.conn, state |-> st2] \notin ToSet(queue)
  BY <1>1
<1> HIDE DEF e
<1>3. EndIsLast(queue')
  BY <1>1, <1>2, AppendEnds DEF e
<1>4. ToSet(queue') = ToSet(queue) \cup {[conn |-> c, state |-> st]}
  BY QueueGrows
<1>5. c \notin gone
  BY <1>1
<1> QED BY <1>1, <1>3, <1>4, <1>5

(* Connections are closed.                                                 *)
LEMMA OrderCloses ==
    ASSUME TypeInv, QueueOrder, \A c \in Conns : state'[c] \in {state[c], "None"},
           UNCHANGED <<queue, gone>>
    PROVE  QueueOrder'
  BY DEF QueueOrder, Posted, TypeInv, TypeOK

(* RunCallbacks takes a change, and perhaps reports its connection gone.   *)
LEMMA OrderTakes ==
    ASSUME TypeInv, QueueOrder, NEW sts, TakeEvent(sts),
           \A c \in Conns : state'[c] \in {state[c], "None"},
           \/ gone' = gone
           \/ /\ Head(queue).state \in Ended
              /\ gone' = gone \cup {Head(queue).conn}
              /\ state'[Head(queue).conn] = "None"
    PROVE  QueueOrder'
<1> USE DEF QueueOrder, Posted
<1>1. queue \in Seq(Event) /\ Len(queue) > 0 /\ queue' = Tail(queue) /\ gone \subseteq Conns
  BY DEF TypeInv, TypeOK, ThreadOK, ConnectionsTypeOK, TakeEvent
<1>2. /\ EndIsLast(queue')
      /\ Head(queue).state \in Ended =>
           \A st : [conn |-> Head(queue).conn, state |-> st] \notin ToSet(queue')
  BY <1>1, TailEnds
<1>3. /\ ToSet(queue) = ToSet(queue') \cup {Head(queue)}
      /\ Head(queue).conn \in Conns
  BY EventTaken
<1> QED BY <1>1, <1>2, <1>3

-----------------------------------------------------------------------------
LEMMA OrderInit == Init => QueueOrder /\ BatchOrder
<1> SUFFICES ASSUME Init PROVE QueueOrder /\ BatchOrder
  OBVIOUS
<1>1. queue = <<>> /\ Len(queue) = 0
  BY DEF Init, ConnectionsInit
<1>2. ToSet(queue) = {}
  BY <1>1 DEF ToSet
<1> QED BY <1>1, <1>2 DEF Init, QueueOrder, BatchOrder, EndIsLast, Posted

LEMMA OrderServiceThread ==
    ASSUME TypeInv, QueueOrder, ServiceThread, UNCHANGED serverVars
    PROVE  QueueOrder'
<1>1. PICK c \in Conns : PeerConnects(c) \/ Ends(c) \/ MessageArrives(c)
  BY DEF ServiceThread
<1>2. gone' = gone /\ state \in [Conns -> States]
  BY DEF serverVars, historyVars, TypeInv, TypeOK, ConnectionsTypeOK
<1>3. CASE PeerConnects(c)
  <2>1. /\ state[c] = "Free" /\ state' = [state EXCEPT ![c] = "Connecting"]
        /\ queue' = Append(queue, [conn |-> c, state |-> "Connecting"])
    BY <1>3 DEF PeerConnects, Created
  <2> QED BY <1>2, <2>1, OrderPosts DEF Alive, Ended
<1>4. CASE Ends(c)
  <2>1. PICK st \in Ended :
          /\ state[c] \in {"Connecting", "Connected"} /\ state' = [state EXCEPT ![c] = st]
          /\ queue' = Append(queue, [conn |-> c, state |-> st])
    BY <1>4 DEF Ends
  <2> QED BY <1>2, <2>1, OrderPosts DEF Alive, Ended
<1>5. CASE MessageArrives(c)
  BY <1>2, <1>5, OrderCloses DEF MessageArrives
<1> QED BY <1>1, <1>3, <1>4, <1>5

LEMMA OrderBecomes ==
    ASSUME TypeInv, QueueOrder, NEW s \in Servers, NEW k, NEW g, Becomes(s, k, g), gone' = gone
    PROVE  QueueOrder'
<1>1. (\A c \in Conns : state'[c] \in {state[c], "None"}) /\ queue' = queue
  BY DEF Becomes, Closed
<1> QED BY <1>1, OrderCloses

LEMMA OrderAppCalls ==
    ASSUME TypeInv, QueueOrder, AppCalls
    PROVE  QueueOrder'
<1>1. PICK s \in Servers :
        \/ /\ Start(s) \/ StartWithoutSocket(s) \/ StartWithoutPollGroup(s) \/ Stop(s)
           /\ UNCHANGED historyVars
        \/ \E c \in Conns : \/ AcceptClient(s, c) \/ AcceptRefused(s, c)
                            \/ RemoveClient(s, c)
        \/ \E l \in BOOLEAN : SetListener(s, l)
  BY DEF AppCalls
<1>2. CASE /\ Start(s) \/ StartWithoutSocket(s) \/ StartWithoutPollGroup(s) \/ Stop(s)
           /\ UNCHANGED historyVars
  <2>1. \E k, g : Becomes(s, k, g)
    BY <1>2 DEF Start, StartWithoutSocket, StartWithoutPollGroup, Stop
  <2> QED BY <1>2, <2>1, OrderBecomes DEF historyVars
<1>3. ASSUME NEW c \in Conns, AcceptClient(s, c) PROVE QueueOrder'
  <2>1. /\ state[c] = "Connecting" /\ gone' = gone
        /\ \A d \in Conns \ {c} : state'[d] = state[d]
        /\ queue' = Append(queue, [conn |-> c, state |-> "Connected"])
    BY <1>3 DEF AcceptClient, Established, historyVars, TypeInv, TypeOK, ConnectionsTypeOK
  <2> QED BY <2>1, OrderPosts DEF Alive, Ended
<1>4. ASSUME NEW c \in Conns, AcceptRefused(s, c) \/ RemoveClient(s, c) PROVE QueueOrder'
  <2>1. (\A d \in Conns : state'[d] \in {state[d], "None"}) /\ UNCHANGED <<queue, gone>>
    BY <1>4 DEF AcceptRefused, RemoveClient, Dropped, Closed, historyVars
  <2> QED BY <2>1, OrderCloses
<1>5. ASSUME NEW l \in BOOLEAN, SetListener(s, l) PROVE QueueOrder'
  BY <1>5, OrderCloses DEF SetListener, connVars, historyVars
<1> QED BY <1>1, <1>2, <1>3, <1>4, <1>5

LEMMA OrderStaticCallback ==
    ASSUME TypeInv, QueueOrder, StaticCallback
    PROVE  QueueOrder'
<1> DEFINE c == Head(queue).conn
<1>1. CASE CallbackIgnores
  BY <1>1, OrderTakes DEF CallbackIgnores, historyVars
<1>2. CASE CallbackConnecting
  <2>1. TakeEvent({"Connecting"}) /\ gone' = gone
    BY <1>2 DEF CallbackConnecting, historyVars
  <2>2. \A d \in Conns : state'[d] \in {state[d], "None"}
    BY <1>2 DEF CallbackConnecting, CloseUnlessClient, Closed
  <2> QED BY <2>1, <2>2, OrderTakes
<1>3. CASE CallbackClosed
  <2>1. /\ TakeEvent(Ended) /\ Head(queue).state \in Ended
        /\ Closed({c}) /\ gone' \in {gone, gone \cup {c}}
    BY <1>3 DEF CallbackClosed, Dropped, TakeEvent
  <2>2. c \in Conns
    BY <2>1, EventTaken
  <2>3. state'[c] = "None" /\ \A d \in Conns : state'[d] \in {state[d], "None"}
    BY <2>1, <2>2 DEF Closed
  <2> QED BY <2>1, <2>3, OrderTakes
<1> QED BY <1>1, <1>2, <1>3 DEF StaticCallback

LEMMA QueueOrderStep ==
    ASSUME TypeInv, QueueOrder, [Next]_vars
    PROVE  QueueOrder'
<1> USE DEF connVars, historyVars
<1>1. CASE UNCHANGED vars
  BY <1>1, OrderCloses DEF vars, serverVars
<1>2. CASE \/ \E s \in Servers \cup {Invalid} : EnterCallbacks(s)
           \/ \E s \in Servers : UpdateWithoutCallbacks(s)
           \/ CallbacksDone
  BY <1>2, OrderCloses DEF EnterCallbacks, UpdateWithoutCallbacks, CallbacksDone
<1>3. CASE ListenerReturns
  <2>1. (\A c \in Conns : state'[c] \in {state[c], "None"}) /\ UNCHANGED <<queue, gone>>
    BY <1>3 DEF ListenerReturns, ReturnFromConnectionRequest, ReturnFromDisconnect,
       ReturnFromMessage, Return, CloseUnlessClient, Closed
  <2> QED BY <2>1, OrderCloses
<1>4. CASE UpdateThrows
  <2>1. updating \in Servers /\ Becomes(updating, Invalid, Invalid) /\ gone' = gone
    BY <1>4 DEF UpdateThrows, Stop, TypeInv, ThreadOK
  <2> QED BY <2>1, OrderBecomes
<1>5. CASE ReceiveLoop
  BY <1>4, <1>5, OrderCloses DEF ReceiveLoop, Receive, ReceiveNothing, ReceiveFails, Deliver
<1>6. CASE InsideAccept
  <2>1. (\A c \in Conns : state'[c] \in {state[c], "None"}) /\ UNCHANGED <<queue, gone>>
    BY <1>6 DEF InsideAccept, EnterPollGroup, AcceptUndone, AcceptDone, Closed
  <2> QED BY <2>1, OrderCloses
<1> QED BY <1>1, <1>2, <1>3, <1>5, <1>6, NextCases, OrderServiceThread, OrderAppCalls,
           OrderStaticCallback

LEMMA BatchOrderStep ==
    ASSUME Inv, QueueOrder, BatchOrder, [Next]_vars
    PROVE  BatchOrder'
<1> USE DEF BatchOrder, historyVars, threadVars
<1>0. /\ incomingMsgs \in [Conns -> Nat] /\ inbox \in [Conns -> Nat] /\ gone \subseteq Conns
  BY DEF Inv, TypeInv, TypeOK, ConnectionsTypeOK
<1>1. CASE \/ UNCHANGED vars
           \/ ServiceThread /\ UNCHANGED serverVars
           \/ AppCalls
           \/ InsideAccept
  <2>1. UNCHANGED <<pc, incomingMsgs>>
    BY <1>1 DEF vars, serverVars, AppCalls, InsideAccept
  <2>2. gone' = gone
    BY <1>1 DEF vars, serverVars, AppCalls, AcceptClient, AcceptRefused, RemoveClient,
       SetListener, InsideAccept, EnterPollGroup, AcceptUndone, AcceptDone
  <2> QED BY <2>1, <2>2
<1>2. CASE \/ \E s \in Servers \cup {Invalid} : EnterCallbacks(s)
           \/ \E s \in Servers : UpdateWithoutCallbacks(s)
           \/ CallbacksDone
  BY <1>2 DEF EnterCallbacks, UpdateWithoutCallbacks, CallbacksDone
<1>3. CASE ListenerReturns
  BY <1>3 DEF ListenerReturns, ReturnFromConnectionRequest, ReturnFromDisconnect,
     ReturnFromMessage, Return
<1>4. CASE StaticCallback
  <2>1. pc = "callbacks" /\ incomingMsgs' = incomingMsgs
    BY <1>4 DEF StaticCallback, CallbackIgnores, CallbackConnecting, CallbackClosed, TakeEvent
  <2>2. gone' \subseteq Conns
    BY <1>4, EventTaken, <1>0 DEF StaticCallback, CallbackIgnores, CallbackConnecting,
       CallbackClosed, Inv
  <2> QED BY <2>1, <2>2
<1>5. CASE Receive
  <2>1. PICK f \in [Conns -> 0 .. MaxMsgs] :
          /\ \A c \in Conns : f[c] <= Unread(pollGroup[updating])[c]
          /\ incomingMsgs' = f
    BY <1>5 DEF Receive
  <2>2. ASSUME NEW c \in gone PROVE f[c] = 0
    <3>1. inbox[c] = 0
      <4>1. state[c] = "None" /\ c \in Conns
        BY <1>0 DEF QueueOrder
      <4>2. \A s \in Servers : c \notin clients[s]
        BY <4>1 DEF Inv, ConnInv, TrackedClientIsLive, Ended
      <4>3. \A s \in Servers : accepting[s] = Invalid
        BY <1>5 DEF Receive, Inv, TypeInv, ThreadOK, Callbacks
      <4> QED BY <1>0, <4>1, <4>2, <4>3, ConnectionsAssumption DEF Inv, ConnInv, MailOfClients
    <3>2. f[c] <= 0 /\ f[c] \in Nat
      BY <1>0, <2>1, <3>1 DEF Unread, Pending
    <3> QED BY <3>2
  <2> QED BY <1>5, <2>1, <2>2 DEF Receive
<1>6. CASE Deliver
  <2>1. PICK c \in Conns :
          /\ pc = "polling" /\ incomingMsgs[c] > 0
          /\ incomingMsgs' = [incomingMsgs EXCEPT ![c] = @ - 1]
          /\ pc' \in {pc, "OnMessageReceived"} /\ gone' = gone
    BY <1>6 DEF Deliver
  <2> QED BY <1>0, <2>1
<1>7. CASE ReceiveNothing \/ ReceiveFails \/ UpdateThrows
  BY <1>7 DEF ReceiveNothing, ReceiveFails, UpdateThrows, BatchRead
<1> QED BY <1>1, <1>2, <1>3, <1>4, <1>5, <1>6, <1>7, NextCases DEF ReceiveLoop

LEMMA OrderInvariance == Spec => [](Inv /\ QueueOrder /\ BatchOrder)
<1>1. Inv /\ QueueOrder /\ BatchOrder /\ [Next]_vars => (QueueOrder /\ BatchOrder)'
  BY QueueOrderStep, BatchOrderStep DEF Inv
<1> QED BY <1>1, OrderInit, Invariance, PTL DEF Spec

(* OnDisconnect is the last a listener hears of a connection: the queue    *)
(* held nothing more of it, and its mail went with it (Server.cpp 303).    *)
THEOREM DisconnectCorrect == Spec => DisconnectIsLast
<1>1. ASSUME Inv, QueueOrder, BatchOrder, [Next]_vars, pc' # pc, pc' \in Callbacks
      PROVE  hConn' \notin gone
  <2>1. CallbackConnecting \/ CallbackClosed \/ Deliver
    <3>1. Next
      BY <1>1 DEF vars, serverVars, threadVars
    <3>2. StaticCallback \/ ReceiveLoop
      BY <1>1, <3>1, NextCases DEF serverVars, threadVars, AppCalls, InsideAccept, EnterCallbacks,
         UpdateWithoutCallbacks, CallbacksDone, ListenerReturns, ReturnFromConnectionRequest,
         ReturnFromDisconnect, ReturnFromMessage, Return, Callbacks
    <3> QED BY <1>1, <3>2 DEF StaticCallback, CallbackIgnores, ReceiveLoop, Receive,
               ReceiveNothing, ReceiveFails, UpdateThrows, Callbacks
  <2>2. CASE Deliver
    BY <1>1, <2>2 DEF Deliver, BatchOrder, Inv, TypeInv, TypeOK
  <2>3. CASE CallbackConnecting \/ CallbackClosed
    <3>1. /\ TakeEvent({"Connecting"}) \/ TakeEvent(Ended)
          /\ hConn' = Head(queue).conn
      BY <1>1, <2>3 DEF CallbackConnecting, CallbackClosed
    <3>2. Head(queue).state \in {"Connecting"} \cup Ended /\ left > 0 /\ queue' = Tail(queue)
      BY <3>1 DEF TakeEvent
    <3>3. Head(queue) \in Event /\ Head(queue) \in ToSet(queue)
      BY <1>1, <3>2, QueueShrinks DEF Inv
    <3>4. Posted(Head(queue).conn, Head(queue).state)
      BY <3>3 DEF Event, Posted
    <3> QED BY <1>1, <3>1, <3>2, <3>4 DEF QueueOrder
  <2> QED BY <2>1, <2>2, <2>3
<1>2. Inv /\ QueueOrder /\ BatchOrder /\ [Next]_vars
        => [pc' # pc /\ pc' \in Callbacks => hConn' \notin gone]_vars
  BY <1>1
<1> QED BY <1>2, OrderInvariance, PTL DEF Spec, DisconnectIsLast
=============================================================================
