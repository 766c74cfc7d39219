---------------------------- MODULE ClientProofs ----------------------------
(***************************************************************************)
(* Theorems about Client, for every number of clients, connections,        *)
(* messages and status changes.                                            *)
(***************************************************************************)
EXTENDS ClientRefinement, SteamConnectionsProofs

USE ConnectionsAssumption, ClientAssumption

(* What the thread is doing fits the variables it does it with.            *)
ThreadOK ==
    /\ left <= Len(queue)
    /\ pc \in {"polling", "failed", "OnMessageReceived"} => updating \in Clients
    /\ pc \in {"polling", "OnMessageReceived"} \/ incomingMsgs = 0
    /\ incomingMsgs > 0 => source \in Conns \ gone

(* What is posted of a connection it has been through, and GNS posts each  *)
(* change once.                                                            *)
PostedOnce ==
    /\ IsInjective(queue)
    /\ \A c \in Conns : Posted(c, "Connecting") => state[c] # "Free"
    /\ \A c \in Conns : Posted(c, "Connected") => state[c] \notin {"Free", "Connecting"}
    /\ \A c \in Conns, st \in Ended : Posted(c, st) => state[c] \in Ended \cup {"None"}

(* A connection that has ended by itself has its change in the queue.      *)
EndedIsPosted ==
    \A c \in Conns : state[c] \in Ended => Posted(c, state[c])

(* What listeners and the application have been through with a connection. *)
HistoryOK ==
    /\ \A c \in quit \cup gone : state[c] = "None"
    /\ \A c \in told : ~ Posted(c, "Connected") /\ state[c] \notin {"Free", "Connecting"}

Inv ==
    /\ TypeOK
    /\ ThreadOK
    /\ PostedOnce
    /\ EndedIsPosted
    /\ HistoryOK
    /\ RegistryMatchesConnections
    /\ ConnectionsHeld
-----------------------------------------------------------------------------
(* The queue after GNS posts a change that is not posted yet.              *)
LEMMA Posting ==
    ASSUME Inv, NEW c \in Conns, NEW st \in Alive, ~ Posted(c, st),
           queue' = Append(queue, [conn |-> c, state |-> st])
    PROVE  /\ queue' \in Seq(Event) /\ Len(queue') = Len(queue) + 1
           /\ Len(queue) \in Nat /\ left <= Len(queue')
           /\ IsInjective(queue')
           /\ ToSet(queue') = ToSet(queue) \cup {[conn |-> c, state |-> st]}
<1>1. [conn |-> c, state |-> st] \in Event /\ queue \in Seq(Event)
  BY DEF Inv, TypeOK, ConnectionsTypeOK, Event
<1> DEFINE e == [conn |-> c, state |-> st]
<1> HIDE DEF e
<1>0. e \in Event /\ queue \in Seq(Event) /\ queue' = Append(queue, e)
  BY <1>1 DEF e
<1>2. /\ queue' \in Seq(Event) /\ Len(queue') = Len(queue) + 1
      /\ ToSet(queue') = ToSet(queue) \cup {e}
  BY <1>0, AppendPosts
<1>3. IsInjective(queue')
  BY <1>0, AppendDistinct DEF Inv, PostedOnce, Posted, e
<1>4. Len(queue) \in Nat /\ left \in Nat /\ left <= Len(queue)
  BY <1>1 DEF Inv, TypeOK, ThreadOK
<1> QED BY <1>2, <1>3, <1>4 DEF e

(* The queue after RunCallbacks has taken a change.                        *)
LEMMA Taking ==
    ASSUME Inv, NEW sts, TakeEvent(sts)
    PROVE  /\ queue' \in Seq(Event) /\ left' \in Nat /\ left' <= Len(queue')
           /\ IsInjective(queue')
           /\ Head(queue).conn \in Conns /\ Head(queue).state \in Alive
           /\ Head(queue) = [conn |-> Head(queue).conn, state |-> Head(queue).state]
           /\ Head(queue) \in ToSet(queue)
           /\ ToSet(queue') = ToSet(queue) \ {Head(queue)}
<1>1. /\ queue \in Seq(Event) /\ Len(queue) \in Nat /\ Len(queue) > 0
      /\ queue' = Tail(queue) /\ left' = left - 1 /\ left' \in Nat /\ left <= Len(queue)
      /\ IsInjective(queue)
  BY DEF Inv, TypeOK, ThreadOK, PostedOnce, ConnectionsTypeOK, TakeEvent
<1>2. /\ Tail(queue) \in Seq(Event) /\ Len(Tail(queue)) = Len(queue) - 1
      /\ Head(queue) \in Event
      /\ ToSet(queue) = ToSet(Tail(queue)) \cup {Head(queue)}
  BY <1>1, TailUnposts, Zenon
<1>3. IsInjective(Tail(queue)) /\ Head(queue) \notin ToSet(Tail(queue))
  BY <1>1, TailDistinct, Zenon
<1>4. /\ Head(queue).conn \in Conns /\ Head(queue).state \in Alive
      /\ Head(queue) = [conn |-> Head(queue).conn, state |-> Head(queue).state]
  BY <1>2 DEF Event
<1>5. Len(queue') = Len(queue) - 1
  BY <1>1, <1>2, Zenon
<1>6. left' <= Len(queue')
  BY <1>1, <1>5 DEF Inv, TypeOK
<1>7. ToSet(Tail(queue)) = ToSet(queue) \ {Head(queue)} /\ Head(queue) \in ToSet(queue)
  BY <1>2, <1>3, Zenon
<1>8. queue' \in Seq(Event) /\ IsInjective(queue') /\ ToSet(queue') = ToSet(queue) \ {Head(queue)}
  BY <1>1, <1>2, <1>3, <1>7, Zenon
<1> QED BY <1>1, <1>4, <1>6, <1>7, <1>8

-----------------------------------------------------------------------------
(* Steps that leave the connections and the queue alone.                   *)
LEMMA Elsewhere ==
    ASSUME Inv, TypeOK', ThreadOK',
           UNCHANGED <<state, queue, connection, globalClientRegistry, historyVars>>
    PROVE  Inv'
  BY DEF Inv, PostedOnce, Posted, EndedIsPosted, HistoryOK, RegistryMatchesConnections,
     ConnectionsHeld, historyVars

THEOREM InvInit == Init => Inv
<1> SUFFICES ASSUME Init PROVE Inv
  OBVIOUS
<1>1. queue = <<>> /\ queue \in Seq(Event) /\ Len(queue) = 0 /\ IsInjective(queue)
  BY DEF Init, ConnectionsInit, IsInjective
<1>2. ToSet(queue) = {}
  BY <1>1 DEF ToSet
<1>3. ConnectionsTypeOK
  BY <1>1 DEF Init, ConnectionsInit, ConnectionsTypeOK, States
<1>4. TypeOK /\ ThreadOK
  BY <1>1, <1>3 DEF Init, TypeOK, ThreadOK
<1>5. PostedOnce /\ EndedIsPosted /\ HistoryOK
  BY <1>1, <1>2 DEF Init, ConnectionsInit, PostedOnce, EndedIsPosted, HistoryOK, Posted, Ended
<1>6. RegistryMatchesConnections /\ ConnectionsHeld
  BY DEF Init, ConnectionsInit, RegistryMatchesConnections, ConnectionsHeld, Alive, Ended
<1> QED BY <1>4, <1>5, <1>6 DEF Inv

(* The service thread.  What it posts is not posted yet: a connection      *)
(* comes up once, and ends once.                                           *)
LEMMA ServiceThreadKeeps ==
    ASSUME Inv, ServiceThread, UNCHANGED clientVars
    PROVE  Inv'
<1> USE DEF Posted, clientVars, objectVars, threadVars, historyVars
<1>1. PICK c \in Conns : PeerAccepts(c) \/ Ends(c) \/ MessageArrives(c)
  BY DEF ServiceThread
<1>2. CASE PeerAccepts(c) \/ Ends(c)
  <2>1. PICK st \in Alive :
          /\ state' = [state EXCEPT ![c] = st]
          /\ queue' = Append(queue, [conn |-> c, state |-> st])
          /\ \/ st = "Connected" /\ state[c] = "Connecting"
             \/ st \in Ended /\ state[c] \in {"Connecting", "Connected"}
          /\ UNCHANGED <<inbox, sent>>
    BY <1>2 DEF PeerAccepts, Established, Ends, Alive
  <2>2. state \in [Conns -> States] /\ state' \in [Conns -> States]
    BY <2>1 DEF Inv, TypeOK, ConnectionsTypeOK, States
  <2>3. ~ Posted(c, st)
    BY <2>1 DEF Inv, PostedOnce, Ended
  <2>4. /\ queue' \in Seq(Event) /\ left <= Len(queue') /\ IsInjective(queue')
        /\ ToSet(queue') = ToSet(queue) \cup {[conn |-> c, state |-> st]}
    BY <2>1, <2>3, Posting
  <2>5. TypeOK' /\ ThreadOK'
    BY <2>1, <2>2, <2>4 DEF Inv, TypeOK, ConnectionsTypeOK, ThreadOK
  <2>6. PostedOnce'
    BY <2>1, <2>2, <2>4 DEF Inv, PostedOnce, Ended
  <2>7. EndedIsPosted' /\ HistoryOK'
    BY <2>1, <2>2, <2>4 DEF Inv, EndedIsPosted, HistoryOK, Ended
  <2>8. RegistryMatchesConnections' /\ ConnectionsHeld'
    BY <2>1, <2>2 DEF Inv, RegistryMatchesConnections, ConnectionsHeld, Alive
  <2> QED BY <2>5, <2>6, <2>7, <2>8 DEF Inv
<1>3. CASE MessageArrives(c)
  <2>1. TypeOK' /\ ThreadOK'
    BY <1>3, SMTT(30) DEF MessageArrives, Inv, TypeOK, ConnectionsTypeOK, ThreadOK
  <2> QED BY <1>3, <2>1, Elsewhere DEF MessageArrives
<1> QED BY <1>1, <1>2, <1>3

-----------------------------------------------------------------------------
(* A client's connection is closed and forgotten: by Leave, which Join     *)
(* and a failing Update begin with, and by the callback.                   *)
LEMMA OwnIsHeld ==
    ASSUME Inv, NEW cl \in Clients
    PROVE  /\ Own(cl) \in SUBSET Conns
           /\ \A c \in Own(cl) : connection[cl] = c /\ state[c] \in Alive
           /\ \A c \in Own(cl), other \in Clients : connection[other] = c => other = cl
  BY DEF Inv, TypeOK, Own, ConnectionsHeld, RegistryMatchesConnections

LEMMA Forgetting ==
    ASSUME Inv, NEW cl \in Clients, Forgotten(cl)
    PROVE  /\ state' \in [Conns -> States] /\ inbox' \in [Conns -> Nat]
           /\ connection' \in [Clients -> Conns \cup {Invalid}]
           /\ globalClientRegistry' \in [Conns -> Clients \cup {Invalid}]
           /\ \A c \in Conns : state'[c] = IF c \in Own(cl) THEN "None" ELSE state[c]
           /\ RegistryMatchesConnections' /\ ConnectionsHeld'
<1>1. /\ state' \in [Conns -> States] /\ inbox' \in [Conns -> Nat]
      /\ connection' \in [Clients -> Conns \cup {Invalid}]
      /\ globalClientRegistry' \in [Conns -> Clients \cup {Invalid}]
  BY DEF Inv, TypeOK, ConnectionsTypeOK, Forgotten, Closed, Erased, States
<1>2. \A c \in Conns : state'[c] = IF c \in Own(cl) THEN "None" ELSE state[c]
  BY DEF Forgotten, Closed
<1>3. RegistryMatchesConnections'
  BY DEF Inv, TypeOK, Forgotten, Erased, Own, RegistryMatchesConnections
<1>4. ConnectionsHeld'
  BY <1>2, OwnIsHeld DEF Inv, TypeOK, Forgotten, Own, ConnectionsHeld, Alive, Ended
<1> QED BY <1>1, <1>2, <1>3, <1>4

(* Forgetting alone, with what else Leave and a failed Update change.      *)
LEMMA LeaveKeeps ==
    ASSUME Inv, NEW cl \in Clients, Leave(cl),
           UNCHANGED <<listener, left, client, hConn, incomingMsgs>>,
           \/ UNCHANGED <<pc, updating, source>>
           \/ pc = "failed" /\ pc' = "idle" /\ updating' = Invalid /\ source' = Invalid
    PROVE  Inv'
<1> USE DEF Posted
<1>1. Forgotten(cl) /\ quit' = quit \cup Own(cl) /\ UNCHANGED <<queue, sent, told, gone>>
  BY DEF Leave, Forgotten
<1>2. /\ state' \in [Conns -> States] /\ inbox' \in [Conns -> Nat]
      /\ connection' \in [Clients -> Conns \cup {Invalid}]
      /\ globalClientRegistry' \in [Conns -> Clients \cup {Invalid}]
      /\ \A c \in Conns : state'[c] = IF c \in Own(cl) THEN "None" ELSE state[c]
      /\ RegistryMatchesConnections' /\ ConnectionsHeld'
  BY <1>1, Forgetting
<1>3. TypeOK' /\ ThreadOK'
  <2>1. ConnectionsTypeOK'
    BY <1>1, <1>2 DEF Inv, TypeOK, ConnectionsTypeOK
  <2>2. TypeOK'
    BY <1>1, <1>2, <2>1, OwnIsHeld DEF Inv, TypeOK
  <2>3. ThreadOK'
    BY <1>1 DEF Inv, ThreadOK
  <2> QED BY <2>2, <2>3
<1>4. PostedOnce' /\ EndedIsPosted'
  BY <1>1, <1>2, OwnIsHeld DEF Inv, PostedOnce, EndedIsPosted, Ended, Alive
<1>5. HistoryOK'
  BY <1>1, <1>2, OwnIsHeld DEF Inv, TypeOK, HistoryOK
<1> QED BY <1>2, <1>3, <1>4, <1>5 DEF Inv

LEMMA JoinKeeps ==
    ASSUME Inv, NEW cl \in Clients, Join(cl), UNCHANGED <<listener, threadVars>>
    PROVE  Inv'
<1> USE DEF Posted, threadVars
<1>1. PICK c \in Conns :
        /\ state[c] = "Free"
        /\ state' = [d \in Conns |-> IF d = c THEN "Connecting"
                                     ELSE IF d \in Own(cl) THEN "None"
                                     ELSE state[d]]
        /\ inbox' = [d \in Conns |-> IF d \in Own(cl) THEN 0 ELSE inbox[d]]
        /\ queue' = Append(queue, [conn |-> c, state |-> "Connecting"])
        /\ connection' = [connection EXCEPT ![cl] = c]
        /\ globalClientRegistry' = [Erased(cl) EXCEPT ![c] = cl]
        /\ quit' = quit \cup Own(cl)
        /\ UNCHANGED <<sent, told, gone>>
  BY DEF Join
<1>2. "Connecting" \in Alive /\ ~ Posted(c, "Connecting")
  BY <1>1 DEF Inv, PostedOnce, Alive
<1>3. /\ queue' \in Seq(Event) /\ left <= Len(queue') /\ IsInjective(queue')
      /\ ToSet(queue') = ToSet(queue) \cup {[conn |-> c, state |-> "Connecting"]}
  BY <1>1, <1>2, Posting
<1>4. c \notin Own(cl) /\ \A other \in Clients : connection[other] # c
  BY <1>1 DEF Inv, Own, Alive, Ended, ConnectionsHeld
<1>5. TypeOK' /\ ThreadOK'
  BY <1>1, <1>3, OwnIsHeld DEF Inv, TypeOK, ConnectionsTypeOK, ThreadOK, States, Alive, Erased
<1>6. PostedOnce' /\ EndedIsPosted'
  BY <1>1, <1>3, <1>4, OwnIsHeld DEF Inv, PostedOnce, EndedIsPosted, Ended, Alive
<1>7. HistoryOK'
  BY <1>1, <1>3, <1>4, OwnIsHeld DEF Inv, TypeOK, HistoryOK, Alive, Ended
<1>8. RegistryMatchesConnections'
  BY <1>1, <1>4 DEF Inv, TypeOK, Erased, Own, RegistryMatchesConnections
<1>9. ConnectionsHeld'
  BY <1>1, <1>4, OwnIsHeld DEF Inv, TypeOK, Own, ConnectionsHeld, Alive, Ended
<1> QED BY <1>5, <1>6, <1>7, <1>8, <1>9 DEF Inv
-----------------------------------------------------------------------------
(* The static callback finds the client that holds the connection, for     *)
(* every connection GNS has not given up and for no other.                 *)
LEMMA Routing ==
    ASSUME Inv, NEW c \in Conns
    PROVE  /\ Handled(c) <=> state[c] \in Alive
           /\ Handled(c) => /\ ClientOf(c) \in Clients
                            /\ connection[ClientOf(c)] = c
                            /\ Own(ClientOf(c)) = {c}
  BY DEF Inv, TypeOK, RegistryMatchesConnections, ConnectionsHeld, Handled, ClientOf,
     IsConnected, Own

LEMMA StaticCallbackKeeps ==
    ASSUME Inv, StaticCallback
    PROVE  Inv'
<1> DEFINE c == Head(queue).conn
           st == Head(queue).state
           cl == ClientOf(c)
<1> USE DEF Posted, objectVars
<1>1. PICK sts : TakeEvent(sts) /\ st \in sts
  BY DEF StaticCallback, CallbackIgnores, CallbackConnected, CallbackClosed, TakeEvent
<1>2. /\ queue' \in Seq(Event) /\ left' \in Nat /\ left' <= Len(queue')
      /\ IsInjective(queue')
      /\ c \in Conns /\ st \in Alive
      /\ Head(queue) = [conn |-> c, state |-> st]
      /\ Head(queue) \in ToSet(queue)
      /\ ToSet(queue') = ToSet(queue) \ {[conn |-> c, state |-> st]}
  BY <1>1, Taking
<1>3. /\ pc = "callbacks"
      /\ UNCHANGED <<sent, listener, updating, incomingMsgs, source, quit>>
  BY <1>1 DEF TakeEvent
<1> HIDE DEF c, st, cl
<1>4. CASE CallbackIgnores
  <2>1. UNCHANGED <<state, inbox, connection, globalClientRegistry, pc, client, hConn, told, gone>>
    BY <1>4 DEF CallbackIgnores
  <2>2. TypeOK' /\ ThreadOK'
    BY <1>2, <1>3, <2>1 DEF Inv, TypeOK, ConnectionsTypeOK, ThreadOK
  <2>3. PostedOnce' /\ HistoryOK'
    BY <1>2, <1>3, <2>1 DEF Inv, PostedOnce, HistoryOK
  <2>4. st \in Ended => state[c] \notin Ended
    BY <1>2, <1>4, Routing DEF CallbackIgnores, Ended, Alive, c, st
  <2>5. EndedIsPosted'
    BY <1>2, <2>1, <2>4 DEF Inv, EndedIsPosted
  <2> QED BY <2>1, <2>2, <2>3, <2>5 DEF Inv, RegistryMatchesConnections, ConnectionsHeld
<1>5. CASE CallbackConnected
  <2>1. /\ UNCHANGED <<state, inbox, connection, globalClientRegistry, gone>>
        /\ Handled(c) /\ st = "Connected"
        /\ \/ pc' = "OnConnect" /\ client' = cl /\ hConn' = c
           \/ UNCHANGED <<pc, client, hConn>>
        /\ told' \in {told, told \cup {c}}
    BY <1>5 DEF CallbackConnected, Calls, TakeEvent, c, st, cl
  <2>2. cl \in Clients /\ state[c] \in Alive
    BY <1>2, <2>1, Routing DEF cl
  <2>3. TypeOK' /\ ThreadOK'
    BY <1>2, <1>3, <2>1, <2>2 DEF Inv, TypeOK, ConnectionsTypeOK, ThreadOK, Callbacks
  <2>4. PostedOnce' /\ EndedIsPosted'
    BY <1>2, <2>1 DEF Inv, PostedOnce, EndedIsPosted, Ended
  <2>5. HistoryOK'
    BY <1>2, <1>3, <2>1 DEF Inv, TypeOK, PostedOnce, HistoryOK
  <2> QED BY <2>1, <2>3, <2>4, <2>5 DEF Inv, RegistryMatchesConnections, ConnectionsHeld
<1>6. CASE CallbackClosed
  <2>1. /\ Forgotten(cl) /\ UNCHANGED told
        /\ Handled(c)
        /\ \/ pc' = "OnDisconnect" /\ client' = cl /\ hConn' = c
           \/ UNCHANGED <<pc, client, hConn>>
        /\ gone' \in {gone, gone \cup {c}}
    BY <1>6 DEF CallbackClosed, Calls, c, cl
  <2>2. cl \in Clients /\ Own(cl) = {c} /\ state[c] \in Alive
    BY <1>2, <2>1, Routing DEF cl
  <2>3. /\ state' \in [Conns -> States] /\ inbox' \in [Conns -> Nat]
        /\ connection' \in [Clients -> Conns \cup {Invalid}]
        /\ globalClientRegistry' \in [Conns -> Clients \cup {Invalid}]
        /\ \A d \in Conns : state'[d] = IF d \in {c} THEN "None" ELSE state[d]
        /\ RegistryMatchesConnections' /\ ConnectionsHeld'
    BY <2>1, <2>2, Forgetting
  <2>4. incomingMsgs = 0
    BY <1>3 DEF Inv, ThreadOK
  <2>5. TypeOK' /\ ThreadOK'
    <3>1. ConnectionsTypeOK'
      BY <1>2, <1>3, <2>3 DEF Inv, TypeOK, ConnectionsTypeOK
    <3>2. TypeOK'
      BY <1>2, <1>3, <2>1, <2>2, <2>3, <3>1 DEF Inv, TypeOK, Callbacks
    <3>3. ThreadOK'
      BY <1>2, <1>3, <2>1, <2>4 DEF Inv, TypeOK, ThreadOK
    <3> QED BY <3>2, <3>3
  <2>6. PostedOnce' /\ EndedIsPosted'
    BY <1>2, <2>3 DEF Inv, PostedOnce, EndedIsPosted, Ended
  <2>7. HistoryOK'
    BY <1>2, <1>3, <2>1, <2>3 DEF Inv, TypeOK, HistoryOK
  <2> QED BY <2>3, <2>5, <2>6, <2>7 DEF Inv
<1> QED BY <1>4, <1>5, <1>6 DEF StaticCallback

-----------------------------------------------------------------------------
(* The rest of Update.                                                     *)
LEMMA UpdateKeeps ==
    ASSUME Inv,
           \/ \E cl \in Clients \cup {Invalid} : EnterCallbacks(cl)
           \/ \E cl \in Clients : UpdateWithoutCallbacks(cl)
           \/ CallbacksDone
           \/ ReturnFromStatusChange \/ ReturnFromMessage
    PROVE  Inv'
<1> USE DEF TypeOK, ConnectionsTypeOK, ThreadOK, connVars, objectVars, historyVars, Callbacks
<1>1. ASSUME NEW cl \in Clients \cup {Invalid}, EnterCallbacks(cl) PROVE Inv'
  <2>1. Len(queue) \in Nat
    BY DEF Inv
  <2>2. TypeOK' /\ ThreadOK'
    BY <1>1, <2>1 DEF EnterCallbacks, Inv
  <2> QED BY <1>1, <2>2, Elsewhere DEF EnterCallbacks
<1>2. ASSUME NEW cl \in Clients, UpdateWithoutCallbacks(cl) PROVE Inv'
  <2>1. TypeOK' /\ ThreadOK'
    BY <1>2 DEF UpdateWithoutCallbacks, Inv
  <2> QED BY <1>2, <2>1, Elsewhere DEF UpdateWithoutCallbacks
<1>3. CASE CallbacksDone
  <2>1. TypeOK' /\ ThreadOK'
    BY <1>3 DEF CallbacksDone, Inv
  <2> QED BY <1>3, <2>1, Elsewhere DEF CallbacksDone
<1>4. CASE ReturnFromStatusChange \/ ReturnFromMessage
  <2>1. incomingMsgs = 0 \/ ReturnFromMessage
    BY <1>4 DEF ReturnFromStatusChange, Return, Inv
  <2>2. TypeOK' /\ ThreadOK'
    BY <1>4, <2>1 DEF ReturnFromStatusChange, ReturnFromMessage, Return, Inv
  <2> QED BY <1>4, <2>2, Elsewhere DEF ReturnFromStatusChange, ReturnFromMessage, Return
<1> QED BY <1>1, <1>2, <1>3, <1>4

LEMMA ReceiveLoopKeeps ==
    ASSUME Inv, ReceiveLoop
    PROVE  Inv'
<1> USE DEF TypeOK, ConnectionsTypeOK, ThreadOK, connVars, objectVars, historyVars, Callbacks
<1>1. CASE Receive
  <2> DEFINE c == connection[updating]
             n == IF inbox[c] < MaxMsgs THEN inbox[c] ELSE MaxMsgs
  <2>1. /\ c \in Conns /\ state[c] \in Alive /\ updating \in Clients
        /\ n > 0 /\ incomingMsgs' = n /\ source' = c
        /\ inbox' = [inbox EXCEPT ![c] = @ - n]
        /\ UNCHANGED <<pc, updating, state, queue, sent, connection, globalClientRegistry,
                       listener, left, client, hConn, told, quit, gone>>
    BY <1>1 DEF Receive, Polls, Readable, IsConnected, Inv
  <2>2. c \notin gone
    BY <2>1 DEF Inv, HistoryOK, Alive, Ended
  <2>3. inbox[c] \in Nat /\ n \in 0 .. MaxMsgs /\ n <= inbox[c]
    BY <2>1 DEF Inv
  <2> HIDE DEF n
  <2>4. TypeOK' /\ ThreadOK'
    BY <1>1, <2>1, <2>2, <2>3 DEF Inv, Receive, Polls
  <2> QED BY <2>1, <2>4, Elsewhere
<1>2. CASE ReceiveNothing \/ ReceiveFails
  <2>1. TypeOK' /\ ThreadOK'
    BY <1>2 DEF ReceiveNothing, ReceiveFails, Polls, Inv
  <2> QED BY <1>2, <2>1, Elsewhere DEF ReceiveNothing, ReceiveFails, Polls
<1>3. CASE UpdateThrows
  <2>1. updating \in Clients
    BY <1>3 DEF UpdateThrows, Inv
  <2> QED BY <1>3, <2>1, LeaveKeeps DEF UpdateThrows
<1>4. CASE Deliver
  <2>1. TypeOK' /\ ThreadOK'
    BY <1>4 DEF Deliver, Calls, Inv
  <2> QED BY <1>4, <2>1, Elsewhere DEF Deliver
<1> QED BY <1>1, <1>2, <1>3, <1>4 DEF ReceiveLoop

LEMMA AppCallsKeep ==
    ASSUME Inv, AppCalls
    PROVE  Inv'
<1>1. PICK cl \in Clients :
        \/ (Join(cl) \/ JoinFails(cl) \/ Leave(cl)) /\ UNCHANGED listener
        \/ \E l \in BOOLEAN : SetListener(cl, l)
  BY DEF AppCalls
<1>2. UNCHANGED threadVars
  BY DEF AppCalls
<1>3. CASE Join(cl) /\ UNCHANGED listener
  BY <1>2, <1>3, JoinKeeps
<1>4. CASE (JoinFails(cl) \/ Leave(cl)) /\ UNCHANGED listener
  BY <1>2, <1>4, LeaveKeeps DEF JoinFails, threadVars
<1>5. ASSUME NEW l \in BOOLEAN, SetListener(cl, l) PROVE Inv'
  <2>1. TypeOK' /\ ThreadOK'
    BY <1>2, <1>5 DEF SetListener, Inv, TypeOK, ConnectionsTypeOK, ThreadOK, threadVars,
       connVars, objectVars, historyVars
  <2> QED BY <1>2, <1>5, <2>1, Elsewhere DEF SetListener, connVars, objectVars
<1> QED BY <1>1, <1>3, <1>4, <1>5

(* The steps of the specification, sorted the way the lemmas are.          *)
LEMMA NextCases ==
    ASSUME Next
    PROVE  \/ ServiceThread /\ UNCHANGED clientVars
           \/ AppCalls
           \/ \E cl \in Clients \cup {Invalid} : EnterCallbacks(cl)
           \/ \E cl \in Clients : UpdateWithoutCallbacks(cl)
           \/ CallbacksDone
           \/ ReturnFromStatusChange \/ ReturnFromMessage
           \/ StaticCallback
           \/ ReceiveLoop
  BY Zenon DEF Next, RunCallbacks, Update, Library

THEOREM InvStep == Inv /\ [Next]_vars => Inv'
<1> SUFFICES ASSUME Inv, [Next]_vars PROVE Inv'
  OBVIOUS
<1>1. CASE Next
  BY <1>1, NextCases, ServiceThreadKeeps, AppCallsKeep, UpdateKeeps, StaticCallbackKeeps,
     ReceiveLoopKeeps
<1>2. CASE UNCHANGED vars
  <2>1. TypeOK' /\ ThreadOK'
    BY <1>2 DEF Inv, TypeOK, ConnectionsTypeOK, ThreadOK, vars, connVars, clientVars,
       objectVars, threadVars, historyVars, Callbacks
  <2> QED BY <1>2, <2>1, Elsewhere DEF vars, connVars, clientVars, objectVars
<1> QED BY <1>1, <1>2

(* The inductive invariant of the clients.                                 *)
THEOREM Invariance == Spec => []Inv
  BY InvInit, InvStep, PTL DEF Spec

-----------------------------------------------------------------------------
(* Every variable keeps its type, whatever the service thread, the         *)
(* application and its listeners do.                                       *)
THEOREM TypeCorrect == Spec => []TypeOK
<1>1. Inv => TypeOK
  BY DEF Inv
<1> QED BY <1>1, Invariance, PTL

(* The registry leads from a connection to the client that holds it        *)
(* (Client.cpp 61, 86, 92, 186).                                           *)
THEOREM RegistryCorrect == Spec => []RegistryMatchesConnections
<1>1. Inv => RegistryMatchesConnections
  BY DEF Inv
<1> QED BY <1>1, Invariance, PTL

(* No connection is leaked and none is kept when it is closed              *)
(* (Client.cpp 55, 80, 93, 187).                                           *)
THEOREM NothingLeaks == Spec => []ConnectionsHeld
<1>1. Inv => ConnectionsHeld
  BY DEF Inv
<1> QED BY <1>1, Invariance, PTL

(* The change that makes a client let go of a dead connection is on its    *)
(* way (Client.cpp 183).                                                   *)
THEOREM LossesAreNews == Spec => []LossIsPosted
<1>1. Inv => LossIsPosted
  BY DEF Inv, TypeOK, EndedIsPosted, LossIsPosted, IsConnected
<1> QED BY <1>1, Invariance, PTL

-----------------------------------------------------------------------------
(* Which steps call a listener.                                            *)
LEMMA ListenerCalls ==
    ASSUME Inv, [Next]_vars, pc' # pc
    PROVE  /\ pc' = "OnConnect" => CallbackConnected
           /\ pc' = "OnDisconnect" => CallbackClosed
           /\ pc' = "OnMessageReceived" => Deliver
<1>1. Next
  BY DEF vars, clientVars, threadVars
<1>2. pc' \notin Callbacks \/ StaticCallback \/ ReceiveLoop
  BY <1>1, NextCases DEF clientVars, threadVars, AppCalls, EnterCallbacks,
     UpdateWithoutCallbacks, CallbacksDone, ReturnFromStatusChange, ReturnFromMessage, Return,
     Callbacks
<1>3. CASE StaticCallback
  BY <1>3 DEF StaticCallback, CallbackIgnores, CallbackConnected, CallbackClosed, Calls
<1>4. CASE ReceiveLoop
  BY <1>4 DEF ReceiveLoop, Receive, ReceiveNothing, ReceiveFails, UpdateThrows, Deliver, Calls
<1> QED BY <1>2, <1>3, <1>4 DEF Callbacks

(* OnConnect comes at most once, OnDisconnect at most once and last, and   *)
(* neither after Leave (Client.cpp 158 to 194).                            *)
THEOREM OrderCorrect == Spec => StatusChangesInOrder
<1> DEFINE c == Head(queue).conn
<1>1. ASSUME Inv, [Next]_vars, pc' # pc, pc' = "OnConnect"
      PROVE  hConn' \notin told \cup quit \cup gone
  <2>1. CallbackConnected
    BY <1>1, ListenerCalls
  <2>2. /\ TakeEvent({"Connected"}) /\ Head(queue).state = "Connected"
        /\ Handled(c) /\ hConn' = c
    BY <1>1, <2>1 DEF CallbackConnected, Calls, TakeEvent
  <2>3. c \in Conns /\ Posted(c, "Connected")
    <3>1. /\ c \in Conns
          /\ Head(queue) = [conn |-> c, state |-> Head(queue).state]
          /\ Head(queue) \in ToSet(queue)
      BY <1>1, <2>2, Taking
    <3> QED BY <2>2, <3>1 DEF Posted
  <2>4. state[c] \in Alive
    BY <1>1, <2>2, <2>3, Routing
  <2> QED BY <1>1, <2>2, <2>3, <2>4 DEF Inv, HistoryOK, Alive, Ended
<1>2. ASSUME Inv, [Next]_vars, pc' # pc, pc' = "OnDisconnect"
      PROVE  hConn' \notin quit \cup gone
  <2>1. CallbackClosed
    BY <1>2, ListenerCalls
  <2>2. TakeEvent(Ended) /\ Handled(c) /\ hConn' = c
    BY <1>2, <2>1 DEF CallbackClosed, Calls
  <2>3. c \in Conns
    BY <1>2, <2>2, Taking
  <2>4. state[c] \in Alive
    BY <1>2, <2>2, <2>3, Routing
  <2> QED BY <1>2, <2>2, <2>4 DEF Inv, HistoryOK, Alive, Ended
<1>3. Inv /\ [Next]_vars
        => [/\ pc' # pc /\ pc' = "OnConnect" => hConn' \notin told \cup quit \cup gone
            /\ pc' # pc /\ pc' = "OnDisconnect" => hConn' \notin quit \cup gone]_vars
  BY <1>1, <1>2
<1> QED BY <1>3, Invariance, PTL DEF Spec, StatusChangesInOrder

(* Nothing follows OnDisconnect, not even mail that had arrived before     *)
(* (Client.cpp 120 to 126).                                                *)
THEOREM DisconnectCorrect == Spec => DisconnectIsLast
<1>1. ASSUME Inv, [Next]_vars, pc' # pc, pc' \in Callbacks
      PROVE  hConn' \notin gone
  <2>1. CASE pc' = "OnMessageReceived"
    BY <1>1, <2>1, ListenerCalls DEF Deliver, Calls, Inv, ThreadOK
  <2>2. CASE pc' \in {"OnConnect", "OnDisconnect"}
    <3>1. /\ hConn' = Head(queue).conn /\ Handled(Head(queue).conn)
          /\ \E sts : TakeEvent(sts)
      BY <1>1, <2>2, ListenerCalls DEF CallbackConnected, CallbackClosed, Calls
    <3>2. Head(queue).conn \in Conns
      BY <1>1, <3>1, Taking
    <3> QED BY <1>1, <3>1, <3>2, Routing DEF Inv, HistoryOK, Alive, Ended
  <2> QED BY <1>1, <2>1, <2>2 DEF Callbacks
<1>2. Inv /\ [Next]_vars => [pc' # pc /\ pc' \in Callbacks => hConn' \notin gone]_vars
  BY <1>1
<1> QED BY <1>2, Invariance, PTL DEF Spec, DisconnectIsLast
-----------------------------------------------------------------------------
(* Refinement.  What the steps do to what Sessions sees.                   *)
Over == {c \in Conns : state[c] = "None"}

LEMMA OverAfter ==
    ASSUME Inv, NEW cl \in Clients, NEW c \in Conns \cup {Invalid}, c = Invalid \/ state[c] = "Free",
           \A d \in Conns : state'[d] = IF d = c THEN "Connecting"
                                        ELSE IF d \in Own(cl) THEN "None" ELSE state[d]
    PROVE  Over' = S!Over(cl)
<1>1. Own(cl) \subseteq Conns /\ c \notin Own(cl) /\ c \notin Over
  BY OwnIsHeld DEF Inv, TypeOK, Own, Over, ConnectionsHeld, Alive, Ended
<1> QED BY <1>1 DEF S!Over, Own, Over

LEMMA JoinBegins ==
    ASSUME Inv, NEW cl \in Clients, Join(cl)
    PROVE  S!Next
<1>1. PICK c \in Conns :
        /\ state[c] = "Free"
        /\ state' = [d \in Conns |-> IF d = c THEN "Connecting"
                                     ELSE IF d \in Own(cl) THEN "None"
                                     ELSE state[d]]
        /\ connection' = [connection EXCEPT ![cl] = c]
        /\ UNCHANGED <<told, gone>>
  BY DEF Join
<1>2. Over' = S!Over(cl)
  BY <1>1, OverAfter
<1>3. c \notin Over /\ \A other \in Clients : connection[other] # c
  BY <1>1 DEF Inv, Over, ConnectionsHeld, Alive, Ended
<1>4. S!Begin(cl, c)
  BY <1>1, <1>2, <1>3 DEF S!Begin, Over
<1> QED BY <1>4 DEF S!Next

LEMMA LeaveLeaves ==
    ASSUME Inv, NEW cl \in Clients, Leave(cl)
    PROVE  S!Next
<1>1. Over' = S!Over(cl)
  BY OverAfter DEF Leave, Closed
<1>2. S!Leave(cl)
  BY <1>1 DEF Leave, S!Leave, Over
<1> QED BY <1>2 DEF S!Next

LEMMA CallbackTellsOrLoses ==
    ASSUME Inv, StaticCallback
    PROVE  S!Next \/ UNCHANGED S!vars
<1> DEFINE c  == Head(queue).conn
           cl == ClientOf(c)
<1>1. CASE CallbackIgnores
  BY <1>1 DEF CallbackIgnores, objectVars, S!vars
<1>2. CASE CallbackConnected
  <2>1. /\ TakeEvent({"Connected"}) /\ Handled(c) /\ Head(queue).state = "Connected"
        /\ told' = IF listener[cl] THEN told \cup {c} ELSE told
        /\ UNCHANGED <<state, connection, gone>>
    BY <1>2 DEF CallbackConnected, TakeEvent, objectVars
  <2>2. c \in Conns /\ Posted(c, "Connected")
    BY <2>1, Taking DEF Posted
  <2>3. cl \in Clients /\ connection[cl] = c /\ c \notin told \cup {Invalid}
    BY <2>1, <2>2, Routing DEF Inv, HistoryOK
  <2>4. S!Tell(cl) \/ UNCHANGED S!vars
    BY <2>1, <2>3 DEF S!Tell, S!vars
  <2> QED BY <2>3, <2>4 DEF S!Next
<1>3. CASE CallbackClosed
  <2>1. /\ TakeEvent(Ended) /\ Handled(c) /\ Forgotten(cl)
        /\ gone' = IF listener[cl] THEN gone \cup {c} ELSE gone
        /\ UNCHANGED told
    BY <1>3 DEF CallbackClosed
  <2>2. c \in Conns
    BY <2>1, Taking
  <2>3. cl \in Clients /\ connection[cl] = c /\ c # Invalid
    BY <2>1, <2>2, Routing
  <2>4. PICK x \in Clients : x = cl
    BY <2>3
  <2>5. Over' = S!Over(x)
    BY <2>1, <2>3, <2>4, OverAfter DEF Forgotten, Closed
  <2>6. S!Lose(x)
    BY <2>1, <2>3, <2>4, <2>5 DEF S!Lose, Forgotten, Over
  <2> QED BY <2>6 DEF S!Next
<1> QED BY <1>1, <1>2, <1>3 DEF StaticCallback

LEMMA ServiceThreadUnseen ==
    ASSUME Inv, ServiceThread, UNCHANGED clientVars
    PROVE  UNCHANGED S!vars
<1>1. PICK c \in Conns : PeerAccepts(c) \/ Ends(c) \/ MessageArrives(c)
  BY DEF ServiceThread
<1>2. \A d \in Conns : state'[d] = "None" <=> state[d] = "None"
  BY <1>1 DEF PeerAccepts, Established, Ends, Ended, MessageArrives, Inv, TypeOK,
     ConnectionsTypeOK
<1> QED BY <1>2 DEF S!vars, clientVars, objectVars, historyVars

LEMMA ReceiveLoopSeen ==
    ASSUME Inv, ReceiveLoop
    PROVE  S!Next \/ UNCHANGED S!vars
<1>1. CASE UpdateThrows
  <2>1. updating \in Clients /\ Leave(updating)
    BY <1>1 DEF UpdateThrows, Inv, ThreadOK
  <2> QED BY <2>1, LeaveLeaves
<1>2. CASE Receive \/ ReceiveNothing \/ ReceiveFails \/ Deliver
  BY <1>2 DEF Receive, ReceiveNothing, ReceiveFails, Deliver, Polls, connVars, objectVars,
     historyVars, S!vars
<1> QED BY <1>1, <1>2 DEF ReceiveLoop

LEMMA AppCallsSeen ==
    ASSUME Inv, AppCalls
    PROVE  S!Next \/ UNCHANGED S!vars
<1>1. PICK cl \in Clients :
        Join(cl) \/ Leave(cl) \/ \E l \in BOOLEAN : SetListener(cl, l)
  BY DEF AppCalls, JoinFails
<1>2. CASE \E l \in BOOLEAN : SetListener(cl, l)
  BY <1>2 DEF SetListener, connVars, objectVars, historyVars, S!vars
<1> QED BY <1>1, <1>2, JoinBegins, LeaveLeaves

(* The clients implement the abstract specification of sessions, for any   *)
(* number of clients and connections.                                      *)
THEOREM Implementation == Spec => ImplementsSessions
<1>1. Init => S!Init
  BY DEF Init, ConnectionsInit, S!Init
<1>2. ASSUME Inv, [Next]_vars
      PROVE  [S!Next]_(S!vars)
  <2>1. CASE UNCHANGED vars
    BY <2>1 DEF vars, connVars, clientVars, objectVars, historyVars, S!vars
  <2>2. CASE \/ \E cl \in Clients \cup {Invalid} : EnterCallbacks(cl)
             \/ \E cl \in Clients : UpdateWithoutCallbacks(cl)
             \/ CallbacksDone \/ ReturnFromStatusChange \/ ReturnFromMessage
    BY <2>2 DEF EnterCallbacks, UpdateWithoutCallbacks, CallbacksDone, ReturnFromStatusChange,
       ReturnFromMessage, Return, connVars, objectVars, historyVars, S!vars
  <2>3. CASE Next
    BY <1>2, <2>2, <2>3, NextCases, ServiceThreadUnseen, AppCallsSeen, CallbackTellsOrLoses,
       ReceiveLoopSeen
  <2> QED BY <1>2, <2>1, <2>3
<1> QED BY <1>1, <1>2, Invariance, PTL DEF Spec, S!Spec, ImplementsSessions
-----------------------------------------------------------------------------
(* What the steps of Sessions add up to.                                   *)
SessionsInv ==
    /\ connection = [cl \in Clients |-> connection[cl]]
    /\ \A cl, other \in Clients :
        cl # other /\ connection[cl] = connection[other] => connection[cl] = Invalid
    /\ Invalid \notin Over /\ \A cl \in Clients : connection[cl] \notin Over
    /\ gone \subseteq Over /\ Invalid \notin told
    /\ \A c \in told : c \in Over \/ \E cl \in Clients : c = connection[cl]

Proceeds ==
    /\ SessionsInv'
    /\ Over \subseteq Over' /\ told \subseteq told' /\ gone \subseteq gone'
    /\ \A cl \in Clients : connection[cl] \in {connection'[cl], Invalid} \cup Over'

LEMMA SessionsSeen == SessionsInv => S!OneSession
<1> SUFFICES ASSUME SessionsInv PROVE S!OneSession
  OBVIOUS
<1>1. told \subseteq Over \cup {connection[cl] : cl \in Clients}
  BY DEF SessionsInv
<1> QED BY <1>1 DEF SessionsInv, S!OneSession, Over

(* A client that moves from its session to another one or to none.         *)
LEMMA MovingProceeds ==
    ASSUME SessionsInv, NEW cl \in Clients, NEW x, x \notin Over,
           x = Invalid \/ \A other \in Clients : connection[other] # x,
           connection' = [connection EXCEPT ![cl] = x],
           Over' = Over \cup ({connection[cl]} \ {Invalid}), told' = told,
           gone \subseteq gone' /\ gone' \subseteq Over'
    PROVE  Proceeds
<1>1. /\ connection' = [k \in Clients |-> connection'[k]] /\ connection'[cl] = x
      /\ \A k \in Clients \ {cl} : connection'[k] = connection[k]
  BY DEF SessionsInv
<1>2. \A k, other \in Clients :
        k # other /\ connection'[k] = connection'[other] => connection'[k] = Invalid
  BY <1>1 DEF SessionsInv
<1>3. Invalid \notin Over' /\ Over \subseteq Over'
  BY DEF SessionsInv
<1>4. \A k \in Clients : connection'[k] \notin Over'
  <2>1. TAKE k \in Clients
  <2>2. CASE k = cl
    <3>1. x # connection[cl] \/ x = Invalid
      OBVIOUS
    <3> QED BY <1>1, <1>3, <2>2, <3>1
  <2>3. CASE k # cl
    <3>1. connection[k] # connection[cl] \/ connection[k] = Invalid
      BY <2>3 DEF SessionsInv
    <3> QED BY <1>1, <1>3, <2>3, <3>1 DEF SessionsInv
  <2> QED BY <2>2, <2>3
<1>5. \A k \in Clients : connection[k] \in {connection'[k], Invalid} \cup Over'
  BY <1>1
<1>6. \A c \in told' : c \in Over' \/ \E k \in Clients : c = connection'[k]
  <2>1. TAKE c \in told'
  <2>2. CASE c \in Over
    BY <1>3, <2>2
  <2>3. CASE \E k \in Clients : c = connection[k]
    <3>1. PICK k \in Clients : c = connection[k]
      BY <2>3
    <3>2. c # Invalid
      BY DEF SessionsInv
    <3>3. CASE k = cl
      BY <3>1, <3>2, <3>3
    <3>4. CASE k # cl
      BY <1>1, <3>1, <3>4
    <3> QED BY <3>3, <3>4
  <2> QED BY <2>2, <2>3 DEF SessionsInv
<1> QED BY <1>1, <1>2, <1>3, <1>4, <1>5, <1>6 DEF Proceeds, SessionsInv
LEMMA SessionsStep ==
    ASSUME SessionsInv, [S!Next]_(S!vars)
    PROVE  Proceeds
<1>1. ASSUME NEW cl \in Clients, NEW c \in Conns, S!Begin(cl, c) PROVE Proceeds
  <2>1. /\ c \notin Over /\ \A other \in Clients : connection[other] # c
        /\ connection' = [connection EXCEPT ![cl] = c]
        /\ Over' = Over \cup ({connection[cl]} \ {Invalid})
        /\ told' = told /\ gone' = gone
    BY <1>1 DEF S!Begin, S!Over, Over
  <2>2. gone \subseteq gone' /\ gone' \subseteq Over'
    BY <2>1 DEF SessionsInv
  <2> QED BY <2>1, <2>2, MovingProceeds
<1>2. ASSUME NEW cl \in Clients, S!Leave(cl) \/ S!Lose(cl) PROVE Proceeds
  <2>1. /\ connection' = [connection EXCEPT ![cl] = Invalid]
        /\ Over' = Over \cup ({connection[cl]} \ {Invalid})
        /\ told' = told
        /\ gone' \in {gone, gone \cup ({connection[cl]} \ {Invalid})}
    BY <1>2 DEF S!Leave, S!Lose, S!Over, Over
  <2>2. Invalid \notin Over /\ gone \subseteq gone' /\ gone' \subseteq Over'
    BY <2>1 DEF SessionsInv
  <2> QED BY <2>1, <2>2, MovingProceeds
<1>3. ASSUME NEW cl \in Clients, S!Tell(cl) PROVE Proceeds
  <2>1. /\ connection[cl] # Invalid /\ told' = told \cup {connection[cl]}
        /\ connection' = connection /\ Over' = Over /\ gone' = gone
    BY <1>3 DEF S!Tell, Over
  <2> QED BY <2>1 DEF Proceeds, SessionsInv
<1>4. CASE UNCHANGED S!vars
  <2>1. connection' = connection /\ Over' = Over /\ gone' = gone /\ told' = told
    BY <1>4 DEF S!vars, Over
  <2> QED BY <2>1 DEF Proceeds, SessionsInv
<1> QED BY <1>1, <1>2, <1>3, <1>4 DEF S!Next

(* No two Client objects share a connection, none is in a session that is  *)
(* over, OnDisconnect is heard only of sessions that are over and OnConnect*)
(* only of sessions that have begun; and no session comes back, whatever   *)
(* is joined, left, lost or refused in whatever order (Client::Join, Leave *)
(* and ConnectionStatusChangedCallback).                                   *)
THEOREM SessionsCorrect == Spec => []S!OneSession /\ S!OverForEver
<1>1. S!Init => SessionsInv
  BY DEF S!Init, SessionsInv, Over
<1>2. SessionsInv /\ [S!Next]_(S!vars) => SessionsInv'
  BY SessionsStep DEF Proceeds
<1>3. SessionsInv /\ [S!Next]_(S!vars) =>
        [/\ Over \subseteq Over' /\ told \subseteq told' /\ gone \subseteq gone'
         /\ \A cl \in Clients : connection[cl] \in {connection'[cl], Invalid} \cup Over'
        ]_(S!vars)
  BY SessionsStep DEF Proceeds
<1>4. S!Spec => []SessionsInv
  BY <1>1, <1>2, PTL DEF S!Spec
<1>5. S!Spec => S!OverForEver
  BY <1>3, <1>4, PTL DEF S!Spec, S!OverForEver, Over
<1>6. Spec => S!Spec
  BY Implementation DEF ImplementsSessions
<1> QED BY <1>4, <1>5, <1>6, SessionsSeen, PTL
=============================================================================
