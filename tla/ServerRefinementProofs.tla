----------------------- MODULE ServerRefinementProofs -----------------------
(***************************************************************************)
(* Server implements Membership: every step is one of Membership's, or it  *)
(* changes nothing Membership sees.                                        *)
(***************************************************************************)
EXTENDS ServerProofs

(* Clients have been admitted, nobody is being admitted again, and whoever *)
(* has been admitted can never be asked about again.                       *)
AdmittedInv ==
    /\ \A s \in Servers : clients[s] \subseteq admitted /\ accepting[s] \notin admitted
    /\ \A c \in admitted : state[c] \notin {"Free", "Connecting"}

LEMMA AdmittedInit == Init => AdmittedInv
  BY DEF Init, AdmittedInv

(* What the steps do to what Membership sees: they restart a server, admit *)
(* one client, drop one, or do none of these.                              *)
Resets(s) ==
    /\ clients' = [clients EXCEPT ![s] = {}]
    /\ admitted' = admitted
    /\ \E k \in Sockets \cup {Invalid}, g \in Groups \cup {Invalid} :
        /\ (k = Invalid) <=> (g = Invalid)
        /\ socket' = [socket EXCEPT ![s] = k]
        /\ pollGroup' = [pollGroup EXCEPT ![s] = g]

Admits(s, c) ==
    /\ IsRunning(s) /\ c = accepting[s] /\ state'[c] \notin {"Free", "Connecting"}
    /\ \A r \in Servers : accepting'[r] = Invalid
    /\ clients' = [clients EXCEPT ![s] = @ \cup {c}]
    /\ admitted' = admitted \cup {c}
    /\ UNCHANGED <<socket, pollGroup>>

Drops(s, c) ==
    /\ clients' = [clients EXCEPT ![s] = @ \ {c}]
    /\ UNCHANGED <<admitted, socket, pollGroup>>

seenVars == <<clients, admitted, socket, pollGroup>>

LEMMA SeenSteps ==
    ASSUME Inv, [Next]_vars
    PROVE  \/ \E s \in Servers : Resets(s)
           \/ \E s \in Servers, c \in Conns : Admits(s, c) \/ Drops(s, c)
           \/ UNCHANGED seenVars
<1> USE DEF seenVars, socketVars, objectVars, serverVars, historyVars
<1>1. ASSUME NEW s \in Servers, Stop(s), UNCHANGED historyVars PROVE Resets(s)
  BY <1>1 DEF Stop, Becomes, Resets
<1>2. ASSUME NEW s \in Servers, StartWithoutPollGroup(s), UNCHANGED historyVars PROVE Resets(s)
  BY <1>2 DEF StartWithoutPollGroup, Becomes, Resets
<1>3. ASSUME NEW s \in Servers, Start(s), UNCHANGED historyVars PROVE Resets(s)
  <2>1. PICK k \in Fresh(Sockets), g \in Fresh(Groups) : Becomes(s, k, g)
    BY <1>3 DEF Start
  <2>2. k \in Sockets /\ g \in Groups /\ k # Invalid /\ g # Invalid
    BY SocketsAssumption DEF Fresh
  <2> QED BY <1>3, <2>1, <2>2 DEF Becomes, Resets
<1>4. CASE AppCalls
  <2>1. PICK s \in Servers :
          \/ /\ Start(s) \/ StartWithoutSocket(s) \/ StartWithoutPollGroup(s) \/ Stop(s)
             /\ UNCHANGED historyVars
          \/ \E c \in Conns : AcceptClient(s, c) \/ AcceptRefused(s, c)
          \/ \E c \in Conns : RemoveClient(s, c)
          \/ \E l \in BOOLEAN : SetListener(s, l)
    BY <1>4 DEF AppCalls
  <2>3. ASSUME NEW c \in Conns, RemoveClient(s, c) PROVE Drops(s, c)
    BY <2>3 DEF RemoveClient, Dropped, Drops
  <2>4. ASSUME NEW c \in Conns, AcceptClient(s, c) \/ AcceptRefused(s, c)
        PROVE  UNCHANGED seenVars
    BY <2>4 DEF AcceptClient, AcceptRefused
  <2>5. ASSUME NEW l \in BOOLEAN, SetListener(s, l) PROVE UNCHANGED seenVars
    BY <2>5 DEF SetListener
  <2> QED BY <1>1, <1>2, <1>3, <2>1, <2>3, <2>4, <2>5 DEF StartWithoutSocket
<1>5. CASE UpdateThrows
  BY <1>1, <1>5 DEF UpdateThrows, Inv, TypeInv, ThreadOK
<1>6. CASE CallbackClosed
  <2>1. /\ ServerOf(Head(queue).conn) \in Servers /\ Head(queue).conn \in Conns
    BY <1>6, EventHandled DEF CallbackClosed
  <2>2. Drops(ServerOf(Head(queue).conn), Head(queue).conn)
    BY <1>6 DEF CallbackClosed, Dropped, Drops
  <2> QED BY <2>1, <2>2
<1>7. CASE ServiceThread /\ UNCHANGED serverVars
  BY <1>7
<1>8. ASSUME NEW s \in Servers \cup {Invalid}, EnterCallbacks(s) PROVE UNCHANGED seenVars
  BY <1>8 DEF EnterCallbacks
<1>9. ASSUME NEW s \in Servers, UpdateWithoutCallbacks(s) PROVE UNCHANGED seenVars
  BY <1>9 DEF UpdateWithoutCallbacks
<1>10. CASE CallbacksDone
  BY <1>10 DEF CallbacksDone
<1>11. CASE CallbackIgnores \/ CallbackConnecting
  BY <1>11 DEF CallbackIgnores, CallbackConnecting
<1>12. CASE ListenerReturns
  BY <1>12 DEF ListenerReturns, ReturnFromConnectionRequest, ReturnFromDisconnect,
     ReturnFromMessage, Return
<1>13. CASE Receive \/ ReceiveNothing \/ ReceiveFails \/ Deliver
  BY <1>13 DEF Receive, ReceiveNothing, ReceiveFails, Deliver
<1>14. CASE UNCHANGED vars
  BY <1>14 DEF vars
<1>15. CASE InsideAccept
  <2>1. PICK s \in Servers : EnterPollGroup(s) \/ AcceptUndone(s) \/ AcceptDone(s)
    BY <1>15 DEF InsideAccept
  <2>2. CASE EnterPollGroup(s) \/ AcceptUndone(s)
    BY <2>2 DEF EnterPollGroup, AcceptUndone
  <2>3. CASE AcceptDone(s)
    <3>1. /\ accepting[s] # Invalid /\ accepting' = [accepting EXCEPT ![s] = Invalid]
          /\ clients' = [clients EXCEPT ![s] = @ \cup {accepting[s]}]
          /\ admitted' = admitted \cup {accepting[s]}
          /\ UNCHANGED <<state, socket, pollGroup>>
      BY <2>3 DEF AcceptDone, connVars
    <3>2. /\ IsRunning(s) /\ accepting[s] \in Conns
          /\ state[accepting[s]] \notin {"Free", "Connecting"}
      BY <3>1 DEF Inv, ConnInv, AcceptingOwn, TypeInv, TypeOK, Ended
    <3>3. \A r \in Servers : accepting'[r] = Invalid
      BY <3>1 DEF Inv, TypeInv, TypeOK, ThreadOK
    <3>4. Admits(s, accepting[s])
      BY <3>1, <3>2, <3>3 DEF Admits
    <3> QED BY <3>2, <3>4
  <2> QED BY <2>1, <2>2, <2>3
<1> QED BY <1>4, <1>5, <1>6, <1>7, <1>8, <1>9, <1>10, <1>11, <1>12, <1>13, <1>14, <1>15, NextCases
        DEF StaticCallback, ReceiveLoop

(* Only a connection that is asking begins to be accepted.                 *)
LEMMA AcceptingSteps ==
    ASSUME Inv, [Next]_vars, NEW r \in Servers,
           accepting'[r] # accepting[r], accepting'[r] # Invalid
    PROVE  accepting'[r] \in Conns /\ state[accepting'[r]] = "Connecting"
<1>0. accepting \in [Servers -> Conns \cup {Invalid}]
  BY DEF Inv, TypeInv, TypeOK
<1>1. AppCalls \/ InsideAccept
  BY NextCases, Zenon DEF vars, serverVars, EnterCallbacks, UpdateWithoutCallbacks,
     CallbacksDone, StaticCallback, CallbackIgnores, CallbackConnecting, CallbackClosed,
     TakeEvent, ListenerReturns, ReturnFromConnectionRequest, ReturnFromDisconnect,
     ReturnFromMessage, Return, ReceiveLoop, Receive, ReceiveNothing, ReceiveFails,
     UpdateThrows, Deliver
<1>2. CASE AppCalls
  <2>1. PICK s \in Servers, c \in Conns : AcceptClient(s, c)
    BY <1>2, Zenon DEF AppCalls, AcceptRefused, RemoveClient, SetListener
  <2> QED BY <1>0, <2>1 DEF AcceptClient
<1>3. CASE InsideAccept
  BY <1>0, <1>3 DEF InsideAccept, EnterPollGroup, AcceptUndone, AcceptDone
<1> QED BY <1>1, <1>2, <1>3

(* A connection that has got past its request never goes back to one.      *)
LEMMA StatesAdvance ==
    ASSUME Inv, [Next]_vars, NEW d \in Conns, state[d] \notin {"Free", "Connecting"}
    PROVE  state'[d] \notin {"Free", "Connecting"}
<1> USE DEF socketVars, objectVars, connVars
<1>0. state \in [Conns -> States]
  BY DEF Inv, TypeInv, TypeOK, ConnectionsTypeOK
<1>1. ASSUME NEW C, Closed(C) PROVE state'[d] \notin {"Free", "Connecting"}
  BY <1>1 DEF Closed
<1>2. CASE ServiceThread
  BY <1>0, <1>2 DEF ServiceThread, PeerConnects, Created, Ends, Ended, MessageArrives
<1>3. CASE AppCalls
  <2>1. PICK s \in Servers :
          \/ Start(s) \/ StartWithoutSocket(s) \/ StartWithoutPollGroup(s) \/ Stop(s)
          \/ \E c \in Conns : \/ AcceptClient(s, c) \/ AcceptRefused(s, c)
                              \/ RemoveClient(s, c)
          \/ \E l \in BOOLEAN : SetListener(s, l)
    BY <1>3 DEF AppCalls
  <2>2. ASSUME Start(s) \/ StartWithoutSocket(s) \/ StartWithoutPollGroup(s) \/ Stop(s)
        PROVE  \E C : Closed(C)
    BY <2>2, Zenon DEF Start, StartWithoutSocket, StartWithoutPollGroup, Stop, Becomes
  <2>3. ASSUME NEW c \in Conns, AcceptClient(s, c)
        PROVE  state'[d] \notin {"Free", "Connecting"}
    BY <1>0, <2>3 DEF AcceptClient, Established
  <2>4. ASSUME NEW c \in Conns, AcceptRefused(s, c) \/ RemoveClient(s, c)
        PROVE  Closed({c})
    BY <2>4 DEF AcceptRefused, RemoveClient, Dropped
  <2>5. ASSUME NEW l \in BOOLEAN, SetListener(s, l) PROVE state' = state
    BY <2>5 DEF SetListener
  <2> QED BY <1>1, <2>1, <2>2, <2>3, <2>4, <2>5
<1>4. CASE StaticCallback
  <2>1. state' = state \/ \E C : Closed(C)
    BY <1>4 DEF StaticCallback, CallbackIgnores, CallbackConnecting, CloseUnlessClient,
       CallbackClosed, Dropped
  <2> QED BY <1>1, <2>1
<1>5. CASE ListenerReturns
  <2>1. state' = state \/ \E C : Closed(C)
    BY <1>5 DEF ListenerReturns, ReturnFromConnectionRequest, CloseUnlessClient,
       ReturnFromDisconnect, ReturnFromMessage
  <2> QED BY <1>1, <2>1
<1>6. CASE ReceiveLoop
  <2>1. state' = state \/ \E C : Closed(C)
    BY <1>6, Zenon DEF ReceiveLoop, Receive, ReceiveNothing, ReceiveFails, Deliver,
       UpdateThrows, Stop, Becomes
  <2> QED BY <1>1, <2>1
<1>7. ASSUME NEW s \in Servers \cup {Invalid}, EnterCallbacks(s) PROVE state' = state
  BY <1>7 DEF EnterCallbacks
<1>8. ASSUME NEW s \in Servers, UpdateWithoutCallbacks(s) PROVE state' = state
  BY <1>8 DEF UpdateWithoutCallbacks
<1>9. CASE CallbacksDone \/ UNCHANGED vars
  BY <1>9 DEF CallbacksDone, vars
<1>10. CASE InsideAccept
  <2>1. state' = state \/ \E C : Closed(C)
    BY <1>10 DEF InsideAccept, EnterPollGroup, AcceptUndone, AcceptDone
  <2> QED BY <1>1, <2>1
<1> QED BY <1>2, <1>3, <1>4, <1>5, <1>6, <1>7, <1>8, <1>9, <1>10, NextCases

LEMMA AdmittedStep == Inv /\ AdmittedInv /\ [Next]_vars => AdmittedInv'
<1> SUFFICES ASSUME Inv, AdmittedInv, [Next]_vars PROVE AdmittedInv'
  OBVIOUS
<1>0. clients \in [Servers -> SUBSET Conns] /\ admitted \subseteq Conns
  BY DEF Inv, TypeInv, TypeOK
<1>6. admitted' = admitted => \A s \in Servers : accepting'[s] \notin admitted'
  BY <1>0, AcceptingSteps, ConnectionsAssumption DEF AdmittedInv
<1>1. \A d \in admitted : state'[d] \notin {"Free", "Connecting"}
  BY <1>0, StatesAdvance DEF AdmittedInv
<1>2. ASSUME NEW s \in Servers, Resets(s) PROVE AdmittedInv'
  BY <1>0, <1>1, <1>2, <1>6 DEF Resets, AdmittedInv
<1>3. ASSUME NEW s \in Servers, NEW c \in Conns, Admits(s, c) PROVE AdmittedInv'
  BY <1>0, <1>1, <1>3, ConnectionsAssumption DEF Admits, AdmittedInv
<1>4. ASSUME NEW s \in Servers, NEW c \in Conns, Drops(s, c) PROVE AdmittedInv'
  BY <1>0, <1>1, <1>4, <1>6 DEF Drops, AdmittedInv
<1>5. CASE UNCHANGED seenVars
  BY <1>0, <1>1, <1>5, <1>6 DEF seenVars, AdmittedInv
<1> QED BY <1>2, <1>3, <1>4, <1>5, SeenSteps

-----------------------------------------------------------------------------
(* The mapping, step by step.                                              *)
RunningServers == {s \in Servers : IsRunning(s)}

LEMMA InitMaps == Init => M!Init
  BY DEF Init, M!Init, IsRunning, Current

LEMMA CurrentMembers ==
    \A c : c \in Current <=> \E s \in Servers : c \in clients[s]
  BY DEF Current

LEMMA ResetMaps ==
    ASSUME Inv, AdmittedInv, NEW s \in Servers, Resets(s)
    PROVE  M!Open(s) \/ M!Close(s)
<1>0. /\ clients \in [Servers -> SUBSET Conns]
      /\ socket \in [Servers -> Sockets \cup {Invalid}]
      /\ pollGroup \in [Servers -> Groups \cup {Invalid}]
  BY DEF Inv, TypeInv, TypeOK
<1>1. \A c : c \in Current' <=> \E r \in Servers : r # s /\ c \in clients[r]
  BY <1>0 DEF Resets, Current
<1>2. \A r \in Servers : r # s => clients[r] \cap clients[s] = {}
  BY <1>0, OneServer DEF Inv, ConnInv, TrackedClientIsLive
<1>3. \A c : c \in Current <=> (c \in clients[s] \/ \E r \in Servers : r # s /\ c \in clients[r])
  BY DEF Current
<1>4. (admitted \ Current)' = (admitted \ Current) \cup clients[s]
  BY <1>1, <1>2, <1>3 DEF Resets, AdmittedInv
<1>5. M!Empties(s)
  BY <1>4 DEF Resets, M!Empties
<1>6. \A r \in Servers : r # s => (IsRunning(r)' <=> IsRunning(r))
  BY <1>0 DEF Resets, IsRunning
<1>7. \/ (RunningServers)' = RunningServers \cup {s}
      \/ (RunningServers)' = RunningServers \ {s}
  BY <1>6 DEF RunningServers
<1> QED BY <1>5, <1>7 DEF RunningServers, M!Open, M!Close

LEMMA AdmitMaps ==
    ASSUME Inv, AdmittedInv, NEW s \in Servers, NEW c \in Conns, Admits(s, c)
    PROVE  M!Admit(s, c)
<1>0. clients \in [Servers -> SUBSET Conns] /\ admitted \subseteq Conns
  BY DEF Inv, TypeInv, TypeOK
<1>1. c \notin admitted
  BY DEF Admits, AdmittedInv
<1>2. \A r \in Servers : c \notin clients[r]
  BY <1>1 DEF AdmittedInv
<1>3. \A d : d \in Current' <=> d = c \/ d \in Current
  BY <1>0 DEF Current, Admits
<1>4. (admitted \ Current)' = admitted \ Current
  BY <1>1, <1>3 DEF Admits
<1>5. RunningServers' = RunningServers
  BY DEF RunningServers, IsRunning, Admits
<1>6. s \in RunningServers
  BY DEF RunningServers, Admits
<1>7. c \notin (admitted \ Current) \cup M!Everybody
  BY <1>1, <1>2 DEF M!Everybody
<1>8. clients' = [clients EXCEPT ![s] = @ \cup {c}]
  BY DEF Admits
<1> QED BY <1>4, <1>5, <1>6, <1>7, <1>8 DEF M!Admit, RunningServers

LEMMA DropMaps ==
    ASSUME Inv, AdmittedInv, NEW s \in Servers, NEW c \in Conns, Drops(s, c)
    PROVE  M!Drop(s, c) \/ UNCHANGED M!vars
<1>0. clients \in [Servers -> SUBSET Conns] /\ admitted \subseteq Conns
  BY DEF Inv, TypeInv, TypeOK
<1>1. RunningServers' = RunningServers
  BY DEF RunningServers, IsRunning, Drops
<1>2. CASE c \in clients[s]
  <2>1. \A r \in Servers : r # s => c \notin clients[r]
    BY <1>2, OneServer DEF Inv, ConnInv, TrackedClientIsLive
  <2>2. \A d : d \in Current' <=> d # c /\ d \in Current
    BY <1>0, <2>1 DEF Current, Drops
  <2>3. c \in admitted
    BY <1>2 DEF AdmittedInv
  <2>4. (admitted \ Current)' = (admitted \ Current) \cup {c}
    BY <2>2, <2>3 DEF Drops
  <2> QED BY <1>1, <1>2, <2>4 DEF Drops, M!Drop, RunningServers
<1>3. CASE c \notin clients[s]
  <2>1. clients' = clients
    BY <1>0, <1>3 DEF Drops
  <2> QED BY <1>1, <2>1 DEF Drops, Current, RunningServers, M!vars
<1> QED BY <1>2, <1>3

THEOREM StepMaps == Inv /\ AdmittedInv /\ [Next]_vars => [M!Next]_(M!vars)
<1> SUFFICES ASSUME Inv, AdmittedInv, [Next]_vars PROVE M!Next \/ UNCHANGED M!vars
  OBVIOUS
<1>1. CASE UNCHANGED seenVars
  BY <1>1 DEF seenVars, Current, IsRunning, M!vars
<1> QED BY <1>1, SeenSteps, ResetMaps, AdmitMaps, DropMaps DEF M!Next

(* Server implements Membership (refinement mapping in ServerRefinement).  *)
THEOREM Implementation == Spec => ImplementsMembership
<1>1. Spec => [](Inv /\ AdmittedInv)
  <2>1. Init => AdmittedInv
    BY AdmittedInit
  <2> QED BY <2>1, Invariance, AdmittedStep, PTL DEF Spec
<1> QED BY <1>1, InitMaps, StepMaps, PTL DEF Spec, M!Spec, ImplementsMembership
-----------------------------------------------------------------------------
(* What Membership's steps add up to.                                      *)
Past == admitted \ Current

StaysInv ==
    /\ clients \in [Servers -> SUBSET Conns] /\ Past \subseteq Conns
    /\ \A s \in Servers : clients[s] # {} => s \in RunningServers
    /\ \A s, t \in Servers : s # t => clients[s] \cap clients[t] = {}
    /\ \A s \in Servers : clients[s] \cap Past = {}

Stays ==
    /\ StaysInv' /\ Past \subseteq Past'
    /\ \A s \in Servers : \A c \in clients[s] :
        c \in Past' \/ \E t \in Servers : c \in clients'[t]

LEMMA StaysSeen ==
    /\ StaysInv <=> M!TypeOK /\ M!OneStay
    /\ Current = M!Everybody
<1>1. RunningServers \subseteq Servers
  BY DEF RunningServers
<1>2. Current = M!Everybody
  BY DEF Current, M!Everybody
<1>3. M!Everybody \cap Past = {} <=> \A s \in Servers : clients[s] \cap Past = {}
  BY DEF M!Everybody
<1>4. M!TypeOK <=> /\ RunningServers \subseteq Servers /\ Past \subseteq Conns
                   /\ clients \in [Servers -> SUBSET Conns]
  BY DEF M!TypeOK, Past, RunningServers
<1>5. M!OneStay <=> /\ \A s \in Servers : clients[s] # {} => s \in RunningServers
                    /\ \A s, t \in Servers : s # t => clients[s] \cap clients[t] = {}
                    /\ M!Everybody \cap Past = {}
  BY DEF M!OneStay, Past, RunningServers
<1> QED BY <1>1, <1>2, <1>3, <1>4, <1>5 DEF StaysInv

LEMMA EmptyingStays ==
    ASSUME StaysInv, NEW s \in Servers, clients' = [clients EXCEPT ![s] = {}],
           Past' = Past \cup clients[s],
           \A t \in Servers \ {s} : t \in RunningServers' <=> t \in RunningServers
    PROVE  Stays
<1>1. /\ clients' \in [Servers -> SUBSET Conns] /\ clients'[s] = {}
      /\ \A t \in Servers \ {s} : clients'[t] = clients[t]
  BY DEF StaysInv
<1>2. Past \subseteq Past' /\ Past' \subseteq Conns
  BY DEF StaysInv
<1>3. \A t \in Servers : clients'[t] # {} => t \in RunningServers'
  BY <1>1 DEF StaysInv
<1>4. \A t, r \in Servers : t # r => clients'[t] \cap clients'[r] = {}
  BY <1>1 DEF StaysInv
<1>5. \A t \in Servers : clients'[t] \cap Past' = {}
  BY <1>1 DEF StaysInv
<1>6. \A t \in Servers : \A c \in clients[t] :
        c \in Past' \/ \E r \in Servers : c \in clients'[r]
  BY <1>1
<1> QED BY <1>1, <1>2, <1>3, <1>4, <1>5, <1>6 DEF Stays, StaysInv

LEMMA AdmittingStays ==
    ASSUME StaysInv, NEW s \in Servers, NEW c \in Conns, s \in RunningServers,
           c \notin Past, \A t \in Servers : c \notin clients[t],
           clients' = [clients EXCEPT ![s] = @ \cup {c}],
           Past' = Past, RunningServers' = RunningServers
    PROVE  Stays
  BY DEF Stays, StaysInv

LEMMA DroppingStays ==
    ASSUME StaysInv, NEW s \in Servers, NEW c \in clients[s],
           clients' = [clients EXCEPT ![s] = @ \ {c}],
           Past' = Past \cup {c}, RunningServers' = RunningServers
    PROVE  Stays
<1>1. /\ clients' \in [Servers -> SUBSET Conns] /\ clients'[s] = clients[s] \ {c}
      /\ \A t \in Servers \ {s} : clients'[t] = clients[t]
  BY DEF StaysInv
<1>2. Past \subseteq Past' /\ Past' \subseteq Conns
  BY DEF StaysInv
<1>3. \A t \in Servers : clients'[t] # {} => t \in RunningServers'
  BY <1>1 DEF StaysInv
<1>4. \A t, r \in Servers : t # r => clients'[t] \cap clients'[r] = {}
  BY <1>1 DEF StaysInv
<1>5. \A t \in Servers : clients'[t] \cap Past' = {}
  BY <1>1 DEF StaysInv
<1>6. \A t \in Servers : \A d \in clients[t] :
        d \in Past' \/ \E r \in Servers : d \in clients'[r]
  BY <1>1
<1> QED BY <1>1, <1>2, <1>3, <1>4, <1>5, <1>6 DEF Stays, StaysInv

LEMMA StaysStep ==
    ASSUME StaysInv, [M!Next]_(M!vars)
    PROVE  Stays
<1>1. ASSUME NEW s \in Servers, M!Open(s) \/ M!Close(s) PROVE Stays
  <2>1. /\ clients' = [clients EXCEPT ![s] = {}] /\ Past' = Past \cup clients[s]
        /\ \/ RunningServers' = RunningServers \cup {s}
           \/ RunningServers' = RunningServers \ {s}
    BY <1>1 DEF M!Open, M!Close, M!Empties, RunningServers, Past
  <2> QED BY <2>1, EmptyingStays
<1>2. ASSUME NEW s \in Servers, NEW c \in Conns, M!Admit(s, c) PROVE Stays
  <2>1. /\ s \in RunningServers /\ c \notin Past \cup M!Everybody
        /\ clients' = [clients EXCEPT ![s] = @ \cup {c}]
        /\ Past' = Past /\ RunningServers' = RunningServers
    BY <1>2 DEF M!Admit, RunningServers, Past
  <2>2. \A t \in Servers : c \notin clients[t]
    BY <2>1 DEF M!Everybody
  <2> QED BY <2>1, <2>2, AdmittingStays
<1>3. ASSUME NEW s \in Servers, NEW c \in Conns, M!Drop(s, c) PROVE Stays
  <2>1. /\ c \in clients[s] /\ clients' = [clients EXCEPT ![s] = @ \ {c}]
        /\ Past' = Past \cup {c} /\ RunningServers' = RunningServers
    BY <1>3 DEF M!Drop, RunningServers, Past
  <2> QED BY <2>1, DroppingStays
<1>4. CASE UNCHANGED M!vars
  <2>1. clients' = clients /\ Past' = Past /\ RunningServers' = RunningServers
    BY <1>4 DEF M!vars, RunningServers, Past
  <2> QED BY <2>1 DEF Stays, StaysInv
<1> QED BY <1>1, <1>2, <1>3, <1>4 DEF M!Next

(* Only a running server has clients, no two share one, and a client that  *)
(* has been removed, has ended or was on a server that stopped or was      *)
(* started again is in no GetClients ever after (Server::Start, Stop,      *)
(* RemoveClient and ConnectionStatusChangedCallback).                      *)
THEOREM StaysCorrect == Spec => []M!OneStay /\ M!OverForEver
<1>1. M!Init => StaysInv
  BY DEF M!Init, StaysInv, Past, RunningServers
<1>2. StaysInv /\ [M!Next]_(M!vars) => StaysInv'
  BY StaysStep DEF Stays
<1>3. StaysInv /\ [M!Next]_(M!vars) =>
        [/\ Past \subseteq Past'
         /\ M!Everybody \subseteq (M!Everybody)' \cup Past']_(M!vars)
  <2> SUFFICES ASSUME StaysInv, [M!Next]_(M!vars)
               PROVE  /\ Past \subseteq Past'
                      /\ M!Everybody \subseteq (M!Everybody)' \cup Past'
    OBVIOUS
  <2>1. Stays
    BY StaysStep
  <2>2. M!Everybody \subseteq (M!Everybody)' \cup Past'
    BY <2>1 DEF Stays, M!Everybody
  <2> QED BY <2>1, <2>2 DEF Stays
<1>4. M!Spec => []StaysInv
  BY <1>1, <1>2, PTL DEF M!Spec
<1>5. M!Spec => M!OverForEver
  BY <1>3, <1>4, PTL DEF M!Spec, M!OverForEver, Past
<1>6. Spec => M!Spec
  BY Implementation DEF ImplementsMembership
<1> QED BY <1>4, <1>5, <1>6, StaysSeen, PTL
=============================================================================
