------------------------ MODULE ExampleServerProofs ------------------------
(***************************************************************************)
(* Theorems about the README's server program: it is an application of     *)
(* Server, its counter obeys CounterLaw for every limit and every width of *)
(* the counter, and keeps the limit as long as it counts pairs.            *)
(***************************************************************************)
EXTENDS ExampleServer, ServerOrderProofs, ServerRefinementProofs, FiniteSetTheorems

USE ExampleAssumption

(* What has been proved of Server, whatever its application does.          *)
ServerInv == Inv /\ QueueOrder /\ BatchOrder /\ AdmittedInv

LEMMA ServerInvInit == Init => ServerInv
  BY TypeInit, HandlesInit, ConnInit, OrderInit, AdmittedInit DEF ServerInv, Inv

LEMMA ServerInvStep == ServerInv /\ [Next]_vars => ServerInv'
  BY TypeStep, HandlesStep, ConnStep, QueueOrderStep, BatchOrderStep, AdmittedStep
     DEF ServerInv, Inv

-----------------------------------------------------------------------------
(* The program is an application of Server.                                *)

LEMMA ListenerArguments ==
    ASSUME ServerInv, pc \in Callbacks
    PROVE  server \in Servers /\ hConn \in Conns
  BY DEF ServerInv, Inv, TypeInv, ThreadOK

LEMMA ListenerBodySteps ==
    ASSUME ServerInv, ListenerBody
    PROVE  AppCalls \/ InsideAccept \/ UNCHANGED vars
<1>1. CASE TurnAway \/ CountDown \/ ReadMessage
  BY <1>1 DEF TurnAway, CountDown, ReadMessage
<1>2. CASE LetIn
  <2>1. pc = "OnConnectionRequest" /\ AppRuns /\ UNCHANGED <<listener, threadVars>>
    BY <1>2 DEF LetIn, Body, InListener
  <2>2. server \in Servers /\ hConn \in Conns
    BY <2>1, ListenerArguments DEF Callbacks
  <2>3. AcceptClient(server, hConn) \/ AcceptRefused(server, hConn)
    BY <1>2 DEF LetIn
  <2> QED BY <2>1, <2>2, <2>3 DEF AppCalls
<1>3. ASSUME NEW s \in Servers, HasLetIn(s) \/ StillLetsIn(s) PROVE InsideAccept
  BY <1>3 DEF HasLetIn, StillLetsIn, InListener, InsideAccept
<1> QED BY <1>1, <1>2, <1>3 DEF ListenerBody

LEMMA MainProgramSteps ==
    ASSUME MainProgram
    PROVE  AppCalls \/ \E s \in Servers : Update(s)
<1>1. CASE \E s \in Servers : Update(s)
  BY <1>1
<1>2. CASE /\ pc = "idle" /\ AppRuns
           /\ \E s \in Servers : MainStarts(s) \/ (IsRunning(s) /\ Stop(s))
           /\ UNCHANGED <<listener, accepting, threadVars, historyVars>>
  <2>1. PICK s \in Servers : Start(s) \/ StartWithoutPollGroup(s) \/ Stop(s)
    BY <1>2 DEF MainStarts
  <2> QED BY <1>2, <2>1 DEF AppCalls
<1> QED BY <1>1, <1>2 DEF MainProgram

LEMMA ExampleSteps == ServerInv /\ [ExampleNext]_allVars => [Next]_vars
<1> SUFFICES ASSUME ServerInv, [ExampleNext]_allVars PROVE [Next]_vars
  OBVIOUS
<1>1. CASE ListenerBody
  BY <1>1, ListenerBodySteps DEF Next, Library
<1>2. CASE ListenerDone \/ InsideUpdate
  BY <1>2 DEF ListenerDone, InsideUpdate, Next, Library
<1>3. CASE MainProgram
  BY <1>3, MainProgramSteps DEF Next
<1>4. CASE ServiceThread /\ UNCHANGED serverVars
  BY <1>4 DEF Next
<1>5. CASE UNCHANGED allVars
  BY <1>5 DEF allVars
<1> QED BY <1>1, <1>2, <1>3, <1>4, <1>5 DEF ExampleNext, ExampleThread, ExampleLibrary

LEMMA ExampleStarts == ExampleInit => Init
  BY DEF ExampleInit

LEMMA ServerInvariance == ExampleSpec => []ServerInv
<1>1. ServerInv /\ [ExampleNext]_allVars => ServerInv'
  BY ExampleSteps, ServerInvStep
<1> QED BY <1>1, ExampleStarts, ServerInvInit, PTL DEF ExampleSpec

(* The README's program calls CushiNet only as Server allows, so whatever  *)
(* is proved of Server holds of it (README 45 to 126).                     *)
THEOREM ExampleIsServer == ExampleSpec => Spec
  BY ExampleStarts, ExampleSteps, ServerInvariance, PTL DEF ExampleSpec, Spec
-----------------------------------------------------------------------------
(* The counter.  A listener's body runs at most once per call, only while  *)
(* the call lasts; what OnDisconnect reports is on record; and the request *)
(* that is being accepted is the listener's, below the limit.              *)
ProgramInv ==
    /\ listener = [s \in Servers |-> TRUE]
    /\ ran \in BOOLEAN /\ (ran => pc \in Callbacks)
    /\ pc = "OnDisconnect" => hConn \in gone
    /\ \A s \in Servers : accepting[s] # Invalid =>
        ran /\ ~ IsFull /\ pc = "OnConnectionRequest" /\ hConn = accepting[s]
    /\ clientCount \in 0 .. Modulus - 1
    /\ IsFiniteSet(admitted) /\ IsFiniteSet(gone)

(* The reports that have been counted.                                     *)
Counted == gone \ BeingReported

(* What a step does to the counter and to what it counts.                  *)
LetsOneIn(c) ==
    /\ ~ IsFull /\ c \notin admitted \cup gone
    /\ clientCount' = Plus(clientCount)
    /\ admitted' = admitted \cup {c}
    /\ gone' = gone /\ Counted' = Counted

ReportBegins(c) ==
    /\ clientCount' = clientCount /\ admitted' = admitted
    /\ gone' = gone \cup {c} /\ Counted' = Counted

ReportCounts(c) ==
    /\ c \in gone \ Counted
    /\ clientCount' = Minus(clientCount)
    /\ UNCHANGED <<admitted, gone>>
    /\ Counted' = Counted \cup {c}

CountsNothing == UNCHANGED <<clientCount, admitted, gone>> /\ Counted' = Counted

LEMMA CounterIsUnsigned ==
    ASSUME NEW n \in 0 .. Modulus - 1
    PROVE  Plus(n) \in 0 .. Modulus - 1 /\ Minus(n) \in 0 .. Modulus - 1
  BY DEF Plus, Minus

(* Only what is given to the listener's functions changes histories.       *)
LEMMA ListenerBodyCounts ==
    ASSUME ServerInv, ProgramInv, ListenerBody
    PROVE  /\ ProgramInv'
           /\ CountsNothing \/ \E c \in Conns : LetsOneIn(c) \/ ReportCounts(c)
<1> USE DEF Body, InListener, threadVars, historyVars, exampleVars, BeingReported, Counted
<1>1. CASE TurnAway \/ ReadMessage
  <2>1. /\ UNCHANGED <<listener, accepting, pc, hConn, gone, admitted, clientCount>>
        /\ pc \in Callbacks /\ pc # "OnDisconnect" /\ AppRuns /\ ran' = TRUE
    BY <1>1 DEF TurnAway, ReadMessage, vars, serverVars, Callbacks
  <2> QED BY <2>1 DEF ProgramInv, CountsNothing, AppRuns
<1>2. CASE LetIn
  <2>1. /\ UNCHANGED <<listener, pc, hConn, gone, admitted, clientCount>>
        /\ pc = "OnConnectionRequest" /\ ran' = TRUE /\ ~ IsFull
        /\ accepting' \in {accepting, [accepting EXCEPT ![server] = hConn]}
        /\ \A s \in Servers : accepting[s] = Invalid
    BY <1>2 DEF LetIn, AcceptClient, AcceptRefused, AppRuns
  <2>2. \A s \in Servers : accepting'[s] \in {Invalid, hConn}
    BY <2>1 DEF ServerInv, Inv, TypeInv, TypeOK
  <2> QED BY <2>1, <2>2 DEF ProgramInv, CountsNothing, IsFull, Callbacks
<1>3. CASE CountDown
  <2>1. /\ UNCHANGED <<listener, accepting, pc, hConn, gone, admitted>>
        /\ pc = "OnDisconnect" /\ AppRuns /\ ~ ran /\ ran' = TRUE
    BY <1>3 DEF CountDown, vars, serverVars
  <2>2. clientCount' = Minus(clientCount) /\ clientCount' \in 0 .. Modulus - 1
    BY <1>3, CounterIsUnsigned DEF CountDown, ProgramInv
  <2>3. ReportCounts(hConn)
    BY <2>1, <2>2 DEF ProgramInv, ReportCounts
  <2>4. hConn \in Conns
    BY <2>1, ListenerArguments DEF Callbacks
  <2> QED BY <2>1, <2>2, <2>3, <2>4 DEF ProgramInv, AppRuns, Callbacks
<1>4. ASSUME NEW s \in Servers, StillLetsIn(s)
      PROVE  ProgramInv' /\ CountsNothing
  <2>1. /\ UNCHANGED <<listener, pc, hConn, gone, admitted, clientCount, ran>>
        /\ accepting' \in {accepting, [accepting EXCEPT ![s] = Invalid]}
    BY <1>4 DEF StillLetsIn, EnterPollGroup, AcceptUndone
  <2>2. \A r \in Servers : accepting'[r] # Invalid => accepting'[r] = accepting[r]
    BY <2>1 DEF ServerInv, Inv, TypeInv, TypeOK
  <2> QED BY <2>1, <2>2 DEF ProgramInv, CountsNothing, IsFull
<1>5. ASSUME NEW s \in Servers, HasLetIn(s)
      PROVE  ProgramInv' /\ \E c \in Conns : LetsOneIn(c)
  <2> DEFINE c == accepting[s]
  <2>1. /\ c # Invalid /\ accepting' = [accepting EXCEPT ![s] = Invalid]
        /\ UNCHANGED <<listener, pc, hConn, gone, ran>>
        /\ admitted' = admitted \cup {c}
    BY <1>5 DEF HasLetIn, AcceptDone
  <2>2. /\ clientCount' = Plus(clientCount) /\ clientCount' \in 0 .. Modulus - 1
        /\ ran /\ ~ IsFull /\ pc = "OnConnectionRequest"
    BY <1>5, <2>1, CounterIsUnsigned DEF HasLetIn, ProgramInv
  <2>3. c \in Conns /\ state[c] # "None"
    BY <2>1 DEF ServerInv, Inv, TypeInv, TypeOK, ConnInv, AcceptingOwn, Ended
  <2>4. c \notin admitted \cup gone
    BY <2>3 DEF ServerInv, AdmittedInv, QueueOrder
  <2>5. IsFiniteSet(admitted')
    BY <2>1, FS_AddElement DEF ProgramInv
  <2>6. \A r \in Servers : accepting'[r] = Invalid
    BY <2>1 DEF ServerInv, Inv, TypeInv, TypeOK, ThreadOK
  <2>7. LetsOneIn(c)
    BY <2>1, <2>2, <2>4 DEF LetsOneIn
  <2> QED BY <2>1, <2>2, <2>3, <2>5, <2>6, <2>7 DEF ProgramInv, Callbacks
<1> QED BY <1>1, <1>2, <1>3, <1>4, <1>5 DEF ListenerBody

LEMMA InsideUpdateCounts ==
    ASSUME ServerInv, ProgramInv, InsideUpdate, UNCHANGED exampleVars
    PROVE  /\ ProgramInv'
           /\ CountsNothing \/ \E c \in Conns : ReportBegins(c)
<1> USE DEF BeingReported, Counted, exampleVars, historyVars
<1>1. pc \in {"callbacks", "polling", "failed"} /\ ~ ran /\ ran' = ran
      /\ clientCount' = clientCount /\ listener' = listener /\ admitted' = admitted
      /\ \A s \in Servers : accepting'[s] = Invalid
  <2>1. /\ pc \in {"callbacks", "polling", "failed"}
        /\ listener' = listener /\ admitted' = admitted /\ accepting' = accepting
    BY DEF InsideUpdate, StaticCallback, CallbackIgnores, CallbackConnecting, CallbackClosed,
       TakeEvent, CallbacksDone, ReceiveLoop, Receive, ReceiveNothing, ReceiveFails,
       UpdateThrows, Deliver
  <2>2. \A s \in Servers : accepting[s] = Invalid
    BY <2>1 DEF ServerInv, Inv, TypeInv, ThreadOK, Callbacks
  <2> QED BY <2>1, <2>2 DEF ProgramInv, Callbacks
<1>2. CASE CallbackClosed /\ pc' = "OnDisconnect"
  <2>1. /\ gone' = gone \cup {Head(queue).conn} /\ hConn' = Head(queue).conn
        /\ TakeEvent(Ended)
    BY <1>1, <1>2 DEF CallbackClosed
  <2>2. Head(queue).conn \in Conns /\ Posted(Head(queue).conn, Head(queue).state)
    <3>1. left > 0 /\ queue' = Tail(queue)
      BY <2>1 DEF TakeEvent
    <3>2. Head(queue) \in Event /\ Head(queue) \in ToSet(queue)
      BY <3>1, QueueShrinks DEF ServerInv, Inv
    <3> QED BY <3>2 DEF Event, Posted
  <2>3. Head(queue).conn \notin gone
    BY <2>1, <2>2 DEF TakeEvent, ServerInv, QueueOrder
  <2>4. ReportBegins(Head(queue).conn)
    BY <1>1, <1>2, <2>1, <2>3 DEF ReportBegins
  <2>5. IsFiniteSet(gone')
    BY <2>1, FS_AddElement DEF ProgramInv
  <2> QED BY <1>1, <1>2, <2>1, <2>2, <2>4, <2>5 DEF ProgramInv
<1>3. CASE pc' # "OnDisconnect"
  <2>1. gone' = gone
    BY <1>1, <1>3 DEF InsideUpdate, StaticCallback, CallbackIgnores, CallbackConnecting,
       CallbackClosed, TakeEvent, CallbacksDone, ReceiveLoop, Receive, ReceiveNothing,
       ReceiveFails, UpdateThrows, Deliver, ProgramInv
  <2> QED BY <1>1, <1>3, <2>1 DEF ProgramInv, CountsNothing
<1>4. pc' = "OnDisconnect" => CallbackClosed
  BY <1>1 DEF InsideUpdate, StaticCallback, CallbackIgnores, CallbackConnecting,
     CallbacksDone, ReceiveLoop, Receive, ReceiveNothing, ReceiveFails, UpdateThrows, Deliver
<1> QED BY <1>2, <1>3, <1>4

LEMMA ProgramSteps ==
    ASSUME ServerInv, ProgramInv, [ExampleNext]_allVars
    PROVE  /\ ProgramInv'
           /\ \/ CountsNothing
              \/ \E c \in Conns : LetsOneIn(c) \/ ReportBegins(c) \/ ReportCounts(c)
<1> USE DEF exampleVars, historyVars, threadVars
<1>1. CASE ListenerBody
  BY <1>1, ListenerBodyCounts
<1>2. CASE InsideUpdate /\ UNCHANGED exampleVars
  BY <1>2, InsideUpdateCounts
<1>3. CASE ListenerDone /\ UNCHANGED clientCount
  <2>1. /\ ran /\ ran' = FALSE /\ pc' \in {"callbacks", "polling"}
        /\ UNCHANGED <<listener, accepting, admitted, gone, clientCount>> /\ AppRuns
    BY <1>3 DEF ListenerDone, ListenerReturns, ReturnFromConnectionRequest,
       ReturnFromDisconnect, ReturnFromMessage, Return
  <2> QED BY <2>1 DEF ProgramInv, CountsNothing, Counted, BeingReported, AppRuns
<1>4. CASE MainProgram /\ UNCHANGED exampleVars
  <2>1. /\ pc = "idle" /\ pc' \in {"idle", "callbacks"}
        /\ UNCHANGED <<listener, accepting, admitted, gone, clientCount, ran>> /\ AppRuns
    BY <1>4 DEF MainProgram, Update, EnterCallbacks
  <2> QED BY <2>1 DEF ProgramInv, CountsNothing, Counted, BeingReported, Callbacks, AppRuns
<1>5. CASE (ServiceThread /\ UNCHANGED <<serverVars, exampleVars>>) \/ UNCHANGED allVars
  <2>1. UNCHANGED <<listener, accepting, pc, hConn, admitted, gone, clientCount, ran>>
    BY <1>5 DEF allVars, vars, serverVars
  <2> QED BY <2>1 DEF ProgramInv, CountsNothing, Counted, BeingReported, IsFull
<1> QED BY <1>1, <1>2, <1>3, <1>4, <1>5 DEF ExampleNext, ExampleThread, ExampleLibrary

LEMMA ProgramStarts == ExampleInit => ProgramInv
<1>1. IsFiniteSet({}) /\ 0 \in 0 .. Modulus - 1
  BY FS_EmptySet
<1> QED BY <1>1 DEF ExampleInit, Init, ProgramInv

LEMMA ProgramInvariance == ExampleSpec => [](ServerInv /\ ProgramInv)
  BY ProgramStarts, ProgramSteps, ServerInvariance, PTL DEF ExampleSpec

-----------------------------------------------------------------------------
(* Remainders.                                                             *)
LEMMA Division ==
    ASSUME NEW m \in Nat, m > 0, NEW n \in Nat
    PROVE  /\ n \div m \in Nat /\ n % m \in Nat /\ n % m < m
           /\ n = m * (n \div m) + (n % m)
  OBVIOUS

LEMMA OneRemainder ==
    ASSUME NEW m \in Nat, m > 0, NEW q \in Nat, NEW r \in Nat, r < m
    PROVE  (m * q + r) % m = r
  BY SMTT(60)

LEMMA AddToRemainder ==
    ASSUME NEW m \in Nat, m > 0, NEW a \in Nat, NEW b \in Nat
    PROVE  ((a % m) + b) % m = (a + b) % m
<1> DEFINE p == a \div m
           s == (a % m) + b
           q == s \div m
           r == s % m
<1>1. a = m * p + (a % m) /\ p \in Nat /\ a % m \in Nat
  BY Division
<1>2. s \in Nat /\ s = m * q + r /\ q \in Nat /\ r \in Nat /\ r < m
  BY <1>1, Division
<1>3. a + b = m * p + s
  BY <1>1
<1> HIDE DEF p, s, q, r
<1>4. a + b = m * (p + q) + r
  <2>1. m * (p + q) = m * p + m * q
    BY <1>1, <1>2
  <2> QED BY <1>1, <1>2, <1>3, <2>1
<1>5. p + q \in Nat
  BY <1>1, <1>2
<1>6. (m * (p + q) + r) % m = r
  BY <1>2, <1>5, OneRemainder, Zenon
<1> QED BY <1>4, <1>6, Zenon DEF r, s

(* As far as the counter neither overflows nor wraps below 0.              *)
LEMMA SmallCounts ==
    ASSUME NEW n \in Nat
    PROVE  /\ n < Limit => Plus(n) = n + 1
           /\ n \in 1 .. Modulus - 1 => Minus(n) = n - 1
  BY DEF Plus, Minus
-----------------------------------------------------------------------------
(* CounterLaw.                                                             *)
LEMMA CountsAreNatural ==
    ASSUME ProgramInv
    PROVE  /\ IsFiniteSet(Counted) /\ IsFiniteSet(admitted)
           /\ Cardinality(Counted) \in Nat /\ Cardinality(admitted) \in Nat
<1>1. IsFiniteSet(Counted)
  BY FS_Subset DEF ProgramInv, Counted
<1> QED BY <1>1, FS_CardinalityType DEF ProgramInv

LEMMA CounterStarts == ExampleInit => CounterLaw
<1>1. Cardinality({}) = 0
  BY FS_EmptySet
<1>2. ASSUME ExampleInit PROVE admitted = {} /\ gone \ BeingReported = {} /\ clientCount = 0
  BY <1>2 DEF ExampleInit, Init
<1>3. 0 = (0 + (Modulus - 1) * 0) % Modulus
  OBVIOUS
<1> QED BY <1>1, <1>2, <1>3 DEF CounterLaw

LEMMA CounterStep ==
    ASSUME ServerInv, ProgramInv, CounterLaw, [ExampleNext]_allVars
    PROVE  CounterLaw'
<1> DEFINE a == Cardinality(admitted)
           d == Cardinality(Counted)
           m == Modulus
<1>0. a \in Nat /\ d \in Nat /\ m \in Nat /\ m > 0 /\ m - 1 \in Nat
  BY CountsAreNatural
<1>1. (m - 1) * d \in Nat
  BY <1>0
<1>2. clientCount = (a + (m - 1) * d) % m
  BY DEF CounterLaw, Counted
<1>3. CounterLaw' <=> clientCount' = (a' + (m - 1) * d') % m
  BY DEF CounterLaw, Counted
<1>4. CASE CountsNothing \/ \E c \in Conns : ReportBegins(c)
  BY <1>2, <1>3, <1>4 DEF CountsNothing, ReportBegins
<1>5. ASSUME NEW c \in Conns, LetsOneIn(c) PROVE CounterLaw'
  <2>1. a' = a + 1 /\ d' = d
    BY <1>5, CountsAreNatural, FS_AddElement DEF LetsOneIn
  <2>2. clientCount' = (((a + (m - 1) * d) % m) + 1) % m
    BY <1>2, <1>5 DEF LetsOneIn, Plus
  <2>3. a + (m - 1) * d \in Nat
    BY <1>0, <1>1
  <2> HIDE DEF a, d, m
  <2>4. clientCount' = ((a + (m - 1) * d) + 1) % m
    BY <1>0, <2>2, <2>3, AddToRemainder
  <2>5. (a + (m - 1) * d) + 1 = a' + (m - 1) * d'
    BY <1>0, <1>1, <2>1
  <2> QED BY <1>3, <2>4, <2>5
<1>6. ASSUME NEW c \in Conns, ReportCounts(c) PROVE CounterLaw'
  <2>1. a' = a /\ d' = d + 1
    BY <1>6, CountsAreNatural, FS_AddElement DEF ReportCounts
  <2>2. clientCount' = (((a + (m - 1) * d) % m) + m - 1) % m
    BY <1>2, <1>6 DEF ReportCounts, Minus
  <2>3. a + (m - 1) * d \in Nat
    BY <1>0, <1>1
  <2> HIDE DEF a, d, m
  <2>4. clientCount' = ((a + (m - 1) * d) + (m - 1)) % m
    <3>1. (a + (m - 1) * d) % m \in Nat
      BY <1>0, <2>3, Division
    <3>2. clientCount' = (((a + (m - 1) * d) % m) + (m - 1)) % m
      BY <1>0, <2>2, <3>1
    <3> QED BY <1>0, <2>3, <3>2, AddToRemainder
  <2>5. (a + (m - 1) * d) + (m - 1) = a' + (m - 1) * d'
    <3>1. (m - 1) * (d + 1) = (m - 1) * d + (m - 1)
      BY <1>0
    <3> QED BY <1>0, <1>1, <2>1, <3>1
  <2> QED BY <1>3, <2>4, <2>5
<1> QED BY <1>4, <1>5, <1>6, ProgramSteps

(* The listener's counter is the clients it let in less the ends that were *)
(* reported to it, modulo its width (README 57 to 87): for every limit,    *)
(* width, and number of connections.                                       *)
THEOREM CounterCorrect == ExampleSpec => []CounterLaw
  BY ProgramInvariance, CounterStarts, CounterStep, PTL DEF ExampleSpec

-----------------------------------------------------------------------------
(* The limit.                                                              *)
PairedInv ==
    gone \subseteq admitted =>
        clientCount = Cardinality(admitted \ Counted) /\ clientCount <= Limit

LEMMA PairedStarts == ExampleInit => PairedInv
<1>1. Cardinality({}) = 0
  BY FS_EmptySet
<1> QED BY <1>1 DEF ExampleInit, Init, PairedInv

LEMMA PairedStep ==
    ASSUME ServerInv, ProgramInv, PairedInv, [ExampleNext]_allVars
    PROVE  PairedInv'
<1> SUFFICES ASSUME gone' \subseteq admitted'
             PROVE  clientCount' = Cardinality(admitted' \ Counted') /\ clientCount' <= Limit
  BY DEF PairedInv
<1> DEFINE in == admitted \ Counted
<1>0. IsFiniteSet(in) /\ Cardinality(in) \in Nat
  <2>1. IsFiniteSet(in)
    BY CountsAreNatural, FS_Subset
  <2> QED BY <2>1, FS_CardinalityType
<1>1. CASE CountsNothing \/ \E c \in Conns : ReportBegins(c)
  <2>1. /\ gone \subseteq gone' /\ admitted' = admitted /\ Counted' = Counted
        /\ clientCount' = clientCount
    BY <1>1 DEF CountsNothing, ReportBegins
  <2> QED BY <2>1 DEF PairedInv
<1>2. ASSUME NEW c \in Conns, LetsOneIn(c)
      PROVE  clientCount' = Cardinality(in') /\ clientCount' <= Limit
  <2>1. /\ gone \subseteq admitted /\ c \notin in /\ clientCount # Limit
        /\ in' = in \cup {c} /\ clientCount' = Plus(clientCount)
    BY <1>2 DEF LetsOneIn, IsFull, Counted
  <2>2. clientCount = Cardinality(in) /\ clientCount \in Nat /\ clientCount < Limit
    BY <1>0, <2>1 DEF PairedInv
  <2>3. Cardinality(in') = Cardinality(in) + 1
    BY <1>0, <2>1, FS_AddElement
  <2> HIDE DEF in
  <2> QED BY <2>1, <2>2, <2>3, SmallCounts
<1>3. ASSUME NEW c \in Conns, ReportCounts(c)
      PROVE  clientCount' = Cardinality(in') /\ clientCount' <= Limit
  <2>1. /\ gone \subseteq admitted /\ c \in in
        /\ in' = in \ {c} /\ clientCount' = Minus(clientCount)
    BY <1>3 DEF ReportCounts
  <2>2. clientCount = Cardinality(in) /\ clientCount <= Limit
    BY <2>1 DEF PairedInv
  <2>3. Cardinality(in') = Cardinality(in) - 1 /\ Cardinality(in) # 0
    <3>1. in # {}
      BY <2>1
    <3> HIDE DEF in
    <3>2. Cardinality(in) # 0
      BY <1>0, <3>1, FS_EmptySet
    <3>3. Cardinality(in \ {c}) = Cardinality(in) - 1
      BY <1>0, <2>1, FS_RemoveElement
    <3> QED BY <2>1, <3>2, <3>3
  <2> HIDE DEF in
  <2>4. clientCount \in 1 .. Modulus - 1
    BY <1>0, <2>2, <2>3
  <2> QED BY <2>1, <2>2, <2>3, <2>4, SmallCounts
<1> QED BY <1>1, <1>2, <1>3, ProgramSteps

(* As long as only ends of clients are reported, the limit is kept, by the *)
(* counter and by every server (README 55 to 61).                          *)
THEOREM LimitCorrect == ExampleSpec => []LimitKeptWhilePaired
<1>1. ASSUME ServerInv, ProgramInv, PairedInv PROVE LimitKeptWhilePaired
  <2> SUFFICES ASSUME gone \subseteq admitted
               PROVE  clientCount <= Limit /\ \A s \in Servers : Cardinality(clients[s]) <= Limit
    BY DEF LimitKeptWhilePaired
  <2>0. clientCount = Cardinality(admitted \ Counted) /\ clientCount <= Limit
    BY <1>1 DEF PairedInv
  <2> SUFFICES ASSUME NEW s \in Servers PROVE Cardinality(clients[s]) <= Limit
    BY <2>0
  <2>1. clients[s] \subseteq admitted /\ clients[s] \cap gone = {}
    BY <1>1 DEF ServerInv, Inv, ConnInv, TrackedClientIsLive, QueueOrder, AdmittedInv, Ended
  <2>2. clients[s] \subseteq admitted \ Counted
    BY <2>1 DEF Counted
  <2>3. IsFiniteSet(admitted \ Counted)
    BY <1>1, CountsAreNatural, FS_Subset
  <2>4. /\ Cardinality(clients[s]) <= Cardinality(admitted \ Counted)
        /\ Cardinality(clients[s]) \in Nat /\ Cardinality(admitted \ Counted) \in Nat
    BY <2>2, <2>3, FS_Subset, FS_CardinalityType
  <2> QED BY <2>0, <2>4
<1>2. ExampleSpec => []PairedInv
  BY ProgramInvariance, PairedStarts, PairedStep, PTL DEF ExampleSpec
<1> QED BY <1>1, <1>2, ProgramInvariance, PTL
=============================================================================
