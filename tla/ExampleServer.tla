---------------------------- MODULE ExampleServer ----------------------------
(***************************************************************************)
(* The server program of the repository's README (45 to 126): an SListener *)
(* that counts its clients and refuses more than `Limit`, and a game loop  *)
(* that starts the server once, calls Update(true) and stops it.           *)
(*                                                                         *)
(* It is Server with this one application for its application: the calls   *)
(* of AppCalls are narrowed to those of the program, everything else is    *)
(* Server's.  A listener function is one step, up to the AcceptClient in   *)
(* OnConnectionRequest, whose steps follow; its return is another.         *)
(***************************************************************************)
EXTENDS Server

CONSTANTS
    Limit,        \* how many clients the listener lets in: 4
    Modulus       \* the values of an unsigned int: 2^32

ASSUME ExampleAssumption ==
    /\ Limit \in Nat /\ Modulus \in Nat
    /\ Limit < Modulus

VARIABLES
    clientCount,  \* the listener's own counter
    ran           \* whether the body of the listener function has run

exampleVars == <<clientCount, ran>>
allVars == <<vars, exampleVars>>

ExampleTypeOK == clientCount \in 0 .. Modulus - 1 /\ ran \in BOOLEAN

ExampleInit ==
    /\ Init /\ listener = [s \in Servers |-> TRUE]
    /\ clientCount = 0 /\ ran = FALSE

-----------------------------------------------------------------------------
(* SListener.                                                              *)

(* unsigned arithmetic wraps.                                              *)
Plus(n)  == (n + 1) % Modulus

(* Mutant: the counter stops at 0.                                         *)
Saturated(n) == IF n = 0 THEN 0 ELSE n - 1

Minus(n) == (n + Modulus - 1) % Modulus

(* Mutant: one client too many.                                            *)
FullTooLate == clientCount = Limit + 1

IsFull == clientCount = Limit

(* The body of a listener function runs once per call.                     *)
Body(name) == pc = name /\ AppRuns /\ ~ ran /\ ran' = TRUE

(* What the listener's call leaves alone.                                  *)
InListener == UNCHANGED <<listener, threadVars>>

(* OnConnectionRequest: "Server is full!"                                  *)
TurnAway ==
    /\ Body("OnConnectionRequest") /\ IsFull
    /\ UNCHANGED <<vars, clientCount>>

(* ... AcceptClient is called: it sends the acceptance, or fails at once,  *)
(* "Server is unable to accept client!"                                    *)
LetIn ==
    /\ Body("OnConnectionRequest") /\ ~ IsFull
    /\ AcceptClient(server, hConn) \/ AcceptRefused(server, hConn)
    /\ InListener
    /\ UNCHANGED clientCount

(* ... it returns OK.                                                      *)
HasLetIn(s) ==
    /\ AcceptDone(s) /\ InListener
    /\ clientCount' = Plus(clientCount)
    /\ UNCHANGED ran

(* ... it goes on, or fails after all.                                     *)
StillLetsIn(s) ==
    /\ EnterPollGroup(s) \/ AcceptUndone(s)
    /\ InListener
    /\ UNCHANGED exampleVars

(* OnDisconnect counts one client less, whoever it was.                    *)
CountDown ==
    /\ Body("OnDisconnect")
    /\ clientCount' = Minus(clientCount)
    /\ UNCHANGED vars

(* OnMessageReceived reads the message.                                    *)
ReadMessage ==
    /\ Body("OnMessageReceived")
    /\ UNCHANGED <<vars, clientCount>>

ListenerBody ==
    \/ TurnAway \/ LetIn \/ CountDown \/ ReadMessage
    \/ \E s \in Servers : HasLetIn(s) \/ StillLetsIn(s)

ListenerDone == ListenerReturns /\ ran /\ ran' = FALSE

-----------------------------------------------------------------------------
(* The main program, and what goes on inside Update without the listener.  *)

(* Start is called once, before anything else, and may throw.              *)
MainStarts(s) ==
    /\ \A h \in Sockets \cup Groups : handle[h] = "free"
    /\ Start(s) \/ StartWithoutPollGroup(s)

MainProgram ==
    \/ /\ pc = "idle" /\ AppRuns
       /\ \E s \in Servers : MainStarts(s) \/ (IsRunning(s) /\ Stop(s))
       /\ UNCHANGED <<listener, accepting, threadVars, historyVars>>
    \/ \E s \in Servers : Update(s)

InsideUpdate == StaticCallback \/ CallbacksDone \/ ReceiveLoop

(* What the thread does once it is inside Update.                          *)
ExampleLibrary ==
    \/ ListenerBody
    \/ ListenerDone /\ UNCHANGED clientCount
    \/ InsideUpdate /\ UNCHANGED exampleVars

ExampleThread == ExampleLibrary \/ (MainProgram /\ UNCHANGED exampleVars)

ExampleNext ==
    \/ ExampleThread
    \/ ServiceThread /\ UNCHANGED <<serverVars, exampleVars>>

ExampleSpec == ExampleInit /\ [][ExampleNext]_allVars
-----------------------------------------------------------------------------
(* What the counter counts: the clients let in less the connections whose  *)
(* end was reported, whether or not they had been let in, modulo the       *)
(* width of the counter.  A report that has begun is counted when it ends. *)
BeingReported == IF pc = "OnDisconnect" /\ ~ ran THEN {hConn} ELSE {}

CounterLaw ==
    clientCount =
        (Cardinality(admitted) + (Modulus - 1) * Cardinality(gone \ BeingReported))
            % Modulus

(* The limit is kept as long as every reported end is the end of somebody  *)
(* who had been let in, and no longer: that is what the counter relies on. *)
LimitKeptWhilePaired ==
    gone \subseteq admitted =>
        /\ clientCount <= Limit
        /\ \A s \in Servers : Cardinality(clients[s]) <= Limit

-----------------------------------------------------------------------------
(* What the README says and the program does not do.                       *)

(* README 55: "Server size limit".                                         *)
SizeLimit == \A s \in Servers : Cardinality(clients[s]) <= Limit
=============================================================================
