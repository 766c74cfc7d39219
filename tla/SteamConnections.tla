-------------------------- MODULE SteamConnections --------------------------
(***************************************************************************)
(* EXTERNAL: the part of Valve's GameNetworkingSockets (GNS) that both     *)
(* CushiNet::Server and CushiNet::Client call: the connections of one      *)
(* ISteamNetworkingSockets, the queue of connection status changes that    *)
(* RunCallbacks hands out, and the messages that wait to be read.          *)
(*                                                                         *)
(* GNS is linked, not vendored, so it is modelled from the calls CushiNet  *)
(* makes and the contract of the headers it includes.  Three facts matter: *)
(*  - the service thread changes the state of a connection at any time,    *)
(*    and only queues the change: the application hears of it when it next *)
(*    runs callbacks, when the connection may have moved on;               *)
(*  - closing a connection invalidates its handle and throws its unread    *)
(*    messages away, but takes nothing out of the queue;                   *)
(*  - a handle is never used again.                                        *)
(* GNS takes its own lock in every call, so each call is one step.         *)
(***************************************************************************)
EXTENDS Naturals, Sequences, FiniteSets, SequencesExt

CONSTANTS
    Conns,        \* the HSteamNetConnection handles GNS may give out
    Invalid,      \* the handle 0: k_HSteamNetConnection_Invalid and the like
    MaxMessages   \* bound: messages a peer sends on one connection

ASSUME ConnectionsAssumption ==
    /\ Invalid \notin Conns
    /\ MaxMessages \in Nat

VARIABLES
    state,        \* ESteamNetworkingConnectionState of every handle
    queue,        \* status changes posted and not yet handed out
    inbox,        \* received messages of each connection, not yet read
    sent          \* messages each peer has sent so far (history, bounds)

connVars == <<state, queue, inbox, sent>>

(* The two states in which GNS leaves a connection that has ended by       *)
(* itself, until the application closes the handle.                        *)
Ended == {"ClosedByPeer", "ProblemDetectedLocally"}

(* A handle in one of these names a connection object of GNS.              *)
Alive == {"Connecting", "Connected"} \cup Ended

(* "Free": not given out yet.  "None": closed, the handle is invalid.      *)
States == {"Free", "None"} \cup Alive

(* SteamNetConnectionStatusChangedCallback_t: the handle and a copy of the *)
(* state at the time of the change.                                        *)
Event == [conn : Conns, state : Alive]

ConnectionsTypeOK ==
    /\ state \in [Conns -> States]
    /\ queue \in Seq(Event)
    /\ inbox \in [Conns -> Nat]
    /\ sent \in [Conns -> 0 .. MaxMessages]

Posted(c, st) == [conn |-> c, state |-> st] \in ToSet(queue)

ConnectionsInit ==
    /\ state = [c \in Conns |-> "Free"]
    /\ queue = <<>>
    /\ inbox = [c \in Conns |-> 0]
    /\ sent = [c \in Conns |-> 0]

-----------------------------------------------------------------------------
(* What the calls do.                                                      *)

(* A new connection is Connecting, and that change is posted.              *)
Created(c) ==
    /\ state[c] = "Free"
    /\ state' = [state EXCEPT ![c] = "Connecting"]
    /\ queue' = Append(queue, [conn |-> c, state |-> "Connecting"])

(* A connection comes up: the handshake is over.                           *)
Established(c) ==
    /\ state' = [state EXCEPT ![c] = "Connected"]
    /\ queue' = Append(queue, [conn |-> c, state |-> "Connected"])

(* CloseConnection on every member of C: the handle goes, its unread       *)
(* messages go, its posted changes stay.  On a handle that is already      *)
(* closed the call does nothing.                                           *)
Closed(C) ==
    /\ state' = [c \in Conns |-> IF c \in C THEN "None" ELSE state[c]]
    /\ inbox' = [c \in Conns |-> IF c \in C THEN 0 ELSE inbox[c]]

(* A message for a connection that has not ended is sent or waits, is      *)
(* dropped because it was not to wait, or finds the send buffer full.      *)
MayWait == {"OK", "Ignored", "LimitExceeded"}

(* What SendMessageToConnection may return; a message may be too big       *)
(* (InvalidParam) whatever the connection is like.                         *)
SendResult(c) ==
    {"InvalidParam"} \cup
        CASE state[c] = "Connected"  -> MayWait
          [] state[c] = "Connecting" -> MayWait \cup {"InvalidState"}
          [] state[c] \in Ended      -> {"NoConnection"}
          [] OTHER                   -> {}

-----------------------------------------------------------------------------
(* What the service thread does on its own.                                *)

(* The peer hangs up, or the connection times out or breaks.               *)
Ends(c) ==
    /\ state[c] \in {"Connecting", "Connected"}
    /\ \E st \in Ended :
        /\ state' = [state EXCEPT ![c] = st]
        /\ queue' = Append(queue, [conn |-> c, state |-> st])
    /\ UNCHANGED <<inbox, sent>>

(* A message of the peer arrives.                                          *)
MessageArrives(c) ==
    /\ state[c] = "Connected"
    /\ sent[c] < MaxMessages
    /\ sent' = [sent EXCEPT ![c] = @ + 1]
    /\ inbox' = [inbox EXCEPT ![c] = @ + 1]
    /\ UNCHANGED <<state, queue>>
=============================================================================
