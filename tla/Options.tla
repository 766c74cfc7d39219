------------------------------ MODULE Options ------------------------------
(***************************************************************************)
(* Configuration options (ISteamNetworkingUtils, SteamNetworkingConfig-    *)
(* Value_t) and what Server::Start and Client::Join make of the options    *)
(* of their caller.  GNS calls the status callback that is in effect for   *)
(* a connection when an event occurs, and everything in Server.cpp and     *)
(* Client.cpp depends on this being the callback of the right class.  The  *)
(* value of an option at an object is a set: {} when it is not set there.  *)
(***************************************************************************)
EXTENDS Integers, Sequences

CONSTANTS
    Sockets, Connections, \* handles
    AppOptions,   \* inputs: options the application sets one at a time,
    OptionArgs    \* and pairs `options`, `numOptions` it passes

VARIABLES
    settings,     \* what is set at each scope
    parent,       \* the scope a socket or connection inherits from
    asked,        \* history: the arguments each socket was created with,
    altered       \* and what the application set itself at an object since

optionVars == <<settings, parent, asked, altered>>

Global    == "Global"
Interface == "SocketsInterface"
Scopes    == {Global, Interface} \cup Sockets \cup Connections
Absent    == "absent"     \* the parent of what does not exist
NoOptions == [options |-> <<>>, null |-> FALSE, numOptions |-> 0]

ServerCallback == "Server::ConnectionStatusChangedCallback"
ClientCallback == "Client::ConnectionStatusChangedCallback"

(* The status callback, and one number that stands for the other options.  *)
Callback == "Callback_ConnectionStatusChanged"
Timeout  == "TimeoutConnected"
TypeOf   == [n \in {Callback, Timeout} |-> IF n = Callback THEN "Ptr" ELSE "Int32"]
SystemDefault ==
    [n \in {Callback, Timeout} |-> IF n = Callback THEN {"nullptr"} ELSE {"default"}]

(* SteamNetworkingConfigValue_t.                                           *)
Option(name, type, value) == [name |-> name, type |-> type, value |-> value]

ASSUME OptionAssumption ==
    /\ Global \notin Sockets \cup Connections
    /\ Interface \notin Sockets \cup Connections
    /\ Absent \notin Scopes
    /\ Sockets \cap Connections = {}
    /\ \A o \in AppOptions : o = Option(o.name, o.type, o.value)
    /\ \A a \in OptionArgs :
        a.numOptions \in Int /\ (a.null \/ a.numOptions <= Len(a.options))

-----------------------------------------------------------------------------
Exist(x) == parent[x] # Absent

OrElse(here, inherited) == IF here # {} THEN here ELSE inherited

AtInterface(n) ==
    OrElse(settings[Interface][n], OrElse(settings[Global][n], SystemDefault[n]))

AtSocket(n, s) == OrElse(settings[s][n], AtInterface(n))

AtConnection(n, c) ==
    OrElse(settings[c][n],
       IF parent[c] \in Sockets THEN AtSocket(n, parent[c]) ELSE AtInterface(n))

(* ISteamNetworkingUtils::SetConfigValue; a null argument removes.         *)
SetConfigValue(n, scope, type, arg) ==
    /\ settings' = IF type = TypeOf[n]
                   THEN [settings EXCEPT ![scope][n] = arg]
                   ELSE settings
    /\ altered' = IF type = TypeOf[n] /\ scope \notin {Global, Interface}
                  THEN altered \cup {<<scope, n>>}
                  ELSE altered
    /\ UNCHANGED <<parent, asked>>

(* The options of a list are set one after the other: the last one of a    *)
(* name stays.                                                             *)
Applied(list) ==
    [n \in {Callback, Timeout} |->
        LET at == {i \in DOMAIN list : list[i].name = n /\ list[i].type = TypeOf[n]}
        IN  {list[i].value : i \in {j \in at : \A k \in at : k <= j}}]

(* Mutant: the callback comes first.                                       *)
ExpandedFirst(a, callback) ==
    <<Option(Callback, "Ptr", callback)>>
        \o [i \in 1 .. (IF a.numOptions < 0 THEN 0 ELSE a.numOptions) |-> a.options[i]]

(* "Expand options to include the callbacks".                              *)
Expanded(a, callback) ==
    Append([i \in 1 .. (IF a.numOptions < 0 THEN 0 ELSE a.numOptions) |-> a.options[i]],
           Option(Callback, "Ptr", callback))

(* invalid_argument is thrown, after the old session has been left.        *)
InvalidArgument(a) == a.numOptions > 0 /\ a.null

Created(x, from, a, list) ==
    /\ ~ Exist(x)
    /\ parent' = [parent EXCEPT ![x] = from]
    /\ settings' = [settings EXCEPT ![x] = Applied(list)]
    /\ asked' = [s \in Sockets |-> IF s = x THEN a ELSE asked[s]]
    /\ UNCHANGED altered

-----------------------------------------------------------------------------
(* Server::Start and Client::Join, without and with options.               *)
Start(s) ==
    \/ Created(s, Interface, NoOptions, <<Option(Callback, "Ptr", ServerCallback)>>)
    \/ \E a \in OptionArgs :
        ~ InvalidArgument(a) /\ Created(s, Interface, a, Expanded(a, ServerCallback))

Join(c) ==
    \/ Created(c, Interface, NoOptions, <<Option(Callback, "Ptr", ClientCallback)>>)
    \/ \E a \in OptionArgs :
        ~ InvalidArgument(a) /\ Created(c, Interface, a, Expanded(a, ClientCallback))

(* A connection request at a listen socket.                                *)
Arrives(c, s) == Exist(s) /\ Created(c, s, NoOptions, <<>>)

Closed(x) ==
    LET gone == {y \in Sockets \cup Connections : y = x \/ parent[y] = x}
    IN  /\ Exist(x)
        /\ parent' = [y \in DOMAIN parent |-> IF y \in gone THEN Absent ELSE parent[y]]
        /\ settings' = [y \in Scopes |-> IF y \in gone THEN Applied(<<>>) ELSE settings[y]]
        /\ asked' = [s \in Sockets |-> IF s = x THEN NoOptions ELSE asked[s]]
        /\ altered' = {p \in altered : p[1] \notin gone}

(* The application sets or removes an option of any type, the callback     *)
(* included, at the global scope, at the interface or at any object.       *)
AppSets(o) ==
    \E scope \in {Global, Interface} \cup {x \in Sockets \cup Connections : Exist(x)},
       arg \in {{}, {o.value}} :
        SetConfigValue(o.name, scope, o.type, arg)

OptionsInit ==
    /\ settings = [x \in Scopes |-> Applied(<<>>)]
    /\ parent = [x \in Sockets \cup Connections |-> Absent]
    /\ asked = [s \in Sockets |-> NoOptions]
    /\ altered = {}

OptionsNext ==
    \/ \E s \in Sockets : Start(s)
    \/ \E c \in Connections : Join(c) \/ \E s \in Sockets : Arrives(c, s)
    \/ \E x \in Sockets \cup Connections : Closed(x)
    \/ \E o \in AppOptions : AppSets(o)

OptionsSpec == OptionsInit /\ [][OptionsNext]_optionVars
-----------------------------------------------------------------------------
(* Whatever callback the application hides in `options`, and whatever it   *)
(* sets globally, at the interface or at other objects, an event of a      *)
(* connection goes to the callback of the class that owns it.  Excepted    *)
(* are the connections at which, or at whose listen socket, it has changed *)
(* the callback itself after all: the WARNING of Server.h:112 and          *)
(* Client.h:105 is about them, and nothing in CushiNet keeps them.  And    *)
(* unless it has been changed there, a socket has every other option as    *)
(* the caller of Start asked, the last one winning.                        *)
CallbackIsOurs ==
    /\ \A c \in Connections :
        /\ Exist(c) /\ <<c, Callback>> \notin altered
        /\ <<parent[c], Callback>> \notin altered
        => AtConnection(Callback, c) =
                {IF parent[c] \in Sockets THEN ServerCallback ELSE ClientCallback}
    /\ \A s \in Sockets :
        Exist(s) /\ <<s, Timeout>> \notin altered =>
                    LET a == asked[s]
                        own == {i \in 1 .. a.numOptions :
                                  /\ a.options[i].name = Timeout
                                  /\ a.options[i].type = "Int32"}
                    IN  AtSocket(Timeout, s) =
                            IF own = {} THEN AtInterface(Timeout)
                            ELSE {a.options[i].value :
                                    i \in {j \in own : \A k \in own : k <= j}}
=============================================================================
