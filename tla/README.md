# CushiNet: specifications, model checking and proofs

CushiNet is a C++ layer over Valve's GameNetworkingSockets (GNS) that turns its
callbacks and handles into a `Server`, a `Client` and their listeners. This
directory models that layer in TLA+, checks small instances with TLC and proves
the main results for every size with TLAPS. Line numbers refer to
`src/Server.cpp`, `src/Client.cpp`, `src/CushiNet.cpp`, the headers in
`include/CushiNet/` and the repository's `README.md`.

## 1. Inventory

| part | state | operations | status |
|---|---|---|---|
| `Server` | `socket`, `pollGroup`, `clients`, `listener`; static `globalServerRegistry` | `Start` (two overloads), `Stop`, `AcceptClient`, `RemoveClient`, `SetListener`, `Update`, the static status callback; `SendMessage...`, `GetClients`, `IsRunning` | modelled (`Server`) |
| `Client` | `connection`, `listener`; static `globalClientRegistry` | `Join` (three forms), `Leave`, `SetListener`, `Update`, the static status callback; `SendMessage`, `IsConnected` | modelled (`Client`) |
| listeners | the application's own | `OnConnectionRequest`, `OnConnect`, `OnMessageReceived`, `OnDisconnect` | every sequence of calls the application may make inside one, see 3; the repository's README's own listener in full (`ExampleServer`) |
| `CushiNet::RunCallbacks` | none: GNS's queue | hands the queued status changes of the process to the static callbacks | modelled (in `Server` and `Client`) |
| GNS (external) | connections, listen sockets, poll groups, queue, unread mail, configuration | what CushiNet calls, and a service thread | modelled as far as it is used (`SteamConnections`, `SteamSockets`, `EndToEnd`, `Options`) |
| the README's programs | `clientCount`, a game loop each | server program and client program | modelled (`ExampleServer`, `EndToEnd`) |
| options of `Start` and `Join` | the settings of each scope | expanding `options`, `SetConfigValue`, inheritance | modelled for the callback and one other option (`Options`) |
| `ParseIPv4Address` | none | text or four octets to 32 bits | modelled (`IPv4Text`, `Addresses`) |
| addresses, identities, ids (inline code of the GNS headers) | bytes | setters, getters, comparison, packing | modelled (`Addresses`, `Identities`, `SteamIDs`) |
| lifetime: constructors, `Init`, `Dispose` | the library's own | | see 7 |
| build files, unused GNS headers | | | see 7 |

How they interact. There are two threads. GNS's service thread receives
packets; it moves connections between states, queues a copy of each change
(`SteamNetConnectionStatusChangedCallback_t`), and collects mail. The
application thread calls everything else. `Update(true)` and `RunCallbacks`
hand out the queued changes: GNS calls the static function of CushiNet, which
looks in a static map for the object the change belongs to (by listen socket
for servers, by connection for clients), changes it, and calls its listener.
`Update` then reads mail in batches of at most 16 and gives each message to the
listener. Inside a listener the application may call any function of any
object.

What is hard here, none of it reached by a test (the repository has none):

- the state in a queued change is old when it is handed out: the connection
  may have ended, been closed, been removed, or belong to a session that is over;
- a listener may stop, restart or leave the very object whose callback or
  receive loop is on the stack;
- closing a handle discards mail but not queued changes;
- `Start`, `AcceptClient` and `Join` fail halfway, after they have torn down
  what was there;
- objects are found through static maps, which must agree with the members;
- the two ends of a link learn of each other late, or only by a timeout when a
  process has died;
- the application may set a callback of its own for the option CushiNet needs;
- values are packed into bit fields and unions that keep bytes of earlier values.

What makes each part correct: the maps agree with the members; no connection
or handle is leaked, shared or kept when dead; nobody hears of a connection on
an object it does not belong to, out of order, or after its end; requests are
answered, dead connections noticed and mail read as long as `Update` is called;
both ends of a link agree on who is in; and a value that is set is read back.
`PROJECT.json` lists the hazards line by line with the properties for each.

## 2. Modules

```
SteamConnections (external)   connections, queue of changes, mail
  |-- SteamSockets (external) listen sockets and poll groups
  |     `-- Server            CushiNet::Server and RunCallbacks
  |           |-- ServerRefinement --INSTANCE--> Membership (abstract)
  |           |     |-- MCServer                  TLC instances
  |           |     `-- ServerProofs              invariants, actions
  |           |           |-- ServerOrderProofs
  |           |           `-- ServerRefinementProofs
  |           `-- ExampleServer                   the README's server program
  |                 |-- MCExample
  |                 |-- ExampleServerProofs       counter and limit
  |                 `-- EndToEnd --INSTANCE--> Client
  |                       |-- MCEndToEnd          both processes
  |                       `-- EndToEndProofs
  |-- Client                  CushiNet::Client and RunCallbacks
  |     `-- ClientRefinement --INSTANCE--> Sessions (abstract)
  |           |-- MCClient
  |           `-- ClientProofs
  `-- SteamConnectionsProofs  lemmas about the queue

Addresses     ParseIPv4Address of octets, SteamNetworkingIPAddr
  |-- IPv4Text      ParseIPv4Address of a text
  `-- Identities    SteamNetworkingIdentity  (with SteamIDs)
SteamIDs      CSteamID, CGameID, SteamNetworkingPOPID
Options       configuration options, Start and Join
Values        all of these together
  `-- MCValues
ValuesProofs  theorems about Values and each kind in it
```

`Membership` is what an application may rely on if all it looks at is
`IsRunning` and `GetClients`: members come one at a time into a running server,
a stop or restart empties it, and a connection whose membership is over never
becomes a member again, of this server or of another. `ServerRefinement` maps
`running` to `IsRunning`, `members` to `clients`, and `past` to the admitted
connections that are no client now. What it comes to is `OneStay` (no connection
is a member twice or after its stay) and `OverForEver` (a stay that is over is
over for ever).

`Sessions` is what an application may rely on if it looks at `IsConnected` and
at what its listeners hear: a client is in one session or none, a session
begins once and never comes back, OnConnect speaks of the session the client is
in and comes once, OnDisconnect comes exactly where the client loses a session
that it did not leave. `ClientRefinement` maps `current` to `connection`,
`past` to the connections GNS has invalidated and `reported` to `gone`.
It comes to `OneSession` and an `OverForEver` of its own.

## 3. How the models correspond to the code

*One step.* A function that calls no listener is one action that makes all its
calls to GNS and all its assignments: `Start` includes the `Stop` it begins
with, the registration and the new handles. GNS locks itself for each call, so
its service thread may run, and packets leave, between two calls of one
function. For `AcceptClient` that can be seen by the peer, which may answer
the acceptance (178) before the client is in the poll group (185) and in
`clients` (191), or before a failed acceptance is undone (186). It is therefore
cut there: `AcceptClient` sends the acceptance and notes in `accepting` for
whom, `EnterPollGroup` is `SetConnectionPollGroup`, `AcceptUndone` its failure
and `AcceptDone` the `insert` and the return; in between only the service
thread and the peer run (`AppRuns`). For the other functions one step is an
abstraction: what the service thread may do between their calls of GNS (a
request reaches a new listen socket before it is registered, a connection ends
while `Stop` closes others) is modelled before or after them. The changes it
posts there are handed out by the application thread only later.

*Callbacks.* `Update` and `RunCallbacks` are cut where they call a listener.
`pc` is `"callbacks"` while changes are handed out (`left` counts those GNS has
taken from the queue for this call), the name of a listener function while
the application's code runs in it, `"polling"` in the receive loop,
`"failed"` after a failed receive and before the `Stop` or `Leave` and the exception. A
callback that must run code after its listener returns has a `Return` action
of its own: `ReturnFromConnectionRequest` closes a request that was not
accepted (289 to 294).

*The application.* `AppCalls` is any call on any object, and is enabled when
`pc` is `"idle"` or a listener function: what a listener does is every
sequence of calls. It may name connections it has been told of, and old
handles (`MayName`). It may not call `Update` or `RunCallbacks` in a listener
(GNS does not promise that to work), destroy an object there, or throw.

*Failures.* `CreateListenSocketIP`, `CreatePollGroup`, `ConnectByIPAddress` may
fail whenever they are called, null options are the same path, and
`SetConnectionPollGroup` may refuse. `AcceptConnection` refuses exactly when
the connection is no longer connecting. `ReceiveMessagesOn...` returns -1 for a
handle that names nothing. What a message may be refused for is under *Sending*.

*GNS.* `Created`, `Established`, `Ends` post changes; `Closed` invalidates
handles and drops their mail and leaves the queue alone; `CloseListenSocket`
closes the connections that came in on the socket (`Children`). Handles are
never reused. A message is only counted: contents, order between connections
and reliability are GNS's own. A batch is any choice of waiting messages that
fills the array or empties the group. Changes to the state None, which GNS
posts for handles the application closes, are ignored by both callbacks and
left out.

*History variables.* `admitted`, `gone` (server) and `told`, `quit`,
`gone` (client) record what the application did and heard. No guard reads them.

*Sending.* `SendMessageToClient`, `SendMessageToAllClients` and the client's
`SendMessage` change nothing these objects keep, so they are operators: the
sets of what they may return in a state. `SendResult` has every failure that
the headers name: a message that is too big at any time (`InvalidParam`), one
that is not to wait (`Ignored`) or finds the buffer full (`LimitExceeded`), a
connection that is not up yet (`InvalidState`) or has ended (`NoConnection`). A
send that fails therefore says little, and no property is about it; that
`SendMessageToAllClients` returns only the last failure (`Server.cpp` 239) is
what its operator says.

*The example.* `ExampleServer` narrows `AppCalls` to the calls of the README's
program (45 to 126), with its unsigned counter, which wraps. The body of a listener
function is one step, up to the `AcceptClient` in OnConnectionRequest, which goes on
in the steps above; the return is another, since the service thread may end the
connection in between.

*Two processes.* In `EndToEnd` a link is one element of `Conns` with a state at
each end. What the modules of the ends leave to the peer happens only when the
peer has done it: a request arrives if the client has joined, the client hears
of its acceptance if the server has sent one (`accepted`), a hang-up is heard if
the other end has closed, a message arrives if one was written. All of it
may come late; until then either end may instead time out
(`ProblemDetectedLocally`). A process of `Mortal` may die at any point without
`Stop`, `Leave` or `Dispose`. The client's loop may use `Update(true)`, or
`RunCallbacks` and the README's `Update(false)` (183). Messages from the server to
the client are not followed here (`Client` lets mail arrive at any time).

*Options.* The value of an option at a scope is a set with no or one member. A
connection inherits from its listen socket or, if a client made it, from the
interface. `Start` and `Join` set the expanded list in its order. The application may
set or remove any option, the callback included, at every scope, existing listen
sockets and connections included (`AppSets`); `altered` remembers at which objects
it did. Everything but the status callback is one option, `TimeoutConnected`.

*Values.* A number of 32 bits is a pair of halves, one of 64 bits its 8 bytes,
since TLC's integers have 32 bits with a sign. A text is the sequence of what
`std::stoi` makes of its segments: an octet, another number, or one of its exceptions.
The operator `|` of C is written out for the 16 weights of a half (`HalfOr`), and the
string of a data center ends at the first zero byte (`POPString`), so that both
can be reasoned about without recursion.

*Abstracted.* Reject reasons, log output, the data of messages.

## 4. What is checked

| run | instance | shows |
|---|---|---|
| `server_core` | 1 server, 2 sockets, 2 groups, 2 connections, 2 messages each, batches of 2 | Types; clients are live connections of the session (`TrackedClientIsLive`); none leaks (`NoLeakedConnection`); ends are always on their way (`EndedIsPosted`); only mail of clients is fetched (`FetchesFromClients`); nothing follows OnDisconnect (`DisconnectIsLast`); the server implements `Membership` |
| `server_liveness` | 2 servers, 2 sockets, 2 groups, 1 connection, 2 messages, batches of 1 | the registry, the handles, and that changes reach the session they belong to (`ReportsOwnSession`); and `RequestsAnswered`, `DeadClientsDropped`, `MailIsRead`, with stops, restarts and removals in between |
| `removed_reported` | 1 server, 1 connection | violation: see 6 |
| `update_failure` | 1 server, 1 connection, 1 message | violation: see 6 |
| `client_core` | 2 clients, 2 connections, 2 messages, batches of 2 | Types; registry and connections agree; none leaks or stays when dead; a loss is always on its way; OnConnect and OnDisconnect in order, once, and never after `Leave`; nothing follows OnDisconnect; the clients implement `Sessions` |
| `client_liveness` | 1 client, 2 connections, 2 messages, batches of 1 | `LossNoticed`, `ConnectReported`, `MailIsRead` |
| `client_failure` | 1 client, 1 connection, 1 message | violation: see 6 |
| `end_to_end` | 1 server, 1 client, 2 links, no messages, a limit of 1, a counter of 0 to 3, nobody dies | who says it is connected is a member, or the `AcceptClient` that lets it in has not returned (`ConnectedIsMember`); what the README's counter counts (`CounterLaw`) and when it keeps the limit (`LimitKeptWhilePaired`) |
| `end_to_end_liveness` | 1 server, 1 client, 1 link, 1 message, either process may die | leaving, refusing, joining and sending are noticed at the other end: `LeaverDropped`, `RefusedHears`, `JoinAnswered`, `SentIsHeard` |
| `example_limit` | 1 server, 3 connections, a limit of 1 | violation: see 6 |
| `malformed_text` | the inputs of `MCValues` | violation: see 6 |
| `values` | the inputs of `MCValues`; one listen socket, one connection | `AddressReadsBack`, `WellFormedParses`, `NumbersPack`, `MadeIsValid`, `KeyNamesAccount`, `EqualityIsByValue`, `GettersReadBack`, `CallbackIsOurs` |

*Why the bounds are enough to be of use.* Two sockets let a server restart
with changes of its first session queued, or two servers run at once; two
connections make one outlive, follow or overtake the other; two messages and
batches of two leave mail behind in a batch when a listener acts in between,
and batches of one with two messages make the loop go round. The two servers have
one connection only: how connections affect one another within a server is what
`server_core` is for. Nothing compares
handles by anything but equality, so the sets of handles, servers and clients
are symmetric; symmetry is not used where liveness is checked. Deadlock is
checked in every run: the application can always call something.

In `end_to_end` two links of one client are enough for the first to be counted
still, or be reported, when the second asks; messages are left to the liveness
run, which has one. A limit of 1 is reached, and a counter with 4 values wraps
both ways. No process dies in `end_to_end` because a crash takes nothing
away from what its invariants look at; the theorem of section 5 has crashes.
`example_limit` needs a third connection: one hangs up while its request is
queued, one is in, one too many comes. The inputs of `values` are the least
and the greatest number of each width, values that agree in all bytes but one,
and lengths on both sides of each limit; `Room`, the size of an identity's
union, is 33 instead of 128, the longest value under consideration and the least
the headers' other sizes allow, and texts have up to five segments
(`MaxSegments`). The kinds of values share nothing, so each behaviour works
on one of them (`focus`).

*Fairness.* Weak fairness of `Library`: the thread is not suspended for ever
inside CushiNet, and listeners return. Strong fairness of `Update(s)`: the
game loop of the README (111) calls it again and again. It is strong because
`Update` can only start when the thread is outside, which it is again and
again but not always. No fairness is asked of the service thread, the peers or
the rest of the application, which may stop, restart and change listeners for
ever. `EndFairness` asks the same of the two processes while they live, and of
GNS what its headers promise: it notices in the end that the other end of a
link is gone or silent (the timeouts `TimeoutInitial` and `TimeoutConnected`),
and brings a reliable message on a link that stays up. Nothing is asked of a
link that is merely slow.

Every property has a mutant: a definition replaced by a plausible bug
(operators with a comment `Mutant:`, used by nothing else) under which TLC
finds it violated.

## 5. What is proved

For all sets of servers, clients, handles and connections, finite or not, any
number of messages and any queue length; the assumptions are the named
ones about the constants, which only keep the sets and the invalid handle apart.

*Server* (`ServerProofs`). The inductive invariant `Inv` has three parts, each
inductive given those before it.

1. `TypeInv`: types; `left` is no more than the queue is long, callbacks
   have arguments and at most one `AcceptClient` runs (`ThreadOK`); and a handle that is queued, listed or given
   to a listener has been given out (`HandedOut`). Proves `TypeCorrect`.
2. `HandleInv`: `RegistryMatchesSockets` and `HandlesHeldOnce`. Only `Start`
   and `Stop` touch these variables, but the two invariants need each other: erasing
   `socket[s]` from the registry is right only if no other server holds it.
   Proves `RegistryCorrect`, `HandlesCorrect`.
3. `ConnInv`: `NoLeakedConnection`, `TrackedClientIsLive` and `EndedIsPosted`
   are proved together with the facts that tie them: a connected connection,
   and one with mail, is a client or being accepted (`ConnectedIsClient`,
   `MailOfClients`); who is being accepted is alive on the socket of the server
   that accepts it and in its poll group or none (`AcceptingOwn`), and nobody is
   in a group before (`Ungrouped`); and a listener is asked about a request of
   its own server (`AskedOwn`). None of these holds
   alone: that the callback for a dead client is not ignored follows from
   its being no leak, which gives it a socket that is held, hence registered.
   Proves `TrackedCorrect`, `NothingLeaks`, `EndsAreNews`, and the action
   properties `ReportsCorrect` and `FetchesCorrect`.

*Order* (`ServerOrderProofs`). `DisconnectCorrect` needs to know that the queue
is in order: nothing follows the end of a connection in it (`EndIsLast`), so
once that end is reported nothing of the connection is left (`QueueOrder`);
and fetched messages of a connection that is gone are all delivered
(`BatchOrder`). These do not follow from `Inv`, which sees the queue as a set.

*Refinement* (`ServerRefinementProofs`). `AdmittedInv`: what has been admitted
is past Connecting for good, so what AcceptClient admits is new. `StepMaps`:
every step is a step of `Membership` or a stutter; `Implementation`:
`Spec => ImplementsMembership`. `StaysCorrect` draws the conclusion for the code:
`OneStay` is inductive for `Membership`'s own steps (`StaysInv`), so an application
that looks at `GetClients` sees each connection for one unbroken stay.

*Client* (`ClientProofs`). The inductive invariant `Inv` adds to the two
invariants about who holds what (`RegistryMatchesConnections`,
`ConnectionsHeld`) what the queue says of a connection: each change is posted
once and fits the state it is in (`PostedOnce`), a connection that has ended is
announced (`EndedIsPosted`), and what a listener was told or the application
left cannot be announced again (`HistoryOK`). `ConnectionsHeld` with the registry gives
`Routing`: a change is handled exactly if its connection still exists. From
that: `TypeCorrect`, `RegistryCorrect`, `NothingLeaks`, `LossesAreNews`, and
the action properties `OrderCorrect` and `DisconnectCorrect`.

*Client refinement.* `ClientProofs!Implementation`: `Spec => ImplementsSessions`.
`Begin` asks for a session that is not past, which is `ConnectionsHeld`: what
`Join` gets from GNS is a handle never seen; and `Tell` for one that was not
told, which is `HistoryOK`. `SessionsCorrect` is the same conclusion as
`StaysCorrect`, from `Sessions` (`SessionsInv`).

*Example* (`ExampleServerProofs`). `ExampleIsServer`: the program's steps are
steps of `Server`, so `Inv` and the rest hold of it. `ProgramInv` adds that a
body runs once per call, that what OnDisconnect is about is in `gone`, and that only
a listener that is asked about it, and found the server not full, is accepting one.
With it every step lets one in, begins a report, counts a report, or counts nothing
(`ProgramSteps`); `CounterCorrect` is then arithmetic on cardinalities and remainders
(`AddToRemainder`), for every width. `LimitCorrect` needs `PairedInv`: while
all reported ends are of admitted connections, the counter is exactly the
number of admitted connections not yet counted down, which includes all
clients, and the guard of OnConnectionRequest keeps it at the limit.

*Composition* (`EndToEndProofs`). `EndsImplement`: each end of the composition
is a behaviour of its own module, so `EndCounterCorrect` and `EndLimitCorrect`
are those of the parts, and `EndServerCorrect` restates there, with crashes and a peer
at the other end, the safety and action properties of the server. The client's
theorems hold of it as well, since `EndsImplement` gives `C!Spec`; they are not
restated because tlapm does not let a module use the theorems of one it takes
by `INSTANCE`. `MembersAgree` is about both, and about the time between the acceptance
and the return of `AcceptClient`, in which the client may be connected and is no
member yet: `AcceptedInv` (what was accepted is a member, being accepted, or closed:
`MemberOrClosed`) is kept because no step of the server takes a member from `clients`, or
ends an `AcceptClient`, without making it a member or closing it (`Settles`); `HeardInv`:
the client's end is connected only if the server has accepted; and `ProgramInv` says
which listener call the `AcceptClient` belongs to.

*Values* (`ValuesProofs`). `CallbackCorrect`, for every list of options and
whatever the application sets afterwards: a
socket keeps what it was created with unless it is in `altered`, which only a call of
the application at that very object puts it in (`SocketKeeps`), the callback is at the
last place of the expanded list and wins (`ExpandedApplied`, `LastExists`), and
a connection has the callback of its maker or inherits its socket's
(`ConnectionKeeps`). Where the application does change the callback of a listen socket or
connection of CushiNet's, nothing brings it back, and the theorem says nothing: that is
what the WARNING at `Server.h` 112 and `Client.h` 105 forbids. `EqualityCorrect`: an identity agrees with the value it
stands for in type, size and that many bytes (`StandsFor`). `GettersCorrect`
needs in addition that `meant` is always a value of one of the types
(`ValuesInv`); then each getter, which looks at type and size only, reads back
the bytes of the value and a getter of another type finds nothing.
`AddressCorrect` and `KeyCorrect`: the parts of a number put it together again
(`HalfInOctets`, `SameParts`). `PackingCorrect`, for every value of the fields' widths
(`SteamIDTypeOK`) and codes of any length: the bytes hold disjoint fields, and the first
zero byte comes where the code ends or fifth. `MadeCorrect`: `MadeInv` keeps what the
last constructor was given; of games it says something for ids below 2^24, which
truncation to 24 bits leaves as they are. `TextCorrect`, for texts of the documented
format: texts are sequences of segments (`TextInv`), and shifted octets have
no bit in common, so `|` adds them (`HalfInNibbles`, `OrAdds`, `OctetsOr`).
The types are inductive by themselves (`AddressTypeCorrect`, `SteamIDTypeCorrect`,
`IdentityTypeCorrect`: no setter writes past the union). `ValuesImplementParts`: all
kinds together implement each of the five specifications, so their theorems hold of
the specification that is run (`ValuesTypeCorrect`, `ValuesCorrect`).

*Queue* (`SteamConnectionsProofs`). What is posted after `Append` and after
`Tail`, and that a queue in which every change is posted once stays one.

Only model-checked: liveness, which the prover cannot do under fairness
(`RequestsAnswered`, `DeadClientsDropped`, `MailIsRead`, `LossNoticed`,
`ConnectReported`, `LeaverDropped`, `RefusedHears`, `JoinAnswered`, `SentIsHeard`).
Every invariant and every action property of the passing runs is a theorem, for every
value of the constants. The five violations are TLC's counterexamples.

## 6. Findings

- `removed_reported`: `Server.h` 53 promises no OnDisconnect for a client
  removed with `RemoveClient`. If its hang-up was already queued, the callback
  finds the server in the registry, does not ask whether the connection is a
  client, and calls OnDisconnect (300 to 306).
- `update_failure`, `client_failure`: `Update` is documented to throw when
  receiving fails (`Server.h` 143, `Client.h` 135). It also throws when the listener
  called `Stop` or `Leave` in OnMessageReceived, since the loop then polls the
  handle 0.
- `example_limit`: the README's listener tests its counter under "Server size
  limit" (55). `OnDisconnect` is also called for a connection whose peer gave up
  before its request was handed out (300 to 306), and counts it down though it was
  never counted up: the counter falls behind, or wraps below 0, and more
  clients than the limit get in. `CounterLaw` says by how much.
- `malformed_text`: `ParseIPv4Address` of a text is documented
  for `[0-255].[0-255].[0-255].[0-255]` and to throw `invalid_argument` for other
  formats (`CushiNet.h` 13, 18). `std::stoi` (`CushiNet.cpp` 24) also
  takes "256" or "-1", whose bits run into the octets before, and ignores what
  follows a number, a fourth dot and a fifth segment included; for numbers that are too
  big it throws `out_of_range`. `WellFormedParses` is about well-formed texts only.

## 7. Not modelled

- *Lifetime.* The models begin after construction, with an initialised library.
  Destructors are `Stop` and `Leave`. `Dispose` before them is a call into GNS
  after `GameNetworkingSockets_Kill`, and a listener that destroys its own
  object leaves the receive loop with a dangling `this`: undefined, so there is
  nothing to model.
- *Handles of other owners.* `AcceptClient` or `RemoveClient` with a connection
  of another server: the application names only connections of the
  object it calls. Handles of different `ISteamNetworkingSockets` objects may
  collide in the static maps; one interface is modelled, the one
  `RunCallbacks` and the default constructors use.
- *Endless traffic.* The receive loop goes on while there is mail; `MaxMessages`
  bounds it, and how long one `Update` may last is not asked.
- *Messages fetched before a listener leaves and joins another server* are still
  delivered from the batch (`Client.cpp` 120); no document says they are not.
- *One process with a server and a client.* Their callbacks share no state
  and `CallbackCorrect` says each change goes to the right class, so a common
  queue only merges the orders of two queues.
- *GNS inside.* It is linked, and here are its headers only: connections are modelled
  by the states and changes the headers declare. States below `None`
  (FinWait, Linger, Dead) are GNS's own: what they are for, that the peer hears of
  the end only later, is `ServerEnds` and `ClientEnds`; and a change to `None` is ignored by both callbacks. Certificates, lanes, relays, FakeIP, P2P,
  custom signaling, statistics, `ISteamNetworkingMessages` and the flat interface
  are declarations that CushiNet does not call.
- *Headers.* `ToString`, `ParseString` and `Render` are in the library; the order of ids,
  `FakeIP` and the layout on big-endian machines are left out, and so is
  reading options back, which CushiNet does not do.
- *Build files* have no run-time behaviour.
