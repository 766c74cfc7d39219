\* A client that joins twice a server for one, so that its first link may
\* still be counted when the second one asks.
CONSTANTS
    Servers = {s1}
    Sockets = {k1}
    Groups = {g1}
    Clients = {p1}
    Conns = {c1, c2}
    Invalid = Invalid
    MaxMessages = 0
    MaxMsgs = 1
    Limit = 1
    Modulus = 4
    Mortal = {}
SPECIFICATION EndSpec
SYMMETRY Symmetry
INVARIANTS
    ConnectedIsMember
    CounterLaw
    LimitKeptWhilePaired
