\* One link of one client, with a message.  No symmetry: liveness is checked.
CONSTANTS
    Servers = {s1}
    Sockets = {k1}
    Groups = {g1}
    Clients = {p1}
    Conns = {c1}
    Invalid = Invalid
    MaxMessages = 1
    MaxMsgs = 1
    Limit = 1
    Modulus = 4
    Mortal = {"server", "client"}
SPECIFICATION EndFairSpec
PROPERTIES
    LeaverDropped
    RefusedHears
    JoinAnswered
    SentIsHeard
