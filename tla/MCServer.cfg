\* One server that may be started twice, two clients with two messages each.
CONSTANTS
    Servers = {s1}
    Sockets = {k1, k2}
    Groups = {g1, g2}
    Conns = {c1, c2}
    Invalid = Invalid
    MaxMessages = 2
    MaxMsgs = 2
SPECIFICATION Spec
SYMMETRY Symmetry
INVARIANTS
    TypeOK
    TrackedClientIsLive
    NoLeakedConnection
    EndedIsPosted
PROPERTIES
    FetchesFromClients
    DisconnectIsLast
    ImplementsMembership
