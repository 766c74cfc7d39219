\* Two clients in one process, which share the registry and the queue.
CONSTANTS
    Clients = {p1, p2}
    Conns = {c1, c2}
    Invalid = Invalid
    MaxMessages = 2
    MaxMsgs = 2
SPECIFICATION Spec
SYMMETRY Symmetry
INVARIANTS
    TypeOK
    RegistryMatchesConnections
    ConnectionsHeld
    LossIsPosted
PROPERTIES
    StatusChangesInOrder
    DisconnectIsLast
    ImplementsSessions
