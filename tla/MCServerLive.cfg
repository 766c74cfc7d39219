\* Two servers of one process, on one registry: one that is restarted while the
\* other is stopped, or both at once; one client whose mail takes two batches.
CONSTANTS
    Servers = {s1, s2}
    Sockets = {k1, k2}
    Groups = {g1, g2}
    Conns = {c1}
    Invalid = Invalid
    MaxMessages = 2
    MaxMsgs = 1
SPECIFICATION FairSpec
INVARIANTS
    RegistryMatchesSockets
    HandlesHeldOnce
PROPERTIES
    ReportsOwnSession
    RequestsAnswered
    DeadClientsDropped
    MailIsRead
