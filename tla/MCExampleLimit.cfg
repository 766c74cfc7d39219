\* A limit of one client, and three connections.
CONSTANTS
    Servers = {s1}
    Sockets = {k1}
    Groups = {g1}
    Conns = {c1, c2, c3}
    Invalid = Invalid
    MaxMessages = 0
    MaxMsgs = 1
    Limit = 1
    Modulus = 4
SPECIFICATION ExampleSpec
SYMMETRY Symmetry
INVARIANT
    SizeLimit
