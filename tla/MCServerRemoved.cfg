\* The smallest instance that shows the difference.
CONSTANTS
    Servers = {s1}
    Sockets = {k1}
    Groups = {g1}
    Conns = {c1}
    Invalid = Invalid
    MaxMessages = 1
    MaxMsgs = 2
SPECIFICATION Spec
SYMMETRY Symmetry
PROPERTY
    RemovedIsNotReported
