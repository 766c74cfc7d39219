\* One client that may join a second time.  No symmetry: liveness is checked.
CONSTANTS
    Clients = {p1}
    Conns = {c1, c2}
    Invalid = Invalid
    MaxMessages = 2
    MaxMsgs = 1
SPECIFICATION FairSpec
PROPERTIES
    LossNoticed
    ConnectReported
    MailIsRead
