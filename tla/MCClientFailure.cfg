\* A listener calls Leave in OnMessageReceived.
CONSTANTS
    Clients = {p1}
    Conns = {c1}
    Invalid = Invalid
    MaxMessages = 1
    MaxMsgs = 1
SPECIFICATION Spec
INVARIANTS
    FailureLeavesServer
