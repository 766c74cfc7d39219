SPECIFICATION ValuesSpec
SYMMETRY Symmetry
CONSTANTS
    IPs <- MCIPs
    IPv6s <- MCIPv6s
    Ports <- MCPorts
    Accounts <- MCAccounts
    Instances <- MCInstances
    Universes <- MCUniverses
    Types <- MCTypes
    RawIDs <- MCRawIDs
    Names = {n1, n2}
    Addrs <- MCAddrs
    Room = 33
    Strings <- MCStrings
    Blobs <- MCBlobs
    Segments <- MCSegments
    MaxSegments = 5
    Codes <- MCCodes
    Sockets = {s1}
    Connections = {c1}
    AppOptions <- MCAppOptions
    OptionArgs <- MCOptionArgs
INVARIANTS
    ValuesTypeOK
    AddressReadsBack
    NumbersPack
    MadeIsValid
    EqualityIsByValue
    GettersReadBack
    WellFormedParses
    CallbackIsOurs
PROPERTY
    KeyNamesAccount
