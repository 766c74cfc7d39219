------------------------------ MODULE MCValues ------------------------------
(* Values at the edges: the least and the greatest number of each width,   *)
(* strings and arrays around the greatest length that fits, byte arrays    *)
(* that agree with an id, a string or an address as far as they go.        *)
EXTENDS Values, TLC

Fill(n, b) == [i \in 1 .. n |-> b]

MCIPs == {<<0, 0>>, Loopback, <<32512, 256>>, <<65535, 65535>>, <<258, 772>>}
MCIPv6s == {ZeroIP, SetIPv6LocalHost(0).ip, SetIPv4(<<258, 772>>, 0).ip,
            [ZeroIP EXCEPT ![11] = 255], [ZeroIP EXCEPT ![1] = 255, ![16] = 1]}
MCPorts == {0, 21106, 65535}

MCAccounts == {<<0, 0>>, <<0, 1>>, <<255, 0>>, <<65535, 65535>>}
MCInstances == {0, 1, LobbyFlag, InstanceBits - 1, InstanceBits + 1}
MCUniverses == {0, 1, 4, 5, 255}
MCTypes == 0 .. 11
MCRawIDs == {Fill(8, 1), Fill(8, 255)}

MCAddrs == {SetIPv4(Loopback, 257), SetIPv6(Fill(16, 1), 257)}
MCStrings == {Fill(n, 1) : n \in {0, 31, 32, 33}}
MCBlobs == {Fill(n, 1) : n \in {0, 8, 32, 33}}

MCCodes == {<<97>>, <<97, 98>>, <<97, 98, 99>>, <<97, 98, 99, 255>>,
            <<97, 98, 99, 100, 101>>}

MCAppOptions == {Option(Callback, "Ptr", "App"), Option(Callback, "Int32", "short"),
                 Option(Timeout, "Int32", "short")}
MCOptionArgs ==
    {[options |-> list, null |-> FALSE, numOptions |-> n] :
        n \in {-1, 1, 2},
        list \in {<<Option(Timeout, "Int32", "short"), Option(Timeout, "Int32", "long")>>,
                 <<Option(Timeout, "Int32", "long"), Option(Callback, "Ptr", "App")>>}}
    \cup {[options |-> <<>>, null |-> TRUE, numOptions |-> n] : n \in {0, 1}}

Symmetry == Permutations(Names) \cup Permutations(Connections)

MCSegments ==
    [kind : {"octet"}, value : {0, 1, 127, 255}]
        \cup [kind : {"number"}, value : {256, -1}]
        \cup [kind : Exceptions, value : {0}]
=============================================================================
