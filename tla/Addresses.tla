----------------------------- MODULE Addresses -----------------------------
(***************************************************************************)
(* The addresses that Start and Join take: ParseIPv4Address for octets     *)
(* (src/src/CushiNet.cpp) and struct SteamNetworkingIPAddr.                *)
(*                                                                         *)
(* An unsigned number of 32 bits is a pair of halves <<high, low>>, since  *)
(* TLC's own integers have a sign.  Memory is a function from positions to *)
(* octets, in the order of the addresses in memory.                        *)
(***************************************************************************)
EXTENDS Integers, Sequences

CONSTANTS
    IPs,          \* inputs: numbers that SetIPv4 is given,
    IPv6s,        \* addresses of 16 bytes that SetIPv6 is given,
    Ports         \* and ports

VARIABLES
    address,      \* a SteamNetworkingIPAddr
    given         \* history: what it was last set to

addressVars == <<address, given>>

Octet  == 0 .. 255
HalfMax == 65535
Half   == 0 .. HalfMax
Uint32 == Half \X Half

ASSUME AddressAssumption ==
    /\ IPs \subseteq Uint32
    /\ IPv6s \subseteq [1 .. 16 -> Octet]
    /\ Ports \subseteq Half

(* ParseIPv4Address of four octets: shifted by 24, 16, 8 and 0.            *)
ParseIPv4Octets(first, second, third, fourth) ==
    <<first * 256 + second, third * 256 + fourth>>

(* uint8(n >> 24), uint8(n >> 16), uint8(n >> 8), uint8(n).                *)
OctetsOf(n) == <<n[1] \div 256, n[1] % 256, n[2] \div 256, n[2] % 256>>

-----------------------------------------------------------------------------
(* SteamNetworkingIPAddr.                                                  *)

IPAddr == [ip : [1 .. 16 -> Octet], port : Half]

ZeroIP == [i \in 1 .. 16 |-> 0]

Clear == [ip |-> ZeroIP, port |-> 0]

IsIPv6AllZeros(a) == a.ip = ZeroIP

SetIPv6(ip, port) == [ip |-> ip, port |-> port]

(* The address ::ffff:n.                                                   *)
SetIPv4(n, port) ==
    [ip   |-> [i \in 1 .. 16 |->
                CASE i <= 10 -> 0
                  [] i \in 11 .. 12 -> 255
                  [] i >= 13 -> OctetsOf(n)[i - 12]],
     port |-> port]

IsIPv4(a) ==
    /\ \A i \in 1 .. 10 : a.ip[i] = 0
    /\ \A i \in 11 .. 12 : a.ip[i] = 255

(* Mutant: the octets are read in the order of a little-endian machine.    *)
ReadBackwards(a) ==
    IF IsIPv4(a) THEN <<a.ip[16] * 256 + a.ip[15], a.ip[14] * 256 + a.ip[13]>>
                 ELSE <<0, 0>>

GetIPv4(a) ==
    IF IsIPv4(a) THEN <<a.ip[13] * 256 + a.ip[14], a.ip[15] * 256 + a.ip[16]>>
                 ELSE <<0, 0>>

SetIPv6LocalHost(port) ==
    [ip |-> [i \in 1 .. 16 |-> IF i = 16 THEN 1 ELSE 0], port |-> port]

(* 127.0.0.1 as a number: 0x7f000001.                                      *)
Loopback == <<32512, 1>>

IsLocalHost(a) ==
    \/ a.ip[16] = 1 /\ \A i \in 1 .. 15 : a.ip[i] = 0
    \/ GetIPv4(a) = Loopback

(* The 18 bytes that == compares: packed, the port in host order.          *)
AddrBytes(a) ==
    [i \in 1 .. 18 |-> CASE i <= 16 -> a.ip[i]
                         [] i = 17 -> a.port % 256
                         [] i = 18 -> a.port \div 256]

-----------------------------------------------------------------------------
Kinds == {"none", "IPv4", "IPv6", "localhost"}

AddressTypeOK == address \in IPAddr /\ given.kind \in Kinds

Becomes(a, kind, ip, port) ==
    /\ address' = a
    /\ given' = [kind |-> kind, ip |-> ip, port |-> port]

AddressInit ==
    /\ address = Clear
    /\ given = [kind |-> "none", ip |-> ZeroIP, port |-> 0]

AddressNext ==
    \/ Becomes(Clear, "none", ZeroIP, 0)
    \/ \E port \in Ports :
        \/ Becomes(SetIPv6LocalHost(port), "localhost", ZeroIP, port)
        \/ \E n \in IPs : Becomes(SetIPv4(n, port), "IPv4", n, port)
        \/ \E ip \in IPv6s : Becomes(SetIPv6(ip, port), "IPv6", ip, port)

AddressSpec == AddressInit /\ [][AddressNext]_addressVars
-----------------------------------------------------------------------------
(* What is set is read back: an IPv4 number survives its trip through the  *)
(* mapped address, GetIPv4 takes no other address for one, and localhost   *)
(* is exactly what SetIPv6LocalHost (JoinLocalHost) and 127.0.0.1 name.    *)
AddressReadsBack ==
    /\ given.kind = "IPv4" =>
        IsIPv4(address) /\ GetIPv4(address) = given.ip
    /\ given.kind = "IPv6" /\ ~ IsIPv4(SetIPv6(given.ip, 0)) =>
        GetIPv4(address) = <<0, 0>>
    /\ given.kind \in {"IPv4", "none", "localhost"} =>
        (IsLocalHost(address) <=>
            \/ given.kind = "localhost"
            \/ given.kind = "IPv4" /\ given.ip = Loopback)
    /\ IsIPv6AllZeros(address) =>
        \/ given.kind = "none"
        \/ given.kind = "IPv6" /\ given.ip = ZeroIP
    /\ address.port = given.port
=============================================================================
