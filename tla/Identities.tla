----------------------------- MODULE Identities -----------------------------
(***************************************************************************)
(* struct SteamNetworkingIdentity (src/include/steam/                      *)
(* steamnetworkingtypes.h): who is at the other end of a connection, as    *)
(* the listeners get it in m_info.m_identityRemote.  A type, a size and a  *)
(* union of byte arrays, which a setter overwrites only as far as its      *)
(* value reaches: what an earlier value left behind it stays in memory.    *)
(***************************************************************************)
EXTENDS Addresses, SteamIDs

CONSTANTS
    Names,        \* the identities under consideration
    Room,         \* bytes of the union, 128 in the code
    Addrs,        \* inputs: addresses,
    Strings,      \* strings without their '\0', of any length,
    Blobs         \* and byte arrays of any length

VARIABLES
    identity,     \* the SteamNetworkingIdentity of each name
    meant         \* history: type and bytes of the value last set

identityVars == <<identity, meant>>

MaxGenericString  == 32           \* k_cchMaxGenericString
MaxXboxPairwiseID == 33           \* k_cchMaxXboxPairwiseID
MaxGenericBytes   == 32           \* k_cbMaxGenericBytes

ASSUME IdentityAssumption ==
    /\ Room \in Nat /\ Room >= MaxXboxPairwiseID
    /\ Addrs \subseteq IPAddr
    /\ Strings \subseteq Seq(1 .. 255)
    /\ Blobs \subseteq Seq(Octet)

IdentityTypes == {"Invalid", "SteamID", "XboxPairwiseID", "SonyPSN",
                  "IPAddress", "GenericString", "GenericBytes"}

Identity == [type : IdentityTypes, size : 0 .. Room,
             bytes : [1 .. Room -> Octet]]

IdentityTypeOK == identity \in [Names -> Identity]

Blank == [type |-> "Invalid", size |-> 0, bytes |-> [i \in 1 .. Room |-> 0]]

Stored(id, v) ==
    [type  |-> v.type,
     size  |-> v.size,
     bytes |-> [i \in 1 .. Room |-> IF i <= v.size THEN v.data[i]
                                                  ELSE id.bytes[i]]]

(* Mutant: the type is set before the length is checked.                   *)
TypeFirst(id, v) == IF v.fits THEN Stored(id, v) ELSE [id EXCEPT !.type = v.type]

(* A setter: m_eType, m_cbSize and memcpy, or nothing if it does not fit.  *)
Store(id, v) == IF v.fits THEN Stored(id, v) ELSE id

(* Each setter: the type, the bytes it copies and their number, and        *)
(* whether they fit.                                                       *)
Always(type, size, data) ==
    [type |-> type, size |-> size, data |-> data, fits |-> TRUE]

SetSteamID64(w) == Always("SteamID", 8, w)

SetSteamID(s) == SetSteamID64(ConvertToUint64(s))

SetPSNID(w) == Always("SonyPSN", 8, w)

SetIPAddr(a) == Always("IPAddress", 18, AddrBytes(a))

SetLocalHost == SetIPAddr(SetIPv6LocalHost(0))

SetIPv4Addr(n, port) == SetIPAddr(SetIPv4(n, port))

SetGenericString(s) ==
    [type |-> "GenericString", size |-> Len(s) + 1, data |-> Append(s, 0),
     fits |-> Len(s) < MaxGenericString]

SetXboxPairwiseID(s) ==
    [type |-> "XboxPairwiseID", size |-> Len(s) + 1, data |-> Append(s, 0),
     fits |-> Len(s) \in 1 .. MaxXboxPairwiseID - 1]

SetGenericBytes(b) ==
    [type |-> "GenericBytes", size |-> Len(b), data |-> b,
     fits |-> Len(b) <= MaxGenericBytes]

Setters ==
    {SetLocalHost}
        \cup {SetSteamID64(w) : w \in RawIDs} \cup {SetPSNID(w) : w \in RawIDs}
        \cup {SetIPAddr(a) : a \in Addrs}
        \cup {SetIPv4Addr(GetIPv4(a), a.port) : a \in {b \in Addrs : IsIPv4(b)}}
        \cup {SetGenericString(s) : s \in Strings}
        \cup {SetXboxPairwiseID(s) : s \in Strings}
        \cup {SetGenericBytes(b) : b \in Blobs}

-----------------------------------------------------------------------------
(* What can be read.                                                       *)

(* Mutant: the whole array is compared.                                    *)
SameArray(x, y) ==
    /\ x.type = y.type /\ x.size = y.size
    /\ \A i \in 1 .. MaxGenericBytes : x.bytes[i] = y.bytes[i]

(* operator==                                                              *)
Same(x, y) ==
    /\ x.type = y.type /\ x.size = y.size
    /\ \A i \in 1 .. x.size : x.bytes[i] = y.bytes[i]

ZeroID == [i \in 1 .. 8 |-> 0]

GetSteamID64(id) ==
    IF id.type = "SteamID" THEN [i \in 1 .. 8 |-> id.bytes[i]] ELSE ZeroID

GetSteamID(id) == FromUint64(GetSteamID64(id))

GetPSNID(id) ==
    IF id.type = "SonyPSN" THEN [i \in 1 .. 8 |-> id.bytes[i]] ELSE ZeroID

Null == <<"nullptr">>

(* The string that begins where the array does: it ends before a '\0'.     *)
CString(bytes) ==
    LET n == CHOOSE i \in 1 .. Room :
                bytes[i] = 0 /\ \A j \in 1 .. i - 1 : bytes[j] # 0
    IN  [i \in 1 .. n - 1 |-> bytes[i]]

GetGenericString(id) ==
    IF id.type = "GenericString" THEN CString(id.bytes) ELSE Null

GetXboxPairwiseID(id) ==
    IF id.type = "XboxPairwiseID" THEN CString(id.bytes) ELSE Null

GetGenericBytes(id) ==
    IF id.type = "GenericBytes" THEN [i \in 1 .. id.size |-> id.bytes[i]]
                                ELSE Null

(* m_ip, as an address.                                                    *)
AddrOf(id) ==
    [ip |-> [i \in 1 .. 16 |-> id.bytes[i]],
     port |-> id.bytes[17] + 256 * id.bytes[18]]

IdentityIPv4(id) ==
    IF id.type = "IPAddress" THEN GetIPv4(AddrOf(id)) ELSE <<0, 0>>

IdentityIsLocalHost(id) == id.type = "IPAddress" /\ IsLocalHost(AddrOf(id))

-----------------------------------------------------------------------------
NoValue == [type |-> "Invalid", size |-> 0, data |-> <<>>]

IdentityInit ==
    /\ identity = [n \in Names |-> Blank]
    /\ meant = [n \in Names |-> NoValue]

(* Clear, and each setter.                                                 *)
IdentityNext ==
    \E n \in Names :
        \/ /\ identity' = [identity EXCEPT ![n] = Blank]
           /\ meant' = [meant EXCEPT ![n] = NoValue]
        \/ \E v \in Setters :
            /\ identity' = [identity EXCEPT ![n] = Store(@, v)]
            /\ meant' = IF v.fits
                        THEN [meant EXCEPT ![n] =
                                [type |-> v.type, size |-> v.size, data |-> v.data]]
                        ELSE meant

IdentitySpec == IdentityInit /\ [][IdentityNext]_identityVars
-----------------------------------------------------------------------------
(* Two identities are equal exactly when they stand for the same value,    *)
(* whatever either has held before and whichever setters have failed on    *)
(* the way: no stale byte is compared and no byte of the value is missed.  *)
EqualityIsByValue ==
    \A m, n \in Names : Same(identity[m], identity[n]) <=> meant[m] = meant[n]

(* Every getter gives back what was last set, or the null of its kind: a   *)
(* setter that failed has changed nothing, and no value is taken for one   *)
(* of another type that shares its bytes.                                  *)
GettersReadBack ==
    \A n \in Names :
        LET id == identity[n]
            v == meant[n]
            Text == [i \in 1 .. v.size - 1 |-> v.data[i]]
            IP == [i \in 1 .. 16 |-> v.data[i]]
            Or(type, value, null) == IF v.type = type THEN value ELSE null
        IN  /\ GetSteamID64(id) = Or("SteamID", v.data, ZeroID)
            /\ SetSteamID(GetSteamID(id)).data = GetSteamID64(id)
            /\ GetPSNID(id) = Or("SonyPSN", v.data, ZeroID)
            /\ GetGenericString(id) = Or("GenericString", Text, Null)
            /\ GetXboxPairwiseID(id) = Or("XboxPairwiseID", Text, Null)
            /\ GetGenericBytes(id) = Or("GenericBytes", v.data, Null)
            /\ IdentityIsLocalHost(id) <=>
                /\ v.type = "IPAddress"
                /\ IP \in {SetIPv6LocalHost(0).ip, SetIPv4(Loopback, 0).ip}
=============================================================================
