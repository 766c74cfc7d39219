------------------------------ MODULE SteamIDs ------------------------------
(***************************************************************************)
(* CSteamID and CGameID (src/include/steam/steamclientpublic.h): numbers   *)
(* of 64 bits that name accounts and games, as bit fields; and             *)
(* SteamNetworkingPOPID, the code of a data center as a number.  A number  *)
(* of 64 bits is its 8 bytes, the lowest first; an unsigned number of 32   *)
(* bits is a pair of halves <<high, low>>, as in Addresses.                *)
(***************************************************************************)
EXTENDS Integers, Sequences

CONSTANTS
    Accounts,     \* inputs: account numbers of 32 bits,
    Instances,    \* instance numbers, which may have more than 20 bits,
    Universes, Types, \* values of EUniverse and EAccountType,
    RawIDs,       \* numbers of 64 bits,
    Codes         \* and codes of data centers

VARIABLES
    steamID,      \* a CSteamID
    gameID,       \* a CGameID
    made          \* history: how the last of them was made, and from what

idVars == <<steamID, gameID, made>>

Byte       == 0 .. 255
WordMax    == 65535
HalfWord   == 0 .. WordMax
AccountNo  == HalfWord \X HalfWord
Raw        == [1 .. 8 -> Byte]

ASSUME SteamIDAssumption ==
    /\ Accounts \subseteq AccountNo
    /\ Instances \subseteq Nat
    /\ Universes \subseteq Byte /\ Types \subseteq 0 .. 15
    /\ RawIDs \subseteq Raw
    /\ Codes \subseteq Seq(1 .. 255)

(* EAccountType and EUniverse.                                             *)
Individual     == 1
GameServer     == 3
AnonGameServer == 4
Clan           == 7
Chat           == 8
ConsoleUser    == 9
AnonUser       == 10
AccountTypeMax == 11
UniverseMax    == 5

InstanceBits == 1048576           \* 2^20
LobbyFlag    == InstanceBits \div 4

(* The layout of the 64 bits: account 32, instance 20, type 4, universe 8. *)
CSteamID == [account : AccountNo, instance : 0 .. InstanceBits - 1,
             type : 0 .. 15, universe : Byte]

ConvertToUint64(s) ==
    [i \in 1 .. 8 |->
        CASE i = 1 -> s.account[2] % 256
          [] i = 2 -> s.account[2] \div 256
          [] i = 3 -> s.account[1] % 256
          [] i = 4 -> s.account[1] \div 256
          [] i = 5 -> s.instance % 256
          [] i = 6 -> (s.instance \div 256) % 256
          [] i = 7 -> s.instance \div 65536 + 16 * s.type
          [] i = 8 -> s.universe]

LowAccount(w) == <<w[3] + 256 * w[4], w[1] + 256 * w[2]>>

(* Mutant: the mask of the instance keeps 16 bits.                         *)
FromUint64Short(w) ==
    [account |-> LowAccount(w), instance |-> w[5] + 256 * w[6],
     type |-> w[7] \div 16, universe |-> w[8]]

FromUint64(w) ==
    [account |-> LowAccount(w),
     instance |-> w[5] + 256 * w[6] + 65536 * (w[7] % 16),
     type |-> w[7] \div 16, universe |-> w[8]]

(* Mutant: the instance keeps its upper bits.                              *)
InstancedSetWide(account, instance, universe, type) ==
    [account |-> account, instance |-> instance, type |-> type,
     universe |-> universe]

(* A bit field keeps the low bits.                                         *)
InstancedSet(account, instance, universe, type) ==
    [account |-> account, instance |-> instance % InstanceBits,
     type |-> type, universe |-> universe]

Nil == InstancedSet(<<0, 0>>, 0, 0, 0)

(* Mutant: a clan gets the instance of a user.                             *)
SetAsUser(account, universe, type) ==
    InstancedSet(account, IF type = GameServer THEN 0 ELSE 1, universe, type)

Set(account, universe, type) ==
    InstancedSet(account, IF type \in {Clan, GameServer} THEN 0 ELSE 1,
                 universe, type)

FullSet(w, universe, type) ==
    InstancedSet(LowAccount(w), w[5] + 256 * w[6] + 65536 * w[7],
                 universe, type)

CreateBlankAnonLogon(universe) ==
    InstancedSet(<<0, 0>>, 0, universe, AnonGameServer)

CreateBlankAnonUserLogon(universe) ==
    InstancedSet(<<0, 0>>, 0, universe, AnonUser)

(* Mutant: the instance is part of the key.                                *)
KeyWithInstance(s) == ConvertToUint64(s)

(* The 64-bit key of an account, whatever its instance.                    *)
GetStaticAccountKey(s) == ConvertToUint64([s EXCEPT !.instance = 0])

BAnonAccount(s) == s.type \in {AnonUser, AnonGameServer}
BBlankAnonAccount(s) ==
    s.account = <<0, 0>> /\ BAnonAccount(s) /\ s.instance = 0

IsValid(s) ==
    /\ s.type \in 1 .. AccountTypeMax - 1
    /\ s.universe \in 1 .. UniverseMax - 1
    /\ s.type = Individual => s.account # <<0, 0>> /\ s.instance = 1
    /\ s.type = Clan => s.account # <<0, 0>> /\ s.instance = 0
    /\ s.type = GameServer => s.account # <<0, 0>>

(* The layout of a game id: app 24 bits, type 8, mod 32.                   *)
App      == 0
GameMod  == 1
Shortcut == 2
P2P      == 3

AppMax   == 16777215              \* 2^24 - 1

CGameID == [app : 0 .. AppMax, type : Byte, mod : AccountNo]

(* A bit field keeps the low bits.                                         *)
GameID(app, mod, type) ==
    [app |-> 65536 * (app[1] % 256) + app[2], type |-> type, mod |-> mod]

NoGame == GameID(<<0, 0>>, <<0, 0>>, App)

ToUint64(g) ==
    [i \in 1 .. 8 |->
        CASE i = 1 -> g.app % 256
          [] i = 2 -> (g.app \div 256) % 256
          [] i = 3 -> g.app \div 65536
          [] i = 4 -> g.type
          [] i = 5 -> g.mod[2] % 256
          [] i = 6 -> g.mod[2] \div 256
          [] i = 7 -> g.mod[1] % 256
          [] i = 8 -> g.mod[1] \div 256]

GameOfUint64(w) ==
    [app |-> w[1] + 256 * w[2] + 65536 * w[3], type |-> w[4],
     mod |-> <<w[7] + 256 * w[8], w[5] + 256 * w[6]>>]

TopBit(n) == n[1] >= 32768

(* A mod has the top bit of its id; a shortcut is 5000 at least, besides.  *)
IsValidGame(g) ==
    \/ g.type = App /\ g.app # 0
    \/ g.type = GameMod /\ g.app # 0 /\ TopBit(g.mod)
    \/ /\ g.type = Shortcut /\ g.app = 0 /\ TopBit(g.mod)
       /\ g.mod[1] > 32768 \/ g.mod[2] >= 5000
    \/ g.type = P2P /\ g.app = 0 /\ TopBit(g.mod)

(* "abcd" as 0xddaabbcc, for the bytes from the lowest.                    *)
CalculatePOPID(code) ==
    LET at(i) == IF i <= Len(code) THEN code[i] ELSE 0
    IN  <<at(3), at(2), at(1), at(4)>>

(* The letters up to the first '\0', which is the fifth at the latest.     *)
POPString(id) ==
    LET s == <<id[3], id[2], id[1], id[4], 0>>
        n == CHOOSE i \in 1 .. 5 : s[i] = 0 /\ \A j \in 1 .. i - 1 : s[j] # 0
    IN  SubSeq(s, 1, n - 1)

-----------------------------------------------------------------------------
SteamIDTypeOK == steamID \in CSteamID /\ gameID \in CGameID

Nothing == [how |-> "otherwise"]

SteamIDInit == steamID = Nil /\ gameID = NoGame /\ made = Nothing

(* SetEUniverse, SetAccountInstance, SetAccountID.                         *)
SetPart ==
    \/ \E u \in Universes : steamID' = [steamID EXCEPT !.universe = u]
    \/ \E i \in Instances :
            steamID' = [steamID EXCEPT !.instance = i % InstanceBits]
    \/ \E a \in Accounts : steamID' = [steamID EXCEPT !.account = a]

MakeSteamID ==
    /\ UNCHANGED gameID
    /\ \/ \E a \in Accounts, u \in Universes, t \in Types :
            /\ steamID' = Set(a, u, t)
            /\ made' = [how |-> "Set", account |-> a, universe |-> u, type |-> t]
       \/ \E u \in Universes :
            /\ \/ steamID' = CreateBlankAnonLogon(u)
               \/ steamID' = CreateBlankAnonUserLogon(u)
            /\ made' = [how |-> "Blank", universe |-> u]
       \/ /\ made' = Nothing
          /\ \/ steamID' = Nil
             \/ \E w \in RawIDs : steamID' = FromUint64(w)
             \/ \E w \in RawIDs, u \in Universes, t \in Types :
                    steamID' = FullSet(w, u, t)
             \/ SetPart

MakeGameID ==
    /\ UNCHANGED steamID
    /\ \/ \E a, m \in Accounts, t \in Types :
            /\ gameID' = GameID(a, m, t)
            /\ made' = [how |-> "GameID", app |-> a, mod |-> m, type |-> t]
       \/ \E a \in Accounts :
            /\ gameID' = GameID(a, <<0, 0>>, App)
            /\ made' = [how |-> "GameID", app |-> a, mod |-> <<0, 0>>, type |-> App]
       \/ \E w \in RawIDs : gameID' = GameOfUint64(w) /\ made' = Nothing
       \/ gameID' = NoGame /\ made' = Nothing

SteamIDNext == MakeSteamID \/ MakeGameID

SteamIDSpec == SteamIDInit /\ [][SteamIDNext]_idVars
-----------------------------------------------------------------------------
(* An id survives its trip through 64 bits, which SteamNetworkingIdentity  *)
(* and the wire take it on: no field spills into another.  And a data      *)
(* center is found again under the first four letters of its code.         *)
NumbersPack ==
    /\ FromUint64(ConvertToUint64(steamID)) = steamID
    /\ GameOfUint64(ToUint64(gameID)) = gameID
    /\ \A code \in Codes :
        POPString(CalculatePOPID(code)) =
            SubSeq(code, 1, IF Len(code) < 4 THEN Len(code) ELSE 4)

(* GetStaticAccountKey groups by account and by nothing else; and a valid  *)
(* user or clan is the only valid id with its key.                         *)
KeyNamesAccount ==
    [][/\ GetStaticAccountKey(steamID)' = GetStaticAccountKey(steamID) <=>
            /\ steamID'.account = steamID.account
            /\ steamID'.type = steamID.type
            /\ steamID'.universe = steamID.universe
       /\ GetStaticAccountKey(steamID)' = GetStaticAccountKey(steamID)
            /\ IsValid(steamID) /\ IsValid(steamID)'
            /\ steamID.type \in {Individual, Clan}
            => steamID' = steamID]_idVars

(* What a constructor makes is what IsValid asks for.  The instance that   *)
(* Set chooses makes a valid id exactly of the known universes and types,  *)
(* and of a number where the type asks for one; a blank logon is           *)
(* recognised as one; and an App or a GameMod whose number has no more     *)
(* than 24 bits is a valid game exactly if it has a number and its mod, if *)
(* any, has the top bit.                                                   *)
MadeIsValid ==
    /\ made.how = "Set" =>
        (IsValid(steamID) <=>
            /\ made.universe \in 1 .. UniverseMax - 1
            /\ made.type \in 1 .. AccountTypeMax - 1
            /\ made.account # <<0, 0>>
                \/ made.type \notin {Individual, Clan, GameServer})
    /\ made.how = "Blank" =>
        /\ BBlankAnonAccount(steamID)
        /\ IsValid(steamID) <=> made.universe \in 1 .. UniverseMax - 1
    /\ made.how = "GameID" /\ made.app[1] < 256 /\ made.type \in {App, GameMod} =>
        (IsValidGame(gameID) <=>
            /\ made.app # <<0, 0>>
            /\ made.type = GameMod => TopBit(made.mod))
=============================================================================
