------------------------------- MODULE Values -------------------------------
(***************************************************************************)
(* The values that CushiNet's callers make and its listeners are given:    *)
(* texts and addresses, ids, identities, options.  The objects have        *)
(* nothing to do with each other, so a behaviour works on those of one     *)
(* kind: `focus`.                                                          *)
(***************************************************************************)
EXTENDS Identities, IPv4Text, Options

VARIABLE focus

valuesVars == <<addressVars, idVars, identityVars, text, optionVars, focus>>

ValuesTypeOK ==
    /\ AddressTypeOK /\ SteamIDTypeOK /\ IdentityTypeOK
    /\ text \in Seq(Segments)
    /\ DOMAIN settings = Scopes /\ DOMAIN parent = Sockets \cup Connections

ValuesInit ==
    /\ AddressInit /\ SteamIDInit /\ IdentityInit /\ TextInit
    /\ OptionsInit
    /\ focus \in {"address", "steamID", "gameID", "identity", "text",
                 "options"}

ValuesNext ==
    /\ UNCHANGED focus
    /\ \/ /\ focus = "address" /\ AddressNext
          /\ UNCHANGED <<idVars, identityVars, text, optionVars>>
       \/ /\ \/ focus = "steamID" /\ MakeSteamID
             \/ focus = "gameID" /\ MakeGameID
          /\ UNCHANGED <<addressVars, identityVars, text, optionVars>>
       \/ /\ focus = "identity" /\ IdentityNext
          /\ UNCHANGED <<addressVars, idVars, text, optionVars>>
       \/ /\ focus = "text" /\ TextNext
          /\ UNCHANGED <<addressVars, idVars, identityVars, optionVars>>
       \/ /\ focus = "options" /\ OptionsNext
          /\ UNCHANGED <<addressVars, idVars, identityVars, text>>

ValuesSpec == ValuesInit /\ [][ValuesNext]_valuesVars
=============================================================================
