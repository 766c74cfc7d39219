---------------------------- MODULE ValuesProofs ----------------------------
(***************************************************************************)
(* Theorems about the values that CushiNet's callers make and its          *)
(* listeners are given, for all inputs of their types: options,            *)
(* identities, addresses, ids, texts.                                      *)
(***************************************************************************)
EXTENDS Values, SequenceTheorems, WellFoundedInduction, NaturalsInduction, TLAPS

-----------------------------------------------------------------------------
(* Options.                                                                *)

OptionNames == {Callback, Timeout}

(* The places where a list sets an option, and the last of them.           *)
Places(list, n) == {i \in DOMAIN list : list[i].name = n /\ list[i].type = TypeOf[n]}

Lasts(places) == {i \in places : \A k \in places : k <= i}

(* Some set of positions has a last one.                                   *)
LEMMA LastExists ==
    ASSUME NEW n \in Nat, NEW T \in SUBSET (1 .. n), T # {}
    PROVE  Lasts(T) # {}
<1> DEFINE Back == {n - i : i \in T}
<1>0. ASSUME NEW i \in T PROVE i \in Int /\ n - i \in Nat
  OBVIOUS
<1>1. Back \subseteq Nat /\ Back # {}
  BY <1>0, Zenon
<1>2. IsWellFoundedOn(OpToRel(<, Nat), Nat)
  BY NatLessThanWellFounded
<1>3. PICK b \in Back : \A y \in Back : ~ (<<y, b>> \in OpToRel(<, Nat))
  BY <1>1, <1>2, WFMin
<1>4. PICK i \in T : b = n - i
  BY <1>3
<1>5. ASSUME NEW k \in T PROVE k <= i
  <2>1. n - k \in Back /\ n - k \in Nat /\ b \in Nat
    BY <1>1, <1>3
  <2>2. ~ (n - k < b)
    BY <1>3, <2>1 DEF OpToRel
  <2> QED BY <1>4, <2>2
<1> QED BY <1>4, <1>5 DEF Lasts

LEMMA AppliedAt ==
    ASSUME NEW list
    PROVE  /\ Applied(list) = [n \in OptionNames |-> Applied(list)[n]]
           /\ \A n \in OptionNames :
                Applied(list)[n] = {list[i].value : i \in Lasts(Places(list, n))}
  BY DEF Applied, OptionNames, Places, Lasts

LEMMA NothingApplied ==
    \A n \in OptionNames : Applied(<<>>)[n] = {}
<1>1. \A n : Places(<<>>, n) = {}
  BY DEF Places
<1>2. Lasts({}) = {}
  BY DEF Lasts
<1>3. \A n \in OptionNames : Applied(<<>>)[n] = {<<>>[i].value : i \in {}}
  BY <1>1, <1>2, AppliedAt, Zenon
<1> QED BY <1>3, Zenon

(* The arguments that a socket can have been created with.                 *)
Asked == OptionArgs \cup {NoOptions}

Count(a) == IF a.numOptions < 0 THEN 0 ELSE a.numOptions

LEMMA AskedHasOptions ==
    ASSUME NEW a \in Asked, ~ InvalidArgument(a)
    PROVE  /\ a.numOptions \in Int /\ Count(a) \in Nat
           /\ a = NoOptions => Count(a) = 0
  BY OptionAssumption DEF Asked, NoOptions, Count, InvalidArgument

(* The expanded list: the caller's options and, last, the callback.        *)
LEMMA ExpandedList ==
    ASSUME NEW a \in Asked, ~ InvalidArgument(a), NEW cb
    PROVE  LET list == Expanded(a, cb)
               n == Count(a)
           IN  /\ DOMAIN list = 1 .. n + 1
               /\ \A i \in 1 .. n : list[i] = a.options[i]
               /\ list[n + 1] = Option(Callback, "Ptr", cb)
<1> DEFINE n == Count(a)
           front == [i \in 1 .. n |-> a.options[i]]
           S == {a.options[i] : i \in 1 .. n} \cup {Option(Callback, "Ptr", cb)}
<1>1. n \in Nat
  BY AskedHasOptions
<1> HIDE DEF n
<1>2. front \in Seq(S) /\ Len(front) = n
  BY <1>1
<1>3. Option(Callback, "Ptr", cb) \in S
  BY Zenon
<1> HIDE DEF front, S
<1>4. Expanded(a, cb) = Append(front, Option(Callback, "Ptr", cb))
  BY DEF Expanded, front, n, Count
<1> DEFINE list == Append(front, Option(Callback, "Ptr", cb))
<1>5. /\ list \in Seq(S) /\ Len(list) = n + 1
      /\ \A i \in 1 .. n : list[i] = front[i]
      /\ list[n + 1] = Option(Callback, "Ptr", cb)
  <2> DEFINE last == Option(Callback, "Ptr", cb)
  <2> HIDE DEF last
  <2>1. last \in S
    BY <1>3 DEF last
  <2>2. /\ Append(front, last) \in Seq(S) /\ Len(Append(front, last)) = Len(front) + 1
        /\ \A i \in 1 .. Len(front) : Append(front, last)[i] = front[i]
        /\ Append(front, last)[Len(front) + 1] = last
    BY <1>2, <2>1, AppendProperties
  <2> QED BY <1>2, <2>2 DEF last
<1>6. DOMAIN list = 1 .. Len(list)
  BY <1>5, LenProperties
<1>7. \A i \in 1 .. n : front[i] = a.options[i]
  BY DEF front
<1> QED BY <1>4, <1>5, <1>6, <1>7 DEF n
(* What the caller sets for the timeout, if it sets it.                    *)
Own(a) ==
    {i \in 1 .. a.numOptions : /\ a.options[i].name = Timeout
                               /\ a.options[i].type = "Int32"}

LEMMA ExpandedApplied ==
    ASSUME NEW a \in Asked, ~ InvalidArgument(a), NEW cb
    PROVE  /\ Applied(Expanded(a, cb))[Callback] = {cb}
           /\ Applied(Expanded(a, cb))[Timeout] =
                {a.options[i].value : i \in Lasts(Own(a))}
           /\ Own(a) # {} => Lasts(Own(a)) # {}
<1> DEFINE n == Count(a)
           list == Expanded(a, cb)
<1>1. n \in Nat /\ a.numOptions \in Int
  BY AskedHasOptions
<1>2. 1 .. a.numOptions = 1 .. n
  BY <1>1 DEF Count
<1>3. /\ DOMAIN list = 1 .. n + 1
      /\ \A i \in 1 .. n : list[i] = a.options[i]
      /\ list[n + 1] = Option(Callback, "Ptr", cb)
  BY ExpandedList, Zenon
<1> HIDE DEF n, list
<1>4. Applied(list)[Callback] = {cb}
  <2>1. n + 1 \in Places(list, Callback)
    BY <1>1, <1>3 DEF Places, Option, TypeOf, Callback, Timeout
  <2>2. Places(list, Callback) \subseteq 1 .. n + 1
    BY <1>3 DEF Places
  <2>3. \A k \in Places(list, Callback) : k <= n + 1
    BY <1>1, <2>2
  <2>4. ASSUME NEW i \in Lasts(Places(list, Callback)) PROVE i = n + 1
    <3>1. i \in 1 .. n + 1 /\ n + 1 <= i
      BY <2>1, <2>2 DEF Lasts
    <3> QED BY <1>1, <3>1
  <2>5. Lasts(Places(list, Callback)) = {n + 1}
    BY <2>1, <2>3, <2>4 DEF Lasts
  <2>6. list[n + 1].value = cb
    BY <1>3 DEF Option
  <2>7. Applied(list)[Callback] = {list[i].value : i \in {n + 1}}
    BY <2>5, AppliedAt, Zenon DEF OptionNames
  <2> QED BY <2>6, <2>7, Zenon
<1>5. Places(list, Timeout) = Own(a)
  <2>1. ~ (n + 1 \in Places(list, Timeout))
    BY <1>3 DEF Places, Option, Callback, Timeout
  <2>2. TypeOf[Timeout] = "Int32"
    BY DEF TypeOf, Callback, Timeout
  <2>3. \A i \in 1 .. n : i \in Places(list, Timeout) <=> i \in Own(a)
    <3>1. \A i \in 1 .. n : i \in 1 .. n + 1
      BY <1>1
    <3> QED BY <1>2, <1>3, <2>2, <3>1, Zenon DEF Places, Own
  <2>4. \A i \in 1 .. n + 1 : i \in 1 .. n \/ i = n + 1
    BY <1>1
  <2>5. Own(a) \subseteq 1 .. n /\ Places(list, Timeout) \subseteq 1 .. n + 1
    BY <1>2, <1>3, Zenon DEF Own, Places
  <2> QED BY <2>1, <2>3, <2>4, <2>5, Zenon
<1>6. Own(a) \in SUBSET (1 .. n)
  BY <1>2, Zenon DEF Own
<1>7. Applied(list)[Timeout] = {a.options[i].value : i \in Lasts(Own(a))}
  <2>1. Lasts(Own(a)) \subseteq 1 .. n
    BY <1>6, Zenon DEF Lasts
  <2>2. Applied(list)[Timeout] = {list[i].value : i \in Lasts(Own(a))}
    BY <1>5, AppliedAt, Zenon DEF OptionNames
  <2> QED BY <1>3, <2>1, <2>2, Zenon
<1>8. Own(a) # {} => Lasts(Own(a)) # {}
  BY <1>1, <1>6, LastExists, Zenon
<1> QED BY <1>4, <1>7, <1>8 DEF list
(* Unless the application has altered it, a server's connection inherits   *)
(* its callback, a client's has its own, and a socket keeps each option it *)
(* was created with.                                                       *)
SocketKeeps(s) ==
    /\ asked[s] \in Asked /\ ~ InvalidArgument(asked[s])
    /\ parent[s] = Interface
    /\ \A n \in OptionNames : <<s, n>> \notin altered =>
        settings[s][n] = Applied(Expanded(asked[s], ServerCallback))[n]

ConnectionKeeps(c) ==
    \/ /\ parent[c] \in Sockets /\ Exist(parent[c])
       /\ <<c, Callback>> \notin altered => settings[c][Callback] = {}
    \/ /\ parent[c] = Interface
       /\ <<c, Callback>> \notin altered => settings[c][Callback] = {ClientCallback}

OptInv ==
    /\ DOMAIN settings = Scopes /\ settings = [x \in Scopes |-> settings[x]]
    /\ \A x \in Scopes : settings[x] = [n \in OptionNames |-> settings[x][n]]
    /\ parent = [x \in Sockets \cup Connections |-> parent[x]]
    /\ asked = [s \in Sockets |-> asked[s]]
    /\ \A s \in Sockets : Exist(s) => SocketKeeps(s)
    /\ \A c \in Connections : Exist(c) => ConnectionKeeps(c)

LEMMA NothingExpanded ==
    ASSUME NEW cb
    PROVE  Applied(<<Option(Callback, "Ptr", cb)>>) = Applied(Expanded(NoOptions, cb))
<1>1. Expanded(NoOptions, cb) = <<Option(Callback, "Ptr", cb)>>
  <2>1. NoOptions.numOptions = 0 /\ [i \in 1 .. 0 |-> NoOptions.options[i]] = <<>>
    BY DEF NoOptions
  <2>2. Expanded(NoOptions, cb) = Append(<<>>, Option(Callback, "Ptr", cb))
    BY <2>1 DEF Expanded
  <2> QED BY <2>2
<1> QED BY <1>1, Zenon

LEMMA OptionsStart == OptionsInit => OptInv
<1> SUFFICES ASSUME OptionsInit PROVE OptInv
  OBVIOUS
<1>1. /\ DOMAIN settings = Scopes /\ settings = [x \in Scopes |-> settings[x]]
      /\ \A x \in Scopes : settings[x] = Applied(<<>>)
  BY Zenon DEF OptionsInit
<1>2. \A x \in Scopes : settings[x] = [n \in OptionNames |-> settings[x][n]]
  BY <1>1, AppliedAt, Zenon
<1>3. \A x \in Sockets \cup Connections : ~ Exist(x)
  BY Zenon DEF OptionsInit, Exist
<1> QED BY <1>1, <1>2, <1>3, Zenon DEF OptionsInit, OptInv

(* A setting of the application changes at an object only what it records. *)
LEMMA SettingKeeps ==
    ASSUME OptInv, NEW o \in AppOptions, AppSets(o)
    PROVE  OptInv'
<1>1. PICK scope \in Scopes, arg \in {{}, {o.value}} : SetConfigValue(o.name, scope, o.type, arg)
  BY Zenon DEF AppSets, Scopes
<1>2. parent' = parent /\ asked' = asked
  BY <1>1 DEF SetConfigValue
<1>3. ASSUME NEW x \in Scopes, x # scope PROVE settings'[x] = settings[x]
  BY <1>1, <1>3 DEF SetConfigValue, OptInv
<1>4. /\ DOMAIN settings' = Scopes /\ settings' = [x \in Scopes |-> settings'[x]]
      /\ \A x \in Scopes : settings'[x] = [n \in OptionNames |-> settings'[x][n]]
  BY <1>1 DEF SetConfigValue, OptInv
<1>5. ASSUME NEW x \in Sockets \cup Connections, NEW n \in OptionNames,
             <<x, n>> \notin altered'
      PROVE  <<x, n>> \notin altered /\ settings'[x][n] = settings[x][n]
  <2>1. x \in Scopes /\ x \notin {Global, Interface}
    BY OptionAssumption DEF Scopes
  <2>2. altered' = IF o.type = TypeOf[o.name] /\ scope \notin {Global, Interface}
                   THEN altered \cup {<<scope, o.name>>}
                   ELSE altered
    BY <1>1, Zenon DEF SetConfigValue
  <2>3. <<x, n>> \notin altered
    BY <1>5, <2>2
  <2>4. CASE x = scope
    <3>1. n # o.name \/ o.type # TypeOf[o.name]
      BY <1>5, <2>1, <2>2, <2>4
    <3> QED BY <1>1, <2>1, <2>3, <2>4, <3>1 DEF SetConfigValue, OptInv
  <2>5. CASE x # scope
    BY <1>3, <2>1, <2>3, <2>5
  <2> QED BY <2>4, <2>5
<1>6. ASSUME NEW s \in Sockets, Exist(s)' PROVE SocketKeeps(s)'
  <2>1. SocketKeeps(s)
    BY <1>2, <1>6, Zenon DEF OptInv, Exist
  <2>2. s \in Sockets \cup Connections
    OBVIOUS
  <2> QED BY <1>2, <1>5, <2>1, <2>2, Zenon DEF SocketKeeps, InvalidArgument
<1>7. ASSUME NEW c \in Connections, Exist(c)' PROVE ConnectionKeeps(c)'
  <2>1. ConnectionKeeps(c)
    BY <1>2, <1>7, Zenon DEF OptInv, Exist
  <2>2. c \in Sockets \cup Connections /\ Callback \in OptionNames
    BY DEF OptionNames
  <2> QED BY <1>2, <1>5, <2>1, <2>2, Zenon DEF ConnectionKeeps, Exist
<1> QED BY <1>2, <1>4, <1>6, <1>7, Zenon DEF OptInv

(* What is created at a handle that names nothing leaves the rest alone.   *)
LEMMA CreatedElse ==
    ASSUME OptInv, NEW x \in Sockets \cup Connections, NEW from, from # Absent,
           NEW a, NEW list, Created(x, from, a, list)
    PROVE  /\ DOMAIN settings' = Scopes /\ settings' = [y \in Scopes |-> settings'[y]]
           /\ \A y \in Scopes : settings'[y] = [n \in OptionNames |-> settings'[y][n]]
           /\ parent' = [y \in Sockets \cup Connections |-> parent'[y]]
           /\ asked' = [s \in Sockets |-> asked'[s]]
           /\ parent'[x] = from /\ settings'[x] = Applied(list)
           /\ x \in Sockets => asked'[x] = a
           /\ \A y \in Sockets \cup Connections : y # x =>
                parent'[y] = parent[y] /\ settings'[y] = settings[y]
           /\ \A s \in Sockets : s # x => asked'[s] = asked[s]
           /\ \A y : Exist(y) /\ y \in Sockets \cup Connections => Exist(y)'
           /\ \A s \in Sockets : s # x /\ Exist(s)' => SocketKeeps(s)'
           /\ \A c \in Connections : c # x /\ Exist(c)' => ConnectionKeeps(c)'
<1>1. /\ ~ Exist(x)
      /\ parent' = [parent EXCEPT ![x] = from]
      /\ settings' = [settings EXCEPT ![x] = Applied(list)]
      /\ asked' = [s \in Sockets |-> IF s = x THEN a ELSE asked[s]]
      /\ altered' = altered
  BY DEF Created
<1>2. x \in Scopes /\ \A y \in Sockets \cup Connections : y \in Scopes
  BY DEF Scopes
<1>3. /\ DOMAIN settings' = Scopes /\ settings' = [y \in Scopes |-> settings'[y]]
      /\ settings'[x] = Applied(list)
      /\ \A y \in Scopes : y # x => settings'[y] = settings[y]
  BY <1>1, <1>2 DEF OptInv
<1>4. \A y \in Scopes : settings'[y] = [n \in OptionNames |-> settings'[y][n]]
  <2> SUFFICES ASSUME NEW y \in Scopes
               PROVE  settings'[y] = [n \in OptionNames |-> settings'[y][n]]
    OBVIOUS
  <2>1. CASE y = x
    <3>1. settings'[y] = Applied(list)
      BY <1>3, <2>1
    <3>2. Applied(list) = [n \in OptionNames |-> Applied(list)[n]]
      BY AppliedAt
    <3> QED BY <3>1, <3>2
  <2>2. CASE y # x
    BY <1>3, <2>2, Zenon DEF OptInv
  <2> QED BY <2>1, <2>2
<1>5. /\ parent' = [y \in Sockets \cup Connections |-> parent'[y]]
      /\ parent'[x] = from
      /\ \A y \in Sockets \cup Connections : y # x => parent'[y] = parent[y]
  BY <1>1 DEF OptInv
<1>6. /\ asked' = [s \in Sockets |-> asked'[s]]
      /\ x \in Sockets => asked'[x] = a
      /\ \A s \in Sockets : s # x => asked'[s] = asked[s]
  BY <1>1, Zenon
<1>7. \A y : Exist(y) /\ y \in Sockets \cup Connections => Exist(y)'
  BY <1>5, Zenon DEF Exist
<1>8. ASSUME NEW y \in Sockets \cup Connections, y # x, Exist(y)' PROVE Exist(y)
  BY <1>5, <1>8, Zenon DEF Exist
<1>9. ASSUME NEW s \in Sockets, s # x, Exist(s)' PROVE SocketKeeps(s)'
  <2>1. SocketKeeps(s)
    BY <1>8, <1>9, Zenon DEF OptInv
  <2> QED BY <1>1, <1>2, <1>3, <1>5, <1>6, <1>9, <2>1, Zenon
          DEF SocketKeeps, InvalidArgument
<1>10. ASSUME NEW c \in Connections, c # x, Exist(c)' PROVE ConnectionKeeps(c)'
  <2>1. ConnectionKeeps(c)
    BY <1>8, <1>10, Zenon DEF OptInv
  <2>2. parent'[c] = parent[c] /\ settings'[c] = settings[c]
    BY <1>2, <1>3, <1>5, <1>10, Zenon
  <2>3. parent[c] \in Sockets /\ parent[parent[c]] # Absent
          => parent'[parent[c]] # Absent
    BY <1>7, Zenon DEF Exist
  <2> QED BY <1>1, <2>1, <2>2, <2>3 DEF ConnectionKeeps, Exist
<1> QED BY <1>2, <1>3, <1>4, <1>5, <1>6, <1>7, <1>9, <1>10, Zenon
LEMMA CreatedHere ==
    ASSUME OptInv, NEW x \in Sockets \cup Connections, NEW from, NEW a, NEW list,
           Created(x, from, a, list)
    PROVE  /\ parent'[x] = from /\ settings'[x] = Applied(list)
           /\ x \in Sockets => asked'[x] = a
<1>1. x \in DOMAIN settings /\ x \in DOMAIN parent
  BY DEF OptInv, Scopes
<1>2. parent'[x] = from /\ settings'[x] = Applied(list)
  BY <1>1, Zenon DEF Created
<1>3. x \in Sockets => asked'[x] = a
  BY Zenon DEF Created
<1> QED BY <1>2, <1>3

LEMMA StartKeeps ==
    ASSUME OptInv, NEW s \in Sockets, Start(s)
    PROVE  OptInv'
<1>1. PICK a \in Asked :
        /\ ~ InvalidArgument(a)
        /\ Created(s, Interface, a,
                   IF a = NoOptions THEN <<Option(Callback, "Ptr", ServerCallback)>>
                                    ELSE Expanded(a, ServerCallback))
           \/ Created(s, Interface, a, Expanded(a, ServerCallback))
  BY DEF Start, Asked, InvalidArgument, NoOptions
<1>2. PICK list : /\ Created(s, Interface, a, list)
                  /\ Applied(list) = Applied(Expanded(a, ServerCallback))
  BY <1>1, NothingExpanded, Zenon
<1>3. Interface # Absent
  BY OptionAssumption DEF Scopes
<1>4. SocketKeeps(s)'
  <2>1. s \in Sockets \cup Connections
    OBVIOUS
  <2>2. parent'[s] = Interface /\ settings'[s] = Applied(list) /\ asked'[s] = a
    BY <1>2, <2>1, CreatedHere
  <2> QED BY <1>1, <1>2, <2>2 DEF SocketKeeps, InvalidArgument
<1>5. \A c \in Connections : c # s
  BY OptionAssumption
<1> QED BY <1>2, <1>3, <1>4, <1>5, CreatedElse, Zenon DEF OptInv

LEMMA JoinKeeps ==
    ASSUME OptInv, NEW c \in Connections, Join(c)
    PROVE  OptInv'
<1>1. PICK a, list : /\ Created(c, Interface, a, list)
                     /\ Applied(list)[Callback] = {ClientCallback}
  <2>1. NoOptions \in Asked /\ ~ InvalidArgument(NoOptions)
    BY DEF Asked, InvalidArgument, NoOptions
  <2>2. Applied(<<Option(Callback, "Ptr", ClientCallback)>>)[Callback] = {ClientCallback}
    BY <2>1, ExpandedApplied, NothingExpanded, Zenon
  <2>3. ASSUME NEW a \in OptionArgs, ~ InvalidArgument(a)
        PROVE  Applied(Expanded(a, ClientCallback))[Callback] = {ClientCallback}
    BY <2>3, ExpandedApplied, Zenon DEF Asked
  <2> QED BY <2>2, <2>3, Zenon DEF Join
<1>2. Interface # Absent
  BY OptionAssumption DEF Scopes
<1>3. ConnectionKeeps(c)'
  <2>1. c \in Sockets \cup Connections
    OBVIOUS
  <2>2. parent'[c] = Interface /\ settings'[c] = Applied(list)
    BY <1>1, <2>1, CreatedHere
  <2> QED BY <1>1, <2>2 DEF ConnectionKeeps
<1>4. \A s \in Sockets : s # c
  BY OptionAssumption
<1> QED BY <1>1, <1>2, <1>3, <1>4, CreatedElse, Zenon DEF OptInv

LEMMA ArrivesKeeps ==
    ASSUME OptInv, NEW c \in Connections, NEW s \in Sockets, Arrives(c, s)
    PROVE  OptInv'
<1>1. Exist(s) /\ Created(c, s, NoOptions, <<>>)
  BY DEF Arrives
<1>2. s # Absent /\ \A t \in Sockets : t # c
  BY OptionAssumption DEF Scopes
<1>3. Exist(s)'
  BY <1>1, <1>2, CreatedElse, Zenon
<1>4. Applied(<<>>)[Callback] = {}
  BY NothingApplied, Zenon DEF OptionNames
<1>5. parent'[c] = s /\ settings'[c] = Applied(<<>>)
  <2>1. c \in Sockets \cup Connections
    OBVIOUS
  <2> QED BY <1>1, <2>1, CreatedHere
<1>6. ConnectionKeeps(c)'
  BY <1>3, <1>4, <1>5 DEF ConnectionKeeps, Exist
<1> QED BY <1>1, <1>2, <1>6, CreatedElse, Zenon DEF OptInv

LEMMA ClosedKeeps ==
    ASSUME OptInv, NEW x \in Sockets \cup Connections, Closed(x)
    PROVE  OptInv'
<1> DEFINE Gone(y) == y \in Sockets \cup Connections /\ (y = x \/ parent[y] = x)
<1>1. /\ parent' = [y \in DOMAIN parent |-> IF Gone(y) THEN Absent ELSE parent[y]]
      /\ settings' = [y \in Scopes |-> IF Gone(y) THEN Applied(<<>>) ELSE settings[y]]
      /\ asked' = [s \in Sockets |-> IF s = x THEN NoOptions ELSE asked[s]]
      /\ altered' = {p \in altered : ~ Gone(p[1])}
  BY DEF Closed
<1>2. DOMAIN parent = Sockets \cup Connections
  BY DEF OptInv
<1>3. /\ DOMAIN settings' = Scopes /\ settings' = [y \in Scopes |-> settings'[y]]
      /\ parent' = [y \in Sockets \cup Connections |-> parent'[y]]
      /\ asked' = [s \in Sockets |-> asked'[s]]
  BY <1>1, <1>2, Zenon
<1>4. \A y \in Scopes : settings'[y] = IF Gone(y) THEN Applied(<<>>) ELSE settings[y]
  BY <1>1, Zenon
<1>5. \A y \in Scopes : settings'[y] = [n \in OptionNames |-> settings'[y][n]]
  <2> SUFFICES ASSUME NEW y \in Scopes
               PROVE  settings'[y] = [n \in OptionNames |-> settings'[y][n]]
    OBVIOUS
  <2>1. Applied(<<>>) = [n \in OptionNames |-> Applied(<<>>)[n]]
    BY AppliedAt, Zenon
  <2>2. settings[y] = [n \in OptionNames |-> settings[y][n]]
    BY Zenon DEF OptInv
  <2>3. settings'[y] = Applied(<<>>) \/ settings'[y] = settings[y]
    BY <1>4, Zenon
  <2> QED BY <2>1, <2>2, <2>3
<1>6. ASSUME NEW y \in Sockets \cup Connections, Exist(y)'
      PROVE  /\ Exist(y) /\ y # x /\ parent[y] # x
             /\ parent'[y] = parent[y] /\ settings'[y] = settings[y]
             /\ \A n : <<y, n>> \in altered => <<y, n>> \in altered'
  <2>1. parent'[y] = (IF Gone(y) THEN Absent ELSE parent[y]) /\ parent'[y] # Absent
    BY <1>1, <1>2, <1>6, Zenon DEF Exist
  <2>2. ~ Gone(y) /\ parent'[y] = parent[y]
    BY <2>1
  <2>3. y \in Scopes
    BY DEF Scopes
  <2>4. \A n : <<y, n>> \in altered => <<y, n>> \in altered'
    BY <1>1, <2>2
  <2> QED BY <1>4, <2>1, <2>2, <2>3, <2>4, Zenon DEF Exist
<1>7. ASSUME NEW s \in Sockets, Exist(s)' PROVE SocketKeeps(s)'
  <2>1. SocketKeeps(s)
    BY <1>6, <1>7, Zenon DEF OptInv
  <2>2. asked'[s] = asked[s]
    BY <1>1, <1>6, <1>7, Zenon
  <2>3. /\ parent'[s] = parent[s] /\ settings'[s] = settings[s]
        /\ \A n : <<s, n>> \in altered => <<s, n>> \in altered'
    BY <1>6, <1>7, Zenon
  <2> QED BY <2>1, <2>2, <2>3, Zenon DEF SocketKeeps, InvalidArgument
<1>8. ASSUME NEW c \in Connections, Exist(c)' PROVE ConnectionKeeps(c)'
  <2>1. /\ ConnectionKeeps(c) /\ parent[c] # x
        /\ parent'[c] = parent[c] /\ settings'[c] = settings[c]
        /\ \A n : <<c, n>> \in altered => <<c, n>> \in altered'
    BY <1>6, <1>8, Zenon DEF OptInv
  <2>2. CASE parent[c] \in Sockets /\ Exist(parent[c])
    <3> DEFINE s == parent[c]
    <3>1. SocketKeeps(s)
      BY <2>2, Zenon DEF OptInv
    <3>2. parent[s] = Interface /\ Interface # x /\ s # x
      BY <2>1, <3>1, OptionAssumption DEF SocketKeeps
    <3>3. ~ Gone(s) /\ s \in DOMAIN parent
      BY <1>2, <2>2, <3>2
    <3>4. parent'[s] = parent[s]
      BY <1>1, <3>3, Zenon
    <3> QED BY <2>1, <2>2, <3>4 DEF ConnectionKeeps, Exist
  <2>3. CASE ~ (parent[c] \in Sockets /\ Exist(parent[c]))
    BY <2>1, <2>3 DEF ConnectionKeeps
  <2> QED BY <2>2, <2>3
<1> QED BY <1>3, <1>5, <1>7, <1>8, Zenon DEF OptInv
LEMMA OptionsStep == OptInv /\ [OptionsNext]_optionVars => OptInv'
<1> SUFFICES ASSUME OptInv, [OptionsNext]_optionVars PROVE OptInv'
  OBVIOUS
<1>1. CASE \E s \in Sockets : Start(s)
  BY <1>1, StartKeeps, Zenon
<1>2. CASE \E c \in Connections : Join(c) \/ \E s \in Sockets : Arrives(c, s)
  BY <1>2, JoinKeeps, ArrivesKeeps, Zenon
<1>3. CASE \E x \in Sockets \cup Connections : Closed(x)
  BY <1>3, ClosedKeeps, Zenon
<1>4. CASE \E o \in AppOptions : AppSets(o)
  BY <1>4, SettingKeeps, Zenon
<1>5. CASE UNCHANGED optionVars
  <2>1. /\ settings' = settings /\ parent' = parent
        /\ asked' = asked /\ altered' = altered
    BY <1>5 DEF optionVars
  <2> QED BY <2>1 DEF OptInv, SocketKeeps, ConnectionKeeps, Exist, InvalidArgument
<1> QED BY <1>1, <1>2, <1>3, <1>4, <1>5 DEF OptionsNext

LEMMA OptInvImplies == OptInv => CallbackIsOurs
<1> SUFFICES ASSUME OptInv PROVE CallbackIsOurs
  OBVIOUS
<1>1. ASSUME NEW s \in Sockets, Exist(s)
      PROVE  /\ <<s, Callback>> \notin altered =>
                    settings[s][Callback] = {ServerCallback}
             /\ <<s, Timeout>> \notin altered =>
                    settings[s][Timeout] =
                        {asked[s].options[i].value : i \in Lasts(Own(asked[s]))}
             /\ Own(asked[s]) # {} => Lasts(Own(asked[s])) # {}
  <2>1. SocketKeeps(s)
    BY <1>1, Zenon DEF OptInv
  <2>2. Callback \in OptionNames /\ Timeout \in OptionNames
    BY DEF OptionNames
  <2> QED BY <2>1, <2>2, ExpandedApplied, Zenon DEF SocketKeeps
<1>2. ASSUME NEW c \in Connections, Exist(c), <<c, Callback>> \notin altered,
             <<parent[c], Callback>> \notin altered
      PROVE  AtConnection(Callback, c) =
                {IF parent[c] \in Sockets THEN ServerCallback ELSE ClientCallback}
  <2>1. ConnectionKeeps(c)
    BY <1>2, Zenon DEF OptInv
  <2>2. CASE /\ parent[c] \in Sockets /\ Exist(parent[c])
             /\ settings[c][Callback] = {}
    <3>1. settings[parent[c]][Callback] = {ServerCallback}
      BY <1>1, <1>2, <2>2, Zenon
    <3>2. AtSocket(Callback, parent[c]) = {ServerCallback}
      BY <3>1 DEF AtSocket, OrElse
    <3> QED BY <2>2, <3>2 DEF AtConnection, OrElse
  <2>3. CASE parent[c] = Interface /\ settings[c][Callback] = {ClientCallback}
    <3>1. parent[c] \notin Sockets
      BY <2>3, OptionAssumption
    <3> QED BY <2>3, <3>1 DEF AtConnection, OrElse
  <2> QED BY <1>2, <2>1, <2>2, <2>3 DEF ConnectionKeeps
<1>3. ASSUME NEW s \in Sockets, Exist(s), <<s, Timeout>> \notin altered
      PROVE  AtSocket(Timeout, s) =
                IF Own(asked[s]) = {} THEN AtInterface(Timeout)
                ELSE {asked[s].options[i].value : i \in Lasts(Own(asked[s]))}
  <2> DEFINE at == Own(asked[s])
             set == {asked[s].options[i].value : i \in Lasts(at)}
  <2>1. settings[s][Timeout] = set /\ (at # {} => Lasts(at) # {})
    BY <1>1, <1>3, Zenon
  <2>2. CASE at = {}
    <3>1. Lasts(at) = {}
      BY <2>2 DEF Lasts
    <3>2. settings[s][Timeout] = {}
      BY <2>1, <3>1
    <3> QED BY <2>2, <3>2, Zenon DEF AtSocket, OrElse
  <2>3. CASE at # {}
    <3>1. settings[s][Timeout] # {}
      BY <2>1, <2>3
    <3> QED BY <2>1, <2>3, <3>1, Zenon DEF AtSocket, OrElse
  <2> QED BY <2>2, <2>3
<1> QED BY <1>2, <1>3, Zenon DEF CallbackIsOurs, Own, Lasts

(* Whatever options a caller passes and the application sets elsewhere, in *)
(* whatever number and order, the events of a connection go to the static  *)
(* callback of the class that owns it (Server.cpp 83, Client.cpp 63), and  *)
(* a listen socket has the caller's own options, the last of a name: up to *)
(* what the application alters afterwards at those very objects.           *)
THEOREM CallbackCorrect == OptionsSpec => []CallbackIsOurs
<1>1. OptionsInit => OptInv
  BY OptionsStart
<1>2. OptInv /\ [OptionsNext]_optionVars => OptInv'
  BY OptionsStep
<1>3. OptInv => CallbackIsOurs
  BY OptInvImplies
<1> QED BY <1>1, <1>2, <1>3, PTL DEF OptionsSpec
-----------------------------------------------------------------------------
(* Identities.                                                             *)

(* The bytes of a value are as many as its size says, and have room.       *)
Sized(v) ==
    /\ v.size \in Nat /\ v.size <= Room
    /\ v.data = [i \in 1 .. v.size |-> v.data[i]]

Read(v) == [type |-> v.type, size |-> v.size, data |-> v.data]

LEMMA SequenceIsFunction ==
    ASSUME NEW S, NEW q \in Seq(S)
    PROVE  q = [i \in 1 .. Len(q) |-> q[i]] /\ Len(q) \in Nat
  OBVIOUS

LEMMA StringBytes ==
    ASSUME NEW s \in Strings
    PROVE  /\ Len(s) \in Nat
           /\ Append(s, 0) = [i \in 1 .. Len(s) + 1 |-> Append(s, 0)[i]]
<1>1. s \in Seq(1 .. 255)
  BY IdentityAssumption
<1>2. s \in Seq(Octet) /\ 0 \in Octet
  BY <1>1 DEF Octet
<1>3. Append(s, 0) \in Seq(Octet) /\ Len(Append(s, 0)) = Len(s) + 1
  BY <1>2, AppendProperties
<1> QED BY <1>2, <1>3, SequenceIsFunction

(* What a setter stores is sized.                                          *)
LEMMA SettersAreSized ==
    ASSUME NEW v \in Setters, v.fits
    PROVE  Sized(v) /\ v.type # "Invalid"
<1>0. Room \in Nat /\ Room >= 33
  BY IdentityAssumption DEF MaxXboxPairwiseID
<1>1. ASSUME NEW a, v = SetIPAddr(a)
      PROVE  Sized(v) /\ v.type # "Invalid"
  <2>1. v.size = 18 /\ v.data = AddrBytes(a) /\ v.type = "IPAddress"
    BY <1>1 DEF SetIPAddr, Always
  <2>2. AddrBytes(a) = [i \in 1 .. 18 |-> AddrBytes(a)[i]]
    BY DEF AddrBytes
  <2> QED BY <1>0, <2>1, <2>2 DEF Sized
<1>2. ASSUME NEW w \in RawIDs, v = SetSteamID64(w) \/ v = SetPSNID(w)
      PROVE  Sized(v) /\ v.type # "Invalid"
  <2>1. v.size = 8 /\ v.data = w /\ v.type # "Invalid"
    BY <1>2 DEF SetSteamID64, SetPSNID, Always
  <2>2. w = [i \in 1 .. 8 |-> w[i]]
    BY SteamIDAssumption DEF Raw
  <2> QED BY <1>0, <2>1, <2>2 DEF Sized
<1>3. ASSUME NEW s \in Strings, v = SetGenericString(s) \/ v = SetXboxPairwiseID(s)
      PROVE  Sized(v) /\ v.type # "Invalid"
  <2>1. v.size = Len(s) + 1 /\ v.data = Append(s, 0) /\ v.type # "Invalid"
    BY <1>3 DEF SetGenericString, SetXboxPairwiseID
  <2>2. Len(s) \in Nat /\ Len(s) <= 32
    <3>1. Len(s) \in Nat
      BY StringBytes
    <3>2. CASE v = SetGenericString(s)
      <4>1. Len(s) < 32
        BY <3>2 DEF SetGenericString, MaxGenericString
      <4> QED BY <3>1, <4>1
    <3>3. CASE v = SetXboxPairwiseID(s)
      <4>1. Len(s) \in 1 .. 33 - 1
        BY <3>3 DEF SetXboxPairwiseID, MaxXboxPairwiseID
      <4>2. \A k \in 1 .. 33 - 1 : k <= 32
        OBVIOUS
      <4> QED BY <3>1, <4>1, <4>2, Zenon
    <3> QED BY <1>3, <3>1, <3>2, <3>3
  <2>3. v.size \in Nat /\ v.size <= Room
    BY <1>0, <2>1, <2>2
  <2> QED BY <2>1, <2>3, StringBytes DEF Sized
<1>4. ASSUME NEW b \in Blobs, v = SetGenericBytes(b)
      PROVE  Sized(v) /\ v.type # "Invalid"
  <2>1. v.size = Len(b) /\ v.data = b /\ v.type # "Invalid" /\ Len(b) <= 32
    BY <1>4 DEF SetGenericBytes, MaxGenericBytes
  <2>2. b = [i \in 1 .. Len(b) |-> b[i]] /\ Len(b) \in Nat
    BY IdentityAssumption, SequenceIsFunction
  <2> QED BY <1>0, <2>1, <2>2 DEF Sized
<1>5. \/ \E a : v = SetIPAddr(a)
      \/ \E w \in RawIDs : v = SetSteamID64(w) \/ v = SetPSNID(w)
      \/ \E s \in Strings : v = SetGenericString(s) \/ v = SetXboxPairwiseID(s)
      \/ \E b \in Blobs : v = SetGenericBytes(b)
  BY Zenon DEF Setters, SetLocalHost, SetIPv4Addr
<1> QED BY <1>1, <1>2, <1>3, <1>4, <1>5, Zenon

(* An identity stands for what it is meant to hold, and for nothing that   *)
(* it has held before.                                                     *)
StandsFor(id, v) ==
    /\ id.type = v.type /\ id.size = v.size
    /\ \A i \in 1 .. v.size : id.bytes[i] = v.data[i]
    /\ Sized(v) /\ v = Read(v)

IdInv ==
    /\ identity = [n \in Names |-> identity[n]]
    /\ meant = [n \in Names |-> meant[n]]
    /\ \A n \in Names : StandsFor(identity[n], meant[n])

LEMMA BlankStandsForNothing == StandsFor(Blank, NoValue)
<1>1. \A i \in 1 .. 0 : Blank.bytes[i] = NoValue.data[i]
  OBVIOUS
<1>2. Room \in Nat /\ 0 <= Room
  BY IdentityAssumption
<1>3. NoValue.size = 0 /\ NoValue.data = <<>> /\ NoValue = Read(NoValue)
  BY DEF NoValue, Read
<1>4. <<>> = [i \in 1 .. 0 |-> <<>>[i]]
  OBVIOUS
<1>5. Blank.type = NoValue.type /\ Blank.size = NoValue.size
  BY DEF Blank, NoValue
<1> QED BY <1>1, <1>2, <1>3, <1>4, <1>5 DEF StandsFor, Sized

LEMMA StoredStandsFor ==
    ASSUME NEW id, NEW v \in Setters, v.fits
    PROVE  StandsFor(Store(id, v), Read(v))
<1>1. Sized(v)
  BY SettersAreSized
<1>2. Store(id, v) = Stored(id, v)
  BY DEF Store
<1>3. \A i \in 1 .. v.size : i \in 1 .. Room
  BY <1>1, IdentityAssumption DEF Sized
<1>4. \A i \in 1 .. v.size : i <= v.size
  BY <1>1 DEF Sized
<1>5. /\ Stored(id, v).type = v.type /\ Stored(id, v).size = v.size
      /\ \A i \in 1 .. Room : Stored(id, v).bytes[i]
                                = IF i <= v.size THEN v.data[i] ELSE id.bytes[i]
  BY DEF Stored
<1>6. \A i \in 1 .. v.size : Stored(id, v).bytes[i] = v.data[i]
  BY <1>3, <1>4, <1>5
<1>7. /\ Read(v).type = v.type /\ Read(v).size = v.size /\ Read(v).data = v.data
      /\ Read(Read(v)) = Read(v)
  BY DEF Read
<1>8. Sized(Read(v))
  BY <1>1, <1>7 DEF Sized
<1> QED BY <1>2, <1>5, <1>6, <1>7, <1>8 DEF StandsFor

LEMMA IdentityStep == IdInv /\ [IdentityNext]_identityVars => IdInv'
<1> SUFFICES ASSUME IdInv, [IdentityNext]_identityVars PROVE IdInv'
  OBVIOUS
<1>1. ASSUME NEW n \in Names, NEW id, NEW v, StandsFor(id, v),
             identity' = [identity EXCEPT ![n] = id], meant' = [meant EXCEPT ![n] = v]
      PROVE  IdInv'
  <2>1. identity' = [m \in Names |-> identity'[m]] /\ meant' = [m \in Names |-> meant'[m]]
    BY <1>1 DEF IdInv
  <2>2. ASSUME NEW m \in Names PROVE StandsFor(identity'[m], meant'[m])
    <3>1. CASE m = n
      BY <1>1, <3>1 DEF IdInv
    <3>2. CASE m # n
      <4>1. identity'[m] = identity[m] /\ meant'[m] = meant[m]
        BY <1>1, <3>2 DEF IdInv
      <4> QED BY <4>1 DEF IdInv
    <3> QED BY <3>1, <3>2
  <2> QED BY <2>1, <2>2 DEF IdInv
<1>2. CASE \E n \in Names : /\ identity' = [identity EXCEPT ![n] = Blank]
                            /\ meant' = [meant EXCEPT ![n] = NoValue]
  BY <1>1, <1>2, BlankStandsForNothing
<1>3. ASSUME NEW n \in Names, NEW v \in Setters, v.fits,
             identity' = [identity EXCEPT ![n] = Store(@, v)],
             meant' = [meant EXCEPT ![n] =
                            [type |-> v.type, size |-> v.size, data |-> v.data]]
      PROVE  IdInv'
  <2>1. StandsFor(Store(identity[n], v), Read(v))
    BY <1>3, StoredStandsFor
  <2>2. /\ identity' = [identity EXCEPT ![n] = Store(identity[n], v)]
        /\ meant' = [meant EXCEPT ![n] = Read(v)]
    BY <1>3 DEF Read
  <2> QED BY <1>1, <2>1, <2>2
<1>4. ASSUME NEW n \in Names, NEW v \in Setters, ~ v.fits,
             identity' = [identity EXCEPT ![n] = Store(@, v)], meant' = meant
      PROVE  IdInv'
  <2>1. identity' = [identity EXCEPT ![n] = identity[n]]
    BY <1>4 DEF Store
  <2>2. identity' = identity
    BY <2>1 DEF IdInv
  <2> QED BY <1>4, <2>2 DEF IdInv
<1>5. CASE UNCHANGED identityVars
  BY <1>5 DEF identityVars, IdInv
<1>6. CASE \E n \in Names, v \in Setters :
              /\ identity' = [identity EXCEPT ![n] = Store(@, v)]
              /\ meant' = IF v.fits
                          THEN [meant EXCEPT ![n] =
                                  [type |-> v.type, size |-> v.size, data |-> v.data]]
                          ELSE meant
  <2>1. PICK n \in Names, v \in Setters :
              /\ identity' = [identity EXCEPT ![n] = Store(@, v)]
              /\ meant' = IF v.fits
                          THEN [meant EXCEPT ![n] =
                                  [type |-> v.type, size |-> v.size, data |-> v.data]]
                          ELSE meant
    BY <1>6
  <2>2. CASE v.fits
    BY <1>3, <2>1, <2>2
  <2>3. CASE ~ v.fits
    BY <1>4, <2>1, <2>3
  <2> QED BY <2>2, <2>3
<1> QED BY <1>2, <1>5, <1>6 DEF IdentityNext

(* Two identities that stand for their values are the same exactly when    *)
(* the values are.                                                         *)
LEMMA SameIsEqual ==
    ASSUME NEW x, NEW y, NEW v, NEW w, StandsFor(x, v), StandsFor(y, w)
    PROVE  Same(x, y) <=> v = w
<1>1. v = w => Same(x, y)
  BY DEF StandsFor, Same
<1>2. ASSUME Same(x, y) PROVE v = w
  <2>1. v.type = w.type /\ v.size = w.size
    BY <1>2 DEF Same, StandsFor
  <2>2. \A i \in 1 .. v.size : v.data[i] = w.data[i]
    BY <1>2, <2>1 DEF Same, StandsFor
  <2>3. /\ v.data = [i \in 1 .. v.size |-> v.data[i]]
        /\ w.data = [i \in 1 .. v.size |-> w.data[i]]
    BY <2>1 DEF StandsFor, Sized
  <2>4. v.data = w.data
    BY <2>2, <2>3
  <2>5. v = Read(v) /\ w = Read(w)
    BY DEF StandsFor
  <2> QED BY <2>1, <2>4, <2>5 DEF Read
<1> QED BY <1>1, <1>2

(* operator== of SteamNetworkingIdentity (steamnetworkingtypes.h), which   *)
(* compares as many bytes of the union as the size says, tells two values  *)
(* apart and nothing else, after any number of setters, failed ones too.   *)
THEOREM EqualityCorrect == IdentitySpec => []EqualityIsByValue
<1>1. IdentityInit => IdInv
  <2> SUFFICES ASSUME IdentityInit PROVE IdInv
    OBVIOUS
  <2>1. \A n \in Names : identity[n] = Blank /\ meant[n] = NoValue
    BY DEF IdentityInit
  <2> QED BY <2>1, BlankStandsForNothing DEF IdentityInit, IdInv
<1>2. IdInv /\ [IdentityNext]_identityVars => IdInv'
  BY IdentityStep
<1>3. IdInv => EqualityIsByValue
  BY SameIsEqual DEF IdInv, EqualityIsByValue
<1> QED BY <1>1, <1>2, <1>3, PTL DEF IdentitySpec
-----------------------------------------------------------------------------
(* Addresses.                                                              *)

LEMMA HalfInOctets ==
    ASSUME NEW n \in Int
    PROVE  (n \div 256) * 256 + (n % 256) = n
  OBVIOUS

LEMMA HalfIsInt ==
    ASSUME NEW h \in Half
    PROVE  h \in Int
  BY DEF Half

LEMMA PairOfParts ==
    ASSUME NEW S, NEW T, NEW p \in S \X T
    PROVE  p = <<p[1], p[2]>> /\ p[1] \in S /\ p[2] \in T
  OBVIOUS

LEMMA HalvesMakeNumber ==
    ASSUME NEW x \in Half, NEW y \in Half
    PROVE  <<x, y>> \in Uint32
  BY DEF Uint32

(* The number of an IPv4 address survives its trip through memory.         *)
LEMMA NumberReadsBack ==
    ASSUME NEW n \in Uint32, NEW port
    PROVE  /\ IsIPv4(SetIPv4(n, port)) /\ GetIPv4(SetIPv4(n, port)) = n
           /\ SetIPv4(n, port).ip[11] = 255
<1> DEFINE ip == SetIPv4(n, port).ip
<1>1. ip = [i \in 1 .. 16 |->
                CASE i <= 10 -> 0
                  [] i \in 11 .. 12 -> 255
                  [] i >= 13 -> OctetsOf(n)[i - 12]]
  BY DEF SetIPv4
<1>2. \A i \in 1 .. 10 : ip[i] = 0
  BY <1>1
<1>3. \A i \in 11 .. 12 : ip[i] = 255
  BY <1>1
<1>4. /\ ip[13] = OctetsOf(n)[1] /\ ip[14] = OctetsOf(n)[2]
      /\ ip[15] = OctetsOf(n)[3] /\ ip[16] = OctetsOf(n)[4]
  BY <1>1
<1> HIDE DEF ip
<1>5. /\ ip[13] = n[1] \div 256 /\ ip[14] = n[1] % 256
      /\ ip[15] = n[2] \div 256 /\ ip[16] = n[2] % 256
  BY <1>4 DEF OctetsOf
<1>6. n = <<n[1], n[2]>> /\ n[1] \in Int /\ n[2] \in Int
  <2>1. n \in Half \X Half
    BY DEF Uint32
  <2>2. n = <<n[1], n[2]>> /\ n[1] \in Half /\ n[2] \in Half
    BY <2>1, PairOfParts, Zenon
  <2> QED BY <2>2, HalfIsInt, Zenon
<1>7. <<ip[13] * 256 + ip[14], ip[15] * 256 + ip[16]>> = n
  <2>1. (n[1] \div 256) * 256 + (n[1] % 256) = n[1]
    BY <1>6, HalfInOctets
  <2>2. (n[2] \div 256) * 256 + (n[2] % 256) = n[2]
    BY <1>6, HalfInOctets
  <2>3. ip[13] * 256 + ip[14] = n[1]
    BY <1>5, <2>1
  <2>4. ip[15] * 256 + ip[16] = n[2]
    BY <1>5, <2>2
  <2>5. <<ip[13] * 256 + ip[14], ip[15] * 256 + ip[16]>> = <<n[1], n[2]>>
    BY <2>3, <2>4, Zenon
  <2> QED BY <1>6, <2>5, Zenon
<1>8. IsIPv4(SetIPv4(n, port))
  BY <1>2, <1>3 DEF IsIPv4, ip
<1>9. ip[11] = 255
  BY <1>3
<1> QED BY <1>7, <1>8, <1>9 DEF GetIPv4, ip

AddrInv ==
    \/ given.kind = "none" /\ given.port = 0 /\ address = Clear
    \/ given.kind = "localhost" /\ address = SetIPv6LocalHost(given.port)
    \/ /\ given.kind = "IPv4" /\ given.ip \in IPs
       /\ address = SetIPv4(given.ip, given.port)
    \/ /\ given.kind = "IPv6" /\ given.ip \in IPv6s
       /\ address = SetIPv6(given.ip, given.port)

(* What is not mapped has no number, and is no localhost but ::1.          *)
LEMMA NotMapped ==
    ASSUME NEW a, ~ IsIPv4(a)
    PROVE  /\ GetIPv4(a) = <<0, 0>>
           /\ IsLocalHost(a) <=> a.ip[16] = 1 /\ \A i \in 1 .. 15 : a.ip[i] = 0
<1>1. GetIPv4(a) = <<0, 0>>
  BY DEF GetIPv4
<1>2. <<0, 0>> # Loopback
  BY DEF Loopback
<1> QED BY <1>1, <1>2 DEF IsLocalHost

LEMMA AddrInvImplies == AddrInv => AddressReadsBack
<1> SUFFICES ASSUME AddrInv PROVE AddressReadsBack
  OBVIOUS
<1>1. CASE given.kind = "none" /\ given.port = 0 /\ address = Clear
  <2>1. address.ip = ZeroIP /\ address.port = 0
    BY <1>1 DEF Clear
  <2>2. address.ip[11] = 0 /\ address.ip[16] = 0
    BY <2>1 DEF ZeroIP
  <2>3. ~ IsIPv4(address)
    BY <2>2 DEF IsIPv4
  <2>4. ~ IsLocalHost(address)
    BY <2>2, <2>3, NotMapped
  <2> QED BY <1>1, <2>1, <2>4 DEF AddressReadsBack
<1>2. CASE given.kind = "localhost" /\ address = SetIPv6LocalHost(given.port)
  <2>1. /\ address.ip = [i \in 1 .. 16 |-> IF i = 16 THEN 1 ELSE 0]
        /\ address.port = given.port
    BY <1>2 DEF SetIPv6LocalHost
  <2>2. address.ip[16] = 1 /\ \A i \in 1 .. 15 : address.ip[i] = 0
    BY <2>1
  <2>3. IsLocalHost(address)
    BY <2>2 DEF IsLocalHost
  <2>4. ~ IsIPv6AllZeros(address)
    BY <2>2 DEF IsIPv6AllZeros, ZeroIP
  <2> QED BY <1>2, <2>1, <2>3, <2>4 DEF AddressReadsBack
<1>3. CASE /\ given.kind = "IPv4" /\ given.ip \in IPs
           /\ address = SetIPv4(given.ip, given.port)
  <2>1. given.ip \in Uint32
    BY <1>3, AddressAssumption
  <2>2. IsIPv4(address) /\ GetIPv4(address) = given.ip /\ address.ip[11] = 255
    BY <1>3, <2>1, NumberReadsBack
  <2>3. address.port = given.port
    BY <1>3 DEF SetIPv4
  <2>4. ~ IsIPv6AllZeros(address)
    BY <2>2 DEF IsIPv6AllZeros, ZeroIP
  <2>5. IsLocalHost(address) <=> given.ip = Loopback
    BY <2>2 DEF IsLocalHost
  <2> QED BY <1>3, <2>2, <2>3, <2>4, <2>5 DEF AddressReadsBack
<1>4. CASE /\ given.kind = "IPv6" /\ given.ip \in IPv6s
           /\ address = SetIPv6(given.ip, given.port)
  <2>1. address.ip = given.ip /\ address.port = given.port
    BY <1>4 DEF SetIPv6
  <2>2. ~ IsIPv4(SetIPv6(given.ip, 0)) => ~ IsIPv4(address)
    BY <2>1 DEF IsIPv4, SetIPv6
  <2>3. ~ IsIPv4(SetIPv6(given.ip, 0)) => GetIPv4(address) = <<0, 0>>
    BY <2>2, NotMapped
  <2>4. IsIPv6AllZeros(address) => given.ip = ZeroIP
    BY <2>1 DEF IsIPv6AllZeros
  <2> QED BY <1>4, <2>1, <2>3, <2>4 DEF AddressReadsBack
<1> QED BY <1>1, <1>2, <1>3, <1>4 DEF AddrInv

(* Every 32-bit number and port comes back from a SteamNetworkingIPAddr as *)
(* it went in (steamnetworkingtypes.h 1909), no other address of 16 bytes  *)
(* is taken for IPv4, and localhost is what Client::JoinLocalHost sets or  *)
(* 127.0.0.1.                                                              *)
THEOREM AddressCorrect == AddressSpec => []AddressReadsBack
<1>1. AddressInit => AddrInv
  BY DEF AddressInit, AddrInv
<1>2. AddrInv /\ [AddressNext]_addressVars => AddrInv'
  <2> SUFFICES ASSUME AddrInv, [AddressNext]_addressVars PROVE AddrInv'
    OBVIOUS
  <2>1. CASE Becomes(Clear, "none", ZeroIP, 0)
    BY <2>1 DEF Becomes, AddrInv
  <2>2. CASE \E port \in Ports :
                Becomes(SetIPv6LocalHost(port), "localhost", ZeroIP, port)
    BY <2>2 DEF Becomes, AddrInv
  <2>3. CASE \E port \in Ports, n \in IPs : Becomes(SetIPv4(n, port), "IPv4", n, port)
    BY <2>3 DEF Becomes, AddrInv
  <2>4. CASE \E port \in Ports, ip \in IPv6s :
                Becomes(SetIPv6(ip, port), "IPv6", ip, port)
    BY <2>4 DEF Becomes, AddrInv
  <2>5. CASE UNCHANGED addressVars
    BY <2>5 DEF addressVars, AddrInv
  <2> QED BY <2>1, <2>2, <2>3, <2>4, <2>5 DEF AddressNext
<1>3. AddrInv => AddressReadsBack
  BY AddrInvImplies
<1> QED BY <1>1, <1>2, <1>3, PTL DEF AddressSpec
-----------------------------------------------------------------------------
(* Steam ids.                                                              *)

LEMMA ByteIsInt ==
    ASSUME NEW b \in Byte
    PROVE  b \in Int /\ 0 <= b /\ b <= 255
  BY DEF Byte

LEMMA IsByte ==
    ASSUME NEW b \in Int, 0 <= b, b <= 255
    PROVE  b \in Byte
  BY DEF Byte

LEMMA WordIsInt ==
    ASSUME NEW h \in HalfWord
    PROVE  h \in Int /\ 0 <= h /\ h <= 65535
<1>1. h \in 0 .. WordMax
  BY Zenon DEF HalfWord
<1>2. WordMax \in Int /\ WordMax <= 65535
  BY DEF WordMax
<1> QED BY <1>1, <1>2

LEMMA IsWord ==
    ASSUME NEW h \in Int, 0 <= h, h <= 65535
    PROVE  h \in HalfWord
<1>1. WordMax \in Int /\ h <= WordMax
  BY DEF WordMax
<1> QED BY <1>1 DEF HalfWord

LEMMA WordsMakeAccount ==
    ASSUME NEW x \in HalfWord, NEW y \in HalfWord
    PROVE  <<x, y>> \in AccountNo
  BY DEF AccountNo

LEMMA TwoBytes ==
    ASSUME NEW x \in Byte, NEW y \in Byte
    PROVE  x + 256 * y \in HalfWord
<1>1. /\ x + 256 * y \in Int /\ 0 <= x + 256 * y /\ x + 256 * y <= 65535
  BY ByteIsInt
<1> QED BY <1>1, IsWord

LEMMA InstanceFits ==
    ASSUME NEW n \in Int
    PROVE  n % InstanceBits \in 0 .. InstanceBits - 1
<1>1. InstanceBits \in Int /\ InstanceBits > 0
  BY DEF InstanceBits
<1> QED BY <1>1

LEMMA IsInstance ==
    ASSUME NEW n \in Int, 0 <= n, n < 1048576
    PROVE  n \in 0 .. InstanceBits - 1
<1>1. InstanceBits \in Int /\ n < InstanceBits
  BY DEF InstanceBits
<1> QED BY <1>1

LEMMA NibbleOf ==
    ASSUME NEW b \in Int, 0 <= b, b <= 255
    PROVE  b \div 16 \in 0 .. 15 /\ b % 16 \in Int /\ 0 <= b % 16 /\ b % 16 <= 15
  OBVIOUS

LEMMA InstancedSetType ==
    ASSUME NEW account \in AccountNo, NEW instance \in Int, NEW universe \in Byte,
           NEW type \in 0 .. 15
    PROVE  InstancedSet(account, instance, universe, type) \in CSteamID
  BY InstanceFits DEF InstancedSet, CSteamID

LEMMA LowAccountType ==
    ASSUME NEW w \in Raw
    PROVE  LowAccount(w) \in AccountNo /\ \A i \in 1 .. 8 : w[i] \in Byte
<1>1. \A i \in 1 .. 8 : w[i] \in Byte
  BY DEF Raw
<1>2. w[1] \in Byte /\ w[2] \in Byte /\ w[3] \in Byte /\ w[4] \in Byte
  BY <1>1
<1>3. w[3] + 256 * w[4] \in HalfWord /\ w[1] + 256 * w[2] \in HalfWord
  BY <1>2, TwoBytes
<1> QED BY <1>1, <1>3, Zenon DEF LowAccount, AccountNo

LEMMA ThreeBytesFit ==
    ASSUME NEW x \in Int, NEW y \in Int, NEW z \in Int,
           0 <= x, x <= 255, 0 <= y, y <= 255, 0 <= z, z <= 255
    PROVE  /\ x + 256 * y + 65536 * z \in Int
           /\ 0 <= x + 256 * y + 65536 * z /\ x + 256 * y + 65536 * z <= 16777215
           /\ z <= 15 => x + 256 * y + 65536 * z < 1048576
  OBVIOUS

LEMMA FromUint64Type ==
    ASSUME NEW w \in Raw
    PROVE  FromUint64(w) \in CSteamID
<1>1. LowAccount(w) \in AccountNo /\ w[8] \in Byte
  BY LowAccountType
<1>2. /\ w[5] \in Byte /\ w[6] \in Byte /\ w[7] \in Byte
  BY LowAccountType
<1>3. w[7] \div 16 \in 0 .. 15 /\ w[7] % 16 \in Int /\ 0 <= w[7] % 16 /\ w[7] % 16 <= 15
  BY <1>2, ByteIsInt, NibbleOf
<1> DEFINE n == w[5] + 256 * w[6] + 65536 * (w[7] % 16)
<1>4. n \in Int /\ 0 <= n /\ n < 1048576
  <2> DEFINE z == w[7] % 16
  <2>1. z \in Int /\ 0 <= z /\ z <= 15
    BY <1>3
  <2> HIDE DEF z
  <2>2. w[5] + 256 * w[6] + 65536 * z \in Int /\ 0 <= w[5] + 256 * w[6] + 65536 * z
            /\ w[5] + 256 * w[6] + 65536 * z < 1048576
    BY <1>2, <2>1, ByteIsInt, ThreeBytesFit
  <2> QED BY <2>2 DEF z
<1>5. n \in 0 .. InstanceBits - 1
  BY <1>4, IsInstance
<1> HIDE DEF n
<1>6. FromUint64(w) = [account |-> LowAccount(w), instance |-> n,
                       type |-> w[7] \div 16, universe |-> w[8]]
  BY DEF FromUint64, n
<1> QED BY <1>1, <1>3, <1>5, <1>6 DEF CSteamID

LEMMA SteamIDBits ==
    ASSUME NEW s \in CSteamID
    PROVE  /\ s = [account |-> s.account, instance |-> s.instance,
                   type |-> s.type, universe |-> s.universe]
           /\ s.account \in AccountNo /\ s.type \in 0 .. 15 /\ s.universe \in Byte
           /\ s.instance \in 0 .. InstanceBits - 1
  BY DEF CSteamID

LEMMA MakeSteamIDType ==
    ASSUME steamID \in CSteamID, MakeSteamID
    PROVE  steamID' \in CSteamID
<1>1. Accounts \subseteq AccountNo /\ Universes \subseteq Byte /\ Types \subseteq 0 .. 15
  BY SteamIDAssumption, Zenon
<1>2. RawIDs \subseteq Raw /\ \A i \in Instances : i \in Int
  BY SteamIDAssumption
<1>3. <<0, 0>> \in AccountNo /\ 0 \in Byte /\ 0 \in 0 .. 15 /\ 0 \in Int /\ 1 \in Int
  BY IsWord, IsByte DEF AccountNo
<1>4. AnonGameServer \in 0 .. 15 /\ AnonUser \in 0 .. 15
  BY DEF AnonGameServer, AnonUser
<1>5. ASSUME NEW a \in Accounts, NEW u \in Universes, NEW t \in Types,
             steamID' = Set(a, u, t)
      PROVE  steamID' \in CSteamID
  BY <1>1, <1>3, <1>5, InstancedSetType DEF Set
<1>6. ASSUME NEW u \in Universes, \/ steamID' = CreateBlankAnonLogon(u)
                                  \/ steamID' = CreateBlankAnonUserLogon(u)
      PROVE  steamID' \in CSteamID
  BY <1>1, <1>3, <1>4, <1>6, InstancedSetType
     DEF CreateBlankAnonLogon, CreateBlankAnonUserLogon
<1>7. ASSUME steamID' = Nil PROVE steamID' \in CSteamID
  BY <1>3, <1>7, InstancedSetType DEF Nil
<1>8. ASSUME NEW w \in RawIDs, steamID' = FromUint64(w) PROVE steamID' \in CSteamID
  BY <1>2, <1>8, FromUint64Type
<1>9. ASSUME NEW w \in RawIDs, NEW u \in Universes, NEW t \in Types,
             steamID' = FullSet(w, u, t)
      PROVE  steamID' \in CSteamID
  <2>1. w[5] \in Byte /\ w[6] \in Byte /\ w[7] \in Byte /\ LowAccount(w) \in AccountNo
    BY <1>2, LowAccountType
  <2>2. w[5] + 256 * w[6] + 65536 * w[7] \in Int
    BY <2>1, ByteIsInt, ThreeBytesFit
  <2>3. InstancedSet(LowAccount(w), w[5] + 256 * w[6] + 65536 * w[7], u, t) \in CSteamID
    BY <1>1, <2>1, <2>2, InstancedSetType
  <2> QED BY <1>9, <2>3 DEF FullSet
<1>10. ASSUME NEW u \in Universes, steamID' = [steamID EXCEPT !.universe = u]
       PROVE  steamID' \in CSteamID
  BY <1>1, <1>10 DEF CSteamID
<1>11. ASSUME NEW i \in Instances, steamID' = [steamID EXCEPT !.instance = i % InstanceBits]
       PROVE  steamID' \in CSteamID
  <2>1. i % InstanceBits \in 0 .. InstanceBits - 1
    BY <1>2, InstanceFits
  <2> QED BY <1>11, <2>1 DEF CSteamID
<1>12. ASSUME NEW a \in Accounts, steamID' = [steamID EXCEPT !.account = a]
       PROVE  steamID' \in CSteamID
  BY <1>1, <1>12 DEF CSteamID
<1> QED BY <1>5, <1>6, <1>7, <1>8, <1>9, <1>10, <1>11, <1>12, Zenon DEF MakeSteamID, SetPart

LEMMA LowByte ==
    ASSUME NEW h \in Int
    PROVE  h % 256 \in Int /\ 0 <= h % 256 /\ h % 256 <= 255
  OBVIOUS

LEMMA ThreeBytesAreApp ==
    ASSUME NEW n \in Int, 0 <= n, n <= 16777215
    PROVE  n \in 0 .. AppMax
<1>1. AppMax \in Int /\ n <= AppMax
  BY DEF AppMax
<1> QED BY <1>1

LEMMA GameIDType ==
    ASSUME NEW app \in AccountNo, NEW mod \in AccountNo, NEW type \in Byte
    PROVE  GameID(app, mod, type) \in CGameID
<1>1. app[1] \in HalfWord /\ app[2] \in HalfWord
  BY PairOfParts, Zenon DEF AccountNo
<1> DEFINE n == 65536 * (app[1] % 256) + app[2]
<1>2. n \in Int /\ 0 <= n /\ n <= 16777215
  <2> DEFINE b == app[1] % 256
  <2>1. b \in Int /\ 0 <= b /\ b <= 255
    BY <1>1, WordIsInt, LowByte
  <2>2. app[2] \in Int /\ 0 <= app[2] /\ app[2] <= 65535
    BY <1>1, WordIsInt
  <2> HIDE DEF b
  <2>3. 65536 * b + app[2] \in Int /\ 0 <= 65536 * b + app[2] /\ 65536 * b + app[2] <= 16777215
    BY <2>1, <2>2
  <2> QED BY <2>3 DEF b
<1>3. n \in 0 .. AppMax
  BY <1>2, ThreeBytesAreApp
<1> HIDE DEF n
<1>4. GameID(app, mod, type) = [app |-> n, type |-> type, mod |-> mod]
  BY DEF GameID, n
<1> QED BY <1>3, <1>4 DEF CGameID

LEMMA GameOfUint64Type ==
    ASSUME NEW w \in Raw
    PROVE  GameOfUint64(w) \in CGameID
<1>1. \A i \in 1 .. 8 : w[i] \in Byte
  BY LowAccountType
<1>2. /\ w[1] \in Byte /\ w[2] \in Byte /\ w[3] \in Byte /\ w[4] \in Byte
      /\ w[5] \in Byte /\ w[6] \in Byte /\ w[7] \in Byte /\ w[8] \in Byte
  BY <1>1
<1> DEFINE n == w[1] + 256 * w[2] + 65536 * w[3]
           m == <<w[7] + 256 * w[8], w[5] + 256 * w[6]>>
<1>3. n \in 0 .. AppMax
  <2>1. n \in Int /\ 0 <= n /\ n <= 16777215
    BY <1>2, ByteIsInt, ThreeBytesFit
  <2> QED BY <2>1, ThreeBytesAreApp
<1>4. m \in AccountNo
  <2>1. w[7] + 256 * w[8] \in HalfWord /\ w[5] + 256 * w[6] \in HalfWord
    BY <1>2, TwoBytes
  <2> QED BY <2>1, WordsMakeAccount
<1> HIDE DEF n, m
<1>5. GameOfUint64(w) = [app |-> n, type |-> w[4], mod |-> m]
  BY DEF GameOfUint64, n, m
<1> QED BY <1>2, <1>3, <1>4, <1>5 DEF CGameID

LEMMA MakeGameIDType ==
    ASSUME gameID \in CGameID, MakeGameID
    PROVE  gameID' \in CGameID
<1>1. Accounts \subseteq AccountNo /\ RawIDs \subseteq Raw
  BY SteamIDAssumption, Zenon
<1>2. \A t \in Types : t \in Byte
  <2>1. \A t \in 0 .. 15 : t \in Int /\ 0 <= t /\ t <= 255
    OBVIOUS
  <2> QED BY <2>1, IsByte, SteamIDAssumption
<1>3. <<0, 0>> \in AccountNo /\ App \in Byte
  BY IsWord, IsByte DEF AccountNo, App
<1> QED BY <1>1, <1>2, <1>3, GameIDType, GameOfUint64Type DEF MakeGameID, NoGame

(* CSteamID and CGameID keep to the widths of their bit fields.            *)
THEOREM SteamIDTypeCorrect == SteamIDSpec => []SteamIDTypeOK
<1>1. SteamIDInit => SteamIDTypeOK
  <2>1. <<0, 0>> \in AccountNo /\ App \in Byte /\ 0 \in Byte /\ 0 \in 0 .. 15 /\ 0 \in Int
    BY IsWord, IsByte DEF AccountNo, App
  <2>2. Nil \in CSteamID /\ NoGame \in CGameID
    BY <2>1, InstancedSetType, GameIDType DEF Nil, NoGame
  <2> QED BY <2>2 DEF SteamIDInit, SteamIDTypeOK
<1>2. SteamIDTypeOK /\ [SteamIDNext]_idVars => SteamIDTypeOK'
  <2> SUFFICES ASSUME SteamIDTypeOK, [SteamIDNext]_idVars PROVE SteamIDTypeOK'
    OBVIOUS
  <2>1. CASE MakeSteamID
    BY <2>1, MakeSteamIDType DEF SteamIDTypeOK, MakeSteamID, SetPart
  <2>2. CASE MakeGameID
    BY <2>2, MakeGameIDType DEF SteamIDTypeOK, MakeGameID
  <2>3. CASE UNCHANGED idVars
    BY <2>3 DEF idVars, SteamIDTypeOK
  <2> QED BY <2>1, <2>2, <2>3 DEF SteamIDNext
<1> QED BY <1>1, <1>2, PTL DEF SteamIDSpec

(* An id is put together from its fields.                                  *)
IDInv ==
    /\ steamID = [account |-> steamID.account, instance |-> steamID.instance,
                  type |-> steamID.type, universe |-> steamID.universe]
    /\ steamID.account \in Int \X Int
    /\ steamID.type \in Int

LEMMA TypeIsID == SteamIDTypeOK => IDInv
<1> SUFFICES ASSUME steamID \in CSteamID PROVE IDInv
  BY DEF SteamIDTypeOK
<1>1. /\ steamID = [account |-> steamID.account, instance |-> steamID.instance,
                    type |-> steamID.type, universe |-> steamID.universe]
      /\ steamID.account \in HalfWord \X HalfWord /\ steamID.type \in 0 .. 15
  BY Zenon DEF CSteamID, AccountNo
<1>2. \A h \in HalfWord : h \in Int
  BY WordIsInt
<1>3. \A t \in 0 .. 15 : t \in Int
  OBVIOUS
<1>4. steamID.account \in Int \X Int
  BY <1>1, <1>2
<1> QED BY <1>1, <1>3, <1>4, Zenon DEF IDInv

LEMMA SameParts ==
    ASSUME NEW x \in Int, NEW y \in Int, x % 256 = y % 256, x \div 256 = y \div 256
    PROVE  x = y
  BY HalfInOctets

LEMMA SameType ==
    ASSUME NEW c \in Int, NEW x \in Int, NEW y \in Int, c + 16 * x = c + 16 * y
    PROVE  x = y
  OBVIOUS

(* The key of an account is its number, type and universe.                 *)
LEMMA KeyIsAccount ==
    ASSUME NEW s, NEW t, s.account \in Int \X Int, t.account \in Int \X Int,
           s.type \in Int, t.type \in Int,
           s = [account |-> s.account, instance |-> s.instance,
                type |-> s.type, universe |-> s.universe],
           t = [account |-> t.account, instance |-> t.instance,
                type |-> t.type, universe |-> t.universe]
    PROVE  GetStaticAccountKey(s) = GetStaticAccountKey(t) <=>
            s.account = t.account /\ s.type = t.type /\ s.universe = t.universe
<1>1. ASSUME NEW r, NEW k,
             r = [account |-> r.account, instance |-> r.instance,
                  type |-> r.type, universe |-> r.universe],
             k = GetStaticAccountKey(r)
      PROVE  /\ k[1] = r.account[2] % 256 /\ k[2] = r.account[2] \div 256
             /\ k[3] = r.account[1] % 256 /\ k[4] = r.account[1] \div 256
             /\ k[5] = 0 % 256 /\ k[6] = (0 \div 256) % 256
             /\ k[7] = 0 \div 65536 + 16 * r.type /\ k[8] = r.universe
             /\ k = [i \in 1 .. 8 |-> k[i]]
  <2> DEFINE q == [r EXCEPT !.instance = 0]
  <2>1. /\ q.account = r.account /\ q.instance = 0
        /\ q.type = r.type /\ q.universe = r.universe
    BY <1>1
  <2>2. k = ConvertToUint64(q)
    BY <1>1 DEF GetStaticAccountKey
  <2> HIDE DEF q
  <2> QED BY <2>1, <2>2 DEF ConvertToUint64
<1> DEFINE k == GetStaticAccountKey(s)
           l == GetStaticAccountKey(t)
<1>2. ASSUME k = l
      PROVE  s.account = t.account /\ s.type = t.type /\ s.universe = t.universe
  <2>1. /\ s.account[2] % 256 = t.account[2] % 256
        /\ s.account[2] \div 256 = t.account[2] \div 256
        /\ s.account[1] % 256 = t.account[1] % 256
        /\ s.account[1] \div 256 = t.account[1] \div 256
        /\ 0 \div 65536 + 16 * s.type = 0 \div 65536 + 16 * t.type
        /\ s.universe = t.universe
    BY <1>1, <1>2
  <2>2. s.account[1] = t.account[1] /\ s.account[2] = t.account[2]
    <3>1. /\ s.account[1] \in Int /\ t.account[1] \in Int
          /\ s.account[2] \in Int /\ t.account[2] \in Int
      OBVIOUS
    <3> QED BY <2>1, <3>1, SameParts
  <2>3. s.account = t.account
    BY <2>2
  <2>4. s.type = t.type
    <3>1. 0 \div 65536 \in Int
      OBVIOUS
    <3> QED BY <2>1, <3>1, SameType
  <2> QED BY <2>1, <2>3, <2>4
<1>3. ASSUME s.account = t.account, s.type = t.type, s.universe = t.universe
      PROVE  k = l
  <2>1. \A i \in 1 .. 8 : k[i] = l[i]
    BY <1>1, <1>3
  <2>2. k = [i \in 1 .. 8 |-> k[i]] /\ l = [i \in 1 .. 8 |-> l[i]]
    BY <1>1
  <2> QED BY <2>1, <2>2
<1> QED BY <1>2, <1>3

(* CSteamID::GetStaticAccountKey (steamclientpublic.h) tells apart account *)
(* number, type and universe, for all of them, and nothing else; a valid   *)
(* user or clan is the only valid id with its key.                         *)
THEOREM KeyCorrect == SteamIDSpec => KeyNamesAccount
<1>1. SteamIDSpec => []SteamIDTypeOK
  BY SteamIDTypeCorrect
<1>2. SteamIDTypeOK => IDInv
  BY TypeIsID
<1>3. IDInv /\ IDInv' =>
        /\ GetStaticAccountKey(steamID)' = GetStaticAccountKey(steamID) <=>
            /\ steamID'.account = steamID.account
            /\ steamID'.type = steamID.type
            /\ steamID'.universe = steamID.universe
        /\ GetStaticAccountKey(steamID)' = GetStaticAccountKey(steamID)
            /\ IsValid(steamID) /\ IsValid(steamID)'
            /\ steamID.type \in {Individual, Clan}
            => steamID' = steamID
  <2> SUFFICES ASSUME IDInv, IDInv'
               PROVE  /\ GetStaticAccountKey(steamID') = GetStaticAccountKey(steamID) <=>
                        /\ steamID'.account = steamID.account
                        /\ steamID'.type = steamID.type
                        /\ steamID'.universe = steamID.universe
                      /\ GetStaticAccountKey(steamID') = GetStaticAccountKey(steamID)
                        /\ IsValid(steamID) /\ IsValid(steamID')
                        /\ steamID.type \in {Individual, Clan}
                        => steamID' = steamID
    BY DEF GetStaticAccountKey, ConvertToUint64, IsValid
  <2>1. GetStaticAccountKey(steamID') = GetStaticAccountKey(steamID) <=>
            /\ steamID'.account = steamID.account
            /\ steamID'.type = steamID.type
            /\ steamID'.universe = steamID.universe
    BY KeyIsAccount DEF IDInv
  <2>2. ASSUME IsValid(steamID), IsValid(steamID'),
               steamID.type \in {Individual, Clan}, steamID'.type = steamID.type
        PROVE  steamID'.instance = steamID.instance
    BY <2>2 DEF IsValid, Individual, Clan
  <2> QED BY <2>1, <2>2 DEF IDInv
<1> QED BY <1>1, <1>2, <1>3, PTL DEF SteamIDSpec, KeyNamesAccount

LEMMA AccountReadsBack ==
    ASSUME NEW a \in AccountNo
    PROVE  /\ a = <<(a[1] % 256) + 256 * (a[1] \div 256),
                    (a[2] % 256) + 256 * (a[2] \div 256)>>
           /\ a[1] % 256 \in Byte /\ a[1] \div 256 \in Byte
           /\ a[2] % 256 \in Byte /\ a[2] \div 256 \in Byte
<1>1. a = <<a[1], a[2]>> /\ a[1] \in HalfWord /\ a[2] \in HalfWord
  BY PairOfParts, Zenon DEF AccountNo
<1>2. ASSUME NEW h \in HalfWord
      PROVE  /\ (h % 256) + 256 * (h \div 256) = h
             /\ h % 256 \in Byte /\ h \div 256 \in Byte
  <2>1. h \in Int /\ 0 <= h /\ h <= 65535
    BY WordIsInt
  <2>2. /\ (h % 256) + 256 * (h \div 256) = h
        /\ h % 256 \in Int /\ 0 <= h % 256 /\ h % 256 <= 255
        /\ h \div 256 \in Int /\ 0 <= h \div 256 /\ h \div 256 <= 255
    BY <2>1
  <2> QED BY <2>2, IsByte
<1> QED BY <1>1, <1>2

LEMMA SteamIDPacks ==
    ASSUME NEW s \in CSteamID
    PROVE  FromUint64(ConvertToUint64(s)) = s
<1> DEFINE w == ConvertToUint64(s)
           n == s.instance
           b == n \div 65536 + 16 * s.type
<1>1. /\ s = [account |-> s.account, instance |-> n,
              type |-> s.type, universe |-> s.universe]
      /\ s.account \in AccountNo /\ s.type \in 0 .. 15
  BY SteamIDBits
<1>2. n \in Int /\ 0 <= n /\ n < 1048576
  <2>1. n \in 0 .. InstanceBits - 1
    BY SteamIDBits
  <2>2. InstanceBits \in Int /\ InstanceBits <= 1048576
    BY DEF InstanceBits
  <2> HIDE DEF n
  <2> QED BY <2>1, <2>2
<1>3. s.type \in Int /\ 0 <= s.type /\ s.type <= 15
  BY <1>1
<1>4. /\ w[1] = s.account[2] % 256 /\ w[2] = s.account[2] \div 256
      /\ w[3] = s.account[1] % 256 /\ w[4] = s.account[1] \div 256
      /\ w[5] = n % 256 /\ w[6] = (n \div 256) % 256
      /\ w[7] = b /\ w[8] = s.universe
  BY DEF ConvertToUint64
<1> HIDE DEF w
<1>5. LowAccount(w) = s.account
  <2>1. s.account = <<w[3] + 256 * w[4], w[1] + 256 * w[2]>>
    BY <1>1, <1>4, AccountReadsBack
  <2> QED BY <2>1 DEF LowAccount
<1>6. w[5] + 256 * w[6] + 65536 * (w[7] % 16) = n /\ w[7] \div 16 = s.type
  <2> DEFINE t == s.type
             q == n \div 65536   \* shares the seventh byte with the type
  <2>1. /\ w[5] = n % 256 /\ w[6] = (n \div 256) % 256 /\ w[7] = q + 16 * t
        /\ t \in Int /\ 0 <= t /\ t <= 15
    BY <1>3, <1>4
  <2> HIDE DEF n, t
  <2>2. q \in Int /\ 0 <= q /\ q <= 15
    BY <1>2
  <2>3. (n % 256) + 256 * ((n \div 256) % 256) + 65536 * q = n
    BY <1>2
  <2> HIDE DEF q
  <2>4. w[7] % 16 = q /\ w[7] \div 16 = t
    BY <2>1, <2>2
  <2> QED BY <2>1, <2>3, <2>4 DEF t
<1>7. FromUint64(w) = [account |-> s.account, instance |-> n,
                       type |-> s.type, universe |-> s.universe]
  BY <1>4, <1>5, <1>6 DEF FromUint64
<1> QED BY <1>1, <1>7 DEF w

LEMMA GameIDPacks ==
    ASSUME NEW g \in CGameID
    PROVE  GameOfUint64(ToUint64(g)) = g
<1> DEFINE w == ToUint64(g)
<1>1. /\ g = [app |-> g.app, type |-> g.type, mod |-> g.mod]
      /\ g.mod \in AccountNo /\ g.app \in 0 .. AppMax
  BY DEF CGameID
<1>2. /\ w[1] = g.app % 256 /\ w[2] = (g.app \div 256) % 256
      /\ w[3] = g.app \div 65536 /\ w[4] = g.type
      /\ w[5] = g.mod[2] % 256 /\ w[6] = g.mod[2] \div 256
      /\ w[7] = g.mod[1] % 256 /\ w[8] = g.mod[1] \div 256
  BY DEF ToUint64
<1> HIDE DEF w
<1>3. w[1] + 256 * w[2] + 65536 * w[3] = g.app
  <2>1. ASSUME NEW n \in Int
        PROVE  (n % 256) + 256 * ((n \div 256) % 256) + 65536 * (n \div 65536) = n
    OBVIOUS
  <2>2. g.app \in Int
    BY <1>1
  <2> QED BY <1>2, <2>1, <2>2
<1>4. <<w[7] + 256 * w[8], w[5] + 256 * w[6]>> = g.mod
  BY <1>1, <1>2, AccountReadsBack
<1>5. GameOfUint64(w) = [app |-> g.app, type |-> g.type, mod |-> g.mod]
  BY <1>2, <1>3, <1>4 DEF GameOfUint64
<1> QED BY <1>1, <1>5 DEF w

LEMMA LetterIsNotNul == \A x \in 1 .. 255 : x # 0
  OBVIOUS

LEMMA LetterOf ==
    ASSUME NEW S, NEW q \in Seq(S)
    PROVE  \A i \in 1 .. Len(q) : q[i] \in S
  OBVIOUS

(* A code of four letters or fewer comes back, of a longer one the first   *)
(* four.                                                                   *)
LEMMA CodeReadsBack ==
    ASSUME NEW code \in Codes
    PROVE  POPString(CalculatePOPID(code))
            = SubSeq(code, 1, IF Len(code) < 4 THEN Len(code) ELSE 4)
<1> DEFINE m == IF Len(code) < 4 THEN Len(code) ELSE 4
           id == CalculatePOPID(code)
           s == <<id[3], id[2], id[1], id[4], 0>>
           Ends(i) == s[i] = 0 /\ \A j \in 1 .. i - 1 : s[j] # 0
           n == CHOOSE i \in 1 .. 5 : Ends(i)
<1>1. code \in Seq(1 .. 255) /\ Len(code) \in Nat
  <2>1. code \in Seq(1 .. 255)
    BY SteamIDAssumption
  <2> QED BY <2>1
<1>2. \A i \in 1 .. Len(code) : code[i] # 0
  <2>1. \A i \in 1 .. Len(code) : code[i] \in 1 .. 255
    BY <1>1, LetterOf, Zenon
  <2>2. \A x \in 1 .. 255 : x # 0
    BY LetterIsNotNul
  <2> QED BY <2>1, <2>2, Zenon
<1>3. m \in Nat /\ m <= 4 /\ m <= Len(code)
  BY <1>1
<1>4. \A i \in 1 .. 4 : s[i] = IF i <= Len(code) THEN code[i] ELSE 0
  BY DEF CalculatePOPID
<1>5. s[5] = 0
  OBVIOUS
<1> HIDE DEF s, id
<1>6. \A i \in 1 .. m : s[i] = code[i] /\ s[i] # 0
  <2> HIDE DEF m
  <2> QED BY <1>1, <1>2, <1>3, <1>4
<1>7. s[m + 1] = 0
  <2>1. CASE m = 4
    BY <1>5, <2>1
  <2>2. CASE m < 4
    BY <1>1, <1>4, <2>2
  <2> QED BY <1>3, <2>1, <2>2
<1> HIDE DEF m
<1>8. m + 1 \in 1 .. 5 /\ Ends(m + 1)
  BY <1>3, <1>6, <1>7
<1>9. n \in 1 .. 5 /\ Ends(n)
  BY <1>8, Zenon
<1>10. n = m + 1
  <2> HIDE DEF n
  <2>1. ~ (n < m + 1)
    BY <1>3, <1>6, <1>9
  <2>2. ~ (m + 1 < n)
    BY <1>3, <1>7, <1>9
  <2> QED BY <1>3, <1>9, <2>1, <2>2
<1>11. POPString(id) = SubSeq(s, 1, m)
  <2>1. POPString(id) = SubSeq(s, 1, n - 1)
    BY Zenon DEF POPString, s
  <2> HIDE DEF n
  <2>2. n - 1 = m
    BY <1>3, <1>10
  <2> QED BY <2>1, <2>2
<1>12. SubSeq(s, 1, m) = SubSeq(code, 1, m)
  <2>1. /\ SubSeq(s, 1, m) = [i \in 1 .. m |-> s[i]]
        /\ SubSeq(code, 1, m) = [i \in 1 .. m |-> code[i]]
    <3>1. s \in Seq(Int \cup {code[i] : i \in 1 .. 4}) /\ Len(s) = 5
      BY DEF s, id, CalculatePOPID
    <3> QED BY <1>1, <1>3, <3>1
  <2> QED BY <1>6, <2>1
<1> QED BY <1>11, <1>12 DEF m, id

LEMMA PackedBack == SteamIDTypeOK => NumbersPack
  BY SteamIDPacks, GameIDPacks, CodeReadsBack DEF SteamIDTypeOK, NumbersPack

(* CSteamID and CGameID (steamclientpublic.h) come back whole from their   *)
(* 64 bits, whatever they hold, and the code of a data center from its     *)
(* number.                                                                 *)
THEOREM PackingCorrect == SteamIDSpec => []NumbersPack
  BY SteamIDTypeCorrect, PackedBack, PTL

(* The last thing made is what its constructor makes of its arguments.     *)
MadeInv ==
    \/ made.how = "otherwise"
    \/ /\ made.how = "Set" /\ made.type \in Int
       /\ steamID = Set(made.account, made.universe, made.type)
    \/ /\ made.how = "Blank"
       /\ \/ steamID = CreateBlankAnonLogon(made.universe)
          \/ steamID = CreateBlankAnonUserLogon(made.universe)
    \/ /\ made.how = "GameID" /\ made.app \in AccountNo
       /\ gameID = GameID(made.app, made.mod, made.type)

LEMMA MadeStep == [SteamIDNext]_idVars /\ MadeInv => MadeInv'
<1> SUFFICES ASSUME [SteamIDNext]_idVars, MadeInv PROVE MadeInv'
  OBVIOUS
<1> USE DEF MadeInv
<1>1. \A t \in Types : t \in Int
  <2>1. \A t \in 0 .. 15 : t \in Int
    OBVIOUS
  <2> QED BY <2>1, SteamIDAssumption
<1>2. Accounts \subseteq AccountNo
  BY SteamIDAssumption, Zenon
<1>3. ASSUME made' = Nothing PROVE MadeInv'
  BY <1>3 DEF Nothing
<1>4. ASSUME NEW a \in Accounts, NEW u, NEW t \in Types, steamID' = Set(a, u, t),
             made' = [how |-> "Set", account |-> a, universe |-> u, type |-> t]
      PROVE  MadeInv'
  BY <1>1, <1>4
<1>5. ASSUME NEW u, made' = [how |-> "Blank", universe |-> u],
             \/ steamID' = CreateBlankAnonLogon(u)
             \/ steamID' = CreateBlankAnonUserLogon(u)
      PROVE  MadeInv'
  BY <1>5
<1>6. ASSUME NEW a \in Accounts, NEW m, NEW t, gameID' = GameID(a, m, t),
             made' = [how |-> "GameID", app |-> a, mod |-> m, type |-> t]
      PROVE  MadeInv'
  BY <1>2, <1>6
<1>7. CASE UNCHANGED idVars
  BY <1>7 DEF idVars
<1>8. CASE MakeSteamID
  BY <1>3, <1>4, <1>5, <1>8, Zenon DEF MakeSteamID, SetPart
<1>9. CASE MakeGameID
  BY <1>3, <1>6, <1>9, Zenon DEF MakeGameID
<1> QED BY <1>7, <1>8, <1>9 DEF SteamIDNext

LEMMA SmallInstance == 0 % InstanceBits = 0 /\ 1 % InstanceBits = 1
  BY DEF InstanceBits

(* What Set makes is valid if its arguments are.                           *)
LEMMA SetIsValid ==
    ASSUME NEW a, NEW u, NEW t \in Int
    PROVE  IsValid(Set(a, u, t)) <=>
            /\ u \in 1 .. UniverseMax - 1 /\ t \in 1 .. AccountTypeMax - 1
            /\ a # <<0, 0>> \/ t \notin {Individual, Clan, GameServer}
<1> DEFINE s == Set(a, u, t)
<1>1. /\ s.account = a /\ s.universe = u /\ s.type = t
      /\ s.instance = IF t \in {Clan, GameServer} THEN 0 ELSE 1
  BY SmallInstance DEF Set, InstancedSet
<1> HIDE DEF s
<1>2. /\ t = Individual => s.instance = 1
      /\ t = Clan => s.instance = 0
  BY <1>1 DEF Individual, Clan, GameServer
<1>3. IsValid(s) <=>
        /\ t \in 1 .. AccountTypeMax - 1 /\ u \in 1 .. UniverseMax - 1
        /\ t = Individual => a # <<0, 0>>
        /\ t = Clan => a # <<0, 0>>
        /\ t = GameServer => a # <<0, 0>>
  BY <1>1, <1>2, Zenon DEF IsValid
<1> QED BY <1>3, Zenon DEF s

LEMMA BlankIsValid ==
    ASSUME NEW u, NEW s, \/ s = CreateBlankAnonLogon(u)
                         \/ s = CreateBlankAnonUserLogon(u)
    PROVE  BBlankAnonAccount(s) /\ (IsValid(s) <=> u \in 1 .. UniverseMax - 1)
<1>1. /\ s.account = <<0, 0>> /\ s.instance = 0 /\ s.universe = u
      /\ s.type = AnonGameServer \/ s.type = AnonUser
  BY SmallInstance DEF CreateBlankAnonLogon, CreateBlankAnonUserLogon, InstancedSet
<1>2. BBlankAnonAccount(s)
  BY <1>1 DEF BBlankAnonAccount, BAnonAccount
<1>3. /\ s.type \in 1 .. AccountTypeMax - 1
      /\ s.type # Individual /\ s.type # Clan /\ s.type # GameServer
  BY <1>1 DEF AnonGameServer, AnonUser, AccountTypeMax, Individual, Clan, GameServer
<1> QED BY <1>1, <1>2, <1>3, Zenon DEF IsValid

LEMMA GameIsValid ==
    ASSUME NEW app \in AccountNo, app[1] < 256, NEW m, NEW t \in {App, GameMod}
    PROVE  IsValidGame(GameID(app, m, t)) <=>
            app # <<0, 0>> /\ (t = GameMod => TopBit(m))
<1>1. app = <<app[1], app[2]>> /\ app[1] \in HalfWord /\ app[2] \in HalfWord
  BY PairOfParts, Zenon DEF AccountNo
<1>2. /\ app[1] \in Int /\ 0 <= app[1] /\ app[1] < 256
      /\ app[2] \in Int /\ 0 <= app[2]
  BY <1>1, WordIsInt
<1> DEFINE g == GameID(app, m, t)
<1>3. g.type = t /\ g.mod = m /\ g.app = 65536 * (app[1] % 256) + app[2]
  BY DEF GameID
<1> HIDE DEF g
<1>4. g.app = 0 <=> app = <<0, 0>>
  <2> DEFINE x == app[1]
             y == app[2]
  <2>1. x \in Int /\ 0 <= x /\ x < 256 /\ y \in Int /\ 0 <= y
    BY <1>2
  <2> HIDE DEF x, y
  <2>2. 65536 * (x % 256) + y = 0 <=> x = 0 /\ y = 0
    <3>1. x % 256 = x
      BY <2>1
    <3> QED BY <2>1, <3>1
  <2>3. g.app = 0 <=> x = 0 /\ y = 0
    BY <1>3, <2>2 DEF x, y
  <2> QED BY <1>1, <2>3 DEF x, y
<1>5. IsValidGame(g) <=> g.app # 0 /\ (t = GameMod => TopBit(m))
  BY <1>3 DEF IsValidGame, App, GameMod, Shortcut, P2P
<1> QED BY <1>4, <1>5 DEF g

LEMMA MadeInvImplies == MadeInv => MadeIsValid
<1> SUFFICES ASSUME MadeInv PROVE MadeIsValid
  OBVIOUS
<1>1. CASE made.how = "otherwise"
  BY <1>1 DEF MadeIsValid
<1>2. CASE /\ made.how = "Set" /\ made.type \in Int
           /\ steamID = Set(made.account, made.universe, made.type)
  BY <1>2, SetIsValid DEF MadeIsValid
<1>3. CASE /\ made.how = "Blank"
           /\ \/ steamID = CreateBlankAnonLogon(made.universe)
              \/ steamID = CreateBlankAnonUserLogon(made.universe)
  BY <1>3, BlankIsValid DEF MadeIsValid
<1>4. CASE /\ made.how = "GameID" /\ made.app \in AccountNo
           /\ gameID = GameID(made.app, made.mod, made.type)
  BY <1>4, GameIsValid DEF MadeIsValid
<1> QED BY <1>1, <1>2, <1>3, <1>4 DEF MadeInv

(* Whatever CSteamID::Set is given, it makes an id that IsValid takes      *)
(* exactly if type and universe are known ones and the account has the     *)
(* number its type asks for; so is a blank logon of a known universe, and  *)
(* an App or GameMod of up to 24 bits with a number and, for a GameMod, a  *)
(* mod with the top bit (steamclientpublic.h).                             *)
THEOREM MadeCorrect == SteamIDSpec => []MadeIsValid
<1>1. SteamIDInit => MadeInv
  BY DEF SteamIDInit, MadeInv, Nothing
<1> QED BY <1>1, MadeStep, MadeInvImplies, PTL DEF SteamIDSpec
-----------------------------------------------------------------------------
(* What the getters of an identity read.                                   *)

LEMMA BytesOfWord ==
    ASSUME NEW x \in Byte, NEW y \in Byte
    PROVE  (x + 256 * y) % 256 = x /\ (x + 256 * y) \div 256 = y
<1>1. x \in Int /\ 0 <= x /\ x <= 255 /\ y \in Int /\ 0 <= y /\ y <= 255
  BY ByteIsInt
<1> QED BY <1>1

(* ... and 64 bits come back from a CSteamID.                              *)
LEMMA RawReadsBack ==
    ASSUME NEW w \in Raw
    PROVE  ConvertToUint64(FromUint64(w)) = w
<1> DEFINE s == FromUint64(w)
           q == w[7] % 16
           n == w[5] + 256 * w[6] + 65536 * q
           k == ConvertToUint64(s)
<1>1. /\ w[1] \in Byte /\ w[2] \in Byte /\ w[3] \in Byte /\ w[4] \in Byte
      /\ w[5] \in Byte /\ w[6] \in Byte /\ w[7] \in Byte /\ w[8] \in Byte
  BY LowAccountType
<1>2. /\ s.account[1] = w[3] + 256 * w[4] /\ s.account[2] = w[1] + 256 * w[2]
      /\ s.instance = n /\ s.type = w[7] \div 16 /\ s.universe = w[8]
  BY DEF FromUint64, LowAccount
<1> HIDE DEF s
<1>3. /\ k[1] = s.account[2] % 256 /\ k[2] = s.account[2] \div 256
      /\ k[3] = s.account[1] % 256 /\ k[4] = s.account[1] \div 256
      /\ k[5] = s.instance % 256 /\ k[6] = (s.instance \div 256) % 256
      /\ k[7] = s.instance \div 65536 + 16 * s.type /\ k[8] = s.universe
      /\ k = [i \in 1 .. 8 |-> k[i]]
  BY DEF ConvertToUint64
<1> HIDE DEF k
<1>4. k[1] = w[1] /\ k[2] = w[2] /\ k[3] = w[3] /\ k[4] = w[4]
  BY <1>1, <1>2, <1>3, BytesOfWord
<1>5. k[5] = w[5] /\ k[6] = w[6] /\ k[7] = w[7] /\ k[8] = w[8]
  <2> DEFINE x == w[5]
             y == w[6]
             z == w[7]
  <2>1. /\ x \in Int /\ 0 <= x /\ x <= 255 /\ y \in Int /\ 0 <= y /\ y <= 255
        /\ z \in Int /\ 0 <= z /\ z <= 255
    BY <1>1, ByteIsInt
  <2>2. n = x + 256 * y + 65536 * q /\ q = z % 16
    OBVIOUS
  <2>3. /\ k[5] = n % 256 /\ k[6] = (n \div 256) % 256
        /\ k[7] = n \div 65536 + 16 * (z \div 16) /\ k[8] = w[8]
    BY <1>2, <1>3
  <2> HIDE DEF x, y, z, q, n
  <2>4. q \in Int /\ 0 <= q /\ q <= 15 /\ q + 16 * (z \div 16) = z
    BY <2>1, <2>2
  <2>5. n % 256 = x /\ (n \div 256) % 256 = y /\ n \div 65536 = q
    BY <2>1, <2>2, <2>4
  <2> QED BY <2>3, <2>4, <2>5 DEF x, y, z
<1>6. w = [i \in 1 .. 8 |-> w[i]]
  BY DEF Raw
<1>7. \A i \in 1 .. 8 : k[i] = w[i]
  BY <1>4, <1>5
<1>8. k = w
  BY <1>3, <1>6, <1>7
<1> QED BY <1>8 DEF k, s

(* A string is what stands before the first 0.                             *)
LEMMA StringReadsBack ==
    ASSUME NEW bytes, NEW s \in Strings, NEW m \in Nat, m = Len(s), m + 1 <= Room,
           \A i \in 1 .. m + 1 : bytes[i] = Append(s, 0)[i]
    PROVE  CString(bytes) = [i \in 1 .. m |-> Append(s, 0)[i]]
<1> DEFINE Ends(i) == bytes[i] = 0 /\ \A j \in 1 .. i - 1 : bytes[j] # 0
           n == CHOOSE i \in 1 .. Room : Ends(i)
<1>0. Room \in Nat
  BY IdentityAssumption
<1>1. s \in Seq(1 .. 255)
  BY IdentityAssumption
<1>2. /\ \A i \in 1 .. m : s[i] \in 1 .. 255
      /\ \A i \in 1 .. m : Append(s, 0)[i] = s[i]
      /\ Append(s, 0)[m + 1] = 0
  <2>1. \A i \in 1 .. Len(s) : s[i] \in 1 .. 255
    BY <1>1, LetterOf, Zenon
  <2>2. s \in Seq(Octet) /\ 0 \in Octet
    BY <1>1 DEF Octet
  <2>3. /\ \A i \in 1 .. Len(s) : Append(s, 0)[i] = s[i]
        /\ Append(s, 0)[Len(s) + 1] = 0
    BY <2>2, AppendProperties
  <2> QED BY <2>1, <2>3
<1>3. \A x \in 1 .. 255 : x # 0
  BY LetterIsNotNul
<1>4. \A i \in 1 .. m : bytes[i] # 0 /\ bytes[i] = Append(s, 0)[i]
  <2>1. \A i \in 1 .. m : i \in 1 .. m + 1
    OBVIOUS
  <2> QED BY <1>2, <1>3, <2>1, Zenon
<1>5. bytes[m + 1] = 0
  BY <1>2
<1>6. m + 1 \in 1 .. Room /\ Ends(m + 1)
  BY <1>0, <1>4, <1>5
<1>7. n \in 1 .. Room /\ Ends(n)
  BY <1>6, Zenon
<1>8. CString(bytes) = [i \in 1 .. n - 1 |-> bytes[i]]
  BY Zenon DEF CString
<1>9. n - 1 = m
  <2> HIDE DEF n
  <2>1. ~ (n < m + 1)
    BY <1>0, <1>4, <1>7
  <2>2. ~ (m + 1 < n)
    BY <1>0, <1>5, <1>7
  <2> QED BY <1>0, <1>7, <2>1, <2>2
<1> HIDE DEF n
<1> QED BY <1>4, <1>8, <1>9

(* The octets of 127.0.0.1.                                                *)
LEMMA LoopbackOctets ==
    ASSUME NEW a \in Octet, NEW b \in Octet, NEW c \in Octet, NEW d \in Octet
    PROVE  <<a * 256 + b, c * 256 + d>> = Loopback <=> a = 127 /\ b = 0 /\ c = 0 /\ d = 1
<1>1. ASSUME NEW x \in Octet PROVE x \in Int /\ 0 <= x /\ x <= 255
  BY <1>1 DEF Octet
<1>2. /\ a \in Int /\ 0 <= a /\ a <= 255 /\ b \in Int /\ 0 <= b /\ b <= 255
      /\ c \in Int /\ 0 <= c /\ c <= 255 /\ d \in Int /\ 0 <= d /\ d <= 255
  BY <1>1
<1>3. a * 256 + b = 32512 <=> a = 127 /\ b = 0
  BY <1>2
<1>4. c * 256 + d = 1 <=> c = 0 /\ d = 1
  BY <1>2
<1>5. <<a * 256 + b, c * 256 + d>> = Loopback <=> a * 256 + b = 32512 /\ c * 256 + d = 1
  BY DEF Loopback
<1> QED BY <1>3, <1>4, <1>5

LEMMA SixteenOctets ==
    ASSUME NEW p, NEW q, p = [i \in 1 .. 16 |-> p[i]], q = [i \in 1 .. 16 |-> q[i]],
           \A i \in 1 .. 10 : p[i] = q[i], p[11] = q[11], p[12] = q[12],
           p[13] = q[13], p[14] = q[14], p[15] = q[15], p[16] = q[16]
    PROVE  p = q
<1>1. \A i \in 1 .. 16 : \/ i \in 1 .. 10 \/ i = 11 \/ i = 12 \/ i = 13 \/ i = 14
                         \/ i = 15 \/ i = 16
  OBVIOUS
<1>2. \A i \in 1 .. 16 : p[i] = q[i]
  BY <1>1, Zenon
<1> QED BY <1>2

(* IsLocalHost looks at the 16 bytes only: they are ::1 or 127.0.0.1.      *)
LEMMA LocalHostIs ==
    ASSUME NEW a, NEW ip \in [1 .. 16 -> Octet], a.ip = ip
    PROVE  IsLocalHost(a) <=> ip \in {SetIPv6LocalHost(0).ip, SetIPv4(Loopback, 0).ip}
<1> DEFINE one == SetIPv6LocalHost(0).ip
           four == SetIPv4(Loopback, 0).ip
<1>0. ip = [i \in 1 .. 16 |-> ip[i]] /\ \A i \in 1 .. 16 : ip[i] \in Octet
  OBVIOUS
<1>1. /\ one = [i \in 1 .. 16 |-> one[i]]
      /\ one[16] = 1 /\ \A i \in 1 .. 15 : one[i] = 0
  BY DEF SetIPv6LocalHost
<1>2. /\ four = [i \in 1 .. 16 |-> four[i]]
      /\ \A i \in 1 .. 10 : four[i] = 0
      /\ four[11] = 255 /\ four[12] = 255
      /\ four[13] = OctetsOf(Loopback)[1] /\ four[14] = OctetsOf(Loopback)[2]
      /\ four[15] = OctetsOf(Loopback)[3] /\ four[16] = OctetsOf(Loopback)[4]
  BY DEF SetIPv4
<1>3. /\ OctetsOf(Loopback)[1] = 127 /\ OctetsOf(Loopback)[2] = 0
      /\ OctetsOf(Loopback)[3] = 0 /\ OctetsOf(Loopback)[4] = 1
  BY DEF OctetsOf, Loopback
<1> HIDE DEF one, four
<1>4. (ip[16] = 1 /\ \A i \in 1 .. 15 : ip[i] = 0) <=> ip = one
  <2>1. ASSUME ip[16] = 1, \A i \in 1 .. 15 : ip[i] = 0 PROVE ip = one
    BY <1>0, <1>1, <2>1, SixteenOctets
  <2> QED BY <1>1, <2>1
<1>5. GetIPv4(a) = Loopback <=>
        IsIPv4(a) /\ ip[13] = 127 /\ ip[14] = 0 /\ ip[15] = 0 /\ ip[16] = 1
  <2>1. CASE IsIPv4(a)
    <3>1. GetIPv4(a) = <<ip[13] * 256 + ip[14], ip[15] * 256 + ip[16]>>
      BY <2>1, Zenon DEF GetIPv4
    <3>2. ip[13] \in Octet /\ ip[14] \in Octet /\ ip[15] \in Octet /\ ip[16] \in Octet
      BY <1>0
    <3> HIDE DEF IsIPv4
    <3> QED BY <2>1, <3>1, <3>2, LoopbackOctets
  <2>2. CASE ~ IsIPv4(a)
    <3>1. GetIPv4(a) # Loopback
      BY <2>2, NotMapped DEF Loopback
    <3> QED BY <2>2, <3>1
  <2> QED BY <2>1, <2>2
<1>6. IsIPv4(a) <=> (\A i \in 1 .. 10 : ip[i] = 0) /\ ip[11] = 255 /\ ip[12] = 255
  BY DEF IsIPv4
<1>7. GetIPv4(a) = Loopback <=> ip = four
  <2>1. ASSUME GetIPv4(a) = Loopback PROVE ip = four
    BY <1>0, <1>2, <1>3, <1>5, <1>6, <2>1, SixteenOctets
  <2>2. ASSUME ip = four PROVE GetIPv4(a) = Loopback
    BY <1>2, <1>3, <1>5, <1>6, <2>2
  <2> QED BY <2>1, <2>2
<1> QED BY <1>4, <1>7 DEF IsLocalHost, one, four

LEMMA OctetIsInt ==
    ASSUME NEW b \in Octet
    PROVE  b \in Int /\ 0 <= b /\ b <= 255
  BY DEF Octet

LEMMA IsOctet ==
    ASSUME NEW b \in Int, 0 <= b, b <= 255
    PROVE  b \in Octet
  BY DEF Octet

LEMMA IsHalf ==
    ASSUME NEW h \in Int, 0 <= h, h <= 65535
    PROVE  h \in Half
<1>1. HalfMax \in Int /\ h <= HalfMax
  BY DEF HalfMax
<1> QED BY <1>1 DEF Half

LEMMA HalfBounds ==
    ASSUME NEW h \in Half
    PROVE  h \in Int /\ 0 <= h /\ h <= 65535
<1>1. HalfMax \in Int /\ HalfMax <= 65535
  BY DEF HalfMax
<1> QED BY <1>1 DEF Half

LEMMA OctetsOfHalf ==
    ASSUME NEW h \in Half
    PROVE  h \div 256 \in Octet /\ h % 256 \in Octet
<1>1. h \in Int /\ 0 <= h /\ h <= 65535
  BY HalfBounds
<1>2. /\ h \div 256 \in Int /\ 0 <= h \div 256 /\ h \div 256 <= 255
      /\ h % 256 \in Int /\ 0 <= h % 256 /\ h % 256 <= 255
  BY <1>1
<1> QED BY <1>2, IsOctet

LEMMA SetIPv4Type ==
    ASSUME NEW n \in Uint32, NEW port
    PROVE  SetIPv4(n, port).ip \in [1 .. 16 -> Octet]
<1> DEFINE ip == SetIPv4(n, port).ip
<1>1. n[1] \in Half /\ n[2] \in Half
  BY PairOfParts, Zenon DEF Uint32
<1>2. /\ OctetsOf(n)[1] \in Octet /\ OctetsOf(n)[2] \in Octet
      /\ OctetsOf(n)[3] \in Octet /\ OctetsOf(n)[4] \in Octet
  BY <1>1, OctetsOfHalf DEF OctetsOf
<1>3. /\ ip = [i \in 1 .. 16 |-> ip[i]]
      /\ \A i \in 1 .. 10 : ip[i] = 0
      /\ ip[11] = 255 /\ ip[12] = 255
      /\ ip[13] = OctetsOf(n)[1] /\ ip[14] = OctetsOf(n)[2]
      /\ ip[15] = OctetsOf(n)[3] /\ ip[16] = OctetsOf(n)[4]
  BY DEF SetIPv4
<1>4. 0 \in Octet /\ 255 \in Octet
  BY IsOctet
<1> HIDE DEF ip
<1>5. \A i \in 1 .. 16 : \/ i \in 1 .. 10 \/ i = 11 \/ i = 12 \/ i = 13 \/ i = 14
                         \/ i = 15 \/ i = 16
  OBVIOUS
<1>6. /\ ip[11] \in Octet /\ ip[12] \in Octet /\ ip[13] \in Octet
      /\ ip[14] \in Octet /\ ip[15] \in Octet /\ ip[16] \in Octet
  BY <1>2, <1>3, <1>4
<1>7. ASSUME NEW i \in 1 .. 16 PROVE ip[i] \in Octet
  <2>1. CASE i \in 1 .. 10
    BY <1>3, <1>4, <2>1
  <2>2. CASE i = 11 \/ i = 12 \/ i = 13 \/ i = 14 \/ i = 15 \/ i = 16
    BY <1>6, <2>2
  <2> QED BY <1>5, <2>1, <2>2
<1>8. ip \in [1 .. 16 -> Octet]
  BY <1>3, <1>7
<1> QED BY <1>8 DEF ip

LEMMA GetIPv4Type ==
    ASSUME NEW a, a.ip \in [1 .. 16 -> Octet]
    PROVE  GetIPv4(a) \in Uint32
<1>1. /\ a.ip[13] \in Octet /\ a.ip[14] \in Octet /\ a.ip[15] \in Octet /\ a.ip[16] \in Octet
  OBVIOUS
<1>2. ASSUME NEW x \in Octet, NEW y \in Octet PROVE x * 256 + y \in Half
  <2>1. x * 256 + y \in Int /\ 0 <= x * 256 + y /\ x * 256 + y <= 65535
    BY OctetIsInt
  <2> QED BY <2>1, IsHalf
<1>3. <<a.ip[13] * 256 + a.ip[14], a.ip[15] * 256 + a.ip[16]>> \in Uint32
  <2>1. a.ip[13] * 256 + a.ip[14] \in Half /\ a.ip[15] * 256 + a.ip[16] \in Half
    BY <1>1, <1>2
  <2> QED BY <2>1, HalvesMakeNumber
<1>4. <<0, 0>> \in Uint32
  BY IsHalf DEF Uint32
<1> QED BY <1>3, <1>4, Zenon DEF GetIPv4

(* What an identity may be meant to hold.                                  *)
Value(type, size, data) == [type |-> type, size |-> size, data |-> data]

IsValue(v) ==
    \/ v = NoValue
    \/ \E w \in Raw : v = Value("SteamID", 8, w) \/ v = Value("SonyPSN", 8, w)
    \/ \E a : v = Value("IPAddress", 18, AddrBytes(a)) /\ a.ip \in [1 .. 16 -> Octet]
    \/ \E s \in Strings : /\ Len(s) + 1 <= Room
                          /\ \/ v = Value("GenericString", Len(s) + 1, Append(s, 0))
                             \/ v = Value("XboxPairwiseID", Len(s) + 1, Append(s, 0))
    \/ \E b \in Blobs : v = Value("GenericBytes", Len(b), b)

LEMMA SettersMakeValues ==
    ASSUME NEW v \in Setters, v.fits
    PROVE  IsValue([type |-> v.type, size |-> v.size, data |-> v.data])
<1> DEFINE r == [type |-> v.type, size |-> v.size, data |-> v.data]
<1>1. ASSUME NEW a, a.ip \in [1 .. 16 -> Octet], v = SetIPAddr(a)
      PROVE  IsValue(r)
  <2>1. r = Value("IPAddress", 18, AddrBytes(a))
    BY <1>1 DEF SetIPAddr, Always, Value
  <2> HIDE DEF r
  <2> QED BY <1>1, <2>1, Zenon DEF IsValue
<1>2. ASSUME NEW w \in RawIDs, v = SetSteamID64(w) \/ v = SetPSNID(w)
      PROVE  IsValue(r)
  <2>1. r = Value("SteamID", 8, w) \/ r = Value("SonyPSN", 8, w)
    BY <1>2 DEF SetSteamID64, SetPSNID, Always, Value
  <2>2. w \in Raw
    BY SteamIDAssumption
  <2> HIDE DEF r
  <2> QED BY <2>1, <2>2, Zenon DEF IsValue
<1>3. ASSUME NEW s \in Strings, v = SetGenericString(s) \/ v = SetXboxPairwiseID(s)
      PROVE  IsValue(r)
  <2>1. \/ r = Value("GenericString", Len(s) + 1, Append(s, 0))
        \/ r = Value("XboxPairwiseID", Len(s) + 1, Append(s, 0))
    <3>1. /\ v.size = Len(s) + 1 /\ v.data = Append(s, 0)
          /\ v.type = "GenericString" \/ v.type = "XboxPairwiseID"
      BY <1>3 DEF SetGenericString, SetXboxPairwiseID
    <3> QED BY <3>1, Zenon DEF Value
  <2>2. Len(s) + 1 <= Room
    <3>1. v.size <= Room
      BY SettersAreSized DEF Sized
    <3>2. v.size = Len(s) + 1
      BY <1>3 DEF SetGenericString, SetXboxPairwiseID
    <3> QED BY <3>1, <3>2
  <2> HIDE DEF r
  <2> QED BY <2>1, <2>2, Zenon DEF IsValue
<1>4. ASSUME NEW b \in Blobs, v = SetGenericBytes(b)
      PROVE  IsValue(r)
  <2>1. r = Value("GenericBytes", Len(b), b)
    BY <1>4 DEF SetGenericBytes, Value
  <2> HIDE DEF r
  <2> QED BY <2>1, Zenon DEF IsValue
<1>5. SetIPv6LocalHost(0).ip \in [1 .. 16 -> Octet]
  <2>1. 0 \in Octet /\ 1 \in Octet
    BY IsOctet
  <2> QED BY <2>1 DEF SetIPv6LocalHost
<1>6. ASSUME NEW a \in Addrs PROVE a.ip \in [1 .. 16 -> Octet]
  <2>1. a \in IPAddr
    BY IdentityAssumption
  <2> QED BY <2>1 DEF IPAddr
<1>7. ASSUME NEW a \in Addrs PROVE SetIPv4(GetIPv4(a), a.port).ip \in [1 .. 16 -> Octet]
  BY <1>6, GetIPv4Type, SetIPv4Type
<1>8. \/ v = SetIPAddr(SetIPv6LocalHost(0))
      \/ \E a \in Addrs : v = SetIPAddr(a) \/ v = SetIPAddr(SetIPv4(GetIPv4(a), a.port))
      \/ \E w \in RawIDs : v = SetSteamID64(w) \/ v = SetPSNID(w)
      \/ \E s \in Strings : v = SetGenericString(s) \/ v = SetXboxPairwiseID(s)
      \/ \E b \in Blobs : v = SetGenericBytes(b)
  BY Zenon DEF Setters, SetLocalHost, SetIPv4Addr
<1> HIDE DEF r
<1>9. IsValue(r)
  BY <1>1, <1>2, <1>3, <1>4, <1>5, <1>6, <1>7, <1>8, Zenon
<1> QED BY <1>9 DEF r

ValuesInv ==
    /\ meant = [n \in Names |-> meant[n]]
    /\ \A n \in Names : IsValue(meant[n])

LEMMA ValuesStep == ValuesInv /\ [IdentityNext]_identityVars => ValuesInv'
<1> SUFFICES ASSUME ValuesInv, [IdentityNext]_identityVars PROVE ValuesInv'
  OBVIOUS
<1>1. ASSUME NEW n \in Names, NEW v, IsValue(v), meant' = [meant EXCEPT ![n] = v]
      PROVE  ValuesInv'
  BY <1>1 DEF ValuesInv
<1>2. CASE UNCHANGED meant
  BY <1>2 DEF ValuesInv
<1>3. \/ \E n \in Names : meant' = [meant EXCEPT ![n] = NoValue]
      \/ \E n \in Names, v \in Setters :
            /\ v.fits
            /\ meant' = [meant EXCEPT ![n] =
                            [type |-> v.type, size |-> v.size, data |-> v.data]]
      \/ UNCHANGED meant
  BY DEF IdentityNext, identityVars
<1>4. IsValue(NoValue)
  BY DEF IsValue
<1> QED BY <1>1, <1>2, <1>3, <1>4, SettersMakeValues, Zenon

(* The bytes of an identity that is meant to hold a value, read as each    *)
(* getter does.                                                            *)
LEMMA Reads ==
    ASSUME NEW id, NEW v, StandsFor(id, v), IsValue(v)
    PROVE  /\ v.size \in Nat /\ v.size <= Room
           /\ \A i \in 1 .. v.size : id.bytes[i] = v.data[i]
           /\ id.type = v.type /\ id.size = v.size
           /\ v.data = [i \in 1 .. v.size |-> v.data[i]]
           /\ v.type \in {"SteamID", "SonyPSN"} => v.size = 8 /\ v.data \in Raw
           /\ v.type = "IPAddress" =>
                v.size = 18 /\ [i \in 1 .. 16 |-> v.data[i]] \in [1 .. 16 -> Octet]
           /\ v.type \in {"GenericString", "XboxPairwiseID"} =>
                \E s \in Strings : v.size = Len(s) + 1 /\ v.data = Append(s, 0)
<1>1. /\ v.size \in Nat /\ v.size <= Room
      /\ \A i \in 1 .. v.size : id.bytes[i] = v.data[i]
      /\ id.type = v.type /\ id.size = v.size
      /\ v.data = [i \in 1 .. v.size |-> v.data[i]]
  BY DEF StandsFor, Sized
<1>2. CASE v = NoValue
  <2>1. v.type = "Invalid"
    BY <1>2 DEF NoValue
  <2> QED BY <1>1, <2>1
<1>3. ASSUME NEW w \in Raw, v = Value("SteamID", 8, w) \/ v = Value("SonyPSN", 8, w)
      PROVE  v.type \in {"SteamID", "SonyPSN"} /\ v.size = 8 /\ v.data \in Raw
  BY <1>3 DEF Value
<1>4. ASSUME NEW a, v = Value("IPAddress", 18, AddrBytes(a)), a.ip \in [1 .. 16 -> Octet]
      PROVE  /\ v.type = "IPAddress" /\ v.size = 18
             /\ [i \in 1 .. 16 |-> v.data[i]] \in [1 .. 16 -> Octet]
  <2>1. v.type = "IPAddress" /\ v.size = 18 /\ v.data = AddrBytes(a)
    BY <1>4 DEF Value
  <2>2. \A i \in 1 .. 16 : AddrBytes(a)[i] = a.ip[i]
    BY DEF AddrBytes
  <2>3. \A i \in 1 .. 16 : a.ip[i] \in Octet
    BY <1>4
  <2> QED BY <2>1, <2>2, <2>3
<1>5. ASSUME NEW s \in Strings, \/ v = Value("GenericString", Len(s) + 1, Append(s, 0))
                                \/ v = Value("XboxPairwiseID", Len(s) + 1, Append(s, 0))
      PROVE  /\ v.type \in {"GenericString", "XboxPairwiseID"}
             /\ v.size = Len(s) + 1 /\ v.data = Append(s, 0)
  BY <1>5 DEF Value
<1>6. ASSUME NEW b \in Blobs, v = Value("GenericBytes", Len(b), b)
      PROVE  v.type = "GenericBytes"
  BY <1>6 DEF Value
<1>7. \/ v = NoValue
      \/ v.type \in {"SteamID", "SonyPSN"} /\ v.size = 8 /\ v.data \in Raw
      \/ /\ v.type = "IPAddress" /\ v.size = 18
         /\ [i \in 1 .. 16 |-> v.data[i]] \in [1 .. 16 -> Octet]
      \/ /\ v.type \in {"GenericString", "XboxPairwiseID"}
         /\ \E s \in Strings : v.size = Len(s) + 1 /\ v.data = Append(s, 0)
      \/ v.type = "GenericBytes"
  BY <1>3, <1>4, <1>5, <1>6, Zenon DEF IsValue
<1>8. CASE \/ v.type \in {"SteamID", "SonyPSN"} /\ v.size = 8 /\ v.data \in Raw
           \/ /\ v.type = "IPAddress" /\ v.size = 18
              /\ [i \in 1 .. 16 |-> v.data[i]] \in [1 .. 16 -> Octet]
           \/ /\ v.type \in {"GenericString", "XboxPairwiseID"}
              /\ \E s \in Strings : v.size = Len(s) + 1 /\ v.data = Append(s, 0)
           \/ v.type = "GenericBytes"
  BY <1>1, <1>8
<1> QED BY <1>2, <1>7, <1>8

LEMMA EightBytes ==
    ASSUME NEW id, NEW v, StandsFor(id, v), IsValue(v), v.type \in {"SteamID", "SonyPSN"}
    PROVE  [i \in 1 .. 8 |-> id.bytes[i]] = v.data
<1>1. v.size = 8 /\ v.data = [i \in 1 .. 8 |-> v.data[i]]
  BY Reads
<1>2. \A i \in 1 .. 8 : id.bytes[i] = v.data[i]
  BY <1>1, Zenon DEF StandsFor
<1> QED BY <1>1, <1>2

LEMMA StringBack ==
    ASSUME NEW id, NEW v, StandsFor(id, v), IsValue(v),
           v.type \in {"GenericString", "XboxPairwiseID"}
    PROVE  CString(id.bytes) = [i \in 1 .. v.size - 1 |-> v.data[i]]
<1>1. PICK s \in Strings : v.size = Len(s) + 1 /\ v.data = Append(s, 0)
  BY Reads
<1>2. Len(s) \in Nat /\ Len(s) + 1 <= Room
  BY <1>1, StringBytes, Reads
<1>3. \A i \in 1 .. Len(s) + 1 : id.bytes[i] = Append(s, 0)[i]
  BY <1>1, Reads
<1>4. CString(id.bytes) = [i \in 1 .. Len(s) |-> Append(s, 0)[i]]
  BY <1>2, <1>3, StringReadsBack
<1>5. v.size - 1 = Len(s)
  BY <1>1, <1>2
<1> QED BY <1>1, <1>4, <1>5

LEMMA SixteenBytes ==
    ASSUME NEW id, NEW v, StandsFor(id, v), IsValue(v), v.type = "IPAddress"
    PROVE  AddrOf(id).ip = [i \in 1 .. 16 |-> v.data[i]]
<1>0. v.size = 18
  BY Reads
<1>1. \A i \in 1 .. 18 : id.bytes[i] = v.data[i]
  BY <1>0, Zenon DEF StandsFor
<1>2. \A i \in 1 .. 16 : i \in 1 .. 18
  OBVIOUS
<1> QED BY <1>1, <1>2 DEF AddrOf

LEMMA ReadsBack ==
    ASSUME NEW id, NEW v, StandsFor(id, v), IsValue(v)
    PROVE  LET Text == [i \in 1 .. v.size - 1 |-> v.data[i]]
               IP == [i \in 1 .. 16 |-> v.data[i]]
               Or(type, value, null) == IF v.type = type THEN value ELSE null
           IN  /\ GetSteamID64(id) = Or("SteamID", v.data, ZeroID)
               /\ SetSteamID(GetSteamID(id)).data = GetSteamID64(id)
               /\ GetPSNID(id) = Or("SonyPSN", v.data, ZeroID)
               /\ GetGenericString(id) = Or("GenericString", Text, Null)
               /\ GetXboxPairwiseID(id) = Or("XboxPairwiseID", Text, Null)
               /\ GetGenericBytes(id) = Or("GenericBytes", v.data, Null)
               /\ IdentityIsLocalHost(id) <=>
                   /\ v.type = "IPAddress"
                   /\ IP \in {SetIPv6LocalHost(0).ip, SetIPv4(Loopback, 0).ip}
<1>0. id.type = v.type /\ id.size = v.size
  BY Reads
<1>1. GetSteamID64(id) = IF v.type = "SteamID" THEN v.data ELSE ZeroID
  BY <1>0, EightBytes DEF GetSteamID64
<1>2. SetSteamID(GetSteamID(id)).data = GetSteamID64(id)
  <2>1. ZeroID \in Raw
    BY IsByte DEF ZeroID, Raw
  <2>2. GetSteamID64(id) \in Raw
    BY <1>1, <2>1, Reads
  <2>3. SetSteamID(GetSteamID(id)).data = ConvertToUint64(FromUint64(GetSteamID64(id)))
    BY Zenon DEF SetSteamID, SetSteamID64, Always, GetSteamID
  <2> QED BY <2>2, <2>3, RawReadsBack
<1>3. GetPSNID(id) = IF v.type = "SonyPSN" THEN v.data ELSE ZeroID
  BY <1>0, EightBytes DEF GetPSNID
<1>4. GetGenericString(id) = IF v.type = "GenericString"
                             THEN [i \in 1 .. v.size - 1 |-> v.data[i]] ELSE Null
  BY <1>0, StringBack DEF GetGenericString
<1>5. GetXboxPairwiseID(id) = IF v.type = "XboxPairwiseID"
                              THEN [i \in 1 .. v.size - 1 |-> v.data[i]] ELSE Null
  BY <1>0, StringBack DEF GetXboxPairwiseID
<1>6. GetGenericBytes(id) = IF v.type = "GenericBytes" THEN v.data ELSE Null
  <2>1. v.data = [i \in 1 .. v.size |-> v.data[i]]
    BY Reads
  <2>2. \A i \in 1 .. v.size : id.bytes[i] = v.data[i]
    BY DEF StandsFor
  <2>3. [i \in 1 .. v.size |-> id.bytes[i]] = v.data
    BY <2>1, <2>2
  <2> QED BY <1>0, <2>3 DEF GetGenericBytes
<1>7. IdentityIsLocalHost(id) <=>
        /\ v.type = "IPAddress"
        /\ [i \in 1 .. 16 |-> v.data[i]] \in {SetIPv6LocalHost(0).ip, SetIPv4(Loopback, 0).ip}
  <2>1. CASE v.type = "IPAddress"
    <3> DEFINE ip == [i \in 1 .. 16 |-> v.data[i]]
    <3>1. AddrOf(id).ip = ip /\ ip \in [1 .. 16 -> Octet]
      <4>1. ip \in [1 .. 16 -> Octet]
        BY <2>1, Reads
      <4> QED BY <2>1, <4>1, SixteenBytes
    <3> HIDE DEF ip
    <3>2. IsLocalHost(AddrOf(id)) <=> ip \in {SetIPv6LocalHost(0).ip, SetIPv4(Loopback, 0).ip}
      BY <3>1, LocalHostIs
    <3> QED BY <1>0, <2>1, <3>2 DEF IdentityIsLocalHost, ip
  <2>2. CASE v.type # "IPAddress"
    BY <1>0, <2>2 DEF IdentityIsLocalHost
  <2> QED BY <2>1, <2>2
<1> QED BY <1>1, <1>2, <1>3, <1>4, <1>5, <1>6, <1>7

(* Every getter of SteamNetworkingIdentity (steamnetworkingtypes.h) gives  *)
(* back what was last set, or the null of its kind, for all values and any *)
(* number of setters before, whether they fitted or not.                   *)
THEOREM GettersCorrect == IdentitySpec => []GettersReadBack
<1>1. IdentityInit => IdInv /\ ValuesInv
  <2> SUFFICES ASSUME IdentityInit PROVE IdInv /\ ValuesInv
    OBVIOUS
  <2>1. \A n \in Names : identity[n] = Blank /\ meant[n] = NoValue
    BY DEF IdentityInit
  <2> QED BY <2>1, BlankStandsForNothing DEF IdentityInit, IdInv, ValuesInv, IsValue
<1>2. IdInv /\ ValuesInv /\ [IdentityNext]_identityVars => IdInv' /\ ValuesInv'
  BY IdentityStep, ValuesStep
<1>3. IdInv /\ ValuesInv => GettersReadBack
  BY ReadsBack DEF IdInv, ValuesInv, GettersReadBack
<1> QED BY <1>1, <1>2, <1>3, PTL DEF IdentitySpec
-----------------------------------------------------------------------------
(* Texts.                                                                  *)

(* The bits of half a word, and four of them.                              *)
Bit(n, w) == (n \div w) % 2

Nibble(n, w) == Bit(n, w) + 2 * Bit(n, 2 * w) + 4 * Bit(n, 4 * w) + 8 * Bit(n, 8 * w)

LEMMA BitIs ==
    ASSUME NEW n \in Int, NEW w \in Nat \ {0}
    PROVE  Bit(n, w) \in Int /\ (Bit(n, w) = 0 \/ Bit(n, w) = 1)
  BY DEF Bit

LEMMA NibbleIsInt ==
    ASSUME NEW n \in Int, NEW w \in Nat \ {0}
    PROVE  Nibble(n, w) \in Int
<1>1. /\ Bit(n, w) \in Int /\ Bit(n, 2 * w) \in Int
      /\ Bit(n, 4 * w) \in Int /\ Bit(n, 8 * w) \in Int
  BY BitIs
<1> QED BY <1>1 DEF Nibble

LEMMA HalfInNibbles ==
    ASSUME NEW n \in Int, 0 <= n, n <= 65535
    PROVE  n = Nibble(n, 1) + 16 * Nibble(n, 16) + 256 * Nibble(n, 256)
                + 4096 * Nibble(n, 4096)
<1> DEFINE q(w) == n \div w
<1>1. q(1) = n /\ q(65536) = 0
  OBVIOUS
<1>2. q(1) = Nibble(n, 1) + 16 * q(16) /\ q(16) \in Int
  <2>1. q(1) = 2 * q(2) + Bit(n, 1)
    BY DEF Bit
  <2>2. q(2) = 2 * q(4) + Bit(n, 2)
    BY DEF Bit
  <2>3. q(4) = 2 * q(8) + Bit(n, 4)
    BY DEF Bit
  <2>4. q(8) = 2 * q(16) + Bit(n, 8)
    BY DEF Bit
  <2>5. \A w \in Nat \ {0} : q(w) \in Int /\ Bit(n, w) \in Int
    BY BitIs
  <2>6. /\ q(2) \in Int /\ Bit(n, 1) \in Int
        /\ q(4) \in Int /\ Bit(n, 2) \in Int
        /\ q(8) \in Int /\ Bit(n, 4) \in Int
        /\ q(16) \in Int /\ Bit(n, 8) \in Int
    BY <2>5
  <2> HIDE DEF q
  <2> QED BY <2>1, <2>2, <2>3, <2>4, <2>6 DEF Nibble
<1>3. q(16) = Nibble(n, 16) + 16 * q(256) /\ q(256) \in Int
  <2>1. q(16) = 2 * q(32) + Bit(n, 16)
    BY DEF Bit
  <2>2. q(32) = 2 * q(64) + Bit(n, 32)
    BY DEF Bit
  <2>3. q(64) = 2 * q(128) + Bit(n, 64)
    BY DEF Bit
  <2>4. q(128) = 2 * q(256) + Bit(n, 128)
    BY DEF Bit
  <2>5. \A w \in Nat \ {0} : q(w) \in Int /\ Bit(n, w) \in Int
    BY BitIs
  <2>6. /\ q(32) \in Int /\ Bit(n, 16) \in Int
        /\ q(64) \in Int /\ Bit(n, 32) \in Int
        /\ q(128) \in Int /\ Bit(n, 64) \in Int
        /\ q(256) \in Int /\ Bit(n, 128) \in Int
    BY <2>5
  <2> HIDE DEF q
  <2> QED BY <2>1, <2>2, <2>3, <2>4, <2>6 DEF Nibble
<1>4. q(256) = Nibble(n, 256) + 16 * q(4096) /\ q(4096) \in Int
  <2>1. q(256) = 2 * q(512) + Bit(n, 256)
    BY DEF Bit
  <2>2. q(512) = 2 * q(1024) + Bit(n, 512)
    BY DEF Bit
  <2>3. q(1024) = 2 * q(2048) + Bit(n, 1024)
    BY DEF Bit
  <2>4. q(2048) = 2 * q(4096) + Bit(n, 2048)
    BY DEF Bit
  <2>5. \A w \in Nat \ {0} : q(w) \in Int /\ Bit(n, w) \in Int
    BY BitIs
  <2>6. /\ q(512) \in Int /\ Bit(n, 256) \in Int
        /\ q(1024) \in Int /\ Bit(n, 512) \in Int
        /\ q(2048) \in Int /\ Bit(n, 1024) \in Int
        /\ q(4096) \in Int /\ Bit(n, 2048) \in Int
    BY <2>5
  <2> HIDE DEF q
  <2> QED BY <2>1, <2>2, <2>3, <2>4, <2>6 DEF Nibble
<1>5. q(4096) = Nibble(n, 4096) + 16 * q(65536) /\ q(65536) \in Int
  <2>1. q(4096) = 2 * q(8192) + Bit(n, 4096)
    BY DEF Bit
  <2>2. q(8192) = 2 * q(16384) + Bit(n, 8192)
    BY DEF Bit
  <2>3. q(16384) = 2 * q(32768) + Bit(n, 16384)
    BY DEF Bit
  <2>4. q(32768) = 2 * q(65536) + Bit(n, 32768)
    BY DEF Bit
  <2>5. \A w \in Nat \ {0} : q(w) \in Int /\ Bit(n, w) \in Int
    BY BitIs
  <2>6. /\ q(8192) \in Int /\ Bit(n, 4096) \in Int
        /\ q(16384) \in Int /\ Bit(n, 8192) \in Int
        /\ q(32768) \in Int /\ Bit(n, 16384) \in Int
        /\ q(65536) \in Int /\ Bit(n, 32768) \in Int
    BY <2>5
  <2> HIDE DEF q
  <2> QED BY <2>1, <2>2, <2>3, <2>4, <2>6 DEF Nibble
<1>6. /\ Nibble(n, 1) \in Int /\ Nibble(n, 16) \in Int
      /\ Nibble(n, 256) \in Int /\ Nibble(n, 4096) \in Int
  BY NibbleIsInt
<1> HIDE DEF q
<1> QED BY <1>1, <1>2, <1>3, <1>4, <1>5, <1>6

Weights == {1, 2, 4, 8, 16, 32, 64, 128, 256, 512, 1024, 2048, 4096, 8192,
            16384, 32768}

(* What the operator | leaves of a bit, and of four of them.               *)
OrBit(m, n, w) == IF Bit(m, w) = 1 \/ Bit(n, w) = 1 THEN w ELSE 0

OrNibble(m, n, w) ==
    OrBit(m, n, w) + OrBit(m, n, 2 * w) + OrBit(m, n, 4 * w) + OrBit(m, n, 8 * w)

LEMMA OrBitIs ==
    ASSUME NEW m, NEW n, NEW w \in Nat
    PROVE  OrBit(m, n, w) \in Int /\ 0 <= OrBit(m, n, w) /\ OrBit(m, n, w) <= w
  BY DEF OrBit

LEMMA OrNibbleIs ==
    ASSUME NEW m, NEW n, NEW w \in Nat
    PROVE  /\ OrNibble(m, n, w) \in Int
           /\ 0 <= OrNibble(m, n, w) /\ OrNibble(m, n, w) <= 15 * w
<1>1. \A v \in {w, 2 * w, 4 * w, 8 * w} :
        OrBit(m, n, v) \in Int /\ 0 <= OrBit(m, n, v) /\ OrBit(m, n, v) <= v
  BY OrBitIs
<1> QED BY <1>1 DEF OrNibble

LEMMA HalfOrIs ==
    ASSUME NEW m, NEW n
    PROVE  HalfOr(m, n) = OrNibble(m, n, 1) + OrNibble(m, n, 16) + OrNibble(m, n, 256)
                            + OrNibble(m, n, 4096)
<1> DEFINE b(w) == OrBit(m, n, w)
<1>1. HalfOr(m, n) = b(1) + b(2) + b(4) + b(8) + b(16) + b(32) + b(64) + b(128)
            + b(256) + b(512) + b(1024) + b(2048) + b(4096) + b(8192) + b(16384)
            + b(32768)
  BY DEF HalfOr, OrBit, Bit
<1>2. /\ OrNibble(m, n, 1) = b(1) + b(2) + b(4) + b(8)
      /\ b(1) \in Int /\ b(2) \in Int /\ b(4) \in Int /\ b(8) \in Int
  BY OrBitIs DEF OrNibble
<1>3. /\ OrNibble(m, n, 16) = b(16) + b(32) + b(64) + b(128)
      /\ b(16) \in Int /\ b(32) \in Int /\ b(64) \in Int /\ b(128) \in Int
  BY OrBitIs DEF OrNibble
<1>4. /\ OrNibble(m, n, 256) = b(256) + b(512) + b(1024) + b(2048)
      /\ b(256) \in Int /\ b(512) \in Int /\ b(1024) \in Int /\ b(2048) \in Int
  BY OrBitIs DEF OrNibble
<1>5. /\ OrNibble(m, n, 4096) = b(4096) + b(8192) + b(16384) + b(32768)
      /\ b(4096) \in Int /\ b(8192) \in Int /\ b(16384) \in Int /\ b(32768) \in Int
  BY OrBitIs DEF OrNibble
<1> HIDE DEF b
<1> QED BY <1>1, <1>2, <1>3, <1>4, <1>5

LEMMA OrBitOf ==
    ASSUME NEW m \in Int, NEW n \in Int, NEW w \in Nat \ {0},
           Bit(m, w) = 0 \/ Bit(n, w) = 0
    PROVE  OrBit(m, n, w) = w * (Bit(m, w) + Bit(n, w))
<1>1. Bit(m, w) = 0 \/ Bit(m, w) = 1
  BY BitIs
<1>2. Bit(n, w) = 0 \/ Bit(n, w) = 1
  BY BitIs
<1> QED BY <1>1, <1>2 DEF OrBit

(* The bits of numbers that have none in common add up.                    *)
Adds(m, n, w) ==
    /\ OrBit(m, n, w) = w * (Bit(m, w) + Bit(n, w))
    /\ Bit(m, w) \in Int /\ Bit(n, w) \in Int

LEMMA BitsAdd ==
    ASSUME NEW m \in Int, NEW n \in Int, NEW w \in Nat \ {0},
           Bit(m, w) = 0 \/ Bit(n, w) = 0
    PROVE  Adds(m, n, w)
<1>1. OrBit(m, n, w) = w * (Bit(m, w) + Bit(n, w))
  BY OrBitOf
<1>2. Bit(m, w) \in Int
  BY BitIs
<1>3. Bit(n, w) \in Int
  BY BitIs
<1> QED BY <1>1, <1>2, <1>3 DEF Adds

LEMMA NibblesAdd ==
    ASSUME NEW m \in Int, NEW n \in Int,
           \A w \in Weights : Bit(m, w) = 0 \/ Bit(n, w) = 0
    PROVE  /\ OrNibble(m, n, 1) = Nibble(m, 1) + Nibble(n, 1)
           /\ OrNibble(m, n, 16) = 16 * (Nibble(m, 16) + Nibble(n, 16))
           /\ OrNibble(m, n, 256) = 256 * (Nibble(m, 256) + Nibble(n, 256))
           /\ OrNibble(m, n, 4096) = 4096 * (Nibble(m, 4096) + Nibble(n, 4096))
<1>1. \A w \in Weights : Adds(m, n, w)
  <2>1. Weights \subseteq Nat \ {0}
    BY DEF Weights
  <2> QED BY <2>1, BitsAdd, SMT
<1>2. OrNibble(m, n, 1) = (Nibble(m, 1) + Nibble(n, 1))
  <2>1. Adds(m, n, 1) /\ Adds(m, n, 2) /\ Adds(m, n, 4) /\ Adds(m, n, 8)
    BY <1>1, SMT DEF Weights
  <2> QED BY <2>1 DEF Adds, OrNibble, Nibble
<1>3. OrNibble(m, n, 16) = 16 * (Nibble(m, 16) + Nibble(n, 16))
  <2>1. Adds(m, n, 16) /\ Adds(m, n, 32) /\ Adds(m, n, 64) /\ Adds(m, n, 128)
    BY <1>1, SMT DEF Weights
  <2> QED BY <2>1 DEF Adds, OrNibble, Nibble
<1>4. OrNibble(m, n, 256) = 256 * (Nibble(m, 256) + Nibble(n, 256))
  <2>1. Adds(m, n, 256) /\ Adds(m, n, 512) /\ Adds(m, n, 1024) /\ Adds(m, n, 2048)
    BY <1>1, SMT DEF Weights
  <2> QED BY <2>1 DEF Adds, OrNibble, Nibble
<1>5. OrNibble(m, n, 4096) = 4096 * (Nibble(m, 4096) + Nibble(n, 4096))
  <2>1. Adds(m, n, 4096) /\ Adds(m, n, 8192) /\ Adds(m, n, 16384) /\ Adds(m, n, 32768)
    BY <1>1, SMT DEF Weights
  <2> QED BY <2>1 DEF Adds, OrNibble, Nibble
<1> QED BY <1>2, <1>3, <1>4, <1>5

LEMMA OrAdds ==
    ASSUME NEW m \in Int, 0 <= m, m <= 65535, NEW n \in Int, 0 <= n, n <= 65535,
           \A w \in Weights : Bit(m, w) = 0 \/ Bit(n, w) = 0
    PROVE  HalfOr(m, n) = m + n
<1>1. /\ OrNibble(m, n, 1) = Nibble(m, 1) + Nibble(n, 1)
      /\ OrNibble(m, n, 16) = 16 * (Nibble(m, 16) + Nibble(n, 16))
      /\ OrNibble(m, n, 256) = 256 * (Nibble(m, 256) + Nibble(n, 256))
      /\ OrNibble(m, n, 4096) = 4096 * (Nibble(m, 4096) + Nibble(n, 4096))
  BY NibblesAdd, SMT
<1>6. /\ Nibble(m, 1) \in Int /\ Nibble(m, 16) \in Int
      /\ Nibble(m, 256) \in Int /\ Nibble(m, 4096) \in Int
      /\ Nibble(n, 1) \in Int /\ Nibble(n, 16) \in Int
      /\ Nibble(n, 256) \in Int /\ Nibble(n, 4096) \in Int
  <2>1. \A w \in Weights : Nibble(m, w) \in Int /\ Nibble(n, w) \in Int
    <3>1. Weights \subseteq Nat \ {0}
      BY DEF Weights
    <3> QED BY <3>1, NibbleIsInt, SMT
  <2> QED BY <2>1, SMT DEF Weights
<1>7. /\ m = Nibble(m, 1) + 16 * Nibble(m, 16) + 256 * Nibble(m, 256) + 4096 * Nibble(m, 4096)
      /\ n = Nibble(n, 1) + 16 * Nibble(n, 16) + 256 * Nibble(n, 256) + 4096 * Nibble(n, 4096)
  BY HalfInNibbles, SMT
<1>8. HalfOr(m, n) = OrNibble(m, n, 1) + OrNibble(m, n, 16) + OrNibble(m, n, 256)
                       + OrNibble(m, n, 4096)
  BY HalfOrIs, SMT
<1> QED BY <1>1, <1>6, <1>7, <1>8, SMT

LEMMA WeightsAre ==
    /\ Weights \subseteq Nat \ {0}
    /\ \A w \in Weights : w \in {1, 2, 4, 8, 16, 32, 64, 128}
                            \/ \E q \in {1, 2, 4, 8, 16, 32, 64, 128} : w = 256 * q
  BY SMT DEF Weights

(* An octet has no bit of weight 256, and 256 times an octet none below.   *)
LEMMA LowOctetBits ==
    ASSUME NEW b \in Int, 0 <= b, b <= 255, NEW q \in Nat \ {0}
    PROVE  Bit(b, 256 * q) = 0
<1>1. b \div (256 * q) = 0
  OBVIOUS
<1> QED BY <1>1 DEF Bit

LEMMA HighOctetBits ==
    ASSUME NEW a \in Int, NEW w \in {1, 2, 4, 8, 16, 32, 64, 128}
    PROVE  Bit(a * 256, w) = 0
<1>1. CASE w = 1
  BY <1>1 DEF Bit
<1>2. CASE w = 2
  BY <1>2 DEF Bit
<1>3. CASE w = 4
  BY <1>3 DEF Bit
<1>4. CASE w = 8
  BY <1>4 DEF Bit
<1>5. CASE w = 16
  BY <1>5 DEF Bit
<1>6. CASE w = 32
  BY <1>6 DEF Bit
<1>7. CASE w = 64
  BY <1>7 DEF Bit
<1>8. CASE w = 128
  BY <1>8 DEF Bit
<1> QED BY <1>1, <1>2, <1>3, <1>4, <1>5, <1>6, <1>7, <1>8

LEMMA OctetsOr ==
    ASSUME NEW a \in Int, 0 <= a, a <= 255, NEW b \in Int, 0 <= b, b <= 255
    PROVE  HalfOr(a * 256, b) = a * 256 + b
<1>1. \A w \in Weights : Bit(a * 256, w) = 0 \/ Bit(b, w) = 0
  <2>1. TAKE w \in Weights
  <2>2. CASE w \in {1, 2, 4, 8, 16, 32, 64, 128}
    BY <2>2, HighOctetBits
  <2>3. CASE \E q \in {1, 2, 4, 8, 16, 32, 64, 128} : w = 256 * q
    <3>1. PICK q \in {1, 2, 4, 8, 16, 32, 64, 128} : w = 256 * q
      BY <2>3
    <3>2. q \in Nat \ {0}
      BY <3>1
    <3> QED BY <3>1, <3>2, LowOctetBits
  <2> QED BY <2>2, <2>3, WeightsAre, SMT
<1>2. a * 256 \in Int /\ 0 <= a * 256 /\ a * 256 <= 65535 /\ b <= 65535
  BY SMT
<1> QED BY <1>1, <1>2, OrAdds, SMT

LEMMA NoBits ==
    ASSUME NEW w \in Nat \ {0}
    PROVE  Bit(0, w) = 0
<1>1. 0 \div w = 0
  OBVIOUS
<1> QED BY <1>1 DEF Bit

LEMMA OrNothing ==
    ASSUME NEW n \in Int, 0 <= n, n <= 65535
    PROVE  HalfOr(n, 0) = n /\ HalfOr(0, n) = n
<1>1. \A w \in Weights : Bit(0, w) = 0
  BY WeightsAre, NoBits, SMT
<1>2. HalfOr(n, 0) = n + 0
  BY <1>1, OrAdds, SMT
<1>3. HalfOr(0, n) = 0 + n
  BY <1>1, OrAdds, SMT
<1> QED BY <1>2, <1>3, SMT

LEMMA OrIsHalf ==
    ASSUME NEW m, NEW n
    PROVE  HalfOr(m, n) \in Half
<1> DEFINE g(w) == OrNibble(m, n, w)
<1>1. \A w \in Nat : g(w) \in Int /\ 0 <= g(w) /\ g(w) <= 15 * w
  BY OrNibbleIs
<1>2. HalfOr(m, n) = g(1) + g(16) + g(256) + g(4096)
  BY HalfOrIs, SMT
<1> HIDE DEF g
<1>3. /\ g(1) \in Int /\ 0 <= g(1) /\ g(1) <= 15
      /\ g(16) \in Int /\ 0 <= g(16) /\ g(16) <= 240
      /\ g(256) \in Int /\ 0 <= g(256) /\ g(256) <= 3840
      /\ g(4096) \in Int /\ 0 <= g(4096) /\ g(4096) <= 61440
  <2>1. g(1) \in Int /\ 0 <= g(1) /\ g(1) <= 15 * 1
    BY <1>1, SMT
  <2>2. g(16) \in Int /\ 0 <= g(16) /\ g(16) <= 15 * 16
    BY <1>1, SMT
  <2>3. g(256) \in Int /\ 0 <= g(256) /\ g(256) <= 15 * 256
    BY <1>1, SMT
  <2>4. g(4096) \in Int /\ 0 <= g(4096) /\ g(4096) <= 15 * 4096
    BY <1>1, SMT
  <2> QED BY <2>1, <2>2, <2>3, <2>4, SMT
<1> DEFINE h == HalfOr(m, n)
<1>4. h \in Int /\ 0 <= h /\ h <= 65535
  BY <1>2, <1>3, SMT
<1> HIDE DEF h
<1>5. h \in Half
  BY <1>4, IsHalf, SMT
<1> QED BY <1>5 DEF h

(* The shifts of an octet.                                                 *)
LEMMA ShiftedOctet ==
    ASSUME NEW n \in Int, 0 <= n, n <= 255
    PROVE  /\ Shifted(n, 24) = <<n * 256, 0>> /\ Shifted(n, 16) = <<n, 0>>
           /\ Shifted(n, 8) = <<0, n * 256>> /\ Shifted(n, 0) = <<0, n>>
<1>1. n % 256 = n /\ n % 65536 = n
  BY SMT
<1>2. n \div 256 = 0 /\ n \div 65536 = 0 /\ 0 % 65536 = 0
  BY SMT
<1>3. Shifted(n, 24) = <<(n % 256) * 256, 0>>
  BY SMT DEF Shifted
<1>4. Shifted(n, 16) = <<n % 65536, 0>>
  BY SMT DEF Shifted
<1>5. Shifted(n, 8) = <<(n \div 256) % 65536, (n % 256) * 256>>
  BY SMT DEF Shifted
<1>6. Shifted(n, 0) = <<(n \div 65536) % 65536, n % 65536>>
  BY SMT DEF Shifted
<1> QED BY <1>1, <1>2, <1>3, <1>4, <1>5, <1>6, SMT

LEMMA OctetsParse ==
    ASSUME NEW a \in Int, 0 <= a, a <= 255, NEW b \in Int, 0 <= b, b <= 255,
           NEW c \in Int, 0 <= c, c <= 255, NEW d \in Int, 0 <= d, d <= 255
    PROVE  BitOr(BitOr(Shifted(a, 24), Shifted(b, 16)),
                 BitOr(Shifted(c, 8), Shifted(d, 0))) = ParseIPv4Octets(a, b, c, d)
<1>1. /\ Shifted(a, 24) = <<a * 256, 0>> /\ Shifted(b, 16) = <<b, 0>>
      /\ Shifted(c, 8) = <<0, c * 256>> /\ Shifted(d, 0) = <<0, d>>
  BY ShiftedOctet, SMT
<1>2. HalfOr(0, 0) = 0
  BY OrNothing, SMT
<1>3. BitOr(<<a * 256, 0>>, <<b, 0>>) = <<a * 256 + b, 0>>
  BY <1>2, OctetsOr, SMT DEF BitOr
<1>4. BitOr(<<0, c * 256>>, <<0, d>>) = <<0, c * 256 + d>>
  BY <1>2, OctetsOr, SMT DEF BitOr
<1>5. HalfOr(a * 256 + b, 0) = a * 256 + b
  <2> DEFINE h == a * 256 + b
  <2>1. h \in Int /\ 0 <= h /\ h <= 65535
    BY SMT
  <2> HIDE DEF h
  <2>2. HalfOr(h, 0) = h
    BY <2>1, OrNothing, SMT
  <2> QED BY <2>2 DEF h
<1>6. HalfOr(0, c * 256 + d) = c * 256 + d
  <2> DEFINE h == c * 256 + d
  <2>1. h \in Int /\ 0 <= h /\ h <= 65535
    BY SMT
  <2> HIDE DEF h
  <2>2. HalfOr(0, h) = h
    BY <2>1, OrNothing, SMT
  <2> QED BY <2>2 DEF h
<1>7. BitOr(<<a * 256 + b, 0>>, <<0, c * 256 + d>>)
        = <<HalfOr(a * 256 + b, 0), HalfOr(0, c * 256 + d)>>
  BY SMT DEF BitOr
<1> QED BY <1>1, <1>3, <1>4, <1>5, <1>6, <1>7, SMT DEF ParseIPv4Octets

LEMMA PairIsNumber ==
    ASSUME NEW m, NEW n
    PROVE  BitOr(m, n) \in Uint32
<1>1. HalfOr(m[1], n[1]) \in Half /\ HalfOr(m[2], n[2]) \in Half
  BY OrIsHalf
<1> QED BY <1>1, SMT DEF BitOr, Uint32

LEMMA OctetSegment ==
    ASSUME NEW s \in Segments, s.kind = "octet"
    PROVE  s.value \in Int /\ 0 <= s.value /\ s.value <= 255
<1>1. \/ s \in [kind : {"octet"}, value : Octet]
      \/ s \in [kind : {"number"}, value : -IntMax - 1 .. IntMax]
      \/ s \in [kind : Exceptions, value : {0}]
  BY TextAssumption, SMT
<1>2. s.value \in Octet
  BY <1>1, SMT DEF Exceptions
<1> QED BY <1>2, OctetIsInt, SMT

TextInv == text \in Seq(Segments)

LEMMA TextStep == TextInv /\ [TextNext]_text => TextInv'
<1> SUFFICES ASSUME TextInv, [TextNext]_text PROVE TextInv'
  OBVIOUS
<1>1. CASE TextNext
  <2>1. PICK s \in Segments :
          text' = <<s>> \/ (Len(text) < MaxSegments /\ text' = Append(text, s))
    BY <1>1 DEF TextNext
  <2>2. <<s>> \in Seq(Segments)
    OBVIOUS
  <2>3. Append(text, s) \in Seq(Segments)
    BY AppendProperties, Zenon DEF TextInv
  <2> QED BY <2>1, <2>2, <2>3, Zenon DEF TextInv
<1>2. CASE UNCHANGED text
  BY <1>2 DEF TextInv
<1> QED BY <1>1, <1>2

LEMMA TextParses == TextInv => WellFormedParses
<1> SUFFICES ASSUME TextInv PROVE WellFormedParses
  OBVIOUS
<1>1. ASSUME WellFormed(text)
      PROVE  /\ Throws(text) = {}
             /\ ParseIPv4Address(text) =
                  ParseIPv4Octets(text[1].value, text[2].value,
                                  text[3].value, text[4].value)
  <2>0. Len(text) = 4 /\ \A i \in 1 .. 4 : text[i].kind = "octet"
    BY <1>1, Zenon DEF WellFormed
  <2>1. \A i \in 1 .. 4 : text[i] \in Segments
    <3>1. text \in Seq(Segments) /\ \A i \in 1 .. 4 : i \in 1 .. Len(text)
      BY <2>0, SMT DEF TextInv
    <3> QED BY <3>1, ElementOfSeq, Zenon
  <2>2. /\ text[1] \in Segments /\ text[1].kind = "octet"
        /\ text[2] \in Segments /\ text[2].kind = "octet"
        /\ text[3] \in Segments /\ text[3].kind = "octet"
        /\ text[4] \in Segments /\ text[4].kind = "octet"
    BY <2>0, <2>1, SMT
  <2> DEFINE a == text[1].value
             b == text[2].value
             c == text[3].value
             d == text[4].value
  <2>3. /\ a \in Int /\ 0 <= a /\ a <= 255
        /\ b \in Int /\ 0 <= b /\ b <= 255
        /\ c \in Int /\ 0 <= c /\ c <= 255
        /\ d \in Int /\ 0 <= d /\ d <= 255
    BY <2>2, OctetSegment
  <2>4. ParseIPv4Address(text)
          = BitOr(BitOr(Shifted(a, 24), Shifted(b, 16)),
                  BitOr(Shifted(c, 8), Shifted(d, 0)))
    BY Zenon DEF ParseIPv4Address
  <2> HIDE DEF a, b, c, d
  <2>5. ParseIPv4Address(text) = ParseIPv4Octets(a, b, c, d)
    BY <2>3, <2>4, OctetsParse, SMT
  <2>6. "octet" \notin Exceptions
    BY SMT DEF Exceptions
  <2>7. ~ (Len(text) < 4) /\ {text[i].kind : i \in 1 .. 4} \cap Exceptions = {}
    BY <2>0, <2>6, SMT
  <2>8. Throws(text) = {}
    BY <2>7, Zenon DEF Throws
  <2> QED BY <2>5, <2>8 DEF a, b, c, d
<1>2. ParseIPv4Address(text) \in Uint32
  BY PairIsNumber, Zenon DEF ParseIPv4Address
<1>3. GetIPv4(SetIPv4(ParseIPv4Address(text), 0)) = ParseIPv4Address(text)
  BY <1>2, NumberReadsBack, Zenon
<1> QED BY <1>1, <1>3, Zenon DEF WellFormedParses

(* A text "a.b.c.d" of four numbers from 0 to 255 gives the number that    *)
(* the overload for octets gives, and never throws (CushiNet.cpp 24-27).   *)
THEOREM TextCorrect == TextSpec => []WellFormedParses
<1>1. TextInit => TextInv
  BY SMT DEF TextInit, TextInv
<1> QED BY <1>1, TextStep, TextParses, PTL DEF TextSpec
-----------------------------------------------------------------------------
(* Types.                                                                  *)

(* Addresses keep their type.                                              *)
LEMMA SetIPv4IsAddr ==
    ASSUME NEW n \in Uint32, NEW port \in Half
    PROVE  SetIPv4(n, port) \in IPAddr
<1>1. SetIPv4(n, port).ip \in [1 .. 16 -> Octet]
  BY SetIPv4Type, Zenon
<1> DEFINE ip == SetIPv4(n, port).ip
<1>2. SetIPv4(n, port) = [ip |-> ip, port |-> port]
  BY SMT DEF SetIPv4
<1> HIDE DEF ip
<1>3. [ip |-> ip, port |-> port] \in IPAddr
  <2>1. ip \in [1 .. 16 -> Octet]
    BY <1>1 DEF ip
  <2> QED BY <2>1, Zenon DEF IPAddr
<1> QED BY <1>2, <1>3

LEMMA LocalHostIsAddr ==
    ASSUME NEW port \in Half
    PROVE  SetIPv6LocalHost(port) \in IPAddr
<1>1. 0 \in Octet /\ 1 \in Octet
  BY IsOctet
<1>2. [i \in 1 .. 16 |-> IF i = 16 THEN 1 ELSE 0] \in [1 .. 16 -> Octet]
  BY <1>1
<1> QED BY <1>2, Zenon DEF SetIPv6LocalHost, IPAddr

LEMMA ClearIsAddr == Clear \in IPAddr
<1>1. 0 \in Octet /\ 0 \in Half
  BY IsOctet, IsHalf
<1>2. ZeroIP \in [1 .. 16 -> Octet]
  BY <1>1 DEF ZeroIP
<1> QED BY <1>1, <1>2, Zenon DEF Clear, IPAddr

LEMMA AddressStep == AddressTypeOK /\ [AddressNext]_addressVars => AddressTypeOK'
<1> SUFFICES ASSUME AddressTypeOK, [AddressNext]_addressVars PROVE AddressTypeOK'
  OBVIOUS
<1>1. ASSUME NEW a \in IPAddr, NEW kind \in Kinds, NEW ip, NEW port,
             Becomes(a, kind, ip, port)
      PROVE  AddressTypeOK'
  BY <1>1 DEF Becomes, AddressTypeOK
<1>2. /\ "none" \in Kinds /\ "IPv4" \in Kinds /\ "IPv6" \in Kinds /\ "localhost" \in Kinds
  BY DEF Kinds
<1>3. CASE Becomes(Clear, "none", ZeroIP, 0)
  BY <1>1, <1>2, <1>3, ClearIsAddr, Zenon
<1>4. ASSUME NEW port \in Ports, Becomes(SetIPv6LocalHost(port), "localhost", ZeroIP, port)
      PROVE  AddressTypeOK'
  <2>1. port \in Half
    BY AddressAssumption, Zenon
  <2> QED BY <1>1, <1>2, <1>4, <2>1, LocalHostIsAddr, Zenon
<1>5. ASSUME NEW port \in Ports, NEW n \in IPs, Becomes(SetIPv4(n, port), "IPv4", n, port)
      PROVE  AddressTypeOK'
  <2>1. port \in Half /\ n \in Uint32
    BY AddressAssumption, Zenon
  <2> QED BY <1>1, <1>2, <1>5, <2>1, SetIPv4IsAddr, Zenon
<1>6. ASSUME NEW port \in Ports, NEW ip \in IPv6s, Becomes(SetIPv6(ip, port), "IPv6", ip, port)
      PROVE  AddressTypeOK'
  <2>1. port \in Half /\ ip \in [1 .. 16 -> Octet]
    BY AddressAssumption, Zenon
  <2>2. SetIPv6(ip, port) \in IPAddr
    BY <2>1, Zenon DEF SetIPv6, IPAddr
  <2> QED BY <1>1, <1>2, <1>6, <2>2, Zenon
<1>7. CASE UNCHANGED addressVars
  BY <1>7 DEF addressVars, AddressTypeOK
<1> QED BY <1>3, <1>4, <1>5, <1>6, <1>7, Zenon DEF AddressNext

(* A SteamNetworkingIPAddr holds 16 octets and a port, whatever is set.    *)
THEOREM AddressTypeCorrect == AddressSpec => []AddressTypeOK
<1>1. AddressInit => AddressTypeOK
  BY ClearIsAddr DEF AddressInit, AddressTypeOK, Kinds
<1> QED BY <1>1, AddressStep, PTL DEF AddressSpec

-----------------------------------------------------------------------------
(* What a setter copies into an identity are octets.                       *)
LEMMA AddrBytesAreOctets ==
    ASSUME NEW a \in IPAddr, NEW i \in 1 .. 18
    PROVE  AddrBytes(a)[i] \in Octet
<1>1. a.ip \in [1 .. 16 -> Octet] /\ a.port \in Half
  BY Zenon DEF IPAddr
<1>2. CASE i <= 16
  <2>1. i \in 1 .. 16
    BY <1>2
  <2>2. AddrBytes(a)[i] = a.ip[i]
    BY <1>2 DEF AddrBytes
  <2> QED BY <1>1, <2>1, <2>2
<1>3. a.port \div 256 \in Octet /\ a.port % 256 \in Octet
  BY <1>1, OctetsOfHalf
<1>4. CASE i = 17
  <2>1. AddrBytes(a)[i] = a.port % 256
    BY <1>4 DEF AddrBytes
  <2> QED BY <1>3, <2>1
<1>5. CASE i = 18
  <2>1. AddrBytes(a)[i] = a.port \div 256
    BY <1>5 DEF AddrBytes
  <2> QED BY <1>3, <2>1
<1>6. i <= 16 \/ i = 17 \/ i = 18
  OBVIOUS
<1> QED BY <1>2, <1>4, <1>5, <1>6

Copies(v) ==
    /\ v.type \in IdentityTypes
    /\ \A i \in 1 .. v.size : v.data[i] \in Octet

LEMMA SettersCopyOctets ==
    ASSUME NEW v \in Setters
    PROVE  Copies(v)
<1>1. ASSUME NEW a \in IPAddr, v = SetIPAddr(a)
      PROVE  Copies(v)
  <2>1. v.type = "IPAddress" /\ v.size = 18 /\ v.data = AddrBytes(a)
    BY <1>1 DEF SetIPAddr, Always
  <2> QED BY <2>1, AddrBytesAreOctets DEF Copies, IdentityTypes
<1>2. ASSUME NEW w \in RawIDs, v = SetSteamID64(w) \/ v = SetPSNID(w)
      PROVE  Copies(v)
  <2>1. v.size = 8 /\ v.data = w /\ v.type \in IdentityTypes
    BY <1>2 DEF SetSteamID64, SetPSNID, Always, IdentityTypes
  <2>2. w \in [1 .. 8 -> Octet]
    BY SteamIDAssumption DEF Raw, Byte, Octet
  <2> QED BY <2>1, <2>2 DEF Copies
<1>3. ASSUME NEW s \in Strings, v = SetGenericString(s) \/ v = SetXboxPairwiseID(s)
      PROVE  Copies(v)
  <2>1. v.size = Len(s) + 1 /\ v.data = Append(s, 0) /\ v.type \in IdentityTypes
    BY <1>3 DEF SetGenericString, SetXboxPairwiseID, IdentityTypes
  <2>2. s \in Seq(Octet) /\ 0 \in Octet
    BY IdentityAssumption DEF Octet
  <2>3. Append(s, 0) \in Seq(Octet) /\ Len(Append(s, 0)) = Len(s) + 1
    BY <2>2, AppendProperties
  <2>4. \A i \in 1 .. Len(s) + 1 : Append(s, 0)[i] \in Octet
    BY <2>3, ElementOfSeq
  <2> QED BY <2>1, <2>4, Zenon DEF Copies
<1>4. ASSUME NEW b \in Blobs, v = SetGenericBytes(b)
      PROVE  Copies(v)
  <2>1. v.size = Len(b) /\ v.data = b /\ v.type \in IdentityTypes
    BY <1>4 DEF SetGenericBytes, IdentityTypes
  <2>2. \A i \in 1 .. Len(b) : b[i] \in Octet
    BY IdentityAssumption, ElementOfSeq
  <2> QED BY <2>1, <2>2, Zenon DEF Copies
<1>5. SetIPv6LocalHost(0) \in IPAddr
  <2>1. 0 \in Half
    BY IsHalf
  <2> QED BY <2>1, LocalHostIsAddr, Zenon
<1>6. ASSUME NEW a \in Addrs PROVE a \in IPAddr /\ SetIPv4(GetIPv4(a), a.port) \in IPAddr
  <2>1. a \in IPAddr
    BY IdentityAssumption
  <2>2. a.ip \in [1 .. 16 -> Octet] /\ a.port \in Half
    BY <2>1, Zenon DEF IPAddr
  <2> QED BY <2>1, <2>2, GetIPv4Type, SetIPv4IsAddr
<1>7. \/ v = SetIPAddr(SetIPv6LocalHost(0))
      \/ \E a \in Addrs : v = SetIPAddr(a) \/ v = SetIPAddr(SetIPv4(GetIPv4(a), a.port))
      \/ \E w \in RawIDs : v = SetSteamID64(w) \/ v = SetPSNID(w)
      \/ \E s \in Strings : v = SetGenericString(s) \/ v = SetXboxPairwiseID(s)
      \/ \E b \in Blobs : v = SetGenericBytes(b)
  BY Zenon DEF Setters, SetLocalHost, SetIPv4Addr
<1> QED BY <1>1, <1>2, <1>3, <1>4, <1>5, <1>6, <1>7, Zenon

LEMMA StoredType ==
    ASSUME NEW id \in Identity, NEW v \in Setters, v.fits
    PROVE  Stored(id, v) \in Identity
<1>1. Sized(v) /\ Copies(v)
  BY SettersAreSized, SettersCopyOctets, Zenon
<1>2. v.size \in 0 .. Room /\ v.type \in IdentityTypes
  BY <1>1, IdentityAssumption DEF Sized, Copies
<1>3. ASSUME NEW i \in 1 .. Room
      PROVE  (IF i <= v.size THEN v.data[i] ELSE id.bytes[i]) \in Octet
  <2>1. CASE i <= v.size
    <3>1. i \in 1 .. v.size
      BY <1>2, <2>1, IdentityAssumption
    <3> QED BY <1>1, <2>1, <3>1 DEF Copies
  <2>2. CASE ~ (i <= v.size)
    BY <2>2 DEF Identity
  <2> QED BY <2>1, <2>2
<1>4. [i \in 1 .. Room |-> IF i <= v.size THEN v.data[i] ELSE id.bytes[i]]
        \in [1 .. Room -> Octet]
  BY <1>3
<1> QED BY <1>2, <1>4, Zenon DEF Stored, Identity

LEMMA BlankType == Blank \in Identity
<1>1. 0 \in Octet
  BY IsOctet
<1>2. [i \in 1 .. Room |-> 0] \in [1 .. Room -> Octet] /\ 0 \in 0 .. Room
  BY <1>1, IdentityAssumption
<1>3. "Invalid" \in IdentityTypes
  BY DEF IdentityTypes
<1> QED BY <1>2, <1>3, Zenon DEF Blank, Identity

LEMMA IdentityTypeStep == IdentityTypeOK /\ [IdentityNext]_identityVars => IdentityTypeOK'
<1> SUFFICES ASSUME IdentityTypeOK, [IdentityNext]_identityVars PROVE IdentityTypeOK'
  OBVIOUS
<1>1. ASSUME NEW n \in Names, NEW id \in Identity, identity' = [identity EXCEPT ![n] = id]
      PROVE  IdentityTypeOK'
  BY <1>1 DEF IdentityTypeOK
<1>2. ASSUME NEW n \in Names, NEW v \in Setters PROVE Store(identity[n], v) \in Identity
  <2>1. identity[n] \in Identity
    BY DEF IdentityTypeOK
  <2> QED BY <2>1, StoredType, Zenon DEF Store
<1>3. \/ \E n \in Names : identity' = [identity EXCEPT ![n] = Blank]
      \/ \E n \in Names, v \in Setters :
            identity' = [identity EXCEPT ![n] = Store(identity[n], v)]
      \/ UNCHANGED identity
  BY Zenon DEF IdentityNext, identityVars
<1>4. CASE UNCHANGED identity
  BY <1>4 DEF IdentityTypeOK
<1> QED BY <1>1, <1>2, <1>3, <1>4, BlankType, Zenon

(* No setter writes past the union of a SteamNetworkingIdentity, and       *)
(* m_cbSize never says more than there is, failed setters included.        *)
THEOREM IdentityTypeCorrect == IdentitySpec => []IdentityTypeOK
<1>1. IdentityInit => IdentityTypeOK
  BY BlankType DEF IdentityInit, IdentityTypeOK
<1> QED BY <1>1, IdentityTypeStep, PTL DEF IdentitySpec
-----------------------------------------------------------------------------
(* All together.                                                           *)

(* Every step of the values together is a step of each kind, or leaves it  *)
(* alone.                                                                  *)
LEMMA PartsStep ==
    [ValuesNext]_valuesVars =>
        /\ [AddressNext]_addressVars /\ [SteamIDNext]_idVars
        /\ [IdentityNext]_identityVars /\ [TextNext]_text
        /\ [OptionsNext]_optionVars
<1> SUFFICES ASSUME [ValuesNext]_valuesVars
             PROVE  /\ [AddressNext]_addressVars /\ [SteamIDNext]_idVars
                    /\ [IdentityNext]_identityVars /\ [TextNext]_text
                    /\ [OptionsNext]_optionVars
  OBVIOUS
<1>1. CASE UNCHANGED valuesVars
  BY <1>1 DEF valuesVars
<1>2. CASE /\ AddressNext
           /\ UNCHANGED <<idVars, identityVars, text, optionVars>>
  BY <1>2
<1>3. CASE /\ MakeSteamID \/ MakeGameID
           /\ UNCHANGED <<addressVars, identityVars, text, optionVars>>
  BY <1>3 DEF SteamIDNext
<1>4. CASE /\ IdentityNext
           /\ UNCHANGED <<addressVars, idVars, text, optionVars>>
  BY <1>4
<1>5. CASE /\ TextNext
           /\ UNCHANGED <<addressVars, idVars, identityVars, optionVars>>
  BY <1>5
<1>6. CASE /\ OptionsNext
           /\ UNCHANGED <<addressVars, idVars, identityVars, text>>
  BY <1>6
<1> QED BY <1>1, <1>2, <1>3, <1>4, <1>5, <1>6, Zenon DEF ValuesNext

(* The values together are an implementation of each kind by itself: no    *)
(* object reaches into one of another kind.                                *)
THEOREM ValuesImplementParts ==
    ValuesSpec => /\ AddressSpec /\ SteamIDSpec /\ IdentitySpec
                  /\ TextSpec /\ OptionsSpec
<1>1. ValuesInit => /\ AddressInit /\ SteamIDInit /\ IdentityInit
                    /\ TextInit /\ OptionsInit
  BY DEF ValuesInit
<1> QED BY <1>1, PartsStep, PTL
        DEF ValuesSpec, AddressSpec, SteamIDSpec, IdentitySpec, TextSpec, OptionsSpec

(* Every value keeps its type: ids and game ids the widths of their bit    *)
(* fields, identities the room of their union, addresses 16 octets and a   *)
(* port; and options are set where there is something to set them at.      *)
THEOREM ValuesTypeCorrect == ValuesSpec => []ValuesTypeOK
<1>1. AddressSpec => []AddressTypeOK
  BY AddressTypeCorrect
<1>2. SteamIDSpec => []SteamIDTypeOK
  BY SteamIDTypeCorrect
<1>3. IdentitySpec => []IdentityTypeOK
  BY IdentityTypeCorrect
<1>4. TextSpec => []TextInv
  <2>1. TextInit => TextInv
    BY SMT DEF TextInit, TextInv
  <2> QED BY <2>1, TextStep, PTL DEF TextSpec
<1>5. OptionsSpec => []OptInv
  BY OptionsStart, OptionsStep, PTL DEF OptionsSpec
<1>6. AddressTypeOK /\ SteamIDTypeOK /\ IdentityTypeOK /\ TextInv /\ OptInv
        => ValuesTypeOK
  BY Zenon DEF ValuesTypeOK, TextInv, OptInv
<1> QED BY <1>1, <1>2, <1>3, <1>4, <1>5, <1>6, ValuesImplementParts, PTL

(* What holds of the values of each kind holds of all together, whichever  *)
(* of them a behaviour works on.                                           *)
THEOREM ValuesCorrect ==
    ValuesSpec =>
        /\ [](AddressReadsBack /\ NumbersPack /\ MadeIsValid /\ EqualityIsByValue)
        /\ [](GettersReadBack /\ WellFormedParses /\ CallbackIsOurs)
        /\ KeyNamesAccount
<1>1. AddressSpec => []AddressReadsBack
  BY AddressCorrect
<1>2. SteamIDSpec => []NumbersPack
  BY PackingCorrect
<1>3. SteamIDSpec => []MadeIsValid
  BY MadeCorrect
<1>4. SteamIDSpec => KeyNamesAccount
  BY KeyCorrect
<1>5. IdentitySpec => []EqualityIsByValue
  BY EqualityCorrect
<1>6. IdentitySpec => []GettersReadBack
  BY GettersCorrect
<1>7. TextSpec => []WellFormedParses
  BY TextCorrect
<1>8. OptionsSpec => []CallbackIsOurs
  BY CallbackCorrect
<1> QED BY <1>1, <1>2, <1>3, <1>4, <1>5, <1>6, <1>7, <1>8, ValuesImplementParts, PTL
=============================================================================
