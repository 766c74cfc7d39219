---------------------- MODULE SteamConnectionsProofs -----------------------
(***************************************************************************)
(* Lemmas about the queue of status changes, for the proofs about Server   *)
(* and Client: which changes are posted after GNS posts one more, and      *)
(* after RunCallbacks has taken one.                                       *)
(***************************************************************************)
EXTENDS SteamConnections, SequenceTheorems, TLAPS

(* The members of a sequence, one by one.                                  *)
LEMMA ToSetMembers ==
    ASSUME NEW S, NEW q \in Seq(S)
    PROVE  \A x : x \in ToSet(q) <=> \E i \in 1 .. Len(q) : q[i] = x
<1>1. DOMAIN q = 1 .. Len(q)
  OBVIOUS
<1> QED BY <1>1 DEF ToSet

(* What is posted after GNS posts one change more.                         *)
LEMMA AppendPosts ==
    ASSUME NEW S, NEW q \in Seq(S), NEW e \in S
    PROVE  /\ Append(q, e) \in Seq(S)
           /\ Len(Append(q, e)) = Len(q) + 1
           /\ ToSet(Append(q, e)) = ToSet(q) \cup {e}
<1>1. /\ Append(q, e) \in Seq(S)
      /\ Len(Append(q, e)) = Len(q) + 1
      /\ \A i \in 1 .. Len(q) : Append(q, e)[i] = q[i]
      /\ Append(q, e)[Len(q) + 1] = e
  BY AppendProperties
<1>2. Len(q) \in Nat
  OBVIOUS
<1>3. \A x : (\E i \in 1 .. Len(q) + 1 : Append(q, e)[i] = x)
                 <=> (x = e \/ \E i \in 1 .. Len(q) : q[i] = x)
  BY <1>1, <1>2
<1>4. \A x : x \in ToSet(Append(q, e)) <=> \E i \in 1 .. Len(q) + 1 : Append(q, e)[i] = x
  <2>1. \A x : x \in ToSet(Append(q, e))
                 <=> \E i \in 1 .. Len(Append(q, e)) : Append(q, e)[i] = x
    BY <1>1, ToSetMembers, Zenon
  <2> QED BY <1>1, <2>1, Zenon
<1>5. \A x : x \in ToSet(q) <=> \E i \in 1 .. Len(q) : q[i] = x
  BY ToSetMembers
<1>6. \A x : x \in ToSet(Append(q, e)) <=> x = e \/ x \in ToSet(q)
  BY <1>3, <1>4, <1>5
<1> QED BY <1>1, <1>6

(* What is posted after RunCallbacks has taken the first change.           *)
LEMMA TailUnposts ==
    ASSUME NEW S, NEW q \in Seq(S), Len(q) > 0
    PROVE  /\ Tail(q) \in Seq(S)
           /\ Len(Tail(q)) = Len(q) - 1
           /\ Head(q) \in S
           /\ ToSet(q) = ToSet(Tail(q)) \cup {Head(q)}
<1>1. /\ Tail(q) \in Seq(S) /\ Len(Tail(q)) = Len(q) - 1
      /\ Head(q) = q[1] /\ Head(q) \in S
      /\ \A i \in 1 .. Len(q) - 1 : Tail(q)[i] = q[i + 1]
  BY HeadTailProperties
<1>2. Len(q) \in Nat
  OBVIOUS
<1>3. ASSUME NEW x, NEW i \in 1 .. Len(q), q[i] = x, x # Head(q)
      PROVE  \E j \in 1 .. Len(q) - 1 : Tail(q)[j] = x
  <2>1. i - 1 \in 1 .. Len(q) - 1
    BY <1>1, <1>2, <1>3
  <2>2. Tail(q)[i - 1] = x
    BY <1>1, <1>3, <2>1
  <2> QED BY <2>1, <2>2
<1>4. ASSUME NEW x, NEW j \in 1 .. Len(q) - 1, Tail(q)[j] = x
      PROVE  \E i \in 1 .. Len(q) : q[i] = x
  <2>1. j + 1 \in 1 .. Len(q)
    BY <1>2
  <2> QED BY <1>1, <1>4, <2>1
<1>5. 1 \in 1 .. Len(q)
  BY <1>2
<1>6. \A x : x \in ToSet(Tail(q)) <=> \E j \in 1 .. Len(q) - 1 : Tail(q)[j] = x
  <2>1. \A x : x \in ToSet(Tail(q)) <=> \E j \in 1 .. Len(Tail(q)) : Tail(q)[j] = x
    BY <1>1, ToSetMembers, Zenon
  <2> QED BY <1>1, <2>1, Zenon
<1>7. \A x : x \in ToSet(q) <=> \E i \in 1 .. Len(q) : q[i] = x
  BY ToSetMembers
<1>8. \A x : x \in ToSet(q) <=> x = Head(q) \/ x \in ToSet(Tail(q))
  BY <1>1, <1>3, <1>4, <1>5, <1>6, <1>7
<1> QED BY <1>1, <1>8
(* A change that is not posted yet leaves every change posted once.        *)
LEMMA AppendDistinct ==
    ASSUME NEW S, NEW q \in Seq(S), NEW e \in S,
           IsInjective(q), e \notin ToSet(q)
    PROVE  IsInjective(Append(q, e))
<1>1. /\ Append(q, e) \in Seq(S)
      /\ Len(Append(q, e)) = Len(q) + 1
      /\ \A i \in 1 .. Len(q) : Append(q, e)[i] = q[i]
      /\ Append(q, e)[Len(q) + 1] = e
  BY AppendProperties
<1>2. DOMAIN Append(q, e) = 1 .. Len(q) + 1 /\ DOMAIN q = 1 .. Len(q) /\ Len(q) \in Nat
  BY <1>1
<1>3. \A i, j \in 1 .. Len(q) : q[i] = q[j] => i = j
  BY <1>2 DEF IsInjective
<1>4. \A i \in 1 .. Len(q) : q[i] # e
  BY ToSetMembers
<1>5. \A i, j \in 1 .. Len(q) + 1 : Append(q, e)[i] = Append(q, e)[j] => i = j
  BY <1>1, <1>2, <1>3, <1>4
<1> QED BY <1>2, <1>5 DEF IsInjective

(* What RunCallbacks takes is then no longer posted.                       *)
LEMMA TailDistinct ==
    ASSUME NEW S, NEW q \in Seq(S), Len(q) > 0, IsInjective(q)
    PROVE  IsInjective(Tail(q)) /\ Head(q) \notin ToSet(Tail(q))
<1>1. /\ Tail(q) \in Seq(S) /\ Len(Tail(q)) = Len(q) - 1
      /\ Head(q) = q[1]
      /\ \A i \in 1 .. Len(q) - 1 : Tail(q)[i] = q[i + 1]
  BY HeadTailProperties
<1>2. DOMAIN Tail(q) = 1 .. Len(q) - 1 /\ DOMAIN q = 1 .. Len(q) /\ Len(q) \in Nat
  BY <1>1
<1>3. \A i, j \in 1 .. Len(q) : q[i] = q[j] => i = j
  BY <1>2 DEF IsInjective
<1>4. \A i, j \in 1 .. Len(q) - 1 : Tail(q)[i] = Tail(q)[j] => i = j
  BY <1>1, <1>2, <1>3
<1>5. \A i \in 1 .. Len(q) - 1 : Tail(q)[i] # Head(q)
  BY <1>1, <1>2, <1>3
<1>6. \A x : x \in ToSet(Tail(q)) <=> \E i \in 1 .. Len(q) - 1 : Tail(q)[i] = x
  <2>1. \A x : x \in ToSet(Tail(q)) <=> \E i \in 1 .. Len(Tail(q)) : Tail(q)[i] = x
    BY <1>1, ToSetMembers, Zenon
  <2> QED BY <1>1, <2>1, Zenon
<1> QED BY <1>2, <1>4, <1>5, <1>6 DEF IsInjective
=============================================================================
