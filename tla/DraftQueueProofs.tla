-------------------------- MODULE DraftQueueProofs --------------------------
(***************************************************************************)
(* Proofs about the draft queue.                                           *)
(***************************************************************************)
EXTENDS DraftQueue, FiniteSetTheorems, SequenceTheorems, WellFoundedInduction, TLAPS

-----------------------------------------------------------------------------
(* Orders.  Keep, BaseOrder and Queue are recursive functions; what they    *)
(* compute is shown by induction on their index, over sets of indices.      *)

\* A set of natural numbers has a least element.
LEMMA LeastExists ==
  ASSUME NEW S, S \subseteq Nat, S # {}
  PROVE  \E n \in S : \A m \in S : n <= m
<1> DEFINE R == OpToRel(<, Nat)
<1>1. IsWellFoundedOn(R, Nat)
  BY NatLessThanWellFounded
<1>2. \A a, b \in Nat : <<a, b>> \in R <=> a < b
  BY DEF OpToRel
<1> HIDE DEF R
<1>3. PICK x \in S : \A y \in S : ~ (<<y, x>> \in R)
  BY <1>1, WFMin
<1>4. ASSUME NEW m \in S PROVE x <= m
  <2>1. x \in Nat /\ m \in Nat
    OBVIOUS
  <2>2. ~ (<<m, x>> \in R)
    BY <1>3
  <2>3. ~ (m < x)
    BY <1>2, <2>1, <2>2, Zenon
  <2>4. QED
    BY <2>1, <2>3
<1>5. QED
  BY <1>4

\* A set of positions has a last one.
LEMMA GreatestExists ==
  ASSUME NEW n \in Nat, NEW S, S \subseteq 1..n, S # {}
  PROVE  \E i \in S : \A j \in S : j <= i
<1> DEFINE N == {n - i : i \in S}
<1>1. N \subseteq Nat /\ N # {}
  <2>1. \A i \in S : n - i \in Nat
    OBVIOUS
  <2>2. QED
    BY <2>1
<1>2. PICK k \in N : \A m \in N : k <= m
  <2> HIDE DEF N
  <2>1. QED
    BY <1>1, LeastExists
<1>3. PICK i \in S : n - i = k
  OBVIOUS
<1>4. \A j \in S : n - j \in N
  OBVIOUS
<1> HIDE DEF N
<1>5. ASSUME NEW j \in S PROVE j <= i
  <2>1. k <= n - j
    BY <1>2, <1>4
  <2>2. i \in 1..n /\ j \in 1..n
    OBVIOUS
  <2>3. QED
    BY <1>3, <2>1, <2>2
<1>6. QED
  BY <1>5

\* What holds at the bottom and goes up a step holds up to the top.
LEMMA Upwards ==
  ASSUME NEW n \in Nat, NEW B, 0 \in B, \A i \in 1..n : i - 1 \in B => i \in B
  PROVE  0..n \subseteq B
<1> DEFINE S == (0..n) \ B
<1>1. SUFFICES ASSUME S # {} PROVE FALSE
  OBVIOUS
<1>2. S \subseteq Nat
  OBVIOUS
<1>3. PICK m \in S : \A k \in S : m <= k
  <2> HIDE DEF S
  <2>1. QED
    BY <1>1, <1>2, LeastExists
<1>4. m \in 1..n /\ m - 1 \in 0..n
  OBVIOUS
<1>5. m - 1 \notin S
  <2> HIDE DEF S
  <2>1. QED
    BY <1>3, <1>4
<1>6. QED
  BY <1>4, <1>5

\* Steps that stay in a set can be taken one after the other.
Walks(n, T, x, F) ==
  {g \in [0..n -> T] : g[0] = x /\ \A i \in 1..n : g[i] = F[<<i, g[i - 1]>>]}

LEMMA StepsExist ==
  ASSUME NEW T, NEW n \in Nat, NEW x \in T, NEW F \in [(1..n) \X T -> T]
  PROVE  Walks(n, T, x, F) # {}
<1> DEFINE W(m) == Walks(m, T, x, F)
           B == {m \in 0..n : W(m) # {}}
<1>1. 0 \in B
  <2>1. [i \in 0..0 |-> x] \in W(0)
    BY DEF Walks
  <2>2. QED
    BY <2>1
<1>2. ASSUME NEW i \in 1..n, i - 1 \in B PROVE i \in B
  <2>1. PICK g : g \in W(i - 1)
    BY <1>2
  <2>2. g \in [0..i - 1 -> T] /\ g[0] = x /\ \A j \in 1..i - 1 : g[j] = F[<<j, g[j - 1]>>]
    BY <2>1 DEF Walks
  <2>3. i - 1 \in 0..i - 1 /\ i \in 1..n
    OBVIOUS
  <2> DEFINE h == [j \in 0..i |-> IF j = i THEN F[<<i, g[i - 1]>>] ELSE g[j]]
  <2>4. F[<<i, g[i - 1]>>] \in T
    BY <2>2, <2>3
  <2>5. h \in [0..i -> T]
    BY <2>2, <2>4
  <2>6. h[0] = x
    BY <2>2
  <2>7. ASSUME NEW j \in 1..i PROVE h[j] = F[<<j, h[j - 1]>>]
    <3>1. CASE j = i
      BY <3>1
    <3>2. CASE j # i
      <4>1. j \in 1..i - 1 /\ j - 1 \in 0..i - 1 /\ j \in 0..i /\ j - 1 \in 0..i /\ j - 1 # i
        BY <3>2
      <4>2. h[j] = g[j] /\ h[j - 1] = g[j - 1]
        BY <3>2, <4>1
      <4>3. QED
        BY <2>2, <4>1, <4>2
    <3>3. QED
      BY <3>1, <3>2
  <2> HIDE DEF h
  <2>8. h \in W(i)
    BY <2>5, <2>6, <2>7 DEF Walks
  <2>9. QED
    BY <2>8
<1> HIDE DEF B
<1>3. 0..n \subseteq B
  BY <1>1, <1>2, Upwards
<1>4. n \in B
  BY <1>3
<1>5. W(n) # {}
  BY <1>4 DEF B
<1>6. QED
  BY <1>5

-----------------------------------------------------------------------------
\* What appending, joining and cutting do to the elements.
LEMMA AppendedElements ==
  ASSUME NEW s \in Seq(Cand), NEW c \in Cand
  PROVE  Append(s, c) \in Seq(Cand) /\ Elements(Append(s, c)) = Elements(s) \cup {c}
<1>1. Len(s) \in Nat /\ Append(s, c) \in Seq(Cand) /\ Len(Append(s, c)) = Len(s) + 1
  OBVIOUS
<1>2. \A i \in 1..Len(s) : Append(s, c)[i] = s[i]
  OBVIOUS
<1>3. Append(s, c)[Len(s) + 1] = c
  OBVIOUS
<1>4. DOMAIN s = 1..Len(s) /\ DOMAIN Append(s, c) = 1..Len(s) + 1
  BY <1>1
<1>5. QED
  BY <1>1, <1>2, <1>3, <1>4 DEF Elements

LEMMA JoinedElements ==
  ASSUME NEW s \in Seq(Cand), NEW t \in Seq(Cand)
  PROVE  s \o t \in Seq(Cand) /\ Elements(s \o t) = Elements(s) \cup Elements(t)
<1>1. Len(s) \in Nat /\ Len(t) \in Nat /\ s \o t \in Seq(Cand) /\ Len(s \o t) = Len(s) + Len(t)
  OBVIOUS
<1>2. \A i \in 1..Len(s) : (s \o t)[i] = s[i] /\ i \in 1..Len(s \o t)
  BY <1>1
<1>3. \A i \in 1..Len(t) : (s \o t)[Len(s) + i] = t[i] /\ Len(s) + i \in 1..Len(s \o t)
  BY <1>1
<1>4. DOMAIN s = 1..Len(s) /\ DOMAIN t = 1..Len(t) /\ DOMAIN (s \o t) = 1..Len(s \o t)
  BY <1>1
<1>5. Elements(s) \subseteq Elements(s \o t)
  BY <1>2, <1>4 DEF Elements
<1>6. Elements(t) \subseteq Elements(s \o t)
  BY <1>3, <1>4 DEF Elements
<1>7. ASSUME NEW i \in 1..Len(s \o t) PROVE (s \o t)[i] \in Elements(s) \cup Elements(t)
  <2>1. CASE i <= Len(s)
    BY <1>1, <1>2, <1>4, <2>1 DEF Elements
  <2>2. CASE ~(i <= Len(s))
    <3>1. i - Len(s) \in 1..Len(t) /\ Len(s) + (i - Len(s)) = i
      BY <1>1, <2>2
    <3>2. (s \o t)[i] = t[i - Len(s)]
      BY <1>3, <3>1
    <3>3. QED
      BY <1>4, <3>1, <3>2 DEF Elements
  <2>3. QED
    BY <2>1, <2>2
<1>8. Elements(s \o t) \subseteq Elements(s) \cup Elements(t)
  BY <1>4, <1>7 DEF Elements
<1>9. QED
  BY <1>1, <1>5, <1>6, <1>8

\* Keep keeps the members of a set, and nothing else.
Kept(s, S) ==
  CHOOSE kept : kept = [i \in 0..Len(s) |->
    IF i = 0 THEN <<>> ELSE IF s[i] \in S THEN Append(kept[i - 1], s[i]) ELSE kept[i - 1]]

LEMMA KeptExists ==
  ASSUME NEW s \in Seq(Cand), NEW S
  PROVE  Kept(s, S) = [i \in 0..Len(s) |->
           IF i = 0 THEN <<>>
           ELSE IF s[i] \in S THEN Append(Kept(s, S)[i - 1], s[i]) ELSE Kept(s, S)[i - 1]]
<1> DEFINE n == Len(s)
           T == Seq(Cand)
           F == [p \in (1..n) \X T |-> IF s[p[1]] \in S THEN Append(p[2], s[p[1]]) ELSE p[2]]
<1>1. n \in Nat /\ <<>> \in T /\ \A i \in 1..n : s[i] \in Cand
  OBVIOUS
<1>2. F \in [(1..n) \X T -> T]
  BY <1>1
<1>3. \A i \in 1..n, t \in T : F[<<i, t>>] = IF s[i] \in S THEN Append(t, s[i]) ELSE t
  OBVIOUS
<1> HIDE DEF F, n, T
<1>4. PICK g \in [0..n -> T] : g[0] = <<>> /\ \A i \in 1..n : g[i] = F[<<i, g[i - 1]>>]
  <2>1. n \in Nat /\ <<>> \in T
    BY <1>1
  <2>2. Walks(n, T, <<>>, F) # {}
    BY <1>2, <2>1, StepsExist
  <2>3. QED
    BY <2>2 DEF Walks
<1>5. \A i \in 1..n : i - 1 \in 0..n /\ g[i - 1] \in T
  BY <1>1
<1>6. \A i \in 1..n : g[i] = IF s[i] \in S THEN Append(g[i - 1], s[i]) ELSE g[i - 1]
  BY <1>3, <1>4, <1>5
<1>7. g = [i \in 0..n |-> IF i = 0 THEN <<>> ELSE IF s[i] \in S THEN Append(g[i - 1], s[i]) ELSE g[i - 1]]
  <2> DEFINE h == [i \in 0..n |-> IF i = 0 THEN <<>> ELSE IF s[i] \in S THEN Append(g[i - 1], s[i]) ELSE g[i - 1]]
  <2>1. ASSUME NEW i \in 0..n PROVE g[i] = h[i]
    <3>1. CASE i = 0
      BY <1>4, <3>1
    <3>2. CASE i # 0
      <4>1. i \in 1..n
        BY <1>1, <3>2
      <4>2. QED
        BY <1>6, <3>2, <4>1
    <3>3. QED
      BY <3>1, <3>2
  <2>2. g = [i \in 0..n |-> g[i]] /\ h = [i \in 0..n |-> h[i]]
    OBVIOUS
  <2> HIDE DEF h
  <2>3. g = h
    BY <2>1, <2>2
  <2>4. QED
    BY <2>3 DEF h
<1>8. QED
  BY <1>7 DEF Kept, n

LEMMA KeepFacts ==
  ASSUME NEW s \in Seq(Cand), NEW S
  PROVE  Keep(s, S) \in Seq(Cand) /\ Elements(Keep(s, S)) = Elements(s) \cap S
<1> DEFINE k == Kept(s, S)
           n == Len(s)
<1>1. n \in Nat /\ \A i \in 1..n : s[i] \in Cand
  OBVIOUS
<1>2a. k = [i \in 0..n |-> IF i = 0 THEN <<>> ELSE IF s[i] \in S THEN Append(k[i - 1], s[i]) ELSE k[i - 1]]
  BY KeptExists
<1> HIDE DEF k, n
<1>2. k[0] = <<>> /\ \A i \in 1..n : k[i] = IF s[i] \in S THEN Append(k[i - 1], s[i]) ELSE k[i - 1]
  <2>1. 0 \in 0..n
    BY <1>1
  <2>2. k[0] = <<>>
    BY <1>2a, <2>1, Zenon
  <2>3. ASSUME NEW i \in 1..n
        PROVE  k[i] = IF s[i] \in S THEN Append(k[i - 1], s[i]) ELSE k[i - 1]
    <3>1. i \in 0..n /\ i # 0
      BY <1>1
    <3>2. QED
      BY <1>2a, <3>1, Zenon
  <2>4. QED
    BY <2>2, <2>3
<1> DEFINE B == {i \in 0..n : k[i] \in Seq(Cand) /\ Elements(k[i]) = {s[j] : j \in 1..i} \cap S}
<1>3. 0 \in B
  <2>1. Elements(<<>>) = {} /\ {s[j] : j \in 1..0} = {}
    BY DEF Elements
  <2>2. 0 \in 0..n /\ k[0] \in Seq(Cand) /\ Elements(k[0]) = {s[j] : j \in 1..0} \cap S
    BY <1>1, <1>2, <2>1
  <2>3. QED
    BY <2>2
<1>4. ASSUME NEW i \in 1..n, i - 1 \in B PROVE i \in B
  <2>1. k[i - 1] \in Seq(Cand) /\ Elements(k[i - 1]) = {s[j] : j \in 1..i - 1} \cap S
    BY <1>4
  <2>2. {s[j] : j \in 1..i} = {s[j] : j \in 1..i - 1} \cup {s[i]}
    BY <1>1
  <2>3. s[i] \in Cand
    BY <1>1
  <2>4. CASE s[i] \in S
    <3>1. k[i] = Append(k[i - 1], s[i])
      BY <1>2, <2>4
    <3>2. Elements(Append(k[i - 1], s[i])) = Elements(k[i - 1]) \cup {s[i]}
      BY <2>1, <2>3, AppendedElements
    <3>3. k[i] \in Seq(Cand)
      BY <2>1, <2>3, <3>1
    <3>4. Elements(k[i]) = {s[j] : j \in 1..i} \cap S
      BY <2>1, <2>2, <2>4, <3>1, <3>2
    <3>5. QED
      BY <1>1, <3>3, <3>4
  <2>5. CASE s[i] \notin S
    BY <1>2, <2>1, <2>2, <2>5
  <2>6. QED
    BY <2>4, <2>5
<1> HIDE DEF B
<1>5. n \in B
  <2>1. 0..n \subseteq B
    BY <1>1, <1>3, <1>4, Upwards
  <2>2. QED
    BY <1>1, <2>1
<1>6. Elements(s) = {s[j] : j \in 1..n}
  BY DEF Elements, n
<1>7. Keep(s, S) = k[n]
  BY DEF Keep, Kept, k, n
<1>8. QED
  BY <1>5, <1>6, <1>7 DEF B

LEMMA AppendNewFacts ==
  ASSUME NEW s \in Seq(Cand), NEW t \in Seq(Cand)
  PROVE  AppendNew(s, t) \in Seq(Cand) /\ Elements(AppendNew(s, t)) = Elements(s) \cup Elements(t)
<1> DEFINE k == Keep(t, Cand \ Elements(s))
<1>1. k \in Seq(Cand) /\ Elements(k) = Elements(t) \cap (Cand \ Elements(s))
  BY KeepFacts
<1>2. Elements(t) \subseteq Cand
  BY DEF Elements
<1> HIDE DEF k
<1>3. s \o k \in Seq(Cand) /\ Elements(s \o k) = Elements(s) \cup Elements(k)
  BY <1>1, JoinedElements
<1>4. AppendNew(s, t) = s \o k
  BY DEF AppendNew, k
<1>5. QED
  BY <1>1, <1>2, <1>3, <1>4

\* Some candidates can be listed by rank, and a list by rank has them all.
RankedOrders(R) ==
  {s \in [1..Cardinality(R) -> R] : \A i, j \in DOMAIN s : i < j => Rank[s[i]] < Rank[s[j]]}

LEMMA OneIsFirst ==
  ASSUME NEW R, R \subseteq Cand, R # {}
  PROVE  \E m \in R : \A c \in R \ {m} : Rank[m] < Rank[c]
<1> DEFINE N == {Rank[c] : c \in R}
<1>1. \A c \in R : Rank[c] \in Nat
  BY QueueAssumption
<1>2. N \subseteq Nat /\ N # {}
  BY <1>1
<1>3. PICK n \in N : \A k \in N : n <= k
  <2> HIDE DEF N
  <2>1. QED
    BY <1>2, LeastExists
<1>4. PICK m \in R : Rank[m] = n
  OBVIOUS
<1>5. ASSUME NEW c \in R \ {m} PROVE Rank[m] < Rank[c]
  <2>1. Rank[m] # Rank[c]
    BY QueueAssumption
  <2>2. Rank[m] <= Rank[c]
    BY <1>3, <1>4
  <2>3. Rank[m] \in Nat /\ Rank[c] \in Nat
    BY <1>1
  <2>4. QED
    BY <2>1, <2>2, <2>3
<1>6. QED
  BY <1>5

LEMMA RankedExtension ==
  ASSUME NEW n \in Nat, NEW R, R \subseteq Cand, Cardinality(R) = n + 1,
         NEW m \in R, \A c \in R \ {m} : Rank[m] < Rank[c],
         Cardinality(R \ {m}) = n, NEW s \in RankedOrders(R \ {m})
  PROVE  RankedOrders(R) # {}
<1> DEFINE t == [i \in 1..n + 1 |-> IF i = 1 THEN m ELSE s[i - 1]]
<1>1. s \in [1..n -> R \ {m}] /\ \A i, j \in 1..n : i < j => Rank[s[i]] < Rank[s[j]]
  BY DEF RankedOrders
<1>2. ASSUME NEW i \in 1..n + 1, i # 1
      PROVE  i - 1 \in 1..n /\ t[i] = s[i - 1] /\ t[i] \in R \ {m}
  <2>1. i - 1 \in 1..n /\ t[i] = s[i - 1]
    BY <1>2
  <2> HIDE DEF t
  <2>2. QED
    BY <1>1, <2>1
<1>3. t[1] = m
  OBVIOUS
<1>4. t = [i \in 1..n + 1 |-> t[i]]
  OBVIOUS
<1> HIDE DEF t
<1>5. t \in [1..n + 1 -> R]
  BY <1>2, <1>3, <1>4
<1>6. ASSUME NEW i \in 1..n + 1, NEW j \in 1..n + 1, i < j PROVE Rank[t[i]] < Rank[t[j]]
  <2>1. j # 1 /\ j - 1 \in 1..n
    BY <1>6
  <2>2. CASE i = 1
    BY <1>2, <1>3, <2>1, <2>2
  <2>3. CASE i # 1
    <3>1. i - 1 < j - 1
      BY <1>6
    <3>2. i - 1 \in 1..n
      BY <2>3
    <3>3. Rank[s[i - 1]] < Rank[s[j - 1]]
      BY <1>1, <2>1, <3>1, <3>2
    <3>4. t[i] = s[i - 1] /\ t[j] = s[j - 1]
      BY <1>2, <2>1, <2>3
    <3>5. QED
      BY <3>3, <3>4
  <2>4. QED
    BY <2>2, <2>3
<1>7. DOMAIN t = 1..n + 1
  BY <1>5
<1>8. t \in RankedOrders(R)
  BY <1>5, <1>6, <1>7 DEF RankedOrders
<1>9. QED
  BY <1>8

LEMMA RankedOrderExists ==
  ASSUME NEW R, R \subseteq Cand
  PROVE  RankedOrders(R) # {}
<1> DEFINE Size == Cardinality(Cand)
           B == {n \in 0..Size : \A Q \in SUBSET Cand : Cardinality(Q) = n => RankedOrders(Q) # {}}
<1>1. IsFiniteSet(Cand)
  BY QueueAssumption
<1>2. Size \in Nat /\ \A Q \in SUBSET Cand : IsFiniteSet(Q) /\ Cardinality(Q) \in 0..Size
  <2>1. Size \in Nat
    BY <1>1, FS_CardinalityType
  <2>2. ASSUME NEW Q \in SUBSET Cand PROVE IsFiniteSet(Q) /\ Cardinality(Q) \in 0..Size
    <3>1. IsFiniteSet(Q) /\ Cardinality(Q) <= Size
      BY <1>1, FS_Subset
    <3>2. Cardinality(Q) \in Nat
      BY <3>1, FS_CardinalityType
    <3>3. QED
      BY <2>1, <3>1, <3>2
  <2>3. QED
    BY <2>1, <2>2
<1> HIDE DEF Size
<1>3. 0 \in B
  <2>1. ASSUME NEW Q \in SUBSET Cand, Cardinality(Q) = 0 PROVE RankedOrders(Q) # {}
    <3>1. [i \in 1..0 |-> i] \in [1..Cardinality(Q) -> Q]
      BY <2>1
    <3>2. DOMAIN [i \in 1..0 |-> i] = {}
      OBVIOUS
    <3>3. [i \in 1..0 |-> i] \in RankedOrders(Q)
      BY <3>1, <3>2 DEF RankedOrders
    <3>4. QED
      BY <3>3
  <2>2. 0 \in 0..Size
    BY <1>2
  <2>3. QED
    BY <2>1, <2>2
<1>4. ASSUME NEW n \in 1..Size, n - 1 \in B PROVE n \in B
  <2>1. ASSUME NEW Q \in SUBSET Cand, Cardinality(Q) = n PROVE RankedOrders(Q) # {}
    <3>1. IsFiniteSet(Q)
      BY <1>2
    <3>2. Q # {}
      <4>1. n # 0
        BY <1>2
      <4>2. QED
        BY <2>1, <4>1, FS_EmptySet
    <3>3. PICK m \in Q : \A c \in Q \ {m} : Rank[m] < Rank[c]
      BY <3>2, OneIsFirst
    <3>4. Cardinality(Q \ {m}) = n - 1
      BY <2>1, <3>1, FS_RemoveElement
    <3>5. RankedOrders(Q \ {m}) # {}
      BY <1>4, <3>4
    <3>6. PICK s : s \in RankedOrders(Q \ {m})
      BY <3>5
    <3>7. n - 1 \in Nat /\ (n - 1) + 1 = n
      BY <1>2
    <3>8. QED
      BY <2>1, <3>3, <3>4, <3>6, <3>7, RankedExtension
  <2>2. n \in 0..Size
    BY <1>2
  <2>3. QED
    BY <2>1, <2>2
<1> HIDE DEF B
<1>5. 0..Size \subseteq B
  BY <1>2, <1>3, <1>4, Upwards
<1>6. Cardinality(R) \in B
  BY <1>2, <1>5
<1>7. QED
  BY <1>6 DEF B

LEMMA RankedOrderListsAll ==
  ASSUME NEW R, R \subseteq Cand, NEW s \in RankedOrders(R)
  PROVE  s \in Seq(Cand) /\ Elements(s) = R
<1> DEFINE n == Cardinality(R)
<1>1. IsFiniteSet(R) /\ n \in Nat
  <2>1. IsFiniteSet(R)
    BY QueueAssumption, FS_Subset
  <2>2. QED
    BY <2>1, FS_CardinalityType
<1> HIDE DEF n
<1>2. s \in [1..n -> R] /\ DOMAIN s = 1..n
  BY DEF RankedOrders, n
<1>3. ASSUME NEW i \in 1..n, NEW j \in 1..n, i # j PROVE s[i] # s[j]
  <2>1. Rank[s[i]] \in Nat /\ Rank[s[j]] \in Nat
    BY <1>2, QueueAssumption
  <2>2. i < j \/ j < i
    BY <1>1, <1>3
  <2>3. Rank[s[i]] < Rank[s[j]] \/ Rank[s[j]] < Rank[s[i]]
    BY <1>2, <2>2 DEF RankedOrders
  <2>4. QED
    BY <2>1, <2>3
<1>4. s \in Injection(1..n, R)
  BY <1>2, <1>3 DEF Injection, IsInjective
<1>5. Cardinality(1..n) = n
  BY <1>1, FS_Interval
<1>6. s \in Surjection(1..n, R)
  BY <1>1, <1>4, <1>5, FS_Injection DEF n
<1>7. \A c \in R : \E i \in 1..n : s[i] = c
  BY <1>6 DEF Surjection
<1>8. s \in Seq(Cand)
  BY <1>1, <1>2
<1>9. QED
  BY <1>2, <1>7, <1>8 DEF Elements

\* The lists of the generations, one after the other, have what each of them has.
Joined(G) ==
  CHOOSE f : f = [i \in 0..Len(G) |-> IF i = 0 THEN <<>> ELSE AppendNew(f[i - 1], G[i].listed)]

ListsIn(G) == UNION {Elements(G[i].listed) : i \in DOMAIN G}

Listing(G) == \A i \in 1..Len(G) : G[i].listed \in Seq(Cand)

LEMMA JoinedExists ==
  ASSUME NEW G, Len(G) \in Nat, Listing(G)
  PROVE  /\ Joined(G)[0] = <<>>
         /\ \A i \in 1..Len(G) : Joined(G)[i] = AppendNew(Joined(G)[i - 1], G[i].listed)
<1> DEFINE n == Len(G)
           T == Seq(Cand)
           F == [p \in (1..n) \X T |-> AppendNew(p[2], G[p[1]].listed)]
<1>1. n \in Nat /\ <<>> \in T /\ \A i \in 1..n : G[i].listed \in T
  BY DEF Listing
<1>2. \A i \in 1..n, t \in T : AppendNew(t, G[i].listed) \in T
  BY <1>1, AppendNewFacts
<1>3. F \in [(1..n) \X T -> T]
  BY <1>2
<1>4. \A i \in 1..n, t \in T : F[<<i, t>>] = AppendNew(t, G[i].listed)
  OBVIOUS
<1> HIDE DEF F, n, T
<1>5. PICK g \in [0..n -> T] : g[0] = <<>> /\ \A i \in 1..n : g[i] = F[<<i, g[i - 1]>>]
  <2>1. n \in Nat /\ <<>> \in T
    BY <1>1
  <2>2. Walks(n, T, <<>>, F) # {}
    BY <1>3, <2>1, StepsExist
  <2>3. QED
    BY <2>2 DEF Walks
<1>6. \A i \in 1..n : i - 1 \in 0..n /\ g[i - 1] \in T
  BY <1>1
<1>7. \A i \in 1..n : g[i] = AppendNew(g[i - 1], G[i].listed)
  BY <1>4, <1>5, <1>6
<1>8. g = [i \in 0..n |-> IF i = 0 THEN <<>> ELSE AppendNew(g[i - 1], G[i].listed)]
  <2> DEFINE h == [i \in 0..n |-> IF i = 0 THEN <<>> ELSE AppendNew(g[i - 1], G[i].listed)]
  <2>1. ASSUME NEW i \in 0..n PROVE g[i] = h[i]
    <3>1. CASE i = 0
      BY <1>5, <3>1
    <3>2. CASE i # 0
      <4>1. i \in 1..n
        BY <1>1, <3>2
      <4>2. QED
        BY <1>7, <3>2, <4>1
    <3>3. QED
      BY <3>1, <3>2
  <2>2. g = [i \in 0..n |-> g[i]] /\ h = [i \in 0..n |-> h[i]]
    OBVIOUS
  <2> HIDE DEF h
  <2>3. g = h
    BY <2>1, <2>2
  <2>4. QED
    BY <2>3 DEF h
<1> DEFINE k == Joined(G)
<1>9. k = [i \in 0..n |-> IF i = 0 THEN <<>> ELSE AppendNew(k[i - 1], G[i].listed)]
  BY <1>8 DEF Joined, n
<1> HIDE DEF k
<1>10. k[0] = <<>>
  <2>1. 0 \in 0..n
    BY <1>1
  <2>2. QED
    BY <1>9, <2>1, Zenon
<1>11. ASSUME NEW i \in 1..n PROVE k[i] = AppendNew(k[i - 1], G[i].listed)
  <2>1. i \in 0..n /\ i # 0
    BY <1>1
  <2>2. QED
    BY <1>9, <2>1, Zenon
<1>12. QED
  BY <1>10, <1>11 DEF k, n

LEMMA JoinedFacts ==
  ASSUME NEW G, Len(G) \in Nat, DOMAIN G = 1..Len(G), Listing(G)
  PROVE  Joined(G)[Len(G)] \in Seq(Cand) /\ Elements(Joined(G)[Len(G)]) = ListsIn(G)
<1> DEFINE k == Joined(G)
           n == Len(G)
           U(i) == UNION {Elements(G[j].listed) : j \in 1..i}
           B == {i \in 0..n : k[i] \in Seq(Cand) /\ Elements(k[i]) = U(i)}
<1>1. n \in Nat /\ \A i \in 1..n : G[i].listed \in Seq(Cand)
  BY DEF Listing
<1>2. k[0] = <<>> /\ \A i \in 1..n : k[i] = AppendNew(k[i - 1], G[i].listed)
  BY JoinedExists
<1> HIDE DEF k, n
<1>3. 0 \in B
  <2>1. Elements(<<>>) = {} /\ U(0) = {}
    BY DEF Elements
  <2>2. 0 \in 0..n /\ k[0] \in Seq(Cand) /\ Elements(k[0]) = U(0)
    BY <1>1, <1>2, <2>1
  <2>3. QED
    BY <2>2
<1>4. ASSUME NEW i \in 1..n, i - 1 \in B PROVE i \in B
  <2>1. k[i - 1] \in Seq(Cand) /\ Elements(k[i - 1]) = U(i - 1)
    BY <1>4
  <2>2. G[i].listed \in Seq(Cand)
    BY <1>1
  <2>3. k[i] \in Seq(Cand) /\ Elements(k[i]) = Elements(k[i - 1]) \cup Elements(G[i].listed)
    BY <1>2, <2>1, <2>2, AppendNewFacts
  <2>4. 1..i = 1..i - 1 \cup {i}
    BY <1>1
  <2>5. U(i) = U(i - 1) \cup Elements(G[i].listed)
    BY <2>4
  <2> HIDE DEF U
  <2>6. Elements(k[i]) = U(i)
    BY <2>1, <2>3, <2>5
  <2>7. QED
    BY <1>1, <2>3, <2>6
<1>5. U(n) = ListsIn(G)
  BY DEF ListsIn, n
<1> HIDE DEF B, U
<1>6. n \in B
  <2>1. 0..n \subseteq B
    BY <1>1, <1>3, <1>4, Upwards
  <2>2. QED
    BY <1>1, <2>1
<1>7. k[n] \in Seq(Cand) /\ Elements(k[n]) = U(n)
  BY <1>6 DEF B
<1>8. QED
  BY <1>5, <1>7 DEF k, n

\* The first order has everyone a generation lists, or the recommendations, and the others
\* whose operation is live.
LEMMA BaseOrderFacts ==
  ASSUME gens \in Seq(Generation)
  PROVE  /\ BaseOrder \in Seq(Cand)
         /\ Elements(BaseOrder) = (IF gens = <<>> THEN Elements(Legacy) ELSE ListsIn(gens))
                                  \cup {c \in Cand : IsLive(c)}
<1> DEFINE first == IF gens = <<>> THEN Legacy ELSE Joined(gens)[Len(gens)]
           rest == {c \in Cand : IsLive(c) /\ c \notin Elements(first)}
           tail == CHOOSE s \in [1..Cardinality(rest) -> rest] :
                     \A i, j \in DOMAIN s : i < j => Rank[s[i]] < Rank[s[j]]
<1>1. Len(gens) \in Nat /\ DOMAIN gens = 1..Len(gens) /\ Listing(gens)
  <2>1. \A i \in 1..Len(gens) : gens[i] \in Generation
    OBVIOUS
  <2>2. QED
    BY <2>1 DEF Listing, Generation
<1>2. first \in Seq(Cand) /\ Elements(first) = IF gens = <<>> THEN Elements(Legacy) ELSE ListsIn(gens)
  BY <1>1, JoinedFacts, QueueAssumption
<1> HIDE DEF first
<1>3. rest \subseteq Cand
  OBVIOUS
<1>4. tail \in RankedOrders(rest)
  <2>1. RankedOrders(rest) # {}
    BY <1>3, RankedOrderExists
  <2> HIDE DEF rest
  <2>2. \E s \in [1..Cardinality(rest) -> rest] :
          \A i, j \in DOMAIN s : i < j => Rank[s[i]] < Rank[s[j]]
    BY <2>1 DEF RankedOrders
  <2>3. /\ tail \in [1..Cardinality(rest) -> rest]
        /\ \A i, j \in DOMAIN tail : i < j => Rank[tail[i]] < Rank[tail[j]]
    BY <2>2, Zenon
  <2>4. QED
    BY <2>3, Zenon DEF RankedOrders
<1>5. tail \in Seq(Cand) /\ Elements(tail) = rest
  <2> HIDE DEF rest, tail
  <2>1. QED
    BY <1>3, <1>4, RankedOrderListsAll
<1>6. first \o tail \in Seq(Cand) /\ Elements(first \o tail) = Elements(first) \cup rest
  <2> HIDE DEF rest, tail
  <2>1. QED
    BY <1>2, <1>5, JoinedElements
<1>7. BaseOrder = first \o tail
  BY Zenon DEF BaseOrder, first, Joined
<1> HIDE DEF tail
<1>8. QED
  BY <1>2, <1>6, <1>7

LEMMA CutElements ==
  ASSUME NEW s \in Seq(Cand), NEW at \in 0..Len(s)
  PROVE  /\ SubSeq(s, 1, at) \in Seq(Cand) /\ SubSeq(s, at + 1, Len(s)) \in Seq(Cand)
         /\ Elements(SubSeq(s, 1, at)) \cup Elements(SubSeq(s, at + 1, Len(s))) = Elements(s)
<1> DEFINE u == SubSeq(s, 1, at)
           v == SubSeq(s, at + 1, Len(s))
           n == Len(s)
<1>1. n \in Nat /\ at \in Int /\ 1 \in Int /\ at + 1 \in Int /\ n \in Int /\ at <= n /\ 0 <= at
  OBVIOUS
<1>2. \A i \in 1..n : s[i] \in Cand
  OBVIOUS
<1>3. \A i \in 1..at : s[i] \in Cand
  BY <1>1, <1>2
<1>4. \A i \in at + 1..n : s[i] \in Cand
  BY <1>1, <1>2
<1>5. u \in Seq(Cand) /\ Len(u) = (IF 1 <= at THEN at - 1 + 1 ELSE 0) /\ \A i \in 1..at - 1 + 1 : u[i] = s[1 + i - 1]
  BY <1>1, <1>3, SubSeqProperties
<1>6. /\ v \in Seq(Cand) /\ Len(v) = (IF at + 1 <= n THEN n - (at + 1) + 1 ELSE 0)
      /\ \A i \in 1..n - (at + 1) + 1 : v[i] = s[at + 1 + i - 1]
  BY <1>1, <1>4, SubSeqProperties
<1>7. DOMAIN u = 1..Len(u) /\ DOMAIN v = 1..Len(v) /\ DOMAIN s = 1..n
  BY <1>5, <1>6
<1> HIDE DEF u, v, n
<1>8. Len(u) = at /\ \A i \in 1..at : u[i] = s[i]
  BY <1>1, <1>5
<1>9. Len(v) = n - at /\ \A i \in 1..n - at : v[i] = s[at + i]
  <2>1. Len(v) = n - at /\ n - (at + 1) + 1 = n - at
    BY <1>1, <1>6
  <2>2. ASSUME NEW i \in 1..n - at PROVE v[i] = s[at + i]
    <3>1. at + 1 + i - 1 = at + i
      BY <1>1
    <3>2. i \in 1..n - (at + 1) + 1
      BY <2>1
    <3>3. QED
      BY <1>6, <3>1, <3>2
  <2>3. QED
    BY <2>1, <2>2
<1>10. Elements(u) \subseteq Elements(s)
  BY <1>1, <1>7, <1>8 DEF Elements
<1>11. Elements(v) \subseteq Elements(s)
  <2>1. \A i \in 1..n - at : at + i \in 1..n
    BY <1>1
  <2>2. QED
    BY <1>7, <1>9, <2>1 DEF Elements
<1>12. ASSUME NEW i \in 1..n PROVE s[i] \in Elements(u) \cup Elements(v)
  <2>1. CASE i <= at
    <3>1. i \in 1..at
      BY <2>1
    <3>2. QED
      BY <1>7, <1>8, <3>1 DEF Elements
  <2>2. CASE ~(i <= at)
    <3>1. i - at \in 1..n - at /\ at + (i - at) = i
      BY <1>1, <2>2
    <3>2. v[i - at] = s[i]
      BY <1>9, <3>1
    <3>3. QED
      BY <1>7, <1>9, <3>1, <3>2 DEF Elements
  <2>3. QED
    BY <2>1, <2>2
<1>13. Elements(s) \subseteq Elements(u) \cup Elements(v)
  BY <1>7, <1>12 DEF Elements
<1>14. QED
  BY <1>5, <1>6, <1>10, <1>11, <1>13 DEF u, v, n

\* Moving one candidate changes nothing but the order.
LEMMA MoveToFacts ==
  ASSUME NEW s \in Seq(Cand), NEW c, NEW k \in Nat
  PROVE  MoveTo(s, c, k) \in Seq(Cand) /\ Elements(MoveTo(s, c, k)) = Elements(s)
<1>1. CASE c \notin Elements(s)
  BY <1>1 DEF MoveTo
<1>2. CASE c \in Elements(s)
  <2> DEFINE others == Keep(s, Cand \ {c})
             at == IF k < Len(others) THEN k ELSE Len(others)
             u == SubSeq(others, 1, at)
             v == SubSeq(others, at + 1, Len(others))
  <2>1. others \in Seq(Cand) /\ Elements(others) = Elements(s) \cap (Cand \ {c})
    BY KeepFacts
  <2>2. Elements(s) \subseteq Cand
    BY DEF Elements
  <2> HIDE DEF others
  <2>3. at \in 0..Len(others)
    BY <2>1
  <2>4. u \in Seq(Cand) /\ v \in Seq(Cand) /\ Elements(u) \cup Elements(v) = Elements(others)
    <3> HIDE DEF at
    <3>1. QED
      BY <2>1, <2>3, CutElements
  <2>5. <<c>> \in Seq(Cand) /\ Elements(<<c>>) = {c}
    BY <1>2, <2>2 DEF Elements
  <2> DEFINE w == <<c>>
  <2> HIDE DEF u, v, w
  <2>6. u \o w \in Seq(Cand) /\ Elements(u \o w) = Elements(u) \cup {c}
    <3>1. w \in Seq(Cand) /\ Elements(w) = {c}
      BY <2>5 DEF w
    <3>2. QED
      BY <2>4, <3>1, JoinedElements
  <2>7. (u \o w) \o v \in Seq(Cand) /\ Elements((u \o w) \o v) = Elements(u) \cup {c} \cup Elements(v)
    BY <2>4, <2>6, JoinedElements
  <2>8. MoveTo(s, c, k) = (u \o w) \o v
    BY <1>2 DEF MoveTo, u, v, w, others
  <2>9. Elements(u) \cup {c} \cup Elements(v) = Elements(s)
    BY <1>2, <2>1, <2>2, <2>4
  <2>10. QED
    BY <2>7, <2>8, <2>9
<1>3. QED
  BY <1>1, <1>2

\* The replacements, moved one after the other.
Shuffled(G, x) ==
  CHOOSE f : f = [i \in 0..Len(G) |-> IF i = 0 THEN x ELSE Moved(f[i - 1], G[i])]

Placing(G) == \A i \in 1..Len(G) : G[i].replaced # NoOne => G[i].index \in Nat

LEMMA MovedFacts ==
  ASSUME NEW G, Placing(G), NEW i \in 1..Len(G), NEW s \in Seq(Cand)
  PROVE  Moved(s, G[i]) \in Seq(Cand) /\ Elements(Moved(s, G[i])) = Elements(s)
<1>1. CASE G[i].replaced = NoOne
  BY <1>1 DEF Moved
<1>2. CASE G[i].replaced # NoOne
  <2>1. G[i].index \in Nat
    BY <1>2 DEF Placing
  <2>2. Moved(s, G[i]) = MoveTo(s, G[i].listed[Len(G[i].listed)], G[i].index)
    BY <1>2 DEF Moved
  <2>3. QED
    BY <2>1, <2>2, MoveToFacts
<1>3. QED
  BY <1>1, <1>2

LEMMA ShuffledExists ==
  ASSUME NEW G, Len(G) \in Nat, Placing(G), NEW x \in Seq(Cand)
  PROVE  /\ Shuffled(G, x)[0] = x
         /\ \A i \in 1..Len(G) : Shuffled(G, x)[i] = Moved(Shuffled(G, x)[i - 1], G[i])
<1> DEFINE n == Len(G)
           T == Seq(Cand)
           F == [p \in (1..n) \X T |-> Moved(p[2], G[p[1]])]
<1>1. n \in Nat /\ x \in T
  OBVIOUS
<1>2. \A i \in 1..n, t \in T : Moved(t, G[i]) \in T
  BY MovedFacts
<1>3. F \in [(1..n) \X T -> T]
  BY <1>2
<1>4. \A i \in 1..n, t \in T : F[<<i, t>>] = Moved(t, G[i])
  OBVIOUS
<1> HIDE DEF F, n, T
<1>5. PICK g \in [0..n -> T] : g[0] = x /\ \A i \in 1..n : g[i] = F[<<i, g[i - 1]>>]
  <2>1. Walks(n, T, x, F) # {}
    BY <1>1, <1>3, StepsExist
  <2>2. QED
    BY <2>1 DEF Walks
<1>6. \A i \in 1..n : i - 1 \in 0..n /\ g[i - 1] \in T
  BY <1>1
<1>7. \A i \in 1..n : g[i] = Moved(g[i - 1], G[i])
  BY <1>4, <1>5, <1>6
<1>8. g = [i \in 0..n |-> IF i = 0 THEN x ELSE Moved(g[i - 1], G[i])]
  <2> DEFINE h == [i \in 0..n |-> IF i = 0 THEN x ELSE Moved(g[i - 1], G[i])]
  <2>1. ASSUME NEW i \in 0..n PROVE g[i] = h[i]
    <3>1. CASE i = 0
      BY <1>5, <3>1
    <3>2. CASE i # 0
      <4>1. i \in 1..n
        BY <1>1, <3>2
      <4>2. QED
        BY <1>7, <3>2, <4>1
    <3>3. QED
      BY <3>1, <3>2
  <2>2. g = [i \in 0..n |-> g[i]] /\ h = [i \in 0..n |-> h[i]]
    OBVIOUS
  <2> HIDE DEF h
  <2>3. g = h
    BY <2>1, <2>2
  <2>4. QED
    BY <2>3 DEF h
<1> DEFINE k == Shuffled(G, x)
<1>9. k = [i \in 0..n |-> IF i = 0 THEN x ELSE Moved(k[i - 1], G[i])]
  BY <1>8 DEF Shuffled, n
<1> HIDE DEF k
<1>10. k[0] = x
  <2>1. 0 \in 0..n
    BY <1>1
  <2>2. QED
    BY <1>9, <2>1, Zenon
<1>11. ASSUME NEW i \in 1..n PROVE k[i] = Moved(k[i - 1], G[i])
  <2>1. i \in 0..n /\ i # 0
    BY <1>1
  <2>2. QED
    BY <1>9, <2>1, Zenon
<1>12. QED
  BY <1>10, <1>11 DEF k, n

LEMMA ShuffledFacts ==
  ASSUME NEW G, Len(G) \in Nat, Placing(G), NEW x \in Seq(Cand)
  PROVE  Shuffled(G, x)[Len(G)] \in Seq(Cand) /\ Elements(Shuffled(G, x)[Len(G)]) = Elements(x)
<1> DEFINE k == Shuffled(G, x)
           n == Len(G)
           B == {i \in 0..n : k[i] \in Seq(Cand) /\ Elements(k[i]) = Elements(x)}
<1>1. n \in Nat /\ k[0] = x /\ \A i \in 1..n : k[i] = Moved(k[i - 1], G[i])
  BY ShuffledExists
<1>2. \A i \in 1..n, s \in Seq(Cand) : Moved(s, G[i]) \in Seq(Cand) /\ Elements(Moved(s, G[i])) = Elements(s)
  BY MovedFacts
<1> HIDE DEF k, n
<1>3. 0 \in B
  <2>1. 0 \in 0..n
    BY <1>1
  <2>2. QED
    BY <1>1, <2>1
<1>4. ASSUME NEW i \in 1..n, i - 1 \in B PROVE i \in B
  <2>1. k[i - 1] \in Seq(Cand) /\ Elements(k[i - 1]) = Elements(x)
    BY <1>4
  <2>2. i \in 0..n
    BY <1>1
  <2>3. QED
    BY <1>1, <1>2, <2>1, <2>2
<1> HIDE DEF B
<1>5. n \in B
  <2>1. 0..n \subseteq B
    BY <1>1, <1>3, <1>4, Upwards
  <2>2. QED
    BY <1>1, <2>1
<1>6. QED
  BY <1>5 DEF B, k, n

\* The queue lists the drafts that are shown, each of which is in the first order.
LEMMA QueueFacts ==
  ASSUME gens \in Seq(Generation), Placing(gens)
  PROVE  /\ Queue \in Seq(Cand)
         /\ Elements(Queue) = {c \in Elements(BaseOrder) : InQueue(c) /\ Shown(c)}
<1> DEFINE x == Keep(BaseOrder, {c \in Cand : InQueue(c)})
           y == Shuffled(gens, x)[Len(gens)]
<1>1. BaseOrder \in Seq(Cand) /\ Elements(BaseOrder) \subseteq Cand
  BY BaseOrderFacts DEF Elements
<1>2. x \in Seq(Cand) /\ Elements(x) = Elements(BaseOrder) \cap {c \in Cand : InQueue(c)}
  BY <1>1, KeepFacts
<1>3. Len(gens) \in Nat
  OBVIOUS
<1> HIDE DEF x
<1>4. y \in Seq(Cand) /\ Elements(y) = Elements(x)
  BY <1>2, <1>3, ShuffledFacts
<1> HIDE DEF y
<1>5. Keep(y, {c \in Cand : Shown(c)}) \in Seq(Cand)
      /\ Elements(Keep(y, {c \in Cand : Shown(c)})) = Elements(y) \cap {c \in Cand : Shown(c)}
  BY <1>4, KeepFacts
<1>6. Queue = Keep(y, {c \in Cand : Shown(c)})
  BY DEF Queue, Shuffled, x, y
<1>7. QED
  BY <1>1, <1>2, <1>4, <1>5, <1>6

-----------------------------------------------------------------------------
(* The stored draft of a candidate: that of the last generation to list it. *)

PlannedIn(G) == UNION {Listed(G[i]) : i \in DOMAIN G}
LastIn(G, c) == CHOOSE i \in DOMAIN G : /\ c \in Listed(G[i])
                                        /\ \A j \in DOMAIN G : c \in Listed(G[j]) => j <= i
Stored(G, c)    == G[LastIn(G, c)].copy[c]
StoredDay(G, c) == G[LastIn(G, c)].day

LEMMA GenerationFacts ==
  ASSUME NEW g \in Generation
  PROVE  /\ Listed(g) \subseteq Cand /\ g.day \in Days /\ g.listed \in Seq(Cand)
         /\ g.copy \in [Listed(g) -> Copy]
  BY DEF Generation, Listed

LEMMA LastIsThere ==
  ASSUME NEW G \in Seq(Generation), NEW c \in PlannedIn(G)
  PROVE  /\ LastIn(G, c) \in DOMAIN G /\ c \in Listed(G[LastIn(G, c)])
         /\ \A j \in DOMAIN G : c \in Listed(G[j]) => j <= LastIn(G, c)
<1> DEFINE S == {i \in DOMAIN G : c \in Listed(G[i])}
           n == Len(G)
<1>1. n \in Nat /\ S \subseteq 1..n /\ S # {}
  BY DEF PlannedIn
<1>2. PICK i \in S : \A j \in S : j <= i
  <2> HIDE DEF S, n
  <2>1. QED
    BY <1>1, GreatestExists
<1>3. i \in DOMAIN G /\ c \in Listed(G[i]) /\ \A j \in DOMAIN G : c \in Listed(G[j]) => j <= i
  BY <1>2
<1>4. QED
  BY <1>3 DEF LastIn

LEMMA StoredFacts ==
  ASSUME NEW G \in Seq(Generation), NEW c \in PlannedIn(G)
  PROVE  c \in Cand /\ Stored(G, c) \in Copy /\ StoredDay(G, c) \in Days
<1>1. LastIn(G, c) \in DOMAIN G /\ c \in Listed(G[LastIn(G, c)])
  BY LastIsThere
<1>2. G[LastIn(G, c)] \in Generation
  BY <1>1
<1>3. QED
  BY <1>1, <1>2, GenerationFacts DEF Stored, StoredDay

LEMMA LastIsUnique ==
  ASSUME NEW G \in Seq(Generation), NEW i \in DOMAIN G, NEW c, c \in Listed(G[i]),
         \A j \in DOMAIN G : c \in Listed(G[j]) => j <= i
  PROVE  LastIn(G, c) = i
<1>1. c \in PlannedIn(G)
  BY DEF PlannedIn
<1>2. LastIn(G, c) \in DOMAIN G /\ LastIn(G, c) <= i /\ i <= LastIn(G, c)
  BY <1>1, LastIsThere
<1>3. DOMAIN G \subseteq Nat
  OBVIOUS
<1>4. QED
  BY <1>2, <1>3

\* A new generation has the last word on whom it lists, and none on the others.
LEMMA AppendedGeneration ==
  ASSUME NEW G \in Seq(Generation), NEW g \in Generation
  PROVE  /\ Append(G, g) \in Seq(Generation)
         /\ PlannedIn(Append(G, g)) = PlannedIn(G) \cup Listed(g)
         /\ \A c \in Listed(g) : /\ Stored(Append(G, g), c) = g.copy[c]
                                 /\ StoredDay(Append(G, g), c) = g.day
         /\ \A c \in PlannedIn(G) \ Listed(g) : /\ Stored(Append(G, g), c) = Stored(G, c)
                                                /\ StoredDay(Append(G, g), c) = StoredDay(G, c)
<1> DEFINE H == Append(G, g)
           n == Len(G)
<1>1. n \in Nat /\ H \in Seq(Generation) /\ Len(H) = n + 1
  OBVIOUS
<1>2. H[n + 1] = g /\ \A i \in 1..n : H[i] = G[i]
  OBVIOUS
<1>3. DOMAIN G = 1..n /\ DOMAIN H = 1..n + 1
  BY <1>1
<1> HIDE DEF H, n
<1>4. 1..n + 1 = (1..n) \cup {n + 1}
  BY <1>1
<1>5. PlannedIn(H) = PlannedIn(G) \cup Listed(g)
  BY <1>2, <1>3, <1>4 DEF PlannedIn
<1>6. ASSUME NEW c \in Listed(g)
      PROVE  Stored(H, c) = g.copy[c] /\ StoredDay(H, c) = g.day
  <2>1. n + 1 \in DOMAIN H /\ \A j \in DOMAIN H : j <= n + 1
    BY <1>1, <1>3
  <2>2. LastIn(H, c) = n + 1
    BY <1>1, <1>2, <2>1, LastIsUnique
  <2>3. QED
    BY <1>2, <2>2 DEF Stored, StoredDay
<1>7. ASSUME NEW c \in PlannedIn(G) \ Listed(g)
      PROVE  Stored(H, c) = Stored(G, c) /\ StoredDay(H, c) = StoredDay(G, c)
  <2> DEFINE i == LastIn(G, c)
  <2>1. i \in 1..n /\ c \in Listed(G[i]) /\ \A j \in 1..n : c \in Listed(G[j]) => j <= i
    BY <1>3, LastIsThere
  <2> HIDE DEF i
  <2>2. i \in DOMAIN H /\ H[i] = G[i]
    BY <1>2, <1>3, <1>4, <2>1
  <2>3. \A j \in DOMAIN H : c \in Listed(H[j]) => j <= i
    BY <1>2, <1>3, <1>4, <2>1
  <2>4. LastIn(H, c) = i
    BY <1>1, <2>1, <2>2, <2>3, LastIsUnique
  <2>5. QED
    BY <2>2, <2>4 DEF Stored, StoredDay, i
<1>8. QED
  BY <1>1, <1>5, <1>6, <1>7 DEF H

\* The projection in these terms.
LEMMA ProjectionTerms ==
  /\ Planned = PlannedIn(gens)
  /\ \A c : /\ LastOf(c) = LastIn(gens, c)
            /\ Draft(c) = IF c \in PlannedIn(gens) THEN Stored(gens, c) ELSE Rendered(c)
            /\ DraftDay(c) = IF c \in PlannedIn(gens) THEN StoredDay(gens, c)
                             ELSE IF IsLive(c) THEN UtcDay[approvedAt[c]] ELSE UtcDay[now]
<1>1. Planned = PlannedIn(gens) /\ \A c : LastOf(c) = LastIn(gens, c)
  BY DEF Planned, PlannedIn, LastOf, LastIn
<1>2. QED
  BY <1>1 DEF Draft, DraftDay, Stored, StoredDay

-----------------------------------------------------------------------------
(* Types.  The queue has to hold everyone that is shown, so that a          *)
(* replacement knows the place of the draft it replaces.                    *)

ListsMatch(G) == \A i \in 1..Len(G) : Elements(G[i].listed) = Listed(G[i])

TypeInv == TypeOK /\ Placing(gens) /\ ListsMatch(gens)

LEMMA DaysAreDays == \A t \in 1..MaxNow : UtcDay[t] \in Days /\ CampaignDay[t] \in Days
  BY DEF Days

LEMMA DraftTypes ==
  ASSUME TypeInv, NEW c \in Cand
  PROVE  Draft(c) \in Copy /\ DraftDay(c) \in Days /\ Rendered(c) \in Copy
<1>1. Rendered(c) \in Copy
  BY DEF TypeInv, TypeOK, Rendered, Copy, Class
<1>2. UtcDay[now] \in Days /\ UtcDay[approvedAt[c]] \in Days
  BY DaysAreDays DEF TypeInv, TypeOK
<1>3. c \in PlannedIn(gens) => Stored(gens, c) \in Copy /\ StoredDay(gens, c) \in Days
  BY StoredFacts DEF TypeInv, TypeOK
<1>4. QED
  BY <1>1, <1>2, <1>3, ProjectionTerms

LEMMA ShownIsListed ==
  ASSUME TypeInv, NEW c \in Cand, Shown(c)
  PROVE  Queue \in Seq(Cand) /\ c \in Elements(Queue)
<1>1. gens \in Seq(Generation)
  BY DEF TypeInv, TypeOK
<1>2. Queue \in Seq(Cand) /\ Elements(Queue) = {d \in Elements(BaseOrder) : InQueue(d) /\ Shown(d)}
  BY <1>1, QueueFacts DEF TypeInv
<1>3. InQueue(c)
  BY DEF Shown
<1>4. CASE c \in Planned
  <2>1. PICK i \in DOMAIN gens : c \in Listed(gens[i])
    BY <1>4 DEF Planned
  <2>2. DOMAIN gens = 1..Len(gens)
    BY <1>1
  <2>3. c \in Elements(gens[i].listed)
    BY <2>1, <2>2 DEF TypeInv, ListsMatch
  <2>4. c \in ListsIn(gens) /\ gens # <<>>
    <3>1. c \in ListsIn(gens)
      BY <2>3 DEF ListsIn
    <3>2. gens # <<>>
      BY <2>1
    <3>3. QED
      BY <3>1, <3>2
  <2>5. QED
    BY <1>1, <1>2, <1>3, <2>4, BaseOrderFacts
<1>5. CASE gens = <<>> /\ c \in Elements(Legacy)
  BY <1>1, <1>2, <1>3, <1>5, BaseOrderFacts
<1>6. CASE IsLive(c)
  BY <1>1, <1>2, <1>3, <1>6, BaseOrderFacts
<1>7. QED
  BY <1>3, <1>4, <1>5, <1>6 DEF InQueue

LEMMA QueueIndexType ==
  ASSUME TypeInv, NEW c \in Cand, Shown(c)
  PROVE  QueueIndex(c) \in Nat
<1>1. Queue \in Seq(Cand) /\ c \in Elements(Queue)
  BY ShownIsListed
<1>2. \E i \in DOMAIN Queue : Queue[i] = c
  BY <1>1 DEF Elements
<1> DEFINE i == CHOOSE i \in DOMAIN Queue : Queue[i] = c
<1>3. i \in DOMAIN Queue
  BY <1>2
<1>4. i \in 1..Len(Queue) /\ Len(Queue) \in Nat
  BY <1>1, <1>3
<1>5. QueueIndex(c) = i - 1
  BY <1>2 DEF QueueIndex
<1> HIDE DEF i
<1>6. QED
  BY <1>4, <1>5

\* A plan lists candidates of the reserve, one per company.
LEMMA PlanFacts ==
  ASSUME NEW E, E \subseteq Cand, NEW n \in Nat, NEW s \in Plans(E, n)
  PROVE  /\ s \in Seq(Cand) /\ Elements(s) \subseteq E
         /\ \A c, d \in Elements(s) : CompanyOf[c] = CompanyOf[d] => c = d
<1> DEFINE best == BestOf(E)
           size == IF Cardinality(best) < n THEN Cardinality(best) ELSE n
<1>1. best \subseteq E
  BY DEF BestOf
<1>2. Cardinality(best) \in Nat
  <2>1. best \subseteq Cand
    BY <1>1
  <2> HIDE DEF best
  <2>2. IsFiniteSet(best)
    BY <2>1, QueueAssumption, FS_Subset
  <2>3. QED
    BY <2>2, FS_CardinalityType
<1>3. s \in [1..size -> best]
  BY DEF Plans
<1>4. ASSUME NEW c \in best, NEW d \in best, CompanyOf[c] = CompanyOf[d] PROVE c = d
  <2>1. Rank[c] <= Rank[d] /\ Rank[d] <= Rank[c]
    BY <1>4 DEF BestOf
  <2>2. Rank[c] \in Nat /\ Rank[d] \in Nat /\ c \in Cand /\ d \in Cand
    BY <1>1, QueueAssumption
  <2>3. Rank[c] = Rank[d]
    BY <2>1, <2>2
  <2>4. QED
    BY <2>2, <2>3, QueueAssumption
<1> HIDE DEF best
<1>5. size \in Nat
  BY <1>2
<1> HIDE DEF size
<1>6. s \in Seq(Cand)
  BY <1>1, <1>3, <1>5
<1>7. Elements(s) \subseteq best
  BY <1>3 DEF Elements
<1>8. QED
  BY <1>1, <1>4, <1>6, <1>7

\* A generation that an Add, a replacement, an exact draft or a correction writes.
WellFormed(g) ==
  /\ g \in Generation /\ Elements(g.listed) = Listed(g)
  /\ g.replaced # NoOne => g.index \in Nat

LEMMA CarriedFacts ==
  ASSUME TypeInv, NEW except
  PROVE  Carried(except) \in Seq(Cand) /\ Elements(Carried(except)) \subseteq {c \in Cand : Shown(c)}
<1>1. Queue \in Seq(Cand) /\ Elements(Queue) \subseteq {c \in Cand : Shown(c)}
  <2>1. gens \in Seq(Generation) /\ Placing(gens)
    BY DEF TypeInv, TypeOK
  <2>2. BaseOrder \in Seq(Cand)
    BY <2>1, BaseOrderFacts
  <2>3. Elements(BaseOrder) \subseteq Cand
    BY <2>2 DEF Elements
  <2>4. QED
    BY <2>1, <2>3, QueueFacts
<1>2. /\ Keep(Queue, Cand \ {except}) \in Seq(Cand)
      /\ Elements(Keep(Queue, Cand \ {except})) = Elements(Queue) \cap (Cand \ {except})
  BY <1>1, KeepFacts
<1>3. Elements(<<>>) = {} /\ <<>> \in Seq(Cand)
  BY DEF Elements
<1>4. QED
  BY <1>1, <1>2, <1>3 DEF Carried

LEMMA CopyOfType ==
  ASSUME TypeInv, NEW c \in Cand
  PROVE  CopyOf(c) \in Copy
<1>1. PICK x : x = Draft(c)
  OBVIOUS
<1>2. x \in Copy
  BY <1>1, DraftTypes
<1>3. [x EXCEPT !.stage = "approved"] \in Copy
  BY <1>2 DEF Copy
<1>4. QED
  BY <1>1, <1>2, <1>3 DEF CopyOf

LEMMA AdditionIsWellFormed ==
  ASSUME TypeInv, NEW q \in Request \cup {NoRequest}, NEW new \in Seq(Cand),
         NEW except \in Cand \cup {NoOne}, except # NoOne => Shown(except)
  PROVE  /\ WellFormed(Addition(q, new, except))
         /\ Listed(Addition(q, new, except)) = Elements(Carried(except)) \cup Elements(new)
<1> DEFINE old == Carried(except)
           S == Elements(old) \cup Elements(new)
           C == [c \in S |-> IF c \in Elements(new) THEN Rendered(c) ELSE CopyOf(c)]
           l == old \o new
           k == IF except = NoOne THEN 0 ELSE QueueIndex(except)
           g == [kind |-> "addition", request |-> q, day |-> CampaignDay[now], listed |-> l, copy |-> C,
                 replaced |-> except, index |-> k]
<1>1. old \in Seq(Cand) /\ Elements(old) \subseteq Cand
  BY CarriedFacts
<1>2. Elements(new) \subseteq Cand
  BY DEF Elements
<1> HIDE DEF old
<1>3. l \in Seq(Cand) /\ Elements(l) = S
  BY <1>1, JoinedElements
<1>4. S \in SUBSET Cand
  BY <1>1, <1>2
<1> HIDE DEF S, l
<1>5. \A c \in S : Rendered(c) \in Copy /\ CopyOf(c) \in Copy
  BY <1>4, DraftTypes, CopyOfType
<1>6. C \in [S -> Copy] /\ DOMAIN C = S
  BY <1>5
<1> HIDE DEF C
<1>7. C \in UNION {[R -> Copy] : R \in SUBSET Cand}
  BY <1>4, <1>6
<1>8. CampaignDay[now] \in Days
  BY DaysAreDays DEF TypeInv, TypeOK
<1>9. k \in Nat
  BY QueueIndexType
<1> HIDE DEF k
<1>10. g \in Generation
  BY <1>3, <1>7, <1>8, <1>9 DEF Generation
<1>11. WellFormed(g) /\ Listed(g) = S
  BY <1>3, <1>6, <1>9, <1>10 DEF WellFormed, Listed
<1>12. g = Addition(q, new, except)
  BY DEF g, C, S, l, k, old, Addition
<1> HIDE DEF g
<1>13. QED
  BY <1>11, <1>12 DEF S, old

\* The exact draft and the correction: a generation of one.
LEMMA SingleIsWellFormed ==
  ASSUME TypeInv, NEW c \in Cand, NEW x \in Copy, NEW q \in Request \cup {NoRequest},
         NEW kind \in {"addition", "correction"}
  PROVE  LET g == [kind |-> kind, request |-> q, day |-> CampaignDay[now], listed |-> <<c>>,
                   copy |-> [d \in {c} |-> x], replaced |-> NoOne, index |-> 0]
         IN  WellFormed(g) /\ Listed(g) = {c} /\ g.copy[c] = x
<1> DEFINE C == [d \in {c} |-> x]
           l == <<c>>
           g == [kind |-> kind, request |-> q, day |-> CampaignDay[now], listed |-> l,
                 copy |-> C, replaced |-> NoOne, index |-> 0]
<1>1. C \in [{c} -> Copy] /\ DOMAIN C = {c} /\ C[c] = x
  OBVIOUS
<1>2. l \in Seq(Cand) /\ Elements(l) = {c}
  BY DEF Elements
<1>3. CampaignDay[now] \in Days
  BY DaysAreDays DEF TypeInv, TypeOK
<1> HIDE DEF C, l
<1>4. C \in UNION {[R -> Copy] : R \in SUBSET Cand}
  BY <1>1
<1>5. g \in Generation
  BY <1>2, <1>3, <1>4 DEF Generation
<1>6. WellFormed(g) /\ Listed(g) = {c} /\ g.copy[c] = x
  BY <1>1, <1>2, <1>5 DEF WellFormed, Listed
<1>7. QED
  BY <1>6 DEF C, l

LEMMA SavedKeepsTypes ==
  ASSUME TypeInv, NEW g, WellFormed(g), Saved(g)
  PROVE  gens' \in Seq(Generation) /\ Placing(gens') /\ ListsMatch(gens')
<1>1. gens \in Seq(Generation) /\ g \in Generation /\ gens' = Append(gens, g)
  BY DEF TypeInv, TypeOK, WellFormed, Saved
<1>2. /\ gens' \in Seq(Generation) /\ Len(gens') = Len(gens) + 1 /\ Len(gens) \in Nat
      /\ gens'[Len(gens) + 1] = g /\ \A i \in 1..Len(gens) : gens'[i] = gens[i]
  BY <1>1
<1>3. 1..Len(gens') = (1..Len(gens)) \cup {Len(gens) + 1}
  BY <1>2
<1>4. QED
  BY <1>2, <1>3 DEF TypeInv, Placing, ListsMatch, WellFormed

\* One disposition changes and one event is recorded.
Recorded(c, day, disposition, event) ==
  /\ disp' = [disp EXCEPT ![c][day] = disposition]
  /\ audit' = [audit EXCEPT ![c][day] = Append(@, event)]

LEMMA RecordedTypes ==
  ASSUME TypeInv, NEW c \in Cand, NEW day \in Days,
         NEW disposition \in Disposition, NEW event \in Event, Recorded(c, day, disposition, event)
  PROVE  /\ disp' \in [Cand -> [Days -> Disposition]]
         /\ audit' \in [Cand -> [Days -> Seq(Event)]]
         /\ disp'[c][day] = disposition /\ audit'[c][day] = Append(audit[c][day], event)
         /\ \A d \in Cand, x \in Days :
              <<d, x>> # <<c, day>> => disp'[d][x] = disp[d][x] /\ audit'[d][x] = audit[d][x]
<1>1. disp \in [Cand -> [Days -> Disposition]] /\ audit \in [Cand -> [Days -> Seq(Event)]]
  BY DEF TypeInv, TypeOK
<1>2. Append(audit[c][day], event) \in Seq(Event)
  <2>1. audit[c][day] \in Seq(Event)
    BY <1>1
  <2>2. QED
    BY <2>1
<1> DEFINE e == Append(audit[c][day], event)
<1>3. audit' = [audit EXCEPT ![c][day] = e]
  BY DEF Recorded
<1>4. e \in Seq(Event)
  BY <1>2
<1> HIDE DEF e
<1>5. audit' \in [Cand -> [Days -> Seq(Event)]]
  BY <1>1, <1>3, <1>4
<1>6. disp' \in [Cand -> [Days -> Disposition]]
  BY <1>1 DEF Recorded
<1>7. disp'[c][day] = disposition /\ audit'[c][day] = e
  BY <1>1, <1>3 DEF Recorded
<1>8. \A d \in Cand, x \in Days :
        <<d, x>> # <<c, day>> => disp'[d][x] = disp[d][x] /\ audit'[d][x] = audit[d][x]
  BY <1>1, <1>3 DEF Recorded
<1>9. QED
  BY <1>5, <1>6, <1>7, <1>8 DEF e

\* What each action writes.  An Add and its relatives write one generation.
Extends(g) == WellFormed(g) /\ Saved(g)

LEMMA AddMoves ==
  ASSUME TypeInv, NEW q \in Request \cup {NoRequest}, NEW b \in Bucket, NEW n \in Counts,
         AddBucketDrafts(q, b, n)
  PROVE  \E new \in Seq(Cand) :
           /\ Elements(new) \subseteq Eligible(b, NoOne)
           /\ \A c, d \in Elements(new) : CompanyOf[c] = CompanyOf[d] => c = d
           /\ Extends(Addition(q, new, NoOne))
           /\ Listed(Addition(q, new, NoOne)) = Elements(Carried(NoOne)) \cup Elements(new)
<1>1. PICK new \in Plans(Eligible(b, NoOne), n) : Saved(Addition(q, new, NoOne))
  BY DEF AddBucketDrafts
<1>2. n \in Nat /\ Eligible(b, NoOne) \subseteq Cand
  <2>1. n \in Nat
    BY QueueAssumption
  <2>2. Eligible(b, NoOne) \subseteq Cand
    BY DEF Eligible
  <2>3. QED
    BY <2>1, <2>2
<1>3. /\ new \in Seq(Cand) /\ Elements(new) \subseteq Eligible(b, NoOne)
      /\ \A c, d \in Elements(new) : CompanyOf[c] = CompanyOf[d] => c = d
  BY <1>2, PlanFacts
<1>4. /\ WellFormed(Addition(q, new, NoOne))
      /\ Listed(Addition(q, new, NoOne)) = Elements(Carried(NoOne)) \cup Elements(new)
  BY <1>3, AdditionIsWellFormed
<1>5. QED
  BY <1>1, <1>3, <1>4 DEF Extends

LEMMA ReplaceMoves ==
  ASSUME TypeInv, NEW c \in Cand, NEW b \in Bucket, ReplaceDraft(c, b)
  PROVE  \E new \in Seq(Cand) :
           /\ Elements(new) \subseteq Eligible(b, c)
           /\ \E d \in Eligible(b, c) : Elements(new) = {d}
           /\ Extends(Addition(NoRequest, new, c))
           /\ Listed(Addition(NoRequest, new, c)) = Elements(Carried(c)) \cup Elements(new)
           /\ disp' = [disp EXCEPT ![c][DraftDay(c)] = IF @ = "none" THEN "skipped" ELSE @]
           /\ audit' = [audit EXCEPT ![c][DraftDay(c)] = Append(@, "draft-skipped")]
<1>1. PICK new \in Plans(Eligible(b, c), 1) :
        /\ new # <<>>
        /\ disp' = [disp EXCEPT ![c][DraftDay(c)] = IF @ = "none" THEN "skipped" ELSE @]
        /\ audit' = [audit EXCEPT ![c][DraftDay(c)] = Append(@, "draft-skipped")]
        /\ Saved(Addition(NoRequest, new, c))
  BY DEF ReplaceDraft
<1>2. Eligible(b, c) \subseteq Cand /\ Shown(c)
  BY DEF Eligible, ReplaceDraft
<1>3. new \in Seq(Cand) /\ Elements(new) \subseteq Eligible(b, c)
  BY <1>2, PlanFacts
<1>4. \E d \in Eligible(b, c) : Elements(new) = {d}
  <2> DEFINE best == BestOf(Eligible(b, c))
             size == IF Cardinality(best) < 1 THEN Cardinality(best) ELSE 1
  <2>1. new \in [1..size -> best]
    BY DEF Plans
  <2>2. best \subseteq Eligible(b, c)
    BY DEF BestOf
  <2>3. Cardinality(best) \in Nat
    <3>1. best \subseteq Cand
      BY <1>2, <2>2
    <3> HIDE DEF best
    <3>2. IsFiniteSet(best)
      BY <3>1, QueueAssumption, FS_Subset
    <3>3. QED
      BY <3>2, FS_CardinalityType
  <2> HIDE DEF best
  <2>4. size \in {0, 1}
    BY <2>3
  <2> HIDE DEF size
  <2>5. DOMAIN new = 1..size /\ Len(new) = size
    BY <1>3, <2>1, <2>4
  <2>6. size = 1
    BY <1>1, <1>3, <2>4, <2>5
  <2>7. DOMAIN new = {1}
    BY <2>5, <2>6
  <2>8. new[1] \in best
    BY <2>1, <2>6
  <2>9. Elements(new) = {new[1]}
    BY <2>7 DEF Elements
  <2>10. QED
    BY <2>2, <2>8, <2>9
<1>5. /\ WellFormed(Addition(NoRequest, new, c))
      /\ Listed(Addition(NoRequest, new, c)) = Elements(Carried(c)) \cup Elements(new)
  BY <1>2, <1>3, AdditionIsWellFormed
<1>6. QED
  BY <1>1, <1>3, <1>4, <1>5 DEF Extends

Exact(c, q) ==
  [kind |-> "addition", request |-> q, day |-> CampaignDay[now], listed |-> <<c>>,
   copy |-> [d \in {c} |-> Rendered(c)], replaced |-> NoOne, index |-> 0]

LEMMA ExactMoves ==
  ASSUME TypeInv, NEW c \in Cand, NEW q \in Request, CreateExactDraft(c, q)
  PROVE  /\ Extends(Exact(c, q)) /\ Listed(Exact(c, q)) = {c} /\ Exact(c, q).copy[c] = Rendered(c)
         /\ class[c] \in Bucket /\ c \in Eligible(class[c], NoOne)
<1>1. Saved(Exact(c, q)) /\ class[c] \in Bucket /\ c \in Eligible(class[c], NoOne)
  BY DEF CreateExactDraft, Exact
<1>2. Rendered(c) \in Copy
  BY DraftTypes
<1>3. WellFormed(Exact(c, q)) /\ Listed(Exact(c, q)) = {c} /\ Exact(c, q).copy[c] = Rendered(c)
  BY <1>2, SingleIsWellFormed DEF Exact
<1>4. QED
  BY <1>1, <1>3 DEF Extends

Correction(c, copy) ==
  [kind |-> "correction", request |-> NoRequest, day |-> CampaignDay[now], listed |-> <<c>>,
   copy |-> [d \in {c} |-> copy], replaced |-> NoOne, index |-> 0]

LEMMA CorrectedType ==
  ASSUME TypeInv, NEW c \in Cand, NEW decision, NEW x \in Corrected(c, decision)
  PROVE  x \in Copy /\ x.stage = "draft"
<1>1. class[c] \in Class /\ page.copy.text \in Class \cup {"edited"}
  BY DEF TypeInv, TypeOK, Copy
<1>2. CASE decision = "regenerate"
  BY <1>1, <1>2 DEF Corrected, Rendered, Copy
<1>3. CASE decision # "regenerate"
  BY <1>1, <1>3 DEF Corrected, Copy
<1>4. QED
  BY <1>2, <1>3

LEMMA CorrectionMoves ==
  ASSUME TypeInv, NEW c \in Cand, NEW decision, ResolveCorrection(c, decision)
  PROVE  \E copy \in Copy : /\ copy.stage = "draft" /\ copy \in Corrected(c, decision)
                            /\ Extends(Correction(c, copy))
                            /\ Listed(Correction(c, copy)) = {c} /\ Correction(c, copy).copy[c] = copy
<1>1. PICK copy \in Corrected(c, decision) : Saved(Correction(c, copy))
  BY DEF ResolveCorrection, Correction
<1>2. copy \in Copy /\ copy.stage = "draft"
  BY CorrectedType
<1>3. /\ WellFormed(Correction(c, copy)) /\ Listed(Correction(c, copy)) = {c}
      /\ Correction(c, copy).copy[c] = copy
  BY <1>2, SingleIsWellFormed DEF Correction
<1>4. QED
  BY <1>1, <1>2, <1>3 DEF Extends

\* Every step keeps the types.
LEMMA TypeInvInit == Init => TypeInv
<1> SUFFICES ASSUME Init PROVE TypeInv
  OBVIOUS
<1>1. gens = <<>> /\ Len(gens) = 0
  BY DEF Init
<1>2. gens \in Seq(Generation) /\ Placing(gens) /\ ListsMatch(gens)
  BY <1>1 DEF Placing, ListsMatch
<1>3. 1 \in 1..MaxNow
  BY QueueAssumption
<1>4. page \in [cand : Cand \cup {NoOne}, copy : Copy]
  BY DEF Init, NoPage, Copy, Class
<1>5. disp \in [Cand -> [Days -> Disposition]] /\ audit \in [Cand -> [Days -> Seq(Event)]]
  BY DEF Init, Disposition
<1>6. now \in 1..MaxNow /\ approvedAt \in [Cand -> 1..MaxNow] /\ sentAt \in [Cand -> 1..MaxNow]
  BY <1>3 DEF Init
<1>7. class \in [Cand -> Class] /\ op \in [Cand -> Live \cup {"none", "sent"}] /\ reviews \in Nat
      /\ suppressed \in SUBSET Cand
  BY QueueAssumption DEF Init
<1>8. QED
  BY <1>2, <1>4, <1>5, <1>6, <1>7 DEF TypeInv, TypeOK

LEMMA ExtendedTypes ==
  ASSUME TypeInv, NEW g, Extends(g),
         disp' \in [Cand -> [Days -> Disposition]], audit' \in [Cand -> [Days -> Seq(Event)]],
         UNCHANGED <<now, suppressed, class, sendVars, page, reviews>>
  PROVE  TypeInv'
<1>1. gens' \in Seq(Generation) /\ Placing(gens') /\ ListsMatch(gens')
  BY SavedKeepsTypes DEF Extends
<1>2. UNCHANGED <<now, suppressed, class, op, approvedAt, sentAt, page, reviews>>
  BY DEF sendVars
<1>3. TypeOK'
  BY <1>1, <1>2 DEF TypeInv, TypeOK
<1>4. QED
  BY <1>1, <1>3 DEF TypeInv

LEMMA SettleMoves ==
  ASSUME TypeInv, NEW c \in Cand, NEW day \in Days,
         NEW d \in {"skipped", "permanently-excluded"}, Settle(c, day, d)
  PROVE  /\ Recorded(c, day, d, IF d = "skipped" THEN "draft-skipped" ELSE "candidate-permanently-excluded")
         /\ suppressed' = IF d = "skipped" THEN suppressed ELSE suppressed \cup {c}
         /\ UNCHANGED <<now, gens, class, op, approvedAt, sentAt, page, reviews>>
         /\ d \in Disposition
         /\ (IF d = "skipped" THEN "draft-skipped" ELSE "candidate-permanently-excluded") \in Event
  BY DEF Settle, Recorded, sendVars, Disposition, Event

LEMMA SettledTypes ==
  ASSUME TypeInv, NEW c \in Cand, NEW day \in Days,
         NEW d \in {"skipped", "permanently-excluded"}, Settle(c, day, d)
  PROVE  TypeInv'
<1>1. PICK e \in Event : Recorded(c, day, d, e)
  BY SettleMoves
<1>2. d \in Disposition
  BY DEF Disposition
<1>3. disp' \in [Cand -> [Days -> Disposition]] /\ audit' \in [Cand -> [Days -> Seq(Event)]]
  BY <1>1, <1>2, RecordedTypes
<1>4. suppressed' \in SUBSET Cand /\ UNCHANGED <<now, gens, class, op, approvedAt, sentAt, page, reviews>>
  BY SettleMoves DEF TypeInv, TypeOK
<1>5. QED
  BY <1>3, <1>4 DEF TypeInv, TypeOK

LEMMA TypeInvNext == TypeInv /\ [Next]_vars => TypeInv'
<1> SUFFICES ASSUME TypeInv, [Next]_vars PROVE TypeInv'
  OBVIOUS
<1>1. ASSUME NEW q \in Request \cup {NoRequest}, NEW b \in Bucket, NEW n \in Counts, AddBucketDrafts(q, b, n)
      PROVE  TypeInv'
  <2>1. PICK g : Extends(g)
    BY <1>1, AddMoves
  <2>2. UNCHANGED <<disp, audit>> /\ UNCHANGED <<now, suppressed, class, sendVars, page, reviews>>
    BY <1>1 DEF AddBucketDrafts
  <2>3. disp' \in [Cand -> [Days -> Disposition]] /\ audit' \in [Cand -> [Days -> Seq(Event)]]
    BY <2>2 DEF TypeInv, TypeOK
  <2>4. QED
    BY <2>1, <2>2, <2>3, ExtendedTypes
<1>2. ASSUME NEW c \in Cand, NEW b \in Bucket, ReplaceDraft(c, b) PROVE TypeInv'
  <2>1. PICK g : Extends(g)
    BY <1>2, ReplaceMoves
  <2>2. UNCHANGED <<now, suppressed, class, sendVars, page, reviews>>
    BY <1>2 DEF ReplaceDraft
  <2>3. /\ disp' = [disp EXCEPT ![c][DraftDay(c)] = IF @ = "none" THEN "skipped" ELSE @]
        /\ audit' = [audit EXCEPT ![c][DraftDay(c)] = Append(@, "draft-skipped")]
    BY <1>2, ReplaceMoves
  <2>4. PICK day \in Days : day = DraftDay(c)
    BY DraftTypes
  <2>5. PICK v : v = IF disp[c][day] = "none" THEN "skipped" ELSE disp[c][day]
    OBVIOUS
  <2>6. v \in Disposition
    BY <2>5 DEF TypeInv, TypeOK, Disposition
  <2>7. Recorded(c, day, v, "draft-skipped")
    BY <2>3, <2>4, <2>5 DEF Recorded
  <2>8. disp' \in [Cand -> [Days -> Disposition]] /\ audit' \in [Cand -> [Days -> Seq(Event)]]
    <3>1. "draft-skipped" \in Event
      BY DEF Event
    <3>2. QED
      BY <2>6, <2>7, <3>1, RecordedTypes
  <2>9. QED
    BY <2>1, <2>2, <2>8, ExtendedTypes
<1>3. ASSUME NEW c \in Cand, NEW q \in Request, CreateExactDraft(c, q) PROVE TypeInv'
  <2>1. PICK g : Extends(g)
    BY <1>3, ExactMoves
  <2>2. UNCHANGED <<disp, audit>> /\ UNCHANGED <<now, suppressed, class, sendVars, page, reviews>>
    BY <1>3 DEF CreateExactDraft
  <2>3. disp' \in [Cand -> [Days -> Disposition]] /\ audit' \in [Cand -> [Days -> Seq(Event)]]
    BY <2>2 DEF TypeInv, TypeOK
  <2>4. QED
    BY <2>1, <2>2, <2>3, ExtendedTypes
<1>4. ASSUME NEW c \in Cand, OpenCorrection(c) PROVE TypeInv'
  <2>1. PICK x \in Copy : x = Draft(c)
    BY DraftTypes
  <2>2. page' = [cand |-> c, copy |-> x]
    BY <1>4, <2>1 DEF OpenCorrection
  <2>3. page' \in [cand : Cand \cup {NoOne}, copy : Copy]
    BY <2>2
  <2>4. UNCHANGED <<now, gens, disp, audit, suppressed, class, op, approvedAt, sentAt, reviews>>
    BY <1>4 DEF OpenCorrection, queueVars, sendVars
  <2>5. QED
    BY <2>3, <2>4 DEF TypeInv, TypeOK
<1>5. ASSUME NEW c \in Cand, NEW decision, ResolveCorrection(c, decision) PROVE TypeInv'
  <2>1. PICK g : Extends(g)
    BY <1>5, CorrectionMoves
  <2>2. UNCHANGED <<disp, audit>> /\ UNCHANGED <<now, suppressed, class, sendVars, page, reviews>>
    BY <1>5 DEF ResolveCorrection
  <2>3. disp' \in [Cand -> [Days -> Disposition]] /\ audit' \in [Cand -> [Days -> Seq(Event)]]
    BY <2>2 DEF TypeInv, TypeOK
  <2>4. QED
    BY <2>1, <2>2, <2>3, ExtendedTypes
<1>6. ASSUME NEW c \in Cand, NEW d \in {"skipped", "permanently-excluded"}, DismissDraft(c, d) PROVE TypeInv'
  <2>1. Settle(c, DraftDay(c), d)
    BY <1>6 DEF DismissDraft
  <2>2. DraftDay(c) \in Days
    BY DraftTypes
  <2>3. QED
    BY <2>1, <2>2, SettledTypes
<1>7. ASSUME NEW c \in Cand, NEW d \in {"skipped", "permanently-excluded"}, DismissCandidate(c, d) PROVE TypeInv'
  <2>1. Settle(c, CampaignDay[now], d)
    BY <1>7 DEF DismissCandidate
  <2>2. CampaignDay[now] \in Days
    BY DaysAreDays DEF TypeInv, TypeOK
  <2>3. QED
    BY <2>1, <2>2, SettledTypes
<1>8. ASSUME NEW c \in Cand,
             Approve(c) \/ StartSend(c) \/ SendUnanswered(c) \/ SendConfirmed(c) \/ SendRefuted(c)
      PROVE  TypeInv'
  <2>1. UNCHANGED <<now, gens, disp, audit, suppressed, class, page, reviews>>
    BY <1>8 DEF Approve, StartSend, SendUnanswered, SendConfirmed, SendRefuted, queueVars
  <2>2. /\ op' \in [Cand -> Live \cup {"none", "sent"}]
        /\ approvedAt' \in [Cand -> 1..MaxNow] /\ sentAt' \in [Cand -> 1..MaxNow]
    <3>1. CASE Approve(c)
      BY <3>1 DEF Approve, TypeInv, TypeOK, Live
    <3>2. CASE StartSend(c)
      BY <3>2 DEF StartSend, TypeInv, TypeOK, Live
    <3>3. CASE SendUnanswered(c)
      BY <3>3 DEF SendUnanswered, TypeInv, TypeOK, Live
    <3>4. CASE SendConfirmed(c)
      <4>1. PICK t \in sentAt[c]..now : sentAt' = [sentAt EXCEPT ![c] = t]
        BY <3>4 DEF SendConfirmed
      <4>2. sentAt[c] \in 1..MaxNow /\ now \in 1..MaxNow /\ MaxNow \in Nat
        BY QueueAssumption DEF TypeInv, TypeOK
      <4>3. t \in 1..MaxNow
        BY <4>2
      <4>4. QED
        BY <3>4, <4>1, <4>3 DEF SendConfirmed, TypeInv, TypeOK, Live
    <3>5. CASE SendRefuted(c)
      BY <3>5 DEF SendRefuted, TypeInv, TypeOK, Live
    <3>6. QED
      BY <1>8, <3>1, <3>2, <3>3, <3>4, <3>5
  <2>3. QED
    BY <2>1, <2>2 DEF TypeInv, TypeOK
<1>9. ASSUME NEW c \in Cand, NEW k \in Class, Reclassify(c, k) PROVE TypeInv'
  <2>1. UNCHANGED <<now, gens, disp, audit, suppressed, op, approvedAt, sentAt, page>>
    BY <1>9 DEF Reclassify, queueVars, sendVars
  <2>2. class' \in [Cand -> Class] /\ reviews' \in Nat
    BY <1>9 DEF Reclassify, TypeInv, TypeOK
  <2>3. QED
    BY <2>1, <2>2 DEF TypeInv, TypeOK
<1>10. ASSUME Tick PROVE TypeInv'
  <2>1. UNCHANGED <<gens, disp, audit, suppressed, class, op, approvedAt, sentAt, page, reviews>>
    BY <1>10 DEF Tick, queueVars, sendVars
  <2>2. now' \in 1..MaxNow
    BY <1>10, QueueAssumption DEF Tick, TypeInv, TypeOK
  <2>3. QED
    BY <2>1, <2>2 DEF TypeInv, TypeOK
<1>11. CASE UNCHANGED vars
  BY <1>11 DEF vars, queueVars, sendVars, TypeInv, TypeOK
<1>12. QED
  BY <1>1, <1>2, <1>3, <1>4, <1>5, <1>6, <1>7, <1>8, <1>9, <1>10, <1>11 DEF Next

\* Whatever happens, the state is one the projection can be computed from: every draft has
\* a day, a copy and a place in the queue.
THEOREM TypeCorrect == Spec => []TypeOK
<1>1. Init => TypeInv
  BY TypeInvInit
<1>2. TypeInv /\ [Next]_vars => TypeInv'
  BY TypeInvNext
<1>3. TypeInv => TypeOK
  BY DEF TypeInv
<1>4. QED
  BY <1>1, <1>2, <1>3, PTL DEF Spec

-----------------------------------------------------------------------------
(* Dispositions.  An entry point changes the disposition of a day from none *)
(* to something or from a skip to an exclusion, never otherwise.            *)

Agreement ==
  /\ \A c \in Cand, day \in Days : audit[c][day] \in Told(disp[c][day])
  /\ \A c \in Cand : IsExcluded(c) <=> c \in suppressed

EventOf(d) == IF d = "skipped" THEN "draft-skipped" ELSE "candidate-permanently-excluded"

LEMMA ToldNext ==
  ASSUME NEW a, NEW old, NEW d \in {"skipped", "permanently-excluded"}, a \in Told(old),
         old = "none" \/ (old = "skipped" /\ d = "permanently-excluded")
  PROVE  Append(a, EventOf(d)) \in Told(d)
<1>1. CASE old = "none"
  <2>1. a = <<>>
    BY <1>1 DEF Told
  <2>2. Append(<<>>, EventOf(d)) = <<EventOf(d)>>
    OBVIOUS
  <2>3. CASE d = "skipped"
    BY <2>1, <2>2, <2>3 DEF Told, EventOf
  <2>4. CASE d = "permanently-excluded"
    BY <2>1, <2>2, <2>4 DEF Told, EventOf
  <2>5. QED
    BY <2>3, <2>4
<1>2. CASE old = "skipped" /\ d = "permanently-excluded"
  <2>1. a = <<"draft-skipped">>
    BY <1>2 DEF Told
  <2>2. EventOf(d) = "candidate-permanently-excluded"
    BY <1>2 DEF EventOf
  <2>3. Append(a, EventOf(d)) = <<"draft-skipped", "candidate-permanently-excluded">>
    <3>1. ASSUME NEW x, NEW y PROVE Append(<<x>>, y) = <<x, y>>
      <4>1. <<x>> \in Seq({x, y}) /\ Len(<<x>>) = 1 /\ <<x>>[1] = x
        OBVIOUS
      <4>2. Append(<<x>>, y) \in Seq({x, y}) /\ Len(Append(<<x>>, y)) = 2
        BY <4>1
      <4>3. Append(<<x>>, y)[1] = x /\ Append(<<x>>, y)[2] = y
        BY <4>1
      <4>4. <<x, y>> \in Seq({x, y}) /\ Len(<<x, y>>) = 2 /\ <<x, y>>[1] = x /\ <<x, y>>[2] = y
        OBVIOUS
      <4> DEFINE u == Append(<<x>>, y)
                 v == <<x, y>>
      <4>5. u \in Seq({x, y}) /\ v \in Seq({x, y}) /\ Len(u) = 2 /\ Len(v) = 2
        BY <4>2, <4>4
      <4>6. u[1] = v[1] /\ u[2] = v[2]
        BY <4>3, <4>4
      <4> HIDE DEF u, v
      <4>7. \A i \in 1..Len(u) : u[i] = v[i]
        BY <4>5, <4>6
      <4>8. u = v
        BY <4>5, <4>7, SeqEqual
      <4>9. QED
        BY <4>8 DEF u, v
    <3>2. QED
      BY <2>1, <2>2, <3>1
  <2>4. QED
    BY <1>2, <2>3 DEF Told
<1>3. QED
  BY <1>1, <1>2

LEMMA RecordedAgrees ==
  ASSUME TypeInv, Agreement, NEW c \in Cand, NEW day \in Days,
         NEW d \in {"skipped", "permanently-excluded"}, Recorded(c, day, d, EventOf(d)),
         disp[c][day] = "none" \/ (disp[c][day] = "skipped" /\ d = "permanently-excluded"),
         suppressed' = IF d = "skipped" THEN suppressed ELSE suppressed \cup {c}
  PROVE  Agreement'
<1>1. d \in Disposition /\ EventOf(d) \in Event
  BY DEF Disposition, EventOf, Event
<1>2. /\ disp'[c][day] = d /\ audit'[c][day] = Append(audit[c][day], EventOf(d))
      /\ \A e \in Cand, x \in Days :
           <<e, x>> # <<c, day>> => disp'[e][x] = disp[e][x] /\ audit'[e][x] = audit[e][x]
  BY <1>1, RecordedTypes
<1>3. ASSUME NEW e \in Cand, NEW x \in Days PROVE audit'[e][x] \in Told(disp'[e][x])
  <2>1. CASE <<e, x>> # <<c, day>>
    BY <1>2, <2>1 DEF Agreement
  <2>2. CASE e = c /\ x = day
    <3>1. audit[c][day] \in Told(disp[c][day])
      BY DEF Agreement
    <3>2. Append(audit[c][day], EventOf(d)) \in Told(d)
      BY <3>1, ToldNext
    <3>3. QED
      BY <1>2, <2>2, <3>2
  <2>3. QED
    BY <2>1, <2>2
<1>4. ASSUME NEW e \in Cand
      PROVE  (\E x \in Days : disp'[e][x] = "permanently-excluded") <=> e \in suppressed'
  <2>1. (\E x \in Days : disp[e][x] = "permanently-excluded") <=> e \in suppressed
    BY DEF Agreement, IsExcluded
  <2>2. CASE e # c
    <3>1. \A x \in Days : disp'[e][x] = disp[e][x]
      BY <1>2, <2>2
    <3>2. e \in suppressed' <=> e \in suppressed
      BY <2>2
    <3>3. QED
      BY <2>1, <3>1, <3>2
  <2>3. CASE e = c /\ d = "skipped"
    <3>1. \A x \in Days : x # day => disp'[c][x] = disp[c][x]
      BY <1>2
    <3>2. disp[c][day] # "permanently-excluded" /\ disp'[c][day] # "permanently-excluded"
      BY <1>2, <2>3
    <3>3. suppressed' = suppressed
      BY <2>3
    <3>4. QED
      BY <2>1, <2>3, <3>1, <3>2, <3>3
  <2>4. CASE e = c /\ d = "permanently-excluded"
    <3>1. disp'[c][day] = "permanently-excluded"
      BY <1>2, <2>4
    <3>2. c \in suppressed'
      BY <2>4
    <3>3. QED
      BY <2>4, <3>1, <3>2
  <2>5. QED
    BY <2>2, <2>3, <2>4
<1>5. QED
  BY <1>3, <1>4 DEF Agreement, IsExcluded

LEMMA AgreementInit == Init => Agreement
  BY DEF Init, Agreement, Told, IsExcluded

LEMMA AgreementNext == TypeInv /\ Agreement /\ [Next]_vars => Agreement'
<1> SUFFICES ASSUME TypeInv, Agreement, [Next]_vars PROVE Agreement'
  OBVIOUS
<1>1. CASE UNCHANGED <<disp, audit, suppressed>>
  BY <1>1 DEF Agreement, IsExcluded
<1>2. ASSUME NEW c \in Cand, NEW b \in Bucket, ReplaceDraft(c, b) PROVE Agreement'
  <2>1. PICK day \in Days : day = DraftDay(c)
    BY DraftTypes
  <2>2. disp[c][day] = "none"
    BY <1>2, <2>1 DEF ReplaceDraft, Shown, InQueue, DismissedOn
  <2>3. /\ disp' = [disp EXCEPT ![c][day] = IF @ = "none" THEN "skipped" ELSE @]
        /\ audit' = [audit EXCEPT ![c][day] = Append(@, "draft-skipped")]
        /\ suppressed' = suppressed
    BY <1>2, <2>1 DEF ReplaceDraft
  <2>4. Recorded(c, day, "skipped", EventOf("skipped"))
    BY <2>2, <2>3 DEF Recorded, EventOf
  <2>5. QED
    BY <2>2, <2>3, <2>4, RecordedAgrees
<1>3. ASSUME NEW c \in Cand, NEW d \in {"skipped", "permanently-excluded"}, DismissDraft(c, d) PROVE Agreement'
  <2>1. PICK day \in Days : day = DraftDay(c)
    BY DraftTypes
  <2>2. disp[c][day] = "none"
    BY <1>3, <2>1 DEF DismissDraft, Shown, InQueue, DismissedOn
  <2>3. Settle(c, day, d)
    BY <1>3, <2>1 DEF DismissDraft
  <2>4. Recorded(c, day, d, EventOf(d)) /\ suppressed' = IF d = "skipped" THEN suppressed ELSE suppressed \cup {c}
    BY <2>3, SettleMoves DEF EventOf
  <2>5. QED
    BY <2>2, <2>4, RecordedAgrees
<1>4. ASSUME NEW c \in Cand, NEW d \in {"skipped", "permanently-excluded"}, DismissCandidate(c, d) PROVE Agreement'
  <2>1. PICK day \in Days : day = CampaignDay[now]
    BY DaysAreDays DEF TypeInv, TypeOK
  <2>2. disp[c][day] \notin {d, "permanently-excluded"} /\ disp[c][day] \in Disposition
    BY <1>4, <2>1 DEF DismissCandidate, IsNew, TypeInv, TypeOK
  <2>3. disp[c][day] = "none" \/ (disp[c][day] = "skipped" /\ d = "permanently-excluded")
    BY <2>2 DEF Disposition
  <2>4. Settle(c, day, d)
    BY <1>4, <2>1 DEF DismissCandidate
  <2>5. Recorded(c, day, d, EventOf(d)) /\ suppressed' = IF d = "skipped" THEN suppressed ELSE suppressed \cup {c}
    BY <2>4, SettleMoves DEF EventOf
  <2>6. QED
    BY <2>3, <2>5, RecordedAgrees
<1>5. ASSUME NEW q \in Request \cup {NoRequest}, NEW b \in Bucket, NEW n \in Counts, AddBucketDrafts(q, b, n)
      PROVE  Agreement'
  BY <1>1, <1>5 DEF AddBucketDrafts
<1>6. ASSUME NEW c \in Cand, NEW q \in Request, CreateExactDraft(c, q) PROVE Agreement'
  BY <1>1, <1>6 DEF CreateExactDraft
<1>7. ASSUME NEW c \in Cand, NEW decision, ResolveCorrection(c, decision) PROVE Agreement'
  BY <1>1, <1>7 DEF ResolveCorrection
<1>8. ASSUME NEW c \in Cand,
             OpenCorrection(c) \/ Approve(c) \/ StartSend(c) \/ SendUnanswered(c) \/ SendConfirmed(c)
               \/ SendRefuted(c) \/ \E k \in Class : Reclassify(c, k)
      PROVE  Agreement'
  BY <1>1, <1>8 DEF OpenCorrection, Approve, StartSend, SendUnanswered, SendConfirmed, SendRefuted, Reclassify, queueVars
<1>9. CASE Tick
  BY <1>1, <1>9 DEF Tick, queueVars
<1>10. CASE UNCHANGED vars
  BY <1>1, <1>10 DEF vars, queueVars
<1>11. QED
  BY <1>2, <1>3, <1>4, <1>5, <1>6, <1>7, <1>8, <1>9, <1>10 DEF Next

\* Whoever is excluded has no draft that is shown and is in no reserve.
LEMMA ExcludedAreOut ==
  ASSUME Agreement, NEW c \in suppressed, c \in Cand
  PROVE  ~Shown(c) /\ \A b, except : c \notin Eligible(b, except)
<1>1. IsExcluded(c)
  BY DEF Agreement
<1>2. ~Shown(c)
  BY <1>1 DEF Shown, InQueue, DismissedOn
<1>3. QED
  BY <1>2 DEF Eligible

\* Dispositions, their audit and the suppression list agree, for every calendar and
\* whatever was recommended before the first generation.
THEOREM DispositionsStayInAgreement == Spec => []DispositionsAgree
<1>1. Init => TypeInv /\ Agreement
  BY TypeInvInit, AgreementInit
<1>2. TypeInv /\ Agreement /\ [Next]_vars => TypeInv' /\ Agreement'
  BY TypeInvNext, AgreementNext
<1>3. TypeInv /\ Agreement => DispositionsAgree
  <2> SUFFICES ASSUME TypeInv, Agreement PROVE DispositionsAgree
    OBVIOUS
  <2>1. suppressed \subseteq Cand
    BY DEF TypeInv, TypeOK
  <2>2. ASSUME NEW c \in suppressed PROVE ~Shown(c) /\ \A b \in Bucket : c \notin Eligible(b, NoOne)
    BY <2>1, ExcludedAreOut
  <2>3. QED
    BY <2>2 DEF Agreement, DispositionsAgree
<1>4. QED
  BY <1>1, <1>2, <1>3, PTL DEF Spec

-----------------------------------------------------------------------------
(* The queue without pilot recommendations.  Every draft is then in a       *)
(* generation, and the projection comes down to who waits.                  *)

\* A generation has c, and no disposition is in force on the day of its draft.
Waits(c) == c \in PlannedIn(gens) /\ ~DismissedOn(c, StoredDay(gens, c))

\* c keeps the others of the company out: a draft of theirs would be a second one.
Holds(c) == IsLive(c) \/ (Waits(c) /\ op[c] = "none")

\* Stored copies are open, operations are those of stored drafts, and no disposition gets
\* between a started send and its answer.
StoredInv ==
  /\ \A c \in PlannedIn(gens) : Stored(gens, c).stage = "draft"
  /\ \A c \in Cand : op[c] # "none" => c \in PlannedIn(gens)
  /\ \A c \in Cand : op[c] \in {"sending", "send-status-uncertain"} => Waits(c)

\* One holder per company; none waits for a company that was written to; and whoever was
\* started or sent after another of the company, was so after the cooldown.
After(c, d) == UtcDay[sentAt[d]] >= UtcDay[sentAt[c]] + CooldownDays
CompanyInv ==
  /\ \A c, d \in Cand : CompanyOf[c] = CompanyOf[d] /\ Holds(c) /\ Holds(d) => c = d
  /\ \A c \in Cand : Waits(c) /\ op[c] = "none" => ~CoolingDown(CompanyOf[c])
  /\ \A c, d \in Cand :
       /\ CompanyOf[c] = CompanyOf[d] /\ op[c] = "sent"
       /\ op[d] \in {"sending", "send-status-uncertain"}
       => After(c, d)
  /\ OneContactPerCompany

QueueInv == TypeInv /\ Agreement /\ StoredInv /\ CompanyInv

\* What is shown waits; and whoever waits is shown until the message was sent.
LEMMA QueuedWaits ==
  ASSUME Legacy = <<>>, StoredInv, NEW c \in Cand
  PROVE  InQueue(c) <=> Waits(c)
<1>1. Elements(Legacy) = {}
  BY DEF Elements
<1>2. IsLive(c) => c \in PlannedIn(gens)
  BY DEF StoredInv, IsLive, Live
<1>3. c \in PlannedIn(gens) => DraftDay(c) = StoredDay(gens, c)
  BY ProjectionTerms
<1>4. QED
  BY <1>1, <1>2, <1>3, ProjectionTerms DEF InQueue, Waits

LEMMA ShownWaits ==
  ASSUME Legacy = <<>>
  PROVE  QueueInv => \A c \in Cand : /\ Shown(c) => Waits(c)
                                     /\ Waits(c) /\ op[c] # "sent" => Shown(c)
<1> SUFFICES ASSUME QueueInv, NEW c \in Cand
             PROVE  (Shown(c) => Waits(c)) /\ (Waits(c) /\ op[c] # "sent" => Shown(c))
  OBVIOUS
<1>1. StoredInv /\ TypeInv /\ Agreement /\ CompanyInv
  BY DEF QueueInv
<1>2. InQueue(c) <=> Waits(c)
  BY <1>1, QueuedWaits
<1>3. Shown(c) => Waits(c)
  BY <1>2 DEF Shown
<1>4. ASSUME Waits(c), op[c] # "sent" PROVE Shown(c)
  <2>1. CASE IsLive(c)
    BY <1>2, <1>4, <2>1 DEF Shown
  <2>2. CASE ~IsLive(c)
    <3>1. op[c] = "none"
      <4>1. op[c] \in Live \cup {"none", "sent"}
        BY <1>1 DEF TypeInv, TypeOK
      <4>2. QED
        BY <1>4, <2>2, <4>1 DEF IsLive
    <3>2. c \notin suppressed
      BY <1>1, <1>4 DEF Agreement, Waits, DismissedOn
    <3>3. ~CoolingDown(CompanyOf[c])
      BY <1>1, <1>4, <3>1 DEF CompanyInv
    <3>4. ~Blocked(c)
      BY <1>4, <3>2, <3>3 DEF Blocked
    <3>5. Draft(c).stage = "draft"
      BY <1>1, <1>4, ProjectionTerms DEF Waits, StoredInv
    <3>6. QED
      BY <1>2, <1>4, <3>4, <3>5 DEF Shown
  <2>3. QED
    BY <2>1, <2>2
<1>5. QED
  BY <1>3, <1>4

\* With nothing recommended there is nothing to carry over.
LEMMA NothingCarried ==
  ASSUME Legacy = <<>>, TypeInv, StoredInv, NEW except
  PROVE  Elements(Carried(except)) = {}
<1>1. CASE gens # <<>>
  BY <1>1 DEF Carried, Elements
<1>2. CASE gens = <<>>
  <2>1. PlannedIn(gens) = {}
    BY <1>2 DEF PlannedIn
  <2>2. \A c \in Cand : ~Shown(c)
    BY <2>1, QueuedWaits DEF Shown, Waits
  <2>3. QED
    BY <2>2, CarriedFacts
<1>3. QED
  BY <1>1, <1>2

\* Candidates enter the queue with a draft of today's day and their present class.
Enters(N) ==
  /\ N \cap PlannedIn(gens) = {}
  /\ PlannedIn(gens') = PlannedIn(gens) \cup N
  /\ \A c \in N : Stored(gens', c) = Rendered(c) /\ StoredDay(gens', c) = CampaignDay[now]
  /\ \A c \in PlannedIn(gens) : /\ Stored(gens', c) = Stored(gens, c)
                                /\ StoredDay(gens', c) = StoredDay(gens, c)

LEMMA EntersBy ==
  ASSUME TypeInv, NEW g, Extends(g), Listed(g) \cap PlannedIn(gens) = {}, g.day = CampaignDay[now],
         \A c \in Listed(g) : g.copy[c] = Rendered(c)
  PROVE  Enters(Listed(g))
<1>1. gens \in Seq(Generation) /\ g \in Generation /\ gens' = Append(gens, g)
  BY DEF TypeInv, TypeOK, Extends, WellFormed, Saved
<1>2. QED
  BY <1>1, AppendedGeneration DEF Enters

LEMMA AdditionEnters ==
  ASSUME Legacy = <<>>, TypeInv, StoredInv, NEW q, NEW new, NEW except, NEW b, NEW e,
         Elements(new) \subseteq Eligible(b, e),
         Extends(Addition(q, new, except)),
         Listed(Addition(q, new, except)) = Elements(Carried(except)) \cup Elements(new)
  PROVE  Enters(Elements(new))
<1> DEFINE g == Addition(q, new, except)
           N == Elements(new)
           S == Elements(Carried(except)) \cup Elements(new)
<1>1. Elements(Carried(except)) = {}
  BY NothingCarried
<1>2. Listed(g) = N
  BY <1>1
<1>3. N \cap PlannedIn(gens) = {}
  BY ProjectionTerms DEF Eligible
<1>4. g.day = CampaignDay[now]
  BY DEF Addition
<1>5. g.copy = [c \in S |-> IF c \in N THEN Rendered(c) ELSE CopyOf(c)]
  BY DEF Addition
<1>6. \A c \in N : g.copy[c] = Rendered(c)
  <2> HIDE DEF g
  <2>1. QED
    BY <1>5
<1> HIDE DEF g
<1>7. Enters(Listed(g))
  BY <1>2, <1>3, <1>4, <1>6, EntersBy DEF g
<1>8. QED
  BY <1>2, <1>7

LEMMA ExactEnters ==
  ASSUME TypeInv, NEW c \in Cand, NEW q \in Request, CreateExactDraft(c, q)
  PROVE  Enters({c}) /\ c \in Eligible(class[c], NoOne)
<1> DEFINE g == Exact(c, q)
<1>1. Extends(g) /\ Listed(g) = {c} /\ g.copy[c] = Rendered(c) /\ c \in Eligible(class[c], NoOne)
  BY ExactMoves
<1>2. g.day = CampaignDay[now]
  BY DEF Exact
<1>3. c \notin PlannedIn(gens)
  BY <1>1, ProjectionTerms DEF Eligible
<1> HIDE DEF g
<1>4. Enters(Listed(g))
  BY <1>1, <1>2, <1>3, EntersBy
<1>5. QED
  BY <1>1, <1>4

\* A correction replaces a stored copy, and dates it today.
Corrects(c, copy) ==
  /\ c \in PlannedIn(gens) /\ PlannedIn(gens') = PlannedIn(gens)
  /\ Stored(gens', c) = copy
  /\ \A d \in PlannedIn(gens) \ {c} : /\ Stored(gens', d) = Stored(gens, d)
                                      /\ StoredDay(gens', d) = StoredDay(gens, d)

LEMMA CorrectionCorrects ==
  ASSUME TypeInv, NEW c \in Cand, c \in PlannedIn(gens), NEW decision, ResolveCorrection(c, decision)
  PROVE  \E copy \in Corrected(c, decision) : copy.stage = "draft" /\ Corrects(c, copy)
<1>1. PICK copy \in Copy : /\ copy.stage = "draft" /\ copy \in Corrected(c, decision)
                           /\ Extends(Correction(c, copy))
                           /\ Listed(Correction(c, copy)) = {c} /\ Correction(c, copy).copy[c] = copy
  BY CorrectionMoves
<1> DEFINE g == Correction(c, copy)
<1> HIDE DEF g
<1>2. gens \in Seq(Generation) /\ g \in Generation /\ gens' = Append(gens, g) /\ Listed(g) = {c} /\ g.copy[c] = copy
  BY <1>1 DEF TypeInv, TypeOK, Extends, WellFormed, Saved, g
<1>3. /\ PlannedIn(gens') = PlannedIn(gens) \cup Listed(g)
      /\ \A d \in Listed(g) : Stored(gens', d) = g.copy[d]
      /\ \A d \in PlannedIn(gens) \ Listed(g) : /\ Stored(gens', d) = Stored(gens, d)
                                                 /\ StoredDay(gens', d) = StoredDay(gens, d)
  BY <1>2, AppendedGeneration
<1>5. Corrects(c, copy)
  BY <1>2, <1>3 DEF Corrects
<1>4. QED
  BY <1>1, <1>5

-----------------------------------------------------------------------------
(* How the steps change who waits.                                          *)

LEMMA SameWaits ==
  ASSUME gens' = gens, disp' = disp, NEW c
  PROVE  Waits(c)' <=> Waits(c)
  BY DEF Waits, DismissedOn, IsExcluded

LEMMA EntersWaits ==
  ASSUME NEW N, Enters(N), disp' = disp, \A c \in N : ~DismissedOn(c, CampaignDay[now]), NEW c
  PROVE  Waits(c)' <=> Waits(c) \/ c \in N
<1>2. Waits(c)' <=> c \in PlannedIn(gens') /\ ~DismissedOn(c, StoredDay(gens', c))
  BY DEF Waits, DismissedOn, IsExcluded
<1>3. CASE c \in N
  BY <1>2, <1>3 DEF Enters
<1>4. CASE c \notin N /\ c \in PlannedIn(gens)
  BY <1>2, <1>4 DEF Enters, Waits
<1>5. CASE c \notin N /\ c \notin PlannedIn(gens)
  BY <1>2, <1>5 DEF Enters, Waits
<1>6. QED
  BY <1>3, <1>4, <1>5

\* A disposition is in force from the step that records it, for its candidate only.
LEMMA RecordedDismisses ==
  ASSUME TypeInv, NEW c \in Cand, NEW day \in Days,
         NEW d \in {"skipped", "permanently-excluded"}, Recorded(c, day, d, EventOf(d))
  PROVE  /\ disp'[c][day] # "none"
         /\ \A e \in Cand, x \in Days : e # c => disp'[e][x] = disp[e][x]
<1>1. d \in Disposition /\ EventOf(d) \in Event
  BY DEF Disposition, EventOf, Event
<1>2. /\ disp'[c][day] = d
      /\ \A e \in Cand, x \in Days : <<e, x>> # <<c, day>> => disp'[e][x] = disp[e][x]
  BY <1>1, RecordedTypes
<1>3. QED
  BY <1>2

LEMMA DismissedWaits ==
  ASSUME TypeInv, NEW c \in Cand, c \in PlannedIn(gens), gens' = gens,
         NEW d \in {"skipped", "permanently-excluded"},
         Recorded(c, StoredDay(gens, c), d, EventOf(d)), NEW e \in Cand
  PROVE  Waits(e)' <=> Waits(e) /\ e # c
<1>1. gens \in Seq(Generation)
  BY DEF TypeInv, TypeOK
<1>2. \A x \in PlannedIn(gens) : StoredDay(gens, x) \in Days
  BY <1>1, StoredFacts
<1>3. /\ disp'[c][StoredDay(gens, c)] # "none"
      /\ \A y \in Cand, x \in Days : y # c => disp'[y][x] = disp[y][x]
  BY <1>2, RecordedDismisses
<1>4. CASE e = c
  BY <1>3, <1>4 DEF Waits, DismissedOn
<1>5. CASE e # c
  BY <1>2, <1>3, <1>5 DEF Waits, DismissedOn, IsExcluded
<1>6. QED
  BY <1>4, <1>5

LEMMA AsideWaits ==
  ASSUME TypeInv, NEW c \in Cand, c \notin PlannedIn(gens), gens' = gens, NEW day \in Days,
         NEW d \in {"skipped", "permanently-excluded"},
         Recorded(c, day, d, EventOf(d)), NEW e \in Cand
  PROVE  Waits(e)' <=> Waits(e)
<1>1. gens \in Seq(Generation)
  BY DEF TypeInv, TypeOK
<1>2. \A x \in PlannedIn(gens) : StoredDay(gens, x) \in Days
  BY <1>1, StoredFacts
<1>3. \A y \in Cand, x \in Days : y # c => disp'[y][x] = disp[y][x]
  BY RecordedDismisses
<1>4. CASE e = c
  BY <1>4 DEF Waits
<1>5. CASE e # c
  BY <1>2, <1>3, <1>5 DEF Waits, DismissedOn, IsExcluded
<1>6. QED
  BY <1>4, <1>5

DismissedIn(D, c, day) == D[c][day] # "none" \/ \E x \in Days : D[c][x] = "permanently-excluded"

LEMMA ReplacedWaits ==
  ASSUME TypeInv, NEW c \in Cand, c \in PlannedIn(gens), NEW d \in Cand, Enters({d}),
         ~DismissedOn(d, CampaignDay[now]),
         Recorded(c, StoredDay(gens, c), "skipped", EventOf("skipped")), NEW e \in Cand
  PROVE  Waits(e)' <=> (Waits(e) /\ e # c) \/ e = d
<1>1. gens \in Seq(Generation) /\ CampaignDay[now] \in Days
  BY DaysAreDays DEF TypeInv, TypeOK
<1>2. \A x \in PlannedIn(gens) : StoredDay(gens, x) \in Days
  BY <1>1, StoredFacts
<1>3. /\ disp'[c][StoredDay(gens, c)] # "none"
      /\ \A y \in Cand, x \in Days : y # c => disp'[y][x] = disp[y][x]
  BY <1>2, RecordedDismisses
<1>4. c # d
  BY DEF Enters
<1>5. Waits(e)' <=> e \in PlannedIn(gens') /\ ~DismissedIn(disp', e, StoredDay(gens', e))
  BY DEF Waits, DismissedOn, IsExcluded, DismissedIn
<1>6. CASE e = c
  <2>1. StoredDay(gens', c) = StoredDay(gens, c)
    BY DEF Enters
  <2>2. DismissedIn(disp', c, StoredDay(gens', c))
    BY <1>3, <2>1 DEF DismissedIn
  <2>3. QED
    BY <1>4, <1>5, <1>6, <2>2
<1>7. CASE e = d
  <2>1. StoredDay(gens', d) = CampaignDay[now] /\ d \in PlannedIn(gens')
    BY DEF Enters
  <2>2. disp'[d][CampaignDay[now]] = disp[d][CampaignDay[now]] /\ \A x \in Days : disp'[d][x] = disp[d][x]
    BY <1>1, <1>3, <1>4
  <2>3. ~DismissedIn(disp', d, StoredDay(gens', d))
    BY <2>1, <2>2 DEF DismissedIn, DismissedOn, IsExcluded
  <2>4. QED
    BY <1>5, <1>7, <2>1, <2>3
<1>8. CASE e # c /\ e # d
  <2>1. e \in PlannedIn(gens') <=> e \in PlannedIn(gens)
    BY <1>8 DEF Enters
  <2>2. CASE e \in PlannedIn(gens)
    <3>1. StoredDay(gens', e) = StoredDay(gens, e)
      BY <2>2 DEF Enters
    <3>2. \A x \in Days : disp'[e][x] = disp[e][x]
      BY <1>3, <1>8
    <3>3. DismissedIn(disp', e, StoredDay(gens', e)) <=> DismissedOn(e, StoredDay(gens, e))
      BY <1>2, <2>2, <3>1, <3>2 DEF DismissedIn, DismissedOn, IsExcluded
    <3>4. QED
      BY <1>5, <1>8, <2>1, <3>3 DEF Waits
  <2>3. CASE e \notin PlannedIn(gens)
    BY <1>5, <1>8, <2>1, <2>3 DEF Waits
  <2>4. QED
    BY <2>2, <2>3
<1>9. QED
  BY <1>6, <1>7, <1>8

-----------------------------------------------------------------------------
(* One holder per company.                                                  *)

LEMMA SameCooling ==
  ASSUME op' = op, sentAt' = sentAt, now' = now, NEW k
  PROVE  CoolingDown(k)' <=> CoolingDown(k)
  BY DEF CoolingDown

\* Nobody new waits.
LEMMA NarrowerCompanies ==
  ASSUME CompanyInv, op' = op, sentAt' = sentAt, now' = now, \A c \in Cand : Waits(c)' => Waits(c)
  PROVE  CompanyInv'
<1>1. \A c \in Cand : Holds(c)' => Holds(c)
  BY DEF Holds, IsLive
<1>2. \A k : CoolingDown(k)' <=> CoolingDown(k)
  BY SameCooling
<1>3. \A c, d : After(c, d)' <=> After(c, d)
  BY DEF After
<1>4. \A c, d \in Cand : CompanyOf[c] = CompanyOf[d] /\ Holds(c)' /\ Holds(d)' => c = d
  BY <1>1 DEF CompanyInv
<1>5. \A c \in Cand : Waits(c)' /\ op'[c] = "none" => ~CoolingDown(CompanyOf[c])'
  BY <1>2 DEF CompanyInv
<1>6. \A c, d \in Cand :
        /\ CompanyOf[c] = CompanyOf[d] /\ op'[c] = "sent"
        /\ op'[d] \in {"sending", "send-status-uncertain"}
        => After(c, d)'
  BY <1>3 DEF CompanyInv
<1>7. OneContactPerCompany'
  BY DEF CompanyInv, OneContactPerCompany
<1>8. QED
  BY <1>4, <1>5, <1>6, <1>7 DEF CompanyInv

\* Who holds a company keeps it from the reserve, but for the draft about to be replaced.
LEMMA HoldersOccupy ==
  ASSUME Legacy = <<>>, QueueInv, NEW d \in Cand, Holds(d), NEW x, d # x
  PROVE  CompanyOf[d] \in Occupied(x)
<1>1. Shown(d) \/ IsLive(d)
  BY ShownWaits DEF Holds
<1>2. QED
  BY <1>1 DEF Occupied

\* Some enter from the reserve, when at most x stops to wait.
LEMMA WiderCompanies ==
  ASSUME Legacy = <<>>, QueueInv, op' = op, sentAt' = sentAt, now' = now,
         NEW b, NEW x, x \in Cand => ~IsLive(x),
         NEW N, N \subseteq Eligible(b, x),
         \A c, d \in N : CompanyOf[c] = CompanyOf[d] => c = d,
         \A c \in Cand : Waits(c)' => (Waits(c) /\ c # x) \/ c \in N
  PROVE  CompanyInv'
<1>1. CompanyInv
  BY DEF QueueInv
<1>2. \A c \in Cand : Holds(c)' => (Holds(c) /\ c # x) \/ c \in N
  BY DEF Holds, IsLive
<1>3. \A c \in N : c \in Cand /\ CompanyOf[c] \notin Occupied(x) /\ ~CoolingDown(CompanyOf[c])
  BY DEF Eligible
<1>4. \A k : CoolingDown(k)' <=> CoolingDown(k)
  BY SameCooling
<1>5. \A c, d : After(c, d)' <=> After(c, d)
  BY DEF After
<1>6. ASSUME NEW c \in Cand, NEW d \in Cand, CompanyOf[c] = CompanyOf[d], Holds(c)', Holds(d)'
      PROVE  c = d
  <2>1. CASE c \in N /\ d \in N
    BY <1>6, <2>1
  <2>2. CASE c \in N /\ d \notin N
    <3>1. Holds(d) /\ d # x
      BY <1>2, <1>6, <2>2
    <3>2. CompanyOf[d] \in Occupied(x)
      BY <3>1, HoldersOccupy
    <3>3. QED
      BY <1>3, <1>6, <2>2, <3>2
  <2>3. CASE c \notin N /\ d \in N
    <3>1. Holds(c) /\ c # x
      BY <1>2, <1>6, <2>3
    <3>2. CompanyOf[c] \in Occupied(x)
      BY <3>1, HoldersOccupy
    <3>3. QED
      BY <1>3, <1>6, <2>3, <3>2
  <2>4. CASE c \notin N /\ d \notin N
    BY <1>1, <1>2, <1>6, <2>4 DEF CompanyInv
  <2>5. QED
    BY <2>1, <2>2, <2>3, <2>4
<1>7. \A c \in Cand : Waits(c)' /\ op'[c] = "none" => ~CoolingDown(CompanyOf[c])'
  BY <1>1, <1>3, <1>4 DEF CompanyInv
<1>8. \A c, d \in Cand :
        /\ CompanyOf[c] = CompanyOf[d] /\ op'[c] = "sent"
        /\ op'[d] \in {"sending", "send-status-uncertain"}
        => After(c, d)'
  BY <1>1, <1>5 DEF CompanyInv
<1>9. OneContactPerCompany'
  BY <1>1 DEF CompanyInv, OneContactPerCompany
<1>10. QED
  BY <1>6, <1>7, <1>8, <1>9 DEF CompanyInv

\* An operation of a holder moves on, short of being sent or started.
LEMMA OpenedCompanies ==
  ASSUME TypeInv, CompanyInv, NEW c \in Cand, Holds(c), NEW s \in Live, op' = [op EXCEPT ![c] = s],
         s \in {"sending", "send-status-uncertain"} => op[c] \in {"sending", "send-status-uncertain"},
         sentAt' = sentAt, now' = now, gens' = gens, disp' = disp
  PROVE  CompanyInv'
<1>1. op \in [Cand -> Live \cup {"none", "sent"}]
  BY DEF TypeInv, TypeOK
<1>2. op'[c] = s /\ \A d \in Cand : d # c => op'[d] = op[d]
  BY <1>1
<1>3. s # "none" /\ s # "sent"
  BY DEF Live
<1>4. op[c] # "sent"
  BY DEF Holds, IsLive, Live
<1>5. \A d \in Cand : op'[d] = "sent" <=> op[d] = "sent"
  BY <1>2, <1>3, <1>4
<1>6. \A d \in Cand : Waits(d)' <=> Waits(d)
  BY SameWaits
<1>7. \A d \in Cand : Holds(d)' => Holds(d)
  BY <1>2, <1>6 DEF Holds, IsLive
<1>8. \A k : CoolingDown(k)' <=> CoolingDown(k)
  BY <1>5 DEF CoolingDown
<1>9. \A d, e : After(d, e)' <=> After(d, e)
  BY DEF After
<1>10. \A d, e \in Cand : CompanyOf[d] = CompanyOf[e] /\ Holds(d)' /\ Holds(e)' => d = e
  BY <1>7 DEF CompanyInv
<1>11. \A d \in Cand : Waits(d)' /\ op'[d] = "none" => ~CoolingDown(CompanyOf[d])'
  BY <1>2, <1>3, <1>6, <1>8 DEF CompanyInv
<1>12. \A d, e \in Cand :
        /\ CompanyOf[d] = CompanyOf[e] /\ op'[d] = "sent"
        /\ op'[e] \in {"sending", "send-status-uncertain"}
        => After(d, e)'
  <2>1. \A e \in Cand : op'[e] \in {"sending", "send-status-uncertain"} => op[e] \in {"sending", "send-status-uncertain"}
    BY <1>2
  <2>2. QED
    BY <1>5, <1>9, <2>1 DEF CompanyInv
<1>13. OneContactPerCompany'
  BY <1>5 DEF CompanyInv, OneContactPerCompany
<1>14. QED
  BY <1>10, <1>11, <1>12, <1>13 DEF CompanyInv

\* A send is started outside the cooldown of everyone of the company who was sent.
LEMMA StartedCompanies ==
  ASSUME TypeInv, CompanyInv, NEW c \in Cand, StartSend(c)
  PROVE  CompanyInv'
<1>1. /\ op \in [Cand -> Live \cup {"none", "sent"}] /\ sentAt \in [Cand -> 1..MaxNow]
      /\ now \in 1..MaxNow
  BY DEF TypeInv, TypeOK
<1>2. /\ op[c] = "open" /\ ~CoolingDown(CompanyOf[c])
      /\ op' = [op EXCEPT ![c] = "sending"] /\ sentAt' = [sentAt EXCEPT ![c] = now]
      /\ now' = now /\ gens' = gens /\ disp' = disp
  BY DEF StartSend, queueVars
<1>3. /\ op'[c] = "sending" /\ sentAt'[c] = now
      /\ \A d \in Cand : d # c => op'[d] = op[d] /\ sentAt'[d] = sentAt[d]
  BY <1>1, <1>2
<1>4. \A d \in Cand : op'[d] = "sent" <=> op[d] = "sent" /\ d # c
  BY <1>2, <1>3
<1>5. \A d \in Cand : Waits(d)' <=> Waits(d)
  BY <1>2, SameWaits
<1>6. \A d \in Cand : Holds(d)' => Holds(d)
  BY <1>2, <1>3, <1>5 DEF Holds, IsLive, Live
<1>7. \A k : CoolingDown(k)' => CoolingDown(k)
  BY <1>2, <1>3, <1>4 DEF CoolingDown
<1>8. \A d, e \in Cand : CompanyOf[d] = CompanyOf[e] /\ Holds(d)' /\ Holds(e)' => d = e
  BY <1>6 DEF CompanyInv
<1>9. \A d \in Cand : Waits(d)' /\ op'[d] = "none" => ~CoolingDown(CompanyOf[d])'
  BY <1>3, <1>5, <1>7 DEF CompanyInv
<1>10. ASSUME NEW d \in Cand, NEW e \in Cand, CompanyOf[d] = CompanyOf[e], op'[d] = "sent",
              op'[e] \in {"sending", "send-status-uncertain"}
       PROVE  After(d, e)'
  <2>1. d # c /\ op[d] = "sent" /\ sentAt'[d] = sentAt[d]
    BY <1>3, <1>4, <1>10
  <2>2. CASE e = c
    <3>1. ~(UtcDay[now] < UtcDay[sentAt[d]] + CooldownDays)
      BY <1>2, <1>10, <2>1, <2>2 DEF CoolingDown
    <3>2. UtcDay[now] \in Nat /\ UtcDay[sentAt[d]] \in Nat
      BY <1>1, QueueAssumption
    <3>3. UtcDay[now] >= UtcDay[sentAt[d]] + CooldownDays
      BY <3>1, <3>2 DEF CooldownDays
    <3>4. QED
      BY <1>3, <2>1, <2>2, <3>3 DEF After
  <2>3. CASE e # c
    <3>1. op[e] \in {"sending", "send-status-uncertain"} /\ sentAt'[e] = sentAt[e]
      BY <1>3, <1>10, <2>3
    <3>2. After(d, e)
      BY <1>10, <2>1, <3>1 DEF CompanyInv
    <3>3. QED
      BY <2>1, <3>1, <3>2 DEF After
  <2>4. QED
    BY <2>2, <2>3
<1>11. OneContactPerCompany'
  <2>1. \A d \in Cand : op'[d] = "sent" => op[d] = "sent" /\ sentAt'[d] = sentAt[d]
    BY <1>3, <1>4
  <2>2. QED
    BY <2>1 DEF CompanyInv, OneContactPerCompany
<1>12. QED
  BY <1>8, <1>9, <1>10, <1>11 DEF CompanyInv

\* A confirmed send was started after the cooldown of the others, and no other of the
\* company waits for it.
LEMMA ConfirmedCompanies ==
  ASSUME TypeInv, CompanyInv, NEW c \in Cand, SendConfirmed(c)
  PROVE  CompanyInv'
<1>1. /\ op \in [Cand -> Live \cup {"none", "sent"}] /\ sentAt \in [Cand -> 1..MaxNow]
      /\ now \in 1..MaxNow
  BY DEF TypeInv, TypeOK
<1>2. /\ op[c] \in {"sending", "send-status-uncertain"} /\ op' = [op EXCEPT ![c] = "sent"]
      /\ now' = now /\ gens' = gens /\ disp' = disp
  BY DEF SendConfirmed, queueVars
<1>3. PICK t \in sentAt[c]..now : sentAt' = [sentAt EXCEPT ![c] = t]
  BY DEF SendConfirmed
<1>4. t \in 1..MaxNow /\ sentAt[c] \in 1..MaxNow /\ sentAt[c] <= t
  BY <1>1, QueueAssumption
<1>5. /\ op'[c] = "sent" /\ sentAt'[c] = t
      /\ \A d \in Cand : d # c => op'[d] = op[d] /\ sentAt'[d] = sentAt[d]
  BY <1>1, <1>2, <1>3
<1>6. IsLive(c) /\ Holds(c) /\ ~Holds(c)'
  BY <1>2, <1>5 DEF Holds, IsLive, Live
<1>7. \A d \in Cand : Waits(d)' <=> Waits(d)
  BY <1>2, SameWaits
<1>8. \A d \in Cand : Holds(d)' => Holds(d) /\ d # c
  <2>1. \A d \in Cand : d # c /\ Holds(d)' => Holds(d)
    BY <1>5, <1>7 DEF Holds, IsLive
  <2>2. QED
    BY <1>6, <2>1
<1>9. \A d \in Cand : Holds(d)' => CompanyOf[d] # CompanyOf[c]
  BY <1>6, <1>8 DEF CompanyInv
<1>10. \A d, e \in Cand : CompanyOf[d] = CompanyOf[e] /\ Holds(d)' /\ Holds(e)' => d = e
  BY <1>8 DEF CompanyInv
<1>11. \A k : k # CompanyOf[c] /\ CoolingDown(k)' => CoolingDown(k)
  BY <1>2, <1>5 DEF CoolingDown
<1>12. ASSUME NEW d \in Cand, Waits(d)', op'[d] = "none"
       PROVE  ~CoolingDown(CompanyOf[d])'
  <2>1. Holds(d)'
    BY <1>12 DEF Holds
  <2>2. CompanyOf[d] # CompanyOf[c] /\ d # c
    BY <1>8, <1>9, <2>1
  <2>3. Waits(d) /\ op[d] = "none"
    BY <1>5, <1>7, <1>12, <2>2
  <2>4. ~CoolingDown(CompanyOf[d])
    BY <2>3 DEF CompanyInv
  <2>5. QED
    BY <1>11, <2>2, <2>4
<1>13. ASSUME NEW d \in Cand, NEW e \in Cand, CompanyOf[d] = CompanyOf[e], op'[d] = "sent",
              op'[e] \in {"sending", "send-status-uncertain"}
       PROVE  After(d, e)'
  <2>1. Holds(e)'
    BY <1>13 DEF Holds, IsLive, Live
  <2>2. CompanyOf[e] # CompanyOf[c]
    BY <1>9, <2>1
  <2>3. d # c /\ e # c
    BY <1>13, <2>2
  <2>4. op[d] = "sent" /\ op[e] \in {"sending", "send-status-uncertain"} /\ sentAt'[d] = sentAt[d] /\ sentAt'[e] = sentAt[e]
    BY <1>5, <1>13, <2>3
  <2>5. After(d, e)
    BY <1>13, <2>4 DEF CompanyInv
  <2>6. QED
    BY <2>4, <2>5 DEF After
<1>14. ASSUME NEW d \in Cand, d # c, CompanyOf[d] = CompanyOf[c], op[d] = "sent"
       PROVE  UtcDay[t] >= UtcDay[sentAt[d]] + CooldownDays
  <2>1. UtcDay[sentAt[c]] >= UtcDay[sentAt[d]] + CooldownDays
    BY <1>2, <1>14 DEF CompanyInv, After
  <2>2. UtcDay[t] >= UtcDay[sentAt[c]]
    BY <1>4, QueueAssumption
  <2>3. UtcDay[t] \in Nat /\ UtcDay[sentAt[c]] \in Nat /\ UtcDay[sentAt[d]] \in Nat
    BY <1>1, <1>4, QueueAssumption
  <2>4. QED
    BY <2>1, <2>2, <2>3 DEF CooldownDays
<1>15. ASSUME NEW d \in Cand, NEW e \in Cand, d # e, CompanyOf[d] = CompanyOf[e],
              op'[d] = "sent", op'[e] = "sent"
       PROVE  \/ UtcDay[sentAt'[d]] >= UtcDay[sentAt'[e]] + CooldownDays
              \/ UtcDay[sentAt'[e]] >= UtcDay[sentAt'[d]] + CooldownDays
  <2>1. CASE d = c
    BY <1>5, <1>14, <1>15, <2>1
  <2>2. CASE e = c
    BY <1>5, <1>14, <1>15, <2>2
  <2>3. CASE d # c /\ e # c
    BY <1>5, <1>15, <2>3 DEF CompanyInv, OneContactPerCompany
  <2>4. QED
    BY <2>1, <2>2, <2>3
<1>16. OneContactPerCompany'
  BY <1>15 DEF OneContactPerCompany
<1>17. QED
  BY <1>10, <1>12, <1>13, <1>16 DEF CompanyInv

\* Time ends cooldowns and begins none.
LEMMA LaterCompanies ==
  ASSUME TypeInv, CompanyInv, Tick
  PROVE  CompanyInv'
<1>1. now < MaxNow /\ now' = now + 1 /\ op' = op /\ sentAt' = sentAt /\ gens' = gens /\ disp' = disp
  BY DEF Tick, queueVars, sendVars
<1>2. now \in 1..MaxNow /\ now' \in 1..MaxNow /\ now <= now' /\ sentAt \in [Cand -> 1..MaxNow]
  BY <1>1, QueueAssumption DEF TypeInv, TypeOK
<1>3. UtcDay[now] <= UtcDay[now'] /\ UtcDay[now] \in Nat /\ UtcDay[now'] \in Nat
  BY <1>2, QueueAssumption
<1>4. \A d \in Cand : Waits(d)' <=> Waits(d)
  BY <1>1, SameWaits
<1>5. \A d \in Cand : Holds(d)' <=> Holds(d)
  BY <1>1, <1>4 DEF Holds, IsLive
<1>6. ASSUME NEW k, CoolingDown(k)' PROVE CoolingDown(k)
  <2>1. PICK d \in Cand : CompanyOf[d] = k /\ op[d] = "sent" /\ UtcDay[now'] < UtcDay[sentAt[d]] + CooldownDays
    BY <1>1, <1>6 DEF CoolingDown
  <2>2. UtcDay[sentAt[d]] \in Nat
    BY <1>2, QueueAssumption
  <2>3. UtcDay[now] < UtcDay[sentAt[d]] + CooldownDays
    BY <1>3, <2>1, <2>2 DEF CooldownDays
  <2>4. QED
    BY <2>1, <2>3 DEF CoolingDown
<1>7. \A d \in Cand : Waits(d)' /\ op'[d] = "none" => ~CoolingDown(CompanyOf[d])'
  BY <1>1, <1>4, <1>6 DEF CompanyInv
<1>8. \A d, e : After(d, e)' <=> After(d, e)
  BY <1>1 DEF After
<1>9. \A d, e \in Cand : CompanyOf[d] = CompanyOf[e] /\ Holds(d)' /\ Holds(e)' => d = e
  BY <1>5 DEF CompanyInv
<1>10. OneContactPerCompany'
  BY <1>1 DEF CompanyInv, OneContactPerCompany
<1>11. QED
  BY <1>1, <1>7, <1>8, <1>9, <1>10 DEF CompanyInv

-----------------------------------------------------------------------------
(* What each action does to the queue.                                      *)

LEMMA AddEffect ==
  ASSUME Legacy = <<>>, QueueInv, NEW q \in Request \cup {NoRequest}, NEW b \in Bucket, NEW n \in Counts,
         AddBucketDrafts(q, b, n)
  PROVE  \E N \in SUBSET Cand :
           /\ N \subseteq Eligible(b, NoOne) /\ Enters(N)
           /\ \A c, d \in N : CompanyOf[c] = CompanyOf[d] => c = d
           /\ \A c \in Cand : Waits(c)' <=> Waits(c) \/ c \in N
<1>1. TypeInv /\ StoredInv
  BY DEF QueueInv
<1>2. PICK new \in Seq(Cand) :
        /\ Elements(new) \subseteq Eligible(b, NoOne)
        /\ \A c, d \in Elements(new) : CompanyOf[c] = CompanyOf[d] => c = d
        /\ Extends(Addition(q, new, NoOne))
        /\ Listed(Addition(q, new, NoOne)) = Elements(Carried(NoOne)) \cup Elements(new)
  BY <1>1, AddMoves
<1> DEFINE N == Elements(new)
<1>3. Enters(N)
  BY <1>1, <1>2, AdditionEnters
<1>4. N \in SUBSET Cand
  BY DEF Elements
<1> HIDE DEF N
<1>5. \A c \in N : ~DismissedOn(c, CampaignDay[now])
  BY <1>2 DEF Eligible, N
<1>6. disp' = disp
  BY DEF AddBucketDrafts
<1>7. \A c \in Cand : Waits(c)' <=> Waits(c) \/ c \in N
  BY <1>3, <1>5, <1>6, EntersWaits
<1>8. QED
  BY <1>2, <1>3, <1>4, <1>7 DEF N

LEMMA ExactEffect ==
  ASSUME TypeInv, NEW c \in Cand, NEW q \in Request, CreateExactDraft(c, q)
  PROVE  /\ c \in Eligible(class[c], NoOne) /\ Enters({c})
         /\ \A e \in Cand : Waits(e)' <=> Waits(e) \/ e = c
<1>1. Enters({c}) /\ c \in Eligible(class[c], NoOne)
  BY ExactEnters
<1>2. \A e \in {c} : ~DismissedOn(e, CampaignDay[now])
  BY <1>1 DEF Eligible
<1>3. disp' = disp
  BY DEF CreateExactDraft
<1>4. \A e \in Cand : Waits(e)' <=> Waits(e) \/ e \in {c}
  BY <1>1, <1>2, <1>3, EntersWaits
<1>5. QED
  BY <1>1, <1>4

\* A disposition on a draft that is shown is the first of that day.
LEMMA ShownIsUndismissed ==
  ASSUME Legacy = <<>>, QueueInv, NEW c \in Cand, Shown(c)
  PROVE  /\ Waits(c) /\ c \in PlannedIn(gens) /\ DraftDay(c) = StoredDay(gens, c)
         /\ disp[c][DraftDay(c)] = "none" /\ DraftDay(c) \in Days
<1>1. Waits(c)
  BY ShownWaits
<1>2. c \in PlannedIn(gens) /\ DraftDay(c) = StoredDay(gens, c)
  BY <1>1, ProjectionTerms DEF Waits
<1>3. DraftDay(c) \in Days
  BY DraftTypes DEF QueueInv
<1>4. QED
  BY <1>1, <1>2, <1>3 DEF Waits, DismissedOn

LEMMA ReplaceEffect ==
  ASSUME Legacy = <<>>, QueueInv, NEW c \in Cand, NEW b \in Bucket, ReplaceDraft(c, b)
  PROVE  \E d \in Cand :
           /\ d \in Eligible(b, c) /\ Enters({d}) /\ Waits(c) /\ ~IsLive(c)
           /\ \A e \in Cand : Waits(e)' <=> (Waits(e) /\ e # c) \/ e = d
<1>1. TypeInv /\ StoredInv
  BY DEF QueueInv
<1>2. PICK new \in Seq(Cand) :
        /\ Elements(new) \subseteq Eligible(b, c)
        /\ \E d \in Eligible(b, c) : Elements(new) = {d}
        /\ Extends(Addition(NoRequest, new, c))
        /\ Listed(Addition(NoRequest, new, c)) = Elements(Carried(c)) \cup Elements(new)
        /\ disp' = [disp EXCEPT ![c][DraftDay(c)] = IF @ = "none" THEN "skipped" ELSE @]
        /\ audit' = [audit EXCEPT ![c][DraftDay(c)] = Append(@, "draft-skipped")]
  BY <1>1, ReplaceMoves
<1>3. PICK d \in Eligible(b, c) : Elements(new) = {d}
  BY <1>2
<1>4. Enters(Elements(new))
  BY <1>1, <1>2, AdditionEnters
<1>5. Enters({d})
  BY <1>3, <1>4
<1>6. d \in Cand /\ ~DismissedOn(d, CampaignDay[now])
  BY DEF Eligible
<1>7. Shown(c) /\ ~IsLive(c)
  BY DEF ReplaceDraft
<1>8. /\ Waits(c) /\ c \in PlannedIn(gens) /\ DraftDay(c) = StoredDay(gens, c)
      /\ disp[c][DraftDay(c)] = "none"
  BY <1>7, ShownIsUndismissed
<1>9. Recorded(c, StoredDay(gens, c), "skipped", EventOf("skipped"))
  BY <1>2, <1>8 DEF Recorded, EventOf
<1>10. \A e \in Cand : Waits(e)' <=> (Waits(e) /\ e # c) \/ e = d
  BY <1>1, <1>5, <1>6, <1>8, <1>9, ReplacedWaits
<1>11. QED
  BY <1>5, <1>6, <1>7, <1>8, <1>10

LEMMA CorrectEffect ==
  ASSUME Legacy = <<>>, QueueInv, NEW c \in Cand, NEW decision, ResolveCorrection(c, decision)
  PROVE  \E copy \in Corrected(c, decision) :
           /\ copy.stage = "draft" /\ Corrects(c, copy) /\ Waits(c) /\ ~IsLive(c)
           /\ \A e \in Cand : e # c => (Waits(e)' <=> Waits(e))
<1>1. Shown(c) /\ ~IsLive(c) /\ disp' = disp
  BY DEF ResolveCorrection, Changed
<1>2. Waits(c) /\ c \in PlannedIn(gens)
  BY <1>1, ShownIsUndismissed
<1>3. PICK copy \in Corrected(c, decision) : copy.stage = "draft" /\ Corrects(c, copy)
  BY <1>2, CorrectionCorrects DEF QueueInv
<1>4. ASSUME NEW e \in Cand, e # c PROVE Waits(e)' <=> Waits(e)
  <2>1. Waits(e)' <=> e \in PlannedIn(gens') /\ ~DismissedIn(disp', e, StoredDay(gens', e))
    BY DEF Waits, DismissedOn, IsExcluded, DismissedIn
  <2>2. Waits(e) <=> e \in PlannedIn(gens) /\ ~DismissedIn(disp, e, StoredDay(gens, e))
    BY DEF Waits, DismissedOn, IsExcluded, DismissedIn
  <2>3. QED
    BY <1>1, <1>3, <1>4, <2>1, <2>2 DEF Corrects
<1>5. QED
  BY <1>1, <1>2, <1>3, <1>4

LEMMA DismissEffect ==
  ASSUME Legacy = <<>>, QueueInv, NEW c \in Cand, NEW d \in {"skipped", "permanently-excluded"},
         DismissDraft(c, d)
  PROVE  /\ gens' = gens /\ op' = op /\ sentAt' = sentAt /\ now' = now /\ Waits(c)
         /\ op[c] \notin {"sending", "send-status-uncertain"}
         /\ suppressed' = IF d = "skipped" THEN suppressed ELSE suppressed \cup {c}
         /\ \A e \in Cand : Waits(e)' <=> Waits(e) /\ e # c
<1>1. Shown(c) /\ op[c] \notin {"sending", "send-status-uncertain"} /\ Settle(c, DraftDay(c), d)
  BY DEF DismissDraft, MayDismiss
<1>2. Waits(c) /\ c \in PlannedIn(gens) /\ DraftDay(c) = StoredDay(gens, c) /\ DraftDay(c) \in Days
  BY <1>1, ShownIsUndismissed
<1>3. /\ Recorded(c, StoredDay(gens, c), d, EventOf(d)) /\ gens' = gens /\ op' = op /\ sentAt' = sentAt /\ now' = now
      /\ suppressed' = IF d = "skipped" THEN suppressed ELSE suppressed \cup {c}
  BY <1>1, <1>2 DEF Settle, Recorded, EventOf, sendVars
<1>4. \A e \in Cand : Waits(e)' <=> Waits(e) /\ e # c
  BY <1>2, <1>3, DismissedWaits DEF QueueInv
<1>5. QED
  BY <1>1, <1>2, <1>3, <1>4

LEMMA AsideEffect ==
  ASSUME QueueInv, NEW c \in Cand, NEW d \in {"skipped", "permanently-excluded"}, DismissCandidate(c, d)
  PROVE  /\ gens' = gens /\ op' = op /\ sentAt' = sentAt /\ now' = now /\ c \notin PlannedIn(gens)
         /\ suppressed' = IF d = "skipped" THEN suppressed ELSE suppressed \cup {c}
         /\ \A e \in Cand : Waits(e)' <=> Waits(e)
<1>1. c \notin PlannedIn(gens) /\ Settle(c, CampaignDay[now], d)
  BY ProjectionTerms DEF DismissCandidate, NotDrafted
<1>2. TypeInv /\ CampaignDay[now] \in Days
  BY DaysAreDays DEF QueueInv, TypeInv, TypeOK
<1>3. /\ Recorded(c, CampaignDay[now], d, EventOf(d)) /\ gens' = gens /\ op' = op /\ sentAt' = sentAt /\ now' = now
      /\ suppressed' = IF d = "skipped" THEN suppressed ELSE suppressed \cup {c}
  BY <1>1 DEF Settle, Recorded, EventOf, sendVars
<1>4. \A e \in Cand : Waits(e)' <=> Waits(e)
  BY <1>1, <1>2, <1>3, AsideWaits
<1>5. QED
  BY <1>1, <1>3, <1>4

-----------------------------------------------------------------------------
(* The invariant of a queue without pilot recommendations.                  *)

LEMMA QueueInvInit == Init => QueueInv
<1> SUFFICES ASSUME Init PROVE QueueInv
  OBVIOUS
<1>1. TypeInv /\ Agreement
  BY TypeInvInit, AgreementInit
<1>2. PlannedIn(gens) = {}
  BY DEF Init, PlannedIn
<1>3. \A c \in Cand : op[c] = "none"
  BY DEF Init
<1>4. StoredInv
  BY <1>2, <1>3 DEF StoredInv
<1>5. \A c \in Cand : ~Waits(c) /\ ~IsLive(c)
  BY <1>2, <1>3 DEF Waits, IsLive, Live
<1>6. CompanyInv
  BY <1>3, <1>5 DEF CompanyInv, Holds, OneContactPerCompany
<1>7. QED
  BY <1>1, <1>4, <1>6 DEF QueueInv

LEMMA StoredSteps ==
  ASSUME StoredInv, op' = op, PlannedIn(gens) \subseteq PlannedIn(gens'),
         \A c \in PlannedIn(gens') : Stored(gens', c).stage = "draft",
         \A c \in Cand : op[c] \in {"sending", "send-status-uncertain"} /\ Waits(c) => Waits(c)'
  PROVE  StoredInv'
  BY DEF StoredInv

LEMMA EntersStored ==
  ASSUME StoredInv, op' = op, NEW N, Enters(N), \A c \in Cand : Waits(c) /\ IsLive(c) => Waits(c)'
  PROVE  StoredInv'
<1>1. ASSUME NEW c \in PlannedIn(gens') PROVE Stored(gens', c).stage = "draft"
  <2>1. CASE c \in N
    BY <2>1 DEF Enters, Rendered
  <2>2. CASE c \in PlannedIn(gens)
    BY <2>2 DEF Enters, StoredInv
  <2>3. QED
    BY <2>1, <2>2 DEF Enters
<1>2. PlannedIn(gens) \subseteq PlannedIn(gens')
  BY DEF Enters
<1>3. \A c \in Cand : op[c] \in {"sending", "send-status-uncertain"} => IsLive(c)
  BY DEF IsLive, Live
<1>4. QED
  BY <1>1, <1>2, <1>3, StoredSteps

LEMMA CorrectsStored ==
  ASSUME StoredInv, op' = op, NEW c \in Cand, NEW copy, copy.stage = "draft", Corrects(c, copy), ~IsLive(c),
         \A e \in Cand : e # c => (Waits(e)' <=> Waits(e))
  PROVE  StoredInv'
<1>1. \A e \in PlannedIn(gens') : Stored(gens', e).stage = "draft"
  BY DEF Corrects, StoredInv
<1>2. PlannedIn(gens) \subseteq PlannedIn(gens')
  BY DEF Corrects
<1>3. \A e \in Cand : op[e] \in {"sending", "send-status-uncertain"} => e # c
  BY DEF IsLive, Live
<1>4. QED
  BY <1>1, <1>2, <1>3, StoredSteps

\* An operation moves: it has a stored draft, which waits if a send was started.
LEMMA MovedStored ==
  ASSUME TypeInv, StoredInv, gens' = gens, disp' = disp, NEW c \in Cand, Waits(c), NEW s, op' = [op EXCEPT ![c] = s]
  PROVE  StoredInv'
<1>1. op' \in [Cand -> {op'[d] : d \in Cand}] /\ op'[c] = s /\ \A d \in Cand : d # c => op'[d] = op[d]
  BY DEF TypeInv, TypeOK
<1>2. \A d \in Cand : Waits(d)' <=> Waits(d)
  BY SameWaits
<1>3. c \in PlannedIn(gens)
  BY DEF Waits
<1>4. \A d \in Cand : op'[d] # "none" => d \in PlannedIn(gens)
  BY <1>1, <1>3 DEF StoredInv
<1>5. \A d \in Cand : op'[d] \in {"sending", "send-status-uncertain"} => Waits(d)
  BY <1>1 DEF StoredInv
<1>6. QED
  BY <1>2, <1>4, <1>5 DEF StoredInv

LEMMA QueueInvNext ==
  ASSUME Legacy = <<>>
  PROVE  QueueInv /\ [Next]_vars => StoredInv' /\ CompanyInv'
<1> SUFFICES ASSUME QueueInv, [Next]_vars PROVE StoredInv' /\ CompanyInv'
  OBVIOUS
<1>0. TypeInv /\ Agreement /\ StoredInv /\ CompanyInv
  BY DEF QueueInv
<1>1. ASSUME gens' = gens, disp' = disp, op' = op, sentAt' = sentAt, now' = now
      PROVE  StoredInv' /\ CompanyInv'
  <2>1. \A c \in Cand : Waits(c)' <=> Waits(c)
    BY <1>1, SameWaits
  <2>2. StoredInv'
    BY <1>0, <1>1, <2>1 DEF StoredInv
  <2>3. CompanyInv'
    BY <1>0, <1>1, <2>1, NarrowerCompanies
  <2>4. QED
    BY <2>2, <2>3
<1>2. ASSUME NEW q \in Request \cup {NoRequest}, NEW b \in Bucket, NEW n \in Counts, AddBucketDrafts(q, b, n)
      PROVE  StoredInv' /\ CompanyInv'
  <2>1. PICK N \in SUBSET Cand :
          /\ N \subseteq Eligible(b, NoOne) /\ Enters(N)
          /\ \A c, d \in N : CompanyOf[c] = CompanyOf[d] => c = d
          /\ \A c \in Cand : Waits(c)' <=> Waits(c) \/ c \in N
    BY <1>2, AddEffect
  <2>2. op' = op /\ sentAt' = sentAt /\ now' = now
    BY <1>2 DEF AddBucketDrafts, sendVars
  <2>3. NoOne \notin Cand
    BY QueueAssumption
  <2>4. \A c \in Cand : Waits(c)' => (Waits(c) /\ c # NoOne) \/ c \in N
    BY <2>1, <2>3
  <2>5. CompanyInv'
    BY <2>1, <2>2, <2>3, <2>4, WiderCompanies
  <2>6. StoredInv'
    BY <1>0, <2>1, <2>2, EntersStored
  <2>7. QED
    BY <2>5, <2>6
<1>3. ASSUME NEW c \in Cand, NEW b \in Bucket, ReplaceDraft(c, b) PROVE StoredInv' /\ CompanyInv'
  <2>1. PICK d \in Cand :
          /\ d \in Eligible(b, c) /\ Enters({d}) /\ Waits(c) /\ ~IsLive(c)
          /\ \A e \in Cand : Waits(e)' <=> (Waits(e) /\ e # c) \/ e = d
    BY <1>3, ReplaceEffect
  <2>2. op' = op /\ sentAt' = sentAt /\ now' = now
    BY <1>3 DEF ReplaceDraft, sendVars
  <2>3. /\ {d} \subseteq Eligible(b, c) /\ \A x, y \in {d} : CompanyOf[x] = CompanyOf[y] => x = y
        /\ \A e \in Cand : Waits(e)' => (Waits(e) /\ e # c) \/ e \in {d}
    BY <2>1
  <2>4. CompanyInv'
    BY <2>1, <2>2, <2>3, WiderCompanies
  <2>5. \A e \in Cand : Waits(e) /\ IsLive(e) => Waits(e)'
    BY <2>1
  <2>6. StoredInv'
    BY <1>0, <2>1, <2>2, <2>5, EntersStored
  <2>7. QED
    BY <2>4, <2>6
<1>4. ASSUME NEW c \in Cand, NEW q \in Request, CreateExactDraft(c, q) PROVE StoredInv' /\ CompanyInv'
  <2>1. /\ c \in Eligible(class[c], NoOne) /\ Enters({c})
        /\ \A e \in Cand : Waits(e)' <=> Waits(e) \/ e = c
    BY <1>0, <1>4, ExactEffect
  <2>2. op' = op /\ sentAt' = sentAt /\ now' = now
    BY <1>4 DEF CreateExactDraft, sendVars
  <2>3. NoOne \notin Cand
    BY QueueAssumption
  <2>4. /\ {c} \subseteq Eligible(class[c], NoOne) /\ \A x, y \in {c} : CompanyOf[x] = CompanyOf[y] => x = y
        /\ \A e \in Cand : Waits(e)' => (Waits(e) /\ e # NoOne) \/ e \in {c}
    BY <2>1, <2>3
  <2>5. CompanyInv'
    BY <2>2, <2>3, <2>4, WiderCompanies
  <2>6. \A e \in Cand : Waits(e) /\ IsLive(e) => Waits(e)'
    BY <2>1
  <2>7. StoredInv'
    BY <1>0, <2>1, <2>2, <2>6, EntersStored
  <2>8. QED
    BY <2>5, <2>7
<1>5. ASSUME NEW c \in Cand, NEW decision, ResolveCorrection(c, decision) PROVE StoredInv' /\ CompanyInv'
  <2>1. PICK copy \in Corrected(c, decision) :
          /\ copy.stage = "draft" /\ Corrects(c, copy) /\ Waits(c) /\ ~IsLive(c)
          /\ \A e \in Cand : e # c => (Waits(e)' <=> Waits(e))
    BY <1>5, CorrectEffect
  <2>2. op' = op /\ sentAt' = sentAt /\ now' = now
    BY <1>5 DEF ResolveCorrection, sendVars
  <2>3. StoredInv'
    BY <1>0, <2>1, <2>2, CorrectsStored
  <2>4. CompanyInv'
    BY <1>0, <2>1, <2>2, NarrowerCompanies
  <2>5. QED
    BY <2>3, <2>4
<1>6. ASSUME NEW c \in Cand, NEW d \in {"skipped", "permanently-excluded"}, DismissDraft(c, d)
      PROVE  StoredInv' /\ CompanyInv'
  <2>1. /\ gens' = gens /\ op' = op /\ sentAt' = sentAt /\ now' = now
        /\ op[c] \notin {"sending", "send-status-uncertain"}
        /\ \A e \in Cand : Waits(e)' <=> Waits(e) /\ e # c
    BY <1>6, DismissEffect
  <2>2. StoredInv'
    BY <1>0, <2>1 DEF StoredInv
  <2>3. CompanyInv'
    BY <1>0, <2>1, NarrowerCompanies
  <2>4. QED
    BY <2>2, <2>3
<1>7. ASSUME NEW c \in Cand, NEW d \in {"skipped", "permanently-excluded"}, DismissCandidate(c, d)
      PROVE  StoredInv' /\ CompanyInv'
  <2>1. /\ gens' = gens /\ op' = op /\ sentAt' = sentAt /\ now' = now
        /\ \A e \in Cand : Waits(e)' <=> Waits(e)
    BY <1>7, AsideEffect
  <2>2. StoredInv'
    BY <1>0, <2>1 DEF StoredInv
  <2>3. CompanyInv'
    BY <1>0, <2>1, NarrowerCompanies
  <2>4. QED
    BY <2>2, <2>3
<1>8. ASSUME NEW c \in Cand, Approve(c) PROVE StoredInv' /\ CompanyInv'
  <2>1. /\ Shown(c) /\ op[c] = "none" /\ op' = [op EXCEPT ![c] = "open"]
        /\ sentAt' = sentAt /\ now' = now /\ gens' = gens /\ disp' = disp
    BY <1>8 DEF Approve, queueVars
  <2>2. Waits(c)
    BY <2>1, ShownWaits
  <2>3. Holds(c)
    BY <2>1, <2>2 DEF Holds
  <2>4. "open" \in Live
    BY DEF Live
  <2>5. CompanyInv'
    BY <1>0, <2>1, <2>3, <2>4, OpenedCompanies
  <2>6. StoredInv'
    BY <1>0, <2>1, <2>2, MovedStored
  <2>7. QED
    BY <2>5, <2>6
<1>9. ASSUME NEW c \in Cand, StartSend(c) PROVE StoredInv' /\ CompanyInv'
  <2>1. Shown(c) /\ op' = [op EXCEPT ![c] = "sending"] /\ gens' = gens /\ disp' = disp
    BY <1>9 DEF StartSend, queueVars
  <2>2. Waits(c)
    BY <2>1, ShownWaits
  <2>3. StoredInv'
    BY <1>0, <2>1, <2>2, MovedStored
  <2>4. CompanyInv'
    BY <1>0, <1>9, StartedCompanies
  <2>5. QED
    BY <2>3, <2>4
<1>10. ASSUME NEW c \in Cand, SendUnanswered(c) \/ SendRefuted(c) PROVE StoredInv' /\ CompanyInv'
  <2>1. /\ op[c] \in {"sending", "send-status-uncertain"}
        /\ sentAt' = sentAt /\ now' = now /\ gens' = gens /\ disp' = disp
    BY <1>10 DEF SendUnanswered, SendRefuted, queueVars
  <2>2. PICK s \in {"send-status-uncertain", "open"} : op' = [op EXCEPT ![c] = s]
    BY <1>10 DEF SendUnanswered, SendRefuted
  <2>3. Waits(c) /\ Holds(c)
    BY <1>0, <2>1 DEF StoredInv, Holds, IsLive, Live
  <2>4. s \in Live
    BY DEF Live
  <2>5. CompanyInv'
    BY <1>0, <2>1, <2>2, <2>3, <2>4, OpenedCompanies
  <2>6. StoredInv'
    BY <1>0, <2>1, <2>2, <2>3, MovedStored
  <2>7. QED
    BY <2>5, <2>6
<1>11. ASSUME NEW c \in Cand, SendConfirmed(c) PROVE StoredInv' /\ CompanyInv'
  <2>1. /\ op[c] \in {"sending", "send-status-uncertain"} /\ op' = [op EXCEPT ![c] = "sent"]
        /\ gens' = gens /\ disp' = disp
    BY <1>11 DEF SendConfirmed, queueVars
  <2>2. Waits(c)
    BY <1>0, <2>1 DEF StoredInv
  <2>3. StoredInv'
    BY <1>0, <2>1, <2>2, MovedStored
  <2>4. CompanyInv'
    BY <1>0, <1>11, ConfirmedCompanies
  <2>5. QED
    BY <2>3, <2>4
<1>12. ASSUME NEW c \in Cand, OpenCorrection(c) \/ \E k \in Class : Reclassify(c, k)
       PROVE  StoredInv' /\ CompanyInv'
  <2>1. gens' = gens /\ disp' = disp /\ op' = op /\ sentAt' = sentAt /\ now' = now
    BY <1>12 DEF OpenCorrection, Reclassify, queueVars, sendVars
  <2>2. QED
    BY <1>1, <2>1
<1>13. CASE Tick
  <2>1. gens' = gens /\ disp' = disp /\ op' = op
    BY <1>13 DEF Tick, queueVars, sendVars
  <2>2. \A c \in Cand : Waits(c)' <=> Waits(c)
    BY <2>1, SameWaits
  <2>3. StoredInv'
    BY <1>0, <2>1, <2>2 DEF StoredInv
  <2>4. CompanyInv'
    BY <1>0, <1>13, LaterCompanies
  <2>5. QED
    BY <2>3, <2>4
<1>14. CASE UNCHANGED vars
  <2>1. gens' = gens /\ disp' = disp /\ op' = op /\ sentAt' = sentAt /\ now' = now
    BY <1>14 DEF vars, queueVars, sendVars
  <2>2. QED
    BY <1>1, <2>1
<1>15. QED
  BY <1>2, <1>3, <1>4, <1>5, <1>6, <1>7, <1>8, <1>9, <1>10, <1>11, <1>12, <1>13, <1>14 DEF Next

LEMMA QueueInvAlways ==
  ASSUME Legacy = <<>>
  PROVE  Spec => []QueueInv
<1>1. Init => QueueInv
  BY QueueInvInit
<1>2. QueueInv /\ [Next]_vars => QueueInv'
  BY TypeInvNext, AgreementNext, QueueInvNext DEF QueueInv
<1>3. QED
  BY <1>1, <1>2, PTL DEF Spec

\* Without pilot recommendations, no skip, exclusion, review, correction or day hides a draft
\* whose send was started and not answered.
THEOREM UncertainSendsStayListed ==
  ASSUME Legacy = <<>>
  PROVE  Spec => []UncertainStaysListed
<1>1. QueueInv => UncertainStaysListed
  <2> SUFFICES ASSUME QueueInv, NEW c \in Cand, op[c] \in {"sending", "send-status-uncertain"}
               PROVE  Shown(c)
    BY DEF UncertainStaysListed
  <2>1. Waits(c)
    BY DEF QueueInv, StoredInv
  <2>2. QED
    BY <2>1, ShownWaits
<1>2. QED
  BY <1>1, QueueInvAlways, PTL

\* Without pilot recommendations, two people of a company are written to with the cooldown
\* between them, whatever was open or unanswered when the second was drafted.
THEOREM CompaniesAreContactedOnce ==
  ASSUME Legacy = <<>>
  PROVE  Spec => []OneContactPerCompany
<1>1. QueueInv => OneContactPerCompany
  BY DEF QueueInv, CompanyInv
<1>2. QED
  BY <1>1, QueueInvAlways, PTL

-----------------------------------------------------------------------------
(* The queue without pilot recommendations implements DraftPromise.  Its    *)
(* drafts are those who wait and were not written to, so a step of the      *)
(* queue is read off from what it does to Waits.                            *)

Waiting == {c \in Cand : Waits(c) /\ op[c] # "sent"}

LEMMA DraftsAreWaiting ==
  ASSUME Legacy = <<>>
  PROVE  QueueInv => Drafts = Waiting
<1> SUFFICES ASSUME QueueInv PROVE Drafts = Waiting
  OBVIOUS
<1>1. \A c \in Cand : (Shown(c) => Waits(c)) /\ (Waits(c) /\ op[c] # "sent" => Shown(c))
  BY ShownWaits
<1>2. QED
  BY <1>1 DEF Drafts, Waiting

LEMMA DraftsStayWaiting ==
  ASSUME Legacy = <<>>
  PROVE  QueueInv' => (Drafts = Waiting)'
<1>1. QueueInv => Drafts = Waiting
  BY DraftsAreWaiting
<1>2. QED
  BY <1>1, PTL

\* The variables of the promise, before and after a step.
Gone == suppressed \cup (PlannedIn(gens) \ Waiting)

LEMMA PromiseTerms ==
  ASSUME Legacy = <<>>, QueueInv, QueueInv'
  PROVE  /\ Drafts = Waiting /\ Drafts' = Waiting'
         /\ suppressed \cup (Planned \ Drafts) = Gone
         /\ (suppressed \cup (Planned \ Drafts))' = Gone'
<1>1. Drafts = Waiting /\ Drafts' = Waiting'
  BY DraftsAreWaiting, DraftsStayWaiting
<1>2. Planned = PlannedIn(gens) /\ Planned' = PlannedIn(gens')
  BY DEF Planned, PlannedIn
<1>3. QED
  BY <1>1, <1>2 DEF Gone

LEMMA WaitingHold ==
  ASSUME TypeInv, NEW c \in Waiting
  PROVE  c \in Cand /\ Holds(c) /\ c \in PlannedIn(gens)
<1>1. op[c] \in Live \cup {"none", "sent"} /\ Waits(c) /\ op[c] # "sent" /\ c \in Cand
  BY DEF Waiting, TypeInv, TypeOK
<1>2. QED
  BY <1>1 DEF Holds, IsLive, Waits

\* Nothing the promise speaks of moves.
LEMMA PromiseStutters ==
  ASSUME Legacy = <<>>, QueueInv, QueueInv', suppressed' = suppressed,
         PlannedIn(gens') = PlannedIn(gens), Waiting' = Waiting
  PROVE  UNCHANGED Promise!vars
<1>1. Gone' = Gone
  BY DEF Gone
<1>2. QED
  BY <1>1, PromiseTerms DEF Promise!vars

\* Whoever comes from the reserve is new, and alone of the company.
LEMMA ReserveIsNew ==
  ASSUME Legacy = <<>>, QueueInv, NEW N \in SUBSET Cand, NEW b, NEW x, N \subseteq Eligible(b, x),
         \A c, d \in N : CompanyOf[c] = CompanyOf[d] => c = d
  PROVE  /\ N \cap (Waiting \cup Gone) = {}
         /\ Promise!Together(N, Waiting \ {x})
         /\ \A c \in N : op[c] = "none"
<1>1. \A c \in N : c \notin PlannedIn(gens) /\ c \notin suppressed /\ op[c] = "none"
                   /\ CompanyOf[c] \notin Occupied(x)
  BY ProjectionTerms DEF Eligible
<1>2. \A c \in Waiting : c \in Cand /\ Holds(c) /\ c \in PlannedIn(gens)
  BY WaitingHold DEF QueueInv
<1>3. N \cap (Waiting \cup Gone) = {}
  BY <1>1, <1>2 DEF Gone
<1>4. ASSUME NEW c \in N, NEW d \in N \cup (Waiting \ {x}), CompanyOf[c] = CompanyOf[d] PROVE c = d
  <2>1. CASE d \in N
    BY <1>4, <2>1
  <2>2. CASE d \in Waiting \ {x}
    <3>1. CompanyOf[d] \in Occupied(x)
      BY <1>2, <2>2, HoldersOccupy
    <3>2. QED
      BY <1>1, <1>4, <3>1
  <2>3. QED
    BY <2>1, <2>2
<1>5. QED
  BY <1>1, <1>3, <1>4 DEF Promise!Together

LEMMA PromiseEnters ==
  ASSUME Legacy = <<>>, QueueInv, QueueInv', NEW N \in SUBSET Cand, NEW b, NEW x,
         N \subseteq Eligible(b, x), \A c, d \in N : CompanyOf[c] = CompanyOf[d] => c = d,
         x \notin Waiting, Enters(N), op' = op, suppressed' = suppressed,
         \A c \in Cand : c # x => (Waits(c)' <=> Waits(c) \/ c \in N),
         x \in Cand => op[x] = "sent"
  PROVE  Promise!Enter(N)
<1>1. N \cap (Waiting \cup Gone) = {} /\ Promise!Together(N, Waiting) /\ \A c \in N : op[c] = "none"
  <2>1. Waiting \ {x} = Waiting
    OBVIOUS
  <2>2. QED
    BY <2>1, ReserveIsNew
<1>2. Waiting' = Waiting \cup N
  <2>1. x \notin N /\ x \notin Waiting'
    BY <1>1 DEF Waiting
  <2>2. QED
    BY <1>1, <2>1 DEF Waiting
<1>3. Waiting \subseteq PlannedIn(gens)
  BY WaitingHold DEF QueueInv
<1>4. Gone' = Gone
  BY <1>2, <1>3 DEF Gone, Enters
<1>5. QED
  BY <1>1, <1>2, <1>4, PromiseTerms DEF Promise!Enter

LEMMA PromiseReplaces ==
  ASSUME Legacy = <<>>, QueueInv, QueueInv', NEW c \in Waiting, NEW d \in Cand, NEW b,
         d \in Eligible(b, c), Enters({d}), op' = op, suppressed' = suppressed,
         \A e \in Cand : Waits(e)' <=> (Waits(e) /\ e # c) \/ e = d
  PROVE  Promise!Replace(c, d)
<1>1. {d} \cap (Waiting \cup Gone) = {} /\ Promise!Together({d}, Waiting \ {c}) /\ op[d] = "none"
  <2>1. PICK N \in SUBSET Cand : N = {d}
    OBVIOUS
  <2>2. N \subseteq Eligible(b, c) /\ \A e, f \in N : CompanyOf[e] = CompanyOf[f] => e = f
    BY <2>1
  <2>3. /\ N \cap (Waiting \cup Gone) = {} /\ Promise!Together(N, Waiting \ {c})
        /\ \A e \in N : op[e] = "none"
    BY <2>2, ReserveIsNew
  <2>4. QED
    BY <2>1, <2>3
<1>2. c \in Cand /\ c # d /\ c \in PlannedIn(gens) /\ Waiting \subseteq PlannedIn(gens)
  BY <1>1, WaitingHold DEF QueueInv
<1>3. Waiting' = (Waiting \ {c}) \cup {d}
  BY <1>1 DEF Waiting
<1>4. Gone' = Gone \cup {c}
  BY <1>2, <1>3 DEF Gone, Enters
<1>5. QED
  BY <1>1, <1>3, <1>4, PromiseTerms DEF Promise!Replace

LEMMA PromiseLeaves ==
  ASSUME Legacy = <<>>, QueueInv, QueueInv', NEW c \in Waiting, Waiting' = Waiting \ {c},
         PlannedIn(gens') = PlannedIn(gens), suppressed' = suppressed \/ suppressed' = suppressed \cup {c}
  PROVE  Promise!Leave(c)
<1>1. c \in PlannedIn(gens)
  BY WaitingHold DEF QueueInv
<1>2. Gone' = Gone \cup {c}
  BY <1>1 DEF Gone
<1>3. QED
  BY <1>2, PromiseTerms DEF Promise!Leave

LEMMA PromiseInit ==
  ASSUME Legacy = <<>>
  PROVE  Init => Promise!Init
<1> SUFFICES ASSUME Init PROVE Promise!Init
  OBVIOUS
<1>1. Planned = {} /\ PlannedIn(gens) = {} /\ suppressed = {}
  BY DEF Init, Planned, PlannedIn
<1>2. Drafts = Waiting
  BY QueueInvInit, DraftsAreWaiting
<1>3. Waiting = {}
  BY <1>1 DEF Waiting, Waits
<1>4. QED
  BY <1>1, <1>2, <1>3 DEF Promise!Init

\* Nothing changes for the promise where drafts stay, and no message is found to be sent.
LEMMA QuietSteps ==
  ASSUME Legacy = <<>>, QueueInv, QueueInv', gens' = gens, disp' = disp, suppressed' = suppressed,
         \A c \in Cand : op'[c] = "sent" <=> op[c] = "sent"
  PROVE  UNCHANGED Promise!vars
<1>1. \A c \in Cand : Waits(c)' <=> Waits(c)
  BY SameWaits
<1>2. Waiting' = Waiting
  BY <1>1 DEF Waiting
<1>3. QED
  BY <1>2, PromiseStutters

\* An operation moves: it is sent after the step if and only if s is.
LEMMA MovedSends ==
  ASSUME TypeInv, NEW c \in Cand, op[c] # "sent", NEW s, op' = [op EXCEPT ![c] = s]
  PROVE  \A d \in Cand : op'[d] = "sent" <=> op[d] = "sent" \/ (d = c /\ s = "sent")
<1>1. op' = [d \in Cand |-> IF d = c THEN s ELSE op[d]]
  BY DEF TypeInv, TypeOK
<1>2. QED
  BY <1>1

\* Every step of the queue is one of the promise, or none.
LEMMA PromiseStep ==
  ASSUME Legacy = <<>>, QueueInv, QueueInv', [Next]_vars
  PROVE  [Promise!Next]_(Promise!vars)
<1>0. TypeInv /\ StoredInv
  BY DEF QueueInv
<1>1. ASSUME NEW N \in SUBSET Cand, Promise!Enter(N) PROVE [Promise!Next]_(Promise!vars)
  BY <1>1 DEF Promise!Next
<1>2. ASSUME NEW c \in Cand, Promise!Leave(c) \/ Promise!Exclude(c) PROVE [Promise!Next]_(Promise!vars)
  BY <1>2 DEF Promise!Next
<1>3. ASSUME NEW q \in Request \cup {NoRequest}, NEW b \in Bucket, NEW n \in Counts, AddBucketDrafts(q, b, n)
      PROVE  [Promise!Next]_(Promise!vars)
  <2>1. PICK N \in SUBSET Cand :
          /\ N \subseteq Eligible(b, NoOne) /\ Enters(N)
          /\ \A c, d \in N : CompanyOf[c] = CompanyOf[d] => c = d
          /\ \A c \in Cand : Waits(c)' <=> Waits(c) \/ c \in N
    BY <1>3, AddEffect
  <2>2. op' = op /\ suppressed' = suppressed
    BY <1>3 DEF AddBucketDrafts, sendVars
  <2>3. NoOne \notin Cand /\ NoOne \notin Waiting
    BY QueueAssumption DEF Waiting
  <2>4. Promise!Enter(N)
    BY <2>1, <2>2, <2>3, PromiseEnters
  <2>5. QED
    BY <1>1, <2>4
<1>4. ASSUME NEW c \in Cand, NEW b \in Bucket, ReplaceDraft(c, b) PROVE [Promise!Next]_(Promise!vars)
  <2>1. PICK d \in Cand :
          /\ d \in Eligible(b, c) /\ Enters({d}) /\ Waits(c) /\ ~IsLive(c)
          /\ \A e \in Cand : Waits(e)' <=> (Waits(e) /\ e # c) \/ e = d
    BY <1>4, ReplaceEffect
  <2>2. op' = op /\ suppressed' = suppressed
    BY <1>4 DEF ReplaceDraft, sendVars
  <2>3. CASE op[c] = "sent"
    <3>1. PICK N \in SUBSET Cand : N = {d}
      OBVIOUS
    <3>2. N \subseteq Eligible(b, c) /\ \A e, f \in N : CompanyOf[e] = CompanyOf[f] => e = f
      BY <2>1, <3>1
    <3>3. Enters(N) /\ \A e \in Cand : e # c => (Waits(e)' <=> Waits(e) \/ e \in N)
      BY <2>1, <3>1
    <3>4. c \notin Waiting
      BY <2>3 DEF Waiting
    <3>5. Promise!Enter(N)
      BY <2>2, <2>3, <3>2, <3>3, <3>4, PromiseEnters
    <3>6. QED
      BY <1>1, <3>5
  <2>4. CASE op[c] # "sent"
    <3>1. c \in Waiting
      BY <2>1, <2>4 DEF Waiting
    <3>2. Promise!Replace(c, d)
      BY <2>1, <2>2, <3>1, PromiseReplaces
    <3>3. QED
      BY <3>2 DEF Promise!Next
  <2>5. QED
    BY <2>3, <2>4
<1>5. ASSUME NEW c \in Cand, NEW q \in Request, CreateExactDraft(c, q) PROVE [Promise!Next]_(Promise!vars)
  <2>1. /\ c \in Eligible(class[c], NoOne) /\ Enters({c})
        /\ \A e \in Cand : Waits(e)' <=> Waits(e) \/ e = c
    BY <1>0, <1>5, ExactEffect
  <2>2. op' = op /\ suppressed' = suppressed
    BY <1>5 DEF CreateExactDraft, sendVars
  <2>3. NoOne \notin Cand /\ NoOne \notin Waiting
    BY QueueAssumption DEF Waiting
  <2>4. PICK N \in SUBSET Cand : N = {c}
    OBVIOUS
  <2>5. PICK b : b = class[c]
    OBVIOUS
  <2>6. /\ N \subseteq Eligible(b, NoOne) /\ \A e, f \in N : CompanyOf[e] = CompanyOf[f] => e = f
        /\ Enters(N) /\ \A e \in Cand : Waits(e)' <=> Waits(e) \/ e \in N
    BY <2>1, <2>4, <2>5
  <2>7. Promise!Enter(N)
    BY <2>2, <2>3, <2>6, PromiseEnters
  <2>8. QED
    BY <1>1, <2>7
<1>6. ASSUME NEW c \in Cand, NEW decision, ResolveCorrection(c, decision) PROVE [Promise!Next]_(Promise!vars)
  <2>1. PICK copy \in Corrected(c, decision) :
          /\ copy.stage = "draft" /\ Corrects(c, copy) /\ Waits(c) /\ ~IsLive(c)
          /\ \A e \in Cand : e # c => (Waits(e)' <=> Waits(e))
    BY <1>6, CorrectEffect
  <2>2. op' = op /\ suppressed' = suppressed /\ PlannedIn(gens') = PlannedIn(gens)
    BY <1>6, <2>1 DEF ResolveCorrection, sendVars, Corrects
  <2>3. CASE Waits(c)' \/ op[c] = "sent"
    <3>1. Waiting' = Waiting
      BY <2>1, <2>2, <2>3 DEF Waiting
    <3>2. QED
      BY <2>2, <3>1, PromiseStutters
  <2>4. CASE ~Waits(c)' /\ op[c] # "sent"
    <3>1. c \in Waiting /\ Waiting' = Waiting \ {c}
      BY <2>1, <2>2, <2>4 DEF Waiting
    <3>2. Promise!Leave(c)
      BY <2>2, <3>1, PromiseLeaves
    <3>3. QED
      BY <1>2, <3>2
  <2>5. QED
    BY <2>3, <2>4
<1>7. ASSUME NEW c \in Cand, NEW d \in {"skipped", "permanently-excluded"}, DismissDraft(c, d)
      PROVE  [Promise!Next]_(Promise!vars)
  <2>1. /\ gens' = gens /\ op' = op /\ Waits(c)
        /\ suppressed' = suppressed \/ suppressed' = suppressed \cup {c}
        /\ \A e \in Cand : Waits(e)' <=> Waits(e) /\ e # c
    BY <1>7, DismissEffect
  <2>2. Waiting' = Waiting \ {c}
    BY <2>1 DEF Waiting
  <2>3. CASE c \in Waiting
    <3>1. Promise!Leave(c)
      BY <2>1, <2>2, <2>3, PromiseLeaves
    <3>2. QED
      BY <1>2, <3>1
  <2>4. CASE c \notin Waiting
    <3>1. Waiting' = Waiting
      BY <2>2, <2>4
    <3>2. c \in Gone
      BY <2>1, <2>4 DEF Gone, Waits
    <3>3. Gone' = Gone
      BY <2>1, <3>1, <3>2 DEF Gone
    <3>4. UNCHANGED Promise!vars
      BY <3>1, <3>3, PromiseTerms DEF Promise!vars
    <3>5. QED
      BY <3>4
  <2>5. QED
    BY <2>3, <2>4
<1>8. ASSUME NEW c \in Cand, NEW d \in {"skipped", "permanently-excluded"}, DismissCandidate(c, d)
      PROVE  [Promise!Next]_(Promise!vars)
  <2>1. /\ gens' = gens /\ op' = op /\ c \notin PlannedIn(gens)
        /\ suppressed' = suppressed \/ suppressed' = suppressed \cup {c}
        /\ \A e \in Cand : Waits(e)' <=> Waits(e)
    BY <1>8, AsideEffect
  <2>2. Waiting' = Waiting /\ c \notin Waiting
    BY <2>1 DEF Waiting, Waits
  <2>3. CASE suppressed' = suppressed
    BY <2>1, <2>2, <2>3, PromiseStutters
  <2>4. CASE suppressed' = suppressed \cup {c}
    <3>1. Gone' = Gone \cup {c}
      BY <2>1, <2>2, <2>4 DEF Gone
    <3>2. Promise!Exclude(c)
      BY <2>2, <3>1, PromiseTerms DEF Promise!Exclude
    <3>3. QED
      BY <1>2, <3>2
  <2>5. QED
    BY <2>1, <2>3, <2>4
<1>9. ASSUME NEW c \in Cand, SendConfirmed(c) PROVE [Promise!Next]_(Promise!vars)
  <2>1. /\ op[c] \in {"sending", "send-status-uncertain"} /\ op' = [op EXCEPT ![c] = "sent"]
        /\ gens' = gens /\ disp' = disp /\ suppressed' = suppressed
    BY <1>9 DEF SendConfirmed, queueVars
  <2>2. c \in Waiting
    BY <1>0, <2>1 DEF StoredInv, Waiting
  <2>3. \A d \in Cand : op'[d] = "sent" <=> op[d] = "sent" \/ d = c
    BY <1>0, <2>1, MovedSends
  <2>4. \A d \in Cand : Waits(d)' <=> Waits(d)
    BY <2>1, SameWaits
  <2>5. Waiting' = Waiting \ {c}
    BY <2>3, <2>4 DEF Waiting
  <2>6. Promise!Leave(c)
    BY <2>1, <2>2, <2>5, PromiseLeaves
  <2>7. QED
    BY <1>2, <2>6
<1>10. ASSUME NEW c \in Cand, Approve(c) \/ StartSend(c) \/ SendUnanswered(c) \/ SendRefuted(c)
       PROVE  [Promise!Next]_(Promise!vars)
  <2>1. op[c] # "sent" /\ gens' = gens /\ disp' = disp /\ suppressed' = suppressed
    BY <1>10 DEF Approve, StartSend, SendUnanswered, SendRefuted, queueVars
  <2>2. PICK s \in Live : op' = [op EXCEPT ![c] = s]
    BY <1>10 DEF Approve, StartSend, SendUnanswered, SendRefuted, Live
  <2>3. \A d \in Cand : op'[d] = "sent" <=> op[d] = "sent"
    <3>1. s # "sent"
      BY DEF Live
    <3>2. QED
      BY <1>0, <2>1, <2>2, <3>1, MovedSends
  <2>4. QED
    BY <2>1, <2>3, QuietSteps
<1>11. ASSUME \/ UNCHANGED vars \/ Tick
              \/ \E c \in Cand : OpenCorrection(c) \/ \E k \in Class : Reclassify(c, k)
       PROVE  [Promise!Next]_(Promise!vars)
  <2>1. gens' = gens /\ disp' = disp /\ suppressed' = suppressed /\ op' = op
    BY <1>11 DEF vars, Tick, OpenCorrection, Reclassify, queueVars, sendVars
  <2>2. QED
    BY <2>1, QuietSteps
<1>12. QED
  BY <1>3, <1>4, <1>5, <1>6, <1>7, <1>8, <1>9, <1>10, <1>11 DEF Next

\* Without pilot recommendations the projected queue keeps the promise of DraftPromise: a
\* candidate is drafted once, a company has one open draft, a replacement swaps two
\* candidates in one step, and no clock, review or later batch brings back who was sent to
\* or set aside.
THEOREM QueueKeepsItsPromise ==
  ASSUME Legacy = <<>>
  PROVE  Spec => KeepsPromise
<1>1. Init => Promise!Init
  BY PromiseInit
<1>2. QueueInv /\ QueueInv' /\ [Next]_vars => [Promise!Next]_(Promise!vars)
  BY PromiseStep
<1>3. Spec => []QueueInv
  BY QueueInvAlways
<1>4. QED
  BY <1>1, <1>2, <1>3, PTL DEF Spec, KeepsPromise, Promise!Spec

-----------------------------------------------------------------------------
(* Which stored copies a step may rewrite, whatever was recommended.        *)

\* A batch lists no draft that is stored already.
LEMMA AdditionListsNew ==
  ASSUME NEW q, NEW new, NEW except, NEW b, NEW e, Elements(new) \subseteq Eligible(b, e),
         Listed(Addition(q, new, except)) = Elements(Carried(except)) \cup Elements(new)
  PROVE  Listed(Addition(q, new, except)) \cap PlannedIn(gens) = {}
<1>1. Elements(new) \cap PlannedIn(gens) = {}
  BY ProjectionTerms DEF Eligible
<1>2. Elements(Carried(except)) \cap PlannedIn(gens) = {}
  <2>1. CASE gens = <<>>
    BY <2>1 DEF PlannedIn
  <2>2. CASE gens # <<>>
    BY <2>2 DEF Carried, Elements
  <2>3. QED
    BY <2>1, <2>2
<1>3. QED
  BY <1>1, <1>2

\* A generation that lists no stored draft leaves them all as they are.
LEMMA UnlistedStay ==
  ASSUME TypeInv, NEW g, Extends(g), NEW c \in PlannedIn(gens), c \notin Listed(g)
  PROVE  /\ c \in PlannedIn(gens') /\ Stored(gens', c) = Stored(gens, c)
         /\ StoredDay(gens', c) = StoredDay(gens, c)
<1>1. gens \in Seq(Generation) /\ g \in Generation /\ gens' = Append(gens, g)
  BY DEF TypeInv, TypeOK, Extends, WellFormed, Saved
<1>2. QED
  BY <1>1, AppendedGeneration

LEMMA StoredCopiesStay ==
  ASSUME TypeInv, [Next]_vars, NEW c \in PlannedIn(gens)
  PROVE  \/ /\ c \in PlannedIn(gens') /\ Stored(gens', c) = Stored(gens, c)
            /\ StoredDay(gens', c) = StoredDay(gens, c)
         \/ page.cand = c /\ page.copy = Draft(c)
<1> DEFINE Stays == /\ c \in PlannedIn(gens') /\ Stored(gens', c) = Stored(gens, c)
                    /\ StoredDay(gens', c) = StoredDay(gens, c)
<1>1. gens' = gens => Stays
  OBVIOUS
<1>2. ASSUME NEW g, Extends(g), c \notin Listed(g) PROVE Stays
  BY <1>2, UnlistedStay
<1> HIDE DEF Stays
<1>3. ASSUME NEW q \in Request \cup {NoRequest}, NEW b \in Bucket, NEW n \in Counts, AddBucketDrafts(q, b, n)
      PROVE  Stays
  <2>1. PICK new \in Seq(Cand) :
          /\ Elements(new) \subseteq Eligible(b, NoOne) /\ Extends(Addition(q, new, NoOne))
          /\ Listed(Addition(q, new, NoOne)) = Elements(Carried(NoOne)) \cup Elements(new)
    BY <1>3, AddMoves
  <2>2. Listed(Addition(q, new, NoOne)) \cap PlannedIn(gens) = {}
    BY <2>1, AdditionListsNew
  <2>3. QED
    BY <1>2, <2>1, <2>2
<1>4. ASSUME NEW d \in Cand, NEW b \in Bucket, ReplaceDraft(d, b) PROVE Stays
  <2>1. PICK new \in Seq(Cand) :
          /\ Elements(new) \subseteq Eligible(b, d) /\ Extends(Addition(NoRequest, new, d))
          /\ Listed(Addition(NoRequest, new, d)) = Elements(Carried(d)) \cup Elements(new)
    BY <1>4, ReplaceMoves
  <2>2. Listed(Addition(NoRequest, new, d)) \cap PlannedIn(gens) = {}
    BY <2>1, AdditionListsNew
  <2>3. QED
    BY <1>2, <2>1, <2>2
<1>5. ASSUME NEW d \in Cand, NEW q \in Request, CreateExactDraft(d, q) PROVE Stays
  <2>1. Extends(Exact(d, q)) /\ Listed(Exact(d, q)) = {d} /\ d \in Eligible(class[d], NoOne)
    BY <1>5, ExactMoves
  <2>2. d \notin PlannedIn(gens)
    BY <2>1, ProjectionTerms DEF Eligible
  <2>3. QED
    BY <1>2, <2>1, <2>2
<1>6. ASSUME NEW d \in Cand, NEW decision, ResolveCorrection(d, decision)
      PROVE  Stays \/ (page.cand = c /\ page.copy = Draft(c))
  <2>1. PICK copy \in Copy : Extends(Correction(d, copy)) /\ Listed(Correction(d, copy)) = {d}
    BY <1>6, CorrectionMoves
  <2>2. CASE c # d
    BY <1>2, <2>1, <2>2
  <2>3. CASE c = d
    BY <1>6, <2>3 DEF ResolveCorrection, SameSnapshot
  <2>4. QED
    BY <2>2, <2>3
<1>7. ASSUME \/ UNCHANGED vars \/ Tick
             \/ \E d \in Cand : \/ OpenCorrection(d) \/ Approve(d) \/ StartSend(d)
                                \/ SendUnanswered(d) \/ SendConfirmed(d) \/ SendRefuted(d)
                                \/ \E k \in Class : Reclassify(d, k)
             \/ \E d \in Cand, x \in {"skipped", "permanently-excluded"} :
                  DismissDraft(d, x) \/ DismissCandidate(d, x)
      PROVE  Stays
  <2>1. gens' = gens
    BY <1>7 DEF vars, queueVars, Tick, OpenCorrection, Approve, StartSend, SendUnanswered, SendConfirmed,
                SendRefuted, Reclassify, DismissDraft, DismissCandidate, Settle
  <2>2. QED
    BY <1>1, <2>1
<1>8. Stays \/ (page.cand = c /\ page.copy = Draft(c))
  BY <1>3, <1>4, <1>5, <1>6, <1>7 DEF Next
<1>9. QED
  BY <1>8 DEF Stays

LEMMA DraftAfter ==
  \A c : Draft(c)' = IF c \in PlannedIn(gens') THEN Stored(gens', c) ELSE Rendered(c)'
<1>1. \A c : Draft(c) = IF c \in PlannedIn(gens) THEN Stored(gens, c) ELSE Rendered(c)
  BY ProjectionTerms
<1>2. (\A c : Draft(c) = IF c \in PlannedIn(gens) THEN Stored(gens, c) ELSE Rendered(c))'
  BY <1>1, PTL
<1>3. QED
  BY <1>2

\* Edited text is given up only by a decision taken on a page that showed it; no batch,
\* replacement or page from before overwrites it, with pilot recommendations too.
THEOREM EditsAreKept == Spec => EditsKept
<1> DEFINE Kept1 == \A c \in Drafts : Draft(c).text = "edited" =>
                      Draft(c)'.text = "edited" \/ (page.cand = c /\ page.copy = Draft(c))
<1>1. TypeInv /\ [Next]_vars => [Kept1]_vars
  <2> SUFFICES ASSUME TypeInv, [Next]_vars, NEW c \in Drafts, Draft(c).text = "edited"
               PROVE  Draft(c)'.text = "edited" \/ (page.cand = c /\ page.copy = Draft(c))
    OBVIOUS
  <2>1. c \in Cand /\ class[c] # "edited"
    BY QueueAssumption DEF Drafts, TypeInv, TypeOK, Class, Unclassified, InReview
  <2>2. c \in PlannedIn(gens) /\ Draft(c) = Stored(gens, c)
    BY <2>1, ProjectionTerms DEF Rendered
  <2>3. CASE c \in PlannedIn(gens') /\ Stored(gens', c) = Stored(gens, c)
    BY <2>2, <2>3, DraftAfter
  <2>4. CASE page.cand = c /\ page.copy = Draft(c)
    BY <2>4
  <2>5. QED
    BY <2>2, <2>3, <2>4, StoredCopiesStay
<1>2. Init => TypeInv
  BY TypeInvInit
<1>3. TypeInv /\ [Next]_vars => TypeInv'
  BY TypeInvNext
<1>4. QED
  BY <1>1, <1>2, <1>3, PTL DEF Spec, EditsKept

-----------------------------------------------------------------------------
(* Adding drafts keeps those there are.                                     *)

LEMMA AddsAreAdditions ==
  ASSUME TypeInv, [Next]_vars, Adds
  PROVE  \/ \E q \in Request \cup {NoRequest}, b \in Bucket, n \in Counts : AddBucketDrafts(q, b, n)
         \/ \E c \in Cand, q \in Request : CreateExactDraft(c, q)
<1>1. gens \in Seq(Generation)
  BY DEF TypeInv, TypeOK
<1>2. gens' # gens
  <2>1. Len(gens) \in Nat
    BY <1>1
  <2>2. QED
    BY <2>1 DEF Adds
<1>3. ASSUME NEW g, Extends(g) PROVE g.kind = "addition" /\ g.replaced = NoOne
  <2>1. g \in Generation /\ gens' = Append(gens, g)
    BY <1>3 DEF Extends, WellFormed, Saved
  <2>2. gens'[Len(gens')] = g
    BY <1>1, <2>1
  <2>3. QED
    BY <2>2 DEF Adds
<1>4. ASSUME NEW c \in Cand, NEW b \in Bucket, ReplaceDraft(c, b) PROVE FALSE
  <2>1. PICK new \in Seq(Cand) : Extends(Addition(NoRequest, new, c))
    BY <1>4, ReplaceMoves
  <2>2. Addition(NoRequest, new, c).replaced = c
    BY DEF Addition
  <2>3. Addition(NoRequest, new, c).replaced = NoOne
    BY <1>3, <2>1
  <2>4. QED
    BY <2>2, <2>3, QueueAssumption
<1>5. ASSUME NEW c \in Cand, NEW decision, ResolveCorrection(c, decision) PROVE FALSE
  <2>1. PICK copy \in Copy : Extends(Correction(c, copy))
    BY <1>5, CorrectionMoves
  <2>2. Correction(c, copy).kind = "correction"
    BY DEF Correction
  <2>3. Correction(c, copy).kind = "addition"
    BY <1>3, <2>1
  <2>4. QED
    BY <2>2, <2>3
<1>6. ASSUME \/ UNCHANGED vars \/ Tick
             \/ \E d \in Cand : \/ OpenCorrection(d) \/ Approve(d) \/ StartSend(d)
                                \/ SendUnanswered(d) \/ SendConfirmed(d) \/ SendRefuted(d)
                                \/ \E k \in Class : Reclassify(d, k)
             \/ \E d \in Cand, x \in {"skipped", "permanently-excluded"} :
                  DismissDraft(d, x) \/ DismissCandidate(d, x)
      PROVE  FALSE
  BY <1>2, <1>6 DEF vars, queueVars, Tick, OpenCorrection, Approve, StartSend, SendUnanswered,
     SendConfirmed, SendRefuted, Reclassify, DismissDraft, DismissCandidate, Settle
<1>7. QED
  BY <1>4, <1>5, <1>6 DEF Next

LEMMA AdditionEffect ==
  ASSUME Legacy = <<>>, QueueInv, [Next]_vars, Adds
  PROVE  /\ op' = op
         /\ \A c \in Cand : Waits(c) => Waits(c)'
         /\ \A c \in PlannedIn(gens) : c \in PlannedIn(gens') /\ Stored(gens', c) = Stored(gens, c)
<1>1. TypeInv
  BY DEF QueueInv
<1>2. ASSUME NEW q \in Request \cup {NoRequest}, NEW b \in Bucket, NEW n \in Counts, AddBucketDrafts(q, b, n)
      PROVE  \E N : Enters(N) /\ op' = op /\ \A c \in Cand : Waits(c)' <=> Waits(c) \/ c \in N
  <2>1. op' = op
    BY <1>2 DEF AddBucketDrafts, sendVars
  <2>2. QED
    BY <1>2, <2>1, AddEffect
<1>3. ASSUME NEW c \in Cand, NEW q \in Request, CreateExactDraft(c, q)
      PROVE  \E N : Enters(N) /\ op' = op /\ \A e \in Cand : Waits(e)' <=> Waits(e) \/ e \in N
  <2>1. op' = op
    BY <1>3 DEF CreateExactDraft, sendVars
  <2>2. Enters({c}) /\ \A e \in Cand : Waits(e)' <=> Waits(e) \/ e = c
    BY <1>1, <1>3, ExactEffect
  <2>3. QED
    BY <2>1, <2>2
<1>4. PICK N : Enters(N) /\ op' = op /\ \A c \in Cand : Waits(c)' <=> Waits(c) \/ c \in N
  BY <1>1, <1>2, <1>3, AddsAreAdditions
<1>5. QED
  BY <1>4 DEF Enters

\* Without pilot recommendations, adding drafts takes none away and rewrites none.
THEOREM AddingKeepsTheDrafts ==
  ASSUME Legacy = <<>>
  PROVE  Spec => AddKeepsDrafts
<1> DEFINE Added == Adds => \A c \in Drafts : Shown(c)' /\ Draft(c)'.text = Draft(c).text
<1>1. QueueInv /\ QueueInv' /\ [Next]_vars => [Added]_vars
  <2> SUFFICES ASSUME QueueInv, QueueInv', [Next]_vars, Adds, NEW c \in Drafts
               PROVE  Shown(c)' /\ Draft(c)'.text = Draft(c).text
    OBVIOUS
  <2>1. Drafts = Waiting /\ Drafts' = Waiting'
    BY DraftsAreWaiting, DraftsStayWaiting
  <2>2. c \in Cand /\ Waits(c) /\ op[c] # "sent" /\ c \in PlannedIn(gens)
    BY <2>1 DEF Waiting, Waits
  <2>3. /\ Waits(c)' /\ op'[c] # "sent"
        /\ c \in PlannedIn(gens') /\ Stored(gens', c) = Stored(gens, c)
    BY <2>2, AdditionEffect
  <2>4. c \in Drafts'
    BY <2>1, <2>2, <2>3 DEF Waiting
  <2>5. Shown(c)'
    BY <2>4 DEF Drafts
  <2>6. Draft(c)' = Draft(c)
    BY <2>2, <2>3, DraftAfter, ProjectionTerms
  <2>7. QED
    BY <2>5, <2>6
<1>2. Spec => []QueueInv
  BY QueueInvAlways
<1>3. QED
  BY <1>1, <1>2, PTL DEF Spec, AddKeepsDrafts

-----------------------------------------------------------------------------
(* Pilot recommendations are shown before any generation stores them.  The  *)
(* first batch carries them over, under the day it is planned for; where    *)
(* the two calendars agree, no disposition waits for them on that day.      *)

DispositionsArePast == \A c \in Cand, x \in Days : disp[c][x] # "none" => x <= UtcDay[now]
DraftsArePast       == \A c \in PlannedIn(gens) : StoredDay(gens, c) <= UtcDay[now]
ApprovalsArePast    == \A c \in Cand : approvedAt[c] <= now
LiveAreKept == \A c \in Cand \ PlannedIn(gens), x \in Days :
                 IsLive(c) /\ UtcDay[approvedAt[c]] < x => disp[c][x] = "none"
DatedInv == DispositionsArePast /\ DraftsArePast /\ ApprovalsArePast /\ LiveAreKept

LEMMA DayFacts ==
  /\ Days \subseteq Nat
  /\ \A t, u \in 1..MaxNow : UtcDay[t] \in Nat /\ (t <= u => UtcDay[t] <= UtcDay[u])
<1>1. \A t \in 1..MaxNow : UtcDay[t] \in Nat /\ CampaignDay[t] \in Nat
  BY QueueAssumption
<1>2. QED
  BY <1>1, QueueAssumption DEF Days

LEMMA DraftDayIsPast ==
  ASSUME TypeInv, DatedInv, NEW c \in Cand
  PROVE  DraftDay(c) <= UtcDay[now]
<1>1. now \in 1..MaxNow /\ approvedAt[c] \in 1..MaxNow /\ approvedAt[c] <= now
  BY DEF TypeInv, TypeOK, DatedInv, ApprovalsArePast
<1>2. UtcDay[approvedAt[c]] <= UtcDay[now] /\ UtcDay[now] \in Nat
  BY <1>1, DayFacts
<1>3. c \in PlannedIn(gens) => StoredDay(gens, c) <= UtcDay[now]
  BY DEF DatedInv, DraftsArePast
<1>4. QED
  BY <1>2, <1>3, ProjectionTerms

\* A generation of today.
LEMMA DatedGeneration ==
  ASSUME UtcDay = CampaignDay, TypeInv, DatedInv, NEW g, Extends(g), g.day = CampaignDay[now], now' = now
  PROVE  DraftsArePast' /\ PlannedIn(gens) \subseteq PlannedIn(gens')
<1>1. gens \in Seq(Generation) /\ g \in Generation /\ gens' = Append(gens, g) /\ now \in 1..MaxNow
  BY DEF TypeInv, TypeOK, Extends, WellFormed, Saved
<1>2. /\ PlannedIn(gens') = PlannedIn(gens) \cup Listed(g)
      /\ \A c \in Listed(g) : StoredDay(gens', c) = g.day
      /\ \A c \in PlannedIn(gens) \ Listed(g) : StoredDay(gens', c) = StoredDay(gens, c)
  BY <1>1, AppendedGeneration
<1>3. UtcDay[now] \in Nat /\ g.day = UtcDay[now]
  BY <1>1, DayFacts
<1>4. \A c \in PlannedIn(gens') : StoredDay(gens', c) <= UtcDay[now]
  BY <1>2, <1>3 DEF DatedInv, DraftsArePast
<1>5. QED
  BY <1>2, <1>4 DEF DraftsArePast

\* A disposition up to today; that of a live draft which nothing stores is of its own day.
LEMMA DatedDisposition ==
  ASSUME TypeInv, DatedInv, NEW c \in Cand, NEW day \in Days, NEW d \in Disposition, NEW e \in Event,
         Recorded(c, day, d, e), day <= UtcDay[now],
         c \in PlannedIn(gens) \/ ~IsLive(c) \/ day = UtcDay[approvedAt[c]],
         now' = now, op' = op, approvedAt' = approvedAt, PlannedIn(gens) \subseteq PlannedIn(gens')
  PROVE  DispositionsArePast' /\ ApprovalsArePast' /\ LiveAreKept'
<1>1. \A y \in Cand, x \in Days : <<y, x>> # <<c, day>> => disp'[y][x] = disp[y][x]
  BY RecordedTypes
<1>2. DispositionsArePast'
  BY <1>1 DEF DatedInv, DispositionsArePast
<1>3. ApprovalsArePast'
  BY DEF DatedInv, ApprovalsArePast
<1>4. ASSUME NEW y \in Cand \ PlannedIn(gens'), NEW x \in Days, IsLive(y), UtcDay[approvedAt[y]] < x
      PROVE  disp'[y][x] = "none"
  <2>1. disp[y][x] = "none"
    BY <1>4 DEF DatedInv, LiveAreKept
  <2>2. approvedAt[y] \in 1..MaxNow
    BY DEF TypeInv, TypeOK
  <2>3. UtcDay[approvedAt[y]] \in Nat /\ x \in Nat
    BY <2>2, DayFacts
  <2>4. <<y, x>> # <<c, day>>
    BY <1>4, <2>3
  <2>5. QED
    BY <1>1, <2>1, <2>4
<1>5. LiveAreKept'
  BY <1>4 DEF LiveAreKept, IsLive
<1>6. QED
  BY <1>2, <1>3, <1>5

LEMMA DatedInit == Init => DatedInv
<1> SUFFICES ASSUME Init PROVE DatedInv
  OBVIOUS
<1>1. PlannedIn(gens) = {} /\ \A c \in Cand : ~IsLive(c)
  BY DEF Init, PlannedIn, IsLive, Live
<1>2. QED
  BY <1>1 DEF Init, DatedInv, DispositionsArePast, DraftsArePast, ApprovalsArePast, LiveAreKept

LEMMA DatedNext ==
  ASSUME UtcDay = CampaignDay
  PROVE  TypeInv /\ DatedInv /\ [Next]_vars => DatedInv'
<1> SUFFICES ASSUME TypeInv, DatedInv, [Next]_vars PROVE DatedInv'
  OBVIOUS
<1>0. now \in 1..MaxNow /\ UtcDay[now] \in Nat /\ CampaignDay[now] \in Days /\ CampaignDay[now] = UtcDay[now]
  BY DayFacts, DaysAreDays DEF TypeInv, TypeOK
<1>1. ASSUME NEW g, Extends(g), g.day = CampaignDay[now],
             disp' = disp, op' = op, approvedAt' = approvedAt, now' = now
      PROVE  DatedInv'
  <2>1. DraftsArePast' /\ PlannedIn(gens) \subseteq PlannedIn(gens')
    BY <1>1, DatedGeneration
  <2>2. DispositionsArePast' /\ ApprovalsArePast' /\ LiveAreKept'
    BY <1>1, <2>1 DEF DatedInv, DispositionsArePast, ApprovalsArePast, LiveAreKept, IsLive
  <2>3. QED
    BY <2>1, <2>2 DEF DatedInv
<1>2. ASSUME NEW q \in Request \cup {NoRequest}, NEW b \in Bucket, NEW n \in Counts, AddBucketDrafts(q, b, n)
      PROVE  DatedInv'
  <2>1. PICK new \in Seq(Cand) : Extends(Addition(q, new, NoOne))
    BY <1>2, AddMoves
  <2>2. Addition(q, new, NoOne).day = CampaignDay[now]
    BY DEF Addition
  <2>3. disp' = disp /\ op' = op /\ approvedAt' = approvedAt /\ now' = now
    BY <1>2 DEF AddBucketDrafts, sendVars
  <2>4. QED
    BY <1>1, <2>1, <2>2, <2>3
<1>3. ASSUME NEW c \in Cand, NEW b \in Bucket, ReplaceDraft(c, b) PROVE DatedInv'
  <2>1. PICK new \in Seq(Cand) :
          /\ Extends(Addition(NoRequest, new, c))
          /\ disp' = [disp EXCEPT ![c][DraftDay(c)] = IF @ = "none" THEN "skipped" ELSE @]
          /\ audit' = [audit EXCEPT ![c][DraftDay(c)] = Append(@, "draft-skipped")]
    BY <1>3, ReplaceMoves
  <2>2. Addition(NoRequest, new, c).day = CampaignDay[now]
    BY DEF Addition
  <2>3. op' = op /\ approvedAt' = approvedAt /\ now' = now /\ ~IsLive(c)
    BY <1>3 DEF ReplaceDraft, sendVars
  <2>4. DraftsArePast' /\ PlannedIn(gens) \subseteq PlannedIn(gens')
    BY <2>1, <2>2, <2>3, DatedGeneration
  <2>5. PICK day \in Days : day = DraftDay(c) /\ day <= UtcDay[now]
    BY DraftTypes, DraftDayIsPast
  <2>6. PICK d \in Disposition : Recorded(c, day, d, "draft-skipped")
    <3>1. disp[c][day] \in Disposition
      BY DEF TypeInv, TypeOK
    <3>2. (IF disp[c][day] = "none" THEN "skipped" ELSE disp[c][day]) \in Disposition
      BY <3>1 DEF Disposition
    <3>3. Recorded(c, day, IF disp[c][day] = "none" THEN "skipped" ELSE disp[c][day], "draft-skipped")
      BY <2>1, <2>5 DEF Recorded
    <3>4. QED
      BY <3>2, <3>3
  <2>7. "draft-skipped" \in Event
    BY DEF Event
  <2>8. QED
    BY <2>3, <2>4, <2>5, <2>6, <2>7, DatedDisposition DEF DatedInv
<1>4. ASSUME NEW c \in Cand, NEW q \in Request, CreateExactDraft(c, q) PROVE DatedInv'
  <2>1. Extends(Exact(c, q)) /\ Exact(c, q).day = CampaignDay[now]
    BY <1>4, ExactMoves DEF Exact
  <2>2. disp' = disp /\ op' = op /\ approvedAt' = approvedAt /\ now' = now
    BY <1>4 DEF CreateExactDraft, sendVars
  <2>3. QED
    BY <1>1, <2>1, <2>2
<1>5. ASSUME NEW c \in Cand, NEW decision, ResolveCorrection(c, decision) PROVE DatedInv'
  <2>1. PICK copy \in Copy : Extends(Correction(c, copy))
    BY <1>5, CorrectionMoves
  <2>2. Correction(c, copy).day = CampaignDay[now]
    BY DEF Correction
  <2>3. disp' = disp /\ op' = op /\ approvedAt' = approvedAt /\ now' = now
    BY <1>5 DEF ResolveCorrection, sendVars
  <2>4. QED
    BY <1>1, <2>1, <2>2, <2>3
<1>6. ASSUME NEW c \in Cand, NEW d \in {"skipped", "permanently-excluded"}, NEW day \in Days, Settle(c, day, d),
             day <= UtcDay[now], c \in PlannedIn(gens) \/ ~IsLive(c) \/ day = UtcDay[approvedAt[c]]
      PROVE  DatedInv'
  <2>1. d \in Disposition /\ EventOf(d) \in Event
    BY DEF Disposition, Event, EventOf
  <2>2. /\ Recorded(c, day, d, EventOf(d))
        /\ now' = now /\ op' = op /\ approvedAt' = approvedAt /\ gens' = gens
    BY <1>6 DEF Settle, Recorded, EventOf, sendVars
  <2>3. DraftsArePast'
    BY <2>2 DEF DatedInv, DraftsArePast
  <2>4. DispositionsArePast' /\ ApprovalsArePast' /\ LiveAreKept'
    BY <1>6, <2>1, <2>2, DatedDisposition
  <2>5. QED
    BY <2>3, <2>4 DEF DatedInv
<1>7. ASSUME NEW c \in Cand, NEW d \in {"skipped", "permanently-excluded"}, DismissDraft(c, d) PROVE DatedInv'
  <2>1. PICK day \in Days : day = DraftDay(c) /\ day <= UtcDay[now]
    BY DraftTypes, DraftDayIsPast
  <2>2. c \in PlannedIn(gens) \/ ~IsLive(c) \/ day = UtcDay[approvedAt[c]]
    BY <2>1, ProjectionTerms
  <2>3. QED
    BY <1>6, <1>7, <2>1, <2>2 DEF DismissDraft
<1>8. ASSUME NEW c \in Cand, NEW d \in {"skipped", "permanently-excluded"}, DismissCandidate(c, d) PROVE DatedInv'
  <2>1. ~IsLive(c) /\ Settle(c, CampaignDay[now], d)
    BY <1>8 DEF DismissCandidate, NotDrafted, IsLive, Live
  <2>2. QED
    BY <1>0, <1>6, <2>1
<1>9. ASSUME gens' = gens, disp' = disp, approvedAt' = approvedAt, now' = now,
             \A c \in Cand : IsLive(c)' => IsLive(c)
      PROVE  DatedInv'
  BY <1>9 DEF DatedInv, DispositionsArePast, DraftsArePast, ApprovalsArePast, LiveAreKept
<1>10. ASSUME NEW c \in Cand, Approve(c) PROVE DatedInv'
  <2>1. /\ gens' = gens /\ disp' = disp /\ now' = now
        /\ op' = [op EXCEPT ![c] = "open"] /\ approvedAt' = [approvedAt EXCEPT ![c] = now]
    BY <1>10 DEF Approve, queueVars
  <2>2. /\ \A y \in Cand : y # c => op'[y] = op[y] /\ approvedAt'[y] = approvedAt[y]
        /\ approvedAt'[c] = now
    BY <2>1 DEF TypeInv, TypeOK
  <2>3. DispositionsArePast' /\ DraftsArePast'
    BY <2>1 DEF DatedInv, DispositionsArePast, DraftsArePast
  <2>4. ApprovalsArePast'
    BY <1>0, <2>1, <2>2 DEF DatedInv, ApprovalsArePast
  <2>5. ASSUME NEW y \in Cand \ PlannedIn(gens), NEW x \in Days, IsLive(y)', UtcDay[approvedAt'[y]] < x
        PROVE  disp[y][x] = "none"
    <3>1. CASE y = c
      <4>1. x \in Nat /\ UtcDay[now] < x
        BY <2>2, <2>5, <3>1, DayFacts
      <4>2. QED
        BY <1>0, <4>1 DEF DatedInv, DispositionsArePast
    <3>2. CASE y # c
      BY <2>2, <2>5, <3>2 DEF DatedInv, LiveAreKept, IsLive
    <3>3. QED
      BY <3>1, <3>2
  <2>6. LiveAreKept'
    BY <2>1, <2>5 DEF LiveAreKept
  <2>7. QED
    BY <2>3, <2>4, <2>6 DEF DatedInv
<1>11. ASSUME NEW c \in Cand, StartSend(c) \/ SendUnanswered(c) \/ SendRefuted(c) \/ SendConfirmed(c)
       PROVE  DatedInv'
  <2>1. IsLive(c) /\ gens' = gens /\ disp' = disp /\ approvedAt' = approvedAt /\ now' = now
    BY <1>11 DEF StartSend, SendUnanswered, SendRefuted, SendConfirmed, queueVars, IsLive, Live
  <2>2. PICK s : op' = [op EXCEPT ![c] = s]
    BY <1>11 DEF StartSend, SendUnanswered, SendRefuted, SendConfirmed
  <2>3. \A y \in Cand : y # c => op'[y] = op[y]
    BY <2>2 DEF TypeInv, TypeOK
  <2>4. QED
    BY <1>9, <2>1, <2>3 DEF IsLive
<1>12. ASSUME UNCHANGED vars \/ \E c \in Cand : OpenCorrection(c) \/ \E k \in Class : Reclassify(c, k)
       PROVE  DatedInv'
  <2>1. gens' = gens /\ disp' = disp /\ approvedAt' = approvedAt /\ now' = now /\ op' = op
    BY <1>12 DEF vars, OpenCorrection, Reclassify, queueVars, sendVars
  <2>2. QED
    BY <1>9, <2>1 DEF IsLive
<1>13. CASE Tick
  <2>1. gens' = gens /\ disp' = disp /\ approvedAt' = approvedAt /\ op' = op /\ now' = now + 1 /\ now' \in 1..MaxNow
    BY <1>0, <1>13, QueueAssumption DEF Tick, queueVars, sendVars
  <2>2. UtcDay[now] <= UtcDay[now'] /\ UtcDay[now'] \in Nat
    BY <1>0, <2>1, DayFacts
  <2>3. ASSUME NEW x \in Nat, x <= UtcDay[now] PROVE x <= UtcDay[now']
    BY <1>0, <2>2, <2>3
  <2>4. DispositionsArePast'
    BY <2>1, <2>3, DayFacts DEF DatedInv, DispositionsArePast
  <2>5. \A c \in PlannedIn(gens) : StoredDay(gens, c) \in Nat
    BY StoredFacts, DayFacts DEF TypeInv, TypeOK
  <2>6. DraftsArePast'
    BY <2>1, <2>3, <2>5 DEF DatedInv, DraftsArePast
  <2>7. ApprovalsArePast'
    BY <1>0, <2>1 DEF TypeInv, TypeOK, DatedInv, ApprovalsArePast
  <2>8. LiveAreKept'
    BY <2>1 DEF DatedInv, LiveAreKept, IsLive
  <2>9. QED
    BY <2>4, <2>6, <2>7, <2>8 DEF DatedInv
<1>14. QED
  BY <1>2, <1>3, <1>4, <1>5, <1>7, <1>8, <1>10, <1>11, <1>12, <1>13 DEF Next

LEMMA DraftDayAfter ==
  \A c : DraftDay(c)' = IF c \in PlannedIn(gens') THEN StoredDay(gens', c)
                        ELSE IF IsLive(c)' THEN UtcDay[approvedAt'[c]] ELSE UtcDay[now']
<1>1. \A c : DraftDay(c) = IF c \in PlannedIn(gens) THEN StoredDay(gens, c)
                           ELSE IF IsLive(c) THEN UtcDay[approvedAt[c]] ELSE UtcDay[now]
  BY ProjectionTerms
<1>2. (\A c : DraftDay(c) = IF c \in PlannedIn(gens) THEN StoredDay(gens, c)
                            ELSE IF IsLive(c) THEN UtcDay[approvedAt[c]] ELSE UtcDay[now])'
  BY <1>1, PTL
<1>3. QED
  BY <1>2

\* A batch changes nothing a draft is shown by, but for its copy and the day of it.
LEMMA ShownAfterAdding ==
  ASSUME UNCHANGED <<now, disp, suppressed, class, op, approvedAt, sentAt>>,
         NEW c \in Cand, Shown(c), Draft(c)' = Draft(c) \/ IsLive(c),
         c \in PlannedIn(gens') \/ (IsLive(c) /\ Renderable(c)), ~DismissedOn(c, DraftDay(c)')
  PROVE  Shown(c)'
<1>1. Planned' = PlannedIn(gens')
  BY DEF Planned, PlannedIn
<1>2. IsLive(c)' = IsLive(c) /\ Renderable(c)' = Renderable(c)
  BY DEF IsLive, Renderable
<1>3. (\E x \in Days : disp'[c][x] = "permanently-excluded") <=> IsExcluded(c)
  BY DEF IsExcluded
<1>4. ~DismissedIn(disp', c, DraftDay(c)')
  BY <1>3 DEF DismissedIn, DismissedOn, IsExcluded
<1>5. InQueue(c)'
  BY <1>1, <1>2, <1>4 DEF InQueue, DismissedOn, IsExcluded, DismissedIn
<1>6. CASE IsLive(c)
  BY <1>2, <1>5, <1>6 DEF Shown
<1>7. CASE ~IsLive(c)
  <2>1. Draft(c)' = Draft(c) /\ Draft(c).stage = "draft" /\ ~Blocked(c)
    BY <1>7 DEF Shown
  <2>2. Changed(c)' = Changed(c)
    BY <1>2, <2>1 DEF Changed
  <2>3. CoolingDown(CompanyOf[c])' = CoolingDown(CompanyOf[c])
    BY DEF CoolingDown
  <2>4. ~Blocked(c)'
    BY <2>1, <2>2, <2>3 DEF Blocked
  <2>5. QED
    BY <1>5, <2>1, <2>4 DEF Shown
<1>8. QED
  BY <1>6, <1>7

\* Whoever is shown before the first batch is carried over by it.
LEMMA ShownAreCarried ==
  ASSUME TypeInv, gens = <<>>, NEW c \in Cand, Shown(c)
  PROVE  c \in Elements(Carried(NoOne))
<1>1. Queue \in Seq(Cand) /\ c \in Elements(Queue)
  BY ShownIsListed
<1>2. Elements(Keep(Queue, Cand \ {NoOne})) = Elements(Queue) \cap (Cand \ {NoOne})
  BY <1>1, KeepFacts
<1>3. QED
  BY <1>1, <1>2, QueueAssumption DEF Carried

LEMMA AddingKeeps ==
  ASSUME UtcDay = CampaignDay, TypeInv, DatedInv,
         NEW q \in Request \cup {NoRequest}, NEW b \in Bucket, NEW n \in Counts, AddBucketDrafts(q, b, n),
         NEW c \in Cand, Shown(c)
  PROVE  Shown(c)' /\ Draft(c)'.text = Draft(c).text
<1>1. PICK new \in Seq(Cand) :
        /\ Elements(new) \subseteq Eligible(b, NoOne) /\ Extends(Addition(q, new, NoOne))
        /\ Listed(Addition(q, new, NoOne)) = Elements(Carried(NoOne)) \cup Elements(new)
  BY AddMoves
<1>2. PICK g : g = Addition(q, new, NoOne)
  OBVIOUS
<1>3. UNCHANGED <<now, disp, suppressed, class, op, approvedAt, sentAt>>
  BY DEF AddBucketDrafts, sendVars
<1>4. now \in 1..MaxNow /\ gens \in Seq(Generation) /\ g \in Generation /\ gens' = Append(gens, g)
  BY <1>1, <1>2 DEF TypeInv, TypeOK, Extends, WellFormed, Saved
<1>5. c \notin Elements(new)
  <2>1. CompanyOf[c] \in Occupied(NoOne)
    BY QueueAssumption DEF Occupied
  <2>2. QED
    BY <1>1, <2>1 DEF Eligible
<1>6. InQueue(c) /\ ~DismissedOn(c, DraftDay(c))
  BY DEF Shown, InQueue
<1>7. CASE c \in PlannedIn(gens)
  <2>1. c \notin Listed(g)
    BY <1>1, <1>2, <1>7, AdditionListsNew
  <2>2. /\ c \in PlannedIn(gens') /\ Stored(gens', c) = Stored(gens, c)
        /\ StoredDay(gens', c) = StoredDay(gens, c)
    BY <1>1, <1>2, <1>7, <2>1, UnlistedStay
  <2>3. Draft(c)' = Draft(c) /\ DraftDay(c)' = DraftDay(c)
    BY <1>7, <2>2, DraftAfter, DraftDayAfter, ProjectionTerms
  <2>4. Shown(c)'
    BY <1>3, <1>6, <2>2, <2>3, ShownAfterAdding
  <2>5. QED
    BY <2>3, <2>4
<1>8. CASE c \notin PlannedIn(gens) /\ gens # <<>>
  <2>1. Elements(Carried(NoOne)) = {}
    BY <1>8 DEF Carried, Elements
  <2>2. PlannedIn(gens') = PlannedIn(gens) \cup Elements(new)
    BY <1>1, <1>2, <1>4, <2>1, AppendedGeneration
  <2>3. c \notin PlannedIn(gens')
    BY <1>5, <1>8, <2>2
  <2>4. IsLive(c) /\ Renderable(c)
    BY <1>6, <1>8, ProjectionTerms DEF InQueue
  <2>5. Draft(c)' = Draft(c)
    <3>1. Rendered(c)' = Rendered(c)
      BY <1>3 DEF Rendered
    <3>2. QED
      BY <1>8, <2>3, <3>1, DraftAfter, ProjectionTerms
  <2>6. DraftDay(c)' = DraftDay(c)
    BY <1>3, <1>8, <2>3, <2>4, DraftDayAfter, ProjectionTerms DEF IsLive
  <2>7. Shown(c)'
    BY <1>3, <1>6, <2>4, <2>5, <2>6, ShownAfterAdding
  <2>8. QED
    BY <2>5, <2>7
<1>9. CASE c \notin PlannedIn(gens) /\ gens = <<>>
  <2>1. c \in Listed(g)
    BY <1>1, <1>2, <1>9, ShownAreCarried
  <2>2. c \in PlannedIn(gens') /\ Stored(gens', c) = g.copy[c] /\ StoredDay(gens', c) = g.day
    BY <1>4, <2>1, AppendedGeneration
  <2>3. g.day = CampaignDay[now]
    BY <1>2 DEF Addition
  <2>4. g.copy[c] = CopyOf(c)
    <3> DEFINE S == Elements(Carried(NoOne)) \cup Elements(new)
    <3>1. g.copy = [x \in S |-> IF x \in Elements(new) THEN Rendered(x) ELSE CopyOf(x)]
      BY <1>2 DEF Addition
    <3>2. c \in S
      BY <1>1, <1>2, <2>1
    <3> HIDE DEF S
    <3>3. QED
      BY <1>5, <3>1, <3>2
  <2>5. Draft(c)' = CopyOf(c) /\ DraftDay(c)' = CampaignDay[now]
    BY <2>2, <2>3, <2>4, DraftAfter, DraftDayAfter
  <2>6. Draft(c)' = Draft(c) \/ IsLive(c)
    BY <2>5 DEF CopyOf
  <2>7. Draft(c)'.text = Draft(c).text
    <3>1. Draft(c) \in Copy
      BY DraftTypes
    <3>2. PICK x \in Copy : x = Draft(c)
      BY <3>1
    <3>3. [x EXCEPT !.stage = "approved"].text = x.text
      BY DEF Copy
    <3>4. QED
      BY <2>5, <3>2, <3>3 DEF CopyOf
  <2>8. ~DismissedOn(c, CampaignDay[now])
    <3>1. CASE ~IsLive(c)
      BY <1>6, <1>9, <3>1, ProjectionTerms
    <3>2. CASE IsLive(c)
      <4>1. DraftDay(c) = UtcDay[approvedAt[c]]
        BY <1>9, <3>2, ProjectionTerms
      <4>2. approvedAt[c] \in 1..MaxNow /\ approvedAt[c] <= now /\ UtcDay[now] \in Days
        BY <1>4, DaysAreDays DEF TypeInv, TypeOK, DatedInv, ApprovalsArePast
      <4>3. UtcDay[approvedAt[c]] <= UtcDay[now] /\ UtcDay[approvedAt[c]] \in Nat /\ UtcDay[now] \in Nat
        BY <1>4, <4>2, DayFacts
      <4>4. CASE UtcDay[approvedAt[c]] = UtcDay[now]
        BY <1>6, <4>1, <4>4
      <4>5. CASE UtcDay[approvedAt[c]] < UtcDay[now]
        <5>1. disp[c][UtcDay[now]] = "none"
          BY <1>9, <3>2, <4>2, <4>5 DEF DatedInv, LiveAreKept
        <5>2. QED
          BY <1>6, <5>1 DEF DismissedOn
      <4>6. QED
        BY <4>3, <4>4, <4>5
    <3>3. QED
      BY <3>1, <3>2
  <2>9. Shown(c)'
    BY <1>3, <2>2, <2>5, <2>6, <2>8, ShownAfterAdding
  <2>10. QED
    BY <2>7, <2>9
<1>10. QED
  BY <1>7, <1>8, <1>9

\* With pilot recommendations too, where the calendars agree and drafts are added by
\* batches: the first batch stores the queue that was only shown, and every later one
\* leaves it as it is.
THEOREM BatchesKeepTheDrafts ==
  ASSUME UtcDay = CampaignDay, Request = {}
  PROVE  Spec => AddKeepsDrafts
<1> DEFINE Added == Adds => \A c \in Drafts : Shown(c)' /\ Draft(c)'.text = Draft(c).text
           DatedTypes == TypeInv /\ DatedInv
<1>1. DatedTypes /\ [Next]_vars => [Added]_vars
  <2> SUFFICES ASSUME TypeInv, DatedInv, [Next]_vars, Adds, NEW c \in Drafts
               PROVE  Shown(c)' /\ Draft(c)'.text = Draft(c).text
    OBVIOUS
  <2>1. c \in Cand /\ Shown(c)
    BY DEF Drafts
  <2>2. PICK q \in Request \cup {NoRequest}, b \in Bucket, n \in Counts : AddBucketDrafts(q, b, n)
    BY AddsAreAdditions
  <2>3. QED
    BY <2>1, <2>2, AddingKeeps
<1>2. Init => DatedTypes
  BY TypeInvInit, DatedInit
<1>3. DatedTypes /\ [Next]_vars => DatedTypes'
  BY TypeInvNext, DatedNext
<1>4. QED
  BY <1>1, <1>2, <1>3, PTL DEF Spec, AddKeepsDrafts
==============================================================================
