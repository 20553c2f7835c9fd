------------------------- MODULE CollectionsProofs -------------------------
(* Proofs about Collections: the businesses a run finds and its leads, for    *)
(* any directories, sources, sites, mail servers and replies of the model;    *)
(* what is read of a directory, the registry and a site; the mail; the upload *)
(* of the tables of a shop.  ShopsProofs goes on from here.                   *)
EXTENDS Collections, FiniteSetTheorems, SequenceTheorems, WellFoundedInduction, TLAPS

-----------------------------------------------------------------------------
(* Lists.                                                                    *)

TotalOn(S, R) ==
  /\ \A i \in S : <<i, i>> \notin R
  /\ \A i, j, k \in S : <<i, j>> \in R /\ <<j, k>> \in R => <<i, k>> \in R
  /\ \A i, j \in S : i # j => <<i, j>> \in R \/ <<j, i>> \in R

\* o numbers the members of S, smaller ones first.
InOrderOf(o, S, R) ==
  /\ Cardinality(S) \in Nat /\ o \in [1..Cardinality(S) -> S]
  /\ \A a, b \in 1..Cardinality(S) : a < b => <<o[a], o[b]>> \in R
  /\ \A a, b \in 1..Cardinality(S) : o[a] = o[b] => a = b
  /\ \A i \in S : \E a \in 1..Cardinality(S) : o[a] = i

\* A finite set that is ordered can be listed in that order.
LEMMA OrderIs ==
  ASSUME NEW S, IsFiniteSet(S), NEW R, TotalOn(S, R)
  PROVE  InOrderOf(Ordered(S, R), S, R)
  <1> DEFINE n == Cardinality(S)
             B(i) == {k \in S : <<k, i>> \in R}
             f == [i \in S |-> Cardinality(B(i)) + 1]
             o == Ordered(S, R)
  <1>a. /\ \A i \in S : <<i, i>> \notin R
        /\ \A i, j, k \in S : <<i, j>> \in R /\ <<j, k>> \in R => <<i, k>> \in R
        /\ \A i, j \in S : i # j => <<i, j>> \in R \/ <<j, i>> \in R
    BY DEF TotalOn
  <1>1. n \in Nat
    BY FS_CardinalityType
  <1>2. ASSUME NEW i \in S
        PROVE  IsFiniteSet(B(i)) /\ Cardinality(B(i)) \in Nat /\ Cardinality(B(i)) < n
    <2>1. B(i) \in SUBSET S /\ B(i) # S
      BY <1>a
    <2>2. IsFiniteSet(B(i)) /\ Cardinality(B(i)) <= n /\ Cardinality(B(i)) # n
      BY <2>1, FS_Subset
    <2>3. Cardinality(B(i)) \in Nat
      BY <2>2, FS_CardinalityType
    <2> HIDE DEF B, n
    <2> QED
      BY <1>1, <2>2, <2>3
  <1>3. ASSUME NEW i \in S, NEW j \in S, <<i, j>> \in R
        PROVE  Cardinality(B(i)) < Cardinality(B(j))
    <2>1. B(i) \in SUBSET B(j) /\ B(i) # B(j)
      <3>1. i \in B(j) /\ i \notin B(i)
        BY <1>a, <1>3
      <3>2. \A k \in B(i) : k \in B(j)
        BY <1>a, <1>3
      <3> HIDE DEF B
      <3> QED
        BY <3>1, <3>2
    <2>2. IsFiniteSet(B(j)) /\ Cardinality(B(i)) \in Nat /\ Cardinality(B(j)) \in Nat
      BY <1>2
    <2>3. Cardinality(B(i)) <= Cardinality(B(j)) /\ Cardinality(B(i)) # Cardinality(B(j))
      BY <2>1, <2>2, FS_Subset
    <2> HIDE DEF B
    <2> QED
      BY <2>2, <2>3
  <1>4. f \in Injection(S, 1..n)
    <2>1. \A i \in S : Cardinality(B(i)) + 1 \in 1..n
      <3> HIDE DEF B, n
      <3> QED
        BY <1>1, <1>2
    <2>2. f \in [S -> 1..n]
      BY <2>1
    <2>3. ASSUME NEW i \in S, NEW j \in S, i # j PROVE f[i] # f[j]
      <3>1. Cardinality(B(i)) # Cardinality(B(j))
        <4>1. Cardinality(B(i)) \in Nat /\ Cardinality(B(j)) \in Nat
          BY <1>2
        <4>2. Cardinality(B(i)) < Cardinality(B(j)) \/ Cardinality(B(j)) < Cardinality(B(i))
          BY <1>a, <1>3, <2>3
        <4> HIDE DEF B
        <4> QED
          BY <4>1, <4>2
      <3>2. f[i] = Cardinality(B(i)) + 1 /\ f[j] = Cardinality(B(j)) + 1
        OBVIOUS
      <3> HIDE DEF B, f
      <3> QED
        BY <1>2, <3>1, <3>2
    <2> HIDE DEF f
    <2> QED
      BY <2>2, <2>3 DEF Injection, IsInjective
  <1>5. IsFiniteSet(1..n) /\ Cardinality(1..n) = n
    BY <1>1, FS_Interval
  <1>6. f \in Surjection(S, 1..n)
    BY <1>4, <1>5, FS_Injection
  <1>7. o = [a \in 1..n |-> CHOOSE i \in S : Cardinality(B(i)) = a - 1]
    BY Zenon DEF Ordered
  <1>8. ASSUME NEW a \in 1..n PROVE o[a] \in S /\ Cardinality(B(o[a])) = a - 1
    <2>1. PICK i \in S : f[i] = a
      BY <1>6 DEF Surjection
    <2>2. Cardinality(B(i)) = a - 1
      <3>1. f[i] = Cardinality(B(i)) + 1
        OBVIOUS
      <3> HIDE DEF B, f
      <3> QED
        BY <1>2, <2>1, <3>1
    <2>3. o[a] = CHOOSE j \in S : Cardinality(B(j)) = a - 1
      BY <1>7
    <2> HIDE DEF B, o
    <2> QED
      BY <2>2, <2>3
  <1>9. o \in [1..n -> S]
    <2> HIDE DEF n, B
    <2>1. o = [a \in 1..n |-> o[a]]
      BY <1>7
    <2> QED
      BY <1>7, <1>8
  <1> HIDE DEF n, o
  <1>11. \A a, b \in 1..n : o[a] = o[b] => a = b
    <2> SUFFICES ASSUME NEW a \in 1..n, NEW b \in 1..n, o[a] = o[b] PROVE a = b
      OBVIOUS
    <2>1. a - 1 = b - 1
      BY <1>8
    <2> QED
      BY <1>1, <2>1
  <1>12. ASSUME NEW a \in 1..n, NEW b \in 1..n, a < b PROVE <<o[a], o[b]>> \in R
    <2>1. o[a] \in S /\ o[b] \in S /\ Cardinality(B(o[a])) = a - 1 /\ Cardinality(B(o[b])) = b - 1
      BY <1>8
    <2>2. o[a] # o[b]
      BY <1>1, <1>11, <1>12
    <2>3. ~(b - 1 < a - 1)
      BY <1>1, <1>12
    <2> HIDE DEF B
    <2>4. <<o[b], o[a]>> \notin R
      BY <1>3, <2>1, <2>3
    <2> QED
      BY <1>a, <2>1, <2>2, <2>4
  <1>13. \A i \in S : \E a \in 1..n : o[a] = i
    <2> SUFFICES ASSUME NEW i \in S PROVE \E a \in 1..n : o[a] = i
      OBVIOUS
    <2> DEFINE a == f[i]
    <2>1. a \in 1..n /\ Cardinality(B(i)) = a - 1
      <3>1. f[i] = Cardinality(B(i)) + 1
        OBVIOUS
      <3>2. f[i] \in 1..n
        <4> HIDE DEF f
        <4> QED
          BY <1>4 DEF Injection
      <3> HIDE DEF B, f
      <3> QED
        BY <1>2, <3>1, <3>2
    <2> HIDE DEF a
    <2>2. o[a] \in S /\ Cardinality(B(o[a])) = a - 1
      BY <1>8, <2>1
    <2> HIDE DEF B
    <2>3. ~(Cardinality(B(i)) < Cardinality(B(o[a]))) /\ ~(Cardinality(B(o[a])) < Cardinality(B(i)))
      BY <1>1, <2>1, <2>2
    <2>4. o[a] = i
      BY <1>a, <1>3, <2>2, <2>3
    <2> QED
      BY <2>1, <2>4
  <1> QED
    BY <1>1, <1>9, <1>11, <1>12, <1>13 DEF n, o, InOrderOf

LEMMA LeastOf ==
  ASSUME NEW S \in SUBSET Nat, S # {}
  PROVE  /\ Min(S) \in S
         /\ \A n \in S : Min(S) <= n
  <1> DEFINE R == OpToRel(<, Nat)
  <1>1. PICK m \in S : \A n \in S : ~(<<n, m>> \in R)
    <2>1. IsWellFoundedOn(R, Nat)
      BY NatLessThanWellFounded
    <2> HIDE DEF R
    <2> QED
      BY <2>1, WFMin
  <1>2. \A n \in Nat : n < m => <<n, m>> \in R
    BY DEF OpToRel
  <1> HIDE DEF R
  <1>3. \A n \in S : ~(n < m)
    BY <1>1, <1>2, Zenon
  <1>4. \A n \in S : m <= n
    BY <1>3
  <1> QED
    BY <1>4 DEF Min

\* What has a value at each of 1..n is a list.
LEMMA ListIs ==
  ASSUME NEW n \in Nat, NEW s, DOMAIN s = 1..n, s = [i \in DOMAIN s |-> s[i]]
  PROVE  IsList(s) /\ Len(s) = n
  <1>1. s \in [1..n -> ToSet(s)]
    BY DEF ToSet
  <1>2. s \in Seq(ToSet(s))
    BY <1>1, SeqDef
  <1>3. Len(s) = n
    BY <1>1, <1>2, LenProperties
  <1> QED
    BY <1>2, <1>3 DEF IsList

LEMMA ListHas ==
  ASSUME NEW s, IsList(s)
  PROVE  /\ Len(s) \in Nat /\ DOMAIN s = 1..Len(s) /\ s = [i \in DOMAIN s |-> s[i]]
         /\ ToSet(s) = {s[i] : i \in 1..Len(s)}
         /\ s = <<>> <=> Len(s) = 0
         /\ IsFiniteSet(DOMAIN s) /\ Cardinality(DOMAIN s) = Len(s)
  <1>1. /\ Len(s) \in Nat /\ s \in [1..Len(s) -> ToSet(s)]
    BY LenProperties DEF IsList
  <1>2. DOMAIN s = 1..Len(s) /\ s = [i \in DOMAIN s |-> s[i]]
    BY <1>1
  <1>3. s = <<>> <=> Len(s) = 0
    BY EmptySeq DEF IsList
  <1> DEFINE n == Len(s)
  <1> HIDE DEF n
  <1>4. IsFiniteSet(1..n) /\ Cardinality(1..n) = n
    <2>1. n \in Nat
      BY <1>1 DEF n
    <2> QED
      BY <2>1, FS_Interval
  <1>5. ToSet(s) = {s[i] : i \in 1..n}
    BY <1>2, Zenon DEF ToSet, n
  <1> QED
    BY <1>1, <1>2, <1>3, <1>4, <1>5 DEF n

LEMMA PrefixIs ==
  ASSUME NEW s, IsList(s), NEW n \in Nat
  PROVE  LET m == IF Len(s) < n THEN Len(s) ELSE n
         IN  /\ m \in Nat /\ m <= n /\ m <= Len(s) /\ IsList(Prefix(s, n)) /\ Len(Prefix(s, n)) = m
             /\ \A i \in 1..m : i \in 1..Len(s) /\ Prefix(s, n)[i] = s[i]
  <1> DEFINE m == IF Len(s) < n THEN Len(s) ELSE n
             p == Prefix(s, n)
  <1>1. Len(s) \in Nat /\ DOMAIN s = 1..Len(s) /\ ToSet(s) = {s[i] : i \in 1..Len(s)}
    BY ListHas
  <1>2. m \in Nat /\ m <= n /\ m <= Len(s)
    BY <1>1
  <1>3. p = SubSeq(s, 1, m)
    BY DEF Prefix
  <1> HIDE DEF m, p
  <1>4. \A i \in 1..m : i \in 1..Len(s) /\ s[i] \in ToSet(s)
    BY <1>1, <1>2
  <1>5. /\ p \in Seq(ToSet(s)) /\ Len(p) = m /\ \A i \in 1..m : p[i] = s[i]
    <2>1. m \in Int /\ 1 \in Int
      BY <1>2
    <2>2. /\ SubSeq(s, 1, m) \in Seq(ToSet(s))
          /\ Len(SubSeq(s, 1, m)) = IF 1 <= m THEN m - 1 + 1 ELSE 0
          /\ \A i \in 1..(m - 1 + 1) : SubSeq(s, 1, m)[i] = s[1 + i - 1]
      BY <1>4, <2>1, SubSeqProperties DEF IsList
    <2> QED
      BY <1>2, <1>3, <2>2
  <1>6. p \in [1..m -> ToSet(s)]
    BY <1>5, LenProperties
  <1>7. IsList(p)
    <2>1. DOMAIN p = 1..m /\ p = [i \in DOMAIN p |-> p[i]]
      BY <1>6
    <2> QED
      BY <1>2, <2>1, ListIs
  <1> QED
    BY <1>2, <1>4, <1>5, <1>7 DEF m, p

\* where tells of every place of r which of the places P of s it stands for.
SelectsBy(where, r, s, P) ==
  /\ IsList(r) /\ where \in [DOMAIN r -> P]
  /\ \A a, b \in DOMAIN r : where[a] = where[b] => a = b
  /\ \A i \in P : \E a \in DOMAIN r : where[a] = i
  /\ \A a \in DOMAIN r : r[a] = s[where[a]]

LEMMA SelectedIs ==
  ASSUME NEW s, NEW n \in Nat, NEW P \in SUBSET (1..n)
  PROVE  /\ IsFiniteSet(P) /\ Cardinality(P) \in Nat
         /\ IsList(Selected(s, P)) /\ Len(Selected(s, P)) = Cardinality(P)
         /\ \E where : SelectsBy(where, Selected(s, P), s, P)
  <1> DEFINE c == Cardinality(P)
             R == {p \in P \X P : p[1] < p[2]}
             where == Ordered(P, R)
             r == Selected(s, P)
  <1>1. IsFiniteSet(P) /\ c \in Nat
    <2>1. IsFiniteSet(1..n)
      BY FS_Interval
    <2> QED
      BY <2>1, FS_Subset, FS_CardinalityType
  <1>2. \A i, j \in P : <<i, j>> \in R <=> i < j
    OBVIOUS
  <1>3. r = [k \in DOMAIN where |-> s[where[k]]]
    BY DEF Selected
  <1> HIDE DEF R, r, where
  <1>4. \A i \in P : i \in Nat
    OBVIOUS
  <1>5. /\ where \in [1..c -> P]
        /\ \A a, b \in 1..c : where[a] = where[b] => a = b
        /\ \A i \in P : \E a \in 1..c : where[a] = i
    <2>1. TotalOn(P, R)
      BY <1>2, <1>4 DEF TotalOn
    <2>2. InOrderOf(Ordered(P, R), P, R)
      BY <1>1, <2>1, OrderIs
    <2> QED
      BY <2>2 DEF InOrderOf, where
  <1>6. DOMAIN r = 1..c /\ r = [k \in DOMAIN r |-> r[k]] /\ \A k \in 1..c : r[k] = s[where[k]]
    BY <1>3, <1>5
  <1>7. IsList(r) /\ Len(r) = c
    BY <1>1, <1>6, ListIs
  <1>8. SelectsBy(where, r, s, P)
    BY <1>5, <1>6, <1>7 DEF SelectsBy
  <1> QED
    BY <1>1, <1>7, <1>8 DEF r

\* One sequence of several finite ones is a list, and has what each of them has.
LEMMA JoinedIs ==
  ASSUME NEW s, IsList(s), \A i \in DOMAIN s : IsList(s[i])
  PROVE  /\ IsList(Joined(s))
         /\ \A p \in DOMAIN s : \A i \in DOMAIN s[p] : s[p][i] \in ToSet(Joined(s))
         /\ \A x \in ToSet(Joined(s)) : \E p \in DOMAIN s : x \in ToSet(s[p])
  <1> DEFINE Of(p) == {<<p, i>> : i \in DOMAIN s[p]}
             all == {Of(p) : p \in DOMAIN s}
             places == UNION all
             f == [p \in DOMAIN s |-> Of(p)]
  <1>1. \A p \in DOMAIN s : IsFiniteSet(Of(p))
    <2> SUFFICES ASSUME NEW p \in DOMAIN s PROVE IsFiniteSet(Of(p))
      OBVIOUS
    <2> DEFINE D == DOMAIN s[p]
               g == [i \in D |-> <<p, i>>]
    <2>1. IsFiniteSet(D)
      BY ListHas
    <2>2. g \in Surjection(D, Of(p))
      <3>1. g \in [D -> Of(p)]
        OBVIOUS
      <3>2. \A x \in Of(p) : \E i \in D : g[i] = x
        OBVIOUS
      <3> HIDE DEF g, D
      <3> QED
        BY <3>1, <3>2 DEF Surjection
    <2> HIDE DEF D, g
    <2> QED
      BY <2>1, <2>2, FS_Surjection
  <1>2. IsFiniteSet(all)
    <2>1. IsFiniteSet(DOMAIN s)
      BY ListHas
    <2> HIDE DEF Of
    <2>2. f \in [DOMAIN s -> all] /\ \A x \in all : \E p \in DOMAIN s : f[p] = x
      OBVIOUS
    <2>3. f \in Surjection(DOMAIN s, all)
      BY <2>2 DEF Surjection
    <2> HIDE DEF f, all
    <2> QED
      BY <2>1, <2>3, FS_Surjection
  <1>3. IsFiniteSet(places)
    <2>1. \A T \in all : IsFiniteSet(T)
      BY <1>1
    <2> HIDE DEF all
    <2> QED
      BY <1>2, <2>1, FS_UNION
  <1> DEFINE c == Cardinality(places)
             j == Joined(s)
  <1>4. c \in Nat
    BY <1>3, FS_CardinalityType
  <1> DEFINE R == {q \in places \X places :
                      q[1][1] < q[2][1] \/ (q[1][1] = q[2][1] /\ q[1][2] < q[2][2])}
             where == Ordered(places, R)
  <1>5. j = [k \in DOMAIN where |-> s[where[k][1]][where[k][2]]]
    BY Zenon DEF Joined
  <1>a. \A q \in places : q[1] \in Nat /\ q[2] \in Nat /\ q = <<q[1], q[2]>>
    <2>1. \A p \in DOMAIN s : p \in Nat /\ \A i \in DOMAIN s[p] : i \in Nat
      BY ListHas
    <2> QED
      BY <2>1
  <1>b. TotalOn(places, R)
    <2> HIDE DEF places
    <2>1. \A q, r \in places : <<q, r>> \in R <=> q[1] < r[1] \/ (q[1] = r[1] /\ q[2] < r[2])
      OBVIOUS
    <2>2. \A q, r \in places : q # r => q[1] # r[1] \/ q[2] # r[2]
      BY <1>a
    <2> HIDE DEF R
    <2>3. /\ \A q \in places : <<q, q>> \notin R
          /\ \A q, r \in places : q # r => <<q, r>> \in R \/ <<r, q>> \in R
      BY <1>a, <2>1, <2>2
    <2>4. \A q, r, t \in places : <<q, r>> \in R /\ <<r, t>> \in R => <<q, t>> \in R
      <3> SUFFICES ASSUME NEW q \in places, NEW r \in places, NEW t \in places, <<q, r>> \in R, <<r, t>> \in R
                   PROVE  <<q, t>> \in R
        OBVIOUS
      <3> QED
        BY <1>a, <2>1
    <2> QED
      BY <2>3, <2>4 DEF TotalOn
  <1>c. \A p \in DOMAIN s : \A i \in DOMAIN s[p] : <<p, i>> \in places
    OBVIOUS
  <1> HIDE DEF places, R
  <1>d. \A q \in places : q[1] \in DOMAIN s /\ q[2] \in DOMAIN s[q[1]]
    BY DEF places
  <1>6. /\ DOMAIN where = 1..c /\ \A q \in places : \E k \in 1..c : where[k] = q
        /\ \A k \in 1..c : where[k] \in places
    BY <1>3, <1>b, OrderIs DEF InOrderOf
  <1>8. DOMAIN j = 1..c /\ j = [k \in DOMAIN j |-> j[k]]
    BY <1>5, <1>6
  <1>9. ASSUME NEW p \in DOMAIN s, NEW i \in DOMAIN s[p]
        PROVE  s[p][i] \in ToSet(j)
    <2>1. PICK k \in 1..c : where[k] = <<p, i>>
      BY <1>6, <1>c
    <2>2. j[k] = s[where[k][1]][where[k][2]]
      BY <1>5, <1>6
    <2>3. j[k] = s[p][i]
      BY <2>1, <2>2
    <2> QED
      BY <1>8, <2>3 DEF ToSet
  <1>10. \A x \in ToSet(j) : \E p \in DOMAIN s : x \in ToSet(s[p])
    <2> SUFFICES ASSUME NEW k \in 1..c PROVE \E p \in DOMAIN s : j[k] \in ToSet(s[p])
      BY <1>8 DEF ToSet
    <2>1. j[k] = s[where[k][1]][where[k][2]]
      BY <1>5, <1>6
    <2>2. where[k][1] \in DOMAIN s /\ where[k][2] \in DOMAIN s[where[k][1]]
      BY <1>6, <1>d
    <2> QED
      BY <2>1, <2>2 DEF ToSet
  <1> HIDE DEF c, j, where
  <1>7. IsList(j)
    BY <1>4, <1>8, ListIs
  <1> QED
    BY <1>7, <1>9, <1>10 DEF j

LEMMA DistinctIs ==
  ASSUME NEW s, IsList(s)
  PROVE  IsList(Distinct(s)) /\ ToSet(Distinct(s)) = ToSet(s)
  <1> DEFINE P == {i \in DOMAIN s : \A j \in DOMAIN s : j < i => s[j] # s[i]}
  <1>1. Len(s) \in Nat /\ P \in SUBSET (1..Len(s))
    BY ListHas
  <1>2. Distinct(s) = Selected(s, P)
    BY DEF Distinct
  <1>3. \A x \in ToSet(s) : \E i \in P : s[i] = x
    <2> SUFFICES ASSUME NEW x \in ToSet(s) PROVE \E i \in P : s[i] = x
      OBVIOUS
    <2> DEFINE W == {i \in DOMAIN s : s[i] = x}
    <2>1. W \in SUBSET Nat /\ W # {}
      BY ListHas DEF ToSet
    <2>2. Min(W) \in W /\ \A n \in W : Min(W) <= n
      <3> HIDE DEF W
      <3> QED
        BY <2>1, LeastOf
    <2>3. PICK m \in W : \A n \in W : m <= n
      BY <2>2
    <2>4. \A k \in DOMAIN s : k < m => k \notin W
      BY <2>1, <2>3, ListHas
    <2> QED
      BY <2>3, <2>4
  <1> HIDE DEF P
  <1>4. IsList(Selected(s, P)) /\ \E where : SelectsBy(where, Selected(s, P), s, P)
    BY <1>1, SelectedIs
  <1>5. PICK where : SelectsBy(where, Selected(s, P), s, P)
    BY <1>4
  <1>6. \A i \in P : s[i] \in ToSet(Selected(s, P))
    BY <1>5 DEF SelectsBy, ToSet
  <1>7. \A x \in ToSet(Selected(s, P)) : \E i \in P : x = s[i]
    BY <1>5 DEF SelectsBy, ToSet
  <1>8. \A i \in P : s[i] \in ToSet(s)
    BY DEF ToSet, P
  <1> QED
    BY <1>2, <1>3, <1>4, <1>6, <1>7, <1>8

-----------------------------------------------------------------------------
(* The index of businesses.                                                  *)

RowFields == {"name", "site", "email", "from"}

\* The arrivals of an entry.
Of(e, arrivals) == {a \in arrivals : a.keys # <<>> /\ ToSet(a.keys) \subseteq e.keys}

\* An entry has no keys but those of its arrivals.
EntryFits(e, arrivals) ==
  /\ Of(e, arrivals) # {} /\ DOMAIN e.row = RowFields
  /\ \A k \in e.keys : \E a \in Of(e, arrivals) : k \in ToSet(a.keys)
  /\ \A part \in (SUBSET Of(e, arrivals)) \ {{}, Of(e, arrivals)} :
       \E a \in part : \E b \in Of(e, arrivals) \ part : ToSet(a.keys) \cap ToSet(b.keys) # {}
  /\ \A f \in RowFields : Blank(e.row[f]) <=> \A a \in Of(e, arrivals) : Blank(a.item[f])

Apart(idx) == \A i, j \in DOMAIN idx : i # j => idx[i].keys \cap idx[j].keys = {}
Placed(idx, arrivals) ==
  \A a \in arrivals : a.keys # <<>> => \E i \in DOMAIN idx : ToSet(a.keys) \subseteq idx[i].keys

IndexOK(idx, arrivals) ==
  /\ IsList(idx) /\ \A a \in arrivals : IsList(a.keys)
  /\ \A i \in DOMAIN idx : EntryFits(idx[i], arrivals)
  /\ Apart(idx) /\ Placed(idx, arrivals)

LEMMA IndexPartitions ==
  ASSUME NEW idx, NEW arrivals, IndexOK(idx, arrivals)
  PROVE  IndexIsPartition(idx, arrivals)
  <1> DEFINE keyed == {a \in arrivals : a.keys # <<>>}
             P(i) == {a \in keyed : ToSet(a.keys) \subseteq idx[i].keys}
  <1>1. \A i \in DOMAIN idx : P(i) = Of(idx[i], arrivals)
    BY DEF Of
  <1>2. \A a \in keyed : \E i \in DOMAIN idx : a \in P(i)
    BY DEF IndexOK, Placed
  <1> HIDE DEF P
  <1>3. \A i \in DOMAIN idx :
          /\ P(i) # {} /\ DOMAIN idx[i].row = RowFields
          /\ \A part \in (SUBSET P(i)) \ {{}, P(i)} :
               \E a \in part : \E b \in P(i) \ part : ToSet(a.keys) \cap ToSet(b.keys) # {}
          /\ \A f \in RowFields : Blank(idx[i].row[f]) <=> \A a \in P(i) : Blank(a.item[f])
    <2> SUFFICES ASSUME NEW i \in DOMAIN idx
                 PROVE  /\ P(i) # {} /\ DOMAIN idx[i].row = RowFields
                        /\ \A part \in (SUBSET P(i)) \ {{}, P(i)} :
                             \E a \in part : \E b \in P(i) \ part : ToSet(a.keys) \cap ToSet(b.keys) # {}
                        /\ \A f \in RowFields : Blank(idx[i].row[f]) <=> \A a \in P(i) : Blank(a.item[f])
      BY Zenon
    <2>1. EntryFits(idx[i], arrivals) /\ P(i) = Of(idx[i], arrivals)
      BY <1>1 DEF IndexOK
    <2> QED
      BY <2>1, Zenon DEF EntryFits
  <1>4. \A i, j \in DOMAIN idx : i # j => idx[i].keys \cap idx[j].keys = {}
    BY DEF IndexOK, Apart
  <1> HIDE DEF keyed
  <1>5. /\ \A i, j \in DOMAIN idx : i # j => idx[i].keys \cap idx[j].keys = {}
        /\ \A a \in keyed : \E i \in DOMAIN idx : a \in P(i)
        /\ \A i \in DOMAIN idx :
             /\ P(i) # {}
             /\ \A part \in (SUBSET P(i)) \ {{}, P(i)} :
                  \E a \in part : \E b \in P(i) \ part : ToSet(a.keys) \cap ToSet(b.keys) # {}
             /\ \A f \in DOMAIN idx[i].row : Blank(idx[i].row[f]) <=> \A a \in P(i) : Blank(a.item[f])
    <2>1. \A i \in DOMAIN idx : \A f \in DOMAIN idx[i].row :
            Blank(idx[i].row[f]) <=> \A a \in P(i) : Blank(a.item[f])
      BY <1>3
    <2> QED
      BY <1>2, <1>3, <1>4, <2>1, Zenon
  <1> QED
    BY <1>5, Zenon DEF IndexIsPartition, P, keyed

\* Without arrivals of its own an entry stays as it is.
LEMMA FitsStill ==
  ASSUME NEW e, NEW arrivals, NEW more, EntryFits(e, arrivals), Of(e, more) = Of(e, arrivals)
  PROVE  EntryFits(e, more)
  BY DEF EntryFits

LEMMA KeysAre ==
  ASSUME NEW keys, IsList(keys), keys # <<>>
  PROVE  ToSet(keys) # {}
  <1>1. Len(keys) \in Nat /\ Len(keys) # 0 /\ ToSet(keys) = {keys[i] : i \in 1..Len(keys)}
    BY ListHas
  <1>2. 1 \in 1..Len(keys)
    BY <1>1
  <1> QED
    BY <1>1, <1>2

\* The entries an arrival shares keys with become one with it.
Shares(idx, keys) == {i \in DOMAIN idx : \E k \in ToSet(keys) : k \in idx[i].keys}
IsMerged(e, idx, item, keys) ==
  /\ e.keys = ToSet(keys) \cup UNION {idx[i].keys : i \in Shares(idx, keys)}
  /\ DOMAIN e.row = RowFields
  /\ \A f \in RowFields :
       Blank(e.row[f]) <=> Blank(item[f]) /\ \A i \in Shares(idx, keys) : Blank(idx[i].row[f])

LEMMA MergedOf ==
  ASSUME NEW idx, NEW arrivals, IndexOK(idx, arrivals), NEW item, NEW keys, IsList(keys), keys # <<>>,
         NEW e, IsMerged(e, idx, item, keys), NEW new, new = [item |-> item, keys |-> keys]
  PROVE  Of(e, arrivals \cup {new}) = {new} \cup UNION {Of(idx[i], arrivals) : i \in Shares(idx, keys)}
  <1> DEFINE H == Shares(idx, keys)
  <1>1. \A i \in H : i \in DOMAIN idx /\ idx[i].keys \subseteq e.keys
    BY DEF IsMerged, Shares
  <1>2. new.keys = keys /\ ToSet(keys) \subseteq e.keys
    BY DEF IsMerged
  <1>3. ASSUME NEW a \in arrivals, a.keys # <<>>, ToSet(a.keys) \subseteq e.keys
        PROVE  \E i \in H : a \in Of(idx[i], arrivals)
    <2>1. PICK j \in DOMAIN idx : ToSet(a.keys) \subseteq idx[j].keys
      BY <1>3 DEF IndexOK, Placed
    <2>2. PICK k : k \in ToSet(a.keys)
      BY <1>3, KeysAre DEF IndexOK
    <2>3. k \in ToSet(keys) \/ \E i \in H : k \in idx[i].keys
      BY <1>3, <2>2 DEF IsMerged
    <2>4. j \in H
      <3>1. CASE k \in ToSet(keys)
        BY <2>1, <2>2, <3>1 DEF Shares
      <3>2. CASE \E i \in H : k \in idx[i].keys
        <4>1. PICK i \in H : k \in idx[i].keys
          BY <3>2
        <4>2. i = j
          BY <1>1, <2>1, <2>2, <4>1 DEF IndexOK, Apart
        <4> QED
          BY <4>2
      <3> QED
        BY <2>3, <3>1, <3>2
    <2>5. a \in Of(idx[j], arrivals)
      BY <1>3, <2>1 DEF Of
    <2> QED
      BY <2>4, <2>5
  <1> HIDE DEF H
  <1>4. ASSUME NEW a \in Of(e, arrivals \cup {new})
        PROVE  a \in {new} \cup UNION {Of(idx[i], arrivals) : i \in H}
    BY <1>3 DEF Of
  <1>5. ASSUME NEW i \in H, NEW a \in Of(idx[i], arrivals)
        PROVE  a \in Of(e, arrivals \cup {new})
    BY <1>1 DEF Of
  <1>6. new \in Of(e, arrivals \cup {new})
    BY <1>2 DEF Of
  <1>7. Of(e, arrivals \cup {new}) = {new} \cup UNION {Of(idx[i], arrivals) : i \in H}
    BY <1>4, <1>5, <1>6
  <1> QED
    BY <1>7 DEF H

LEMMA MergedFits ==
  ASSUME NEW idx, NEW arrivals, IndexOK(idx, arrivals), NEW item, NEW keys, IsList(keys), keys # <<>>,
         NEW e, IsMerged(e, idx, item, keys), NEW new, new = [item |-> item, keys |-> keys]
  PROVE  EntryFits(e, arrivals \cup {new})
  <1> DEFINE H == Shares(idx, keys)
             all == Of(e, arrivals \cup {new})
             O(i) == Of(idx[i], arrivals)
  <1>1. all = {new} \cup UNION {O(i) : i \in H}
    BY MergedOf
  <1>2. \A i \in H : i \in DOMAIN idx /\ EntryFits(idx[i], arrivals) /\ \E k \in ToSet(keys) : k \in idx[i].keys
    BY DEF Shares, IndexOK
  <1>3. /\ e.keys = ToSet(keys) \cup UNION {idx[i].keys : i \in H} /\ DOMAIN e.row = RowFields
        /\ \A f \in RowFields : Blank(e.row[f]) <=> Blank(item[f]) /\ \A i \in H : Blank(idx[i].row[f])
    BY DEF IsMerged
  <1>4. new.keys = keys /\ new.item = item
    OBVIOUS
  <1>5. \A i \in H : /\ O(i) # {}
                     /\ \A k \in idx[i].keys : \E a \in O(i) : k \in ToSet(a.keys)
                     /\ \A part \in (SUBSET O(i)) \ {{}, O(i)} :
                          \E a \in part : \E b \in O(i) \ part : ToSet(a.keys) \cap ToSet(b.keys) # {}
                     /\ \A f \in RowFields : Blank(idx[i].row[f]) <=> \A a \in O(i) : Blank(a.item[f])
    BY <1>2 DEF EntryFits
  <1> HIDE DEF H, O, all
  <1>6. \A i \in H : O(i) \subseteq all
    BY <1>1
  <1>7. new \in all
    BY <1>1
  <1>8. \A a \in all : a = new \/ \E i \in H : a \in O(i)
    BY <1>1
  <1>9. \A k \in e.keys : \E a \in all : k \in ToSet(a.keys)
    <2> SUFFICES ASSUME NEW k \in e.keys PROVE \E a \in all : k \in ToSet(a.keys)
      OBVIOUS
    <2>1. CASE k \in ToSet(keys)
      BY <1>4, <1>7, <2>1
    <2>2. CASE \E i \in H : k \in idx[i].keys
      BY <1>5, <1>6, <2>2
    <2> QED
      BY <1>3, <2>1, <2>2
  <1>10. \A f \in RowFields : Blank(e.row[f]) <=> \A a \in all : Blank(a.item[f])
    BY <1>3, <1>4, <1>5, <1>6, <1>7, <1>8
  <1>11. ASSUME NEW part \in (SUBSET all) \ {{}, all}
         PROVE  \E a \in part : \E b \in all \ part : ToSet(a.keys) \cap ToSet(b.keys) # {}
    <2> SUFFICES ASSUME \A a \in part : \A b \in all \ part : ToSet(a.keys) \cap ToSet(b.keys) = {}
                 PROVE  FALSE
      BY Zenon
    <2>1. part \subseteq all /\ part # {} /\ all \ part # {}
      OBVIOUS
    <2>2. ASSUME NEW i \in H
          PROVE  (new \in part => O(i) \subseteq part) /\ (new \notin part => O(i) \cap part = {})
      <3> DEFINE mine == O(i) \cap part
      <3>1. mine = {} \/ mine = O(i)
        <4> SUFFICES ASSUME mine # {}, mine # O(i) PROVE FALSE
          OBVIOUS
        <4>0. mine \subseteq O(i)
          OBVIOUS
        <4>1. mine \in (SUBSET O(i)) \ {{}, O(i)}
          <5> HIDE DEF mine
          <5> QED
            BY <4>0
        <4>2. PICK a \in mine : \E b \in O(i) \ mine : ToSet(a.keys) \cap ToSet(b.keys) # {}
          <5>1. \A p \in (SUBSET O(i)) \ {{}, O(i)} :
                  \E a \in p : \E b \in O(i) \ p : ToSet(a.keys) \cap ToSet(b.keys) # {}
            BY <1>5
          <5> HIDE DEF mine
          <5> QED
            BY <4>1, <5>1
        <4>3. PICK b \in O(i) \ mine : ToSet(a.keys) \cap ToSet(b.keys) # {}
          BY <4>2
        <4>4. a \in part /\ b \in all \ part
          BY <1>6, <4>2, <4>3
        <4> QED
          BY <4>3, <4>4
      <3>2. PICK k \in ToSet(keys) : k \in idx[i].keys
        BY <1>2
      <3>3. PICK a \in O(i) : k \in ToSet(a.keys)
        BY <1>5, <3>2
      <3>4. k \in ToSet(a.keys) \cap ToSet(new.keys) /\ a \in all
        BY <1>4, <1>6, <3>2, <3>3
      <3>5. new \in part => a \in part
        BY <1>7, <3>4
      <3>6. new \notin part => a \notin part
        BY <1>7, <3>4
      <3> QED
        BY <3>1, <3>3, <3>5, <3>6
    <2>3. CASE new \in part
      BY <1>8, <2>1, <2>2, <2>3
    <2>4. CASE new \notin part
      BY <1>8, <2>1, <2>2, <2>4
    <2> QED
      BY <2>3, <2>4
  <1>12. all # {}
    BY <1>7
  <1> QED
    BY <1>3, <1>9, <1>10, <1>11, <1>12 DEF EntryFits, all

\* where tells of every place of the new index where it comes from: 0 is the entry of
\* the arrival.
Rebuilt(r, where, idx, keys, e) ==
  /\ IsList(r)
  /\ \A n \in DOMAIN r : \/ where[n] = 0 /\ r[n] = e
                         \/ where[n] \in DOMAIN idx \ Shares(idx, keys) /\ r[n] = idx[where[n]]
  /\ \A n, m \in DOMAIN r : where[n] = where[m] => n = m
  /\ \A i \in {0} \cup (DOMAIN idx \ Shares(idx, keys)) : \E n \in DOMAIN r : where[n] = i

LEMMA MergedIndex ==
  ASSUME NEW idx, NEW arrivals, IndexOK(idx, arrivals), NEW item, NEW keys, IsList(keys), keys # <<>>,
         NEW e, IsMerged(e, idx, item, keys), NEW r, NEW where, Rebuilt(r, where, idx, keys, e)
  PROVE  IndexOK(r, arrivals \cup {[item |-> item, keys |-> keys]})
  <1> DEFINE H == Shares(idx, keys)
             new == [item |-> item, keys |-> keys]
             more == arrivals \cup {new}
  <1>0. new = [item |-> item, keys |-> keys]
    OBVIOUS
  <1>a. /\ IsList(r)
        /\ \A n \in DOMAIN r : \/ where[n] = 0 /\ r[n] = e
                               \/ where[n] \in DOMAIN idx \ H /\ r[n] = idx[where[n]]
        /\ \A n, m \in DOMAIN r : where[n] = where[m] => n = m
        /\ \A i \in {0} \cup (DOMAIN idx \ H) : \E n \in DOMAIN r : where[n] = i
    BY DEF Rebuilt
  <1>1. EntryFits(e, more)
    <2> HIDE DEF new
    <2> QED
      BY <1>0, MergedFits
  <1>2. ToSet(keys) # {} /\ new.keys = keys
    BY KeysAre
  <1>3. e.keys = ToSet(keys) \cup UNION {idx[i].keys : i \in H}
    BY DEF IsMerged
  <1>4. \A i \in H : i \in DOMAIN idx
    BY DEF Shares
  <1>5. \A i \in DOMAIN idx \ H : idx[i].keys \cap ToSet(keys) = {}
    BY DEF Shares
  <1>6. 0 \notin DOMAIN idx
    <2>1. Len(idx) \in Nat /\ DOMAIN idx = 1..Len(idx)
      BY ListHas DEF IndexOK
    <2> QED
      BY <2>1
  <1> HIDE DEF new, more, H
  <1>7. ASSUME NEW i \in DOMAIN idx \ H PROVE EntryFits(idx[i], more) /\ idx[i].keys \cap e.keys = {}
    <2>1. Of(idx[i], more) = Of(idx[i], arrivals)
      BY <1>2, <1>5 DEF Of, more
    <2>2. EntryFits(idx[i], more)
      BY <2>1, FitsStill DEF IndexOK
    <2>3. \A j \in H : idx[i].keys \cap idx[j].keys = {}
      BY <1>4 DEF IndexOK, Apart
    <2> QED
      BY <1>3, <1>5, <2>2, <2>3
  <1>8. \A n \in DOMAIN r : EntryFits(r[n], more)
    BY <1>a, <1>1, <1>7
  <1>9. Apart(r)
    <2> SUFFICES ASSUME NEW n \in DOMAIN r, NEW m \in DOMAIN r, n # m PROVE r[n].keys \cap r[m].keys = {}
      BY DEF Apart
    <2>1. where[n] # where[m]
      BY <1>a
    <2>2. CASE where[n] = 0
      <3>1. r[n] = e /\ where[m] \in DOMAIN idx \ H /\ r[m] = idx[where[m]]
        BY <1>a, <1>6, <2>1, <2>2
      <3> QED
        BY <1>7, <3>1
    <2>3. CASE where[m] = 0
      <3>1. r[m] = e /\ where[n] \in DOMAIN idx \ H /\ r[n] = idx[where[n]]
        BY <1>a, <1>6, <2>1, <2>3
      <3> QED
        BY <1>7, <3>1
    <2>4. CASE where[n] # 0 /\ where[m] # 0
      BY <1>a, <2>1, <2>4 DEF IndexOK, Apart
    <2> QED
      BY <2>2, <2>3, <2>4
  <1>10. Placed(r, more)
    <2> SUFFICES ASSUME NEW a \in more, a.keys # <<>> PROVE \E n \in DOMAIN r : ToSet(a.keys) \subseteq r[n].keys
      BY DEF Placed
    <2>1. PICK z \in DOMAIN r : where[z] = 0
      BY <1>a
    <2>2. r[z] = e
      BY <1>a, <1>6, <2>1
    <2>3. CASE a = new
      BY <1>2, <1>3, <2>2, <2>3
    <2>4. CASE a \in arrivals
      <3>1. PICK i \in DOMAIN idx : ToSet(a.keys) \subseteq idx[i].keys
        BY <2>4 DEF IndexOK, Placed
      <3>2. CASE i \in H
        BY <1>3, <2>2, <3>1, <3>2
      <3>3. CASE i \notin H
        <4>1. PICK n \in DOMAIN r : where[n] = i
          BY <1>a, <3>3
        <4>2. r[n] = idx[i]
          BY <1>a, <1>6, <4>1
        <4> QED
          BY <3>1, <4>2
      <3> QED
        BY <3>2, <3>3
    <2> QED
      BY <2>3, <2>4 DEF more
  <1>11. \A a \in more : IsList(a.keys)
    BY <1>2 DEF IndexOK, more
  <1>12. IndexOK(r, more)
    BY <1>a, <1>8, <1>9, <1>10, <1>11 DEF IndexOK
  <1> QED
    BY <1>12 DEF more, new

\* Merging an item leaves a partition of all that has arrived.
LEMMA MergeKeeps ==
  ASSUME NEW idx, NEW arrivals, IndexOK(idx, arrivals), NEW item, DOMAIN item = RowFields,
         NEW keys, IsList(keys)
  PROVE  IndexOK(MergeByKeys(idx, item, keys), arrivals \cup {[item |-> item, keys |-> keys]})
  <1> DEFINE more == arrivals \cup {[item |-> item, keys |-> keys]}
             H == Shares(idx, keys)
             n == Len(idx)
  <1>1. n \in Nat /\ DOMAIN idx = 1..n /\ idx = [i \in DOMAIN idx |-> idx[i]] /\ IsList(idx)
    BY ListHas DEF IndexOK
  <1>2. CASE keys = <<>>
    <2>1. MergeByKeys(idx, item, keys) = idx
      BY <1>2 DEF MergeByKeys
    <2>2. \A a \in more : a \in arrivals \/ a.keys = <<>>
      BY <1>2
    <2>3. \A a \in more : IsList(a.keys)
      BY DEF IndexOK
    <2> HIDE DEF more
    <2>4. arrivals \subseteq more
      BY DEF more
    <2>5. \A i \in DOMAIN idx : Of(idx[i], more) = Of(idx[i], arrivals)
      BY <2>2, <2>4 DEF Of
    <2>6. \A i \in DOMAIN idx : EntryFits(idx[i], more)
      BY <2>5, FitsStill DEF IndexOK
    <2>7. IndexOK(idx, more)
      BY <2>2, <2>3, <2>6 DEF IndexOK, Placed
    <2> QED
      BY <2>1, <2>7 DEF more
  <1>3. CASE keys # <<>>
    <2> DEFINE Entry(m) == CHOOSE i \in Hits(idx, keys[m]) : TRUE
               known == {m \in DOMAIN keys : Hits(idx, keys[m]) # {}}
               hits == {Entry(m) : m \in known}
               Knows(f) == {m \in known : ~Blank(idx[Entry(m)].row[f])}
               e == [keys |-> ToSet(keys) \cup UNION {idx[i].keys : i \in hits},
                     row |-> [f \in DOMAIN item |-> IF Knows(f) = {} THEN item[f]
                                                    ELSE idx[Entry(Min(Knows(f)))].row[f]]]
               r == MergeByKeys(idx, item, keys)
    <2>1. r = IF hits = {} THEN Append(idx, e)
              ELSE Selected([idx EXCEPT ![Min(hits)] = e], DOMAIN idx \ (hits \ {Min(hits)}))
      BY <1>3, Zenon DEF MergeByKeys
    <2>2. \A m \in known : Entry(m) \in DOMAIN idx /\ keys[m] \in idx[Entry(m)].keys
      <3>1. \A m \in known : Entry(m) \in Hits(idx, keys[m])
        OBVIOUS
      <3> HIDE DEF Entry, known
      <3> QED
        BY <3>1 DEF Hits
    <2>3. hits = H
      <3>1. \A i \in hits : i \in H
        <4> SUFFICES ASSUME NEW m \in known PROVE Entry(m) \in H
          OBVIOUS
        <4>1. keys[m] \in ToSet(keys)
          BY DEF ToSet
        <4> HIDE DEF Entry, known
        <4> QED
          BY <2>2, <4>1 DEF Shares
      <3>2. ASSUME NEW i \in H PROVE i \in hits
        <4>1. PICK k \in ToSet(keys) : k \in idx[i].keys /\ i \in DOMAIN idx
          BY DEF Shares
        <4>2. PICK m \in DOMAIN keys : keys[m] = k
          BY <4>1 DEF ToSet
        <4>3. m \in known
          BY <4>1, <4>2 DEF Hits
        <4>4. Entry(m) \in DOMAIN idx /\ k \in idx[Entry(m)].keys
          BY <2>2, <4>2, <4>3
        <4>5. Entry(m) \in hits
          BY <4>3
        <4> HIDE DEF Entry, hits, known, H
        <4>6. Entry(m) = i
          BY <4>1, <4>4 DEF IndexOK, Apart
        <4> QED
          BY <4>5, <4>6
      <3> HIDE DEF hits, H
      <3> QED
        BY <3>1, <3>2
    <2>4. \A f : Knows(f) = {} <=> \A i \in H : Blank(idx[i].row[f])
      <3> SUFFICES ASSUME NEW f PROVE Knows(f) = {} <=> \A i \in hits : Blank(idx[i].row[f])
        BY <2>3
      <3> HIDE DEF Entry, known
      <3> QED
        BY DEF Blank
    <2>5. known \subseteq Nat
      BY ListHas
    <2>6. \A f : Knows(f) # {} => ~Blank(idx[Entry(Min(Knows(f)))].row[f])
      <3> SUFFICES ASSUME NEW f, Knows(f) # {} PROVE ~Blank(idx[Entry(Min(Knows(f)))].row[f])
        OBVIOUS
      <3> DEFINE K == Knows(f)
      <3>1. K \subseteq Nat
        BY <2>5
      <3>2. \A m \in K : ~Blank(idx[Entry(m)].row[f])
        OBVIOUS
      <3> HIDE DEF K
      <3>3. Min(K) \in K
        <4>1. K # {}
          BY DEF K
        <4> QED
          BY <3>1, <4>1, LeastOf
      <3>4. ~Blank(idx[Entry(Min(K))].row[f])
        BY <3>2, <3>3
      <3> QED
        BY <3>4 DEF K
    <2>7. IsMerged(e, idx, item, keys)
      <3>1. e.keys = ToSet(keys) \cup UNION {idx[i].keys : i \in H}
        BY <2>3
      <3>2. DOMAIN e.row = RowFields /\ \A f \in RowFields : e.row[f] = IF Knows(f) = {} THEN item[f]
                                                                      ELSE idx[Entry(Min(Knows(f)))].row[f]
        OBVIOUS
      <3> HIDE DEF e, Knows, Entry, H
      <3>3. \A f \in RowFields : Blank(e.row[f]) <=> Blank(item[f]) /\ \A i \in H : Blank(idx[i].row[f])
        <4> SUFFICES ASSUME NEW f \in RowFields
                     PROVE  Blank(e.row[f]) <=> Blank(item[f]) /\ \A i \in H : Blank(idx[i].row[f])
          OBVIOUS
        <4>1. CASE Knows(f) = {}
          BY <2>4, <3>2, <4>1
        <4>2. CASE Knows(f) # {}
          BY <2>4, <2>6, <3>2, <4>2
        <4> QED
          BY <4>1, <4>2
      <3> QED
        BY <3>1, <3>2, <3>3 DEF IsMerged, H
    <2> HIDE DEF Entry, known, Knows, e, hits, more
    <2>8. CASE hits = {}
      <3> DEFINE where == [m \in 1..n + 1 |-> IF m = n + 1 THEN 0 ELSE m]
      <3>1. r = Append(idx, e)
        BY <2>1, <2>8
      <3>2. /\ IsList(r) /\ DOMAIN r = 1..n + 1 /\ r[n + 1] = e
            /\ \A m \in 1..n : r[m] = idx[m]
        <4>1. idx \in Seq(ToSet(idx) \cup {e})
          BY SeqMonotonic DEF IndexOK, IsList
        <4>2. /\ r \in Seq(ToSet(idx) \cup {e}) /\ Len(r) = n + 1
              /\ \A m \in 1..n : r[m] = idx[m]
              /\ r[n + 1] = e
          BY <3>1, <4>1, AppendProperties
        <4>3. DOMAIN r = 1..n + 1 /\ r \in [1..n + 1 -> ToSet(idx) \cup {e}]
          BY <4>2, LenProperties
        <4>4. n + 1 \in Nat /\ r = [i \in DOMAIN r |-> r[i]]
          BY <1>1, <4>3
        <4>5. IsList(r)
          BY <4>3, <4>4, ListIs
        <4> QED
          BY <4>2, <4>3, <4>5
      <3> HIDE DEF r, n, H
      <3>3. \A m \in DOMAIN r : where[m] = IF m = n + 1 THEN 0 ELSE m
        BY <3>2
      <3> HIDE DEF where
      <3>4. \A m \in DOMAIN r : \/ where[m] = 0 /\ r[m] = e
                                \/ where[m] \in DOMAIN idx \ H /\ r[m] = idx[where[m]]
        BY <1>1, <2>3, <2>8, <3>2, <3>3
      <3>5. \A l, m \in DOMAIN r : where[l] = where[m] => l = m
        BY <1>1, <3>2, <3>3
      <3>6. \A i \in {0} \cup (DOMAIN idx \ H) : \E m \in DOMAIN r : where[m] = i
        <4> SUFFICES ASSUME NEW i \in {0} \cup (DOMAIN idx \ H) PROVE \E m \in DOMAIN r : where[m] = i
          OBVIOUS
        <4>1. CASE i = 0
          <5>1. n + 1 \in DOMAIN r
            BY <1>1, <3>2
          <5> QED
            BY <3>3, <4>1, <5>1
        <4>2. CASE i \in DOMAIN idx
          <5>1. i \in DOMAIN r /\ i # n + 1
            BY <1>1, <3>2, <4>2
          <5> QED
            BY <3>3, <5>1
        <4> QED
          BY <4>1, <4>2
      <3>7. Rebuilt(r, where, idx, keys, e)
        BY <3>2, <3>4, <3>5, <3>6 DEF H, Rebuilt
      <3>8. IndexOK(r, arrivals \cup {[item |-> item, keys |-> keys]})
        BY <1>3, <2>7, <3>7, MergedIndex
      <3> QED
        BY <3>8 DEF r
    <2>9. CASE hits # {}
      <3> DEFINE z == Min(hits)
                 X == [idx EXCEPT ![z] = e]
                 P == DOMAIN idx \ (hits \ {z})
      <3>1. r = Selected(X, P)
        BY <2>1, <2>9
      <3>2. hits \subseteq DOMAIN idx
        BY <2>3 DEF Shares
      <3>3. z \in hits
        <4>1. hits \subseteq Nat
          BY <1>1, <3>2
        <4> QED
          BY <2>9, <4>1, LeastOf
      <3> HIDE DEF z
      <3>4. z \in DOMAIN idx /\ z \in P /\ P \in SUBSET (1..n)
        BY <1>1, <3>2, <3>3
      <3>5. X[z] = e /\ \A i \in DOMAIN idx : i # z => X[i] = idx[i]
        BY <3>4
      <3>6. \A i \in P : i = z \/ i \in DOMAIN idx \ hits
        OBVIOUS
      <3>7. \A i \in DOMAIN idx \ hits : i \in P /\ i # z
        BY <3>3
      <3> HIDE DEF X, P, n, H
      <3>8. \E g : SelectsBy(g, Selected(X, P), X, P)
        BY <1>1, <3>4, SelectedIs
      <3>9. PICK g : SelectsBy(g, r, X, P)
        BY <3>1, <3>8
      <3> DEFINE where == [a \in DOMAIN r |-> IF g[a] = z THEN 0 ELSE g[a]]
      <3>10. /\ IsList(r) /\ \A a \in DOMAIN r : g[a] \in P /\ r[a] = X[g[a]]
             /\ \A a, b \in DOMAIN r : g[a] = g[b] => a = b
             /\ \A i \in P : \E a \in DOMAIN r : g[a] = i
        BY <3>9 DEF SelectsBy
      <3> HIDE DEF r
      <3>11. \A a \in DOMAIN r : where[a] = IF g[a] = z THEN 0 ELSE g[a]
        OBVIOUS
      <3> HIDE DEF where
      <3>12. 0 \notin DOMAIN idx
        BY <1>1
      <3>13. \A m \in DOMAIN r : \/ where[m] = 0 /\ r[m] = e
                                 \/ where[m] \in DOMAIN idx \ H /\ r[m] = idx[where[m]]
        BY <2>3, <3>5, <3>6, <3>10, <3>11
      <3>14. \A l, m \in DOMAIN r : where[l] = where[m] => l = m
        BY <3>6, <3>10, <3>11, <3>12
      <3>15. \A i \in {0} \cup (DOMAIN idx \ H) : \E m \in DOMAIN r : where[m] = i
        BY <2>3, <3>4, <3>7, <3>10, <3>11
      <3>16. Rebuilt(r, where, idx, keys, e)
        BY <3>10, <3>13, <3>14, <3>15 DEF H, Rebuilt
      <3>17. IndexOK(r, arrivals \cup {[item |-> item, keys |-> keys]})
        BY <1>3, <2>7, <3>16, MergedIndex
      <3> QED
        BY <3>17 DEF r
    <2> QED
      BY <2>8, <2>9
  <1> QED
    BY <1>2, <1>3

-----------------------------------------------------------------------------
(* Turns: the rows of a source one after the other, the sources in the order *)
(* of their first rows.                                                      *)

Turn(list, i) == Cardinality({j \in 1..i : list[j].from = list[i].from})
Bucket(list, i) == Min({j \in 1..i : list[j].from = list[i].from})
TurnOrder(list) ==
  {p \in (DOMAIN list) \X (DOMAIN list) :
     \/ Turn(list, p[1]) < Turn(list, p[2])
     \/ Turn(list, p[1]) = Turn(list, p[2]) /\ Bucket(list, p[1]) < Bucket(list, p[2])}

LEMMA TurnIs ==
  ASSUME NEW list, IsList(list), NEW i \in DOMAIN list
  PROVE  /\ i \in Nat /\ IsFiniteSet({j \in 1..i : list[j].from = list[i].from})
         /\ Turn(list, i) \in Nat
         /\ Bucket(list, i) \in 1..i /\ list[Bucket(list, i)].from = list[i].from
         /\ \A j \in 1..i : list[j].from = list[i].from => Bucket(list, i) <= j
  <1> DEFINE S == {j \in 1..i : list[j].from = list[i].from}
  <1>1. i \in Nat /\ i \in 1..i
    BY ListHas
  <1>2. IsFiniteSet(S) /\ Cardinality(S) \in Nat
    <2>1. IsFiniteSet(1..i) /\ S \in SUBSET (1..i)
      BY <1>1, FS_Interval
    <2> HIDE DEF S
    <2> QED
      BY <2>1, FS_Subset, FS_CardinalityType
  <1>3. Min(S) \in S /\ \A j \in S : Min(S) <= j
    <2>1. i \in S /\ S \subseteq Nat
      BY <1>1
    <2> HIDE DEF S
    <2> QED
      BY <2>1, LeastOf
  <1> QED
    BY <1>1, <1>2, <1>3 DEF Turn, Bucket

LEMMA TurnsAreTotal ==
  ASSUME NEW list, IsList(list)
  PROVE  TotalOn(DOMAIN list, TurnOrder(list))
  <1> DEFINE T(i) == Turn(list, i)
             B(i) == Bucket(list, i)
             R == TurnOrder(list)
             D == DOMAIN list
  <1>1. \A i \in D : i \in Nat /\ T(i) \in Nat /\ B(i) \in Nat
    <2> SUFFICES ASSUME NEW i \in D PROVE i \in Nat /\ T(i) \in Nat /\ B(i) \in Nat
      OBVIOUS
    <2>1. i \in Nat /\ Turn(list, i) \in Nat /\ Bucket(list, i) \in 1..i
      BY TurnIs
    <2> QED
      BY <2>1
  <1>2. \A i, j \in D : <<i, j>> \in R <=> T(i) < T(j) \/ (T(i) = T(j) /\ B(i) < B(j))
    BY DEF TurnOrder
  <1>3. ASSUME NEW i \in D, NEW j \in D, i < j, B(i) = B(j) PROVE T(i) < T(j)
    <2> DEFINE S(k) == {l \in 1..k : list[l].from = list[k].from}
    <2>1. list[i].from = list[j].from
      <3>1. list[B(i)].from = list[i].from /\ list[B(j)].from = list[j].from
        BY TurnIs
      <3> QED
        BY <1>3, <3>1
    <2>2. S(i) \in SUBSET S(j) /\ S(i) # S(j)
      <3>1. i \in Nat /\ j \in Nat
        BY <1>1
      <3>2. j \in S(j) /\ j \notin S(i)
        BY <1>3, <3>1
      <3>3. \A l \in S(i) : l \in S(j)
        BY <1>3, <2>1, <3>1
      <3> HIDE DEF S
      <3> QED
        BY <3>2, <3>3
    <2>3. IsFiniteSet(S(j)) /\ T(i) = Cardinality(S(i)) /\ T(j) = Cardinality(S(j))
      BY TurnIs DEF Turn
    <2>4. T(i) <= T(j) /\ T(i) # T(j)
      <3> HIDE DEF S, T
      <3> QED
        BY <2>2, <2>3, FS_Subset
    <2>5. T(i) \in Nat /\ T(j) \in Nat
      BY <1>1
    <2> HIDE DEF T
    <2> QED
      BY <2>4, <2>5
  <1> HIDE DEF T, B, R, D
  <1>4. ASSUME NEW i \in D, NEW j \in D, i # j PROVE <<i, j>> \in R \/ <<j, i>> \in R
    <2>1. i < j \/ j < i
      BY <1>1, <1>4
    <2>2. T(i) # T(j) \/ B(i) # B(j)
      BY <1>1, <1>3, <2>1
    <2> QED
      BY <1>1, <1>2, <2>2
  <1>5. \A i \in D : <<i, i>> \notin R
    BY <1>1, <1>2
  <1>6. ASSUME NEW i \in D, NEW j \in D, NEW k \in D, <<i, j>> \in R, <<j, k>> \in R PROVE <<i, k>> \in R
    BY <1>1, <1>2, <1>6
  <1>7. TotalOn(D, R)
    BY <1>4, <1>5, <1>6, Zenon DEF TotalOn
  <1> QED
    BY <1>7 DEF D, R

\* The first m of an order are a beginning of it.
LEMMA BeginningIs ==
  ASSUME NEW S, NEW R, TotalOn(S, R), NEW o, InOrderOf(o, S, R), NEW m \in Nat, m <= Cardinality(S),
         NEW a \in 1..m, NEW j \in S, <<j, o[a]>> \in R
  PROVE  \E b \in 1..m : o[b] = j
  <1> DEFINE n == Cardinality(S)
  <1>1. n \in Nat /\ o \in [1..n -> S] /\ \A p, q \in 1..n : p < q => <<o[p], o[q]>> \in R
    BY DEF InOrderOf
  <1>2. PICK b \in 1..n : o[b] = j
    BY DEF InOrderOf
  <1> HIDE DEF n
  <1>3. a \in 1..n /\ o[a] \in S
    BY <1>1 DEF n
  <1>4. ~(a < b)
    <2> SUFFICES ASSUME a < b PROVE FALSE
      OBVIOUS
    <2>1. <<o[a], j>> \in R
      BY <1>1, <1>2, <1>3
    <2>2. <<j, j>> \in R
      BY <1>3, <2>1 DEF TotalOn
    <2> QED
      BY <2>2 DEF TotalOn
  <1>5. b \in 1..m
    BY <1>1, <1>2, <1>3, <1>4
  <1> QED
    BY <1>2, <1>5

From(list, s) == {i \in DOMAIN list : list[i].from = s}

LEMMA GreatestOf ==
  ASSUME NEW n \in Nat, NEW S \in SUBSET (0..n), S # {}
  PROVE  \E m \in S : \A k \in S : k <= m
  <1> DEFINE T == {n - k : k \in S}
  <1>1. \A k \in S : k \in Nat /\ n - k \in Nat
    OBVIOUS
  <1>2. T \in SUBSET Nat /\ T # {}
    BY <1>1
  <1>3. Min(T) \in T /\ \A t \in T : Min(T) <= t
    <2> HIDE DEF T
    <2> QED
      BY <1>2, LeastOf
  <1>4. PICK m \in S : Min(T) = n - m
    BY <1>3
  <1>5. ASSUME NEW k \in S PROVE k <= m
    <2>1. n - m <= n - k
      BY <1>3, <1>4
    <2> QED
      BY <1>1, <2>1
  <1> QED
    BY <1>5

FirstOf(D, o, m) == D = {o[a] : a \in 1..m}

\* A source that is short of another one by more than a row in the beginning of the
\* interleaved list has no more.
LEMMA TurnsAreFair ==
  ASSUME NEW list, IsList(list), NEW o, InOrderOf(o, DOMAIN list, TurnOrder(list)),
         NEW m \in Nat, m <= Len(list), NEW s, NEW t, NEW D, FirstOf(D, o, m),
         Cardinality(From(list, s) \cap D) + 1 < Cardinality(From(list, t) \cap D)
  PROVE  From(list, s) \subseteq D
  <1> DEFINE n == Len(list)
             R == TurnOrder(list)
             Ds == From(list, s) \cap D
             Dt == From(list, t) \cap D
  <1>1. n \in Nat /\ DOMAIN list = 1..n /\ Cardinality(DOMAIN list) = n
    BY ListHas
  <1>a. D = {o[a] : a \in 1..m}
    BY DEF FirstOf
  <1>2. D \subseteq 1..n
    <2>1. o \in [1..n -> 1..n]
      BY <1>1 DEF InOrderOf
    <2> QED
      BY <1>a, <1>1, <2>1
  <1>3. /\ IsFiniteSet(Ds) /\ Cardinality(Ds) \in Nat /\ IsFiniteSet(Dt) /\ Cardinality(Dt) \in Nat
    <2>1. Ds \in SUBSET (1..n) /\ Dt \in SUBSET (1..n)
      BY <1>2
    <2>2. IsFiniteSet(1..n)
      BY <1>1, FS_Interval
    <2> HIDE DEF Ds, Dt
    <2> QED
      BY <2>1, <2>2, FS_Subset, FS_CardinalityType
  <1> SUFFICES ASSUME ~(From(list, s) \subseteq D) PROVE FALSE
    OBVIOUS
  <1> DEFINE missing == From(list, s) \ D
             x == Min(missing)
  <1>4. missing \subseteq 1..n /\ missing # {} /\ missing \subseteq Nat
    BY <1>1 DEF From
  <1>5. x \in missing /\ \A k \in missing : x <= k
    <2> HIDE DEF missing
    <2> QED
      BY <1>4, LeastOf
  <1> HIDE DEF x, missing
  <1>6. x \in 1..n /\ x \notin D /\ list[x].from = s
    BY <1>4, <1>5 DEF missing, From
  <1>7. Turn(list, x) <= Cardinality(Ds) + 1
    <2> DEFINE S == {j \in 1..x : list[j].from = list[x].from}
    <2>1. S \in SUBSET (Ds \cup {x})
      <3> SUFFICES ASSUME NEW j \in 1..x, list[j].from = s PROVE j \in Ds \/ j = x
        BY <1>6
      <3>1. j \in 1..n
        BY <1>1, <1>6
      <3>2. j \in From(list, s)
        BY <1>1, <3>1 DEF From
      <3>3. CASE j \notin D
        <4>1. x <= j
          BY <1>5, <3>2, <3>3 DEF missing
        <4> QED
          BY <1>6, <4>1
      <3> QED
        BY <3>2, <3>3
    <2> HIDE DEF S
    <2>2. IsFiniteSet(Ds \cup {x}) /\ Cardinality(Ds \cup {x}) = Cardinality(Ds) + 1
      <3>1. x \notin Ds
        BY <1>6
      <3> HIDE DEF Ds
      <3> QED
        BY <1>3, <3>1, FS_AddElement
    <2>3. Cardinality(S) <= Cardinality(Ds) + 1
      <3> HIDE DEF Ds
      <3> QED
        BY <2>1, <2>2, FS_Subset
    <2> QED
      BY <2>3 DEF Turn, S
  <1>8. Dt # {} /\ Dt \in SUBSET (0..n)
    <2>1. Dt # {}
      <3>1. Cardinality({}) = 0
        BY FS_EmptySet
      <3>2. Cardinality(Dt) # 0
        <4> HIDE DEF Ds, Dt
        <4>1. Cardinality(Ds) + 1 < Cardinality(Dt)
          BY DEF Ds, Dt
        <4> QED
          BY <1>3, <4>1
      <3> QED
        BY <3>1, <3>2
    <2>2. \A k \in Dt : k \in 0..n
      <3>1. \A k \in 1..n : k \in 0..n
        BY <1>1
      <3> QED
        BY <1>2, <3>1
    <2> QED
      BY <2>1, <2>2
  <1>9. PICK y \in Dt : \A k \in Dt : k <= y
    <2> HIDE DEF Dt
    <2> QED
      BY <1>1, <1>8, GreatestOf
  <1>10. y \in 1..n /\ y \in D /\ list[y].from = t
    BY <1>2, <1>9 DEF From
  <1>11. Cardinality(Dt) <= Turn(list, y)
    <2> DEFINE S == {j \in 1..y : list[j].from = list[y].from}
    <2>1. \A j \in Dt : j \in S
      BY <1>2, <1>9, <1>10 DEF From
    <2>2. IsFiniteSet(S)
      <3>1. y \in DOMAIN list
        BY <1>1, <1>10
      <3> QED
        BY <3>1, TurnIs
    <2> HIDE DEF S, Dt
    <2>3. Cardinality(Dt) <= Cardinality(S)
      BY <2>1, <2>2, FS_Subset
    <2> QED
      BY <2>3 DEF Turn, S
  <1>12. Turn(list, x) < Turn(list, y)
    <2>1. Turn(list, x) \in Nat /\ Turn(list, y) \in Nat
      BY <1>1, <1>6, <1>10, TurnIs
    <2>2. Cardinality(Ds) + 1 < Cardinality(Dt)
      OBVIOUS
    <2> HIDE DEF Ds, Dt
    <2> QED
      BY <1>3, <1>7, <1>11, <2>1, <2>2
  <1>13. <<x, y>> \in R
    BY <1>1, <1>6, <1>10, <1>12 DEF TurnOrder
  <1>14. PICK a \in 1..m : o[a] = y
    BY <1>a, <1>10
  <1>15. \E b \in 1..m : o[b] = x
    <2>1. TotalOn(DOMAIN list, R)
      BY TurnsAreTotal
    <2>2. x \in DOMAIN list /\ <<x, o[a]>> \in R
      BY <1>1, <1>6, <1>13, <1>14
    <2> HIDE DEF R
    <2>3. InOrderOf(o, DOMAIN list, R) /\ m <= Cardinality(DOMAIN list)
      BY <1>1 DEF R
    <2> QED
      BY <2>1, <2>2, <2>3, BeginningIs
  <1> QED
    BY <1>a, <1>6, <1>15

LEMMA InterleavedShare ==
  ASSUME NEW list, IsList(list), NEW lim \in Nat
  PROVE  LET cut == Prefix(InterleaveBySource(list), lim) IN
         /\ IsList(cut) /\ Len(cut) <= lim
         /\ \A s, t : Cardinality(From(cut, s)) + 1 < Cardinality(From(cut, t))
              => Cardinality(From(cut, s)) = Cardinality(From(list, s))
  <1> DEFINE n == Len(list)
             D == DOMAIN list
             R == TurnOrder(list)
             o == Ordered(D, R)
             all == InterleaveBySource(list)
             cut == Prefix(all, lim)
             m == IF n < lim THEN n ELSE lim
             B == {o[a] : a \in 1..m}
  <1>1. n \in Nat /\ D = 1..n /\ Cardinality(D) = n /\ IsFiniteSet(D)
    BY ListHas
  <1>2. InOrderOf(o, D, R)
    <2>1. TotalOn(D, R)
      BY TurnsAreTotal
    <2> HIDE DEF D, R
    <2> QED
      BY <1>1, <2>1, OrderIs
  <1>3. all = [i \in D |-> list[o[i]]]
    BY Zenon DEF InterleaveBySource, TurnOrder, Turn, Bucket
  <1> HIDE DEF R, o, all, D, n
  <1>4. o \in [1..n -> 1..n] /\ \A a, b \in 1..n : o[a] = o[b] => a = b
    BY <1>1, <1>2 DEF InOrderOf
  <1>5. IsList(all) /\ Len(all) = n
    BY <1>1, <1>3, ListIs
  <1>6. m \in Nat /\ m <= n /\ m <= lim
    BY <1>1
  <1>7. IsList(cut) /\ Len(cut) = m /\ \A i \in 1..m : cut[i] = all[i]
    BY <1>5, PrefixIs
  <1> HIDE DEF m, cut
  <1>8. DOMAIN cut = 1..m /\ \A i \in 1..m : i \in 1..n /\ o[i] \in 1..n /\ cut[i] = list[o[i]]
    <2>1. DOMAIN cut = 1..m
      BY <1>7, ListHas
    <2>2. \A i \in 1..m : i \in 1..n
      BY <1>1, <1>6
    <2>3. \A i \in 1..n : o[i] \in 1..n /\ all[i] = list[o[i]]
      BY <1>1, <1>3, <1>4
    <2> QED
      BY <1>7, <2>1, <2>2, <2>3
  <1> HIDE DEF B
  <1>9. ASSUME NEW s PROVE Cardinality(From(cut, s)) = Cardinality(From(list, s) \cap B)
    <2> DEFINE F == From(cut, s)
               G == From(list, s) \cap B
               f == [a \in F |-> o[a]]
    <2>1. F \subseteq 1..m /\ \A a \in F : cut[a].from = s
      BY <1>8 DEF From
    <2>2. \A a \in F : o[a] \in G
      BY <1>1, <1>8, <2>1 DEF From, B, D
    <2>3. \A g \in G : \E a \in F : o[a] = g
      <3> SUFFICES ASSUME NEW g \in G PROVE \E a \in F : o[a] = g
        OBVIOUS
      <3>1. PICK a \in 1..m : o[a] = g
        BY DEF B
      <3>2. list[g].from = s
        BY DEF From
      <3>3. a \in F
        BY <1>8, <3>1, <3>2 DEF From
      <3> QED
        BY <3>1, <3>3
    <2>4. IsFiniteSet(F)
      <3>1. IsFiniteSet(1..m)
        BY <1>6, FS_Interval
      <3> HIDE DEF F
      <3> QED
        BY <2>1, <3>1, FS_Subset
    <2> HIDE DEF F, G
    <2>5. f \in [F -> G] /\ \A a \in F : f[a] = o[a]
      BY <2>2
    <2> HIDE DEF f
    <2>6. f \in Injection(F, G)
      BY <1>4, <1>8, <2>1, <2>5 DEF Injection, IsInjective
    <2>7. f \in Surjection(F, G)
      BY <2>3, <2>5 DEF Surjection
    <2>8. Cardinality(G) = Cardinality(F)
      BY <2>4, <2>6, <2>7, FS_Surjection
    <2> QED
      BY <2>8 DEF F, G
  <1>10. ASSUME NEW s, NEW t, Cardinality(From(cut, s)) + 1 < Cardinality(From(cut, t))
         PROVE  Cardinality(From(cut, s)) = Cardinality(From(list, s))
    <2>1. Cardinality(From(list, s) \cap B) + 1 < Cardinality(From(list, t) \cap B)
      BY <1>9, <1>10
    <2>2. From(list, s) \subseteq B
      <3>1. InOrderOf(o, DOMAIN list, TurnOrder(list)) /\ FirstOf(B, o, m) /\ m <= Len(list)
        BY <1>2, <1>6 DEF D, R, B, n, FirstOf
      <3> QED
        BY <1>6, <2>1, <3>1, TurnsAreFair
    <2>3. From(list, s) \cap B = From(list, s)
      BY <2>2
    <2> QED
      BY <1>9, <2>3
  <1> QED
    BY <1>6, <1>7, <1>10 DEF cut, all

-----------------------------------------------------------------------------
(* Lists of rows.                                                            *)

RowList(s) == IsList(s) /\ \A r \in ToSet(s) : DOMAIN r = RowFields

LEMMA JoinIs ==
  ASSUME NEW s, IsList(s), NEW t, IsList(t)
  PROVE  IsList(s \o t) /\ ToSet(s \o t) = ToSet(s) \cup ToSet(t)
  <1> DEFINE S == ToSet(s) \cup ToSet(t)
             n == Len(s)
             m == Len(t)
             u == s \o t
  <1>1. s \in Seq(S) /\ t \in Seq(S)
    BY SeqMonotonic DEF IsList
  <1>2. n \in Nat /\ m \in Nat /\ ToSet(s) = {s[i] : i \in 1..n} /\ ToSet(t) = {t[i] : i \in 1..m}
    BY ListHas
  <1> HIDE DEF S
  <1>3. /\ u \in Seq(S) /\ Len(u) = n + m
        /\ \A i \in 1..(n + m) : u[i] = IF i <= n THEN s[i] ELSE t[i - n]
    BY <1>1, ConcatProperties
  <1> HIDE DEF u, n, m
  <1>4. DOMAIN u = 1..(n + m) /\ u = [i \in DOMAIN u |-> u[i]]
    BY <1>3, LenProperties
  <1>5. IsList(u)
    <2>1. n + m \in Nat
      BY <1>2
    <2> QED
      BY <1>4, <2>1, ListIs
  <1>6. ToSet(u) = {u[i] : i \in 1..(n + m)}
    BY <1>4 DEF ToSet
  <1>7. \A i \in 1..n : i \in 1..(n + m) /\ u[i] = s[i]
    BY <1>2, <1>3
  <1>8. \A i \in 1..m : n + i \in 1..(n + m) /\ u[n + i] = t[i]
    <2> SUFFICES ASSUME NEW i \in 1..m PROVE n + i \in 1..(n + m) /\ u[n + i] = t[i]
      OBVIOUS
    <2>1. n + i \in 1..(n + m) /\ ~(n + i <= n) /\ (n + i) - n = i
      BY <1>2
    <2> QED
      BY <1>3, <2>1
  <1>9. \A i \in 1..(n + m) : i \in 1..n \/ i - n \in 1..m
    BY <1>2
  <1>10. \A i \in 1..(n + m) : u[i] \in ToSet(s) \/ u[i] \in ToSet(t)
    <2> SUFFICES ASSUME NEW i \in 1..(n + m) PROVE u[i] \in ToSet(s) \/ u[i] \in ToSet(t)
      OBVIOUS
    <2>1. CASE i \in 1..n
      BY <1>2, <1>7, <2>1
    <2>2. CASE i \notin 1..n
      <3>1. i - n \in 1..m /\ ~(i <= n)
        BY <1>2, <1>9, <2>2
      <3>2. u[i] = t[i - n]
        BY <1>3, <3>1
      <3> QED
        BY <1>2, <3>1, <3>2
    <2> QED
      BY <2>1, <2>2
  <1>11. \A x \in ToSet(s) \cup ToSet(t) : x \in ToSet(u)
    BY <1>2, <1>6, <1>7, <1>8
  <1> QED
    BY <1>5, <1>6, <1>10, <1>11 DEF u

LEMMA TailIs ==
  ASSUME NEW s, IsList(s), s # <<>>
  PROVE  /\ IsList(Tail(s)) /\ Head(s) \in ToSet(s)
         /\ ToSet(s) = {Head(s)} \cup ToSet(Tail(s))
  <1> DEFINE n == Len(s)
             t == Tail(s)
  <1>1. n \in Nat /\ n # 0 /\ ToSet(s) = {s[i] : i \in 1..n}
    BY ListHas
  <1>2. /\ Head(s) = s[1] /\ t \in Seq(ToSet(s)) /\ Len(t) = n - 1
        /\ \A i \in 1..n - 1 : t[i] = s[i + 1]
    BY HeadTailProperties DEF IsList
  <1> HIDE DEF t, n
  <1>3. DOMAIN t = 1..n - 1 /\ t = [i \in DOMAIN t |-> t[i]]
    BY <1>2, LenProperties
  <1>4. IsList(t)
    <2>1. n - 1 \in Nat
      BY <1>1
    <2> QED
      BY <1>3, <2>1, ListIs
  <1>5. ToSet(t) = {t[i] : i \in 1..n - 1}
    BY <1>3 DEF ToSet
  <1>6. 1 \in 1..n /\ \A i \in 1..n - 1 : i + 1 \in 1..n
    BY <1>1
  <1>7. \A i \in 1..n : i = 1 \/ (i - 1 \in 1..n - 1 /\ t[i - 1] = s[i])
    <2> SUFFICES ASSUME NEW i \in 1..n, i # 1 PROVE i - 1 \in 1..n - 1 /\ t[i - 1] = s[i]
      OBVIOUS
    <2>1. i - 1 \in 1..n - 1 /\ (i - 1) + 1 = i
      BY <1>1
    <2> QED
      BY <1>2, <2>1
  <1>8. \A x \in ToSet(s) : x = Head(s) \/ x \in ToSet(t)
    BY <1>1, <1>2, <1>5, <1>7
  <1>9. Head(s) \in ToSet(s) /\ \A x \in ToSet(t) : x \in ToSet(s)
    BY <1>1, <1>2, <1>5, <1>6
  <1> QED
    BY <1>4, <1>8, <1>9 DEF t

\* The places of a list, each with a row of its own.
LEMMA RowsAre ==
  ASSUME NEW n \in Nat, NEW r, DOMAIN r = 1..n, r = [i \in DOMAIN r |-> r[i]],
         \A i \in 1..n : DOMAIN r[i] = RowFields
  PROVE  RowList(r) /\ Len(r) = n
  <1>1. IsList(r) /\ Len(r) = n
    BY ListIs
  <1>2. ToSet(r) = {r[i] : i \in 1..n}
    BY DEF ToSet
  <1> QED
    BY <1>1, <1>2 DEF RowList

LEMMA EmptyRows == RowList(<<>>) /\ Len(<<>>) = 0 /\ ToSet(<<>>) = {}
  <1>1. ToSet(<<>>) = {}
    BY DEF ToSet
  <1>2. IsList(<<>>)
    BY EmptySeq, <1>1 DEF IsList
  <1> QED
    BY <1>1, <1>2 DEF RowList

LEMMA PrefixHas ==
  ASSUME NEW s, IsList(s), NEW n \in Nat
  PROVE  ToSet(Prefix(s, n)) \subseteq ToSet(s)
  <1> DEFINE p == Prefix(s, n)
             m == IF Len(s) < n THEN Len(s) ELSE n
  <1>1. /\ m \in Nat /\ IsList(p) /\ Len(p) = m
        /\ \A i \in 1..m : i \in 1..Len(s) /\ p[i] = s[i]
    BY PrefixIs
  <1> HIDE DEF p, m
  <1>2. ToSet(p) = {p[i] : i \in 1..m} /\ ToSet(s) = {s[i] : i \in 1..Len(s)}
    BY <1>1, ListHas
  <1>3. \A i \in 1..m : p[i] \in ToSet(s)
    BY <1>1, <1>2
  <1> QED
    BY <1>2, <1>3 DEF p

LEMMA SelectedHas ==
  ASSUME NEW s, NEW n \in Nat, NEW P \in SUBSET (1..n)
  PROVE  /\ IsList(Selected(s, P))
         /\ \A x \in ToSet(Selected(s, P)) : \E i \in P : x = s[i]
  <1> DEFINE r == Selected(s, P)
  <1>1. IsList(r) /\ \E where : SelectsBy(where, r, s, P)
    BY SelectedIs
  <1>2. PICK where : SelectsBy(where, r, s, P)
    BY <1>1
  <1> HIDE DEF r
  <1>3. ToSet(r) = {r[i] : i \in DOMAIN r}
    BY DEF ToSet
  <1>4. \A a \in DOMAIN r : where[a] \in P /\ r[a] = s[where[a]]
    BY <1>2 DEF SelectsBy
  <1> QED
    BY <1>1, <1>3, <1>4 DEF r

LEMMA PrefixRows ==
  ASSUME NEW s, RowList(s), NEW n \in Nat
  PROVE  RowList(Prefix(s, n)) /\ Len(Prefix(s, n)) \in Nat /\ Len(Prefix(s, n)) <= n
  <1>1. IsList(s)
    BY DEF RowList
  <1>2. IsList(Prefix(s, n)) /\ Len(Prefix(s, n)) \in Nat /\ Len(Prefix(s, n)) <= n
    BY <1>1, PrefixIs
  <1>3. ToSet(Prefix(s, n)) \subseteq ToSet(s)
    BY <1>1, PrefixHas
  <1> QED
    BY <1>2, <1>3 DEF RowList

-----------------------------------------------------------------------------
(* What the sources return is rows, and no more than asked for.              *)

LEMMA RowIs ==
  \A a, b, c, d : DOMAIN Row(a, b, c, d) = RowFields
  BY DEF Row, RowFields

LEMMA GivenIs ==
  ASSUME NEW a, NEW b
  PROVE  IsList(Given(<<a, b>>))
  <1> DEFINE s == <<a, b>>
             P == {n \in DOMAIN s : ~Blank(s[n])}
  <1>1. P \in SUBSET (1..2)
    OBVIOUS
  <1>2. Given(s) = Selected(s, P)
    BY DEF Given
  <1> HIDE DEF P, s
  <1>3. 2 \in Nat
    OBVIOUS
  <1>4. IsList(Selected(s, P))
    BY <1>1, <1>3, SelectedIs
  <1> QED
    BY <1>2, <1>4 DEF s

LEMMA PlacesAre ==
  ASSUME NEW feed, IsList(feed), \A shown \in ToSet(feed) : IsList(shown), NEW lim \in Nat
  PROVE  IsList(CollectPlaces(feed, lim))
  <1> DEFINE n == Len(Prefix(feed, MaxPasses))
             Seen(k) == Distinct(Joined(Prefix(feed, k)))
             Done(k) == Len(Seen(k)) >= lim \/ (k >= MaxStale /\ Len(Seen(k)) = Len(Seen(k - MaxStale)))
             S == {n} \cup {k \in 1..n : Done(k)}
  <1>1. n \in Nat
    <2>1. MaxPasses \in Nat
      BY SourcesAssumption
    <2> QED
      BY <2>1, PrefixIs
  <1>2. S \in SUBSET Nat /\ S # {}
    <2> HIDE DEF n, Done
    <2> QED
      BY <1>1
  <1>3. CollectPlaces(feed, lim) = Seen(Min(S))
    BY Zenon DEF CollectPlaces
  <1> DEFINE k == Min(S)
  <1>4. k \in Nat
    <2> HIDE DEF S
    <2> QED
      BY <1>2, LeastOf
  <1> HIDE DEF k
  <1>5. IsList(Prefix(feed, k)) /\ \A i \in DOMAIN Prefix(feed, k) : IsList(Prefix(feed, k)[i])
    <2> DEFINE p == Prefix(feed, k)
    <2>1. IsList(p) /\ ToSet(p) \subseteq ToSet(feed)
      BY <1>4, PrefixIs, PrefixHas
    <2> HIDE DEF p
    <2>2. \A i \in DOMAIN p : p[i] \in ToSet(p)
      BY DEF ToSet
    <2> QED
      BY <2>1, <2>2 DEF p
  <1>6. IsList(Joined(Prefix(feed, k)))
    BY <1>5, JoinedIs
  <1>7. IsList(Seen(k))
    BY <1>6, DistinctIs
  <1> QED
    BY <1>3, <1>7 DEF k

LEMMA MapsRows ==
  ASSUME NEW feed, IsList(feed), \A shown \in ToSet(feed) : IsList(shown), NEW lim \in Nat,
         NEW place, NEW opens
  PROVE  RowList(SearchMaps(feed, place, opens, lim))
  <1> DEFINE links == Prefix(CollectPlaces(feed, lim), lim)
             P == {i \in DOMAIN links : links[i] \in opens /\ place[links[i]].name # ""}
             read == Selected(links, P)
             r == SearchMaps(feed, place, opens, lim)
  <1>1. IsList(links)
    <2>1. IsList(CollectPlaces(feed, lim))
      BY PlacesAre
    <2> QED
      BY <2>1, PrefixIs
  <1>2. r = [i \in DOMAIN read |-> Row(place[read[i]].name, place[read[i]].site, "", "maps")]
    BY Zenon DEF SearchMaps
  <1> HIDE DEF links, r
  <1>3. Len(links) \in Nat /\ P \in SUBSET (1..Len(links))
    BY <1>1, ListHas
  <1> HIDE DEF P
  <1>4. IsList(read)
    BY <1>3, SelectedIs
  <1> HIDE DEF read
  <1>5. Len(read) \in Nat /\ DOMAIN read = 1..Len(read)
    BY <1>4, ListHas
  <1>6. DOMAIN r = 1..Len(read) /\ r = [i \in DOMAIN r |-> r[i]]
    BY <1>2, <1>5
  <1>7. \A i \in 1..Len(read) : DOMAIN r[i] = RowFields
    BY <1>2, <1>5, RowIs
  <1>8. RowList(r)
    BY <1>5, <1>6, <1>7, RowsAre
  <1> QED
    BY <1>8 DEF r

\* What a scan of the registry has read, and why it ended.
ScanFits(scan, registry, lim) ==
  /\ scan.scanned \in 0..Len(registry)
  /\ scan.rows = Selected(registry, {i \in 1..scan.scanned : registry[i].here})
  /\ ~scan.lost => scan.scanned = Len(registry) \/ Len(scan.rows) >= lim \/ scan.scanned >= MaxScan

LEMMA ScanIs ==
  ASSUME NEW registry, IsList(registry), NEW failing \in 0..2, NEW lim \in Nat
  PROVE  ScanFits(FetchAll(registry, failing, lim), registry, lim)
  <1> DEFINE n == Len(registry)
             Scanned(k) == Min({k * PageRows, n})
             Rows(k) == Selected(registry, {i \in 1..Scanned(k) : registry[i].here})
             Done(k) == k * PageRows > n \/ Len(Rows(k)) >= lim \/ Scanned(k) >= MaxScan
             L == {k \in 1..MaxScan : Done(k)}
             last == Min(L)
             lost == failing \in 1..last
             pages == IF lost THEN failing - 1 ELSE last
             scan == FetchAll(registry, failing, lim)
  <1>1. n \in Nat /\ PageRows \in Nat /\ PageRows >= 1 /\ MaxScan \in Nat /\ MaxScan >= 1
    BY ListHas, SourcesAssumption
  <1>2. ASSUME NEW k \in Nat
        PROVE  /\ k * PageRows \in Nat /\ Scanned(k) \in Nat /\ Scanned(k) \in {k * PageRows, n}
              /\ Scanned(k) <= n /\ (k * PageRows > n => Scanned(k) = n)
    <2>1. k * PageRows \in Nat
      BY <1>1
    <2> DEFINE T == {k * PageRows, n}
    <2>2. T \in SUBSET Nat /\ T # {}
      BY <1>1, <2>1
    <2>3. Min(T) \in T /\ \A t \in T : Min(T) <= t
      <3> HIDE DEF T
      <3> QED
        BY <2>2, LeastOf
    <2> QED
      BY <2>1, <2>2, <2>3
  <1> HIDE DEF Scanned
  <1>3. MaxScan \in L
    <2>1. MaxScan \in 1..MaxScan
      BY <1>1
    <2>2. MaxScan * PageRows >= MaxScan
      <3>1. PageRows - 1 \in Nat /\ MaxScan * (PageRows - 1) \in Nat
        BY <1>1
      <3>2. MaxScan * PageRows = MaxScan * (PageRows - 1) + MaxScan
        BY <1>1
      <3> QED
        BY <1>1, <3>1, <3>2
    <2>3. Done(MaxScan)
      <3> HIDE DEF n, Rows
      <3>1. CASE Scanned(MaxScan) = n
        <4>1. MaxScan * PageRows \in Nat
          BY <1>1
        <4>2. Scanned(MaxScan) = n /\ (MaxScan * PageRows > n \/ MaxScan * PageRows <= n)
          BY <1>1, <3>1, <4>1
        <4>3. CASE MaxScan * PageRows <= n
          <5>1. n >= MaxScan
            BY <1>1, <2>2, <4>1, <4>3
          <5> QED
            BY <3>1, <5>1
        <4> QED
          BY <4>2, <4>3
      <3>2. CASE Scanned(MaxScan) = MaxScan * PageRows
        BY <2>2, <3>2
      <3> QED
        BY <1>1, <1>2, <3>1, <3>2
    <2> HIDE DEF Done
    <2> QED
      BY <2>1, <2>3
  <1>4. last \in L
    <2>1. L \in SUBSET Nat /\ L # {}
      <3> HIDE DEF Done
      <3>1. L \in SUBSET Nat
        BY <1>1
      <3> QED
        BY <1>3, <3>1
    <2> HIDE DEF L
    <2> QED
      BY <2>1, LeastOf
  <1> HIDE DEF last
  <1>5. last \in Nat /\ pages \in Nat /\ (~lost => pages = last)
    <2>1. last \in 1..MaxScan
      BY <1>4
    <2> HIDE DEF last
    <2> QED
      BY <1>1, <2>1
  <1>6. ~lost => pages * PageRows > n \/ Len(Rows(pages)) >= lim \/ Scanned(pages) >= MaxScan
    <2>1. Done(last)
      <3> HIDE DEF Done, last
      <3> QED
        BY <1>4
    <2> HIDE DEF last, Rows
    <2> QED
      BY <1>5, <2>1
  <1>7. scan = [rows |-> Rows(pages), scanned |-> Scanned(pages), lost |-> lost]
    BY Zenon DEF FetchAll, pages, last, Scanned
  <1> HIDE DEF pages, last, lost
  <1>8. Scanned(pages) \in Nat /\ Scanned(pages) <= n /\ (pages * PageRows > n => Scanned(pages) = n)
    BY <1>2, <1>5
  <1>9. Scanned(pages) \in 0..n
    BY <1>1, <1>8
  <1> DEFINE reached == Scanned(pages)
             rs == Rows(pages)
  <1>10. rs = Selected(registry, {i \in 1..reached : registry[i].here})
    OBVIOUS
  <1>11. scan.rows = rs /\ scan.scanned = reached /\ (~scan.lost => ~lost)
    BY <1>7
  <1>12. reached \in 0..n /\ (~lost => reached = n \/ Len(rs) >= lim \/ reached >= MaxScan)
    BY <1>6, <1>8, <1>9
  <1> HIDE DEF scan, reached, rs
  <1>13. ScanFits(scan, registry, lim)
    BY <1>10, <1>11, <1>12 DEF ScanFits
  <1> QED
    BY <1>13 DEF scan

LEMMA RegistryRows ==
  ASSUME NEW registry, IsList(registry), NEW failing \in 0..2, NEW lim \in Nat
  PROVE  RowList(SearchCompanies(registry, failing, lim).rows)
  <1> DEFINE scan == FetchAll(registry, failing, lim)
             kept == Prefix(scan.rows, lim)
             r == SearchCompanies(registry, failing, lim).rows
  <1>1. r = [i \in DOMAIN kept |-> Row(kept[i].name, "", "", "govbiz")]
    BY DEF SearchCompanies
  <1>2. ScanFits(scan, registry, lim) /\ Len(registry) \in Nat
    BY ScanIs, ListHas
  <1> HIDE DEF scan
  <1>3. IsList(scan.rows)
    <2> DEFINE n == scan.scanned
               P == {i \in 1..n : registry[i].here}
    <2>1. n \in Nat /\ P \in SUBSET (1..n) /\ scan.rows = Selected(registry, P)
      BY <1>2 DEF ScanFits
    <2> HIDE DEF P, n
    <2> QED
      BY <2>1, SelectedIs
  <1>4. IsList(kept)
    BY <1>3, PrefixIs
  <1> HIDE DEF kept, r
  <1>5. Len(kept) \in Nat /\ DOMAIN kept = 1..Len(kept)
    BY <1>4, ListHas
  <1>6. DOMAIN r = 1..Len(kept) /\ r = [i \in DOMAIN r |-> r[i]]
    BY <1>1, <1>5
  <1>7. \A i \in 1..Len(kept) : DOMAIN r[i] = RowFields
    BY <1>1, <1>5, RowIs
  <1>8. RowList(r)
    BY <1>5, <1>6, <1>7, RowsAre
  <1> QED
    BY <1>8 DEF r

LEMMA RowWithout ==
  ASSUME NEW row, NEW name, NEW site, NEW from, row = Row(name, site, "", from)
  PROVE  row.email = ""
  BY DEF Row

\* The links and the named rows of a list page.
LEMMA ListPageParts ==
  ASSUME NEW p \in ListPages
  PROVE  LET parsed == LabelBlocks(p.blocks)
             fields == [i \in DOMAIN parsed |-> LabelledFields(parsed[i])]
             P == {i \in DOMAIN fields : fields[i].name # ""}
             named == Selected(fields, P)
             a == [i \in DOMAIN p.links |-> Row(p.links[i].name, p.links[i].site, "", "association")]
             b == [i \in DOMAIN named |-> Row(named[i].name, named[i].site, "", "association")]
         IN  IsList(a) /\ IsList(b) /\ \A x \in ToSet(named) : \E i \in P : x = fields[i]
  <1> DEFINE parsed == LabelBlocks(p.blocks)
             fields == [i \in DOMAIN parsed |-> LabelledFields(parsed[i])]
             P == {i \in DOMAIN fields : fields[i].name # ""}
             named == Selected(fields, P)
             a == [i \in DOMAIN p.links |-> Row(p.links[i].name, p.links[i].site, "", "association")]
             b == [i \in DOMAIN named |-> Row(named[i].name, named[i].site, "", "association")]
  <1>1. IsList(p.links) /\ IsList(p.blocks)
    BY CrawlAssumption
  <1>2. \E k \in Nat : DOMAIN parsed = 1..k
    <2>1. DOMAIN p.blocks = 1..Len(p.blocks) /\ Len(p.blocks) \in Nat
      BY <1>1, ListHas
    <2>2. parsed = <<p.blocks>> \/ parsed = [i \in DOMAIN p.blocks |-> <<p.blocks[i]>>]
      BY DEF LabelBlocks
    <2>3. CASE parsed = <<p.blocks>>
      <3>1. DOMAIN parsed = 1..1
        BY <2>3
      <3> QED
        BY <3>1
    <2>4. CASE parsed = [i \in DOMAIN p.blocks |-> <<p.blocks[i]>>]
      <3>1. DOMAIN parsed = 1..Len(p.blocks)
        BY <2>1, <2>4
      <3> QED
        BY <2>1, <3>1
    <2> QED
      BY <2>2, <2>3, <2>4
  <1>3. PICK k \in Nat : DOMAIN parsed = 1..k
    BY <1>2
  <1> HIDE DEF parsed
  <1>4. P \in SUBSET (1..k)
    BY <1>3
  <1> HIDE DEF fields, P
  <1>5. IsList(named) /\ \A x \in ToSet(named) : \E i \in P : x = fields[i]
    BY <1>4, SelectedHas
  <1>6. IsList(a)
    <2>1. Len(p.links) \in Nat /\ DOMAIN p.links = 1..Len(p.links)
      BY <1>1, ListHas
    <2>2. DOMAIN a = 1..Len(p.links) /\ a = [i \in DOMAIN a |-> a[i]]
      BY <2>1
    <2> HIDE DEF a
    <2> QED
      BY <2>1, <2>2, ListIs
  <1>7. IsList(b)
    <2> HIDE DEF named
    <2>1. Len(named) \in Nat /\ DOMAIN named = 1..Len(named)
      BY <1>5, ListHas
    <2>2. DOMAIN b = 1..Len(named) /\ b = [i \in DOMAIN b |-> b[i]]
      BY <2>1
    <2> HIDE DEF b
    <2> QED
      BY <2>1, <2>2, ListIs
  <1> HIDE DEF a, b, named
  <1>8. IsList(a) /\ IsList(b) /\ \A x \in ToSet(named) : \E i \in P : x = fields[i]
    BY <1>5, <1>6, <1>7
  <1> QED
    BY <1>8 DEF a, b, named, P, fields, parsed

\* A row of a list page has no address.
LEMMA MembersAre ==
  ASSUME NEW p \in ListPages
  PROVE  RowList(MembersFromList(p)) /\ \A r \in ToSet(MembersFromList(p)) : r.email = ""
  <1> DEFINE parsed == LabelBlocks(p.blocks)
             fields == [i \in DOMAIN parsed |-> LabelledFields(parsed[i])]
             P == {i \in DOMAIN fields : fields[i].name # ""}
             named == Selected(fields, P)
             a == [i \in DOMAIN p.links |-> Row(p.links[i].name, p.links[i].site, "", "association")]
             b == [i \in DOMAIN named |-> Row(named[i].name, named[i].site, "", "association")]
  <1>2. MembersFromList(p) = a \o b
    BY Zenon DEF MembersFromList
  <1>1. IsList(a) /\ IsList(b)
    BY ListPageParts
  <1> HIDE DEF named
  <1>0. \A r \in ToSet(a) \cup ToSet(b) : r.email = ""
    <2>1. \A i \in DOMAIN a : a[i].email = ""
      <3> SUFFICES ASSUME NEW i \in DOMAIN a PROVE a[i].email = ""
        OBVIOUS
      <3>1. a[i] = Row(p.links[i].name, p.links[i].site, "", "association")
        BY Zenon
      <3> QED
        BY <3>1, RowWithout, Zenon
    <2>2. \A i \in DOMAIN b : b[i].email = ""
      <3> SUFFICES ASSUME NEW i \in DOMAIN b PROVE b[i].email = ""
        OBVIOUS
      <3>1. b[i] = Row(named[i].name, named[i].site, "", "association")
        BY Zenon
      <3> QED
        BY <3>1, RowWithout, Zenon
    <2> QED
      BY <2>1, <2>2, Zenon DEF ToSet
  <1>7. RowList(a) /\ RowList(b)
    <2>1. \A i \in DOMAIN a : DOMAIN a[i] = RowFields
      BY RowIs
    <2>2. \A i \in DOMAIN b : DOMAIN b[i] = RowFields
      BY RowIs
    <2> HIDE DEF a, b
    <2> QED
      BY <1>1, <2>1, <2>2 DEF RowList, ToSet
  <1> HIDE DEF a, b
  <1>9. IsList(a \o b) /\ ToSet(a \o b) = ToSet(a) \cup ToSet(b)
    BY <1>7, JoinIs DEF RowList
  <1> QED
    BY <1>0, <1>2, <1>7, <1>9 DEF RowList

LEMMA RecordsAre ==
  ASSUME NEW idx, NEW arrivals, IndexOK(idx, arrivals)
  PROVE  RowList(UniqueRecords(idx))
  <1> DEFINE r == UniqueRecords(idx)
  <1>1. Len(idx) \in Nat /\ DOMAIN idx = 1..Len(idx)
    BY ListHas DEF IndexOK
  <1>2. r = [i \in DOMAIN idx |-> idx[i].row]
    BY DEF UniqueRecords
  <1> HIDE DEF r
  <1>3. DOMAIN r = 1..Len(idx) /\ r = [i \in DOMAIN r |-> r[i]]
    BY <1>1, <1>2
  <1>4. \A i \in 1..Len(idx) : DOMAIN r[i] = RowFields
    BY <1>1, <1>2 DEF IndexOK, EntryFits
  <1> QED
    BY <1>1, <1>3, <1>4, RowsAre DEF r

LEMMA KeywordRows ==
  ASSUME NEW s, RowList(s), NEW keyword
  PROVE  RowList(ByKeyword(s, keyword))
  <1> DEFINE P == {i \in DOMAIN s : s[i].name \in keyword}
             matched == Selected(s, P)
  <1>1. Len(s) \in Nat /\ DOMAIN s = 1..Len(s)
    BY ListHas DEF RowList
  <1>2. P \in SUBSET (1..Len(s))
    BY <1>1
  <1>3. ByKeyword(s, keyword) = matched \/ ByKeyword(s, keyword) = s
    BY DEF ByKeyword
  <1> HIDE DEF P
  <1>4. IsList(matched) /\ \A x \in ToSet(matched) : \E i \in P : x = s[i]
    BY <1>1, <1>2, SelectedHas
  <1> HIDE DEF matched
  <1>5. \A i \in P : s[i] \in ToSet(s)
    BY <1>1, <1>2 DEF ToSet
  <1>6. \A x \in ToSet(matched) : DOMAIN x = RowFields
    BY <1>4, <1>5 DEF RowList
  <1> QED
    BY <1>3, <1>4, <1>6 DEF RowList

-----------------------------------------------------------------------------
(* The call of a directory.                                                  *)

PassBound == IF MaxListPages > MaxDetails THEN MaxListPages ELSE MaxDetails

CrawlInv ==
  /\ crawl \in {"idle", "lists", "details", "returned"}
  /\ limit \in Nat \ {0} /\ next \in BOOLEAN /\ short \in BOOLEAN
  /\ taken \in 0..PassBound
  /\ (crawl = "idle" => taken = 0) /\ (crawl = "lists" => taken <= MaxListPages)
  /\ RowList(rows) /\ Len(rows) <= limit /\ RowList(adding)
  /\ IndexOK(found, added)

LEMMA PassBoundIs == /\ PassBound \in Nat /\ MaxListPages \in Nat /\ MaxDetails \in Nat
                     /\ MaxListPages <= PassBound /\ MaxDetails <= PassBound
  BY CrawlAssumption DEF PassBound

LEMMA EmptyIndex == IndexOK(<<>>, {})
  <1>1. IsList(<<>>) /\ DOMAIN <<>> = {}
    BY EmptyRows DEF RowList
  <1> QED
    BY <1>1 DEF IndexOK, Apart, Placed

LEMMA AddKeeps ==
  ASSUME IndexOK(found, added), NEW row, DOMAIN row = RowFields, Add(row)
  PROVE  IndexOK(found, added)'
  <1>1. IsList(MemberKeys(row))
    BY GivenIs DEF MemberKeys
  <1> DEFINE keys == MemberKeys(row)
  <1> HIDE DEF keys
  <1>2. IndexOK(MergeByKeys(found, row, keys), added \cup {[item |-> row, keys |-> keys]})
    BY <1>1, MergeKeeps DEF keys
  <1>3. found' = MergeByKeys(found, row, keys) /\ added' = added \cup {[item |-> row, keys |-> keys]}
    BY DEF Add, AddBusiness, keys
  <1> QED
    BY <1>2, <1>3

\* The pages of the TCA that are read, and why there are no more of them.
PagesNeeded == (limit + TcaRows - 1) \div TcaRows

TcaRead(good, answers, cut) ==
  \E m \in Nat :
    /\ IsList(good) /\ DOMAIN good = 1..m
    /\ \A i \in 1..m : i \in DOMAIN answers /\ good[i] = answers[i] /\ answers[i] # Dead
    /\ ~cut => \/ m = Len(answers) \/ m = PagesNeeded
               \/ m + 1 \in DOMAIN answers /\ answers[m + 1] = <<>>

LEMMA NeededIs ==
  ASSUME limit \in Nat \ {0}
  PROVE  PagesNeeded \in Nat /\ PagesNeeded * TcaRows >= limit
  <1> DEFINE a == limit + TcaRows - 1
             b == TcaRows
             q == a \div b
  <1>1. a \in Nat /\ b \in Nat \ {0} /\ a = limit + b - 1
    BY CrawlAssumption
  <1> HIDE DEF a, b
  <1>2. q \in Nat /\ a % b \in 0..(b - 1) /\ a = b * q + (a % b)
    BY <1>1
  <1> HIDE DEF q
  <1>3. b * q \in Nat /\ b * q = q * b
    BY <1>1, <1>2
  <1>4. q * b >= limit
    BY <1>1, <1>2, <1>3
  <1> QED
    BY <1>2, <1>4 DEF PagesNeeded, q, a, b

LEMMA TcaPagesAre ==
  ASSUME limit \in Nat \ {0}, NEW answers \in TcaAnswers, NEW good, NEW cut,
         LET pages == Prefix(answers, (limit + TcaRows - 1) \div TcaRows)
             last == SelectInSeq(pages, LAMBDA p : p = Dead \/ p = <<>>)
         IN /\ good = IF last = 0 THEN pages ELSE SubSeq(pages, 1, last - 1)
            /\ cut <=> last # 0 /\ pages[last] = Dead
  PROVE  TcaRead(good, answers, cut)
  <1> DEFINE k == (limit + TcaRows - 1) \div TcaRows
             pages == Prefix(answers, k)
             n == Len(pages)
             I == {i \in 1..n : pages[i] = Dead \/ pages[i] = <<>>}
             last == IF I # {} THEN Min(I) ELSE 0
             m == IF last = 0 THEN n ELSE last - 1
  <1>1. k \in Nat
    BY NeededIs DEF PagesNeeded
  <1>2. IsList(answers) /\ \A p \in ToSet(answers) \ {Dead} : IsList(p)
    BY CrawlAssumption
  <1> HIDE DEF k
  <1>3. /\ IsList(pages) /\ Len(answers) \in Nat /\ DOMAIN answers = 1..Len(answers)
        /\ Len(pages) = IF Len(answers) < k THEN Len(answers) ELSE k
        /\ \A i \in 1..Len(pages) : i \in DOMAIN answers /\ pages[i] = answers[i]
    <2>1. Len(answers) \in Nat /\ DOMAIN answers = 1..Len(answers)
      BY <1>2, ListHas
    <2> QED
      BY <1>1, <1>2, <2>1, PrefixIs
  <1>4. /\ good = IF last = 0 THEN pages ELSE SubSeq(pages, 1, last - 1)
        /\ cut <=> last # 0 /\ pages[last] = Dead
    BY Zenon DEF SelectInSeq, k
  <1> HIDE DEF pages
  <1>5. n \in Nat /\ DOMAIN pages = 1..n /\ ToSet(pages) = {pages[i] : i \in 1..n}
    BY <1>3, ListHas
  <1>6. /\ last \in 0..n /\ \A i \in 1..n : i < last => pages[i] # Dead
        /\ last = 0 => \A i \in 1..n : pages[i] # Dead
        /\ last # 0 => pages[last] = Dead \/ pages[last] = <<>>
    <2>1. I \in SUBSET Nat /\ I \subseteq 1..n
      BY <1>5
    <2>2. CASE I = {}
      BY <1>5, <2>2
    <2>3. CASE I # {}
      <3>1. last \in I /\ \A i \in I : last <= i
        <4>1. last = Min(I)
          BY <2>3
        <4> HIDE DEF I, last
        <4> QED
          BY <2>1, <2>3, <4>1, LeastOf
      <3> HIDE DEF last
      <3>2. last \in 1..n /\ last # 0
        BY <1>5, <2>1, <3>1
      <3>3. \A i \in 1..n : i < last => i \notin I
        BY <1>5, <3>1, <3>2
      <3>4. pages[last] = Dead \/ pages[last] = <<>>
        BY <3>1 DEF I
      <3> QED
        BY <1>5, <3>2, <3>3, <3>4
    <2> QED
      BY <2>2, <2>3
  <1> HIDE DEF last, I
  <1>7. m \in Nat /\ m <= n /\ \A i \in 1..m : i \in 1..n /\ pages[i] # Dead
    BY <1>5, <1>6
  <1>8. good = SubSeq(pages, 1, m)
    <2>1. CASE last = 0
      <3>1. SubSeq(pages, 1, n) = pages
        <4>1. pages \in Seq(ToSet(pages))
          BY <1>3 DEF IsList
        <4> DEFINE q == SubSeq(pages, 1, n)
        <4>2. n \in Int /\ 1 \in Int /\ \A i \in 1..n : pages[i] \in ToSet(pages)
          BY <1>5
        <4>3. /\ q \in Seq(ToSet(pages)) /\ Len(q) = IF 1 <= n THEN n - 1 + 1 ELSE 0
              /\ \A i \in 1..(n - 1 + 1) : q[i] = pages[1 + i - 1]
          BY <4>2, SubSeqProperties
        <4>4. Len(q) = n /\ \A i \in 1..n : q[i] = pages[i]
          BY <1>5, <4>3
        <4> HIDE DEF q
        <4>5. \A i \in 1..Len(q) : q[i] = pages[i]
          BY <4>4
        <4>6. q = pages
          BY <4>1, <4>3, <4>4, <4>5, SeqEqual
        <4> QED
          BY <4>6 DEF q
      <3> QED
        BY <1>4, <2>1, <3>1
    <2>2. CASE last # 0
      BY <1>4, <2>2
    <2> QED
      BY <2>1, <2>2
  <1> HIDE DEF m
  <1>9. /\ IsList(good) /\ DOMAIN good = 1..m /\ \A i \in 1..m : good[i] = pages[i]
    <2>1. m \in Int /\ 1 \in Int /\ \A i \in 1..m : pages[i] \in ToSet(pages)
      BY <1>5, <1>7
    <2> DEFINE q == SubSeq(pages, 1, m)
    <2>2. /\ q \in Seq(ToSet(pages)) /\ Len(q) = IF 1 <= m THEN m - 1 + 1 ELSE 0
          /\ \A i \in 1..(m - 1 + 1) : q[i] = pages[1 + i - 1]
      BY <2>1, SubSeqProperties
    <2>a. good = q
      BY <1>8
    <2> HIDE DEF q
    <2>b. q \in Seq(ToSet(pages)) /\ Len(q) = m /\ \A i \in 1..m : q[i] = pages[i]
      BY <1>7, <2>2
    <2>3. good \in Seq(ToSet(pages)) /\ Len(good) = m /\ \A i \in 1..m : good[i] = pages[i]
      BY <2>a, <2>b
    <2>4. DOMAIN good = 1..m /\ good = [i \in DOMAIN good |-> good[i]]
      BY <2>3, LenProperties
    <2> QED
      BY <1>7, <2>3, <2>4, ListIs
  <1>10. ~cut => \/ m = Len(answers) \/ m = k
                 \/ m + 1 \in DOMAIN answers /\ answers[m + 1] = <<>>
    <2> SUFFICES ASSUME ~cut PROVE \/ m = Len(answers) \/ m = k
                                   \/ m + 1 \in DOMAIN answers /\ answers[m + 1] = <<>>
      OBVIOUS
    <2>1. CASE last = 0
      <3>1. m = n
        BY <2>1 DEF m
      <3> QED
        BY <1>3, <3>1
    <2>2. CASE last # 0
      <3>1. m = last - 1 /\ last \in 1..n
        BY <1>5, <1>6, <2>2 DEF m
      <3>2. m + 1 = last
        BY <3>1
      <3>3. pages[last] = <<>>
        BY <1>4, <1>6, <2>2
      <3> QED
        BY <1>3, <3>1, <3>2, <3>3
    <2> QED
      BY <2>1, <2>2
  <1>11. \A i \in 1..m : i \in DOMAIN answers /\ good[i] = answers[i] /\ answers[i] # Dead
    BY <1>3, <1>7, <1>9
  <1> QED
    BY <1>7, <1>9, <1>10, <1>11 DEF TcaRead, PagesNeeded, k

\* What the TCA returns is up to the limit.
LEMMA TcaRowsAre ==
  ASSUME NEW answers \in TcaAnswers, NEW good, NEW cut, TcaRead(good, answers, cut)
  PROVE  IsList(Joined(good)) /\ IsList(Distinct(Joined(good)))
  <1>1. IsList(good) /\ \A i \in DOMAIN good : i \in DOMAIN answers /\ good[i] = answers[i] /\ good[i] # Dead
    BY DEF TcaRead
  <1>2. \A i \in DOMAIN good : good[i] \in ToSet(answers) \ {Dead}
    BY <1>1 DEF ToSet
  <1>3. \A i \in DOMAIN good : IsList(good[i])
    BY <1>2, CrawlAssumption
  <1> QED
    BY <1>1, <1>3, JoinedIs, DistinctIs

LEMMA SearchTcaStep ==
  ASSUME CrawlInv, SearchTca
  PROVE  CrawlInv'
  <1>1. PICK answers \in TcaAnswers :
          LET pages == Prefix(answers, (limit + TcaRows - 1) \div TcaRows)
              last == SelectInSeq(pages, LAMBDA p : p = Dead \/ p = <<>>)
              good == IF last = 0 THEN pages ELSE SubSeq(pages, 1, last - 1)
              members == Distinct(Joined(good))
              take == Take(members)
          IN /\ \E opens \in SUBSET ToSet(Prefix(members, take)) :
                  rows' = [i \in 1..take |-> TcaMember(members[i], opens)]
             /\ short' = ((last # 0 /\ pages[last] = Dead) \/ take < UpToLimit(members))
    BY DEF SearchTca
  <1> DEFINE pages == Prefix(answers, (limit + TcaRows - 1) \div TcaRows)
             last == SelectInSeq(pages, LAMBDA p : p = Dead \/ p = <<>>)
             good == IF last = 0 THEN pages ELSE SubSeq(pages, 1, last - 1)
             members == Distinct(Joined(good))
             take == Take(members)
  <1>2. short' = ((last # 0 /\ pages[last] = Dead) \/ take < UpToLimit(members))
    BY <1>1
  <1>3. PICK opens : rows' = [i \in 1..take |-> TcaMember(members[i], opens)]
    BY <1>1
  <1>4. limit \in Nat \ {0} /\ limit' = limit
    BY DEF CrawlInv, SearchTca
  <1>5. IsList(members)
    <2> DEFINE cut == last # 0 /\ pages[last] = Dead
    <2>1. TcaRead(good, answers, cut)
      BY <1>4, TcaPagesAre
    <2> HIDE DEF good, cut
    <2> QED
      BY <2>1, TcaRowsAre
  <1> HIDE DEF members
  <1>6. take \in Nat /\ take <= limit
    <2> DEFINE p == Prefix(members, limit)
    <2>1. IsList(p) /\ Len(p) \in Nat /\ Len(p) <= limit
      BY <1>4, <1>5, PrefixIs
    <2> HIDE DEF p
    <2>2. MaxDetails \in Nat
      BY CrawlAssumption
    <2>3. Len(Prefix(p, MaxDetails)) \in Nat /\ Len(Prefix(p, MaxDetails)) <= Len(p)
      BY <2>1, <2>2, PrefixIs
    <2>4. take = Len(Prefix(p, MaxDetails))
      BY DEF Take, p
    <2> HIDE DEF take
    <2> QED
      BY <1>4, <2>1, <2>3, <2>4
  <1>7. short' \in BOOLEAN
    BY <1>2, Zenon
  <1> HIDE DEF take
  <1>8. RowList(rows') /\ Len(rows') <= limit
    <2>1. DOMAIN rows' = 1..take /\ rows' = [i \in DOMAIN rows' |-> rows'[i]]
      BY <1>3
    <2>2. \A i \in 1..take : DOMAIN rows'[i] = RowFields
      BY <1>3, RowIs DEF TcaMember
    <2>3. RowList(rows') /\ Len(rows') = take
      BY <1>6, <2>1, <2>2, RowsAre
    <2> QED
      BY <1>6, <2>3
  <1>9. /\ crawl' = "returned" /\ next' = next /\ taken' = taken /\ adding' = adding
        /\ found' = found /\ added' = added
    BY DEF SearchTca
  <1> QED
    BY <1>4, <1>7, <1>8, <1>9 DEF CrawlInv

LEMMA CrawlStep ==
  ASSUME CrawlInv,
         Refuse \/ Begin \/ SearchTca \/ ReadListPage \/ AddMember \/ OpenRecords \/ ReadRecord \/ ReturnMembers
  PROVE  CrawlInv'
  <1>1. CASE Refuse
    <2>1. RowList(rows') /\ Len(rows') <= limit'
      BY <1>1, EmptyRows DEF Refuse, CrawlInv
    <2> QED
      BY <1>1, <2>1 DEF Refuse, CrawlInv
  <1>2. CASE Begin
    BY <1>2, PassBoundIs DEF Begin, CrawlInv
  <1>3. CASE SearchTca
    BY <1>3, SearchTcaStep
  <1>4. CASE ReadListPage
    <2>1. crawl = "lists" /\ taken' = taken + 1 /\ taken # MaxListPages
      BY <1>4 DEF ReadListPage, ListIsRead
    <2>2. taken' \in 0..PassBound /\ taken' <= MaxListPages
      BY <2>1, PassBoundIs DEF CrawlInv
    <2>3. RowList(adding') /\ next' \in BOOLEAN
      <3>1. CASE next' = FALSE /\ UNCHANGED <<adding, details, page>>
        BY <3>1 DEF CrawlInv
      <3>2. CASE \E p \in ListPages : adding' = MembersFromList(p) /\ next' = p.next
        BY <3>2, MembersAre, CrawlAssumption
      <3> QED
        BY <1>4, <3>1, <3>2 DEF ReadListPage
    <2>4. UNCHANGED <<crawl, limit, found, rows, short, added>>
      BY <1>4 DEF ReadListPage
    <2> QED
      BY <2>1, <2>2, <2>3, <2>4 DEF CrawlInv
  <1>5. CASE AddMember
    <2>1. /\ Add(Head(adding)) /\ adding # <<>> /\ adding' = Tail(adding)
          /\ UNCHANGED <<crawl, limit, next, taken, rows, short>>
      BY <1>5 DEF AddMember
    <2>2. IsList(adding) /\ \A r \in ToSet(adding) : DOMAIN r = RowFields
      BY DEF CrawlInv, RowList
    <2>3. IsList(Tail(adding)) /\ Head(adding) \in ToSet(adding) /\ ToSet(Tail(adding)) \subseteq ToSet(adding)
      BY <2>1, <2>2, TailIs
    <2>4. RowList(adding')
      BY <2>1, <2>2, <2>3 DEF RowList
    <2>5. IndexOK(found, added)'
      BY <2>1, <2>2, <2>3, AddKeeps DEF CrawlInv
    <2> QED
      BY <2>1, <2>4, <2>5 DEF CrawlInv
  <1>6. CASE OpenRecords
    <2>1. crawl' = "details" /\ taken' = 0 /\ next' = FALSE /\ UNCHANGED <<limit, found, adding, rows, short, added>>
      BY <1>6 DEF OpenRecords
    <2>2. taken' \in 0..PassBound
      BY <2>1, PassBoundIs
    <2> QED
      BY <2>1, <2>2 DEF CrawlInv
  <1>7. CASE ReadRecord
    <2>1. /\ crawl = "details" /\ taken' = taken + 1 /\ taken < MaxDetails
          /\ UNCHANGED <<crawl, limit, next, adding, rows, short>>
      BY <1>7 DEF ReadRecord, MoreRecords
    <2>2. taken' \in 0..PassBound
      BY <2>1, PassBoundIs DEF CrawlInv
    <2>3. IndexOK(found, added)'
      <3>1. CASE UNCHANGED <<found, added>>
        <4>1. found' = found /\ added' = added
          BY <3>1
        <4> QED
          BY <4>1 DEF CrawlInv
      <3>2. CASE \E d \in DetailPages : Add(MemberRecord(d))
        <4>1. PICK d \in DetailPages : Add(MemberRecord(d))
          BY <3>2
        <4>2. DOMAIN MemberRecord(d) = RowFields
          BY RowIs DEF MemberRecord
        <4> QED
          BY <4>1, <4>2, AddKeeps DEF CrawlInv
      <3> QED
        BY <1>7, <3>1, <3>2 DEF ReadRecord
    <2> QED
      BY <2>1, <2>2, <2>3 DEF CrawlInv
  <1>8. CASE ReturnMembers
    <2>1. PICK keyword \in Keywords : rows' = Prefix(ByKeyword(UniqueRecords(found), keyword), limit)
      BY <1>8 DEF ReturnMembers
    <2>2. RowList(ByKeyword(UniqueRecords(found), keyword)) /\ limit \in Nat
      BY RecordsAre, KeywordRows DEF CrawlInv
    <2>3. RowList(rows') /\ Len(rows') <= limit
      BY <2>1, <2>2, PrefixRows
    <2>4. crawl' = "returned" /\ UNCHANGED <<limit, found, next, taken, adding, short, added>>
      BY <1>8 DEF ReturnMembers
    <2> QED
      BY <2>3, <2>4 DEF CrawlInv
  <1> QED
    BY <1>1, <1>2, <1>3, <1>4, <1>5, <1>6, <1>7, <1>8

-----------------------------------------------------------------------------
(* The discovery of businesses.                                              *)

Stages == {"validate", "discover", "resolve", "harvest", "enrich", "qualify", "done", "failed"}
Early == {"validate", "discover", "resolve"}

\* What a source has returned is merged or waits to be.
NothingIsDropped ==
  \A r \in returned : (\E m \in merged : m.item = r) \/ r \in ToSet(arriving) \/ r \in ToSet(gathered)

DiscoverInv ==
  /\ CrawlInv /\ stage \in Stages
  /\ RowList(arriving) /\ RowList(gathered) /\ IndexOK(index, merged)
  /\ gathered # <<>> => stage = "discover" /\ sources # <<>> /\ Head(sources) = "association"
  /\ stage # "discover" => arriving = <<>>
  /\ stage \in {"validate", "discover"} => businesses = <<>>
  /\ stage \in Early => NothingIsDropped
  /\ SourcesShare
  /\ IsList(businesses) /\ Len(businesses) <= limit /\ at \in 0..Len(businesses)

\* No source is short of another one in a cut of the list, unless it has no more.
FairCut(list, cut) ==
  \A s, t \in {list[i].from : i \in DOMAIN list} :
    Cardinality(From(cut, s)) + 1 < Cardinality(From(cut, t))
      => Cardinality(From(cut, s)) = Cardinality(From(list, s))

LEMMA ShareIs == SourcesShare <=> (stage = "resolve" => FairCut(UniqueRecords(index), businesses))
  BY Zenon DEF SourcesShare, FairCut, From

LEMMA DiscoverInit == Init => DiscoverInv
  <1> SUFFICES ASSUME Init PROVE DiscoverInv
    OBVIOUS
  <1>1. limit \in Nat \ {0} /\ stage = "validate"
    BY LeadAssumption DEF Init
  <1>2. CrawlInv
    <2>1. /\ crawl = "idle" /\ next = FALSE /\ short = FALSE /\ taken = 0 /\ rows = <<>> /\ adding = <<>>
          /\ found = <<>> /\ added = {}
      BY DEF Init, CrawlInit
    <2>2. IndexOK(found, added)
      BY <2>1, EmptyIndex
    <2>3. RowList(rows) /\ Len(rows) <= limit /\ RowList(adding)
      BY <1>1, <2>1, EmptyRows
    <2>4. taken \in 0..PassBound /\ taken <= MaxListPages
      BY <2>1, PassBoundIs
    <2> QED
      BY <1>1, <2>1, <2>2, <2>3, <2>4 DEF CrawlInv
  <1>3. IndexOK(index, merged)
    BY EmptyIndex DEF Init
  <1>4. RowList(arriving) /\ RowList(gathered) /\ gathered = <<>> /\ arriving = <<>>
    BY EmptyRows DEF Init
  <1>5. IsList(businesses) /\ Len(businesses) <= limit /\ at \in 0..Len(businesses) /\ businesses = <<>>
    <2>1. businesses = <<>> /\ at = 0
      BY DEF Init
    <2>2. IsList(businesses) /\ Len(businesses) = 0
      BY <2>1, EmptyRows DEF RowList
    <2> QED
      BY <1>1, <2>1, <2>2
  <1>6. NothingIsDropped
    BY DEF Init, NothingIsDropped
  <1>7. SourcesShare
    BY <1>1 DEF SourcesShare
  <1> QED
    BY <1>1, <1>2, <1>3, <1>4, <1>5, <1>6, <1>7 DEF DiscoverInv, Stages

\* After the discovery nothing of it is touched.
LEMMA VisitsKeep ==
  ASSUME DiscoverInv, UNCHANGED <<crawlVars, calls, businesses>>,
         stage \notin Early, stage' \in Stages \ Early, at' \in 0..Len(businesses)
  PROVE  DiscoverInv'
  <1>1. /\ UNCHANGED <<crawl, limit, found, next, taken, adding, rows, short, added>>
        /\ UNCHANGED <<sources, gathered, arriving, index, merged, returned, businesses>>
    BY DEF crawlVars, calls
  <1>2. CrawlInv'
    BY <1>1 DEF DiscoverInv, CrawlInv
  <1>3. stage # "discover" /\ stage # "validate" /\ stage' # "discover" /\ stage' # "validate" /\ stage' # "resolve"
    BY DEF Early
  <1>4. RowList(arriving)' /\ RowList(gathered)' /\ IndexOK(index, merged)'
    BY <1>1 DEF DiscoverInv
  <1>5. gathered' = <<>> /\ arriving' = <<>>
    BY <1>1, <1>3 DEF DiscoverInv
  <1>6. SourcesShare'
    BY <1>3 DEF SourcesShare
  <1>7. (IsList(businesses) /\ Len(businesses) <= limit /\ at \in 0..Len(businesses))'
    BY <1>1 DEF DiscoverInv
  <1> QED
    BY <1>2, <1>3, <1>4, <1>5, <1>6, <1>7 DEF DiscoverInv

\* While businesses are discovered there is no list of them yet.
LEMMA DiscoveryKeeps ==
  ASSUME DiscoverInv, UNCHANGED <<businesses, at>>, CrawlInv', limit' = limit,
         stage = stage', stage = "discover",
         RowList(arriving'), RowList(gathered'), IndexOK(index', merged'), NothingIsDropped',
         gathered' # <<>> => sources' # <<>> /\ Head(sources') = "association"
  PROVE  DiscoverInv'
  <1>1. SourcesShare'
    BY DEF SourcesShare
  <1> QED
    BY <1>1 DEF DiscoverInv

LEMMA CrawlStays ==
  ASSUME DiscoverInv, UNCHANGED crawlVars
  PROVE  CrawlInv' /\ limit' = limit
  BY DEF crawlVars, DiscoverInv, CrawlInv

\* A source that returns rows has none left to be merged.
LEMMA ReturnsKeep ==
  ASSUME DiscoverInv, stage = "discover", arriving = <<>>, UNCHANGED crawlVars,
         NEW new, RowList(new), NEW warning, SourceReturns(new, warning), gathered' = <<>>,
         \A r \in returned' : (\E m \in merged : m.item = r) \/ r \in ToSet(new)
  PROVE  DiscoverInv'
  <1>1. /\ arriving' = new /\ stage' = stage /\ index' = index /\ merged' = merged
        /\ UNCHANGED <<businesses, at>>
    BY DEF SourceReturns
  <1>2. NothingIsDropped'
    BY <1>1 DEF NothingIsDropped
  <1>3. RowList(arriving') /\ RowList(gathered') /\ IndexOK(index', merged')
    BY <1>1, EmptyRows DEF DiscoverInv
  <1>4. CrawlInv' /\ limit' = limit
    BY CrawlStays
  <1> QED
    BY <1>1, <1>2, <1>3, <1>4, DiscoveryKeeps

LEMMA AskStep ==
  ASSUME DiscoverInv, AskMaps \/ AskRegistry \/ SourceRaises
  PROVE  DiscoverInv'
  <1>1. /\ stage = "discover" /\ arriving = <<>> /\ sources # <<>> /\ Head(sources) # "association"
        /\ UNCHANGED <<crawlVars, gathered>>
    BY DEF AskMaps, AskRegistry, SourceRaises, Asking, AllMerged
  <1>2. gathered = <<>> /\ gathered' = <<>>
    BY <1>1 DEF DiscoverInv
  <1>3. \A r \in returned : \E m \in merged : m.item = r
    BY <1>1, <1>2, EmptyRows DEF DiscoverInv, NothingIsDropped, Early
  <1>4. limit \in Nat
    BY DEF DiscoverInv, CrawlInv
  <1>5. CASE AskMaps
    <2>1. PICK feed \in Feeds : \E opens \in SUBSET DOMAIN Place :
            LET new == SearchMaps(feed, Place, opens, limit) IN
            SourceReturns(new, feed = <<>>) /\ returned' = returned \cup ToSet(new)
      BY <1>5 DEF AskMaps
    <2>2. PICK opens \in SUBSET DOMAIN Place :
            LET new == SearchMaps(feed, Place, opens, limit) IN
            SourceReturns(new, feed = <<>>) /\ returned' = returned \cup ToSet(new)
      BY <2>1
    <2> DEFINE new == SearchMaps(feed, Place, opens, limit)
    <2>3. IsList(feed) /\ \A shown \in ToSet(feed) : IsList(shown)
      BY LeadAssumption
    <2>4. RowList(new)
      BY <1>4, <2>3, MapsRows
    <2>5. SourceReturns(new, feed = <<>>) /\ returned' = returned \cup ToSet(new)
      BY <2>2
    <2> HIDE DEF new
    <2>6. \A r \in returned' : (\E m \in merged : m.item = r) \/ r \in ToSet(new)
      BY <1>3, <2>5
    <2> QED
      BY <1>1, <1>2, <2>4, <2>5, <2>6, ReturnsKeep
  <1>6. CASE AskRegistry
    <2>1. PICK registry \in Registries : \E failing \in 0..2 :
            LET scan == SearchCompanies(registry, failing, limit) IN
            SourceReturns(scan.rows, scan.warned) /\ returned' = returned \cup ToSet(scan.rows)
      BY <1>6 DEF AskRegistry
    <2>2. PICK failing \in 0..2 :
            LET scan == SearchCompanies(registry, failing, limit) IN
            SourceReturns(scan.rows, scan.warned) /\ returned' = returned \cup ToSet(scan.rows)
      BY <2>1
    <2> DEFINE scan == SearchCompanies(registry, failing, limit)
               new == scan.rows
    <2>3. IsList(registry)
      BY LeadAssumption
    <2>4. RowList(new)
      BY <1>4, <2>3, RegistryRows
    <2>5. SourceReturns(new, scan.warned) /\ returned' = returned \cup ToSet(new)
      BY <2>2
    <2> HIDE DEF new, scan
    <2>6. \A r \in returned' : (\E m \in merged : m.item = r) \/ r \in ToSet(new)
      BY <1>3, <2>5
    <2> QED
      BY <1>1, <1>2, <2>4, <2>5, <2>6, ReturnsKeep
  <1>7. CASE SourceRaises
    <2>1. SourceReturns(<<>>, TRUE) /\ returned' = returned
      BY <1>7 DEF SourceRaises
    <2> QED
      BY <1>1, <1>2, <1>3, <2>1, EmptyRows, ReturnsKeep
  <1> QED
    BY <1>5, <1>6, <1>7

LEMMA MergeArrivalStep ==
  ASSUME DiscoverInv, MergeArrival
  PROVE  DiscoverInv'
  <1> DEFINE row == Head(arriving)
             keys == BusinessKeys(row)
  <1>1. /\ stage = "discover" /\ stage' = stage /\ arriving # <<>> /\ arriving' = Tail(arriving)
        /\ UNCHANGED <<crawlVars, sources, gathered, returned, businesses, at>>
        /\ index' = MergeByKeys(index, row, keys)
        /\ merged' = merged \cup {[item |-> row, keys |-> keys]}
    BY DEF MergeArrival, MergeBusiness
  <1>2. IsList(arriving) /\ \A r \in ToSet(arriving) : DOMAIN r = RowFields
    BY DEF DiscoverInv, RowList
  <1>3. IsList(Tail(arriving)) /\ row \in ToSet(arriving) /\ ToSet(arriving) = {row} \cup ToSet(Tail(arriving))
    BY <1>1, <1>2, TailIs
  <1>4. IsList(keys)
    BY GivenIs DEF BusinessKeys
  <1>5. DOMAIN row = RowFields
    BY <1>2, <1>3
  <1> HIDE DEF row, keys
  <1>6. IndexOK(index', merged')
    BY <1>1, <1>4, <1>5, MergeKeeps DEF DiscoverInv
  <1>7. RowList(arriving') /\ RowList(gathered')
    BY <1>1, <1>2, <1>3 DEF DiscoverInv, RowList
  <1>8. NothingIsDropped'
    <2>1. \A m \in merged : m \in merged'
      BY <1>1
    <2>2. \E m \in merged' : m.item = row
      <3> DEFINE m == [item |-> row, keys |-> keys]
      <3>1. m \in merged' /\ m.item = row
        BY <1>1
      <3> HIDE DEF m
      <3> QED
        BY <3>1
    <2>3. \A r \in returned : (\E m \in merged : m.item = r) \/ r \in ToSet(arriving) \/ r \in ToSet(gathered)
      BY <1>1 DEF DiscoverInv, NothingIsDropped, Early
    <2> QED
      BY <1>1, <1>3, <2>1, <2>2, <2>3 DEF NothingIsDropped
  <1>9. CrawlInv' /\ limit' = limit
    BY <1>1, CrawlStays
  <1>10. gathered' # <<>> => sources' # <<>> /\ Head(sources') = "association"
    BY <1>1 DEF DiscoverInv
  <1> QED
    BY <1>1, <1>6, <1>7, <1>8, <1>9, <1>10, DiscoveryKeeps

LEMMA DirectoryStep ==
  ASSUME DiscoverInv, CallDirectory \/ DirectoryReturns \/ DirectoryRaises
  PROVE  DiscoverInv'
  <1>1. /\ stage = "discover" /\ stage' = stage /\ sources # <<>> /\ Head(sources) = "association"
        /\ sources' = sources /\ arriving' = arriving /\ index' = index /\ merged' = merged
        /\ UNCHANGED <<businesses, at>>
    BY DEF CallDirectory, DirectoryReturns, DirectoryRaises, LeaveDirectory, Asking, AllMerged, calls
  <1>2. RowList(arriving') /\ IndexOK(index', merged')
    BY <1>1 DEF DiscoverInv
  <1>3. \A r \in returned : (\E m \in merged : m.item = r) \/ r \in ToSet(arriving) \/ r \in ToSet(gathered)
    BY <1>1 DEF DiscoverInv, NothingIsDropped, Early
  <1>4. CASE CallDirectory
    <2>1. Refuse \/ Begin \/ SearchTca \/ ReadListPage \/ AddMember \/ OpenRecords \/ ReadRecord \/ ReturnMembers
      BY <1>4 DEF CallDirectory
    <2>2. CrawlInv'
      BY <2>1, CrawlStep DEF DiscoverInv
    <2>3. limit' = limit
      BY <2>1 DEF Refuse, Begin, SearchTca, ReadListPage, AddMember, OpenRecords, ReadRecord, ReturnMembers
    <2>4. gathered' = gathered /\ returned' = returned
      BY <1>4 DEF CallDirectory, calls
    <2>5. RowList(gathered') /\ NothingIsDropped'
      BY <1>1, <1>3, <2>4 DEF DiscoverInv, NothingIsDropped
    <2> QED
      BY <1>1, <1>2, <2>2, <2>3, <2>5, DiscoveryKeeps
  <1>5. ASSUME LeaveDirectory PROVE CrawlInv' /\ limit' = limit
    <2>1. /\ crawl' = "idle" /\ found' = <<>> /\ next' = FALSE /\ taken' = 0 /\ adding' = <<>>
          /\ rows' = <<>> /\ short' = FALSE /\ added' = {} /\ limit' = limit
      BY <1>5 DEF LeaveDirectory
    <2>2. limit \in Nat \ {0}
      BY DEF DiscoverInv, CrawlInv
    <2>3. IndexOK(found', added')
      BY <2>1, EmptyIndex
    <2>4. RowList(rows') /\ Len(rows') <= limit /\ RowList(adding')
      BY <2>1, <2>2, EmptyRows
    <2>5. taken' \in 0..PassBound
      BY <2>1, PassBoundIs
    <2> QED
      BY <2>1, <2>2, <2>3, <2>4, <2>5 DEF CrawlInv
  <1>6. CASE DirectoryReturns
    <2> DEFINE new == [i \in DOMAIN rows |-> [rows[i] EXCEPT !.from = Head(targets)]]
    <2>1. gathered' = gathered \o new /\ returned' = returned \cup ToSet(new) /\ LeaveDirectory
      BY <1>6 DEF DirectoryReturns
    <2>2. RowList(new)
      <3>1. IsList(rows) /\ \A r \in ToSet(rows) : DOMAIN r = RowFields
        BY DEF DiscoverInv, CrawlInv, RowList
      <3>2. Len(rows) \in Nat /\ DOMAIN rows = 1..Len(rows)
        BY <3>1, ListHas
      <3>3. \A i \in 1..Len(rows) : DOMAIN rows[i] = RowFields
        BY <3>1, <3>2 DEF ToSet
      <3>4. DOMAIN new = 1..Len(rows) /\ new = [i \in DOMAIN new |-> new[i]]
        BY <3>2
      <3>5. \A i \in 1..Len(rows) : DOMAIN new[i] = RowFields
        BY <3>2, <3>3
      <3> HIDE DEF new
      <3> QED
        BY <3>2, <3>4, <3>5, RowsAre
    <2> HIDE DEF new
    <2>3. IsList(gathered \o new) /\ ToSet(gathered \o new) = ToSet(gathered) \cup ToSet(new)
      BY <2>2, JoinIs DEF DiscoverInv, RowList
    <2>4. RowList(gathered')
      BY <2>1, <2>2, <2>3 DEF DiscoverInv, RowList
    <2>5. NothingIsDropped'
      BY <1>1, <1>3, <2>1, <2>3 DEF NothingIsDropped
    <2> QED
      BY <1>1, <1>2, <1>5, <2>1, <2>4, <2>5, DiscoveryKeeps
  <1>7. CASE DirectoryRaises
    <2>1. gathered' = gathered /\ returned' = returned /\ LeaveDirectory
      BY <1>7 DEF DirectoryRaises
    <2>2. RowList(gathered') /\ NothingIsDropped'
      BY <1>1, <1>3, <2>1 DEF DiscoverInv, NothingIsDropped
    <2> QED
      BY <1>1, <1>2, <1>5, <2>1, <2>2, DiscoveryKeeps
  <1> QED
    BY <1>4, <1>6, <1>7

LEMMA DirectoriesStep ==
  ASSUME DiscoverInv, DirectoriesReturn
  PROVE  DiscoverInv'
  <1>1. /\ stage = "discover" /\ arriving = <<>> /\ gathered' = <<>> /\ returned' = returned
        /\ UNCHANGED crawlVars /\ SourceReturns(gathered, payload.targets = <<>>)
    BY DEF DirectoriesReturn, Asking, AllMerged
  <1>2. RowList(gathered)
    BY DEF DiscoverInv
  <1>3. \A r \in returned' : (\E m \in merged : m.item = r) \/ r \in ToSet(gathered)
    BY <1>1, EmptyRows DEF DiscoverInv, NothingIsDropped, Early
  <1> QED
    BY <1>1, <1>2, <1>3, ReturnsKeep

LEMMA DiscoveredStep ==
  ASSUME DiscoverInv, Discovered
  PROVE  DiscoverInv'
  <1> DEFINE list == UniqueRecords(index)
             cut == Prefix(InterleaveBySource(list), limit)
  <1>1. /\ stage = "discover" /\ arriving = <<>> /\ sources = <<>> /\ businesses' = cut
        /\ stage' = "resolve" /\ UNCHANGED <<crawlVars, sources, gathered, arriving, index, merged, returned, at>>
    BY DEF Discovered, AllMerged, calls
  <1>2. gathered = <<>> /\ businesses = <<>>
    BY <1>1 DEF DiscoverInv
  <1>3. IsList(list) /\ limit \in Nat
    BY RecordsAre DEF DiscoverInv, CrawlInv, RowList
  <1> HIDE DEF list
  <1>4. /\ IsList(cut) /\ Len(cut) <= limit
        /\ \A s, t : Cardinality(From(cut, s)) + 1 < Cardinality(From(cut, t))
              => Cardinality(From(cut, s)) = Cardinality(From(list, s))
    BY <1>3, InterleavedShare
  <1> HIDE DEF cut
  <1>5. SourcesShare'
    <2>1. list' = list /\ businesses' = cut
      BY <1>1 DEF list
    <2>2. FairCut(list, cut)
      BY <1>4 DEF FairCut
    <2>3. FairCut(UniqueRecords(index), businesses)'
      BY <2>1, <2>2 DEF list
    <2>4. SourcesShare' <=> (stage = "resolve" => FairCut(UniqueRecords(index), businesses))'
      BY ShareIs, PTL
    <2> QED
      BY <2>3, <2>4
  <1>6. CrawlInv' /\ limit' = limit
    BY <1>1, CrawlStays
  <1>7. at = 0
    <2>1. at \in 0..0
      BY <1>2, EmptyRows DEF DiscoverInv
    <2> QED
      BY <2>1
  <1>8. Len(cut) \in Nat /\ at' \in 0..Len(cut)
    BY <1>1, <1>4, <1>7, ListHas
  <1>9. NothingIsDropped'
    BY <1>1 DEF DiscoverInv, NothingIsDropped, Early
  <1>10. RowList(arriving') /\ RowList(gathered') /\ IndexOK(index', merged')
    BY <1>1 DEF DiscoverInv
  <1> QED
    BY <1>1, <1>2, <1>4, <1>5, <1>6, <1>8, <1>9, <1>10 DEF DiscoverInv, Stages

LEMMA ResolveStep ==
  ASSUME DiscoverInv, ResolveWebsites
  PROVE  DiscoverInv'
  <1>1. /\ stage = "resolve" /\ stage' = "harvest" /\ index' = <<>> /\ merged' = {} /\ returned' = {}
        /\ UNCHANGED <<crawlVars, sources, gathered, arriving, at>>
    BY DEF ResolveWebsites
  <1>2. IsList(businesses) /\ Len(businesses) <= limit /\ at \in 0..Len(businesses)
    BY DEF DiscoverInv
  <1>3. Len(businesses) \in Nat /\ DOMAIN businesses = 1..Len(businesses)
    BY <1>2, ListHas
  <1>4. IsList(businesses') /\ Len(businesses') = Len(businesses)
    <2>1. CASE businesses' = businesses
      BY <1>2, <2>1
    <2>2. CASE \E answer : businesses' = [i \in DOMAIN businesses |->
                 LET b == businesses[i] IN
                 IF b.site = "" /\ b.name # "" THEN [b EXCEPT !.site = ResolveOne(b.name, answer[b.name])]
                 ELSE b]
      <3>1. DOMAIN businesses' = 1..Len(businesses) /\ businesses' = [i \in DOMAIN businesses' |-> businesses'[i]]
        BY <1>3, <2>2
      <3> QED
        BY <1>3, <3>1, ListIs
    <2> QED
      BY <2>1, <2>2 DEF ResolveWebsites
  <1>5. CrawlInv' /\ limit' = limit
    BY <1>1, CrawlStays
  <1>6. IndexOK(index', merged')
    BY <1>1, EmptyIndex
  <1>7. RowList(arriving') /\ RowList(gathered') /\ gathered' = <<>> /\ arriving' = <<>>
    BY <1>1 DEF DiscoverInv
  <1>8. SourcesShare'
    BY <1>1 DEF SourcesShare
  <1> QED
    BY <1>1, <1>2, <1>4, <1>5, <1>6, <1>7, <1>8 DEF DiscoverInv, Stages, Early

LEMMA DiscoverKeeps == DiscoverInv /\ [Next]_vars => DiscoverInv'
  <1> SUFFICES ASSUME DiscoverInv, [Next]_vars PROVE DiscoverInv'
    OBVIOUS
  <1>1. CASE ValidatePayload
    <2>1. /\ stage = "validate" /\ stage' \in {"discover", "failed"}
          /\ UNCHANGED <<crawlVars, gathered, arriving, index, merged, returned, businesses, at>>
      BY <1>1 DEF ValidatePayload
    <2>2. CrawlInv' /\ limit' = limit
      BY <2>1, CrawlStays
    <2>3. arriving' = <<>> /\ gathered' = <<>> /\ businesses' = <<>>
      BY <2>1 DEF DiscoverInv
    <2>4. NothingIsDropped'
      BY <2>1 DEF DiscoverInv, NothingIsDropped, Early
    <2>5. SourcesShare'
      BY <2>1 DEF SourcesShare
    <2>6. RowList(arriving') /\ RowList(gathered') /\ IndexOK(index', merged')
      BY <2>1 DEF DiscoverInv
    <2>7. IsList(businesses') /\ Len(businesses') <= limit' /\ at' \in 0..Len(businesses')
      BY <2>1, <2>2 DEF DiscoverInv
    <2> QED
      BY <2>1, <2>2, <2>3, <2>4, <2>5, <2>6, <2>7 DEF DiscoverInv, Stages
  <1>2. CASE AskMaps \/ AskRegistry \/ SourceRaises
    BY <1>2, AskStep
  <1>3. CASE MergeArrival
    BY <1>3, MergeArrivalStep
  <1>4. CASE CallDirectory \/ DirectoryReturns \/ DirectoryRaises
    BY <1>4, DirectoryStep
  <1>5. CASE DirectoriesReturn \/ Discovered \/ ResolveWebsites
    BY <1>5, DirectoriesStep, DiscoveredStep, ResolveStep
  <1>6. at \in 0..Len(businesses) /\ Len(businesses) \in Nat
    BY ListHas DEF DiscoverInv
  <1>7. CASE NoSite \/ VisitSite \/ MineSocial
    <2>1. PICK offers : Visiting /\ Visited(offers)
      <3>1. CASE NoSite
        BY <3>1 DEF NoSite
      <3>2. CASE VisitSite
        BY <3>2 DEF VisitSite
      <3>3. CASE MineSocial
        BY <3>3 DEF MineSocial
      <3> QED
        BY <1>7, <3>1, <3>2, <3>3
    <2>2. /\ stage = "harvest" /\ at < Len(businesses) /\ at' = at + 1 /\ stage' = stage
          /\ UNCHANGED <<crawlVars, calls, businesses>>
      BY <2>1 DEF Visiting, Visited
    <2>3. at' \in 0..Len(businesses)
      BY <1>6, <2>2
    <2> QED
      BY <2>2, <2>3, VisitsKeep DEF Stages, Early
  <1>8. CASE VisitRaises \/ AppendLead \/ SortLeads \/ EnrichFromRegistry \/ Qualify
    <2>1. /\ stage \in {"harvest", "enrich", "qualify"}
          /\ stage' \in {"failed", "harvest", "enrich", "qualify", "done"}
          /\ UNCHANGED <<crawlVars, calls, businesses>> /\ at' = at
      BY <1>8 DEF VisitRaises, Visiting, AppendLead, SortLeads, EnrichFromRegistry, Qualify
    <2> QED
      BY <1>6, <2>1, VisitsKeep DEF Stages, Early
  <1>9. CASE UNCHANGED vars
    <2>1. /\ UNCHANGED crawlVars /\ stage' = stage
          /\ UNCHANGED <<sources, gathered, arriving, index, merged, returned, businesses, at>>
      BY <1>9 DEF vars
    <2>2. CrawlInv' /\ limit' = limit
      BY <2>1, CrawlStays
    <2>3. NothingIsDropped' <=> NothingIsDropped
      BY <2>1 DEF NothingIsDropped
    <2>4. SourcesShare'
      <3>1. SourcesShare' <=> (stage = "resolve" => FairCut(UniqueRecords(index), businesses))'
        BY ShareIs, PTL
      <3>2. index' = index /\ businesses' = businesses /\ stage' = stage
        BY <2>1
      <3> QED
        BY <3>1, <3>2, ShareIs DEF DiscoverInv
    <2> QED
      BY <2>1, <2>2, <2>3, <2>4 DEF DiscoverInv
  <1> QED
    BY <1>1, <1>2, <1>3, <1>4, <1>5, <1>7, <1>8, <1>9 DEF Next

-----------------------------------------------------------------------------
(* The list of leads.                                                        *)

LeadFields == {"company", "email", "site", "source", "confidence", "smtp", "fact", "hook"}

Confidences == {"high", "medium", "low"}

LeadsOK ==
  /\ leads \in Seq(ToSet(leads))
  /\ \A i \in DOMAIN leads : DOMAIN leads[i] = LeadFields /\ leads[i].confidence \in Confidences

\* An address is a lead's only after it was seen, and a lead as soon as it is seen
\* unless no server would take it.
SeenFits ==
  /\ \A i \in DOMAIN leads : leads[i].email \in seen
  /\ \A a \in seen \ Malformed : \E i \in DOMAIN leads : leads[i].email = a

Late == {"enrich", "qualify", "done"}
InOrder == \A i, j \in DOMAIN leads : i < j => ConfRank(leads[i]) <= ConfRank(leads[j])
NoHookYet == stage # "done" => \A i \in DOMAIN leads : leads[i].hook = ""

LeadInv ==
  /\ LeadsOK /\ SeenFits /\ OneLeadPerAddress /\ GuessIsUntrusted
  /\ (stage \in Late => InOrder) /\ NoHookYet /\ HookIsItsOwn

LEMMA LeadsAre ==
  ASSUME LeadsOK
  PROVE  Len(leads) \in Nat /\ DOMAIN leads = 1..Len(leads)
  BY LenProperties DEF LeadsOK

LEMMA LeadInit == Init => LeadInv
  <1> SUFFICES ASSUME Init PROVE LeadInv
    OBVIOUS
  <1>1. leads = <<>> /\ seen = {} /\ stage = "validate"
    BY DEF Init
  <1>2. DOMAIN leads = {}
    BY <1>1
  <1>3. leads \in Seq(ToSet(leads))
    BY <1>1, EmptySeq
  <1> QED
    BY <1>1, <1>2, <1>3 DEF LeadInv, LeadsOK, SeenFits, OneLeadPerAddress, GuessIsUntrusted, Late, NoHookYet,
       HookIsItsOwn

\* What leaves the leads alone: everything up to the visits.
LEMMA LeadsStay ==
  ASSUME LeadInv, UNCHANGED <<leads, seen, sent>>,
         stage' = stage \/ (stage # "done" /\ stage' \notin Late)
  PROVE  LeadInv'
  <1>1. leads' = leads /\ seen' = seen /\ sent' = sent
    OBVIOUS
  <1>2. stage' \in Late => stage \in Late
    OBVIOUS
  <1>3. stage' # "done" => stage # "done"
    BY DEF Late
  <1>4. LeadsOK' /\ SeenFits'
    BY <1>1 DEF LeadInv, LeadsOK, SeenFits, ToSet
  <1>5. OneLeadPerAddress' /\ GuessIsUntrusted'
    BY <1>1 DEF LeadInv, OneLeadPerAddress, GuessIsUntrusted
  <1>6. (stage \in Late => InOrder)' /\ NoHookYet'
    BY <1>1, <1>2, <1>3 DEF LeadInv, InOrder, NoHookYet, ConfRank
  <1>7. HookIsItsOwn'
    BY <1>1 DEF LeadInv, HookIsItsOwn, ToSet
  <1> QED
    BY <1>4, <1>5, <1>6, <1>7 DEF LeadInv

LEMMA AppendLeadStep ==
  ASSUME LeadInv, AppendLead
  PROVE  LeadInv'
  <1> DEFINE o == Head(todo)
             n == Len(leads)
  <1>1. /\ stage = "harvest" /\ stage' = stage /\ sent' = sent /\ seen' = seen \cup {o.email}
        /\ stage \notin Late /\ stage' \notin Late /\ stage' # "done"
    BY DEF AppendLead, Late
  <1>2. n \in Nat /\ DOMAIN leads = 1..n
    BY LeadsAre DEF LeadInv
  <1>3. CASE o.email \in seen
    <2>1. UNCHANGED <<leads, seen, sent>>
      <3>1. seen' = seen
        BY <1>1, <1>3
      <3> QED
        BY <1>1, <1>3, <3>1 DEF AppendLead, NewAddress
    <2> QED
      BY <1>1, <2>1, LeadsStay
  <1>4. CASE o.email \notin seen
    <2>1. PICK answer \in MailAnswers :
            LET confidence == Confidence(o.email, answer)
                lead == [company |-> businesses[at].name, email |-> o.email, site |-> o.site,
                         source |-> o.source, confidence |-> Label(confidence, o.source),
                         smtp |-> answer.smtp, fact |-> "", hook |-> ""]
            IN leads' = IF confidence = "invalid" THEN leads ELSE Append(leads, lead)
      BY <1>4 DEF AppendLead, NewAddress
    <2> DEFINE lead == [company |-> businesses[at].name, email |-> o.email, site |-> o.site,
                        source |-> o.source, confidence |-> Label(Confidence(o.email, answer), o.source),
                        smtp |-> answer.smtp, fact |-> "", hook |-> ""]
    <2>2. CASE Confidence(o.email, answer) = "invalid"
      <3>1. leads' = leads
        BY <2>1, <2>2
      <3>2. o.email \in Malformed
        BY <2>2 DEF Confidence
      <3>3. LeadsOK' /\ SeenFits'
        BY <1>1, <3>1, <3>2 DEF LeadInv, LeadsOK, SeenFits, ToSet
      <3>4. OneLeadPerAddress' /\ GuessIsUntrusted'
        BY <3>1 DEF LeadInv, OneLeadPerAddress, GuessIsUntrusted
      <3>5. NoHookYet' /\ HookIsItsOwn'
        BY <1>1, <3>1 DEF LeadInv, NoHookYet, HookIsItsOwn
      <3> QED
        BY <1>1, <3>3, <3>4, <3>5 DEF LeadInv
    <2>3. CASE Confidence(o.email, answer) # "invalid"
      <3>1. leads' = Append(leads, lead)
        BY <2>1, <2>3
      <3>2. /\ DOMAIN lead = LeadFields /\ lead.email = o.email /\ lead.hook = "" /\ lead.smtp = answer.smtp
            /\ lead.source = o.source /\ lead.confidence = Label(Confidence(o.email, answer), o.source)
        BY DEF LeadFields
      <3>3. lead.confidence \in {"high", "medium"} =>
              lead.smtp # "rejected" /\ (lead.source = "guessed" => lead.smtp = "accepted")
        BY <3>2 DEF Label, Confidence
      <3> HIDE DEF lead
      <3>4. /\ leads' \in Seq(ToSet(leads) \cup {lead}) /\ Len(leads') = n + 1
            /\ \A i \in 1..n : leads'[i] = leads[i]
            /\ leads'[n + 1] = lead
        <4>1. leads \in Seq(ToSet(leads) \cup {lead})
          BY SeqMonotonic DEF LeadInv, LeadsOK
        <4> QED
          BY <3>1, <4>1, AppendProperties
      <3> HIDE DEF n, o
      <3>5. DOMAIN leads' = 1..n + 1 /\ leads' \in [1..n + 1 -> ToSet(leads) \cup {lead}]
        BY <3>4, LenProperties
      <3>6. \A i \in 1..n + 1 : i \in 1..n \/ i = n + 1
        BY <1>2
      <3>7. \A i \in 1..n : i \in 1..n + 1
        BY <1>2
      <3>8. LeadsOK'
        <4>1. leads' \in Seq(ToSet(leads'))
          <5>1. leads' \in [1..n + 1 -> ToSet(leads')]
            BY <3>5 DEF ToSet
          <5> QED
            BY <1>2, <5>1, SeqDef
        <4>2. \A i \in 1..n + 1 : DOMAIN leads'[i] = LeadFields /\ leads'[i].confidence \in Confidences
          <5>1. Label(Confidence(o.email, answer), o.source) \in Confidences
            BY <2>3 DEF Label, Confidence, Confidences
          <5> QED
            BY <1>2, <3>2, <3>4, <3>6, <5>1 DEF LeadInv, LeadsOK
        <4> QED
          BY <3>5, <4>1, <4>2 DEF LeadsOK
      <3>9. SeenFits'
        <4>1. \A i \in 1..n + 1 : leads'[i].email \in seen'
          BY <1>1, <1>2, <3>2, <3>4, <3>6 DEF LeadInv, SeenFits, o
        <4>2. ASSUME NEW a \in seen' \ Malformed PROVE \E i \in 1..n + 1 : leads'[i].email = a
          <5>1. CASE a \in seen
            <6>1. PICK i \in 1..n : leads[i].email = a
              BY <1>2, <4>2, <5>1 DEF LeadInv, SeenFits
            <6> QED
              BY <3>4, <3>7, <6>1
          <5>2. CASE a = o.email
            <6>1. n + 1 \in 1..n + 1
              BY <1>2
            <6> QED
              BY <3>2, <3>4, <5>2, <6>1
          <5> QED
            BY <1>1, <4>2, <5>1, <5>2 DEF o
        <4> QED
          BY <3>5, <4>1, <4>2 DEF SeenFits
      <3>10. OneLeadPerAddress'
        <4>1. ASSUME NEW i \in 1..n + 1, NEW j \in 1..n + 1, leads'[i].email = leads'[j].email PROVE i = j
          <5>1. \A k \in 1..n : leads'[k].email \in seen
            BY <1>2, <3>4 DEF LeadInv, SeenFits
          <5>2. leads'[n + 1].email \notin seen
            BY <1>4, <3>2, <3>4 DEF o
          <5>3. CASE i \in 1..n /\ j \in 1..n
            BY <1>2, <3>4, <4>1, <5>3 DEF LeadInv, OneLeadPerAddress
          <5> QED
            BY <3>6, <4>1, <5>1, <5>2, <5>3
        <4> QED
          BY <3>5, <4>1 DEF OneLeadPerAddress
      <3>11. GuessIsUntrusted'
        <4>1. \A i \in 1..n + 1 : leads'[i].confidence \in {"high", "medium"} =>
                 leads'[i].smtp # "rejected" /\ (leads'[i].source = "guessed" => leads'[i].smtp = "accepted")
          BY <1>2, <3>3, <3>4, <3>6 DEF LeadInv, GuessIsUntrusted
        <4> QED
          BY <3>5, <4>1 DEF GuessIsUntrusted
      <3>12. \A i \in 1..n + 1 : leads'[i].hook = ""
        BY <1>1, <1>2, <3>2, <3>4, <3>6 DEF LeadInv, NoHookYet
      <3>13. NoHookYet' /\ HookIsItsOwn'
        BY <3>5, <3>12 DEF NoHookYet, HookIsItsOwn
      <3> QED
        BY <1>1, <3>8, <3>9, <3>10, <3>11, <3>13 DEF LeadInv
    <2> QED
      BY <2>2, <2>3
  <1> QED
    BY <1>3, <1>4
\* Leads that are replaced one by one stay a list of leads.
LEMMA LeadsReplaced ==
  ASSUME LeadsOK, DOMAIN leads' = DOMAIN leads, leads' = [i \in DOMAIN leads |-> leads'[i]],
         \A i \in DOMAIN leads : DOMAIN leads'[i] = LeadFields /\ leads'[i].confidence \in Confidences
  PROVE  LeadsOK'
  <1>1. Len(leads) \in Nat /\ DOMAIN leads' = 1..Len(leads)
    BY LeadsAre
  <1>2. leads' \in [1..Len(leads) -> ToSet(leads')]
    BY <1>1 DEF ToSet
  <1>3. leads' \in Seq(ToSet(leads'))
    BY <1>1, <1>2, SeqDef
  <1> QED
    BY <1>3 DEF LeadsOK

LEMMA SortLeadsStep ==
  ASSUME LeadInv, SortLeads
  PROVE  LeadInv'
  <1> DEFINE n == Len(leads)
             order == Ordered(DOMAIN leads, Better)
  <1>1. /\ stage = "harvest" /\ stage \notin Late /\ stage # "done" /\ sent' = sent /\ seen' = seen
        /\ leads' = [i \in DOMAIN leads |-> leads[order[i]]]
    BY DEF SortLeads, Late
  <1>2. n \in Nat /\ DOMAIN leads = 1..n
    BY LeadsAre DEF LeadInv
  <1> HIDE DEF n
  <1>3. IsFiniteSet(1..n) /\ Cardinality(1..n) = n
    BY <1>2, FS_Interval
  <1>4. /\ \A i \in 1..n : <<i, i>> \notin Better
        /\ \A i, j, k \in 1..n : <<i, j>> \in Better /\ <<j, k>> \in Better => <<i, k>> \in Better
        /\ \A i, j \in 1..n : i # j => <<i, j>> \in Better \/ <<j, i>> \in Better
        /\ \A i, j \in 1..n : <<i, j>> \in Better => ConfRank(leads[i]) <= ConfRank(leads[j])
    <2> DEFINE rank == [i \in 1..n |-> ConfRank(leads[i])]
    <2>1. \A i \in 1..n : rank[i] = ConfRank(leads[i]) /\ rank[i] \in 0..2
      BY DEF ConfRank
    <2> HIDE DEF rank
    <2>2. \A i, j \in 1..n : <<i, j>> \in Better <=> rank[i] < rank[j] \/ (rank[i] = rank[j] /\ i < j)
      BY <1>2, <2>1 DEF Better
    <2> QED
      BY <1>2, <2>1, <2>2
  <1>5. /\ order \in [1..n -> 1..n]
        /\ \A a, b \in 1..n : a < b => <<order[a], order[b]>> \in Better
        /\ \A a, b \in 1..n : order[a] = order[b] => a = b
        /\ \A i \in 1..n : \E a \in 1..n : order[a] = i
    <2> DEFINE S == 1..n
               o == Ordered(S, Better)
    <2>1. IsFiniteSet(S) /\ Cardinality(S) = n /\ order = o
      BY <1>2, <1>3
    <2>2. /\ o \in [1..Cardinality(S) -> S]
          /\ \A a, b \in 1..Cardinality(S) : a < b => <<o[a], o[b]>> \in Better
          /\ \A a, b \in 1..Cardinality(S) : o[a] = o[b] => a = b
          /\ \A i \in S : \E a \in 1..Cardinality(S) : o[a] = i
      <3> HIDE DEF S
      <3>1. TotalOn(S, Better)
        BY <1>4 DEF S, TotalOn
      <3>2. InOrderOf(o, S, Better)
        BY <2>1, <3>1, OrderIs
      <3> QED
        BY <3>2 DEF InOrderOf
    <2> HIDE DEF o, order
    <2> QED
      BY <2>1, <2>2
  <1> HIDE DEF order
  <1>6. DOMAIN leads' = 1..n /\ \A i \in 1..n : order[i] \in 1..n /\ leads'[i] = leads[order[i]]
    BY <1>1, <1>2, <1>5
  <1>7. LeadsOK'
    <2>1. \A i \in 1..n : DOMAIN leads'[i] = LeadFields /\ leads'[i].confidence \in Confidences
      BY <1>2, <1>6 DEF LeadInv, LeadsOK
    <2>2. leads' = [i \in DOMAIN leads |-> leads'[i]]
      BY <1>1
    <2> QED
      BY <1>2, <1>6, <2>1, <2>2, LeadsReplaced DEF LeadInv
  <1>8. SeenFits'
    <2>1. \A i \in 1..n : leads'[i].email \in seen
      BY <1>2, <1>6 DEF LeadInv, SeenFits
    <2>2. ASSUME NEW a \in seen \ Malformed PROVE \E i \in 1..n : leads'[i].email = a
      <3>1. PICK k \in 1..n : leads[k].email = a
        BY <1>2 DEF LeadInv, SeenFits
      <3>2. PICK i \in 1..n : order[i] = k
        BY <1>5
      <3> QED
        BY <1>6, <3>1, <3>2
    <2> QED
      BY <1>1, <1>6, <2>1, <2>2 DEF SeenFits
  <1>9. OneLeadPerAddress'
    <2>1. ASSUME NEW i \in 1..n, NEW j \in 1..n, leads'[i].email = leads'[j].email PROVE i = j
      <3>1. order[i] = order[j]
        BY <1>2, <1>6, <2>1 DEF LeadInv, OneLeadPerAddress
      <3> QED
        BY <1>5, <3>1
    <2> QED
      BY <1>6, <2>1 DEF OneLeadPerAddress
  <1>10. GuessIsUntrusted'
    <2>1. \A i \in 1..n : leads'[i].confidence \in {"high", "medium"} =>
             leads'[i].smtp # "rejected" /\ (leads'[i].source = "guessed" => leads'[i].smtp = "accepted")
      BY <1>2, <1>6 DEF LeadInv, GuessIsUntrusted
    <2> QED
      BY <1>6, <2>1 DEF GuessIsUntrusted
  <1>11. InOrder'
    <2>1. ASSUME NEW i \in 1..n, NEW j \in 1..n, i < j PROVE ConfRank(leads'[i]) <= ConfRank(leads'[j])
      <3>1. ConfRank(leads[order[i]]) <= ConfRank(leads[order[j]])
        BY <1>4, <1>5, <1>6, <2>1
      <3> QED
        BY <1>6, <3>1 DEF ConfRank
    <2> QED
      BY <1>6, <2>1 DEF InOrder, ConfRank
  <1>12. NoHookYet' /\ HookIsItsOwn'
    <2>1. \A i \in 1..n : leads'[i].hook = ""
      BY <1>1, <1>2, <1>6 DEF LeadInv, NoHookYet
    <2> QED
      BY <1>6, <2>1 DEF NoHookYet, HookIsItsOwn
  <1> QED
    BY <1>7, <1>8, <1>9, <1>10, <1>11, <1>12 DEF LeadInv

\* What only adds a fact or a hook changes nothing else about the leads.
LEMMA LeadsAnnotated ==
  ASSUME LeadInv, stage \in Late, seen' = seen,
         DOMAIN leads' = DOMAIN leads, leads' = [i \in DOMAIN leads |-> leads'[i]],
         \A i \in DOMAIN leads :
           /\ DOMAIN leads'[i] = LeadFields
           /\ \A f \in LeadFields \ {"fact", "hook"} : leads'[i][f] = leads[i][f]
  PROVE  /\ LeadsOK' /\ SeenFits' /\ OneLeadPerAddress' /\ GuessIsUntrusted' /\ InOrder'
         /\ \A i \in DOMAIN leads : leads'[i].email = leads[i].email
  <1>1. \A i \in DOMAIN leads : /\ leads'[i].email = leads[i].email /\ leads'[i].confidence = leads[i].confidence
                                /\ leads'[i].smtp = leads[i].smtp /\ leads'[i].source = leads[i].source
    BY DEF LeadFields
  <1>2. LeadsOK'
    <2>1. \A i \in DOMAIN leads : leads'[i].confidence \in Confidences
      BY <1>1 DEF LeadInv, LeadsOK
    <2> QED
      BY <2>1, LeadsReplaced DEF LeadInv
  <1>3. SeenFits'
    BY <1>1 DEF LeadInv, SeenFits
  <1>4. OneLeadPerAddress' /\ GuessIsUntrusted'
    BY <1>1 DEF LeadInv, OneLeadPerAddress, GuessIsUntrusted
  <1>5. InOrder'
    BY <1>1 DEF LeadInv, InOrder, ConfRank
  <1> QED
    BY <1>1, <1>2, <1>3, <1>4, <1>5

LEMMA EnrichStep ==
  ASSUME LeadInv, EnrichFromRegistry
  PROVE  LeadInv'
  <1>1. /\ stage = "enrich" /\ stage \in Late /\ stage # "done" /\ stage' = "qualify" /\ seen' = seen
        /\ \E up, known : leads' = [i \in DOMAIN leads |->
              IF leads[i].company \in up
              THEN [leads[i] EXCEPT !.fact = LookupCompany(leads[i].company, known)] ELSE leads[i]]
    BY DEF EnrichFromRegistry, Late
  <1>2. PICK up, known : leads' = [i \in DOMAIN leads |->
              IF leads[i].company \in up
              THEN [leads[i] EXCEPT !.fact = LookupCompany(leads[i].company, known)] ELSE leads[i]]
    BY <1>1
  <1>3. \A i \in DOMAIN leads : DOMAIN leads[i] = LeadFields
    BY DEF LeadInv, LeadsOK
  <1>4. \A i \in DOMAIN leads :
           /\ DOMAIN leads'[i] = LeadFields
           /\ \A f \in LeadFields \ {"fact"} : leads'[i][f] = leads[i][f]
    BY <1>2, <1>3
  <1>5. DOMAIN leads' = DOMAIN leads /\ leads' = [i \in DOMAIN leads |-> leads'[i]]
    BY <1>2
  <1>6. /\ LeadsOK' /\ SeenFits' /\ OneLeadPerAddress' /\ GuessIsUntrusted' /\ InOrder'
    BY <1>1, <1>4, <1>5, LeadsAnnotated
  <1>7. \A i \in DOMAIN leads : leads'[i].hook = ""
    BY <1>1, <1>4 DEF LeadInv, NoHookYet, LeadFields
  <1>8. NoHookYet' /\ HookIsItsOwn'
    BY <1>5, <1>7 DEF NoHookYet, HookIsItsOwn
  <1> QED
    BY <1>6, <1>8 DEF LeadInv

LEMMA QualifyStep ==
  ASSUME LeadInv, Qualify
  PROVE  LeadInv'
  <1> DEFINE n == Len(leads)
             m == IF n < MaxQualify THEN n ELSE MaxQualify
             subset == Prefix(leads, MaxQualify)
             told == [i \in 0..Len(subset) |-> IF i < Len(subset) THEN subset[i + 1].email ELSE "nobody"]
             About(said, i) == {k \in said : k < Len(subset) /\ FromZero(k) = i}
  <1>1. /\ stage = "qualify" /\ stage \in Late /\ stage # "done" /\ stage' = "done" /\ seen' = seen
        /\ sent' = [i \in DOMAIN subset |-> subset[i].email]
    BY DEF Qualify, Late
  <1>2. PICK said \in SUBSET DOMAIN told :
          leads' = [i \in DOMAIN leads |->
            IF About(said, i) = {} THEN leads[i]
            ELSE [leads[i] EXCEPT !.hook = told[CHOOSE k \in About(said, i) : TRUE]]]
    BY DEF Qualify
  <1>3. n \in Nat /\ DOMAIN leads = 1..n /\ leads \in Seq(ToSet(leads))
    BY LeadsAre DEF LeadInv, LeadsOK
  <1>4. \A i \in DOMAIN leads : DOMAIN leads[i] = LeadFields
    BY DEF LeadInv, LeadsOK
  <1>5. MaxQualify \in Nat \ {0} /\ m \in Nat /\ m <= n
    BY <1>3, LeadAssumption
  <1>6. /\ Len(subset) = m /\ DOMAIN subset = 1..m
        /\ \A i \in 1..m : i \in 1..n /\ subset[i] = leads[i]
    <2>1. subset = SubSeq(leads, 1, m)
      BY DEF Prefix
    <2> HIDE DEF m, n, subset
    <2>2. \A i \in 1..m : i \in 1..n /\ leads[i] \in ToSet(leads)
      BY <1>3, <1>5 DEF ToSet
    <2>3. /\ SubSeq(leads, 1, m) \in Seq(ToSet(leads)) /\ Len(SubSeq(leads, 1, m)) = m
          /\ \A i \in 1..m : SubSeq(leads, 1, m)[i] = leads[i]
      <3>1. m \in Int /\ 1 \in Int
        BY <1>5
      <3>2. /\ SubSeq(leads, 1, m) \in Seq(ToSet(leads))
            /\ Len(SubSeq(leads, 1, m)) = IF 1 <= m THEN m - 1 + 1 ELSE 0
            /\ \A i \in 1..(m - 1 + 1) : SubSeq(leads, 1, m)[i] = leads[1 + i - 1]
        BY <2>2, <3>1, SubSeqProperties
      <3> QED
        BY <1>5, <3>2
    <2> QED
      BY <2>1, <2>2, <2>3, LenProperties
  <1> HIDE DEF m, n, subset
  <1>7. \A k \in 0..m : k < m => told[k] = leads[k + 1].email
    BY <1>5, <1>6
  <1>8. DOMAIN told = 0..m
    BY <1>6
  <1> HIDE DEF told
  <1>9. \A i \in 1..n : \A k \in About(said, i) : k \in 0..m /\ k < m /\ k + 1 = i
    BY <1>2, <1>6, <1>8 DEF FromZero
  <1> HIDE DEF About
  <1>10. \A i \in DOMAIN leads :
           /\ DOMAIN leads'[i] = LeadFields
           /\ \A f \in LeadFields \ {"hook"} : leads'[i][f] = leads[i][f]
    BY <1>2, <1>4
  <1>11. DOMAIN leads' = DOMAIN leads /\ leads' = [i \in DOMAIN leads |-> leads'[i]]
    BY <1>2
  <1>12. /\ LeadsOK' /\ SeenFits' /\ OneLeadPerAddress' /\ GuessIsUntrusted' /\ InOrder'
         /\ \A i \in DOMAIN leads : leads'[i].email = leads[i].email
    BY <1>1, <1>10, <1>11, LeadsAnnotated
  <1>13. HookIsItsOwn'
    <2>1. ASSUME NEW i \in 1..n, leads'[i].hook # "" PROVE leads'[i].hook = leads[i].email /\ leads[i].email \in ToSet(sent')
      <3>1. CASE About(said, i) = {}
        <4>1. leads'[i] = leads[i]
          BY <1>2, <1>3, <3>1
        <4> QED
          BY <1>1, <1>3, <2>1, <4>1 DEF LeadInv, NoHookYet
      <3>2. CASE About(said, i) # {}
        <4> DEFINE k == CHOOSE h \in About(said, i) : TRUE
        <4>1. k \in About(said, i)
          BY <3>2
        <4>2. leads'[i] = [leads[i] EXCEPT !.hook = told[k]]
          BY <1>2, <1>3, <3>2
        <4> HIDE DEF k
        <4>3. k \in 0..m /\ k < m /\ k + 1 = i
          BY <1>9, <4>1
        <4>4. told[k] = leads[i].email
          BY <1>7, <4>3
        <4>5. leads'[i].hook = told[k]
          BY <1>3, <1>4, <4>2 DEF LeadFields
        <4>6. i \in 1..m
          BY <1>5, <4>3
        <4>7. DOMAIN sent' = 1..m /\ sent'[i] = leads[i].email
          BY <1>1, <1>6, <4>6
        <4>8. leads[i].email \in ToSet(sent')
          BY <4>6, <4>7 DEF ToSet
        <4> QED
          BY <4>4, <4>5, <4>8
      <3> QED
        BY <3>1, <3>2
    <2> QED
      BY <1>3, <1>11, <1>12, <2>1 DEF HookIsItsOwn
  <1> QED
    BY <1>1, <1>12, <1>13 DEF LeadInv, NoHookYet

LEMMA LeadStepKeeps == LeadInv /\ [Next]_vars => LeadInv'
  <1> SUFFICES ASSUME LeadInv, [Next]_vars PROVE LeadInv'
    OBVIOUS
  <1>1. CASE ValidatePayload \/ Discovered \/ ResolveWebsites
    <2>1. CASE ValidatePayload
      BY <2>1, LeadsStay DEF ValidatePayload, Late
    <2>2. CASE Discovered
      BY <2>2, LeadsStay DEF Discovered, AllMerged, Late
    <2>3. CASE ResolveWebsites
      BY <2>3, LeadsStay DEF ResolveWebsites, Late
    <2> QED
      BY <1>1, <2>1, <2>2, <2>3
  <1>2. CASE AskMaps \/ AskRegistry \/ SourceRaises \/ DirectoriesReturn
    BY <1>2, LeadsStay DEF AskMaps, AskRegistry, SourceRaises, DirectoriesReturn, SourceReturns
  <1>3. CASE CallDirectory \/ DirectoryReturns \/ DirectoryRaises
    BY <1>3, LeadsStay DEF CallDirectory, DirectoryReturns, DirectoryRaises, LeaveDirectory
  <1>4. CASE NoSite \/ VisitSite \/ MineSocial \/ VisitRaises
    <2>1. CASE NoSite
      BY <2>1, LeadsStay DEF NoSite, Visited
    <2>2. CASE VisitSite
      BY <2>2, LeadsStay DEF VisitSite, Visited
    <2>3. CASE MineSocial
      BY <2>3, LeadsStay DEF MineSocial, Visited
    <2>4. CASE VisitRaises
      BY <2>4, LeadsStay DEF VisitRaises, Visiting, Late
    <2> QED
      BY <1>4, <2>1, <2>2, <2>3, <2>4
  <1>5. CASE AppendLead
    BY <1>5, AppendLeadStep
  <1>6. CASE SortLeads \/ EnrichFromRegistry \/ Qualify
    BY <1>6, SortLeadsStep, EnrichStep, QualifyStep
  <1>8. CASE MergeArrival
    BY <1>8, LeadsStay DEF MergeArrival
  <1>7. CASE UNCHANGED vars
    BY <1>7, LeadsStay DEF vars
  <1> QED
    BY <1>1, <1>2, <1>3, <1>4, <1>5, <1>6, <1>7, <1>8 DEF Next

-----------------------------------------------------------------------------
(* The run that sends a message.                                             *)

MailStages == {"begin", "connect", "session", "taken", "answered", "ended"}
MailFields == {"stage", "status", "asked", "recipients", "configured", "retries", "attempt", "got", "sent", "lost"}

Reached == \E p \in People : mail.got[p] > 0
Unsent == mail.stage \in {"begin", "connect", "session"} \/ (mail.stage = "answered" /\ ~mail.sent)

\* Before an attempt hands the message over, nobody has got it more often than answers
\* were lost; afterwards once more, and somebody has.
MailInv ==
  /\ DOMAIN mail = MailFields /\ mail.stage \in MailStages /\ mail.sent \in BOOLEAN
  /\ mail.got \in [People -> Nat] /\ mail.lost \in Nat /\ mail.recipients \subseteq People
  /\ \A p \in People : mail.got[p] > 0 => p \in mail.recipients
  /\ \A p \in People : mail.got[p] <= mail.lost + 1
  /\ Unsent => \A p \in People : mail.got[p] <= mail.lost
  /\ mail.stage = "taken" \/ (mail.stage = "answered" /\ mail.sent) => Reached
  /\ mail.status = "success" => Reached
  /\ mail.status \in {"success", "failed"} => mail.stage = "ended"
  /\ mail.status = "failed" /\ Reached => mail.lost > 0

LEMMA MailInit == mail \in Mail!Mails => MailInv
  <1> SUFFICES ASSUME mail \in Mail!Mails PROVE MailInv
    OBVIOUS
  <1>1. /\ DOMAIN mail = MailFields /\ mail.stage = "begin" /\ mail.status = "running" /\ mail.sent = FALSE
        /\ mail.got = [p \in People |-> 0] /\ mail.lost = 0
    BY DEF Mail!Mails, MailFields
  <1>2. mail.got \in [People -> Nat] /\ \A p \in People : mail.got[p] = 0
    BY <1>1
  <1>3. mail.recipients \subseteq People
    BY DEF Mail!Mails
  <1>4. ~Reached
    BY <1>2 DEF Reached
  <1>5. \A p \in People : mail.got[p] <= mail.lost /\ mail.got[p] <= mail.lost + 1 /\ ~(mail.got[p] > 0)
    BY <1>1, <1>2
  <1>6. /\ mail.stage \in MailStages /\ mail.lost \in Nat /\ mail.sent \in BOOLEAN
        /\ mail.status \notin {"success", "failed"} /\ mail.stage \notin {"taken", "answered"}
    <2>1. mail.sent \in BOOLEAN
      BY <1>1, Zenon
    <2> QED
      BY <1>1, <2>1 DEF MailStages
  <1> QED
    BY <1>1, <1>2, <1>3, <1>4, <1>5, <1>6, Zenon DEF MailInv

\* A step that hands nothing over.
LEMMA MailGoesOn ==
  ASSUME MailInv, DOMAIN mail' = MailFields, mail'.stage \in {"begin", "connect", "session", "answered"},
         mail.stage \in {"begin", "connect", "session", "answered"}, Unsent, Unsent',
         mail'.sent \in BOOLEAN, mail'.got = mail.got, mail'.lost = mail.lost,
         mail'.recipients = mail.recipients, mail'.status = mail.status
  PROVE  MailInv'
  BY DEF MailInv, MailStages, Unsent, Reached

LEMMA MailStepKeeps == MailInv /\ Mail!MailNext => MailInv'
  <1> SUFFICES ASSUME MailInv, Mail!MailNext PROVE MailInv'
    OBVIOUS
  <1>1. CASE Mail!Begin \/ Mail!Login
    BY <1>1, MailGoesOn DEF Mail!Begin, Mail!Login, Mail!AtMail, Mail!Running, Mail!Answer, MailInv, Unsent, MailFields
  <1>2. CASE Mail!SendMail
    <2>1. PICK takers \in SUBSET mail.recipients :
            mail' = IF takers = {} THEN [mail EXCEPT !.stage = "answered", !.sent = FALSE]
                    ELSE [mail EXCEPT !.stage = "taken",
                                      !.got = [p \in People |-> @[p] + IF p \in takers THEN 1 ELSE 0]]
      BY <1>2 DEF Mail!SendMail, Mail!Answer
    <2>2. mail.stage = "session" /\ Unsent
      BY <1>2 DEF Mail!SendMail, Mail!AtMail, Unsent
    <2>3. CASE takers = {}
      BY <2>1, <2>2, <2>3, MailGoesOn DEF MailInv, Unsent, MailFields
    <2>4. CASE takers \cap People # {}
      <3>1. /\ DOMAIN mail' = MailFields /\ mail'.stage = "taken" /\ mail'.sent = mail.sent
            /\ mail'.lost = mail.lost /\ mail'.recipients = mail.recipients /\ mail'.status = mail.status
            /\ mail'.got = [p \in People |-> mail.got[p] + IF p \in takers THEN 1 ELSE 0]
        BY <2>1, <2>4 DEF MailInv, MailFields
      <3>2. ASSUME NEW p \in People
            PROVE  /\ mail'.got[p] \in Nat /\ mail'.got[p] <= mail.lost + 1
                   /\ (mail'.got[p] > 0 => p \in mail.recipients) /\ (p \in takers => mail'.got[p] > 0)
        <4>1. /\ mail.got[p] \in Nat /\ mail.got[p] <= mail.lost /\ mail.lost \in Nat
              /\ (mail.got[p] > 0 => p \in mail.recipients)
          BY <2>2 DEF MailInv
        <4>2. CASE p \in takers
          <5>1. mail'.got[p] = mail.got[p] + 1
            BY <3>1, <4>2
          <5> QED
            BY <4>1, <4>2, <5>1
        <4>3. CASE p \notin takers
          <5>1. mail'.got[p] = mail.got[p]
            BY <3>1, <4>1, <4>3
          <5> QED
            BY <4>1, <4>3, <5>1
        <4> QED
          BY <4>2, <4>3
      <3>3. mail'.got \in [People -> Nat]
        BY <3>1, <3>2
      <3>4. Reached'
        BY <2>4, <3>2 DEF Reached
      <3>5. mail.status \notin {"success", "failed"}
        BY <2>2 DEF MailInv
      <3> QED
        BY <3>1, <3>2, <3>3, <3>4, <3>5 DEF MailInv, MailStages, Unsent
    <2>5. mail.recipients \subseteq People
      BY DEF MailInv
    <2> QED
      BY <2>3, <2>4, <2>5
  <1>3. CASE Mail!Quit
    <2>1. /\ mail.stage = "taken" /\ DOMAIN mail' = MailFields /\ mail'.stage = "answered"
          /\ mail'.got = mail.got /\ mail'.recipients = mail.recipients /\ mail'.status = mail.status
          /\ \/ mail'.sent = TRUE /\ mail'.lost = mail.lost
             \/ mail'.sent = FALSE /\ mail'.lost = mail.lost + 1
      BY <1>3 DEF Mail!Quit, Mail!AtMail, Mail!Answer, MailInv, MailFields
    <2>2. mail.status \notin {"success", "failed"} /\ Reached /\ Reached'
      BY <2>1 DEF MailInv, Reached
    <2>3. \A p \in People : mail'.got[p] <= mail'.lost + 1 /\ (mail'.sent = FALSE => mail'.got[p] <= mail'.lost)
      BY <2>1 DEF MailInv
    <2>4. mail'.stage \in MailStages /\ mail'.lost \in Nat /\ mail'.sent \in BOOLEAN
      <3>1. mail.lost \in Nat
        BY DEF MailInv
      <3>2. CASE mail'.sent = TRUE /\ mail'.lost = mail.lost
        BY <2>1, <3>1, <3>2 DEF MailStages
      <3>3. CASE mail'.sent = FALSE /\ mail'.lost = mail.lost + 1
        <4>1. mail'.lost \in Nat
          BY <3>1, <3>3
        <4>2. mail'.sent \in BOOLEAN
          BY <3>3, Zenon
        <4>3. mail'.stage \in MailStages
          BY <2>1 DEF MailStages
        <4> QED
          BY <4>1, <4>2, <4>3
      <3> QED
        BY <2>1, <3>2, <3>3
    <2>5. Unsent' => \A p \in People : mail'.got[p] <= mail'.lost
      BY <2>1, <2>3, <2>4 DEF Unsent
    <2> QED
      BY <2>1, <2>2, <2>3, <2>4, <2>5 DEF MailInv
  <1>4. CASE Mail!Settle
    <2>1. /\ mail.stage = "answered" /\ DOMAIN mail' = MailFields /\ mail'.stage = "ended"
          /\ mail'.got = mail.got /\ mail'.recipients = mail.recipients /\ mail'.sent = mail.sent
          /\ mail'.lost = mail.lost /\ mail'.status = IF mail.sent THEN "success" ELSE "failed"
      BY <1>4 DEF Mail!Settle, Mail!AtMail, MailInv, MailFields
    <2>2. mail.sent => Reached
      BY <2>1 DEF MailInv
    <2>3. ~mail.sent /\ Reached => mail.lost > 0
      BY <2>1 DEF MailInv, Unsent, Reached
    <2>4. Reached' <=> Reached
      BY <2>1 DEF Reached
    <2> QED
      BY <2>1, <2>2, <2>3, <2>4 DEF MailInv, MailStages, Unsent
  <1>5. CASE Mail!Retry
    BY <1>5, MailGoesOn DEF Mail!Retry, Mail!AtMail, Mail!Running, MailInv, Unsent, MailFields
  <1>6. CASE Mail!Cancel
    <2>1. /\ mail.status = "running" /\ DOMAIN mail' = MailFields /\ mail'.stage = mail.stage
          /\ mail'.got = mail.got /\ mail'.recipients = mail.recipients /\ mail'.sent = mail.sent
          /\ mail'.lost = mail.lost /\ mail'.status = "cancelled"
      BY <1>6 DEF Mail!Cancel, Mail!Running, MailInv, MailFields
    <2>2. (Reached' <=> Reached) /\ (Unsent' <=> Unsent)
      BY <2>1 DEF Reached, Unsent
    <2> QED
      BY <2>1, <2>2 DEF MailInv
  <1>7. CASE Mail!Stop
    <2> DEFINE more == IF mail.stage = "taken" \/ (mail.stage = "answered" /\ mail.sent) THEN 1 ELSE 0
    <2>1. /\ mail.stage # "ended" /\ DOMAIN mail' = MailFields /\ mail'.stage = "ended"
          /\ mail'.got = mail.got /\ mail'.recipients = mail.recipients /\ mail'.sent = mail.sent
          /\ mail'.lost = mail.lost + more
          /\ mail'.status = IF mail.status = "running" THEN "failed" ELSE mail.status
      BY <1>7 DEF Mail!Stop, Mail!AtMail, Mail!Running, MailInv, MailFields
    <2>2. mail.status \notin {"success", "failed"} /\ mail.lost \in Nat
      BY <2>1 DEF MailInv
    <2>3. \A p \in People : mail'.got[p] <= mail'.lost
      <3>1. Unsent \/ more = 1
        BY <2>1 DEF MailInv, MailStages, Unsent
      <3>2. CASE more = 1
        BY <2>1, <3>2 DEF MailInv
      <3>3. CASE Unsent
        <4>1. more = 0
          BY <3>3 DEF Unsent
        <4> QED
          BY <2>1, <3>3, <4>1 DEF MailInv
      <3> QED
        BY <3>1, <3>2, <3>3
    <2>4. mail'.lost \in Nat
      BY <2>1, <2>2
    <2>5. Reached' => mail'.lost > 0
      BY <2>1, <2>3, <2>4 DEF Reached, MailInv
    <2>6. \A p \in People : mail'.got[p] <= mail'.lost + 1
      BY <2>1, <2>3, <2>4 DEF MailInv
    <2>7. mail'.status # "success"
      BY <2>1, <2>2
    <2> HIDE DEF more
    <2> QED
      BY <2>1, <2>2, <2>4, <2>5, <2>6, <2>7 DEF MailInv, MailStages, Unsent
  <1> QED
    BY <1>1, <1>2, <1>3, <1>4, <1>5, <1>6, <1>7 DEF Mail!MailNext

-----------------------------------------------------------------------------
(* The upload of the tables of a shop.                                       *)

HealthFields == {"stage", "files", "todo", "contents", "disk", "skus", "result"}

\* The places of the first k files that have a role.
RolePlaces(files, r, k) == {i \in 1..k : Figures!RoleOf(files[i].words) = r}

\* Of each role the last of the first k files.
LastOfRoles(tables, files, k) ==
  /\ \A r \in DOMAIN tables : Figures!RoleOf(tables[r].words) = r
  /\ \A r \in Figures!Roles :
       IF RolePlaces(files, r, k) = {} THEN r \notin DOMAIN tables
       ELSE r \in DOMAIN tables /\ tables[r] = files[Figures!Max(RolePlaces(files, r, k))]

UploadInv ==
  /\ DOMAIN health = HealthFields /\ IsList(health.files) /\ IsList(health.todo)
  /\ health.stage \in {"upload", "run", "ended"}
  /\ health.stage # "ended" => health.result = "none"
  /\ health.stage = "upload" =>
       /\ health.disk = Figures!NoFiles
       /\ Len(health.todo) <= Len(health.files)
       /\ \A i \in 1..Len(health.todo) :
            health.todo[i] = health.files[Len(health.files) - Len(health.todo) + i]
       /\ LastOfRoles(health.contents, health.files, Len(health.files) - Len(health.todo))
  /\ health.stage = "run" \/ health.result = "report" =>
       /\ Figures!Required \subseteq DOMAIN health.disk
       /\ LastOfRoles(health.disk, health.files, Len(health.files))
  /\ health.result = "refused" => health.disk = Figures!NoFiles

LEMMA UploadInit == health \in Figures!Checks => UploadInv
  <1> SUFFICES ASSUME health \in Figures!Checks PROVE UploadInv
    OBVIOUS
  <1>1. PICK files \in Requests : health = Figures!Health(files)
    BY DEF Figures!Checks
  <1>2. IsList(files)
    BY HealthAssumption DEF Figures!HealthAssumption, IsList, ToSet, Figures!ToSet
  <1>3. Len(files) \in Nat
    BY <1>2, ListHas
  <1>4. /\ DOMAIN health = HealthFields /\ health.stage = "upload" /\ health.files = files
        /\ health.todo = files /\ health.contents = Figures!NoFiles /\ health.disk = Figures!NoFiles
        /\ health.result = "none"
    BY <1>1 DEF Figures!Health, HealthFields
  <1>5. DOMAIN Figures!NoFiles = {}
    BY DEF Figures!NoFiles
  <1>6. LastOfRoles(Figures!NoFiles, files, Len(files) - Len(files))
    <2>1. Len(files) - Len(files) = 0
      BY <1>3
    <2>2. \A r : RolePlaces(files, r, 0) = {}
      BY DEF RolePlaces
    <2> QED
      BY <1>5, <2>1, <2>2 DEF LastOfRoles
  <1>7. \A i \in 1..Len(files) : files[i] = files[Len(files) - Len(files) + i]
    BY <1>3
  <1> QED
    BY <1>2, <1>3, <1>4, <1>6, <1>7 DEF UploadInv

\* The next file of a role takes the place of an earlier one.
LEMMA NextOfRole ==
  ASSUME NEW tables, NEW files, NEW k \in Nat, LastOfRoles(tables, files, k),
         NEW role, role = Figures!RoleOf(files[k + 1].words), NEW more,
         IF role = "none" THEN more = tables ELSE more = [r \in {role} \cup DOMAIN tables |-> IF r = role THEN files[k + 1] ELSE tables[r]]
  PROVE  LastOfRoles(more, files, k + 1)
  <1>1. ASSUME NEW r, r # role PROVE RolePlaces(files, r, k + 1) = RolePlaces(files, r, k)
    <2>1. \A i \in 1..k + 1 : i \in 1..k \/ i = k + 1
      OBVIOUS
    <2>2. \A i \in 1..k : i \in 1..k + 1
      OBVIOUS
    <2> QED
      BY <1>1, <2>1, <2>2 DEF RolePlaces
  <1>2. CASE role = "none"
    <2>1. \A r \in Figures!Roles : r # role
      BY <1>2 DEF Figures!Roles
    <2> QED
      BY <1>1, <1>2, <2>1 DEF LastOfRoles
  <1>3. CASE role # "none"
    <2> DEFINE P == RolePlaces(files, role, k + 1)
    <2>1. k + 1 \in P /\ \A i \in P : i \in Nat /\ i <= k + 1
      BY DEF RolePlaces
    <2> HIDE DEF P
    <2>2. Figures!Max(P) = k + 1
      <3>1. \A x \in P : (\A y \in P : x >= y) => x = k + 1
        BY <2>1
      <3>2. \A y \in P : k + 1 >= y
        BY <2>1
      <3> QED
        BY <2>1, <3>1, <3>2 DEF Figures!Max
    <2>3. /\ DOMAIN more = {role} \cup DOMAIN tables /\ more[role] = files[k + 1]
          /\ \A r \in DOMAIN tables : r # role => more[r] = tables[r]
      BY <1>3
    <2>4. P # {}
      BY <2>1
    <2> QED
      BY <1>1, <2>2, <2>3, <2>4 DEF LastOfRoles, P
  <1> QED
    BY <1>2, <1>3

LEMMA UploadKeeps == UploadInv /\ Figures!HealthNext => UploadInv'
  <1> SUFFICES ASSUME UploadInv, Figures!HealthNext PROVE UploadInv'
    OBVIOUS
  <1> DEFINE n == Len(health.files)
             m == Len(health.todo)
  <1>1. n \in Nat /\ m \in Nat /\ DOMAIN health.files = 1..n /\ (health.todo = <<>> <=> m = 0)
    BY ListHas DEF UploadInv
  <1>2. CASE Figures!TakeFile
    <2> DEFINE file == Head(health.todo)
               role == Figures!RoleOf(file.words)
    <2>1. /\ health.stage = "upload" /\ health.todo # <<>> /\ DOMAIN health' = HealthFields
          /\ health'.stage = health.stage /\ health'.files = health.files /\ health'.todo = Tail(health.todo)
          /\ health'.disk = health.disk /\ health'.result = health.result
          /\ IF role = "none" THEN health'.contents = health.contents
             ELSE health'.contents =
                    [r \in {role} \cup DOMAIN health.contents |-> IF r = role THEN file ELSE health.contents[r]]
      <3>1. CASE role = "none"
        BY <1>2, <3>1 DEF Figures!TakeFile, Figures!AtStage, Figures!NextFile, UploadInv, HealthFields
      <3>2. CASE role # "none"
        <4> DEFINE rest == [health EXCEPT !.todo = Tail(@)]
                   new == [r \in {role} \cup DOMAIN health.contents |->
                             IF r = role THEN file ELSE health.contents[r]]
        <4>1. /\ health.stage = "upload" /\ health.todo # <<>>
              /\ health' = [rest EXCEPT !.contents =
                              [r \in {role} \cup DOMAIN @ |-> IF r = role THEN file ELSE @[r]]]
          BY <1>2, <3>2 DEF Figures!TakeFile, Figures!AtStage, Figures!NextFile
        <4>2. /\ DOMAIN rest = HealthFields /\ rest.contents = health.contents
              /\ rest.todo = Tail(health.todo)
              /\ \A f \in HealthFields \ {"todo"} : rest[f] = health[f]
          BY DEF UploadInv, HealthFields
        <4> HIDE DEF rest
        <4>3. health' = [rest EXCEPT !.contents = new]
          BY <4>1, <4>2
        <4> HIDE DEF new
        <4>4. health'.contents = new /\ DOMAIN health' = HealthFields
          BY <4>2, <4>3 DEF HealthFields
        <4>5. \A f \in HealthFields \ {"contents"} : health'[f] = rest[f]
          BY <4>2, <4>3
        <4> HIDE DEF role
        <4> QED
          BY <3>2, <4>1, <4>2, <4>4, <4>5 DEF HealthFields, new
      <3> QED
        BY <3>1, <3>2
    <2>2. /\ IsList(Tail(health.todo)) /\ Len(Tail(health.todo)) = m - 1 /\ file = health.todo[1]
          /\ \A i \in 1..m - 1 : Tail(health.todo)[i] = health.todo[i + 1]
      <3>1. health.todo \in Seq(ToSet(health.todo))
        BY DEF UploadInv, IsList
      <3>2. IsList(Tail(health.todo))
        BY <2>1, TailIs DEF UploadInv
      <3> QED
        BY <2>1, <3>1, <3>2, HeadTailProperties
    <2> DEFINE k == n - m
    <2>3. m >= 1 /\ m <= n /\ k \in Nat /\ n - (m - 1) = k + 1
      BY <1>1, <2>1 DEF UploadInv
    <2>4. \A i \in 1..m : health.todo[i] = health.files[k + i]
      BY <2>1 DEF UploadInv
    <2>5. LastOfRoles(health.contents, health.files, k)
      BY <2>1 DEF UploadInv
    <2> HIDE DEF k, role, m, n
    <2>6. file = health.files[k + 1]
      BY <2>2, <2>3, <2>4
    <2>7. role = Figures!RoleOf(health.files[k + 1].words)
      BY <2>6 DEF role
    <2>8. LastOfRoles(health'.contents, health.files, k + 1)
      BY <2>1, <2>3, <2>5, <2>6, <2>7, NextOfRole
    <2>9. \A i \in 1..m - 1 : Tail(health.todo)[i] = health.files[k + 1 + i]
      <3> SUFFICES ASSUME NEW i \in 1..m - 1 PROVE Tail(health.todo)[i] = health.files[k + 1 + i]
        OBVIOUS
      <3>1. i + 1 \in 1..m /\ k + (i + 1) = k + 1 + i
        BY <1>1, <2>3
      <3> QED
        BY <2>2, <2>4, <3>1
    <2>10. Len(health'.todo) = m - 1 /\ Len(health'.files) = n /\ IsList(health'.todo)
      BY <2>1, <2>2 DEF n
    <2>11. m - 1 <= n
      BY <1>1, <2>3
    <2>12. Len(health'.files) - Len(health'.todo) = k + 1
      BY <2>3, <2>10
    <2> QED
      BY <2>1, <2>8, <2>9, <2>10, <2>11, <2>12 DEF UploadInv
  <1>3. CASE Figures!RefuseFile \/ Figures!RefuseUpload
    <2>1. /\ health.stage = "upload" /\ DOMAIN health' = HealthFields /\ health'.stage = "ended"
          /\ health'.files = health.files /\ health'.todo = health.todo
          /\ health'.disk = health.disk /\ health'.result = "refused"
      BY <1>3 DEF Figures!RefuseFile, Figures!RefuseUpload, Figures!AllRead, Figures!AtStage, Figures!Fails,
         UploadInv, HealthFields
    <2> QED
      BY <2>1 DEF UploadInv
  <1>4. CASE Figures!WriteFiles
    <2>1. /\ health.stage = "upload" /\ health.todo = <<>> /\ Figures!Required \subseteq DOMAIN health.contents
          /\ DOMAIN health' = HealthFields /\ health'.stage = "run"
          /\ health'.files = health.files /\ health'.todo = health.todo
          /\ health'.disk = health.contents /\ health'.result = health.result
      BY <1>4 DEF Figures!WriteFiles, Figures!AllRead, Figures!AtStage, UploadInv, HealthFields
    <2>2. n - m = n
      BY <1>1, <2>1
    <2>3. LastOfRoles(health.contents, health.files, n)
      BY <2>1, <2>2 DEF UploadInv
    <2> QED
      BY <2>1, <2>3 DEF UploadInv
  <1>5. CASE Figures!WriteRaises
    <2>1. /\ DOMAIN health' = HealthFields /\ health'.stage = "ended"
          /\ health'.files = health.files /\ health'.todo = health.todo /\ health'.result = "lost"
      BY <1>5 DEF Figures!WriteRaises, UploadInv, HealthFields
    <2> QED
      BY <2>1 DEF UploadInv
  <1>6. CASE Figures!MissingFile
    <2>1. /\ DOMAIN health' = HealthFields /\ health'.stage = "ended"
          /\ health'.files = health.files /\ health'.todo = health.todo /\ health'.result = "failed"
      BY <1>6 DEF Figures!MissingFile, Figures!Fails, UploadInv, HealthFields
    <2> QED
      BY <2>1 DEF UploadInv
  <1>7. CASE Figures!Report
    <2>1. /\ health.stage = "run" /\ DOMAIN health' = HealthFields /\ health'.stage = "ended"
          /\ health'.files = health.files /\ health'.todo = health.todo
          /\ health'.disk = health.disk /\ health'.result = "report"
      BY <1>7 DEF Figures!Report, Figures!AtStage, UploadInv, HealthFields
    <2> QED
      BY <2>1 DEF UploadInv
  <1> QED
    BY <1>2, <1>3, <1>4, <1>5, <1>6, <1>7 DEF Figures!HealthNext

-----------------------------------------------------------------------------
(* What a directory and the registry show is read as their own.              *)

\* A merge invents nothing: a field has a value that an arrival had.
LEMMA NothingInvented ==
  ASSUME NEW idx, NEW arrivals, IndexOK(idx, arrivals), NEW item, DOMAIN item = RowFields,
         NEW keys, IsList(keys), NEW f \in RowFields, NEW V,
         item[f] \in V, \A i \in DOMAIN idx : idx[i].row[f] \in V
  PROVE  \A i \in DOMAIN MergeByKeys(idx, item, keys) : MergeByKeys(idx, item, keys)[i].row[f] \in V
  <1> DEFINE n == Len(idx)
             r == MergeByKeys(idx, item, keys)
  <1>1. n \in Nat /\ DOMAIN idx = 1..n
    BY ListHas DEF IndexOK
  <1>2. CASE keys = <<>>
    <2>1. r = idx
      BY <1>2 DEF MergeByKeys
    <2> QED
      BY <2>1
  <1>3. CASE keys # <<>>
    <2> DEFINE Entry(m) == CHOOSE i \in Hits(idx, keys[m]) : TRUE
               known == {m \in DOMAIN keys : Hits(idx, keys[m]) # {}}
               hits == {Entry(m) : m \in known}
               Knows(g) == {m \in known : ~Blank(idx[Entry(m)].row[g])}
               e == [keys |-> ToSet(keys) \cup UNION {idx[i].keys : i \in hits},
                     row |-> [g \in DOMAIN item |-> IF Knows(g) = {} THEN item[g]
                                                    ELSE idx[Entry(Min(Knows(g)))].row[g]]]
               joint == [idx EXCEPT ![Min(hits)] = e]
               P == DOMAIN idx \ (hits \ {Min(hits)})
    <2>1. r = IF hits = {} THEN Append(idx, e) ELSE Selected(joint, P)
      BY <1>3, Zenon DEF MergeByKeys
    <2>2. \A m \in known : Entry(m) \in DOMAIN idx
      <3>1. \A m \in known : Entry(m) \in Hits(idx, keys[m])
        OBVIOUS
      <3> HIDE DEF Entry, known
      <3> QED
        BY <3>1 DEF Hits
    <2>3. known \subseteq Nat
      BY ListHas
    <2>4. e.row[f] \in V
      <3>1. e.row[f] = IF Knows(f) = {} THEN item[f] ELSE idx[Entry(Min(Knows(f)))].row[f]
        OBVIOUS
      <3> DEFINE K == Knows(f)
      <3>2. K \subseteq known /\ K \subseteq Nat
        BY <2>3
      <3> HIDE DEF e, K
      <3>3. CASE K = {}
        BY <3>1, <3>3 DEF K
      <3>4. CASE K # {}
        <4>1. Min(K) \in K
          BY <3>2, <3>4, LeastOf
        <4> HIDE DEF Entry, known, Knows
        <4>2. Entry(Min(K)) \in DOMAIN idx
          BY <2>2, <3>2, <4>1
        <4>3. e.row[f] = idx[Entry(Min(K))].row[f]
          BY <3>1, <3>4 DEF K
        <4> QED
          BY <4>2, <4>3
      <3> QED
        BY <3>3, <3>4
    <2> HIDE DEF Entry, known, Knows, e, hits
    <2>5. CASE hits = {}
      <3>1. r = Append(idx, e)
        BY <2>1, <2>5
      <3>2. idx \in Seq(ToSet(idx) \cup {e})
        BY SeqMonotonic DEF IndexOK, IsList
      <3>3. /\ r \in Seq(ToSet(idx) \cup {e}) /\ Len(r) = n + 1
            /\ \A m \in 1..n : r[m] = idx[m]
            /\ r[n + 1] = e
        BY <3>1, <3>2, AppendProperties
      <3> HIDE DEF r, n
      <3>4. DOMAIN r = 1..n + 1
        BY <3>3, LenProperties
      <3>5. \A m \in 1..n + 1 : m \in 1..n \/ m = n + 1
        BY <1>1
      <3> QED
        BY <1>1, <2>4, <3>3, <3>4, <3>5 DEF r
    <2>6. CASE hits # {}
      <3>1. r = Selected(joint, P)
        BY <2>1, <2>6
      <3>2. P \in SUBSET (1..n)
        BY <1>1
      <3>3. \A i \in P : joint[i].row[f] \in V
        BY <2>4
      <3> HIDE DEF joint, P, r
      <3>4. IsList(r) /\ \A x \in ToSet(r) : \E i \in P : x = joint[i]
        BY <1>1, <3>1, <3>2, SelectedHas
      <3>5. \A i \in DOMAIN r : r[i] \in ToSet(r)
        BY DEF ToSet
      <3>6. \A x \in ToSet(r) : x.row[f] \in V
        BY <3>3, <3>4
      <3>7. \A i \in DOMAIN r : r[i].row[f] \in V
        BY <3>5, <3>6
      <3> QED
        BY <3>7 DEF r
    <2> QED
      BY <2>5, <2>6
  <1> QED
    BY <1>2, <1>3

\* Nor do the rows that are still to be added have an address of the directory.
GuildInv ==
  /\ \A i \in DOMAIN found : found[i].row.email \notin Own
  /\ \A r \in ToSet(adding) : r.email \notin Own

LEMMA GuildInit == Init => GuildInv
  BY EmptyRows DEF Init, CrawlInit, GuildInv

LEMMA AddIsNoGuild ==
  ASSUME DiscoverInv, GuildInv, NEW row, DOMAIN row = RowFields, row.email \notin Own, Add(row)
  PROVE  \A i \in DOMAIN found' : found'[i].row.email \notin Own
  <1> DEFINE keys == MemberKeys(row)
             V == {row.email} \cup {found[i].row.email : i \in DOMAIN found}
  <1>1. IsList(keys)
    BY GivenIs DEF MemberKeys
  <1>2. found' = MergeByKeys(found, row, keys)
    BY DEF Add, AddBusiness
  <1>3. IndexOK(found, added)
    BY DEF DiscoverInv, CrawlInv
  <1>4. "email" \in RowFields /\ row["email"] \in V /\ \A i \in DOMAIN found : found[i].row["email"] \in V
    BY DEF RowFields
  <1>5. \A v \in V : v \notin Own
    BY DEF GuildInv
  <1> HIDE DEF V, keys
  <1>6. \A i \in DOMAIN MergeByKeys(found, row, keys) : MergeByKeys(found, row, keys)[i].row["email"] \in V
    BY <1>1, <1>3, <1>4, NothingInvented
  <1> QED
    BY <1>2, <1>5, <1>6

LEMMA RecordIsNoGuild ==
  ASSUME NEW d \in DetailPages
  PROVE  MemberRecord(d).email \notin Own
  <1>1. MemberRecord(d).email = BestEmail(d.texts)
    BY DEF MemberRecord, Row
  <1>2. BestEmail(d.texts) \notin Own
    <2> DEFINE mine == MemberEmails(d.texts)
    <2>1. CASE mine = {}
      <3>1. BestEmail(d.texts) = ""
        BY <2>1, Zenon DEF BestEmail
      <3> QED
        BY <3>1, OwnAssumption, Zenon DEF Blank
    <2>2. CASE mine # {}
      <3>1. BestEmail(d.texts) = CHOOSE a \in mine : \A b \in mine : Rank[a] <= Rank[b]
        BY <2>2, Zenon DEF BestEmail
      <3>2. mine \subseteq DOMAIN Rank /\ mine \cap Own = {}
        BY CrawlAssumption DEF MemberEmails
      <3> HIDE DEF mine
      <3> DEFINE ranks == {Rank[a] : a \in mine}
      <3>3. ranks \in SUBSET Nat /\ ranks # {}
        BY <2>2, <3>2, SourcesAssumption
      <3>4. \E a \in mine : \A b \in mine : Rank[a] <= Rank[b]
        <4>1. Min(ranks) \in ranks /\ \A n \in ranks : Min(ranks) <= n
          <5> HIDE DEF ranks
          <5> QED
            BY <3>3, LeastOf
        <4> QED
          BY <4>1
      <3> QED
        BY <3>1, <3>2, <3>4
    <2> QED
      BY <2>1, <2>2
  <1> QED
    BY <1>1, <1>2

LEMMA NextCrawls == [Next]_vars => CallDirectory \/ DirectoryReturns \/ DirectoryRaises \/ UNCHANGED crawlVars
  <1> SUFFICES ASSUME [Next]_vars, ~CallDirectory, ~DirectoryReturns, ~DirectoryRaises
               PROVE  UNCHANGED crawlVars
    OBVIOUS
  <1>1. CASE ValidatePayload
    BY <1>1 DEF ValidatePayload
  <1>2. CASE AskMaps \/ AskRegistry \/ SourceRaises \/ MergeArrival \/ DirectoriesReturn \/ Discovered
             \/ ResolveWebsites
    BY <1>2 DEF AskMaps, AskRegistry, SourceRaises, MergeArrival, DirectoriesReturn, Discovered, ResolveWebsites
  <1>3. CASE NoSite \/ VisitSite \/ MineSocial \/ VisitRaises \/ AppendLead
    BY <1>3 DEF NoSite, VisitSite, MineSocial, Visited, VisitRaises, AppendLead
  <1>4. CASE SortLeads \/ EnrichFromRegistry \/ Qualify
    BY <1>4 DEF SortLeads, EnrichFromRegistry, Qualify
  <1>5. CASE UNCHANGED vars
    BY <1>5 DEF vars
  <1> QED
    BY <1>1, <1>2, <1>3, <1>4, <1>5 DEF Next

\* A member of the page read last, and a record, are added without that address.
LEMMA GuildKeeps ==
  ASSUME DiscoverInv, GuildInv, [Next]_vars
  PROVE  GuildInv'
  <1>1. CASE UNCHANGED <<found, adding>>
    BY <1>1 DEF GuildInv
  <1>2. CASE LeaveDirectory
    <2>1. found' = <<>> /\ adding' = <<>>
      BY <1>2 DEF LeaveDirectory
    <2>2. DOMAIN <<>> = {} /\ ToSet(<<>>) = {}
      BY EmptyRows DEF ToSet
    <2> QED
      BY <2>1, <2>2 DEF GuildInv
  <1>3. CASE ReadListPage
    <2>1. found' = found
      BY <1>3 DEF ReadListPage
    <2>2. CASE UNCHANGED <<adding, details, page>>
      BY <2>1, <2>2 DEF GuildInv
    <2>3. CASE \E p \in ListPages : adding' = MembersFromList(p)
      <3>1. \A r \in ToSet(adding') : r.email = ""
        BY <2>3, MembersAre, Zenon
      <3>2. \A r \in ToSet(adding') : r.email \notin Own
        BY <3>1, OwnAssumption, Zenon DEF Blank
      <3> QED
        BY <2>1, <3>2 DEF GuildInv
    <2> QED
      BY <1>3, <2>2, <2>3 DEF ReadListPage
  <1>4. CASE AddMember
    <2>1. Add(Head(adding)) /\ adding # <<>> /\ adding' = Tail(adding)
      BY <1>4 DEF AddMember
    <2>2. IsList(adding) /\ \A r \in ToSet(adding) : DOMAIN r = RowFields
      BY DEF DiscoverInv, CrawlInv, RowList
    <2>3. Head(adding) \in ToSet(adding) /\ ToSet(Tail(adding)) \subseteq ToSet(adding)
      BY <2>1, <2>2, TailIs
    <2>4. DOMAIN Head(adding) = RowFields /\ Head(adding).email \notin Own
      BY <2>2, <2>3 DEF GuildInv
    <2>5. \A i \in DOMAIN found' : found'[i].row.email \notin Own
      BY <2>1, <2>4, AddIsNoGuild
    <2> QED
      BY <2>1, <2>3, <2>5 DEF GuildInv
  <1>5. CASE ReadRecord
    <2>1. adding' = adding
      BY <1>5 DEF ReadRecord
    <2>2. CASE UNCHANGED <<found, added>>
      BY <2>1, <2>2 DEF GuildInv
    <2>3. CASE \E d \in DetailPages : Add(MemberRecord(d))
      <3>1. PICK d \in DetailPages : Add(MemberRecord(d))
        BY <2>3
      <3>2. DOMAIN MemberRecord(d) = RowFields
        BY RowIs DEF MemberRecord
      <3>3. \A i \in DOMAIN found' : found'[i].row.email \notin Own
        BY <3>1, <3>2, RecordIsNoGuild, AddIsNoGuild
      <3> QED
        BY <2>1, <3>3 DEF GuildInv
    <2> QED
      BY <1>5, <2>2, <2>3 DEF ReadRecord
  <1>6. CASE Refuse \/ Begin \/ SearchTca \/ OpenRecords \/ ReturnMembers
    BY <1>1, <1>6 DEF Refuse, Begin, SearchTca, OpenRecords, ReturnMembers
  <1>7. CASE CallDirectory
    BY <1>3, <1>4, <1>5, <1>6, <1>7 DEF CallDirectory
  <1>8. CASE DirectoryReturns \/ DirectoryRaises
    BY <1>2, <1>8 DEF DirectoryReturns, DirectoryRaises
  <1>9. CASE UNCHANGED crawlVars
    BY <1>1, <1>9 DEF crawlVars
  <1> QED
    BY <1>7, <1>8, <1>9, NextCrawls

-----------------------------------------------------------------------------
(* What is parsed together.                                                  *)

LEMMA OneHas ==
  ASSUME NEW x
  PROVE  DOMAIN <<x>> = {1} /\ <<x>>[1] = x /\ ToSet(<<x>>) = {x}
  <1>1. DOMAIN <<x>> = 1..1 /\ <<x>>[1] = x
    OBVIOUS
  <1>2. DOMAIN <<x>> = {1}
    BY <1>1
  <1> QED
    BY <1>1, <1>2, Zenon DEF ToSet

LEMMA RowsOwn == RowsAreOwn
  <1> DEFINE Named(m) == \E i \in DOMAIN page : page[i].member = m /\ page[i].name # ""
             parsed == LabelBlocks(page)
  <1> SUFFICES ASSUME \A i \in DOMAIN page : Named(page[i].member),
                      NEW i \in DOMAIN parsed, NEW b \in ToSet(parsed[i]), NEW c \in ToSet(parsed[i])
               PROVE  b.member = c.member
    BY Zenon DEF RowsAreOwn
  <1>1. CASE \A x, y \in DOMAIN page : page[x].name # "" /\ page[y].name # "" => x = y
    <2>1. parsed = <<page>>
      BY <1>1, Zenon DEF LabelBlocks
    <2>2. parsed[i] = page
      <3> HIDE DEF parsed
      <3> QED
        BY <2>1, OneHas
    <2>3. PICK x \in DOMAIN page, y \in DOMAIN page : b = page[x] /\ c = page[y]
      BY <2>2 DEF ToSet
    <2>4. PICK m \in DOMAIN page : page[m].member = b.member /\ page[m].name # ""
      BY <2>3, Zenon
    <2>5. PICK n \in DOMAIN page : page[n].member = c.member /\ page[n].name # ""
      BY <2>3, Zenon
    <2>6. m = n
      BY <1>1, <2>4, <2>5, Zenon
    <2> QED
      BY <2>4, <2>5, <2>6, Zenon
  <1>2. CASE ~ \A x, y \in DOMAIN page : page[x].name # "" /\ page[y].name # "" => x = y
    <2>1. parsed = [x \in DOMAIN page |-> <<page[x]>>]
      BY <1>2, Zenon DEF LabelBlocks
    <2>2. parsed[i] = <<page[i]>>
      BY <2>1, Zenon
    <2> HIDE DEF parsed
    <2>3. b = page[i] /\ c = page[i]
      BY <2>2, OneHas
    <2> QED
      BY <2>3
  <1> QED
    BY <1>1, <1>2

-----------------------------------------------------------------------------
(* The registry and the TCA.                                                 *)

LEMMA RowNamed ==
  ASSUME NEW row, NEW name, NEW site, NEW email, NEW from, row = Row(name, site, email, from)
  PROVE  row.name = name
  BY DEF Row

LEMMA ScanTells ==
  ASSUME limit \in Nat \ {0}, NEW registry \in Registries, NEW failing \in 0..2,
         Len(SearchCompanies(registry, failing, limit).rows) < limit,
         ~SearchCompanies(registry, failing, limit).warned,
         NEW r \in ToSet(registry), r.here
  PROVE  \E i \in DOMAIN SearchCompanies(registry, failing, limit).rows :
           SearchCompanies(registry, failing, limit).rows[i].name = r.name
  <1> DEFINE scan == FetchAll(registry, failing, limit)
             kept == Prefix(scan.rows, limit)
             rs == SearchCompanies(registry, failing, limit).rows
             P == {i \in 1..scan.scanned : registry[i].here}
  <1>1. rs = [i \in DOMAIN kept |-> Row(kept[i].name, "", "", "govbiz")]
    BY DEF SearchCompanies
  <1>2. ~scan.lost /\ ~ScanIsCut(scan.rows, scan.scanned, limit)
    BY DEF SearchCompanies
  <1>3. IsList(registry)
    BY LeadAssumption
  <1>4. ScanFits(scan, registry, limit)
    BY <1>3, ScanIs
  <1>5. Len(registry) \in Nat /\ ToSet(registry) = {registry[i] : i \in 1..Len(registry)}
    BY <1>3, ListHas
  <1>6. Len(rs) < limit
    OBVIOUS
  <1> HIDE DEF scan
  <1>7. scan.scanned \in Nat /\ P \in SUBSET (1..scan.scanned) /\ scan.rows = Selected(registry, P)
    BY <1>4, <1>5 DEF ScanFits
  <1> HIDE DEF P
  <1>8. PICK where : SelectsBy(where, scan.rows, registry, P)
    BY <1>7, SelectedIs
  <1>9. IsList(scan.rows) /\ Len(scan.rows) \in Nat /\ DOMAIN scan.rows = 1..Len(scan.rows)
    BY <1>8, ListHas DEF SelectsBy
  <1>10. /\ IsList(kept) /\ Len(kept) = IF Len(scan.rows) < limit THEN Len(scan.rows) ELSE limit
         /\ \A i \in 1..Len(kept) : kept[i] = scan.rows[i]
    BY <1>9, PrefixIs
  <1> HIDE DEF kept, rs
  <1>11. DOMAIN kept = 1..Len(kept) /\ Len(rs) = Len(kept) /\ DOMAIN rs = 1..Len(kept)
    <2>1. Len(kept) \in Nat /\ DOMAIN kept = 1..Len(kept)
      BY <1>10, ListHas
    <2>2. DOMAIN rs = 1..Len(kept) /\ rs = [i \in DOMAIN rs |-> rs[i]]
      BY <1>1, <2>1
    <2>3. Len(rs) = Len(kept)
      BY <2>1, <2>2, ListIs
    <2> QED
      BY <2>1, <2>2, <2>3
  <1>12. Len(scan.rows) < limit /\ Len(kept) = Len(scan.rows)
    BY <1>6, <1>9, <1>10, <1>11
  <1>13. scan.scanned = Len(registry)
    BY <1>2, <1>4, <1>9, <1>12 DEF ScanFits, ScanIsCut
  <1>14. PICK i \in 1..Len(registry) : r = registry[i]
    BY <1>5
  <1>15. i \in P
    BY <1>13, <1>14 DEF P
  <1>16. PICK a \in DOMAIN scan.rows : scan.rows[a] = r
    BY <1>8, <1>14, <1>15 DEF SelectsBy
  <1>17. a \in DOMAIN rs /\ kept[a] = r
    BY <1>9, <1>10, <1>11, <1>12, <1>16
  <1>18. rs[a] = Row(r.name, "", "", "govbiz")
    BY <1>1, <1>11, <1>17, Zenon
  <1>19. rs[a].name = r.name
    BY <1>18, RowNamed, Zenon
  <1> QED
    BY <1>17, <1>19 DEF rs

LEMMA ScanExplained == limit \in Nat \ {0} => ScanIsExplained
  <1> SUFFICES ASSUME limit \in Nat \ {0}, NEW registry \in Registries, NEW failing \in 0..2
               PROVE  LET scan == SearchCompanies(registry, failing, limit)
                          names == {scan.rows[i].name : i \in DOMAIN scan.rows}
                      IN Len(scan.rows) < limit /\ (\E r \in ToSet(registry) : r.here /\ r.name \notin names)
                         => scan.warned
    BY DEF ScanIsExplained
  <1> DEFINE scan == SearchCompanies(registry, failing, limit)
  <1>1. ASSUME Len(scan.rows) < limit, ~scan.warned, NEW r \in ToSet(registry), r.here
        PROVE  \E i \in DOMAIN scan.rows : scan.rows[i].name = r.name
    BY <1>1, ScanTells
  <1> HIDE DEF scan
  <1> QED
    BY <1>1 DEF scan

\* Of full pages as many as are needed have enough members.
LEMMA PagesSuffice ==
  ASSUME limit \in Nat \ {0}, NEW answers \in TcaAnswers, NEW good, NEW cut, TcaRead(good, answers, cut),
         DOMAIN good = 1..PagesNeeded, PagesNeeded < Len(answers)
  PROVE  Len(Distinct(Joined(good))) >= limit
  <1> DEFINE members == Distinct(Joined(good))
             K == PagesNeeded
             D == (1..K) \X (1..TcaRows)
             f == [q \in D |-> good[q[1]][q[2]]]
             M == ToSet(members)
  <1>1. K \in Nat /\ K * TcaRows >= limit /\ TcaRows \in Nat
    BY NeededIs, CrawlAssumption
  <1>2. IsList(answers) /\ IsList(good)
    BY CrawlAssumption DEF TcaRead
  <1>3. DOMAIN answers = 1..Len(answers) /\ Len(answers) \in Nat
    BY <1>2, ListHas
  <1>4. ASSUME NEW i \in 1..K
        PROVE  /\ i \in DOMAIN answers /\ good[i] = answers[i] /\ answers[i] # Dead
               /\ IsList(good[i]) /\ DOMAIN good[i] = 1..TcaRows
    <2>1. i \in DOMAIN good
      OBVIOUS
    <2>2. i \in DOMAIN answers /\ good[i] = answers[i] /\ answers[i] # Dead
      BY <2>1 DEF TcaRead
    <2>3. answers[i] \in ToSet(answers) \ {Dead}
      BY <2>2 DEF ToSet
    <2>4. IsList(good[i])
      BY <2>2, <2>3, CrawlAssumption
    <2>5. K + 1 \in DOMAIN answers /\ i < K + 1
      BY <1>1, <1>3
    <2>6. Len(good[i]) = TcaRows
      BY <2>2, <2>5, TcaAssumption
    <2> QED
      BY <2>2, <2>4, <2>6, ListHas
  <1>5. \A i \in DOMAIN good : IsList(good[i])
    BY <1>4
  <1>6. IsList(Joined(good)) /\ \A p \in DOMAIN good : \A i \in DOMAIN good[p] : good[p][i] \in ToSet(Joined(good))
    BY <1>2, <1>5, JoinedIs
  <1>7. IsList(members) /\ ToSet(Joined(good)) \subseteq M
    BY <1>6, DistinctIs
  <1> HIDE DEF members
  <1>8. f \in Injection(D, M)
    <2>1. \A q \in D : f[q] \in M
      <3> SUFFICES ASSUME NEW q \in D PROVE f[q] \in M
        OBVIOUS
      <3>1. q[1] \in 1..K /\ q[2] \in 1..TcaRows /\ f[q] = good[q[1]][q[2]]
        OBVIOUS
      <3> HIDE DEF f, K, D, M
      <3>2. q[1] \in DOMAIN good /\ q[2] \in DOMAIN good[q[1]]
        BY <1>4, <3>1 DEF K
      <3> QED
        BY <1>6, <1>7, <3>1, <3>2
    <2>2. \A q, r \in D : f[q] = f[r] => q = r
      <3> SUFFICES ASSUME NEW q \in D, NEW r \in D, f[q] = f[r] PROVE q = r
        OBVIOUS
      <3>1. /\ q[1] \in 1..K /\ q[2] \in 1..TcaRows /\ f[q] = good[q[1]][q[2]] /\ q = <<q[1], q[2]>>
            /\ r[1] \in 1..K /\ r[2] \in 1..TcaRows /\ f[r] = good[r[1]][r[2]] /\ r = <<r[1], r[2]>>
        OBVIOUS
      <3> HIDE DEF f, K, D, M
      <3>2. /\ q[1] \in DOMAIN answers /\ answers[q[1]] # Dead /\ q[2] \in DOMAIN answers[q[1]]
            /\ r[1] \in DOMAIN answers /\ answers[r[1]] # Dead /\ r[2] \in DOMAIN answers[r[1]]
            /\ answers[q[1]][q[2]] = answers[r[1]][r[2]]
        BY <1>4, <3>1
      <3>3. q[1] = r[1] /\ q[2] = r[2]
        BY <3>2, TcaAssumption
      <3> QED
        BY <3>1, <3>3
    <2>3. f \in [D -> M]
      BY <2>1
    <2> HIDE DEF f, D, M
    <2> QED
      BY <2>2, <2>3, Zenon DEF Injection, IsInjective
  <1>9. IsFiniteSet(M) /\ Cardinality(M) \in Nat /\ Cardinality(M) <= Len(members)
    <2> DEFINE n == Len(members)
               g == [i \in 1..n |-> members[i]]
    <2>1. n \in Nat /\ M = {members[i] : i \in 1..n}
      BY <1>7, ListHas
    <2>2. g \in Surjection(1..n, M)
      <3>1. g \in [1..n -> M] /\ \A x \in M : \E i \in 1..n : g[i] = x
        BY <2>1
      <3> HIDE DEF g, n, M
      <3> QED
        BY <3>1 DEF Surjection
    <2>3. IsFiniteSet(1..n) /\ Cardinality(1..n) = n
      <3> HIDE DEF n
      <3> QED
        BY <2>1, FS_Interval
    <2> HIDE DEF g, n, M
    <2>4. IsFiniteSet(M) /\ Cardinality(M) <= n
      BY <2>2, <2>3, FS_Surjection
    <2> QED
      BY <2>4, FS_CardinalityType DEF n
  <1>10. Cardinality(D) = K * TcaRows
    <2>1. /\ IsFiniteSet(1..K) /\ Cardinality(1..K) = K
          /\ IsFiniteSet(1..TcaRows) /\ Cardinality(1..TcaRows) = TcaRows
      <3> HIDE DEF K
      <3> QED
        BY <1>1, FS_Interval
    <2> HIDE DEF K
    <2> QED
      BY <2>1, FS_Product
  <1> HIDE DEF f, M, K, D
  <1>11. Cardinality(D) <= Cardinality(M)
    BY <1>8, <1>9, FS_Injection
  <1>12. Len(members) \in Nat /\ K * TcaRows \in Nat
    BY <1>1, <1>7, ListHas
  <1>13. Len(members) >= limit
    BY <1>1, <1>9, <1>10, <1>11, <1>12
  <1> QED
    BY <1>13 DEF members

\* Fewer rows than asked for are all the TCA has, if no page failed and no record was
\* left out.
LEMMA TcaTells ==
  ASSUME limit \in Nat \ {0}, NEW answers \in TcaAnswers, NEW good, NEW cut, TcaRead(good, answers, cut),
         ~cut, Len(Distinct(Joined(good))) < limit,
         NEW p \in ToSet(answers) \ {Dead}, NEW m \in ToSet(p)
  PROVE  m \in ToSet(Distinct(Joined(good)))
  <1>1. PICK k \in Nat :
          /\ IsList(good) /\ DOMAIN good = 1..k
          /\ \A i \in 1..k : i \in DOMAIN answers /\ good[i] = answers[i] /\ answers[i] # Dead
          /\ ~cut => \/ k = Len(answers) \/ k = PagesNeeded
                     \/ k + 1 \in DOMAIN answers /\ answers[k + 1] = <<>>
    BY DEF TcaRead
  <1>2. IsList(answers) /\ IsList(p)
    BY CrawlAssumption
  <1>3. DOMAIN answers = 1..Len(answers) /\ Len(answers) \in Nat
    BY <1>2, ListHas
  <1>4. PICK x \in DOMAIN answers : answers[x] = p
    BY DEF ToSet
  <1>5. PICK y \in DOMAIN p : p[y] = m
    BY DEF ToSet
  <1>6. x \in 1..k
    <2>1. k <= Len(answers)
      <3>1. k # 0 => k \in DOMAIN answers
        BY <1>1
      <3> QED
        BY <1>3, <3>1
    <2>2. CASE k = Len(answers)
      BY <1>3, <2>2
    <2>3. CASE k = PagesNeeded /\ k < Len(answers)
      <3>1. Len(Distinct(Joined(good))) >= limit
        BY <1>1, <2>3, PagesSuffice
      <3>2. Len(Distinct(Joined(good))) \in Nat
        BY TcaRowsAre, ListHas
      <3> QED
        BY <3>1, <3>2
    <2>4. CASE k + 1 \in DOMAIN answers /\ answers[k + 1] = <<>>
      <3> SUFFICES ASSUME x \notin 1..k PROVE FALSE
        OBVIOUS
      <3>1. x = k + 1 \/ k + 1 < x
        BY <1>3, <1>4
      <3>2. y \in 1..Len(p) /\ Len(p) \in Nat
        BY <1>2, <1>5, ListHas
      <3>3. CASE x = k + 1
        <4>1. Len(p) = 0
          BY <1>2, <1>4, <2>4, <3>3, ListHas
        <4> QED
          BY <3>2, <4>1
      <3>4. CASE k + 1 < x
        <4>1. answers[k + 1] # Dead => Len(answers[k + 1]) = TcaRows
          BY <1>4, <2>4, <3>4, TcaAssumption
        <4>2. Len(<<>>) = 0
          BY EmptyRows
        <4>3. answers[k + 1] # Dead
          BY <2>4, TcaAssumption
        <4> QED
          BY <2>4, <4>1, <4>2, <4>3, CrawlAssumption
      <3> QED
        BY <3>1, <3>3, <3>4
    <2>5. k = Len(answers) \/ k = PagesNeeded \/ (k + 1 \in DOMAIN answers /\ answers[k + 1] = <<>>)
      BY <1>1, Zenon
    <2>6. k = Len(answers) \/ k < Len(answers)
      <3> DEFINE n == Len(answers)
      <3>1. n \in Nat /\ k <= n
        BY <1>3, <2>1
      <3> HIDE DEF n
      <3>2. k = n \/ k < n
        BY <3>1
      <3> QED
        BY <3>2 DEF n
    <2> QED
      BY <2>2, <2>3, <2>4, <2>5, <2>6
  <1>7. good[x] = p /\ x \in DOMAIN good
    BY <1>1, <1>4, <1>6
  <1>8. \A i \in DOMAIN good : IsList(good[i])
    <2>1. \A i \in DOMAIN good : good[i] \in ToSet(answers) \ {Dead}
      BY <1>1 DEF ToSet
    <2> QED
      BY <2>1, CrawlAssumption
  <1>9. m \in ToSet(Joined(good)) /\ IsList(Joined(good))
    BY <1>1, <1>5, <1>7, <1>8, JoinedIs
  <1> QED
    BY <1>9, DistinctIs

LEMMA ShortStep ==
  ASSUME limit \in Nat \ {0}, SearchTca
  PROVE  ShortIsExplained'
  <1>1. PICK answers \in TcaAnswers :
          LET pages == Prefix(answers, (limit + TcaRows - 1) \div TcaRows)
              last == SelectInSeq(pages, LAMBDA p : p = Dead \/ p = <<>>)
              good == IF last = 0 THEN pages ELSE SubSeq(pages, 1, last - 1)
              members == Distinct(Joined(good))
              take == Take(members)
          IN /\ \E opens \in SUBSET ToSet(Prefix(members, take)) :
                  rows' = [i \in 1..take |-> TcaMember(members[i], opens)]
             /\ short' = ((last # 0 /\ pages[last] = Dead) \/ take < UpToLimit(members))
             /\ missed' = (take < limit /\ \E p \in ToSet(answers) \ {Dead} :
                             \E m \in ToSet(p) : \A i \in DOMAIN rows' : rows'[i].name # m.name)
    BY DEF SearchTca
  <1> DEFINE pages == Prefix(answers, (limit + TcaRows - 1) \div TcaRows)
             last == SelectInSeq(pages, LAMBDA p : p = Dead \/ p = <<>>)
             good == IF last = 0 THEN pages ELSE SubSeq(pages, 1, last - 1)
             members == Distinct(Joined(good))
             take == Take(members)
             cut == last # 0 /\ pages[last] = Dead
  <1>2. TcaRead(good, answers, cut)
    BY TcaPagesAre
  <1>3. short' <=> cut \/ take < UpToLimit(members)
    BY <1>1, Zenon
  <1>4. PICK opens : rows' = [i \in 1..take |-> TcaMember(members[i], opens)]
    BY <1>1
  <1>5. missed' => take < limit /\ \E p \in ToSet(answers) \ {Dead} :
                     \E m \in ToSet(p) : \A i \in DOMAIN rows' : rows'[i].name # m.name
    BY <1>1, Zenon
  <1> HIDE DEF good, cut
  <1>6. IsList(members)
    BY <1>2, TcaRowsAre
  <1> SUFFICES ASSUME missed', ~short' PROVE FALSE
    BY DEF ShortIsExplained
  <1>7. ~cut /\ ~(take < UpToLimit(members))
    BY <1>3
  <1>8. take < limit
    BY <1>5
  <1>a. PICK p \in ToSet(answers) \ {Dead} : \E m \in ToSet(p) : \A i \in DOMAIN rows' : rows'[i].name # m.name
    BY <1>5
  <1>9. PICK m \in ToSet(p) : \A i \in DOMAIN rows' : rows'[i].name # m.name
    BY <1>a
  <1>10. Len(members) < limit /\ take = Len(members)
    <2> HIDE DEF members
    <2> DEFINE q == Prefix(members, limit)
    <2>1. /\ Len(members) \in Nat /\ IsList(q)
          /\ Len(q) = IF Len(members) < limit THEN Len(members) ELSE limit
      BY <1>6, PrefixIs, ListHas
    <2>2. UpToLimit(members) = Len(q) /\ take = Len(Prefix(q, MaxDetails))
      BY DEF UpToLimit, Take
    <2> HIDE DEF q, take
    <2>3. MaxDetails \in Nat /\ Len(q) \in Nat
      BY <2>1, CrawlAssumption
    <2>4. Len(Prefix(q, MaxDetails)) = IF Len(q) < MaxDetails THEN Len(q) ELSE MaxDetails
      BY <2>1, <2>3, PrefixIs
    <2> QED
      BY <1>7, <1>8, <2>1, <2>2, <2>3, <2>4
  <1>11. m \in ToSet(members)
    BY <1>2, <1>7, <1>9, <1>10, TcaTells
  <1> HIDE DEF members, take
  <1>12. PICK i \in 1..take : members[i] = m
    BY <1>6, <1>10, <1>11, ListHas
  <1>13. rows'[i] = TcaMember(m, opens) /\ i \in DOMAIN rows'
    BY <1>4, <1>12
  <1>14. rows'[i].name = m.name
    BY <1>13, RowNamed DEF TcaMember
  <1> QED
    BY <1>9, <1>13, <1>14

LEMMA ShortKeeps ==
  ASSUME DiscoverInv, ShortIsExplained, [Next]_vars
  PROVE  ShortIsExplained'
  <1>1. CASE UNCHANGED <<short, missed>>
    BY <1>1 DEF ShortIsExplained
  <1>2. CASE LeaveDirectory
    BY <1>2 DEF LeaveDirectory, ShortIsExplained
  <1>3. CASE SearchTca
    BY <1>3, ShortStep DEF DiscoverInv, CrawlInv
  <1>4. CASE Refuse \/ Begin \/ ReadListPage \/ AddMember \/ OpenRecords \/ ReadRecord \/ ReturnMembers
    BY <1>1, <1>4 DEF Refuse, Begin, ReadListPage, AddMember, OpenRecords, ReadRecord, ReturnMembers
  <1>5. CASE CallDirectory
    BY <1>3, <1>4, <1>5 DEF CallDirectory
  <1>6. CASE DirectoryReturns \/ DirectoryRaises
    BY <1>2, <1>6 DEF DirectoryReturns, DirectoryRaises
  <1>7. CASE UNCHANGED crawlVars
    BY <1>1, <1>7 DEF crawlVars
  <1> QED
    BY <1>5, <1>6, <1>7, NextCrawls

-----------------------------------------------------------------------------
(* Every site that a row names is described.                                 *)

SiteKnown(site) == Blank(site) \/ site \in DOMAIN Static
KnownRows(s) == \A r \in ToSet(s) : SiteKnown(r.site)

LEMMA NoSiteIsKnown == SiteKnown("")
  BY Zenon DEF SiteKnown, Blank

LEMMA NoRowsKnown == KnownRows(<<>>)
  BY EmptyRows DEF KnownRows

LEMMA DescribedIs ==
  ASSUME NEW sites, Described(sites), NEW s \in sites
  PROVE  SiteKnown(s)
  BY DEF Described, SiteKnown

LEMMA RowSite ==
  ASSUME NEW row, NEW name, NEW site, NEW email, NEW from, row = Row(name, site, email, from)
  PROVE  row.site = site
  BY DEF Row

\* The rows of a list page.
LEMMA FieldsKnown ==
  ASSUME NEW p \in ListPages, NEW i \in DOMAIN LabelBlocks(p.blocks)
  PROVE  SiteKnown(LabelledFields(LabelBlocks(p.blocks)[i]).site)
  <1> DEFINE bs == LabelBlocks(p.blocks)[i]
             H == {x \in DOMAIN bs : ~Blank(bs[x]["site"])}
  <1>1. IsList(p.blocks)
    BY CrawlAssumption
  <1>2. bs = p.blocks \/ \E x \in DOMAIN p.blocks : bs = <<p.blocks[x]>>
    <2>1. LabelBlocks(p.blocks) = <<p.blocks>> \/ LabelBlocks(p.blocks) = [x \in DOMAIN p.blocks |-> <<p.blocks[x]>>]
      BY Zenon DEF LabelBlocks
    <2>2. CASE LabelBlocks(p.blocks) = <<p.blocks>>
      BY <2>2, OneHas
    <2>3. CASE LabelBlocks(p.blocks) = [x \in DOMAIN p.blocks |-> <<p.blocks[x]>>]
      BY <2>3
    <2> QED
      BY <2>1, <2>2, <2>3
  <1>3. IsList(bs) /\ ToSet(bs) \subseteq ToSet(p.blocks)
    <2>1. CASE bs = p.blocks
      BY <1>1, <2>1
    <2>2. CASE \E x \in DOMAIN p.blocks : bs = <<p.blocks[x]>>
      <3>1. PICK x \in DOMAIN p.blocks : bs = <<p.blocks[x]>>
        BY <2>2
      <3>2. IsList(bs)
        <4>1. \A y : IsList(<<y>>)
          BY OneHas DEF IsList
        <4> QED
          BY <3>1, <4>1
      <3> QED
        BY <3>1, <3>2, OneHas DEF ToSet
    <2> QED
      BY <1>2, <2>1, <2>2
  <1>4. LabelledFields(bs).site = IF H = {} THEN "" ELSE bs[Min(H)]["site"]
    BY Zenon DEF LabelledFields
  <1> HIDE DEF bs
  <1>5. H \in SUBSET Nat /\ H \subseteq DOMAIN bs
    BY <1>3, ListHas
  <1> HIDE DEF H
  <1>6. CASE H = {}
    <2>1. LabelledFields(bs).site = ""
      BY <1>4, <1>6, Zenon
    <2> QED
      BY <2>1, NoSiteIsKnown, Zenon DEF bs
  <1>7. CASE H # {}
    <2>1. Min(H) \in DOMAIN bs
      BY <1>5, <1>7, LeastOf
    <2>2. LabelledFields(bs).site = bs[Min(H)].site
      BY <1>4, <1>7, Zenon
    <2>3. bs[Min(H)] \in ToSet(p.blocks)
      BY <1>3, <2>1 DEF ToSet
    <2> DEFINE sites == {x.site : x \in ToSet(p.links) \cup ToSet(p.blocks)}
    <2>4. Described(sites) /\ bs[Min(H)].site \in sites
      BY <2>3, WebAssumption
    <2> HIDE DEF sites
    <2>5. SiteKnown(bs[Min(H)].site)
      BY <2>4, DescribedIs
    <2> QED
      BY <2>2, <2>5 DEF bs
  <1> QED
    BY <1>6, <1>7

LEMMA MembersKnown ==
  ASSUME NEW p \in ListPages
  PROVE  KnownRows(MembersFromList(p))
  <1> DEFINE parsed == LabelBlocks(p.blocks)
             fields == [i \in DOMAIN parsed |-> LabelledFields(parsed[i])]
             P == {i \in DOMAIN fields : fields[i].name # ""}
             named == Selected(fields, P)
             a == [i \in DOMAIN p.links |-> Row(p.links[i].name, p.links[i].site, "", "association")]
             b == [i \in DOMAIN named |-> Row(named[i].name, named[i].site, "", "association")]
  <1>1. MembersFromList(p) = a \o b
    BY Zenon DEF MembersFromList
  <1>2. IsList(a) /\ IsList(b)
        /\ \A x \in ToSet(named) : \E i \in P : x = fields[i]
    BY ListPageParts
  <1>3. ASSUME NEW r \in ToSet(a) PROVE SiteKnown(r.site)
    <2>1. PICK i \in DOMAIN a : r = a[i]
      BY DEF ToSet
    <2>2. r = Row(p.links[i].name, p.links[i].site, "", "association") /\ i \in DOMAIN p.links
      BY <2>1, Zenon
    <2>3. r.site = p.links[i].site
      BY <2>2, RowSite, Zenon
    <2> DEFINE sites == {x.site : x \in ToSet(p.links) \cup ToSet(p.blocks)}
    <2>4. Described(sites) /\ p.links[i].site \in sites
      <3>1. p.links[i] \in ToSet(p.links)
        BY <2>2, Zenon DEF ToSet
      <3> QED
        BY <3>1, WebAssumption
    <2> HIDE DEF sites
    <2> QED
      BY <2>3, <2>4, DescribedIs
  <1>4. ASSUME NEW r \in ToSet(b) PROVE SiteKnown(r.site)
    <2>1. PICK i \in DOMAIN b : r = b[i]
      BY Zenon DEF ToSet
    <2>2. r = Row(named[i].name, named[i].site, "", "association") /\ i \in DOMAIN named
      BY <2>1, Zenon
    <2>3. r.site = named[i].site
      BY <2>2, RowSite, Zenon
    <2>4. named[i] \in ToSet(named)
      BY <2>2, Zenon DEF ToSet
    <2>5. PICK j \in P : named[i] = fields[j]
      BY <1>2, <2>4, Zenon
    <2>6. named[i] = LabelledFields(LabelBlocks(p.blocks)[j]) /\ j \in DOMAIN LabelBlocks(p.blocks)
      BY <2>5, Zenon
    <2>7. SiteKnown(LabelledFields(LabelBlocks(p.blocks)[j]).site)
      BY <2>6, FieldsKnown
    <2> QED
      BY <2>3, <2>6, <2>7, Zenon
  <1> HIDE DEF a, b, named, P, fields, parsed
  <1>5. ToSet(a \o b) = ToSet(a) \cup ToSet(b)
    BY <1>2, JoinIs
  <1> QED
    BY <1>1, <1>3, <1>4, <1>5 DEF KnownRows

LEMMA RecordKnown ==
  ASSUME NEW d \in DetailPages
  PROVE  SiteKnown(MemberRecord(d).site)
  <1> DEFINE site == IF d.site # "" THEN d.site ELSE IF Len(d.outs) = 1 THEN d.outs[1] ELSE ""
             sites == {d.site} \cup ToSet(d.outs)
  <1>1. MemberRecord(d) = Row(d.name, site, BestEmail(d.texts), "association")
    BY Zenon DEF MemberRecord
  <1>2. Described(sites) /\ IsList(d.outs)
    BY WebAssumption, CrawlAssumption
  <1>3. site = "" \/ site \in sites
    <2>1. CASE d.site # ""
      BY <2>1, Zenon
    <2>2. CASE d.site = "" /\ Len(d.outs) = 1
      <3>1. ToSet(d.outs) = {d.outs[i] : i \in 1..Len(d.outs)}
        BY <1>2, ListHas
      <3>2. 1 \in 1..1
        OBVIOUS
      <3>3. d.outs[1] \in ToSet(d.outs)
        BY <2>2, <3>1, <3>2, Zenon
      <3> QED
        BY <2>2, <3>3, Zenon
    <2>3. CASE d.site = "" /\ Len(d.outs) # 1
      BY <2>3, Zenon
    <2> QED
      BY <2>1, <2>2, <2>3, Zenon
  <1> HIDE DEF site, sites
  <1>4. SiteKnown(site)
    <2>1. CASE site = ""
      BY <2>1, NoSiteIsKnown, Zenon
    <2>2. CASE site \in sites
      BY <1>2, <2>2, DescribedIs
    <2> QED
      BY <1>3, <2>1, <2>2
  <1> QED
    BY <1>1, <1>4, RowSite

SitesKnown(idx) == \A i \in DOMAIN idx : SiteKnown(idx[i].row.site)

LEMMA MergeKnown ==
  ASSUME NEW idx, NEW arrivals, IndexOK(idx, arrivals), NEW item, DOMAIN item = RowFields,
         NEW keys, IsList(keys), SiteKnown(item.site), SitesKnown(idx)
  PROVE  SitesKnown(MergeByKeys(idx, item, keys))
  <1> DEFINE V == {item.site} \cup {idx[i].row.site : i \in DOMAIN idx}
             merge == MergeByKeys(idx, item, keys)
  <1>1. "site" \in RowFields /\ item["site"] \in V /\ \A i \in DOMAIN idx : idx[i].row["site"] \in V
    BY DEF RowFields
  <1>2. \A v \in V : SiteKnown(v)
    BY DEF SitesKnown
  <1> HIDE DEF V
  <1>3. \A i \in DOMAIN merge : merge[i].row["site"] \in V
    BY <1>1, NothingInvented
  <1> QED
    BY <1>2, <1>3 DEF SitesKnown

LEMMA RecordsKnown ==
  ASSUME NEW idx, SitesKnown(idx)
  PROVE  KnownRows(UniqueRecords(idx))
  BY DEF SitesKnown, KnownRows, UniqueRecords, ToSet

LEMMA KeywordKnown ==
  ASSUME NEW s, RowList(s), KnownRows(s), NEW keyword
  PROVE  KnownRows(ByKeyword(s, keyword))
  <1> DEFINE P == {i \in DOMAIN s : s[i].name \in keyword}
             matched == Selected(s, P)
  <1>1. Len(s) \in Nat /\ DOMAIN s = 1..Len(s)
    BY ListHas DEF RowList
  <1>2. P \in SUBSET (1..Len(s)) /\ \A i \in P : s[i] \in ToSet(s)
    BY <1>1 DEF ToSet
  <1>3. ByKeyword(s, keyword) = matched \/ ByKeyword(s, keyword) = s
    BY DEF ByKeyword
  <1> HIDE DEF P
  <1>4. \A x \in ToSet(matched) : \E i \in P : x = s[i]
    BY <1>1, <1>2, SelectedHas
  <1> HIDE DEF matched
  <1> QED
    BY <1>2, <1>3, <1>4 DEF KnownRows

LEMMA PrefixKnown ==
  ASSUME NEW s, IsList(s), KnownRows(s), NEW n \in Nat
  PROVE  KnownRows(Prefix(s, n))
  BY PrefixHas DEF KnownRows

LEMMA InterleaveHas ==
  ASSUME NEW list, IsList(list)
  PROVE  IsList(InterleaveBySource(list)) /\ ToSet(InterleaveBySource(list)) \subseteq ToSet(list)
  <1> DEFINE n == Len(list)
             D == DOMAIN list
             R == TurnOrder(list)
             o == Ordered(D, R)
             all == InterleaveBySource(list)
  <1>1. n \in Nat /\ D = 1..n /\ Cardinality(D) = n /\ IsFiniteSet(D)
    BY ListHas
  <1>2. InOrderOf(o, D, R)
    <2>1. TotalOn(D, R)
      BY TurnsAreTotal
    <2> HIDE DEF D, R
    <2> QED
      BY <1>1, <2>1, OrderIs
  <1>3. all = [i \in D |-> list[o[i]]]
    BY Zenon DEF InterleaveBySource, TurnOrder, Turn, Bucket
  <1> HIDE DEF R, o, all, n
  <1>4. \A i \in D : o[i] \in D
    BY <1>1, <1>2 DEF InOrderOf
  <1>5. IsList(all)
    <2> HIDE DEF D
    <2> QED
      BY <1>1, <1>3, ListIs
  <1>6. \A i \in DOMAIN all : all[i] \in ToSet(list)
    BY <1>3, <1>4 DEF ToSet
  <1>7. ToSet(all) \subseteq ToSet(list)
    <2>1. \A x \in ToSet(all) : \E i \in DOMAIN all : x = all[i]
      BY DEF ToSet
    <2> QED
      BY <1>6, <2>1
  <1> QED
    BY <1>5, <1>7 DEF all

LEMMA MapsKnown ==
  ASSUME NEW feed, IsList(feed), \A shown \in ToSet(feed) : IsList(shown), NEW lim \in Nat,
         NEW opens \in SUBSET DOMAIN Place
  PROVE  KnownRows(SearchMaps(feed, Place, opens, lim))
  <1> DEFINE links == Prefix(CollectPlaces(feed, lim), lim)
             P == {i \in DOMAIN links : links[i] \in opens /\ Place[links[i]].name # ""}
             read == Selected(links, P)
             r == SearchMaps(feed, Place, opens, lim)
  <1>1. IsList(links)
    <2>1. IsList(CollectPlaces(feed, lim))
      BY PlacesAre
    <2> QED
      BY <2>1, PrefixIs
  <1>2. r = [i \in DOMAIN read |-> Row(Place[read[i]].name, Place[read[i]].site, "", "maps")]
    BY Zenon DEF SearchMaps
  <1> HIDE DEF links, r
  <1>3. Len(links) \in Nat /\ P \in SUBSET (1..Len(links)) /\ \A i \in P : links[i] \in DOMAIN Place
    BY <1>1, ListHas
  <1> HIDE DEF P
  <1>4. \A x \in ToSet(read) : \E i \in P : x = links[i]
    BY <1>3, SelectedHas
  <1> HIDE DEF read
  <1>5. \A i \in DOMAIN read : read[i] \in DOMAIN Place
    BY <1>3, <1>4 DEF ToSet
  <1>6. ASSUME NEW i \in DOMAIN r PROVE SiteKnown(r[i].site)
    <2>1. r[i] = Row(Place[read[i]].name, Place[read[i]].site, "", "maps") /\ i \in DOMAIN read
      BY <1>2, Zenon
    <2>2. r[i].site = Place[read[i]].site
      <3> DEFINE none == ""
                 from == "maps"
      <3>1. r[i] = Row(Place[read[i]].name, Place[read[i]].site, none, from)
        BY <2>1, Zenon
      <3> HIDE DEF none, from
      <3> QED
        BY <3>1, RowSite
    <2> DEFINE sites == {Place[l].site : l \in DOMAIN Place}
    <2>3. Described(sites) /\ Place[read[i]].site \in sites
      BY <1>5, <2>1, WebAssumption
    <2> HIDE DEF sites
    <2> QED
      BY <2>2, <2>3, DescribedIs
  <1> QED
    BY <1>6 DEF KnownRows, ToSet, r

LEMMA CompaniesKnown ==
  ASSUME NEW registry, NEW failing, NEW lim
  PROVE  KnownRows(SearchCompanies(registry, failing, lim).rows)
  <1> DEFINE kept == Prefix(FetchAll(registry, failing, lim).rows, lim)
             r == SearchCompanies(registry, failing, lim).rows
  <1>1. r = [i \in DOMAIN kept |-> Row(kept[i].name, "", "", "govbiz")]
    BY Zenon DEF SearchCompanies
  <1> HIDE DEF kept, r
  <1>2. ASSUME NEW i \in DOMAIN r PROVE SiteKnown(r[i].site)
    <2>1. r[i] = Row(kept[i].name, "", "", "govbiz")
      BY <1>1, Zenon
    <2>2. r[i].site = ""
      <3> DEFINE none == ""
                 from == "govbiz"
      <3>1. r[i] = Row(kept[i].name, none, none, from)
        BY <2>1, Zenon
      <3> HIDE DEF none, from
      <3>2. r[i].site = none
        BY <3>1, RowSite
      <3> QED
        BY <3>2 DEF none
    <2> QED
      BY <2>2, NoSiteIsKnown, Zenon
  <1> QED
    BY <1>2 DEF KnownRows, ToSet, r

\* Members of the TCA are those its pages have.
LEMMA TcaKnown ==
  ASSUME limit \in Nat \ {0}, SearchTca
  PROVE  KnownRows(rows')
  <1>1. PICK answers \in TcaAnswers :
          LET pages == Prefix(answers, (limit + TcaRows - 1) \div TcaRows)
              last == SelectInSeq(pages, LAMBDA p : p = Dead \/ p = <<>>)
              good == IF last = 0 THEN pages ELSE SubSeq(pages, 1, last - 1)
              members == Distinct(Joined(good))
              take == Take(members)
          IN \E opens : rows' = [i \in 1..take |-> TcaMember(members[i], opens)]
    BY DEF SearchTca
  <1> DEFINE pages == Prefix(answers, (limit + TcaRows - 1) \div TcaRows)
             last == SelectInSeq(pages, LAMBDA p : p = Dead \/ p = <<>>)
             good == IF last = 0 THEN pages ELSE SubSeq(pages, 1, last - 1)
             members == Distinct(Joined(good))
             take == Take(members)
             cut == last # 0 /\ pages[last] = Dead
  <1>2. PICK opens : rows' = [i \in 1..take |-> TcaMember(members[i], opens)]
    BY <1>1
  <1>3. TcaRead(good, answers, cut)
    BY TcaPagesAre
  <1> HIDE DEF good, cut
  <1>4. IsList(Joined(good)) /\ IsList(members)
    BY <1>3, TcaRowsAre
  <1>5. /\ IsList(good)
        /\ \A i \in DOMAIN good : good[i] \in ToSet(answers) \ {Dead} /\ IsList(good[i])
    <2>1. IsList(good) /\ \A i \in DOMAIN good : i \in DOMAIN answers /\ good[i] = answers[i] /\ good[i] # Dead
      BY <1>3 DEF TcaRead
    <2>2. \A i \in DOMAIN good : good[i] \in ToSet(answers) \ {Dead}
      BY <2>1 DEF ToSet
    <2> QED
      BY <2>1, <2>2, CrawlAssumption
  <1>6. \A m \in ToSet(members) : \E i \in DOMAIN good : m \in ToSet(good[i])
    <2>1. ToSet(members) = ToSet(Joined(good))
      BY <1>4, DistinctIs
    <2> HIDE DEF members
    <2> QED
      BY <1>5, <2>1, JoinedIs
  <1> HIDE DEF members
  <1>7. \A m \in ToSet(members) : SiteKnown(m.site)
    <2> SUFFICES ASSUME NEW m \in ToSet(members) PROVE SiteKnown(m.site)
      OBVIOUS
    <2>1. PICK i \in DOMAIN good : m \in ToSet(good[i])
      BY <1>6
    <2> DEFINE sites == {x.site : x \in ToSet(good[i])}
    <2>2. Described(sites) /\ m.site \in sites
      BY <1>5, <2>1, WebAssumption
    <2> HIDE DEF sites
    <2> QED
      BY <2>2, DescribedIs
  <1>8. take \in Nat /\ \A i \in 1..take : members[i] \in ToSet(members)
    <2> DEFINE p == Prefix(members, limit)
    <2>1. Len(members) \in Nat /\ ToSet(members) = {members[i] : i \in 1..Len(members)}
      BY <1>4, ListHas
    <2>2. IsList(p) /\ Len(p) \in Nat /\ Len(p) <= Len(members)
      BY <1>4, <2>1, PrefixIs
    <2>3. MaxDetails \in Nat
      BY CrawlAssumption
    <2> HIDE DEF p
    <2>4. Len(Prefix(p, MaxDetails)) \in Nat /\ Len(Prefix(p, MaxDetails)) <= Len(p)
      BY <2>2, <2>3, PrefixIs
    <2>5. take = Len(Prefix(p, MaxDetails))
      BY DEF Take, p
    <2> HIDE DEF take
    <2>6. take \in Nat /\ take <= Len(members)
      BY <2>1, <2>2, <2>4, <2>5
    <2>7. \A i \in 1..take : i \in 1..Len(members)
      BY <2>1, <2>6
    <2> QED
      BY <2>1, <2>6, <2>7
  <1> HIDE DEF take
  <1>9. ASSUME NEW i \in 1..take PROVE SiteKnown(rows'[i].site)
    <2> DEFINE site == IF members[i] \in opens THEN members[i].site ELSE ""
    <2>1. rows'[i] = Row(members[i].name, site, "", "association")
      BY <1>2, Zenon DEF TcaMember
    <2>2. site = "" \/ site = members[i].site
      BY Zenon
    <2> HIDE DEF site
    <2>3. SiteKnown(site)
      BY <1>7, <1>8, <2>2, NoSiteIsKnown, Zenon
    <2> DEFINE none == ""
               from == "association"
    <2>4. rows'[i] = Row(members[i].name, site, none, from)
      BY <2>1, Zenon
    <2> HIDE DEF none, from
    <2> QED
      BY <2>3, <2>4, RowSite
  <1>10. DOMAIN rows' = 1..take
    BY <1>2
  <1> QED
    BY <1>9, <1>10 DEF KnownRows, ToSet

LEMMA ResolveKnown ==
  ASSUME NEW name, NEW answer \in Answers
  PROVE  SiteKnown(ResolveOne(name, answer))
  <1> DEFINE c == IF answer.panel THEN 1 ELSE MaxCandidates
             listed == Prefix(answer.places, c)
             P == {i \in DOMAIN listed : listed[i].site # "" /\ NameMatches(name, listed[i].name)}
             hits == Selected(listed, P)
  <1>1. ResolveOne(name, answer) = IF hits = <<>> THEN "" ELSE hits[1].site
    BY Zenon DEF ResolveOne
  <1>2. IsList(answer.places) /\ c \in Nat
    BY LeadAssumption, SourcesAssumption
  <1> HIDE DEF c
  <1>3. IsList(listed) /\ ToSet(listed) \subseteq ToSet(answer.places)
    BY <1>2, PrefixIs, PrefixHas
  <1> HIDE DEF listed
  <1>4. Len(listed) \in Nat /\ DOMAIN listed = 1..Len(listed) /\ P \in SUBSET (1..Len(listed))
    BY <1>3, ListHas
  <1> HIDE DEF P
  <1>5. IsList(hits) /\ \A x \in ToSet(hits) : \E i \in P : x = listed[i]
    BY <1>4, SelectedHas
  <1> HIDE DEF hits
  <1>6. \A x \in ToSet(hits) : x \in ToSet(answer.places)
    BY <1>3, <1>4, <1>5 DEF ToSet
  <1>7. CASE hits = <<>>
    BY <1>1, <1>7, NoSiteIsKnown, Zenon
  <1>8. CASE hits # <<>>
    <2>1. hits[1] \in ToSet(hits)
      <3>1. Len(hits) \in Nat /\ Len(hits) # 0 /\ ToSet(hits) = {hits[i] : i \in 1..Len(hits)}
        BY <1>5, <1>8, ListHas
      <3>2. 1 \in 1..Len(hits)
        BY <3>1
      <3> QED
        BY <3>1, <3>2
    <2> DEFINE sites == {p.site : p \in ToSet(answer.places)}
    <2>2. Described(sites) /\ hits[1].site \in sites
      BY <1>6, <2>1, WebAssumption
    <2> HIDE DEF sites
    <2>3. SiteKnown(hits[1].site)
      BY <2>2, DescribedIs
    <2> QED
      BY <1>1, <1>8, <2>3, Zenon
  <1> QED
    BY <1>7, <1>8

CrawlSites == SitesKnown(found) /\ KnownRows(adding) /\ KnownRows(rows)
FlowSites ==
  /\ SitesKnown(index) /\ KnownRows(gathered) /\ KnownRows(arriving)
  /\ RowList(businesses) /\ KnownRows(businesses)

LEMMA NoSites == SitesKnown(<<>>)
  BY EmptyRows DEF SitesKnown

LEMMA SitesInit == Init => CrawlSites /\ FlowSites
  BY NoSites, NoRowsKnown, EmptyRows DEF Init, CrawlInit, CrawlSites, FlowSites

LEMMA AddKnown ==
  ASSUME DiscoverInv, CrawlSites, NEW row, DOMAIN row = RowFields, SiteKnown(row.site), Add(row)
  PROVE  SitesKnown(found)'
  <1> DEFINE keys == MemberKeys(row)
  <1>1. IsList(keys)
    BY GivenIs DEF MemberKeys
  <1>2. found' = MergeByKeys(found, row, keys)
    BY DEF Add, AddBusiness
  <1>3. IndexOK(found, added) /\ SitesKnown(found)
    BY DEF DiscoverInv, CrawlInv, CrawlSites
  <1> HIDE DEF keys
  <1>4. SitesKnown(MergeByKeys(found, row, keys))
    BY <1>1, <1>3, MergeKnown
  <1>5. SitesKnown(found')
    BY <1>2, <1>4
  <1> QED
    BY <1>5 DEF SitesKnown

LEMMA CrawlSitesKeep ==
  ASSUME DiscoverInv, CrawlSites, [Next]_vars
  PROVE  CrawlSites'
  <1> USE DEF CrawlSites
  <1>0. ASSUME UNCHANGED <<found, adding, rows>> PROVE CrawlSites'
    BY <1>0 DEF SitesKnown, KnownRows
  <1>a. SitesKnown(found)' <=> SitesKnown(found')
    BY DEF SitesKnown
  <1>b. (KnownRows(adding)' <=> KnownRows(adding')) /\ (KnownRows(rows)' <=> KnownRows(rows'))
    BY DEF KnownRows
  <1>1. CASE LeaveDirectory
    <2>1. found' = <<>> /\ adding' = <<>> /\ rows' = <<>>
      BY <1>1 DEF LeaveDirectory
    <2> QED
      BY <1>a, <1>b, <2>1, NoSites, NoRowsKnown
  <1>2. CASE ReadListPage
    <2>1. found' = found /\ rows' = rows
      BY <1>2 DEF ReadListPage
    <2>2. CASE UNCHANGED <<adding, details, page>>
      BY <1>0, <2>1, <2>2
    <2>3. CASE \E p \in ListPages : adding' = MembersFromList(p)
      <3>1. KnownRows(adding')
        BY <2>3, MembersKnown
      <3> QED
        BY <1>a, <1>b, <2>1, <3>1
    <2> QED
      BY <1>2, <2>2, <2>3 DEF ReadListPage
  <1>3. CASE AddMember
    <2>1. Add(Head(adding)) /\ adding # <<>> /\ adding' = Tail(adding) /\ rows' = rows
      BY <1>3 DEF AddMember
    <2>2. IsList(adding) /\ \A r \in ToSet(adding) : DOMAIN r = RowFields
      BY DEF DiscoverInv, CrawlInv, RowList
    <2>3. Head(adding) \in ToSet(adding) /\ ToSet(Tail(adding)) \subseteq ToSet(adding)
      BY <2>1, <2>2, TailIs
    <2>4. DOMAIN Head(adding) = RowFields /\ SiteKnown(Head(adding).site) /\ KnownRows(Tail(adding))
      BY <2>2, <2>3 DEF KnownRows
    <2>5. SitesKnown(found)'
      BY <2>1, <2>4, AddKnown
    <2> QED
      BY <1>b, <2>1, <2>4, <2>5
  <1>4. CASE ReadRecord
    <2>1. adding' = adding /\ rows' = rows
      BY <1>4 DEF ReadRecord
    <2>2. CASE UNCHANGED <<found, added>>
      BY <1>0, <2>1, <2>2
    <2>3. CASE \E d \in DetailPages : Add(MemberRecord(d))
      <3>1. PICK d \in DetailPages : Add(MemberRecord(d))
        BY <2>3
      <3>2. DOMAIN MemberRecord(d) = RowFields
        BY RowIs DEF MemberRecord
      <3>3. SitesKnown(found)'
        BY <3>1, <3>2, RecordKnown, AddKnown
      <3> QED
        BY <1>b, <2>1, <3>3
    <2> QED
      BY <1>4, <2>2, <2>3 DEF ReadRecord
  <1>5. CASE SearchTca
    <2>1. found' = found /\ adding' = adding
      BY <1>5 DEF SearchTca
    <2>2. KnownRows(rows')
      BY <1>5, TcaKnown DEF DiscoverInv, CrawlInv
    <2> QED
      BY <1>a, <1>b, <2>1, <2>2
  <1>6. CASE ReturnMembers
    <2>1. found' = found /\ adding' = adding
      BY <1>6 DEF ReturnMembers
    <2>2. PICK keyword \in Keywords : rows' = Prefix(ByKeyword(UniqueRecords(found), keyword), limit)
      BY <1>6 DEF ReturnMembers
    <2> DEFINE list == ByKeyword(UniqueRecords(found), keyword)
    <2>3. RowList(list) /\ KnownRows(list) /\ limit \in Nat
      <3>1. RowList(UniqueRecords(found)) /\ KnownRows(UniqueRecords(found)) /\ limit \in Nat
        BY RecordsAre, RecordsKnown DEF DiscoverInv, CrawlInv
      <3> QED
        BY <3>1, KeywordRows, KeywordKnown
    <2> HIDE DEF list
    <2>4. KnownRows(Prefix(list, limit))
      BY <2>3, PrefixKnown DEF RowList
    <2>5. KnownRows(rows')
      BY <2>2, <2>4 DEF list
    <2> QED
      BY <1>a, <1>b, <2>1, <2>5
  <1>7. CASE Refuse
    <2>1. found' = found /\ adding' = adding /\ rows' = <<>>
      BY <1>7 DEF Refuse
    <2> QED
      BY <1>a, <1>b, <2>1, NoRowsKnown
  <1>8. CASE Begin \/ OpenRecords
    BY <1>0, <1>8 DEF Begin, OpenRecords
  <1>9. CASE CallDirectory
    BY <1>2, <1>3, <1>4, <1>5, <1>6, <1>7, <1>8, <1>9 DEF CallDirectory
  <1>10. CASE DirectoryReturns \/ DirectoryRaises
    BY <1>1, <1>10 DEF DirectoryReturns, DirectoryRaises
  <1>11. CASE UNCHANGED crawlVars
    BY <1>0, <1>11 DEF crawlVars
  <1> QED
    BY <1>9, <1>10, <1>11, NextCrawls

LEMMA FlowSitesKeep ==
  ASSUME DiscoverInv, CrawlSites, FlowSites, [Next]_vars
  PROVE  FlowSites'
  <1> USE DEF FlowSites
  <1>0. ASSUME UNCHANGED <<index, gathered, arriving, businesses>> PROVE FlowSites'
    BY <1>0 DEF SitesKnown, KnownRows, RowList
  <1>a. SitesKnown(index)' <=> SitesKnown(index')
    BY DEF SitesKnown
  <1>b. /\ KnownRows(gathered)' <=> KnownRows(gathered')
        /\ KnownRows(arriving)' <=> KnownRows(arriving')
        /\ KnownRows(businesses)' <=> KnownRows(businesses')
        /\ RowList(businesses)' <=> RowList(businesses')
    BY DEF KnownRows, RowList
  <1>1. ASSUME NEW new, KnownRows(new), NEW warning, SourceReturns(new, warning), KnownRows(gathered')
        PROVE  FlowSites'
    <2>1. arriving' = new /\ UNCHANGED <<index, businesses>>
      BY <1>1 DEF SourceReturns
    <2> QED
      BY <1>1, <1>a, <1>b, <2>1
  <1>c. limit \in Nat
    BY DEF DiscoverInv, CrawlInv
  <1>2. CASE AskMaps
    <2>1. PICK feed \in Feeds : \E opens \in SUBSET DOMAIN Place :
            SourceReturns(SearchMaps(feed, Place, opens, limit), feed = <<>>)
      BY <1>2 DEF AskMaps
    <2>2. PICK opens \in SUBSET DOMAIN Place :
            SourceReturns(SearchMaps(feed, Place, opens, limit), feed = <<>>)
      BY <2>1
    <2> DEFINE new == SearchMaps(feed, Place, opens, limit)
    <2>3. KnownRows(new)
      <3>1. IsList(feed) /\ \A shown \in ToSet(feed) : IsList(shown)
        BY LeadAssumption
      <3> QED
        BY <1>c, <3>1, MapsKnown
    <2>4. gathered' = gathered
      BY <1>2 DEF AskMaps
    <2> HIDE DEF new
    <2> QED
      BY <1>1, <2>2, <2>3, <2>4 DEF new
  <1>3. CASE AskRegistry
    <2>1. PICK registry \in Registries : \E failing \in 0..2 :
            LET scan == SearchCompanies(registry, failing, limit) IN SourceReturns(scan.rows, scan.warned)
      BY <1>3 DEF AskRegistry
    <2>2. PICK failing \in 0..2 :
            LET scan == SearchCompanies(registry, failing, limit) IN SourceReturns(scan.rows, scan.warned)
      BY <2>1
    <2> DEFINE scan == SearchCompanies(registry, failing, limit)
               new == scan.rows
    <2>3. KnownRows(new) /\ SourceReturns(new, scan.warned)
      BY <2>2, CompaniesKnown
    <2>4. gathered' = gathered
      BY <1>3 DEF AskRegistry
    <2> HIDE DEF new, scan
    <2> QED
      BY <1>1, <2>3, <2>4
  <1>4. CASE SourceRaises
    <2>1. SourceReturns(<<>>, TRUE) /\ gathered' = gathered
      BY <1>4 DEF SourceRaises
    <2> QED
      BY <1>1, <2>1, NoRowsKnown
  <1>5. CASE MergeArrival
    <2> DEFINE row == Head(arriving)
               keys == BusinessKeys(row)
    <2>1. /\ arriving # <<>> /\ arriving' = Tail(arriving) /\ UNCHANGED <<gathered, businesses>>
          /\ index' = MergeByKeys(index, row, keys)
      BY <1>5 DEF MergeArrival, MergeBusiness
    <2>2. IsList(arriving) /\ \A r \in ToSet(arriving) : DOMAIN r = RowFields
      BY DEF DiscoverInv, RowList
    <2>3. row \in ToSet(arriving) /\ ToSet(Tail(arriving)) \subseteq ToSet(arriving)
      BY <2>1, <2>2, TailIs
    <2>4. IsList(keys)
      BY GivenIs DEF BusinessKeys
    <2> HIDE DEF row, keys
    <2>5. DOMAIN row = RowFields /\ SiteKnown(row.site) /\ KnownRows(Tail(arriving))
      BY <2>2, <2>3 DEF KnownRows
    <2>6. SitesKnown(MergeByKeys(index, row, keys))
      BY <2>4, <2>5, MergeKnown DEF DiscoverInv
    <2> QED
      BY <1>a, <1>b, <2>1, <2>5, <2>6
  <1>6. CASE DirectoryReturns
    <2> DEFINE new == [i \in DOMAIN rows |-> [rows[i] EXCEPT !.from = Head(targets)]]
    <2>1. gathered' = gathered \o new /\ UNCHANGED <<index, arriving, businesses>>
      BY <1>6 DEF DirectoryReturns, LeaveDirectory
    <2>2. RowList(rows) /\ KnownRows(rows) /\ IsList(gathered) /\ KnownRows(gathered)
      BY DEF DiscoverInv, CrawlInv, RowList, CrawlSites
    <2>3. Len(rows) \in Nat /\ DOMAIN rows = 1..Len(rows)
      BY <2>2, ListHas DEF RowList
    <2>4. IsList(new)
      <3>1. DOMAIN new = 1..Len(rows) /\ new = [i \in DOMAIN new |-> new[i]]
        BY <2>3
      <3> HIDE DEF new
      <3> QED
        BY <2>3, <3>1, ListIs
    <2>5. \A i \in DOMAIN rows : new[i].site = rows[i].site
      BY <2>2 DEF RowList, RowFields, ToSet
    <2>6. KnownRows(new)
      BY <2>2, <2>5 DEF KnownRows, ToSet
    <2> HIDE DEF new
    <2>7. ToSet(gathered \o new) = ToSet(gathered) \cup ToSet(new)
      BY <2>2, <2>4, JoinIs
    <2>8. KnownRows(gathered')
      BY <2>1, <2>2, <2>6, <2>7 DEF KnownRows
    <2> QED
      BY <1>a, <1>b, <2>1, <2>8
  <1>7. CASE DirectoriesReturn
    <2>1. SourceReturns(gathered, payload.targets = <<>>) /\ gathered' = <<>>
      BY <1>7 DEF DirectoriesReturn
    <2> QED
      BY <1>1, <2>1, NoRowsKnown
  <1>8. CASE Discovered
    <2> DEFINE list == UniqueRecords(index)
               all == InterleaveBySource(list)
    <2>1. businesses' = Prefix(all, limit) /\ UNCHANGED <<index, gathered, arriving>>
      BY <1>8 DEF Discovered, calls
    <2>2. RowList(list) /\ KnownRows(list)
      BY RecordsAre, RecordsKnown DEF DiscoverInv
    <2> HIDE DEF list
    <2>3. IsList(all) /\ ToSet(all) \subseteq ToSet(list)
      BY <2>2, InterleaveHas DEF RowList
    <2> HIDE DEF all
    <2>4. RowList(all) /\ KnownRows(all)
      BY <2>2, <2>3 DEF RowList, KnownRows
    <2>5. RowList(businesses') /\ KnownRows(businesses')
      BY <1>c, <2>1, <2>3, <2>4, PrefixRows, PrefixKnown
    <2> QED
      BY <1>a, <1>b, <2>1, <2>5
  <1>9. CASE ResolveWebsites
    <2>1. index' = <<>> /\ UNCHANGED <<gathered, arriving>>
      BY <1>9 DEF ResolveWebsites
    <2>2. CASE businesses' = businesses
      BY <1>a, <1>b, <2>1, <2>2, NoSites
    <2>3. CASE businesses' # businesses
      <3> DEFINE missing == {b.name : b \in {c \in ToSet(businesses) : c.site = "" /\ c.name # ""}}
      <3>1. PICK answer \in [missing -> Answers] :
              businesses' = [i \in DOMAIN businesses |->
                LET b == businesses[i] IN
                IF b.site = "" /\ b.name # "" THEN [b EXCEPT !.site = ResolveOne(b.name, answer[b.name])]
                ELSE b]
        BY <1>9, <2>3, Zenon DEF ResolveWebsites
      <3>2. Len(businesses) \in Nat /\ DOMAIN businesses = 1..Len(businesses)
        BY ListHas DEF RowList
      <3>3. ASSUME NEW i \in DOMAIN businesses
            PROVE  DOMAIN businesses'[i] = RowFields /\ SiteKnown(businesses'[i].site)
        <4> DEFINE b == businesses[i]
        <4>1. b \in ToSet(businesses)
          BY DEF ToSet
        <4>2. DOMAIN b = RowFields /\ SiteKnown(b.site)
          BY <4>1 DEF RowList, KnownRows
        <4>3. CASE b.site = "" /\ b.name # ""
          <5>1. b.name \in missing
            BY <4>1, <4>3, Zenon
          <5>2. businesses'[i] = [b EXCEPT !.site = ResolveOne(b.name, answer[b.name])]
            BY <3>1, <4>3, Zenon
          <5> DEFINE site == ResolveOne(b.name, answer[b.name])
          <5> HIDE DEF missing, b
          <5>3. SiteKnown(site)
            BY <5>1, ResolveKnown
          <5> HIDE DEF site
          <5>4. businesses'[i] = [b EXCEPT !.site = site]
            BY <5>2 DEF site
          <5> QED
            BY <4>2, <5>3, <5>4 DEF RowFields
        <4>4. CASE ~(b.site = "" /\ b.name # "")
          <5>1. businesses'[i] = b
            BY <3>1, <4>4, Zenon
          <5> QED
            BY <4>2, <5>1
        <4> QED
          BY <4>3, <4>4
      <3>4. DOMAIN businesses' = 1..Len(businesses) /\ businesses' = [i \in DOMAIN businesses' |-> businesses'[i]]
        BY <3>1, <3>2, Zenon
      <3>5. RowList(businesses')
        BY <3>2, <3>3, <3>4, RowsAre
      <3>6. KnownRows(businesses')
        BY <3>2, <3>3, <3>4 DEF KnownRows, ToSet
      <3> QED
        BY <1>a, <1>b, <2>1, <3>5, <3>6, NoSites
    <2> QED
      BY <2>2, <2>3
  <1>10. CASE ValidatePayload \/ CallDirectory \/ DirectoryRaises
    BY <1>0, <1>10 DEF ValidatePayload, CallDirectory, DirectoryRaises, LeaveDirectory, calls
  <1>11. CASE NoSite \/ VisitSite \/ MineSocial \/ VisitRaises \/ AppendLead
    BY <1>0, <1>11 DEF NoSite, VisitSite, MineSocial, Visited, VisitRaises, AppendLead, calls
  <1>12. CASE SortLeads \/ EnrichFromRegistry \/ Qualify
    BY <1>0, <1>12 DEF SortLeads, EnrichFromRegistry, Qualify, calls
  <1>13. CASE UNCHANGED vars
    BY <1>0, <1>13 DEF vars
  <1> QED
    BY <1>2, <1>3, <1>4, <1>5, <1>6, <1>7, <1>8, <1>9, <1>10, <1>11, <1>12, <1>13 DEF Next

-----------------------------------------------------------------------------
(* What is within reach of a site is read.                                   *)

\* What is selected moves forward.
LEMMA SelectedPlace ==
  ASSUME NEW s, NEW n \in Nat, NEW P \in SUBSET (1..n), NEW i \in P
  PROVE  \E a \in DOMAIN Selected(s, P) : a <= i /\ Selected(s, P)[a] = s[i]
  <1> DEFINE c == Cardinality(P)
             R == {p \in P \X P : p[1] < p[2]}
             where == Ordered(P, R)
             r == Selected(s, P)
  <1>1. IsFiniteSet(P) /\ c \in Nat
    <2>1. IsFiniteSet(1..n)
      BY FS_Interval
    <2> QED
      BY <2>1, FS_Subset, FS_CardinalityType
  <1>2. \A k, l \in P : <<k, l>> \in R <=> k < l
    OBVIOUS
  <1>3. r = [k \in DOMAIN where |-> s[where[k]]]
    BY DEF Selected
  <1> HIDE DEF R, r, where
  <1>4. \A k \in P : k \in Nat \ {0}
    OBVIOUS
  <1>5. InOrderOf(where, P, R)
    <2>1. TotalOn(P, R)
      BY <1>2, <1>4 DEF TotalOn
    <2> QED
      BY <1>1, <2>1, OrderIs DEF where
  <1>6. /\ where \in [1..c -> P]
        /\ \A a, b \in 1..c : a < b => where[a] < where[b]
        /\ \A a, b \in 1..c : where[a] = where[b] => a = b
    BY <1>2, <1>5 DEF InOrderOf
  <1>7. PICK a \in 1..c : where[a] = i
    BY <1>5 DEF InOrderOf
  <1>8. a <= i
    <2> DEFINE f == [b \in 1..a |-> where[b]]
    <2>1. \A b \in 1..a : b \in 1..c
      BY <1>1
    <2>2. \A b \in 1..a : where[b] \in 1..i
      <3> SUFFICES ASSUME NEW b \in 1..a PROVE where[b] \in 1..i
        OBVIOUS
      <3>1. b = a \/ b < a
        BY <1>1
      <3>2. where[b] = i \/ where[b] < i
        BY <1>6, <1>7, <2>1, <3>1
      <3>3. where[b] \in Nat \ {0} /\ i \in Nat \ {0}
        BY <1>4, <1>6, <2>1
      <3> QED
        BY <3>2, <3>3
    <2>3. f \in [1..a -> 1..i] /\ \A b \in 1..a : f[b] = where[b]
      BY <2>2
    <2> HIDE DEF f
    <2>4. f \in Injection(1..a, 1..i)
      BY <1>6, <2>1, <2>3 DEF Injection, IsInjective
    <2>5. a \in Nat \ {0} /\ i \in Nat \ {0}
      BY <1>1, <1>4
    <2>6. IsFiniteSet(1..i) /\ Cardinality(1..i) = i /\ Cardinality(1..a) = a
      BY <2>5, FS_Interval
    <2>7. Cardinality(1..a) <= Cardinality(1..i)
      BY <2>4, <2>6, FS_Injection
    <2> QED
      BY <2>6, <2>7
  <1>9. a \in DOMAIN r /\ r[a] = s[i]
    BY <1>3, <1>6, <1>7
  <1> QED
    BY <1>8, <1>9 DEF r

LEMMA DistinctPlace ==
  ASSUME NEW s, IsList(s), NEW i \in DOMAIN s
  PROVE  \E a \in DOMAIN Distinct(s) : a <= i /\ Distinct(s)[a] = s[i]
  <1> DEFINE P == {k \in DOMAIN s : \A j \in DOMAIN s : j < k => s[j] # s[k]}
             W == {k \in DOMAIN s : s[k] = s[i]}
             m == Min(W)
  <1>1. Len(s) \in Nat /\ DOMAIN s = 1..Len(s) /\ P \in SUBSET (1..Len(s))
    BY ListHas
  <1>2. m \in W /\ \A k \in W : m <= k
    <2>1. W \in SUBSET Nat /\ W # {}
      BY <1>1
    <2> HIDE DEF W
    <2> QED
      BY <2>1, LeastOf
  <1> HIDE DEF m
  <1>3. m \in P /\ m <= i /\ s[m] = s[i] /\ m \in Nat /\ i \in Nat
    <2>1. m \in DOMAIN s /\ s[m] = s[i] /\ m <= i
      BY <1>2
    <2>2. \A j \in DOMAIN s : j < m => s[j] # s[m]
      <3>1. \A j \in DOMAIN s : s[j] = s[m] => m <= j
        BY <1>2
      <3> QED
        BY <1>1, <2>1, <3>1
    <2> QED
      BY <1>1, <2>1, <2>2
  <1>4. Distinct(s) = Selected(s, P)
    BY DEF Distinct
  <1> HIDE DEF P
  <1>5. \E a \in DOMAIN Selected(s, P) : a <= m /\ Selected(s, P)[a] = s[m]
    BY <1>1, <1>3, SelectedPlace
  <1>6. PICK a \in DOMAIN Selected(s, P) : a <= m /\ Selected(s, P)[a] = s[m]
    BY <1>5
  <1>7. a \in Nat
    <2>1. IsList(Selected(s, P))
      BY <1>1, SelectedIs
    <2> QED
      BY <2>1, ListHas
  <1>8. a <= i
    BY <1>3, <1>6, <1>7
  <1> QED
    BY <1>3, <1>4, <1>6, <1>8

\* The first pages that load are those of the first places, and each has its own.
LEMMA ScanHas ==
  ASSUME NEW L, IsList(L), NEW shown, NEW k \in 1..MaxScanned, k \in DOMAIN L, shown[L[k]] # Dead
  PROVE  LET urls == Distinct(L)
             read == Prefix(Selected(urls, {i \in DOMAIN urls : shown[urls[i]] # Dead}), MaxScanned)
         IN  L[k] \in ToSet(read)
  <1> DEFINE urls == Distinct(L)
             P == {i \in DOMAIN urls : shown[urls[i]] # Dead}
             up == Selected(urls, P)
             read == Prefix(up, MaxScanned)
  <1>1. PICK a \in DOMAIN urls : a <= k /\ urls[a] = L[k]
    BY DistinctPlace
  <1>2. IsList(urls)
    BY DistinctIs
  <1> HIDE DEF urls
  <1>3. Len(urls) \in Nat /\ DOMAIN urls = 1..Len(urls) /\ P \in SUBSET (1..Len(urls)) /\ a \in P
    BY <1>1, <1>2, ListHas
  <1> HIDE DEF P
  <1>4. PICK b \in DOMAIN up : b <= a /\ up[b] = urls[a]
    BY <1>3, SelectedPlace
  <1>5. IsList(up)
    BY <1>3, SelectedIs
  <1> HIDE DEF up
  <1>6. Len(up) \in Nat /\ b \in 1..Len(up)
    BY <1>4, <1>5, ListHas
  <1>7. MaxScanned \in Nat
    BY SourcesAssumption
  <1>8. b \in 1..MaxScanned
    BY <1>1, <1>3, <1>4, <1>6, <1>7
  <1> DEFINE m == IF Len(up) < MaxScanned THEN Len(up) ELSE MaxScanned
  <1>9. IsList(read) /\ Len(read) = m /\ \A i \in 1..m : read[i] = up[i]
    BY <1>5, <1>7, PrefixIs
  <1>10. b \in 1..m
    BY <1>6, <1>7, <1>8
  <1> HIDE DEF m, read
  <1>11. read[b] \in ToSet(read)
    <2>1. ToSet(read) = {read[i] : i \in 1..Len(read)}
      BY <1>9, ListHas
    <2> QED
      BY <1>9, <1>10, <2>1
  <1>12. L[k] \in ToSet(read)
    BY <1>1, <1>4, <1>9, <1>10, <1>11
  <1> QED
    BY <1>12 DEF read, up, P, urls

\* Nothing else is read.
LEMMA ScanOnly ==
  ASSUME NEW L, IsList(L), NEW shown
  PROVE  LET urls == Distinct(L)
             read == Prefix(Selected(urls, {i \in DOMAIN urls : shown[urls[i]] # Dead}), MaxScanned)
         IN  /\ IsFiniteSet(ToSet(read))
             /\ \A u \in ToSet(read) : u \in ToSet(L) /\ shown[u] # Dead
  <1> DEFINE urls == Distinct(L)
             P == {i \in DOMAIN urls : shown[urls[i]] # Dead}
             up == Selected(urls, P)
             read == Prefix(up, MaxScanned)
  <1>1. IsList(urls) /\ ToSet(urls) = ToSet(L)
    BY DistinctIs
  <1> HIDE DEF urls
  <1>2. Len(urls) \in Nat /\ DOMAIN urls = 1..Len(urls) /\ P \in SUBSET (1..Len(urls))
    BY <1>1, ListHas
  <1>3. \A i \in P : urls[i] \in ToSet(L) /\ shown[urls[i]] # Dead
    BY <1>1 DEF ToSet
  <1> HIDE DEF P
  <1>4. IsList(up) /\ \A x \in ToSet(up) : \E i \in P : x = urls[i]
    BY <1>2, SelectedHas
  <1> HIDE DEF up
  <1>5. IsList(read) /\ ToSet(read) \subseteq ToSet(up)
    BY <1>4, SourcesAssumption, PrefixIs, PrefixHas
  <1> HIDE DEF read
  <1>6. IsFiniteSet(ToSet(read))
    <2> DEFINE f == [i \in DOMAIN read |-> read[i]]
    <2>1. f \in Surjection(DOMAIN read, ToSet(read))
      BY DEF Surjection, ToSet
    <2>2. IsFiniteSet(DOMAIN read)
      BY <1>5, ListHas
    <2> HIDE DEF f
    <2> QED
      BY <2>1, <2>2, FS_Surjection
  <1>7. \A u \in ToSet(read) : u \in ToSet(L) /\ shown[u] # Dead
    BY <1>3, <1>4, <1>5
  <1> QED
    BY <1>6, <1>7 DEF read, up, P, urls

\* What the visit of a site reads is a finite set of addresses that have a rank, and
\* has all of what is within reach.
LEMMA ReachIsScanned ==
  ASSUME NEW v, v.site \in DOMAIN Static, v.up \in SUBSET DOMAIN Static[v.site]
  PROVE  LET all == Scan(Web[v.site], Loads(Static, v.site, v.up)) IN
         Reach(v) \subseteq all /\ IsFiniteSet(all) /\ all \subseteq DOMAIN Rank
  <1> DEFINE S == Static[v.site]
             web == Web[v.site]
             shown == Loads(Static, v.site, v.up)
             linked == IF shown[web.home] = Dead THEN <<>> ELSE Prefix(web.links, MaxLinks)
             near == <<web.home>> \o linked
             L == near \o web.paths
             urls == Distinct(L)
             read == Prefix(Selected(urls, {i \in DOMAIN urls : shown[urls[i]] # Dead}), MaxScanned)
             all == UNION {Harvest(shown, u) : u \in ToSet(read)}
  <1>1. /\ IsList(web.links) /\ IsList(web.paths)
        /\ web.home \in DOMAIN S /\ ToSet(web.links) \subseteq DOMAIN S /\ ToSet(web.paths) \subseteq DOMAIN S
        /\ \A u \in DOMAIN S : S[u] # Dead /\ IsFiniteSet(S[u]) /\ S[u] \subseteq DOMAIN Rank
    BY WebAssumption
  <1>2. Scan(web, shown) = all
    BY Zenon DEF Scan, Visit
  <1>3. \A u \in DOMAIN S : shown[u] = IF u \in v.up THEN S[u] ELSE Dead
    BY DEF Loads
  <1>4. \A u \in DOMAIN S : (shown[u] # Dead) <=> u \in v.up
    BY <1>1, <1>3
  <1>5. Reach(v) = UNION {Harvest(S, u) : u \in
          ({web.home} \cup (IF web.home \in v.up THEN ToSet(Prefix(web.links, MaxLinks)) ELSE {})) \cap v.up}
    BY Zenon DEF Reach
  <1>c. MaxLinks \in Nat /\ MaxScanned \in Nat /\ MaxLinks < MaxScanned
    BY SourcesAssumption
  <1> HIDE DEF S, web, shown
  <1>6. /\ IsList(Prefix(web.links, MaxLinks)) /\ Len(Prefix(web.links, MaxLinks)) \in Nat
        /\ Len(Prefix(web.links, MaxLinks)) <= MaxLinks
        /\ ToSet(Prefix(web.links, MaxLinks)) \subseteq DOMAIN S
    BY <1>1, <1>c, ListHas, PrefixIs, PrefixHas
  <1>7. /\ IsList(linked) /\ Len(linked) \in Nat /\ Len(linked) <= MaxLinks /\ ToSet(linked) \subseteq DOMAIN S
        /\ web.home \in v.up => ToSet(linked) = ToSet(Prefix(web.links, MaxLinks))
    <2>1. CASE shown[web.home] = Dead
      <3>1. linked = <<>> /\ web.home \notin v.up
        BY <1>1, <1>4, <2>1
      <3> HIDE DEF linked
      <3> QED
        BY <1>c, <3>1, EmptyRows DEF RowList
    <2>2. CASE shown[web.home] # Dead
      <3>1. linked = Prefix(web.links, MaxLinks)
        BY <2>2
      <3> HIDE DEF linked
      <3> QED
        BY <1>6, <3>1
    <2> QED
      BY <2>1, <2>2
  <1> HIDE DEF linked
  <1>8. /\ IsList(near) /\ Len(near) \in Nat /\ Len(near) <= MaxScanned
        /\ ToSet(near) = {web.home} \cup ToSet(linked)
    <2> DEFINE one == <<web.home>>
    <2>1. IsList(one) /\ Len(one) = 1 /\ ToSet(one) = {web.home}
      BY OneHas DEF IsList
    <2> HIDE DEF one
    <2>2. IsList(one \o linked) /\ ToSet(one \o linked) = ToSet(one) \cup ToSet(linked)
      BY <1>7, <2>1, JoinIs
    <2>3. Len(one \o linked) = Len(one) + Len(linked)
      <3> DEFINE T == ToSet(one) \cup ToSet(linked)
      <3>1. one \in Seq(T) /\ linked \in Seq(T)
        BY <1>7, <2>1, SeqMonotonic DEF IsList
      <3> HIDE DEF T
      <3> QED
        BY <3>1, ConcatProperties
    <2>4. near = one \o linked
      BY DEF one
    <2> HIDE DEF near
    <2> QED
      BY <1>7, <1>c, <2>1, <2>2, <2>3, <2>4
  <1> HIDE DEF near
  <1>9. /\ IsList(L) /\ ToSet(L) = ToSet(near) \cup ToSet(web.paths)
        /\ \A i \in 1..Len(near) : i \in DOMAIN L /\ L[i] = near[i]
    <2>1. IsList(L) /\ ToSet(L) = ToSet(near) \cup ToSet(web.paths)
      BY <1>1, <1>8, JoinIs
    <2> DEFINE T == ToSet(near) \cup ToSet(web.paths)
    <2>2. near \in Seq(T) /\ web.paths \in Seq(T)
      BY <1>1, <1>8, SeqMonotonic DEF IsList
    <2> HIDE DEF T
    <2>3. /\ L \in Seq(T) /\ Len(L) = Len(near) + Len(web.paths)
          /\ \A i \in 1..Len(near) + Len(web.paths) : L[i] = IF i <= Len(near) THEN near[i] ELSE web.paths[i - Len(near)]
      BY <2>2, ConcatProperties
    <2> HIDE DEF L
    <2>4. DOMAIN L = 1..Len(L) /\ Len(web.paths) \in Nat
      BY <1>1, <2>1, ListHas
    <2>5. \A i \in 1..Len(near) : i \in 1..Len(near) + Len(web.paths) /\ i <= Len(near)
      BY <1>8, <2>4
    <2> QED
      BY <2>1, <2>3, <2>4, <2>5
  <1> HIDE DEF L
  <1>10. ASSUME NEW u \in ToSet(near), u \in v.up PROVE u \in ToSet(read)
    <2>0. ToSet(near) = {near[i] : i \in 1..Len(near)}
      BY <1>8, ListHas
    <2>1. PICK i \in 1..Len(near) : near[i] = u
      BY <1>10, <2>0
    <2>2. i \in 1..MaxScanned /\ i \in DOMAIN L /\ L[i] = u
      BY <1>8, <1>9, <1>c, <2>1
    <2>3. u \in DOMAIN S
      BY <1>10 DEF S
    <2>4. shown[L[i]] # Dead
      BY <1>4, <1>10, <2>2, <2>3
    <2>5. L[i] \in ToSet(read)
      BY <1>9, <2>2, <2>4, ScanHas
    <2> QED
      BY <2>2, <2>5
  <1>11. /\ IsFiniteSet(ToSet(read))
         /\ \A u \in ToSet(read) : u \in ToSet(L) /\ shown[u] # Dead
    BY <1>9, ScanOnly
  <1> HIDE DEF read
  <1>12. \A u \in ToSet(read) : u \in DOMAIN S /\ u \in v.up
    BY <1>1, <1>4, <1>7, <1>8, <1>9, <1>11
  <1>13. \A u \in DOMAIN S : u \in v.up => Harvest(shown, u) = Harvest(S, u)
    BY <1>3 DEF Harvest
  <1>14. Reach(v) \subseteq all
    <2> SUFFICES ASSUME NEW a \in Reach(v) PROVE a \in all
      OBVIOUS
    <2>1. PICK u \in ({web.home} \cup (IF web.home \in v.up THEN ToSet(Prefix(web.links, MaxLinks)) ELSE {})) \cap v.up :
            a \in Harvest(S, u)
      BY <1>5
    <2>2. u \in ToSet(near)
      BY <1>7, <1>8, <2>1
    <2>3. u \in ToSet(read)
      BY <1>10, <2>1, <2>2
    <2>4. Harvest(shown, u) = Harvest(S, u)
      BY <1>12, <1>13, <2>3
    <2> QED
      BY <2>1, <2>3, <2>4
  <1>15. \A u \in ToSet(read) : IsFiniteSet(Harvest(shown, u)) /\ Harvest(shown, u) \subseteq DOMAIN Rank
    <2> SUFFICES ASSUME NEW u \in ToSet(read)
                 PROVE  IsFiniteSet(Harvest(shown, u)) /\ Harvest(shown, u) \subseteq DOMAIN Rank
      OBVIOUS
    <2>1. Harvest(shown, u) = Harvest(S, u) /\ IsFiniteSet(S[u]) /\ S[u] \subseteq DOMAIN Rank
      BY <1>1, <1>12, <1>13
    <2>2. Harvest(S, u) \in SUBSET S[u]
      BY DEF Harvest, Valid
    <2>3. IsFiniteSet(Harvest(S, u))
      BY <2>1, <2>2, FS_Subset
    <2> QED
      BY <2>1, <2>2, <2>3
  <1>16. IsFiniteSet(all)
    <2> DEFINE F == {Harvest(shown, u) : u \in ToSet(read)}
               f == [u \in ToSet(read) |-> Harvest(shown, u)]
    <2>1. f \in Surjection(ToSet(read), F)
      <3>1. f \in [ToSet(read) -> F] /\ \A x \in F : \E u \in ToSet(read) : f[u] = x
        OBVIOUS
      <3> HIDE DEF F, f
      <3> QED
        BY <3>1 DEF Surjection
    <2>2. \A T \in F : IsFiniteSet(T)
      BY <1>15
    <2> HIDE DEF F, f
    <2>3. IsFiniteSet(F)
      BY <1>11, <2>1, FS_Surjection
    <2>4. IsFiniteSet(UNION F)
      BY <2>2, <2>3, FS_UNION
    <2> QED
      BY <2>4 DEF F
  <1>17. all \subseteq DOMAIN Rank
    BY <1>15
  <1> HIDE DEF all
  <1> QED
    BY <1>2, <1>14, <1>16, <1>17 DEF web, shown

\* The best addresses of a site are among those it has, and some if there are any.
LEMMA FinalizeIs ==
  ASSUME NEW all, IsFiniteSet(all), all # {}, all \subseteq DOMAIN Rank, NEW site
  PROVE  LET best == FinalizeEmails(all, site)
             kept == KeepOwn(all, site)
         IN  IsList(best) /\ ToSet(best) # {} /\ ToSet(best) \subseteq kept
  <1> DEFINE kept == KeepOwn(all, site)
             R == {p \in kept \X kept : Rank[p[1]] < Rank[p[2]]}
             order == Ordered(kept, R)
             c == Cardinality(kept)
             best == Prefix(order, MaxPerSite)
  <1>1. kept \in SUBSET all /\ kept # {}
    BY DEF KeepOwn
  <1>2. FinalizeEmails(all, site) = best
    BY Zenon DEF FinalizeEmails
  <1> HIDE DEF kept
  <1>3. IsFiniteSet(kept) /\ c \in Nat /\ c # 0
    <2>1. IsFiniteSet(kept)
      BY <1>1, FS_Subset
    <2> QED
      BY <1>1, <2>1, FS_CardinalityType, FS_EmptySet
  <1>4. \A a, b \in kept : Rank[a] \in Nat /\ (Rank[a] = Rank[b] => a = b)
    BY <1>1, SourcesAssumption
  <1>5. TotalOn(kept, R)
    <2>1. \A a, b \in kept : <<a, b>> \in R <=> Rank[a] < Rank[b]
      OBVIOUS
    <2> HIDE DEF R
    <2> QED
      BY <1>4, <2>1 DEF TotalOn
  <1>6. InOrderOf(order, kept, R)
    <2> HIDE DEF R
    <2> QED
      BY <1>3, <1>5, OrderIs
  <1> HIDE DEF R, order
  <1>7. order \in [1..c -> kept]
    BY <1>6 DEF InOrderOf
  <1> HIDE DEF c
  <1>8. IsList(order) /\ Len(order) = c /\ ToSet(order) \subseteq kept
    <2>1. DOMAIN order = 1..c /\ order = [i \in DOMAIN order |-> order[i]]
      BY <1>7
    <2>2. IsList(order) /\ Len(order) = c
      BY <1>3, <2>1, ListIs
    <2>3. ToSet(order) \subseteq kept
      BY <1>7 DEF ToSet
    <2> QED
      BY <2>2, <2>3
  <1>9. MaxPerSite \in Nat /\ MaxPerSite # 0
    BY SourcesAssumption
  <1>10. IsList(best) /\ ToSet(best) \subseteq kept /\ Len(best) \in Nat /\ Len(best) # 0
    <2>1. ToSet(best) \subseteq ToSet(order)
      BY <1>8, <1>9, PrefixHas
    <2>2. IsList(best) /\ Len(best) = IF Len(order) < MaxPerSite THEN Len(order) ELSE MaxPerSite
      BY <1>8, <1>9, PrefixIs
    <2> HIDE DEF best
    <2> QED
      BY <1>3, <1>8, <1>9, <2>1, <2>2
  <1> HIDE DEF best
  <1>11. ToSet(best) # {}
    <2>1. ToSet(best) = {best[i] : i \in 1..Len(best)}
      BY <1>10, ListHas
    <2>2. 1 \in 1..Len(best)
      BY <1>10
    <2> QED
      BY <2>1, <2>2
  <1> QED
    BY <1>2, <1>10, <1>11 DEF kept

\* An offer for each of the addresses.
LEMMA OfferIs ==
  ASSUME NEW emails, IsList(emails), NEW source, NEW site
  PROVE  /\ IsList(Offer(emails, source, site))
         /\ \A o \in ToSet(Offer(emails, source, site)) : o.source = source /\ o.email \in ToSet(emails)
         /\ \A a \in ToSet(emails) : \E o \in ToSet(Offer(emails, source, site)) : o.email = a
  <1> DEFINE r == Offer(emails, source, site)
  <1>1. Len(emails) \in Nat /\ DOMAIN emails = 1..Len(emails)
    BY ListHas
  <1>2. r = [i \in DOMAIN emails |-> [email |-> emails[i], source |-> source, site |-> site]]
    BY DEF Offer
  <1> HIDE DEF r
  <1>3. IsList(r)
    <2>1. DOMAIN r = 1..Len(emails) /\ r = [i \in DOMAIN r |-> r[i]]
      BY <1>1, <1>2
    <2> QED
      BY <1>1, <2>1, ListIs
  <1>4. \A i \in DOMAIN r : i \in DOMAIN emails /\ r[i].source = source /\ r[i].email = emails[i]
    BY <1>2
  <1>5. \A o \in ToSet(r) : o.source = source /\ o.email \in ToSet(emails)
    BY <1>4 DEF ToSet
  <1>6. \A a \in ToSet(emails) : \E o \in ToSet(r) : o.email = a
    <2> SUFFICES ASSUME NEW i \in DOMAIN emails PROVE \E o \in ToSet(r) : o.email = emails[i]
      BY DEF ToSet
    <2>1. r[i] \in ToSet(r) /\ r[i].email = emails[i]
      BY <1>2 DEF ToSet
    <2> QED
      BY <2>1
  <1> QED
    BY <1>3, <1>5, <1>6 DEF r

\* What a visit that has something within reach offers is published by the site.
LEMMA ExtractIs ==
  ASSUME NEW v, v.site \in DOMAIN Static, v.up \in SUBSET DOMAIN Static[v.site], Reach(v) # {}
  PROVE  \E best :
           /\ IsList(best) /\ ToSet(best) # {}
           /\ Extract(v.site, v.up, v.liveUp) = Offer(best, "website", v.site)
           /\ (\E a \in Reach(v) : Domain[a] = SiteDomain[v.site])
                => \A a \in ToSet(best) : Domain[a] = SiteDomain[v.site]
  <1> DEFINE shown == Loads(Static, v.site, v.up)
             live == Loads(Live, v.site, v.liveUp)
             all == Scan(Web[v.site], shown)
             best == FinalizeEmails(all, v.site)
             ext == ExtractEmails(v.site, Web[v.site], shown, live, payload.render)
  <1>1. Reach(v) \subseteq all /\ IsFiniteSet(all) /\ all \subseteq DOMAIN Rank
    BY ReachIsScanned
  <1>2. all # {}
    BY <1>1
  <1>3. Extract(v.site, v.up, v.liveUp) = Offer(ext.emails, IF ext.guessed THEN "guessed" ELSE "website", v.site)
    BY Zenon DEF Extract
  <1>4. ext.emails = best /\ ~ext.guessed
    <2> DEFINE own == SiteDomain[v.site] # ""
               got == IF all = {} /\ payload.render /\ own THEN RenderAndHarvest(Web[v.site], live) ELSE all
               guessed == got = {} /\ own
               chosen == IF guessed THEN {Guess[SiteDomain[v.site]]} ELSE got
    <2>1. ext = [emails |-> FinalizeEmails(chosen, v.site), guessed |-> guessed]
      BY Zenon DEF ExtractEmails
    <2> HIDE DEF all, own
    <2>2. got = all /\ ~guessed
      BY <1>2
    <2>3. chosen = all
      BY <2>2
    <2> HIDE DEF guessed, chosen, got, ext
    <2>4. ext.emails = FinalizeEmails(chosen, v.site)
      BY <2>1
    <2>5. ext.guessed = guessed
      BY <2>1
    <2> QED
      BY <2>2, <2>3, <2>4, <2>5 DEF best
  <1> HIDE DEF all, ext
  <1>5. IsList(best) /\ ToSet(best) # {} /\ ToSet(best) \subseteq KeepOwn(all, v.site)
    BY <1>1, <1>2, FinalizeIs
  <1>6. (\E a \in Reach(v) : Domain[a] = SiteDomain[v.site])
          => \A a \in KeepOwn(all, v.site) : Domain[a] = SiteDomain[v.site]
    <2> SUFFICES ASSUME NEW a \in Reach(v), Domain[a] = SiteDomain[v.site]
                 PROVE  \A b \in KeepOwn(all, v.site) : Domain[b] = SiteDomain[v.site]
      OBVIOUS
    <2> DEFINE own == {b \in all : Domain[b] = SiteDomain[v.site]}
    <2>1. a \in own
      BY <1>1
    <2>2. KeepOwn(all, v.site) = own
      BY <2>1 DEF KeepOwn
    <2> QED
      BY <2>2
  <1> HIDE DEF best
  <1>7. Extract(v.site, v.up, v.liveUp) = Offer(best, "website", v.site)
    BY <1>3, <1>4
  <1> QED
    BY <1>5, <1>6, <1>7

\* A visit to the next business, which has a site.
LEMMA VisitStep ==
  ASSUME DiscoverInv, FlowSites, VisitSite
  PROVE  PublishedIsOffered'
  <1> DEFINE site == Business.site
  <1>1. Visiting /\ site # ""
    BY DEF VisitSite
  <1>2. site \in DOMAIN Static
    <2>1. Len(businesses) \in Nat /\ at \in 0..Len(businesses) /\ at < Len(businesses)
          /\ ToSet(businesses) = {businesses[i] : i \in 1..Len(businesses)}
      BY <1>1, ListHas DEF DiscoverInv, Visiting
    <2>2. at + 1 \in 1..Len(businesses)
      BY <2>1
    <2>3. Business \in ToSet(businesses)
      BY <2>1, <2>2 DEF Business
    <2>4. SiteKnown(site)
      BY <2>3 DEF FlowSites, KnownRows
    <2> QED
      BY <1>1, <2>4, Zenon DEF SiteKnown, Blank
  <1>3. PICK up \in SUBSET DOMAIN Static[site] : \E liveUp \in {{}, DOMAIN Live[site]} :
          /\ Visited(Extract(site, up, liveUp))
          /\ visit' = [site |-> site, up |-> up, liveUp |-> liveUp]
    BY DEF VisitSite
  <1>4. PICK liveUp :
          /\ Visited(Extract(site, up, liveUp))
          /\ visit' = [site |-> site, up |-> up, liveUp |-> liveUp]
    BY <1>3
  <1> DEFINE v == [site |-> site, up |-> up, liveUp |-> liveUp]
             new == Extract(site, up, liveUp)
  <1>5. v.site = site /\ v.up = up /\ v.liveUp = liveUp
    OBVIOUS
  <1>6. visit' = v /\ todo' = ByDirectory \o new
    BY <1>4 DEF Visited
  <1> HIDE DEF v, new, site
  <1>7. ByDirectory = <<>> \/ ByDirectory = Offer(<<Business.email>>, "directory", Business.site)
    BY Zenon DEF ByDirectory
  <1>8. IsList(ByDirectory) /\ \A o \in ToSet(ByDirectory) : o.source = "directory"
    <2>1. CASE ByDirectory = <<>>
      BY <2>1, EmptyRows DEF RowList
    <2>2. CASE ByDirectory = Offer(<<Business.email>>, "directory", Business.site)
      <3> DEFINE one == <<Business.email>>
      <3>1. IsList(one)
        BY OneHas DEF IsList
      <3> HIDE DEF one
      <3>2. IsList(Offer(one, "directory", Business.site))
            /\ \A o \in ToSet(Offer(one, "directory", Business.site)) : o.source = "directory"
        BY <3>1, OfferIs
      <3> QED
        BY <2>2, <3>2 DEF one
    <2> QED
      BY <1>7, <2>1, <2>2
  <1>9. CASE Reach(v) = {}
    <2>1. Reach(visit)' = Reach(visit')
      BY Zenon DEF Reach
    <2> QED
      BY <1>6, <1>9, <2>1, Zenon DEF PublishedIsOffered
  <1>10. CASE Reach(v) # {}
    <2>1. PICK best :
            /\ IsList(best) /\ ToSet(best) # {}
            /\ Extract(v.site, v.up, v.liveUp) = Offer(best, "website", v.site)
            /\ (\E a \in Reach(v) : Domain[a] = SiteDomain[v.site])
                 => \A a \in ToSet(best) : Domain[a] = SiteDomain[v.site]
      BY <1>2, <1>5, <1>10, ExtractIs
    <2>2. new = Offer(best, "website", v.site)
      BY <1>5, <2>1 DEF new
    <2>3. /\ IsList(new)
          /\ \A o \in ToSet(new) : o.source = "website" /\ o.email \in ToSet(best)
          /\ \A a \in ToSet(best) : \E o \in ToSet(new) : o.email = a
      BY <2>1, <2>2, OfferIs
    <2>4. ToSet(todo') = ToSet(ByDirectory) \cup ToSet(new)
      BY <1>6, <1>8, <2>3, JoinIs
    <2>5. \A o \in ToSet(todo') : o.source # "guessed"
      BY <1>8, <2>3, <2>4
    <2> DEFINE offered == {Domain[o.email] : o \in {t \in ToSet(todo') : t.source = "website"}}
    <2>6. ASSUME NEW a \in Reach(v), Domain[a] = SiteDomain[v.site]
          PROVE  offered = {SiteDomain[v.site]}
      <3>1. \A b \in ToSet(best) : Domain[b] = SiteDomain[v.site]
        BY <2>1, <2>6
      <3>2. {t \in ToSet(todo') : t.source = "website"} = ToSet(new)
        BY <1>8, <2>3, <2>4
      <3>3. \E o \in ToSet(new) : TRUE
        BY <2>1, <2>3
      <3> QED
        BY <2>3, <3>1, <3>2, <3>3
    <2>7. Reach(visit)' = Reach(visit')
      BY Zenon DEF Reach
    <2> HIDE DEF offered
    <2>8. PublishedIsOffered' <=>
            LET got == {Domain[o.email] : o \in {t \in ToSet(todo') : t.source = "website"}} IN
            visit'.site # "" =>
              /\ (\E a \in Reach(visit)' : Domain[a] = SiteDomain[visit'.site]) => got = {SiteDomain[visit'.site]}
              /\ Reach(visit)' # {} => \A o \in ToSet(todo') : o.source # "guessed"
      BY Zenon DEF PublishedIsOffered
    <2> QED
      BY <1>6, <2>5, <2>6, <2>7, <2>8, Zenon DEF offered
  <1> QED
    BY <1>9, <1>10

OffersOf(v, offers) ==
  LET offered == {Domain[o.email] : o \in {t \in ToSet(offers) : t.source = "website"}} IN
  v.site # "" =>
    /\ (\E a \in Reach(v) : Domain[a] = SiteDomain[v.site]) => offered = {SiteDomain[v.site]}
    /\ Reach(v) # {} => \A o \in ToSet(offers) : o.source # "guessed"

LEMMA OffersAre == PublishedIsOffered <=> OffersOf(visit, todo)
  BY Zenon DEF PublishedIsOffered, OffersOf

LEMMA NoVisitIsFine == visit = NoVisit => PublishedIsOffered
  <1> SUFFICES ASSUME visit = NoVisit PROVE PublishedIsOffered
    OBVIOUS
  <1>1. visit.site = ""
    BY Zenon DEF NoVisit
  <1> QED
    BY <1>1, Zenon DEF PublishedIsOffered

LEMMA OfferedKeeps ==
  ASSUME DiscoverInv, FlowSites, PublishedIsOffered, [Next]_vars
  PROVE  PublishedIsOffered'
  <1>0. ASSUME UNCHANGED <<visit, todo>> PROVE PublishedIsOffered'
    <2>1. PublishedIsOffered' <=> OffersOf(visit, todo)'
      BY OffersAre, PTL
    <2>2. visit' = visit /\ todo' = todo
      BY <1>0
    <2> QED
      BY <2>1, <2>2, OffersAre
  <1>1. visit' = NoVisit => PublishedIsOffered'
    <2>1. (visit = NoVisit)' => PublishedIsOffered'
      BY NoVisitIsFine, PTL
    <2> QED
      BY <2>1
  <1>2. CASE VisitSite
    BY <1>2, VisitStep
  <1>3. CASE NoSite \/ MineSocial \/ AppendLead \/ SortLeads
    BY <1>1, <1>3 DEF NoSite, MineSocial, AppendLead, SortLeads
  <1>4. CASE ValidatePayload \/ AskMaps \/ AskRegistry \/ SourceRaises \/ MergeArrival \/ DirectoriesReturn
    BY <1>0, <1>4 DEF ValidatePayload, AskMaps, AskRegistry, SourceRaises, MergeArrival, DirectoriesReturn,
                      SourceReturns
  <1>5. CASE CallDirectory \/ DirectoryReturns \/ DirectoryRaises \/ Discovered \/ ResolveWebsites
    BY <1>0, <1>5 DEF CallDirectory, DirectoryReturns, DirectoryRaises, LeaveDirectory, Discovered, ResolveWebsites
  <1>6. CASE VisitRaises \/ EnrichFromRegistry \/ Qualify
    BY <1>0, <1>6 DEF VisitRaises, EnrichFromRegistry, Qualify
  <1>7. CASE UNCHANGED vars
    BY <1>0, <1>7 DEF vars
  <1> QED
    BY <1>2, <1>3, <1>4, <1>5, <1>6, <1>7 DEF Next

-----------------------------------------------------------------------------
(* The theorems.                                                             *)

\* One company is one business of the list and one member of a directory, whatever the
\* sources and pages say, however they overlap and in whatever order they come; a source
\* that fails costs only its own rows, and in the list cut to the limit none is crowded
\* out by another.
THEOREM BusinessesAreOneAlways == CollectSpec => []BusinessesAreOne
  <1>1. CollectInit => DiscoverInv /\ LeadInv
    BY DiscoverInit, LeadInit DEF CollectInit
  <1>2. [CollectNext]_collectVars => [Next]_vars
    BY DEF CollectNext, LeadStep, ShopStep, HealthStep, MailStep, collectVars
  <1>3. DiscoverInv /\ LeadInv => BusinessesAreOne
    <2> SUFFICES ASSUME DiscoverInv, LeadInv PROVE BusinessesAreOne
      OBVIOUS
    <2>1. CrawlInv /\ IndexOK(found, added) /\ IndexOK(index, merged)
      BY DEF DiscoverInv, CrawlInv
    <2>2. IndexIsPartition(found, added) /\ IndexIsPartition(index, merged)
      BY <2>1, IndexPartitions
    <2>3. TypeOK
      <3>1. CrawlTypeOK
        <4>1. \A i \in DOMAIN rows : DOMAIN rows[i] = {"name", "site", "email", "from"}
          BY <2>1 DEF CrawlInv, RowList, RowFields, ToSet
        <4> QED
          BY <2>1, <4>1 DEF CrawlInv, CrawlTypeOK, PassBound
      <3> QED
        BY <3>1 DEF DiscoverInv, TypeOK, Stages, LeadInv, LeadsOK, Confidences
    <2>4. MembersAreOne
      BY <2>1, <2>2 DEF MembersAreOne, CrawlInv
    <2>5. BrokenSourceIsAlone
      <3> SUFFICES ASSUME stage = "resolve" PROVE \A r \in returned : \E m \in merged : m.item = r
        BY DEF BrokenSourceIsAlone
      <3>1. arriving = <<>> /\ gathered = <<>> /\ NothingIsDropped
        BY DEF DiscoverInv, Early
      <3> QED
        BY <3>1, EmptyRows DEF NothingIsDropped
    <2> QED
      BY <2>2, <2>3, <2>4, <2>5 DEF BusinessesAreOne, CompaniesAreOne, DiscoverInv
  <1> QED
    BY <1>1, <1>2, <1>3, DiscoverKeeps, LeadStepKeeps, PTL DEF CollectSpec

\* However many businesses and sources name an address it is one lead, a lead is
\* trusted only as far as its server has answered, none is lost, and a hook is about
\* the lead it is attached to: for any payload, sources, sites, servers and replies,
\* any number of leads and any bounds on those that are enriched and qualified.
THEOREM LeadsAreSoundAlways == CollectSpec => []LeadsAreSound
  <1>1. CollectInit => LeadInv
    BY LeadInit DEF CollectInit
  <1>2. [CollectNext]_collectVars => [Next]_vars
    BY DEF CollectNext, LeadStep, ShopStep, HealthStep, MailStep, collectVars
  <1>3. LeadInv => LeadsAreSound
    BY DEF LeadInv, LeadsAreSound, NothingIsLost, SeenFits, InOrder, Late
  <1> QED
    BY <1>1, <1>2, <1>3, LeadStepKeeps, PTL DEF CollectSpec

\* What the directories, the registry and the sites show is read as what it is: no row
\* mixes two members or has the address of the directory, a list that is shorter than
\* asked for is explained by a warning, and a site is asked for nothing but what it
\* publishes as long as that is within reach; for any pages, answers and bounds.
THEOREM ReadingsAreRightAlways == CollectSpec => []ReadingsAreRight
  <1> DEFINE Inv == DiscoverInv /\ GuildInv /\ ShortIsExplained /\ CrawlSites /\ FlowSites
                    /\ PublishedIsOffered
  <1>1. CollectInit => Inv
    <2> SUFFICES ASSUME Init PROVE Inv
      BY DEF CollectInit
    <2>1. missed = FALSE /\ visit = NoVisit
      BY DEF Init, CrawlInit
    <2> QED
      BY <2>1, DiscoverInit, GuildInit, SitesInit, NoVisitIsFine DEF ShortIsExplained
  <1>2. [CollectNext]_collectVars => [Next]_vars
    BY DEF CollectNext, LeadStep, ShopStep, HealthStep, MailStep, collectVars
  <1>3. Inv /\ [Next]_vars => Inv'
    BY DiscoverKeeps, GuildKeeps, ShortKeeps, CrawlSitesKeep, FlowSitesKeep, OfferedKeeps
  <1>4. Inv => ReadingsAreRight
    <2>1. Inv => limit \in Nat \ {0}
      BY DEF DiscoverInv, CrawlInv
    <2>2. Inv => GuildIsNoMember /\ ShortIsExplained /\ PublishedIsOffered
      BY Zenon DEF GuildInv, GuildIsNoMember
    <2> QED
      BY <2>1, <2>2, RowsOwn, ScanExplained, Zenon DEF ReadingsAreRight
  <1> HIDE DEF Inv
  <1> QED
    BY <1>1, <1>2, <1>3, <1>4, PTL DEF CollectSpec

\* Nobody gets a message more often than answers were lost and once more, and a run
\* that is told to have sent it has: for any recipients, retries and replies.
THEOREM MailIsCountedAlways == CollectSpec => []Mail!MailIsCounted
  <1>1. CollectInit => MailInv
    BY MailInit DEF CollectInit
  <1>2. MailInv /\ [CollectNext]_collectVars => MailInv'
    <2>1. UNCHANGED mail => (MailInv' <=> MailInv)
      BY DEF MailInv, Unsent, Reached
    <2> QED
      BY <2>1, MailStepKeeps DEF CollectNext, LeadStep, ShopStep, HealthStep, MailStep, collectVars
  <1>3. MailInv => Mail!MailIsCounted
    BY DEF MailInv, Mail!MailIsCounted, Reached
  <1> QED
    BY <1>1, <1>2, <1>3, PTL DEF CollectSpec

\* In whatever order the files of a request come and whatever else is among them, a run
\* reads of each role the last file the caller has named so.
THEOREM UploadIsWholeAlways == CollectSpec => []Figures!UploadIsWhole
  <1>1. CollectInit => UploadInv
    <2>1. Requests # {}
      BY HealthAssumption DEF Figures!HealthAssumption
    <2>2. Figures!Checks # {}
      BY <2>1 DEF Figures!Checks
    <2>3. (CHOOSE h \in Figures!Checks : TRUE) \in Figures!Checks
      BY <2>2
    <2> QED
      BY <2>3, UploadInit DEF CollectInit
  <1>2. UploadInv /\ [CollectNext]_collectVars => UploadInv'
    <2>1. UNCHANGED health => (UploadInv' <=> UploadInv)
      BY DEF UploadInv
    <2> QED
      BY <2>1, UploadKeeps DEF CollectNext, LeadStep, ShopStep, HealthStep, MailStep, collectVars
  <1>3. UploadInv => Figures!UploadIsWhole
    <2> SUFFICES ASSUME UploadInv, health.stage = "run" \/ health.result = "report"
                 PROVE  /\ Figures!Required \subseteq DOMAIN health.disk
                        /\ \A r \in Figures!Roles :
                             IF Figures!OfRole(r) = {} THEN r \notin DOMAIN health.disk
                             ELSE health.disk[r] = health.files[Figures!Max(Figures!OfRole(r))]
                        /\ health.disk["sales"].words \cap {"return", "cost", "ads"} = {}
      BY DEF UploadInv, Figures!UploadIsWhole
    <2>1. LastOfRoles(health.disk, health.files, Len(health.files)) /\ Figures!Required \subseteq DOMAIN health.disk
      BY DEF UploadInv
    <2>2. DOMAIN health.files = 1..Len(health.files)
      BY ListHas DEF UploadInv
    <2>3. \A r : Figures!OfRole(r) = RolePlaces(health.files, r, Len(health.files))
      BY <2>2 DEF Figures!OfRole, RolePlaces
    <2>4. Figures!RoleOf(health.disk["sales"].words) = "sales"
      BY <2>1 DEF LastOfRoles, Figures!Required
    <2>5. health.disk["sales"].words \cap {"return", "cost", "ads"} = {}
      BY <2>4 DEF Figures!RoleOf
    <2> QED
      BY <2>1, <2>3, <2>5 DEF LastOfRoles
  <1> QED
    BY <1>1, <1>2, <1>3, PTL DEF CollectSpec
=============================================================================
