---------------------------- MODULE ShopsProofs ----------------------------
(* Proofs about Collections, continued: the sellers of a search, for any      *)
(* market, limits and blocks, the figures of an article, for any request of   *)
(* any files, and everything the collecting flows promise together.           *)
EXTENDS CollectionsProofs

-----------------------------------------------------------------------------
(* The sellers of a search.                                                  *)

LEMMA SameSelected == \A s, P : Shops!Selected(s, P) = Selected(s, P)
  BY Zenon DEF Shops!Selected, Selected, Shops!Ordered, Ordered, Shops!Cardinality, Cardinality

LEMMA SameLists ==
  /\ \A s : Shops!ToSet(s) = ToSet(s)
  /\ \A s : Shops!IsList(s) <=> IsList(s)
  <1>1. \A s : Shops!ToSet(s) = ToSet(s)
    BY Zenon DEF Shops!ToSet, ToSet
  <1> QED
    BY <1>1, Zenon DEF Shops!IsList, IsList

LEMMA SameShopSizes == \A S : Shops!Cardinality(S) = Cardinality(S)
  BY Zenon DEF Shops!Cardinality, Cardinality

LEMMA JoinHas ==
  ASSUME NEW s, IsList(s), NEW t, IsList(t)
  PROVE  /\ IsList(s \o t) /\ Len(s \o t) = Len(s) + Len(t)
         /\ \A a \in 1..Len(s) : (s \o t)[a] = s[a]
         /\ \A b \in 1..Len(t) : (s \o t)[Len(s) + b] = t[b]
  <1>1. Len(s) \in Nat /\ Len(t) \in Nat /\ s \in Seq(ToSet(s)) /\ t \in Seq(ToSet(t))
    BY ListHas DEF IsList
  <1> DEFINE S == ToSet(s) \cup ToSet(t)
  <1>2. s \in Seq(S) /\ t \in Seq(S)
    <2>1. ToSet(s) \subseteq S /\ ToSet(t) \subseteq S
      OBVIOUS
    <2> HIDE DEF S
    <2> QED
      BY <1>1, <2>1, SeqDef
  <1> HIDE DEF S
  <1>3. /\ s \o t \in Seq(S) /\ Len(s \o t) = Len(s) + Len(t)
        /\ \A i \in 1..Len(s) + Len(t) : (s \o t)[i] = IF i <= Len(s) THEN s[i] ELSE t[i - Len(s)]
    BY <1>2, ConcatProperties
  <1>4. IsList(s \o t)
    BY JoinIs
  <1>5. \A a \in 1..Len(s) : (s \o t)[a] = s[a]
    BY <1>1, <1>3
  <1>6. \A b \in 1..Len(t) : (s \o t)[Len(s) + b] = t[b]
    <2> TAKE b \in 1..Len(t)
    <2>1. Len(s) + b \in 1..Len(s) + Len(t) /\ ~(Len(s) + b <= Len(s)) /\ Len(s) + b - Len(s) = b
      BY <1>1
    <2> QED
      BY <1>3, <2>1
  <1> QED
    BY <1>3, <1>4, <1>5, <1>6

\* The places of a selection rise.
LEMMA SelectedRises ==
  ASSUME NEW s, NEW n \in Nat, NEW P \in SUBSET (1..n)
  PROVE  \E where : /\ SelectsBy(where, Selected(s, P), s, P)
                    /\ \A a, b \in DOMAIN Selected(s, P) : a < b => where[a] < where[b]
  <1> DEFINE c == Cardinality(P)
             R == {p \in P \X P : p[1] < p[2]}
             where == Ordered(P, R)
             r == Selected(s, P)
  <1>1. IsFiniteSet(P) /\ c \in Nat
    BY SelectedIs
  <1>2. \A i, j \in P : <<i, j>> \in R <=> i < j
    OBVIOUS
  <1>3. r = [k \in DOMAIN where |-> s[where[k]]]
    BY DEF Selected
  <1> HIDE DEF R, r, where
  <1>4. \A i \in P : i \in Nat
    OBVIOUS
  <1>5. /\ where \in [1..c -> P]
        /\ \A a, b \in 1..c : where[a] = where[b] => a = b
        /\ \A a, b \in 1..c : a < b => <<where[a], where[b]>> \in R
        /\ \A i \in P : \E a \in 1..c : where[a] = i
    <2>1. TotalOn(P, R)
      BY <1>2, <1>4 DEF TotalOn
    <2>2. InOrderOf(Ordered(P, R), P, R)
      BY <1>1, <2>1, OrderIs
    <2> QED
      BY <2>2 DEF InOrderOf, where
  <1>6. DOMAIN r = 1..c /\ r = [k \in DOMAIN r |-> r[k]] /\ \A k \in 1..c : r[k] = s[where[k]]
    BY <1>3, <1>5
  <1>7. IsList(r) /\ Len(r) = c
    BY <1>1, <1>6, ListIs
  <1>8. SelectsBy(where, r, s, P)
    BY <1>5, <1>6, <1>7 DEF SelectsBy
  <1>9. \A a, b \in DOMAIN r : a < b => where[a] < where[b]
    BY <1>2, <1>5, <1>6
  <1> QED
    BY <1>8, <1>9 DEF r

\* The shops of the first n elements.
Seen(s, n) == {ShopOf[s[i]] : i \in 1..n}

\* Each of the products shows a shop where the first n offers show it, and behind the
\* same others.
Traces(products, all, n, none) ==
  /\ \A a \in DOMAIN products :
       \E i \in 1..n : /\ ShopOf[all[i]] = ShopOf[products[a]]
                       /\ Seen(all, i) \ {none} = Seen(products, a)
  /\ Seen(products, Len(products)) = Seen(all, n) \ {none}

LEMMA SeenJoined ==
  ASSUME NEW s, IsList(s), NEW t, IsList(t)
  PROVE  /\ \A a \in 1..Len(s) : Seen(s \o t, a) = Seen(s, a)
         /\ \A b \in 0..Len(t) : Seen(s \o t, Len(s) + b) = Seen(s, Len(s)) \cup Seen(t, b)
  <1> DEFINE u == s \o t
             m == Len(s)
  <1>1. m \in Nat /\ Len(t) \in Nat
    BY ListHas
  <1>2. /\ \A a \in 1..m : u[a] = s[a]
        /\ \A b \in 1..Len(t) : u[m + b] = t[b]
    BY JoinHas
  <1> HIDE DEF u, m
  <1>3. \A a \in 1..m : Seen(u, a) = Seen(s, a)
    BY <1>1, <1>2 DEF Seen
  <1>4. ASSUME NEW b \in 0..Len(t)
        PROVE  Seen(u, m + b) = Seen(s, m) \cup Seen(t, b)
    <2>1. \A i \in 1..m + b : i \in 1..m \/ \E c \in 1..b : i = m + c
      <3> TAKE i \in 1..m + b
      <3>1. CASE i <= m
        BY <1>1, <3>1
      <3>2. CASE i > m
        <4>1. i - m \in 1..b /\ i = m + (i - m)
          BY <1>1, <3>2
        <4> QED
          BY <4>1
      <3> QED
        BY <1>1, <3>1, <3>2
    <2>2. \A c \in 1..b : m + c \in 1..m + b /\ c \in 1..Len(t)
      BY <1>1
    <2>3. \A i \in 1..m : i \in 1..m + b
      BY <1>1
    <2> QED
      BY <1>2, <2>1, <2>2, <2>3 DEF Seen
  <1> QED
    BY <1>3, <1>4 DEF u, m

\* A page more of the offers, of which those without ids are passed over.
LEMMA TraceGrows ==
  ASSUME NEW all, IsList(all), NEW products, IsList(products),
         NEW from \in Nat, NEW to \in Nat, from <= to, to <= Len(all), NEW none, Traces(products, all, from, none),
         NEW P, P = {i \in DOMAIN all : from < i /\ i <= to /\ ShopOf[all[i]] # none}
  PROVE  /\ IsList(products \o Selected(all, P))
         /\ Traces(products \o Selected(all, P), all, to, none)
  <1> DEFINE r == Selected(all, P)
             q == products \o r
             m == Len(products)
             T(i) == {ShopOf[all[k]] : k \in {k \in P : k <= i}}
  <1>1. Len(all) \in Nat /\ DOMAIN all = 1..Len(all) /\ m \in Nat /\ DOMAIN products = 1..m
    BY ListHas
  <1>2. P \in SUBSET (1..Len(all)) /\ \A i \in P : from < i /\ i <= to /\ i \in Nat
    BY <1>1
  <1>3. IsList(r) /\ Len(r) \in Nat /\ DOMAIN r = 1..Len(r)
    BY <1>1, <1>2, SelectedIs, ListHas
  <1>4. PICK where : /\ SelectsBy(where, r, all, P)
                     /\ \A a, b \in DOMAIN r : a < b => where[a] < where[b]
    BY <1>1, <1>2, SelectedRises
  <1>5. IsList(q) /\ Len(q) = m + Len(r)
    BY <1>3, JoinHas
  <1>6. /\ \A a \in 1..m : q[a] = products[a] /\ Seen(q, a) = Seen(products, a)
        /\ \A b \in 1..Len(r) : q[m + b] = r[b]
        /\ \A b \in 0..Len(r) : Seen(q, m + b) = Seen(products, m) \cup Seen(r, b)
    <2>1. /\ \A a \in 1..m : q[a] = products[a]
          /\ \A b \in 1..Len(r) : q[m + b] = r[b]
      BY <1>3, JoinHas
    <2>2. /\ \A a \in 1..m : Seen(q, a) = Seen(products, a)
          /\ \A b \in 0..Len(r) : Seen(q, m + b) = Seen(products, m) \cup Seen(r, b)
      <3> HIDE DEF r
      <3> QED
        BY <1>3, SeenJoined
    <2> QED
      BY <2>1, <2>2
  <1> HIDE DEF r, q, m
  <1>7. /\ \A a \in 1..Len(r) : where[a] \in P /\ r[a] = all[where[a]]
        /\ \A i \in P : \E a \in 1..Len(r) : where[a] = i
        /\ \A a, b \in 1..Len(r) : a < b => where[a] < where[b]
    BY <1>3, <1>4 DEF SelectsBy
  <1>8. Seen(products, m) = Seen(all, from) \ {none}
    BY DEF Traces, m
  <1>9. \A i \in 1..Len(all) : i \in P <=> from < i /\ i <= to /\ ShopOf[all[i]] # none
    BY <1>1
  <1>10. ASSUME NEW i \in from..to
         PROVE  Seen(all, i) \ {none} = (Seen(all, from) \ {none}) \cup T(i)
    <2>1. \A k \in 1..i : k \in 1..from \/ (from < k /\ k <= to /\ k \in 1..Len(all))
      BY <1>1
    <2>2. \A k \in 1..from : k \in 1..i
      OBVIOUS
    <2>3. \A k \in P : k <= i => k \in 1..i /\ ShopOf[all[k]] # none
      BY <1>2, <1>9
    <2>4. \A k \in 1..i : k <= i
      OBVIOUS
    <2> QED
      BY <1>9, <2>1, <2>2, <2>3, <2>4 DEF Seen
  <1>11. ASSUME NEW b \in 1..Len(r) PROVE Seen(r, b) = T(where[b])
    <2>1. \A c \in 1..b : c \in 1..Len(r) /\ where[c] \in P /\ where[c] <= where[b] /\ r[c] = all[where[c]]
      <3> TAKE c \in 1..b
      <3>1. c \in 1..Len(r) /\ (c < b \/ c = b)
        BY <1>3
      <3>2. where[c] \in Nat /\ where[b] \in Nat /\ where[c] \in P
        BY <1>2, <1>7, <3>1
      <3>3. where[c] < where[b] \/ where[c] = where[b]
        BY <1>7, <3>1
      <3> QED
        BY <1>7, <3>1, <3>2, <3>3
    <2>2. \A k \in P : k <= where[b] => \E c \in 1..b : where[c] = k
      <3> SUFFICES ASSUME NEW k \in P, k <= where[b] PROVE \E c \in 1..b : where[c] = k
        OBVIOUS
      <3>1. PICK c \in 1..Len(r) : where[c] = k
        BY <1>7
      <3>2. ~(b < c)
        <4>1. b < c => where[b] < k
          BY <1>7, <3>1
        <4>2. where[b] \in Nat /\ k \in Nat
          BY <1>2, <1>7
        <4> QED
          BY <4>1, <4>2
      <3> QED
        BY <1>3, <3>1, <3>2
    <2>3. \A c \in 1..b : ShopOf[r[c]] \in T(where[b])
      BY <2>1
    <2>4. \A x \in T(where[b]) : \E c \in 1..b : x = ShopOf[r[c]]
      BY <2>1, <2>2
    <2> HIDE DEF T
    <2> QED
      BY <2>3, <2>4 DEF Seen
  <1>12. Seen(r, Len(r)) = T(to)
    <2>1. \A c \in 1..Len(r) : ShopOf[r[c]] \in T(to)
      BY <1>2, <1>7
    <2>2. \A x \in T(to) : \E c \in 1..Len(r) : x = ShopOf[r[c]]
      BY <1>7
    <2> HIDE DEF T
    <2> QED
      BY <2>1, <2>2 DEF Seen
  <1>13. Seen(q, Len(q)) = Seen(all, to) \ {none}
    <2>1. Seen(q, m + Len(r)) = Seen(products, m) \cup Seen(r, Len(r))
      BY <1>3, <1>6
    <2>2. Seen(all, to) \ {none} = (Seen(all, from) \ {none}) \cup T(to)
      BY <1>10
    <2> HIDE DEF T
    <2> QED
      BY <1>5, <1>8, <1>12, <2>1, <2>2
  <1>14. ASSUME NEW a \in 1..m + Len(r)
         PROVE  \E i \in 1..to : ShopOf[all[i]] = ShopOf[q[a]] /\ Seen(all, i) \ {none} = Seen(q, a)
    <2>1. CASE a \in 1..m
      <3>1. PICK i \in 1..from : ShopOf[all[i]] = ShopOf[products[a]] /\ Seen(all, i) \ {none} = Seen(products, a)
        BY <1>1, <2>1 DEF Traces
      <3>2. i \in 1..to
        OBVIOUS
      <3> QED
        BY <1>6, <2>1, <3>1, <3>2
    <2>2. CASE ~(a \in 1..m)
      <3> DEFINE b == a - m
      <3>1. b \in 1..Len(r) /\ b \in 0..Len(r) /\ a = m + b
        BY <1>1, <1>3, <2>2
      <3> HIDE DEF b
      <3>2. where[b] \in P /\ r[b] = all[where[b]] /\ q[a] = r[b]
        BY <1>6, <1>7, <3>1
      <3>3. where[b] \in from..to /\ where[b] \in 1..to
        BY <1>2, <3>2
      <3>4. Seen(all, where[b]) \ {none} = (Seen(all, from) \ {none}) \cup T(where[b])
        BY <1>10, <3>3
      <3>5. Seen(q, a) = Seen(products, m) \cup T(where[b])
        BY <1>6, <1>11, <3>1
      <3> HIDE DEF T
      <3>6. Seen(all, where[b]) \ {none} = Seen(q, a)
        BY <1>8, <3>4, <3>5
      <3> QED
        BY <3>2, <3>3, <3>6
    <2> QED
      BY <2>1, <2>2
  <1>15. DOMAIN q = 1..m + Len(r)
    BY <1>5, ListHas
  <1>16. Traces(q, all, to, none)
    BY <1>13, <1>14, <1>15, Zenon DEF Traces
  <1> QED
    BY <1>5, <1>16 DEF q, r

LEMMA AppendHas ==
  ASSUME NEW s, IsList(s), NEW x
  PROVE  /\ IsList(Append(s, x)) /\ Len(Append(s, x)) = Len(s) + 1
         /\ \A i \in 1..Len(s) : Append(s, x)[i] = s[i]
         /\ Append(s, x)[Len(s) + 1] = x
  <1> DEFINE S == ToSet(s) \cup {x}
             u == Append(s, x)
  <1>1. Len(s) \in Nat /\ s \in Seq(S) /\ x \in S
    <2>1. Len(s) \in Nat /\ s \in Seq(ToSet(s))
      BY ListHas DEF IsList
    <2>2. ToSet(s) \subseteq S /\ x \in S
      OBVIOUS
    <2> HIDE DEF S
    <2> QED
      BY <2>1, <2>2, SeqDef
  <1> HIDE DEF S
  <1>2. /\ u \in Seq(S) /\ Len(u) = Len(s) + 1
        /\ \A i \in 1..Len(s) : u[i] = s[i]
        /\ u[Len(s) + 1] = x
    BY <1>1, AppendProperties
  <1> HIDE DEF u
  <1>3. DOMAIN u = 1..Len(s) + 1 /\ u = [i \in DOMAIN u |-> u[i]]
    <2>1. u \in [1..Len(u) -> S]
      BY <1>2, LenProperties
    <2> QED
      BY <1>2, <2>1
  <1>4. IsList(u)
    BY <1>1, <1>3, ListIs
  <1> QED
    BY <1>2, <1>4 DEF u

\* The shops of the first k sellers.
SoldBy(sellers, k) == {sellers[j].shop : j \in 1..k}

\* The sellers are the shops of the first products, each once and in their order.
SellersFit(products, at_, sellers) ==
  /\ \A i, j \in DOMAIN sellers : sellers[i].shop = sellers[j].shop => i = j
  /\ SoldBy(sellers, Len(sellers)) = Seen(products, at_)
  /\ \A k \in DOMAIN sellers :
       \E a \in 1..at_ : ShopOf[products[a]] = sellers[k].shop /\ Seen(products, a) = SoldBy(sellers, k)

LEMMA SeenOneMore ==
  ASSUME NEW s, NEW n \in Nat
  PROVE  Seen(s, n + 1) = Seen(s, n) \cup {ShopOf[s[n + 1]]}
  <1>1. \A i \in 1..n + 1 : i \in 1..n \/ i = n + 1
    OBVIOUS
  <1>2. \A i \in 1..n : i \in 1..n + 1
    OBVIOUS
  <1>3. n + 1 \in 1..n + 1
    OBVIOUS
  <1> QED
    BY <1>1, <1>2, <1>3 DEF Seen

LEMMA SellerKnown ==
  ASSUME NEW products, IsList(products), NEW sellers, IsList(sellers), NEW n \in Nat,
         SellersFit(products, n, sellers),
         NEW i \in DOMAIN sellers, sellers[i].shop = ShopOf[products[n + 1]]
  PROVE  SellersFit(products, n + 1, sellers)
  <1>1. DOMAIN sellers = 1..Len(sellers) /\ Len(sellers) \in Nat
    BY ListHas
  <1>2. Seen(products, n + 1) = Seen(products, n) \cup {ShopOf[products[n + 1]]}
    BY SeenOneMore
  <1>3. ShopOf[products[n + 1]] \in Seen(products, n)
    BY <1>1 DEF SellersFit, SoldBy
  <1>4. Seen(products, n + 1) = Seen(products, n)
    BY <1>2, <1>3
  <1>5. \A a \in 1..n : a \in 1..n + 1
    OBVIOUS
  <1> QED
    BY <1>4, <1>5 DEF SellersFit

LEMMA SellerAdded ==
  ASSUME NEW products, IsList(products), NEW sellers, IsList(sellers), NEW n \in Nat,
         SellersFit(products, n, sellers), NEW s, s.shop = ShopOf[products[n + 1]],
         \A i \in DOMAIN sellers : sellers[i].shop # s.shop
  PROVE  SellersFit(products, n + 1, Append(sellers, s))
  <1> DEFINE u == Append(sellers, s)
             l == Len(sellers)
  <1>1. DOMAIN sellers = 1..l /\ l \in Nat
    BY ListHas
  <1>2. /\ IsList(u) /\ Len(u) = l + 1 /\ \A i \in 1..l : u[i] = sellers[i]
        /\ u[l + 1] = s
    BY AppendHas
  <1> HIDE DEF u, l
  <1>3. DOMAIN u = 1..l + 1
    BY <1>2, ListHas
  <1>4. \A i \in 1..l + 1 : i \in 1..l \/ i = l + 1
    BY <1>1
  <1>5. \A i \in 1..l : i \in 1..l + 1
    BY <1>1
  <1>6. l + 1 \in 1..l + 1 /\ ~(l + 1 \in 1..l)
    BY <1>1
  <1>7. \A k \in 1..l : SoldBy(u, k) = SoldBy(sellers, k)
    <2> TAKE k \in 1..l
    <2>1. \A j \in 1..k : u[j] = sellers[j]
      BY <1>1, <1>2
    <2> QED
      BY <2>1 DEF SoldBy
  <1>8. SoldBy(u, l + 1) = SoldBy(sellers, l) \cup {s.shop}
    BY <1>2, <1>4, <1>5, <1>6 DEF SoldBy
  <1>9. Seen(products, n + 1) = Seen(products, n) \cup {s.shop}
    BY SeenOneMore
  <1>10. SoldBy(u, l + 1) = Seen(products, n + 1)
    BY <1>8, <1>9 DEF SellersFit, l
  <1>11. ASSUME NEW k \in 1..l + 1
         PROVE  \E a \in 1..n + 1 : ShopOf[products[a]] = u[k].shop /\ Seen(products, a) = SoldBy(u, k)
    <2>1. CASE k \in 1..l
      <3>1. PICK a \in 1..n : ShopOf[products[a]] = sellers[k].shop /\ Seen(products, a) = SoldBy(sellers, k)
        BY <1>1, <2>1 DEF SellersFit
      <3>2. a \in 1..n + 1
        OBVIOUS
      <3> QED
        BY <1>2, <1>7, <2>1, <3>1, <3>2
    <2>2. CASE k = l + 1
      <3>1. n + 1 \in 1..n + 1
        OBVIOUS
      <3> QED
        BY <1>2, <1>10, <2>2, <3>1
    <2> QED
      BY <1>4, <2>1, <2>2
  <1>12. \A i, j \in 1..l + 1 : u[i].shop = u[j].shop => i = j
    <2>1. \A i, j \in 1..l : sellers[i].shop = sellers[j].shop => i = j
      BY <1>1 DEF SellersFit
    <2>2. \A i \in 1..l : u[i] = sellers[i] /\ sellers[i].shop # s.shop
      BY <1>1, <1>2
    <2> SUFFICES ASSUME NEW i \in 1..l + 1, NEW j \in 1..l + 1, u[i].shop = u[j].shop PROVE i = j
      OBVIOUS
    <2> QED
      BY <1>2, <1>4, <2>1, <2>2
  <1> QED
    BY <1>2, <1>3, <1>10, <1>11, <1>12 DEF SellersFit, u

\* When all products have been looked at, there are as many sellers as shops.
LEMMA AllSold ==
  ASSUME NEW products, IsList(products), NEW sellers, IsList(sellers),
         SellersFit(products, Len(products), sellers)
  PROVE  /\ Shops!ShopsOf(products) = SoldBy(sellers, Len(sellers))
         /\ Cardinality(Shops!ShopsOf(products)) = Len(sellers)
  <1> DEFINE l == Len(sellers)
             S == SoldBy(sellers, l)
             f == [i \in 1..l |-> sellers[i].shop]
  <1>1. l \in Nat /\ DOMAIN sellers = 1..l /\ IsFiniteSet(1..l) /\ Cardinality(1..l) = l
    BY ListHas
  <1>2. Shops!ShopsOf(products) = S
    <2>1. ToSet(products) = {products[i] : i \in 1..Len(products)}
      BY ListHas
    <2>2. Shops!ToSet(products) = ToSet(products)
      BY SameLists
    <2>3. Shops!ShopsOf(products) = Seen(products, Len(products))
      BY <2>1, <2>2 DEF Shops!ShopsOf, Seen
    <2> QED
      BY <2>3 DEF SellersFit
  <1>3. f \in Bijection(1..l, S)
    <2>1. \A i, j \in 1..l : f[i] = f[j] => i = j
      BY <1>1 DEF SellersFit
    <2>2. f \in [1..l -> S] /\ \A x \in S : \E i \in 1..l : f[i] = x
      BY DEF SoldBy
    <2> HIDE DEF f, S, l
    <2> QED
      BY <2>1, <2>2 DEF Bijection, Injection, Surjection, IsInjective
  <1> HIDE DEF f, S, l
  <1>4. IsFiniteSet(S) /\ Cardinality(S) = l
    <2>1. ExistsBijection(1..l, S)
      BY <1>3 DEF ExistsBijection
    <2> QED
      BY <1>1, <2>1, FS_Bijection
  <1> QED
    BY <1>2, <1>4 DEF S, l

-----------------------------------------------------------------------------

ShopFields ==
  {"stage", "market", "limit", "session", "known", "page", "passes", "products", "tried", "at",
   "sellers", "result"}

\* A search under way has not sold anything yet.
Searching == shop.stage \in {"session", "api", "dom", "scroll"}

ShopTypes ==
  /\ DOMAIN shop = ShopFields
  /\ shop.stage \in {"session", "api", "dom", "scroll", "sellers", "ended"}
  /\ shop.market \in Markets /\ shop.limit \in Limits
  /\ shop.page \in Nat /\ shop.passes \in Nat
  /\ IsList(shop.products) /\ IsList(shop.tried) /\ IsList(shop.sellers)
  /\ shop.at \in 0..Len(shop.products) /\ Len(shop.sellers) <= shop.limit
  /\ shop.result \in {"none", "error", "sellers"}
  /\ shop.stage # "ended" => shop.result = "none"
  /\ Searching => shop.at = 0 /\ shop.sellers = <<>>
  /\ shop.stage = "scroll" => shop.page + 1 \in DOMAIN shop.market.pages

LEMMA ShopConstants ==
  /\ PageSize \in Nat \ {0} /\ MinPages \in Nat \ {0} /\ Spread \in Nat \ {0}
  /\ MaxScrolls \in Nat \ {0, 1} /\ MaxFails \in Nat \ {0} /\ ExtraPages \in Nat
  /\ \A l \in Limits : l \in Nat \ {0}
  BY ShopAssumption DEF Shops!ShopAssumption

LEMMA MarketIs ==
  ASSUME NEW m \in Markets
  PROVE  /\ IsList(m.offers) /\ IsList(m.pages)
         /\ \A k \in DOMAIN m.pages :
              /\ IsList(m.pages[k]) /\ \A j \in DOMAIN m.pages[k] : IsList(m.pages[k][j])
  <1>1. /\ Shops!IsList(m.offers) /\ Shops!IsList(m.pages)
        /\ \A passes \in Shops!ToSet(m.pages) :
             Shops!IsList(passes) /\ \A cards \in Shops!ToSet(passes) : Shops!IsList(cards)
    BY ShopAssumption DEF Shops!ShopAssumption
  <1>2. /\ IsList(m.offers) /\ IsList(m.pages)
        /\ \A passes \in ToSet(m.pages) : IsList(passes) /\ \A cards \in ToSet(passes) : IsList(cards)
    BY <1>1, SameLists
  <1>3. \A k \in DOMAIN m.pages : m.pages[k] \in ToSet(m.pages)
    BY DEF ToSet
  <1>4. \A k \in DOMAIN m.pages : \A j \in DOMAIN m.pages[k] : m.pages[k][j] \in ToSet(m.pages[k])
    BY DEF ToSet
  <1> QED
    BY <1>2, <1>3, <1>4

LEMMA BudgetIs ==
  ASSUME ShopTypes
  PROVE  /\ Shops!MaxSearchPages \in Nat \ {0} /\ shop.limit \in Nat \ {0}
         /\ (shop'.limit = shop.limit => Shops!MaxSearchPages' = Shops!MaxSearchPages)
  <1>1. shop.limit \in Nat \ {0}
    BY ShopConstants DEF ShopTypes
  <1>2. shop.limit \div Spread \in Int
    BY <1>1, ShopConstants
  <1> QED
    BY <1>1, <1>2, ShopConstants DEF Shops!MaxSearchPages

SameSearch == shop'.market = shop.market /\ shop'.limit = shop.limit
SameFound == shop'.products = shop.products /\ shop'.at = shop.at /\ shop'.sellers = shop.sellers
TriedOnce(how) ==
  /\ IsList(shop'.tried) /\ Len(shop'.tried) = Len(shop.tried) + 1
  /\ \A i \in 1..Len(shop.tried) : shop'.tried[i] = shop.tried[i]
  /\ LET t == shop'.tried[Len(shop.tried) + 1]
     IN t.by = shop.stage /\ t.page = shop.page /\ t.how = how

LEMMA TriedIs ==
  ASSUME ShopTypes, NEW how, shop'.tried = Shops!Tried(how)
  PROVE  TriedOnce(how)
  <1> DEFINE t == [by |-> shop.stage, page |-> shop.page, how |-> how]
  <1>1. shop'.tried = Append(shop.tried, t) /\ IsList(shop.tried)
    BY DEF Shops!Tried, ShopTypes
  <1>2. t.by = shop.stage /\ t.page = shop.page /\ t.how = how
    OBVIOUS
  <1> HIDE DEF t
  <1> QED
    BY <1>1, <1>2, AppendHas DEF TriedOnce

\* The steps, field by field.
LEMMA OpenIs ==
  ASSUME ShopTypes, Shops!OpenSession
  PROVE  /\ shop.stage = "session" /\ DOMAIN shop' = ShopFields
         /\ SameSearch /\ SameFound /\ shop'.tried = shop.tried
         /\ shop'.page = shop.page /\ shop'.passes = shop.passes
         /\ \/ shop'.stage = "api" /\ shop'.result = shop.result
            \/ shop'.stage = "ended" /\ shop'.result = "error"
  BY DEF Shops!OpenSession, Shops!At, Shops!To, Shops!Ends, ShopTypes, ShopFields, SameSearch, SameFound

LEMMA RaiseIs ==
  ASSUME ShopTypes, Shops!ScrapeRaises
  PROVE  /\ DOMAIN shop' = ShopFields
         /\ SameSearch /\ shop'.products = shop.products /\ shop'.at = shop.at /\ shop'.sellers = <<>>
         /\ shop'.tried = shop.tried /\ shop'.page = shop.page /\ shop'.passes = shop.passes
         /\ shop'.stage = "ended" /\ shop'.result = "error"
  BY DEF Shops!ScrapeRaises, Shops!Ends, ShopTypes, ShopFields, SameSearch

LEMMA ApiBlockedIs ==
  ASSUME ShopTypes, Shops!ApiBlocked
  PROVE  /\ shop.stage = "api" /\ DOMAIN shop' = ShopFields
         /\ SameSearch /\ SameFound /\ TriedOnce("blocked")
         /\ shop'.page = 0 /\ shop'.passes = shop.passes /\ shop'.result = shop.result
         /\ shop'.stage = IF shop.products = <<>> THEN "dom" ELSE "sellers"
  <1>1. /\ shop.stage = "api" /\ DOMAIN shop' = ShopFields
        /\ SameSearch /\ SameFound /\ shop'.tried = Shops!Tried("blocked")
        /\ shop'.page = 0 /\ shop'.passes = shop.passes /\ shop'.result = shop.result
        /\ shop'.stage = IF shop.products = <<>> THEN "dom" ELSE "sellers"
    BY DEF Shops!ApiBlocked, Shops!At, Shops!To, Shops!LeaveApi, ShopTypes, ShopFields, SameSearch, SameFound
  <1> QED
    BY <1>1, TriedIs

\* The offers of a page that have ids.
PageOffers(all, from, none) ==
  {i \in DOMAIN all : from < i /\ i <= from + PageSize /\ ShopOf[all[i]] # none}
NoShop == ""

LEMMA ApiPageIs ==
  ASSUME ShopTypes, Shops!ApiPage
  PROVE  LET all == shop.market.offers
             from == shop.page * PageSize
         IN  /\ shop.stage = "api" /\ DOMAIN shop' = ShopFields
             /\ SameSearch /\ shop'.at = shop.at /\ shop'.sellers = shop.sellers /\ TriedOnce("read")
             /\ shop'.products = shop.products \o Selected(all, PageOffers(all, from, NoShop))
             /\ shop'.passes = shop.passes /\ shop'.result = shop.result
             /\ IF Shops!Enough(shop'.products) \/ Len(all) < from + PageSize
                   \/ shop.page + 1 >= Shops!MaxSearchPages
                THEN /\ shop'.page = 0
                     /\ shop'.stage = IF shop'.products = <<>> THEN "dom" ELSE "sellers"
                ELSE shop'.page = shop.page + 1 /\ shop'.stage = "api"
  <1> DEFINE all == shop.market.offers
             from == shop.page * PageSize
             named == {i \in DOMAIN all : from < i /\ i <= from + PageSize /\ ShopOf[all[i]] # ""}
             found_ == shop.products \o Shops!Selected(all, named)
             tried_ == Shops!Tried("read")
             read == [shop EXCEPT !.products = found_, !.tried = tried_, !.page = @ + 1]
             leaves == Shops!Enough(found_) \/ Len(all) < from + PageSize \/ shop.page + 1 >= Shops!MaxSearchPages
  <1>1. /\ shop.stage = "api"
        /\ IF leaves THEN Shops!LeaveApi(read) ELSE shop' = read
    BY Zenon DEF Shops!ApiPage, Shops!At
  <1>2. named = PageOffers(all, from, NoShop)
    BY Zenon DEF PageOffers, NoShop
  <1>3. found_ = shop.products \o Selected(all, PageOffers(all, from, NoShop))
    BY <1>2, SameSelected, Zenon
  <1> HIDE DEF named, found_, tried_, leaves
  <1>4. /\ DOMAIN shop' = ShopFields /\ SameSearch /\ shop'.at = shop.at /\ shop'.sellers = shop.sellers
        /\ shop'.tried = tried_ /\ shop'.products = found_
        /\ shop'.passes = shop.passes /\ shop'.result = shop.result
        /\ IF leaves
           THEN shop'.page = 0 /\ shop'.stage = IF found_ = <<>> THEN "dom" ELSE "sellers"
           ELSE shop'.page = shop.page + 1 /\ shop'.stage = "api"
    BY <1>1 DEF Shops!LeaveApi, Shops!To, ShopTypes, ShopFields, SameSearch
  <1>5. TriedOnce("read")
    BY <1>4, TriedIs DEF tried_
  <1> QED
    BY <1>1, <1>3, <1>4, <1>5 DEF leaves

LEMMA DomBlockedIs ==
  ASSUME ShopTypes, Shops!DomBlocked
  PROVE  /\ shop.stage = "dom" /\ DOMAIN shop' = ShopFields /\ Shops!MayOpen
         /\ SameSearch /\ SameFound /\ TriedOnce("blocked")
         /\ shop'.page = shop.page + 1 /\ shop'.passes = shop.passes /\ shop'.result = shop.result
         /\ shop'.stage = IF Shops!InARow(MaxFails - 1) THEN "sellers" ELSE "dom"
  <1> DEFINE tried_ == Shops!Tried("blocked")
             stop == Shops!InARow(MaxFails - 1)
  <1>1. /\ shop.stage = "dom" /\ Shops!MayOpen
        /\ shop' = [[shop EXCEPT !.page = @ + 1, !.tried = tried_] EXCEPT !.stage = IF stop THEN "sellers" ELSE "dom"]
    BY Zenon DEF Shops!DomBlocked, Shops!At, Shops!To
  <1> HIDE DEF tried_, stop
  <1>2. /\ DOMAIN shop' = ShopFields /\ SameSearch /\ SameFound /\ shop'.tried = tried_
        /\ shop'.page = shop.page + 1 /\ shop'.passes = shop.passes /\ shop'.result = shop.result
        /\ shop'.stage = IF stop THEN "sellers" ELSE "dom"
    BY <1>1 DEF ShopTypes, ShopFields, SameSearch, SameFound
  <1>3. TriedOnce("blocked")
    BY <1>2, TriedIs DEF tried_
  <1> QED
    BY <1>1, <1>2, <1>3 DEF stop

LEMMA DomPageIs ==
  ASSUME ShopTypes, Shops!DomPage
  PROVE  /\ shop.stage = "dom" /\ DOMAIN shop' = ShopFields /\ Shops!MayOpen
         /\ shop.page < Len(shop.market.pages)
         /\ SameSearch /\ SameFound /\ TriedOnce("read")
         /\ shop'.page = shop.page /\ shop'.passes = 0 /\ shop'.result = shop.result
         /\ shop'.stage = "scroll"
  <1> DEFINE tried_ == Shops!Tried("read")
  <1>1. /\ shop.stage = "dom" /\ Shops!MayOpen /\ shop.page < Len(shop.market.pages)
        /\ shop' = [[shop EXCEPT !.tried = tried_, !.passes = 0] EXCEPT !.stage = "scroll"]
    BY Zenon DEF Shops!DomPage, Shops!At, Shops!To
  <1> HIDE DEF tried_
  <1>2. /\ DOMAIN shop' = ShopFields /\ SameSearch /\ SameFound /\ shop'.tried = tried_
        /\ shop'.page = shop.page /\ shop'.passes = 0 /\ shop'.result = shop.result
        /\ shop'.stage = "scroll"
    BY <1>1 DEF ShopTypes, ShopFields, SameSearch, SameFound
  <1>3. TriedOnce("read")
    BY <1>2, TriedIs DEF tried_
  <1> QED
    BY <1>1, <1>2, <1>3

\* The first places of cards that are not known.
FreshCards(cards, known) ==
  {i \in DOMAIN cards : cards[i] \notin known /\ \A j \in 1..i - 1 : cards[j] # cards[i]}

LEMMA ScrollIs ==
  ASSUME ShopTypes, Shops!Scroll
  PROVE  LET passes == shop.market.pages[shop.page + 1]
             cards == passes[shop.passes + 1]
             fresh == FreshCards(cards, ToSet(shop.products))
         IN  /\ shop.stage = "scroll" /\ DOMAIN shop' = ShopFields
             /\ shop.passes < Len(passes) /\ shop.passes < MaxScrolls
             /\ SameSearch /\ shop'.at = shop.at /\ shop'.sellers = shop.sellers /\ shop'.tried = shop.tried
             /\ shop'.products = shop.products \o Selected(cards, fresh)
             /\ shop'.passes = shop.passes + 1 /\ shop'.result = shop.result
             /\ IF fresh = {} /\ shop.passes > 0 THEN shop'.page = shop.page + 1 /\ shop'.stage = "dom"
                ELSE shop'.page = shop.page /\ shop'.stage = "scroll"
  <1> DEFINE passes == shop.market.pages[shop.page + 1]
             cards == passes[shop.passes + 1]
             fresh == {i \in DOMAIN cards : /\ cards[i] \notin Shops!ToSet(shop.products)
                                            /\ \A j \in 1..i - 1 : cards[j] # cards[i]}
             found_ == shop.products \o Shops!Selected(cards, fresh)
             read == [shop EXCEPT !.products = found_, !.passes = @ + 1]
             stop == fresh = {} /\ shop.passes > 0
  <1>1. /\ shop.stage = "scroll" /\ shop.passes < Len(passes) /\ shop.passes < MaxScrolls
        /\ shop' = IF stop THEN [read EXCEPT !.page = @ + 1, !.stage = "dom"] ELSE read
    BY Zenon DEF Shops!Scroll, Shops!At
  <1>2. fresh = FreshCards(cards, ToSet(shop.products))
    BY SameLists, Zenon DEF FreshCards
  <1>3. found_ = shop.products \o Selected(cards, FreshCards(cards, ToSet(shop.products)))
    BY <1>2, SameSelected, Zenon
  <1>4. stop <=> FreshCards(cards, ToSet(shop.products)) = {} /\ shop.passes > 0
    BY <1>2, Zenon
  <1> HIDE DEF found_, stop, fresh
  <1>5. /\ DOMAIN shop' = ShopFields /\ SameSearch /\ shop'.at = shop.at /\ shop'.sellers = shop.sellers
        /\ shop'.tried = shop.tried /\ shop'.products = found_
        /\ shop'.passes = shop.passes + 1 /\ shop'.result = shop.result
        /\ IF stop THEN shop'.page = shop.page + 1 /\ shop'.stage = "dom"
           ELSE shop'.page = shop.page /\ shop'.stage = "scroll"
    BY <1>1 DEF ShopTypes, ShopFields, SameSearch
  <1> QED
    BY <1>1, <1>3, <1>4, <1>5

LEMMA LeaveScrollIs ==
  ASSUME ShopTypes, Shops!LeaveScroll
  PROVE  /\ shop.stage = "scroll" /\ DOMAIN shop' = ShopFields
         /\ shop.passes \in {Len(shop.market.pages[shop.page + 1]), MaxScrolls}
         /\ SameSearch /\ SameFound /\ shop'.tried = shop.tried
         /\ shop'.page = shop.page + 1 /\ shop'.passes = shop.passes /\ shop'.result = shop.result
         /\ shop'.stage = "dom"
  BY DEF Shops!LeaveScroll, Shops!At, Shops!To, ShopTypes, ShopFields, SameSearch, SameFound

LEMMA LeaveDomIs ==
  ASSUME ShopTypes, Shops!LeaveDom
  PROVE  /\ shop.stage = "dom" /\ DOMAIN shop' = ShopFields /\ ~Shops!MayOpen
         /\ SameSearch /\ SameFound /\ shop'.tried = shop.tried
         /\ shop'.page = shop.page /\ shop'.passes = shop.passes /\ shop'.result = shop.result
         /\ shop'.stage = "sellers"
  BY DEF Shops!LeaveDom, Shops!At, Shops!To, ShopTypes, ShopFields, SameSearch, SameFound

LEMMA EndIs ==
  ASSUME ShopTypes, Shops!NoProducts \/ Shops!Return
  PROVE  /\ shop.stage = "sellers" /\ DOMAIN shop' = ShopFields
         /\ SameSearch /\ SameFound /\ shop'.tried = shop.tried
         /\ shop'.page = shop.page /\ shop'.passes = shop.passes
         /\ shop'.stage = "ended"
         /\ \/ shop'.result = "error"
            \/ /\ shop'.result = "sellers"
               /\ shop.at = Len(shop.products) \/ Len(shop.sellers) >= shop.limit
  <1>1. CASE Shops!NoProducts
    BY <1>1 DEF Shops!NoProducts, Shops!At, Shops!Ends, ShopTypes, ShopFields, SameSearch, SameFound
  <1>2. CASE Shops!Return
    BY <1>2 DEF Shops!Return, Shops!At, Shops!Ends, ShopTypes, ShopFields, SameSearch, SameFound
  <1> QED
    BY <1>1, <1>2

LEMMA NextProductIs ==
  ASSUME ShopTypes, Shops!NextProduct
  PROVE  LET s == ShopOf[shop.products[shop.at + 1]]
         IN  /\ shop.stage = "sellers" /\ DOMAIN shop' = ShopFields
             /\ shop.at < Len(shop.products) /\ Len(shop.sellers) < shop.limit
             /\ SameSearch /\ shop'.products = shop.products /\ shop'.tried = shop.tried
             /\ shop'.page = shop.page /\ shop'.passes = shop.passes /\ shop'.result = shop.result
             /\ shop'.stage = "sellers" /\ shop'.at = shop.at + 1
             /\ \/ /\ \A i \in DOMAIN shop.sellers : shop.sellers[i].shop # s
                   /\ \E seller : seller.shop = s /\ shop'.sellers = Append(shop.sellers, seller)
                \/ /\ \E i \in DOMAIN shop.sellers : shop.sellers[i].shop = s
                   /\ shop'.sellers = shop.sellers
  <1> DEFINE s == ShopOf[shop.products[shop.at + 1]]
             Grown(seller) == [[shop EXCEPT !.at = @ + 1] EXCEPT !.sellers = Append(@, seller)]
  <1>1. /\ shop.stage = "sellers" /\ shop.at < Len(shop.products) /\ Len(shop.sellers) < shop.limit
        /\ \/ /\ \A i \in DOMAIN shop.sellers : shop.sellers[i].shop # s
              /\ \E detail \in {"told", "blank"} : shop' = Grown([shop |-> s, detail |-> detail])
           \/ /\ \E i \in DOMAIN shop.sellers : shop.sellers[i].shop = s
              /\ shop' = [shop EXCEPT !.at = @ + 1]
    BY Zenon DEF Shops!NextProduct, Shops!At, Shops!NewShop
  <1> HIDE DEF s
  <1>2. CASE shop' = [shop EXCEPT !.at = @ + 1]
    <2>1. /\ DOMAIN shop' = ShopFields
          /\ SameSearch /\ shop'.products = shop.products /\ shop'.tried = shop.tried
          /\ shop'.page = shop.page /\ shop'.passes = shop.passes /\ shop'.result = shop.result
          /\ shop'.stage = shop.stage /\ shop'.at = shop.at + 1 /\ shop'.sellers = shop.sellers
      BY <1>2 DEF ShopTypes, ShopFields, SameSearch
    <2>2. CASE \E i \in DOMAIN shop.sellers : shop.sellers[i].shop = s
      BY <1>1, <2>1, <2>2 DEF s
    <2>3. CASE ~\E i \in DOMAIN shop.sellers : shop.sellers[i].shop = s
      <3>1. PICK detail \in {"told", "blank"} : shop' = Grown([shop |-> s, detail |-> detail])
        BY <1>1, <2>3
      <3>2. [shop |-> s, detail |-> detail].shop = s
        OBVIOUS
      <3> DEFINE seller == [shop |-> s, detail |-> detail]
      <3> HIDE DEF seller
      <3>3. shop'.sellers = Append(shop.sellers, seller)
        BY <3>1 DEF ShopTypes, ShopFields, seller
      <3> QED
        BY <1>1, <2>1, <2>3, <3>2, <3>3 DEF s, seller
    <2> QED
      BY <2>2, <2>3
  <1>3. CASE shop' # [shop EXCEPT !.at = @ + 1]
    <2>1. PICK detail \in {"told", "blank"} : shop' = Grown([shop |-> s, detail |-> detail])
      BY <1>1, <1>3
    <2> DEFINE seller == [shop |-> s, detail |-> detail]
    <2>2. seller.shop = s
      OBVIOUS
    <2>3. shop' = Grown(seller)
      BY <2>1
    <2> HIDE DEF seller
    <2>4. /\ DOMAIN shop' = ShopFields
          /\ SameSearch /\ shop'.products = shop.products /\ shop'.tried = shop.tried
          /\ shop'.page = shop.page /\ shop'.passes = shop.passes /\ shop'.result = shop.result
          /\ shop'.stage = shop.stage /\ shop'.at = shop.at + 1
          /\ shop'.sellers = Append(shop.sellers, seller)
      BY <2>3 DEF ShopTypes, ShopFields, SameSearch
    <2>5. \A i \in DOMAIN shop.sellers : shop.sellers[i].shop # s
      BY <1>1, <1>3
    <2> QED
      BY <1>1, <2>2, <2>4, <2>5 DEF s
  <1> QED
    BY <1>2, <1>3

-----------------------------------------------------------------------------

ShopSteps ==
  \/ Shops!OpenSession \/ Shops!ScrapeRaises \/ Shops!ApiBlocked \/ Shops!ApiPage \/ Shops!DomBlocked
  \/ Shops!DomPage \/ Shops!Scroll \/ Shops!LeaveScroll \/ Shops!LeaveDom
  \/ Shops!NoProducts \/ Shops!NextProduct \/ Shops!Return

LEMMA EmptyList == IsList(<<>>) /\ Len(<<>>) = 0
  BY EmptyRows DEF RowList

\* What a page of offers adds.
LEMMA OffersAdded ==
  ASSUME ShopTypes, NEW from \in Nat
  PROVE  LET P == PageOffers(shop.market.offers, from, NoShop)
         IN  /\ IsList(shop.market.offers) /\ P \in SUBSET (1..Len(shop.market.offers))
             /\ IsList(Selected(shop.market.offers, P))
             /\ IsList(shop.products \o Selected(shop.market.offers, P))
  <1> DEFINE all == shop.market.offers
             P == PageOffers(all, from, NoShop)
  <1>1. IsList(all) /\ Len(all) \in Nat /\ DOMAIN all = 1..Len(all)
    BY MarketIs, ListHas DEF ShopTypes
  <1>2. P \in SUBSET (1..Len(all))
    BY <1>1 DEF PageOffers
  <1> HIDE DEF P
  <1>3. IsList(Selected(all, P))
    BY <1>1, <1>2, SelectedIs
  <1>4. IsList(shop.products \o Selected(all, P))
    BY <1>3, JoinHas DEF ShopTypes
  <1> QED
    BY <1>1, <1>2, <1>3, <1>4 DEF P

\* What a pass over a page adds.
LEMMA CardsAdded ==
  ASSUME NEW products, IsList(products), NEW cards, IsList(cards)
  PROVE  LET r == Selected(cards, FreshCards(cards, ToSet(products)))
         IN  /\ IsList(r) /\ IsList(products \o r)
             /\ ToSet(products \o r) = ToSet(products) \cup ToSet(cards)
             /\ (FreshCards(cards, ToSet(products)) = {} => ToSet(products \o r) = ToSet(products))
  <1> DEFINE known == ToSet(products)
             P == FreshCards(cards, known)
             r == Selected(cards, P)
  <1>1. Len(cards) \in Nat /\ DOMAIN cards = 1..Len(cards)
    BY ListHas
  <1>2. P \in SUBSET (1..Len(cards))
    BY <1>1 DEF FreshCards
  <1>3. \A i \in DOMAIN cards : cards[i] \in known \/ \E j \in P : cards[j] = cards[i]
    <2> SUFFICES ASSUME NEW i \in DOMAIN cards, cards[i] \notin known PROVE \E j \in P : cards[j] = cards[i]
      OBVIOUS
    <2> DEFINE W == {j \in DOMAIN cards : cards[j] = cards[i]}
               m == Min(W)
    <2>1. W \in SUBSET Nat /\ W # {}
      BY <1>1
    <2>2. m \in W /\ \A n \in W : m <= n
      <3> HIDE DEF W
      <3> QED
        BY <2>1, LeastOf
    <2> HIDE DEF m
    <2>3. \A j \in 1..m - 1 : cards[j] # cards[m]
      <3> SUFFICES ASSUME NEW j \in 1..m - 1, cards[j] = cards[m] PROVE FALSE
        OBVIOUS
      <3>1. j \in DOMAIN cards /\ j < m /\ m \in Nat
        BY <1>1, <2>2
      <3>2. j \in W
        BY <2>2, <3>1
      <3> QED
        BY <2>2, <3>1, <3>2
    <2>4. m \in P /\ cards[m] = cards[i]
      BY <2>2, <2>3 DEF FreshCards
    <2> QED
      BY <2>4
  <1> HIDE DEF P
  <1>4. IsList(r) /\ \A x \in ToSet(r) : \E i \in P : x = cards[i]
    BY <1>1, <1>2, SelectedHas
  <1>5. \A i \in P : cards[i] \in ToSet(r)
    <2> TAKE i \in P
    <2>1. PICK a \in DOMAIN r : r[a] = cards[i]
      BY <1>1, <1>2, SelectedPlace
    <2> HIDE DEF r
    <2> QED
      BY <2>1 DEF ToSet
  <1> HIDE DEF r
  <1>6. IsList(products \o r) /\ ToSet(products \o r) = known \cup ToSet(r)
    BY <1>4, JoinIs
  <1>7. ToSet(cards) = {cards[i] : i \in DOMAIN cards}
    BY DEF ToSet
  <1>8. ToSet(r) \subseteq ToSet(cards) /\ ToSet(cards) \subseteq known \cup ToSet(r)
    BY <1>1, <1>2, <1>3, <1>4, <1>5, <1>7
  <1>9. P = {} => ToSet(r) = {}
    BY <1>4
  <1> HIDE DEF known
  <1>10. ToSet(products \o r) = known \cup ToSet(cards) /\ (P = {} => ToSet(products \o r) = known)
    BY <1>6, <1>8, <1>9
  <1> QED
    BY <1>4, <1>6, <1>10, Zenon DEF known, P, r

LEMMA ShopTypesKeep == ShopTypes /\ ShopSteps => ShopTypes'
  <1> SUFFICES ASSUME ShopTypes, ShopSteps PROVE ShopTypes'
    OBVIOUS
  <1>0. /\ Len(shop.products) \in Nat /\ Len(shop.sellers) \in Nat /\ shop.limit \in Nat /\ shop.at \in Nat
        /\ IsList(<<>>) /\ Len(<<>>) = 0
    BY ListHas, BudgetIs, EmptyList DEF ShopTypes
  <1> USE DEF ShopTypes, SameSearch, SameFound, TriedOnce, Searching
  <1>1. CASE Shops!OpenSession
    BY <1>1, OpenIs
  <1>2. CASE Shops!ScrapeRaises
    BY <1>0, <1>2, RaiseIs
  <1>3. CASE Shops!ApiBlocked
    BY <1>3, ApiBlockedIs
  <1>4. CASE Shops!ApiPage
    <2>1. shop.page * PageSize \in Nat
      BY ShopConstants
    <2>2. IsList(shop'.products)
      BY <1>4, <2>1, ApiPageIs, OffersAdded
    <2>3. Len(shop'.products) \in Nat /\ shop.at = 0
      BY <1>4, <2>2, ListHas, ApiPageIs
    <2>4. shop'.page \in Nat
      <3>1. shop'.page = 0 \/ shop'.page = shop.page + 1
        BY <1>4, ApiPageIs
      <3>2. shop.page \in Nat
        OBVIOUS
      <3> QED
        BY <3>1, <3>2
    <2>5. shop'.stage \in {"api", "dom", "sellers"}
      BY <1>4, ApiPageIs
    <2>6. /\ shop.stage = "api" /\ DOMAIN shop' = ShopFields /\ SameSearch /\ shop'.at = shop.at
          /\ shop'.sellers = shop.sellers /\ TriedOnce("read")
          /\ shop'.passes = shop.passes /\ shop'.result = shop.result
      BY <1>4, ApiPageIs
    <2> QED
      BY <2>2, <2>3, <2>4, <2>5, <2>6
  <1>5. CASE Shops!DomBlocked
    BY <1>5, DomBlockedIs
  <1>6. CASE Shops!DomPage
    <2>1. Len(shop.market.pages) \in Nat /\ DOMAIN shop.market.pages = 1..Len(shop.market.pages)
      BY MarketIs, ListHas
    <2> QED
      BY <1>6, <2>1, DomPageIs
  <1>7. CASE Shops!Scroll \/ Shops!LeaveScroll
    <2>1. CASE Shops!Scroll
      <3> DEFINE passes == shop.market.pages[shop.page + 1]
                 cards == passes[shop.passes + 1]
      <3>1. shop.stage = "scroll" /\ shop.passes < Len(passes)
        BY <2>1, ScrollIs
      <3>2. IsList(passes) /\ \A j \in DOMAIN passes : IsList(passes[j])
        BY <3>1, MarketIs
      <3>3. IsList(cards)
        BY <3>1, <3>2, ListHas
      <3>4. IsList(shop'.products)
        <4>1. shop'.products = shop.products \o Selected(cards, FreshCards(cards, ToSet(shop.products)))
          BY <2>1, ScrollIs
        <4> HIDE DEF cards
        <4> QED
          BY <3>3, <4>1, CardsAdded
      <3>5. Len(shop'.products) \in Nat
        BY <3>4, ListHas
      <3>6. /\ DOMAIN shop' = ShopFields /\ SameSearch /\ shop'.at = shop.at /\ shop'.sellers = shop.sellers
            /\ shop'.tried = shop.tried /\ shop'.passes = shop.passes + 1 /\ shop'.result = shop.result
            /\ \/ shop'.page = shop.page + 1 /\ shop'.stage = "dom"
               \/ shop'.page = shop.page /\ shop'.stage = "scroll"
        BY <2>1, ScrollIs
      <3> QED
        BY <3>1, <3>4, <3>5, <3>6
    <2>2. CASE Shops!LeaveScroll
      BY <2>2, LeaveScrollIs
    <2> QED
      BY <1>7, <2>1, <2>2
  <1>8. CASE Shops!LeaveDom
    BY <1>8, LeaveDomIs
  <1>9. CASE Shops!NoProducts \/ Shops!Return
    BY <1>9, EndIs
  <1>10. CASE Shops!NextProduct
    <2>1. IsList(shop'.sellers) /\ Len(shop'.sellers) <= shop.limit
      <3>1. shop'.sellers = shop.sellers \/ \E seller : shop'.sellers = Append(shop.sellers, seller)
        BY <1>10, NextProductIs
      <3>2. Len(shop.sellers) < shop.limit
        BY <1>10, NextProductIs
      <3>3. CASE shop'.sellers = shop.sellers
        BY <3>2, <3>3
      <3>4. CASE \E seller : shop'.sellers = Append(shop.sellers, seller)
        <4>1. PICK seller : shop'.sellers = Append(shop.sellers, seller)
          BY <3>4
        <4>2. IsList(shop'.sellers) /\ Len(shop'.sellers) = Len(shop.sellers) + 1
          BY <4>1, AppendHas
        <4> QED
          BY <1>0, <3>2, <4>2
      <3> QED
        BY <3>1, <3>3, <3>4
    <2> QED
      BY <1>0, <1>10, <2>1, NextProductIs
  <1> QED
    BY <1>1, <1>2, <1>3, <1>4, <1>5, <1>6, <1>7, <1>8, <1>9, <1>10 DEF ShopSteps

\* The sellers are those of the products looked at, and a search that returns has
\* looked at all of them or is full.
SoldInv ==
  /\ shop.result # "error" => SellersFit(shop.products, shop.at, shop.sellers)
  /\ shop.result = "sellers" => shop.at = Len(shop.products) \/ Len(shop.sellers) >= shop.limit

LEMMA NothingSold == \A products : SellersFit(products, 0, <<>>)
  <1>1. Len(<<>>) = 0 /\ DOMAIN <<>> = {}
    BY EmptyList
  <1> QED
    BY <1>1 DEF SellersFit, SoldBy, Seen

LEMMA SoldKeeps == ShopTypes /\ SoldInv /\ ShopSteps => SoldInv'
  <1> SUFFICES ASSUME ShopTypes, SoldInv, ShopSteps PROVE SoldInv'
    OBVIOUS
  <1>1. ASSUME shop'.result # "sellers" \/ shop'.at = Len(shop'.products) \/ Len(shop'.sellers) >= shop'.limit,
               shop'.result # "error" => SellersFit(shop'.products, shop'.at, shop'.sellers)
        PROVE  SoldInv'
    BY <1>1 DEF SoldInv
  <1>2. CASE Shops!ScrapeRaises
    BY <1>1, <1>2, RaiseIs
  <1>3. CASE Shops!ApiPage \/ Shops!Scroll
    <2>1. /\ shop.stage \in {"api", "scroll"} /\ shop'.at = shop.at /\ shop'.sellers = shop.sellers
          /\ shop'.result = shop.result
      BY <1>3, ApiPageIs, ScrollIs
    <2>2. shop'.at = 0 /\ shop'.sellers = <<>> /\ shop'.result = "none"
      BY <2>1 DEF ShopTypes, Searching
    <2> QED
      BY <1>1, <2>2, NothingSold
  <1>4. CASE Shops!OpenSession \/ Shops!ApiBlocked \/ Shops!DomBlocked \/ Shops!DomPage
             \/ Shops!LeaveScroll \/ Shops!LeaveDom
    <2>1. SameFound /\ shop.stage # "ended" /\ shop'.result \in {shop.result, "error"}
      BY <1>4, OpenIs, ApiBlockedIs, DomBlockedIs, DomPageIs, LeaveScrollIs, LeaveDomIs
    <2> QED
      BY <1>1, <2>1 DEF SoldInv, SameFound, ShopTypes
  <1>5. CASE Shops!NoProducts \/ Shops!Return
    <2>1. /\ SameFound /\ SameSearch /\ shop.stage = "sellers"
          /\ \/ shop'.result = "error"
             \/ shop.at = Len(shop.products) \/ Len(shop.sellers) >= shop.limit
      BY <1>5, EndIs
    <2>2. shop.result = "none"
      BY <2>1 DEF ShopTypes
    <2> QED
      BY <1>1, <2>1, <2>2 DEF SoldInv, SameFound, SameSearch
  <1>6. CASE Shops!NextProduct
    <2> DEFINE s == ShopOf[shop.products[shop.at + 1]]
    <2>1. /\ shop.stage = "sellers" /\ shop'.products = shop.products /\ shop'.at = shop.at + 1
          /\ shop'.result = shop.result
          /\ \/ /\ \A i \in DOMAIN shop.sellers : shop.sellers[i].shop # s
                /\ \E seller : seller.shop = s /\ shop'.sellers = Append(shop.sellers, seller)
             \/ /\ \E i \in DOMAIN shop.sellers : shop.sellers[i].shop = s
                /\ shop'.sellers = shop.sellers
      BY <1>6, NextProductIs
    <2>2. /\ shop.result = "none" /\ IsList(shop.products) /\ IsList(shop.sellers) /\ shop.at \in Nat
          /\ SellersFit(shop.products, shop.at, shop.sellers)
      <3>1. shop.result = "none"
        BY <2>1 DEF ShopTypes
      <3>2. IsList(shop.products) /\ Len(shop.products) \in Nat
        BY ListHas DEF ShopTypes
      <3> QED
        BY <3>1, <3>2 DEF ShopTypes, SoldInv
    <2>3. CASE \E i \in DOMAIN shop.sellers : shop.sellers[i].shop = s /\ shop'.sellers = shop.sellers
      <3>1. SellersFit(shop.products, shop.at + 1, shop.sellers)
        BY <2>2, <2>3, SellerKnown
      <3> QED
        BY <1>1, <2>1, <2>2, <2>3, <3>1
    <2>4. CASE /\ \A i \in DOMAIN shop.sellers : shop.sellers[i].shop # s
               /\ \E seller : seller.shop = s /\ shop'.sellers = Append(shop.sellers, seller)
      <3>1. PICK seller : seller.shop = s /\ shop'.sellers = Append(shop.sellers, seller)
        BY <2>4
      <3>2. SellersFit(shop.products, shop.at + 1, Append(shop.sellers, seller))
        BY <2>2, <2>4, <3>1, SellerAdded
      <3> QED
        BY <1>1, <2>1, <2>2, <3>1, <3>2
    <2> QED
      BY <2>1, <2>3, <2>4
  <1> QED
    BY <1>2, <1>3, <1>4, <1>5, <1>6 DEF ShopSteps

-----------------------------------------------------------------------------

Selling == shop.stage = "sellers" \/ shop.result = "sellers"

\* Of the offers n have been read.
OffersRead(n) == Traces(shop.products, shop.market.offers, n, NoShop)

TriedBy(tried, stage_) == \E i \in DOMAIN tried : tried[i].by = stage_
TriedBlocked(tried, stage_) == \E i \in DOMAIN tried : tried[i].by = stage_ /\ tried[i].how = "blocked"

ReadThrough ==
  \E n \in Nat : /\ n <= Len(shop.market.offers) /\ n <= Shops!MaxSearchPages * PageSize
                 /\ OffersRead(n)
                 /\ \/ Shops!Enough(shop.products) \/ n = Len(shop.market.offers)
                    \/ n = Shops!MaxSearchPages * PageSize

\* As long as the API answers the products are those of the offers that have been read.
ApiInv ==
  /\ shop.stage \in {"session", "api"} =>
       /\ ~TriedBy(shop.tried, "dom") /\ ~TriedBlocked(shop.tried, "api")
       /\ shop.page * PageSize <= Len(shop.market.offers) /\ shop.page < Shops!MaxSearchPages
       /\ OffersRead(shop.page * PageSize)
  /\ shop.stage = "dom" /\ ~TriedBy(shop.tried, "dom") => shop.products = <<>> /\ shop.page = 0
  /\ shop.stage = "scroll" => TriedBy(shop.tried, "dom")
  /\ Selling /\ ~TriedBy(shop.tried, "dom") /\ ~TriedBlocked(shop.tried, "api") => ReadThrough

LEMMA TriedMore ==
  ASSUME ShopTypes, NEW how, TriedOnce(how), NEW stage_
  PROVE  /\ TriedBy(shop'.tried, stage_) <=> TriedBy(shop.tried, stage_) \/ stage_ = shop.stage
         /\ TriedBlocked(shop'.tried, stage_) <=>
              TriedBlocked(shop.tried, stage_) \/ (stage_ = shop.stage /\ how = "blocked")
  <1> DEFINE n == Len(shop.tried)
  <1>1. n \in Nat /\ DOMAIN shop.tried = 1..n
    BY ListHas DEF ShopTypes
  <1>2. DOMAIN shop'.tried = 1..n + 1
    BY ListHas DEF TriedOnce
  <1>3. \A i \in 1..n : shop'.tried[i] = shop.tried[i] /\ i \in 1..n + 1
    BY <1>1 DEF TriedOnce
  <1>4. shop'.tried[n + 1].by = shop.stage /\ shop'.tried[n + 1].how = how /\ n + 1 \in 1..n + 1
    BY <1>1 DEF TriedOnce
  <1>5. \A i \in 1..n + 1 : i \in 1..n \/ i = n + 1
    BY <1>1
  <1> HIDE DEF n
  <1> QED
    BY <1>1, <1>2, <1>3, <1>4, <1>5 DEF TriedBy, TriedBlocked

\* The products of a page of the API.
LEMMA PageTraces ==
  ASSUME ShopTypes, ApiInv, Shops!ApiPage
  PROVE  LET all == shop.market.offers
             from == shop.page * PageSize
             to == IF Len(all) < from + PageSize THEN Len(all) ELSE from + PageSize
         IN  /\ from \in Nat /\ to \in Nat /\ to <= Len(all)
             /\ Traces(shop'.products, all, to, NoShop)
  <1> DEFINE all == shop.market.offers
             from == shop.page * PageSize
             to == IF Len(all) < from + PageSize THEN Len(all) ELSE from + PageSize
             P == PageOffers(all, from, NoShop)
  <1>1. IsList(all) /\ Len(all) \in Nat /\ DOMAIN all = 1..Len(all) /\ IsList(shop.products)
    BY MarketIs, ListHas DEF ShopTypes
  <1>2. from \in Nat /\ PageSize \in Nat
    BY ShopConstants DEF ShopTypes
  <1>3. from <= Len(all) /\ Traces(shop.products, all, from, NoShop)
    BY <1>2, ApiPageIs DEF ApiInv, OffersRead
  <1>4. shop'.products = shop.products \o Selected(all, P)
    BY ApiPageIs
  <1> HIDE DEF from
  <1>5. to \in Nat /\ to <= Len(all) /\ from <= to
    BY <1>1, <1>2, <1>3
  <1>6. \A i \in 1..Len(all) : i <= from + PageSize <=> i <= to
    BY <1>1, <1>2
  <1> HIDE DEF to
  <1>7. P = {i \in DOMAIN all : from < i /\ i <= to /\ ShopOf[all[i]] # NoShop}
    BY <1>1, <1>6 DEF PageOffers
  <1> HIDE DEF P, all
  <1>8. Traces(shop'.products, all, to, NoShop)
    BY <1>1, <1>2, <1>3, <1>4, <1>5, <1>7, TraceGrows
  <1> QED
    BY <1>2, <1>5, <1>8 DEF from, to, all

LEMMA EnoughIs ==
  ASSUME ShopTypes, shop'.limit = shop.limit
  PROVE  Shops!Enough(shop.products)' <=> Shops!Enough(shop'.products)
  BY DEF Shops!Enough, Shops!ShopsOf

LEMMA NotEnough == ShopTypes => ~Shops!Enough(<<>>)
  <1> SUFFICES ASSUME ShopTypes PROVE ~Shops!Enough(<<>>)
    OBVIOUS
  <1>1. Shops!ShopsOf(<<>>) = {}
    <2>1. Shops!ToSet(<<>>) = {}
      BY EmptyRows, SameLists
    <2> QED
      BY <2>1 DEF Shops!ShopsOf
  <1>2. Shops!Cardinality({}) = 0
    BY FS_EmptySet, SameShopSizes
  <1>3. ~(0 >= shop.limit)
    BY BudgetIs
  <1> QED
    BY <1>1, <1>2, <1>3, Zenon DEF Shops!Enough

LEMMA ReadThroughStays ==
  ASSUME ShopTypes, SameSearch, shop'.products = shop.products, ReadThrough
  PROVE  ReadThrough'
  <1>1. shop'.market = shop.market /\ Shops!MaxSearchPages' = Shops!MaxSearchPages
    BY BudgetIs DEF SameSearch
  <1>2. Shops!Enough(shop.products)' <=> Shops!Enough(shop.products)
    BY EnoughIs DEF SameSearch
  <1>3. \A n : OffersRead(n)' <=> OffersRead(n)
    BY <1>1 DEF OffersRead
  <1> QED
    BY <1>1, <1>2, <1>3 DEF ReadThrough

LEMMA ApiKeeps == ShopTypes /\ ApiInv /\ ShopSteps => ApiInv'
  <1> SUFFICES ASSUME ShopTypes, ApiInv, ShopSteps PROVE ApiInv'
    OBVIOUS
  <1>a. /\ shop.stage \in {"session", "api"} =>
             /\ ~TriedBy(shop.tried, "dom") /\ ~TriedBlocked(shop.tried, "api")
             /\ shop.page * PageSize <= Len(shop.market.offers) /\ shop.page < Shops!MaxSearchPages
             /\ OffersRead(shop.page * PageSize)
        /\ shop.stage = "dom" /\ ~TriedBy(shop.tried, "dom") => shop.products = <<>> /\ shop.page = 0
        /\ shop.stage = "scroll" => TriedBy(shop.tried, "dom")
        /\ Selling /\ ~TriedBy(shop.tried, "dom") /\ ~TriedBlocked(shop.tried, "api") => ReadThrough
    BY DEF ApiInv
  <1>1. ASSUME shop'.stage = "ended", shop'.result = "error" PROVE ApiInv'
    BY <1>1 DEF ApiInv, Selling
  <1>2. CASE Shops!OpenSession
    <2>1. CASE shop'.stage = "ended"
      BY <1>1, <1>2, <2>1, OpenIs
    <2>2. CASE shop'.stage # "ended"
      <3>1. /\ shop.stage = "session" /\ shop'.stage = "api" /\ shop'.result = shop.result /\ shop'.tried = shop.tried
            /\ shop'.page = shop.page /\ shop'.market = shop.market /\ shop'.products = shop.products
            /\ shop'.limit = shop.limit
        BY <1>2, <2>2, OpenIs DEF SameSearch, SameFound
      <3>2. Shops!MaxSearchPages' = Shops!MaxSearchPages
        BY <3>1, BudgetIs
      <3>3. OffersRead(shop.page * PageSize)' <=> OffersRead(shop.page * PageSize)
        BY <3>1 DEF OffersRead
      <3>4. shop'.result # "sellers"
        BY <3>1 DEF ShopTypes
      <3> QED
        BY <1>a, <3>1, <3>2, <3>3, <3>4 DEF ApiInv, Selling
    <2> QED
      BY <2>1, <2>2
  <1>3. CASE Shops!ScrapeRaises
    BY <1>1, <1>3, RaiseIs
  <1>4. CASE Shops!ApiBlocked
    <2>1. /\ shop.stage = "api" /\ shop'.page = 0 /\ shop'.products = shop.products /\ TriedOnce("blocked")
          /\ shop'.stage = IF shop.products = <<>> THEN "dom" ELSE "sellers"
      BY <1>4, ApiBlockedIs DEF SameFound
    <2>2. TriedBlocked(shop'.tried, "api")
      BY <2>1, TriedMore
    <2> QED
      BY <2>1, <2>2 DEF ApiInv
  <1>5. CASE Shops!ApiPage
    <2> DEFINE all == shop.market.offers
               from == shop.page * PageSize
               to == IF Len(all) < from + PageSize THEN Len(all) ELSE from + PageSize
               most == Shops!MaxSearchPages
               leaves == Shops!Enough(shop'.products) \/ Len(all) < from + PageSize \/ shop.page + 1 >= most
    <2>1. /\ shop.stage = "api" /\ SameSearch /\ TriedOnce("read") /\ shop'.result = shop.result
          /\ IF leaves
             THEN /\ shop'.page = 0
                  /\ shop'.stage = IF shop'.products = <<>> THEN "dom" ELSE "sellers"
             ELSE shop'.page = shop.page + 1 /\ shop'.stage = "api"
      BY <1>5, ApiPageIs
    <2>2. /\ from \in Nat /\ to \in Nat /\ to <= Len(all)
          /\ Traces(shop'.products, all, to, NoShop)
      BY <1>5, PageTraces
    <2>3. ~TriedBy(shop'.tried, "dom") /\ ~TriedBlocked(shop'.tried, "api")
      BY <1>a, <2>1, TriedMore
    <2>4. most \in Nat /\ most' = most /\ shop'.market = shop.market
      BY <2>1, BudgetIs DEF SameSearch
    <2>6. shop.page \in Nat /\ shop.page < most /\ PageSize \in Nat /\ Len(all) \in Nat
      BY <1>a, <2>1, ShopConstants, MarketIs, ListHas DEF ShopTypes
    <2>7. (shop.page + 1) * PageSize = from + PageSize /\ from + PageSize <= most * PageSize
      <3>1. (shop.page + 1) * PageSize = from + PageSize
        BY <2>6
      <3>2. PICK d \in Nat : most = (shop.page + 1) + d
        <4>1. most - (shop.page + 1) \in Nat /\ most = (shop.page + 1) + (most - (shop.page + 1))
          BY <2>4, <2>6
        <4> QED
          BY <4>1
      <3>3. most * PageSize = (shop.page + 1) * PageSize + d * PageSize /\ d * PageSize \in Nat
        BY <2>6, <3>2
      <3> QED
        BY <2>2, <2>6, <3>1, <3>3
    <2>8. shop'.result # "sellers"
      BY <2>1 DEF ShopTypes
    <2>9. CASE leaves
      <3>1. shop'.page = 0 /\ shop'.stage = IF shop'.products = <<>> THEN "dom" ELSE "sellers"
        BY <2>1, <2>9
      <3>2. ReadThrough'
        <4>1. PICK n \in Nat : n = to
          BY <2>2
        <4>2. n <= Len(all) /\ n <= most * PageSize
          <5>1. to <= from + PageSize
            BY <2>2, <2>6
          <5> HIDE DEF to, from, most
          <5>2. most * PageSize \in Nat
            BY <2>4, <2>6
          <5> QED
            BY <2>2, <2>6, <2>7, <4>1, <5>1, <5>2
        <4>3. OffersRead(n)'
          BY <2>2, <2>4, <4>1 DEF OffersRead
        <4>4. Shops!Enough(shop.products)' \/ n = Len(all) \/ n = most * PageSize
          <5>1. CASE Shops!Enough(shop'.products)
            BY <2>1, <5>1, EnoughIs DEF SameSearch
          <5>2. CASE Len(all) < from + PageSize
            BY <4>1, <5>2
          <5>3. CASE shop.page + 1 >= most /\ ~(Len(all) < from + PageSize)
            <6>1. most = shop.page + 1
              BY <2>4, <2>6, <5>3
            <6>2. most * PageSize = from + PageSize
              BY <2>7, <6>1
            <6> QED
              BY <4>1, <5>3, <6>2
          <5> QED
            BY <2>9, <5>1, <5>2, <5>3
        <4>5. /\ n <= Len(shop'.market.offers) /\ n <= Shops!MaxSearchPages' * PageSize
              /\ \/ Shops!Enough(shop.products)' \/ n = Len(shop'.market.offers)
                 \/ n = Shops!MaxSearchPages' * PageSize
          BY <2>4, <4>2, <4>4
        <4> QED
          BY <4>3, <4>5 DEF ReadThrough
      <3> QED
        BY <3>1, <3>2 DEF ApiInv
    <2>10. CASE ~leaves
      <3>1. shop'.page = shop.page + 1 /\ shop'.stage = "api" /\ to = from + PageSize /\ shop.page + 1 < most
        BY <2>1, <2>4, <2>6, <2>10
      <3>2. shop'.page * PageSize = to /\ to <= Len(all)
        BY <2>2, <2>7, <3>1
      <3> HIDE DEF to
      <3>3. OffersRead(shop.page * PageSize)'
        BY <2>2, <2>4, <3>2 DEF OffersRead
      <3> QED
        BY <2>3, <2>4, <2>8, <3>1, <3>2, <3>3 DEF ApiInv, Selling
    <2> QED
      BY <2>9, <2>10
  <1>6. CASE Shops!DomBlocked \/ Shops!DomPage
    <2>1. /\ shop.stage = "dom" /\ (TriedOnce("blocked") \/ TriedOnce("read"))
          /\ shop'.stage \in {"dom", "sellers", "scroll"}
      BY <1>6, DomBlockedIs, DomPageIs
    <2>2. TriedBy(shop'.tried, "dom")
      BY <2>1, TriedMore
    <2> QED
      BY <2>1, <2>2 DEF ApiInv
  <1>7. CASE Shops!Scroll \/ Shops!LeaveScroll
    <2>1. /\ shop.stage = "scroll" /\ shop'.tried = shop.tried
          /\ shop'.stage \in {"dom", "scroll"}
      BY <1>7, ScrollIs, LeaveScrollIs
    <2>2. TriedBy(shop'.tried, "dom")
      BY <1>a, <2>1
    <2> QED
      BY <2>1, <2>2 DEF ApiInv
  <1>8. CASE Shops!LeaveDom
    <2>1. shop.stage = "dom" /\ ~Shops!MayOpen /\ shop'.tried = shop.tried /\ shop'.stage = "sellers"
      BY <1>8, LeaveDomIs
    <2>2. TriedBy(shop.tried, "dom")
      <3> SUFFICES ASSUME ~TriedBy(shop.tried, "dom") PROVE FALSE
        OBVIOUS
      <3>1. shop.products = <<>> /\ shop.page = 0
        BY <1>a, <2>1
      <3>2. 0 <= Shops!MaxSearchPages + ExtraPages
        BY BudgetIs, ShopConstants
      <3>3. Shops!MayOpen
        BY <3>1, <3>2, NotEnough DEF Shops!MayOpen
      <3> QED
        BY <2>1, <3>3
    <2> QED
      BY <2>1, <2>2 DEF ApiInv
  <1>9. CASE Shops!NoProducts \/ Shops!Return \/ Shops!NextProduct
    <2>1. /\ shop.stage = "sellers" /\ shop'.tried = shop.tried /\ SameSearch /\ shop'.products = shop.products
          /\ shop'.stage \in {"sellers", "ended"}
      BY <1>9, EndIs, NextProductIs DEF SameFound
    <2>2. Selling
      BY <2>1 DEF Selling
    <2>3. ~TriedBy(shop.tried, "dom") /\ ~TriedBlocked(shop.tried, "api") => ReadThrough'
      BY <1>a, <2>1, <2>2, ReadThroughStays
    <2> QED
      BY <2>1, <2>3 DEF ApiInv
  <1> QED
    BY <1>2, <1>3, <1>4, <1>5, <1>6, <1>7, <1>8, <1>9 DEF ShopSteps

-----------------------------------------------------------------------------

Stuck(t) == t.by = "dom" /\ t.how = "blocked"
LastStuck(tried, n) == Len(tried) >= n /\ \A i \in Len(tried) + 1 - n..Len(tried) : Stuck(tried[i])
NeverStuck(tried) ==
  \A i \in DOMAIN tried : i + MaxFails <= Len(tried) => \E k \in i..i + MaxFails - 1 : ~Stuck(tried[k])

\* The fallback goes on until its pages are blocked in a row or its budget is used up.
StopInv ==
  /\ Searching => ~LastStuck(shop.tried, MaxFails)
  /\ NeverStuck(shop.tried)
  /\ shop.stage = "dom" => shop.page <= Shops!MaxSearchPages + ExtraPages + 1
  /\ shop.stage = "scroll" => shop.page <= Shops!MaxSearchPages + ExtraPages
  /\ Selling /\ TriedBy(shop.tried, "dom") =>
       \/ LastStuck(shop.tried, MaxFails) \/ Shops!Enough(shop.products)
       \/ shop.page = Shops!MaxSearchPages + ExtraPages + 1

LEMMA TriedStuck ==
  ASSUME ShopTypes, NEW how, TriedOnce(how), ~LastStuck(shop.tried, MaxFails), NeverStuck(shop.tried)
  PROVE  /\ NeverStuck(shop'.tried)
         /\ LastStuck(shop'.tried, MaxFails) <=>
              shop.stage = "dom" /\ how = "blocked" /\ LastStuck(shop.tried, MaxFails - 1)
  <1> DEFINE n == Len(shop.tried)
             old == shop.tried
             new == shop'.tried
  <1>1. n \in Nat /\ DOMAIN old = 1..n /\ MaxFails \in Nat \ {0}
    BY ListHas, ShopConstants DEF ShopTypes
  <1>2. Len(new) = n + 1 /\ DOMAIN new = 1..n + 1
    BY ListHas DEF TriedOnce
  <1>3. \A i \in 1..n : new[i] = old[i]
    BY DEF TriedOnce
  <1>4. Stuck(new[n + 1]) <=> shop.stage = "dom" /\ how = "blocked"
    BY DEF TriedOnce, Stuck
  <1>5. ~(n >= MaxFails /\ \A i \in n + 1 - MaxFails..n : Stuck(old[i]))
    BY DEF LastStuck
  <1>6. \A i \in 1..n : i + MaxFails <= n => \E k \in i..i + MaxFails - 1 : ~Stuck(old[k])
    BY <1>1 DEF NeverStuck
  <1>7. LastStuck(shop.tried, MaxFails - 1) <=>
          n >= MaxFails - 1 /\ \A i \in n + 1 - (MaxFails - 1)..n : Stuck(old[i])
    BY DEF LastStuck
  <1>8. LastStuck(new, MaxFails) <=> n + 1 >= MaxFails /\ \A i \in n + 2 - MaxFails..n + 1 : Stuck(new[i])
    <2>1. n + 1 + 1 - MaxFails = n + 2 - MaxFails
      BY <1>1
    <2> QED
      BY <1>2, <2>1 DEF LastStuck
  <1> HIDE DEF n, old, new
  <1>9. NeverStuck(new)
    <2> SUFFICES ASSUME NEW i \in 1..n + 1, i + MaxFails <= n + 1
                 PROVE  \E k \in i..i + MaxFails - 1 : ~Stuck(new[k])
      BY <1>2 DEF NeverStuck
    <2>1. i \in 1..n
      BY <1>1
    <2>2. CASE i + MaxFails <= n
      <3>1. PICK k \in i..i + MaxFails - 1 : ~Stuck(old[k])
        BY <1>6, <2>1, <2>2
      <3>2. k \in 1..n
        BY <1>1, <2>1, <2>2
      <3> QED
        BY <1>3, <3>1, <3>2
    <2>3. CASE i + MaxFails = n + 1
      <3>1. n >= MaxFails /\ i = n + 1 - MaxFails /\ n = i + MaxFails - 1
        BY <1>1, <2>1, <2>3
      <3>2. PICK k \in n + 1 - MaxFails..n : ~Stuck(old[k])
        BY <1>5, <3>1
      <3>3. k \in i..i + MaxFails - 1 /\ k \in 1..n
        BY <1>1, <2>1, <3>1
      <3> QED
        BY <1>3, <3>2, <3>3
    <2> QED
      BY <1>1, <2>2, <2>3
  <1>10. ASSUME n + 1 >= MaxFails
         PROVE  (\A i \in n + 2 - MaxFails..n + 1 : Stuck(new[i])) <=>
                  Stuck(new[n + 1]) /\ \A i \in n + 1 - (MaxFails - 1)..n : Stuck(old[i])
    <2>1. n + 1 - (MaxFails - 1) = n + 2 - MaxFails
      BY <1>1
    <2>2. \A i \in n + 2 - MaxFails..n + 1 : i = n + 1 \/ (i \in n + 2 - MaxFails..n /\ i \in 1..n)
      BY <1>1, <1>10
    <2>3. n + 1 \in n + 2 - MaxFails..n + 1
      BY <1>1
    <2>4. \A i \in n + 2 - MaxFails..n : i \in n + 2 - MaxFails..n + 1 /\ i \in 1..n
      BY <1>1, <1>10
    <2> QED
      BY <1>3, <2>1, <2>2, <2>3, <2>4
  <1>11. n + 1 >= MaxFails <=> n >= MaxFails - 1
    BY <1>1
  <1> QED
    BY <1>4, <1>7, <1>8, <1>9, <1>10, <1>11 DEF new

LEMMA InARowIs == \A n : Shops!InARow(n) <=> LastStuck(shop.tried, n)
  BY DEF Shops!InARow, Shops!DomBlock, LastStuck, Stuck

LEMMA StopKeeps == ShopTypes /\ ApiInv /\ StopInv /\ ShopSteps => StopInv'
  <1> SUFFICES ASSUME ShopTypes, ApiInv, StopInv, ShopSteps PROVE StopInv'
    OBVIOUS
  <1>a. /\ Searching => ~LastStuck(shop.tried, MaxFails)
        /\ NeverStuck(shop.tried)
        /\ shop.stage = "dom" => shop.page <= Shops!MaxSearchPages + ExtraPages + 1
        /\ shop.stage = "scroll" => shop.page <= Shops!MaxSearchPages + ExtraPages
        /\ Selling /\ TriedBy(shop.tried, "dom") =>
             \/ LastStuck(shop.tried, MaxFails) \/ Shops!Enough(shop.products)
             \/ shop.page = Shops!MaxSearchPages + ExtraPages + 1
    BY DEF StopInv
  <1>b. /\ Shops!MaxSearchPages \in Nat \ {0} /\ ExtraPages \in Nat /\ shop.page \in Nat
        /\ (shop'.limit = shop.limit => Shops!MaxSearchPages' = Shops!MaxSearchPages)
    BY BudgetIs, ShopConstants DEF ShopTypes
  <1>1. ASSUME shop'.stage = "ended", shop'.result = "error", shop'.tried = shop.tried PROVE StopInv'
    BY <1>a, <1>1 DEF StopInv, Selling, Searching
  <1>2. CASE Shops!OpenSession
    <2>1. CASE shop'.stage = "ended"
      BY <1>1, <1>2, <2>1, OpenIs
    <2>2. CASE shop'.stage # "ended"
      <3>1. /\ shop.stage = "session" /\ shop'.stage = "api" /\ shop'.result = shop.result /\ shop'.tried = shop.tried
        BY <1>2, <2>2, OpenIs
      <3>2. shop'.result # "sellers"
        BY <3>1 DEF ShopTypes
      <3> QED
        BY <1>a, <3>1, <3>2 DEF StopInv, Selling, Searching
    <2> QED
      BY <2>1, <2>2
  <1>3. CASE Shops!ScrapeRaises
    BY <1>1, <1>3, RaiseIs
  <1>4. CASE Shops!ApiBlocked \/ Shops!ApiPage
    <2>1. /\ shop.stage = "api" /\ (TriedOnce("blocked") \/ TriedOnce("read"))
          /\ shop'.limit = shop.limit /\ shop'.result = shop.result
          /\ shop'.stage \in {"api", "dom", "sellers"} /\ (shop'.stage = "dom" => shop'.page = 0)
      BY <1>4, ApiBlockedIs, ApiPageIs DEF SameSearch
    <2>2. ~TriedBy(shop'.tried, "dom")
      BY <2>1, TriedMore DEF ApiInv
    <2>3. NeverStuck(shop'.tried) /\ ~LastStuck(shop'.tried, MaxFails)
      BY <1>a, <2>1, TriedStuck DEF Searching
    <2>4. 0 <= Shops!MaxSearchPages + ExtraPages + 1
      BY <1>b
    <2> QED
      BY <1>b, <2>1, <2>2, <2>3, <2>4 DEF StopInv, Selling, Searching
  <1>5. CASE Shops!DomBlocked
    <2>1. /\ shop.stage = "dom" /\ Shops!MayOpen /\ TriedOnce("blocked") /\ shop'.limit = shop.limit
          /\ shop'.page = shop.page + 1 /\ shop'.result = shop.result
          /\ shop'.stage = IF Shops!InARow(MaxFails - 1) THEN "sellers" ELSE "dom"
      BY <1>5, DomBlockedIs DEF SameSearch
    <2>2. /\ NeverStuck(shop'.tried)
          /\ LastStuck(shop'.tried, MaxFails) <=> LastStuck(shop.tried, MaxFails - 1)
      BY <1>a, <2>1, TriedStuck DEF Searching
    <2>3. shop'.page <= Shops!MaxSearchPages + ExtraPages + 1
      BY <1>b, <2>1 DEF Shops!MayOpen
    <2>4. shop'.stage = IF LastStuck(shop.tried, MaxFails - 1) THEN "sellers" ELSE "dom"
      BY <2>1, InARowIs
    <2>5. shop'.result # "sellers"
      BY <2>1 DEF ShopTypes
    <2> QED
      BY <1>b, <2>1, <2>2, <2>3, <2>4, <2>5 DEF StopInv, Selling, Searching
  <1>6. CASE Shops!DomPage
    <2>1. /\ shop.stage = "dom" /\ Shops!MayOpen /\ TriedOnce("read") /\ shop'.limit = shop.limit
          /\ shop'.page = shop.page /\ shop'.result = shop.result /\ shop'.stage = "scroll"
      BY <1>6, DomPageIs DEF SameSearch
    <2>2. NeverStuck(shop'.tried) /\ ~LastStuck(shop'.tried, MaxFails)
      BY <1>a, <2>1, TriedStuck DEF Searching
    <2>3. shop'.page <= Shops!MaxSearchPages + ExtraPages
      BY <1>b, <2>1 DEF Shops!MayOpen
    <2>4. shop'.result # "sellers"
      BY <2>1 DEF ShopTypes
    <2> QED
      BY <1>b, <2>1, <2>2, <2>3, <2>4 DEF StopInv, Selling, Searching
  <1>7. CASE Shops!Scroll \/ Shops!LeaveScroll
    <2>1. /\ shop.stage = "scroll" /\ shop'.tried = shop.tried /\ shop'.limit = shop.limit
          /\ shop'.result = shop.result
          /\ \/ shop'.stage = "dom" /\ shop'.page = shop.page + 1
             \/ shop'.stage = "scroll" /\ shop'.page = shop.page
      BY <1>7, ScrollIs, LeaveScrollIs DEF SameSearch
    <2>2. shop'.result # "sellers" /\ ~LastStuck(shop'.tried, MaxFails)
      BY <1>a, <2>1 DEF ShopTypes, Searching
    <2>3. /\ shop'.stage = "dom" => shop'.page <= Shops!MaxSearchPages + ExtraPages + 1
          /\ shop'.stage = "scroll" => shop'.page <= Shops!MaxSearchPages + ExtraPages
      BY <1>a, <1>b, <2>1
    <2> QED
      BY <1>a, <1>b, <2>1, <2>2, <2>3 DEF StopInv, Selling, Searching
  <1>8. CASE Shops!LeaveDom
    <2>1. /\ shop.stage = "dom" /\ ~Shops!MayOpen /\ shop'.tried = shop.tried /\ shop'.stage = "sellers"
          /\ shop'.limit = shop.limit /\ shop'.page = shop.page /\ shop'.products = shop.products
      BY <1>8, LeaveDomIs DEF SameSearch, SameFound
    <2>2. shop.page = Shops!MaxSearchPages + ExtraPages + 1 \/ Shops!Enough(shop.products)
      BY <1>a, <1>b, <2>1 DEF Shops!MayOpen
    <2>3. Shops!Enough(shop.products)' <=> Shops!Enough(shop.products)
      BY <2>1, EnoughIs
    <2> QED
      BY <1>a, <1>b, <2>1, <2>2, <2>3 DEF StopInv, Selling, Searching
  <1>9. CASE Shops!NoProducts \/ Shops!Return \/ Shops!NextProduct
    <2>1. /\ shop.stage = "sellers" /\ shop'.tried = shop.tried /\ shop'.limit = shop.limit
          /\ shop'.products = shop.products /\ shop'.page = shop.page
          /\ shop'.stage \in {"sellers", "ended"}
      BY <1>9, EndIs, NextProductIs DEF SameFound, SameSearch
    <2>2. Shops!Enough(shop.products)' <=> Shops!Enough(shop.products)
      BY <2>1, EnoughIs
    <2>3. Selling
      BY <2>1 DEF Selling
    <2> QED
      BY <1>a, <1>b, <2>1, <2>2, <2>3 DEF StopInv, Searching
  <1> QED
    BY <1>2, <1>3, <1>4, <1>5, <1>6, <1>7, <1>8, <1>9 DEF ShopSteps

-----------------------------------------------------------------------------

IsLoad(t) == t.by = "dom" /\ t.how = "read"

\* The cards of the first two passes over each page that has loaded are among the
\* products, those of the page that is being scrolled as far as it has been.
Loaded ==
  /\ \A i \in DOMAIN shop.tried : IsLoad(shop.tried[i]) =>
       LET passes == shop.market.pages[shop.tried[i].page + 1] IN
       \A k \in DOMAIN passes : k <= 2 =>
         \/ shop.stage = "scroll" /\ shop.tried[i].page = shop.page /\ k > shop.passes
         \/ ToSet(passes[k]) \subseteq ToSet(shop.products)
  /\ shop.stage = "scroll" => shop.passes <= Len(shop.market.pages[shop.page + 1])
LoadedInv == shop.result # "error" => Loaded

LEMMA LoadedStays ==
  ASSUME Loaded, shop'.tried = shop.tried, shop'.market = shop.market, shop'.products = shop.products,
         shop.stage # "scroll", shop'.stage # "scroll"
  PROVE  Loaded'
  BY DEF Loaded

\* A request more for a page: what it loads has not been scrolled yet.
LEMMA LoadedMore ==
  ASSUME ShopTypes, Loaded, NEW how, TriedOnce(how), shop'.market = shop.market,
         ToSet(shop.products) \subseteq ToSet(shop'.products), shop.stage # "scroll",
         \/ ~(shop.stage = "dom" /\ how = "read") /\ shop'.stage # "scroll"
         \/ /\ shop'.stage = "scroll" /\ shop'.passes = 0 /\ shop'.page = shop.page
            /\ shop.page + 1 \in DOMAIN shop.market.pages
  PROVE  Loaded'
  <1> DEFINE n == Len(shop.tried)
  <1>1. n \in Nat /\ DOMAIN shop.tried = 1..n
    BY ListHas DEF ShopTypes
  <1>2. DOMAIN shop'.tried = 1..n + 1
    BY ListHas DEF TriedOnce
  <1>3. \A i \in 1..n : shop'.tried[i] = shop.tried[i]
    BY DEF TriedOnce
  <1>4. shop'.tried[n + 1].page = shop.page /\ (IsLoad(shop'.tried[n + 1]) <=> shop.stage = "dom" /\ how = "read")
    BY DEF TriedOnce, IsLoad
  <1> HIDE DEF n
  <1>5. ASSUME shop'.stage = "scroll"
        PROVE  /\ shop'.passes <= Len(shop'.market.pages[shop'.page + 1])
               /\ \A k \in DOMAIN shop.market.pages[shop.page + 1] : k > shop'.passes
    <2>1. IsList(shop.market.pages[shop.page + 1])
      BY <1>5, MarketIs DEF ShopTypes
    <2>2. /\ Len(shop.market.pages[shop.page + 1]) \in Nat
          /\ DOMAIN shop.market.pages[shop.page + 1] = 1..Len(shop.market.pages[shop.page + 1])
      BY <2>1, ListHas
    <2> QED
      BY <1>5, <2>2
  <1>6. ASSUME NEW i \in 1..n + 1, IsLoad(shop'.tried[i]),
               NEW k \in DOMAIN shop.market.pages[shop'.tried[i].page + 1], k <= 2
        PROVE  \/ shop'.stage = "scroll" /\ shop'.tried[i].page = shop'.page /\ k > shop'.passes
               \/ ToSet(shop.market.pages[shop'.tried[i].page + 1][k]) \subseteq ToSet(shop'.products)
    <2>1. CASE i \in 1..n
      <3>1. ToSet(shop.market.pages[shop.tried[i].page + 1][k]) \subseteq ToSet(shop.products)
        BY <1>1, <1>3, <1>6, <2>1 DEF Loaded
      <3> QED
        BY <1>3, <2>1, <3>1
    <2>2. CASE i = n + 1
      <3>1. shop'.stage = "scroll" /\ shop'.page = shop.page
        BY <1>4, <1>6, <2>2
      <3> QED
        BY <1>4, <1>5, <1>6, <2>2, <3>1
    <2> QED
      BY <1>1, <2>1, <2>2
  <1> QED
    BY <1>2, <1>5, <1>6 DEF Loaded

LEMMA ScrollLoads ==
  ASSUME ShopTypes, Loaded, Shops!Scroll
  PROVE  Loaded'
  <1> DEFINE passes == shop.market.pages[shop.page + 1]
             cards == passes[shop.passes + 1]
  <1>1. /\ shop.stage = "scroll" /\ shop.passes < Len(passes)
        /\ shop'.market = shop.market /\ shop'.tried = shop.tried
        /\ shop'.products = shop.products \o Selected(cards, FreshCards(cards, ToSet(shop.products)))
        /\ shop'.passes = shop.passes + 1
        /\ \/ shop.passes > 0 /\ shop'.stage = "dom"
           \/ shop'.page = shop.page /\ shop'.stage = "scroll"
    BY ScrollIs DEF SameSearch
  <1>2. IsList(passes) /\ \A j \in DOMAIN passes : IsList(passes[j])
    BY <1>1, MarketIs DEF ShopTypes
  <1>3. /\ IsList(cards) /\ shop.passes \in Nat /\ Len(passes) \in Nat /\ DOMAIN passes = 1..Len(passes)
    <2>1. Len(passes) \in Nat /\ DOMAIN passes = 1..Len(passes) /\ shop.passes \in Nat
      BY <1>2, ListHas DEF ShopTypes
    <2>0. shop.passes < Len(passes)
      BY <1>1
    <2> HIDE DEF passes
    <2>2. shop.passes + 1 \in DOMAIN passes
      BY <2>0, <2>1
    <2> QED
      BY <1>2, <2>1, <2>2
  <1>4. ToSet(shop'.products) = ToSet(shop.products) \cup ToSet(cards)
    <2> HIDE DEF cards
    <2> QED
      BY <1>1, <1>3, CardsAdded DEF ShopTypes
  <1>5. shop'.stage = "scroll" => shop'.passes <= Len(shop'.market.pages[shop'.page + 1])
    <2>1. ASSUME shop'.stage = "scroll" PROVE shop'.market.pages[shop'.page + 1] = passes
      BY <1>1, <2>1
    <2> HIDE DEF passes
    <2> QED
      BY <1>1, <1>3, <2>1
  <1>6. ASSUME NEW i \in DOMAIN shop.tried, IsLoad(shop.tried[i]),
               NEW k \in DOMAIN shop.market.pages[shop.tried[i].page + 1], k <= 2
        PROVE  \/ shop'.stage = "scroll" /\ shop.tried[i].page = shop'.page /\ k > shop'.passes
               \/ ToSet(shop.market.pages[shop.tried[i].page + 1][k]) \subseteq ToSet(shop'.products)
    <2>1. \/ shop.tried[i].page = shop.page /\ k > shop.passes
          \/ ToSet(shop.market.pages[shop.tried[i].page + 1][k]) \subseteq ToSet(shop.products)
      BY <1>6 DEF Loaded
    <2>2. CASE ToSet(shop.market.pages[shop.tried[i].page + 1][k]) \subseteq ToSet(shop.products)
      BY <1>4, <2>2
    <2>3. CASE shop.tried[i].page = shop.page /\ k > shop.passes
      <3>1. k \in DOMAIN passes
        BY <1>6, <2>3
      <3>2. k \in Nat
        BY <1>3, <3>1
      <3>3. CASE k = shop.passes + 1
        BY <1>4, <2>3, <3>3
      <3>4. CASE k # shop.passes + 1
        <4>1. k <= 2 /\ shop.tried[i].page = shop.page /\ k > shop.passes /\ k # shop.passes + 1
          BY <1>6, <2>3, <3>4
        <4>2. shop.passes + 1 < k /\ ~(shop.passes > 0)
          BY <1>3, <3>2, <4>1
        <4> QED
          BY <1>1, <4>1, <4>2
      <3> QED
        BY <3>3, <3>4
    <2> QED
      BY <2>1, <2>2, <2>3
  <1> QED
    BY <1>1, <1>5, <1>6 DEF Loaded

LEMMA LeaveLoads ==
  ASSUME ShopTypes, Loaded, Shops!LeaveScroll
  PROVE  Loaded'
  <1> DEFINE passes == shop.market.pages[shop.page + 1]
  <1>1. /\ shop.stage = "scroll" /\ shop'.stage = "dom" /\ shop.passes \in {Len(passes), MaxScrolls}
        /\ shop'.market = shop.market /\ shop'.tried = shop.tried /\ shop'.products = shop.products
    BY LeaveScrollIs DEF SameSearch, SameFound
  <1>2. IsList(passes) /\ Len(passes) \in Nat /\ DOMAIN passes = 1..Len(passes)
    <2>1. IsList(passes)
      BY <1>1, MarketIs DEF ShopTypes
    <2> QED
      BY <2>1, ListHas
  <1>3. \A k \in DOMAIN passes : k <= 2 => ~(k > shop.passes)
    BY <1>1, <1>2, ShopConstants
  <1>4. ASSUME NEW i \in DOMAIN shop.tried, IsLoad(shop.tried[i]),
               NEW k \in DOMAIN shop.market.pages[shop.tried[i].page + 1], k <= 2
        PROVE  ToSet(shop.market.pages[shop.tried[i].page + 1][k]) \subseteq ToSet(shop.products)
    <2>1. \/ shop.tried[i].page = shop.page /\ k > shop.passes
          \/ ToSet(shop.market.pages[shop.tried[i].page + 1][k]) \subseteq ToSet(shop.products)
      BY <1>4 DEF Loaded
    <2> QED
      BY <1>3, <1>4, <2>1
  <1> QED
    BY <1>1, <1>4 DEF Loaded

LEMMA LoadedKeeps == ShopTypes /\ LoadedInv /\ ShopSteps => LoadedInv'
  <1> SUFFICES ASSUME ShopTypes, LoadedInv, ShopSteps, shop'.result # "error" PROVE Loaded'
    BY DEF LoadedInv
  <1>1. CASE Shops!OpenSession
    <2>1. /\ shop.stage = "session" /\ shop'.stage = "api"
          /\ shop'.market = shop.market /\ shop'.tried = shop.tried /\ shop'.products = shop.products
      BY <1>1, OpenIs DEF SameSearch, SameFound
    <2>2. Loaded
      BY <2>1 DEF ShopTypes, LoadedInv
    <2> QED
      BY <2>1, <2>2, LoadedStays
  <1>2. CASE Shops!ScrapeRaises
    BY <1>2, RaiseIs
  <1>3. CASE Shops!ApiBlocked
    <2>1. /\ shop.stage = "api" /\ shop'.stage # "scroll" /\ TriedOnce("blocked")
          /\ shop'.market = shop.market /\ shop'.products = shop.products
      BY <1>3, ApiBlockedIs DEF SameSearch, SameFound
    <2>2. Loaded
      BY <2>1 DEF ShopTypes, LoadedInv
    <2>3. ToSet(shop.products) \subseteq ToSet(shop'.products)
      BY <2>1
    <2> QED
      BY <2>1, <2>2, <2>3, LoadedMore
  <1>4. CASE Shops!ApiPage
    <2> DEFINE from == shop.page * PageSize
               r == Selected(shop.market.offers, PageOffers(shop.market.offers, from, NoShop))
    <2>1. /\ shop.stage = "api" /\ shop'.stage # "scroll" /\ TriedOnce("read")
          /\ shop'.market = shop.market /\ shop'.products = shop.products \o r
      BY <1>4, ApiPageIs DEF SameSearch
    <2>2. Loaded
      BY <2>1 DEF ShopTypes, LoadedInv
    <2>3. ToSet(shop.products) \subseteq ToSet(shop'.products)
      <3>1. from \in Nat
        BY ShopConstants DEF ShopTypes
      <3> HIDE DEF from
      <3>2. IsList(r) /\ IsList(shop.products)
        BY <3>1, OffersAdded DEF ShopTypes
      <3> HIDE DEF r
      <3> QED
        BY <2>1, <3>2, JoinIs
    <2> HIDE DEF r
    <2> QED
      BY <2>1, <2>2, <2>3, LoadedMore
  <1>5. CASE Shops!DomBlocked
    <2>1. /\ shop.stage = "dom" /\ shop'.stage # "scroll" /\ TriedOnce("blocked")
          /\ shop'.market = shop.market /\ shop'.products = shop.products
      BY <1>5, DomBlockedIs DEF SameSearch, SameFound
    <2>2. Loaded
      BY <2>1 DEF ShopTypes, LoadedInv
    <2>3. ToSet(shop.products) \subseteq ToSet(shop'.products)
      BY <2>1
    <2> QED
      BY <2>1, <2>2, <2>3, LoadedMore
  <1>6. CASE Shops!DomPage
    <2>1. /\ shop.stage = "dom" /\ shop'.stage = "scroll" /\ TriedOnce("read")
          /\ shop'.market = shop.market /\ shop'.products = shop.products
          /\ shop'.passes = 0 /\ shop'.page = shop.page /\ shop.page < Len(shop.market.pages)
      BY <1>6, DomPageIs DEF SameSearch, SameFound
    <2>2. Loaded
      BY <2>1 DEF ShopTypes, LoadedInv
    <2>3. ToSet(shop.products) \subseteq ToSet(shop'.products)
      BY <2>1
    <2>4. shop.page + 1 \in DOMAIN shop.market.pages
      <3>1. Len(shop.market.pages) \in Nat /\ DOMAIN shop.market.pages = 1..Len(shop.market.pages)
        BY MarketIs, ListHas DEF ShopTypes
      <3> QED
        BY <2>1, <3>1 DEF ShopTypes
    <2> QED
      BY <2>1, <2>2, <2>3, <2>4, LoadedMore
  <1>7. CASE Shops!Scroll \/ Shops!LeaveScroll
    <2>1. shop.stage = "scroll"
      BY <1>7, ScrollIs, LeaveScrollIs
    <2>2. Loaded
      BY <2>1 DEF ShopTypes, LoadedInv
    <2> QED
      BY <1>7, <2>2, ScrollLoads, LeaveLoads
  <1>8. CASE Shops!LeaveDom
    <2>1. /\ shop.stage = "dom" /\ shop'.stage = "sellers"
          /\ shop'.market = shop.market /\ shop'.tried = shop.tried /\ shop'.products = shop.products
      BY <1>8, LeaveDomIs DEF SameSearch, SameFound
    <2>2. Loaded
      BY <2>1 DEF ShopTypes, LoadedInv
    <2> QED
      BY <2>1, <2>2, LoadedStays
  <1>9. CASE Shops!NoProducts \/ Shops!Return \/ Shops!NextProduct
    <2>1. /\ shop.stage = "sellers" /\ shop'.stage \in {"sellers", "ended"}
          /\ shop'.market = shop.market /\ shop'.tried = shop.tried /\ shop'.products = shop.products
      BY <1>9, EndIs, NextProductIs DEF SameSearch, SameFound
    <2>2. Loaded
      BY <2>1 DEF ShopTypes, LoadedInv
    <2> QED
      BY <2>1, <2>2, LoadedStays
  <1> QED
    BY <1>1, <1>2, <1>3, <1>4, <1>5, <1>6, <1>7, <1>8, <1>9 DEF ShopSteps

-----------------------------------------------------------------------------

ShopInv == ShopTypes /\ SoldInv /\ ApiInv /\ StopInv /\ LoadedInv

LEMMA ShopInit == shop \in Shops!Searches => ShopInv
  <1> SUFFICES ASSUME shop \in Shops!Searches PROVE ShopInv
    OBVIOUS
  <1>1. /\ DOMAIN shop = ShopFields /\ shop.stage = "session" /\ shop.market \in Markets /\ shop.limit \in Limits
        /\ shop.page = 0 /\ shop.passes = 0 /\ shop.products = <<>> /\ shop.tried = <<>> /\ shop.at = 0
        /\ shop.sellers = <<>> /\ shop.result = "none"
    BY DEF Shops!Searches, ShopFields
  <1>2. IsList(<<>>) /\ Len(<<>>) = 0 /\ DOMAIN <<>> = {}
    BY EmptyList, ListHas
  <1>3. ShopTypes
    <2>1. shop.limit \in Nat \ {0}
      BY <1>1, ShopConstants
    <2> QED
      BY <1>1, <1>2, <2>1 DEF ShopTypes, Searching
  <1>4. SoldInv
    BY <1>1, NothingSold DEF SoldInv
  <1>5. ApiInv
    <2>1. IsList(shop.market.offers) /\ Len(shop.market.offers) \in Nat
      BY <1>1, MarketIs, ListHas
    <2>2. 0 * PageSize = 0 /\ Shops!MaxSearchPages \in Nat \ {0}
      BY <1>3, ShopConstants, BudgetIs
    <2>3. OffersRead(0)
      BY <1>1, <1>2 DEF OffersRead, Traces, Seen
    <2> QED
      BY <1>1, <1>2, <2>1, <2>2, <2>3 DEF ApiInv, TriedBy, TriedBlocked, Selling
  <1>6. StopInv
    BY <1>1, <1>2, ShopConstants DEF StopInv, LastStuck, NeverStuck, TriedBy, Selling
  <1>7. LoadedInv
    BY <1>1, <1>2 DEF LoadedInv, Loaded
  <1> QED
    BY <1>3, <1>4, <1>5, <1>6, <1>7 DEF ShopInv

LEMMA ShopNextIs == Shops!ShopNext <=> ShopSteps
  BY Zenon DEF Shops!ShopNext, ShopSteps

LEMMA ShopKeeps == ShopInv /\ Shops!ShopNext => ShopInv'
  BY ShopNextIs, ShopTypesKeep, SoldKeeps, ApiKeeps, StopKeeps, LoadedKeeps, Zenon DEF ShopInv

\* The sellers are the first shops of the offers.
FirstOnes(none) ==
  LET all == shop.market.offers
      budget == Shops!MaxSearchPages * PageSize
      Shown(n) == {ShopOf[all[i]] : i \in 1..n} \ {none}
  IN /\ \A k \in DOMAIN Shops!Listed : \E i \in DOMAIN all :
          /\ i <= budget /\ ShopOf[all[i]] = Shops!Listed[k]
          /\ Shown(i) = {Shops!Listed[j] : j \in 1..k}
     /\ Len(Shops!Listed) = shop.limit
          \/ Shops!ToSet(Shops!Listed) = Shown(IF Len(all) < budget THEN Len(all) ELSE budget)

LEMMA ListedIs ==
  ASSUME ShopTypes
  PROVE  /\ DOMAIN Shops!Listed = 1..Len(shop.sellers) /\ Len(Shops!Listed) = Len(shop.sellers)
         /\ Len(shop.sellers) \in Nat
         /\ \A k \in 1..Len(shop.sellers) :
              /\ Shops!Listed[k] = shop.sellers[k].shop
              /\ {Shops!Listed[j] : j \in 1..k} = SoldBy(shop.sellers, k)
         /\ Shops!ToSet(Shops!Listed) = SoldBy(shop.sellers, Len(shop.sellers))
  <1> DEFINE f == Shops!Listed
             l == Len(shop.sellers)
  <1>1. l \in Nat /\ DOMAIN shop.sellers = 1..l
    BY ListHas DEF ShopTypes
  <1>2. DOMAIN f = 1..l /\ f = [i \in DOMAIN f |-> f[i]] /\ \A k \in 1..l : f[k] = shop.sellers[k].shop
    BY <1>1 DEF Shops!Listed
  <1> HIDE DEF f, l
  <1>3. IsList(f) /\ Len(f) = l
    BY <1>1, <1>2, ListIs
  <1>4. \A k \in 1..l : {f[j] : j \in 1..k} = SoldBy(shop.sellers, k)
    <2> TAKE k \in 1..l
    <2>1. \A j \in 1..k : j \in 1..l
      BY <1>1
    <2> QED
      BY <1>2, <2>1 DEF SoldBy
  <1>5. ToSet(f) = SoldBy(shop.sellers, l)
    BY <1>2 DEF ToSet, SoldBy
  <1> QED
    BY <1>1, <1>2, <1>3, <1>4, <1>5, SameLists DEF f, l

LEMMA FirstHolds ==
  ASSUME ShopInv, shop.result = "sellers", ~TriedBy(shop.tried, "dom"), ~TriedBlocked(shop.tried, "api")
  PROVE  FirstOnes(NoShop)
  <1> DEFINE all == shop.market.offers
             budget == Shops!MaxSearchPages * PageSize
             f == Shops!Listed
             l == Len(shop.sellers)
             products == shop.products
             Shown(n) == {ShopOf[all[i]] : i \in 1..n} \ {NoShop}
  <1>1. /\ DOMAIN f = 1..l /\ Len(f) = l /\ l \in Nat
        /\ \A k \in 1..l : f[k] = shop.sellers[k].shop /\ {f[j] : j \in 1..k} = SoldBy(shop.sellers, k)
        /\ Shops!ToSet(f) = SoldBy(shop.sellers, l)
    BY ListedIs DEF ShopInv
  <1>2. IsList(all) /\ Len(all) \in Nat /\ DOMAIN all = 1..Len(all)
    BY MarketIs, ListHas DEF ShopInv, ShopTypes
  <1>3. IsList(products) /\ Len(products) \in Nat /\ DOMAIN products = 1..Len(products)
        /\ DOMAIN shop.sellers = 1..l /\ shop.at \in 0..Len(products) /\ l <= shop.limit /\ IsList(shop.sellers)
    BY ListHas DEF ShopInv, ShopTypes
  <1>4. SellersFit(products, shop.at, shop.sellers) /\ (shop.at = Len(products) \/ l >= shop.limit)
    BY DEF ShopInv, SoldInv
  <1>5. ReadThrough
    BY DEF ShopInv, ApiInv, Selling
  <1>6. PICK n \in Nat : /\ n <= Len(all) /\ n <= budget /\ Traces(products, all, n, NoShop)
                         /\ Shops!Enough(products) \/ n = Len(all) \/ n = budget
    BY <1>5 DEF ReadThrough, OffersRead
  <1>7. shop.limit \in Nat /\ budget \in Nat
    BY BudgetIs, ShopConstants DEF ShopInv
  <1>8. \A i : Seen(all, i) \ {NoShop} = Shown(i)
    BY DEF Seen
  <1> HIDE DEF budget, f, l, all, products, Shown
  <1>b. n <= Len(all) /\ n <= budget /\ n \in Nat
    BY <1>6, Zenon
  <1>c. Shops!Enough(products) \/ n = Len(all) \/ n = budget
    BY <1>6, Zenon
  <1>9. \A k \in 1..l : \E i \in 1..Len(all) :
          i <= budget /\ ShopOf[all[i]] = f[k] /\ Shown(i) = {f[j] : j \in 1..k}
    <2> TAKE k \in 1..l
    <2>1. PICK a \in 1..shop.at : /\ ShopOf[products[a]] = shop.sellers[k].shop
                                 /\ Seen(products, a) = SoldBy(shop.sellers, k)
      BY <1>3, <1>4 DEF SellersFit
    <2>2. a \in DOMAIN products
      BY <1>3
    <2>3. PICK i \in 1..n : ShopOf[all[i]] = ShopOf[products[a]] /\ Seen(all, i) \ {NoShop} = Seen(products, a)
      BY <1>6, <2>2 DEF Traces
    <2>4. i \in 1..Len(all) /\ i <= budget
      BY <1>2, <1>b, <1>7
    <2>5. ShopOf[all[i]] = f[k] /\ Shown(i) = {f[j] : j \in 1..k}
      BY <1>1, <1>8, <2>1, <2>3
    <2> QED
      BY <2>4, <2>5
  <1>10. l = shop.limit \/ Shops!ToSet(f) = Shown(IF Len(all) < budget THEN Len(all) ELSE budget)
    <2> SUFFICES ASSUME l # shop.limit
                 PROVE  Shops!ToSet(f) = Shown(IF Len(all) < budget THEN Len(all) ELSE budget)
      OBVIOUS
    <2>1. shop.at = Len(products) /\ l < shop.limit
      BY <1>1, <1>3, <1>4, <1>7
    <2>2. /\ SellersFit(products, Len(products), shop.sellers)
      BY <1>4, <2>1
    <2>3. Cardinality(Shops!ShopsOf(products)) = l
      BY <1>3, <2>2, AllSold DEF l
    <2>4. ~Shops!Enough(products)
      BY <1>1, <1>7, <2>1, <2>3, SameShopSizes DEF Shops!Enough
    <2>5. n = IF Len(all) < budget THEN Len(all) ELSE budget
      <3>1. n = Len(all) \/ n = budget
        BY <1>c, <2>4, Zenon
      <3>2. Len(all) \in Nat /\ budget \in Nat
        BY <1>2, <1>7
      <3>3. CASE Len(all) < budget
        <4>1. n = Len(all)
          BY <1>b, <3>1, <3>2, <3>3
        <4> QED
          BY <3>3, <4>1
      <3>4. CASE ~(Len(all) < budget)
        <4>1. n = budget
          BY <1>b, <3>1, <3>2, <3>4
        <4> QED
          BY <3>4, <4>1
      <3> QED
        BY <3>3, <3>4
    <2>6. SoldBy(shop.sellers, l) = Seen(products, Len(products))
      BY <2>2 DEF SellersFit, l
    <2>7. Seen(products, Len(products)) = Shown(n)
      BY <1>6, <1>8 DEF Traces
    <2> QED
      BY <1>1, <2>5, <2>6, <2>7
  <1>11. \A k \in DOMAIN f : \E i \in DOMAIN all :
           i <= budget /\ ShopOf[all[i]] = f[k] /\ Shown(i) = {f[j] : j \in 1..k}
    BY <1>1, <1>2, <1>9
  <1>12. Len(f) = shop.limit \/ Shops!ToSet(f) = Shown(IF Len(all) < budget THEN Len(all) ELSE budget)
    BY <1>1, <1>10
  <1> QED
    BY <1>11, <1>12, Zenon DEF FirstOnes, f, all, budget, Shown

LEMMA SellersFirst == ShopInv => Shops!SellersAreFirst
  <1>1. Shops!By("dom") <=> TriedBy(shop.tried, "dom")
    BY Zenon DEF Shops!By, TriedBy
  <1>2. Shops!Blocked("api") <=> TriedBlocked(shop.tried, "api")
    BY Zenon DEF Shops!Blocked, TriedBlocked
  <1>3. ASSUME ShopInv, shop.result = "sellers"
        PROVE  Shops!IsInjective(Shops!Listed) /\ Len(Shops!Listed) <= shop.limit
    <2>1. /\ DOMAIN Shops!Listed = 1..Len(shop.sellers) /\ Len(Shops!Listed) = Len(shop.sellers)
          /\ \A k \in 1..Len(shop.sellers) : Shops!Listed[k] = shop.sellers[k].shop
      BY <1>3, ListedIs DEF ShopInv
    <2>2. \A i, j \in DOMAIN shop.sellers : shop.sellers[i].shop = shop.sellers[j].shop => i = j
      BY <1>3 DEF ShopInv, SoldInv, SellersFit
    <2>3. DOMAIN shop.sellers = 1..Len(shop.sellers) /\ Len(shop.sellers) <= shop.limit
      BY <1>3, ListHas DEF ShopInv, ShopTypes
    <2> QED
      BY <2>1, <2>2, <2>3 DEF Shops!IsInjective
  <1>4. ASSUME ShopInv, shop.result = "sellers", ~Shops!By("dom"), ~Shops!Blocked("api")
        PROVE  FirstOnes(NoShop)
    BY <1>1, <1>2, <1>4, FirstHolds
  <1> QED
    BY <1>3, <1>4, Zenon DEF Shops!SellersAreFirst, Shops!Returned, FirstOnes, NoShop

\* A list that is not full holds all shops of the products.
LEMMA ListedAll ==
  ASSUME ShopTypes, SoldInv, shop.result = "sellers", Len(Shops!Listed) < shop.limit
  PROVE  /\ ~Shops!Enough(shop.products)
         /\ Shops!ToSet(Shops!Listed) = Shops!ShopsOf(shop.products)
  <1> DEFINE l == Len(shop.sellers)
  <1>1. l \in Nat /\ Len(Shops!Listed) = l /\ Shops!ToSet(Shops!Listed) = SoldBy(shop.sellers, l)
    BY ListedIs
  <1>2. shop.limit \in Nat
    BY BudgetIs
  <1>3. shop.at = Len(shop.products)
    BY <1>1, <1>2 DEF SoldInv
  <1>4. /\ Shops!ShopsOf(shop.products) = SoldBy(shop.sellers, l)
        /\ Cardinality(Shops!ShopsOf(shop.products)) = l
    BY <1>3, AllSold DEF SoldInv, ShopTypes
  <1>5. ~Shops!Enough(shop.products)
    BY <1>1, <1>2, <1>4, SameShopSizes DEF Shops!Enough
  <1> QED
    BY <1>1, <1>4, <1>5

LEMMA StopsRight == ShopInv => Shops!StopsForReason
  <1> SUFFICES ASSUME ShopInv PROVE Shops!StopsForReason
    OBVIOUS
  <1>1. \A i : Shops!DomBlock(i) <=> Stuck(shop.tried[i])
    BY DEF Shops!DomBlock, Stuck
  <1>2. \A i \in DOMAIN shop.tried : i + MaxFails <= Len(shop.tried) =>
          \E k \in i..(i + MaxFails - 1) : ~Shops!DomBlock(k)
    BY <1>1 DEF ShopInv, StopInv, NeverStuck
  <1>3. ASSUME shop.result = "sellers", Shops!By("dom"), Len(Shops!Listed) < shop.limit
        PROVE  Shops!InARow(MaxFails) \/ shop.page = Shops!MaxSearchPages + ExtraPages + 1
    <2>1. TriedBy(shop.tried, "dom")
      BY <1>3 DEF Shops!By, TriedBy
    <2>2. \/ LastStuck(shop.tried, MaxFails) \/ Shops!Enough(shop.products)
          \/ shop.page = Shops!MaxSearchPages + ExtraPages + 1
      BY <1>3, <2>1 DEF ShopInv, StopInv, Selling
    <2>3. ~Shops!Enough(shop.products)
      BY <1>3, ListedAll DEF ShopInv
    <2> QED
      BY <2>2, <2>3, InARowIs
  <1> QED
    BY <1>2, <1>3 DEF Shops!StopsForReason, Shops!Returned

LEMMA LoadedRight == ShopInv => Shops!LoadedIsListed
  <1> SUFFICES ASSUME ShopInv, shop.result = "sellers", Len(Shops!Listed) < shop.limit,
                      NEW i \in DOMAIN shop.tried, IsLoad(shop.tried[i]),
                      NEW k \in DOMAIN shop.market.pages[shop.tried[i].page + 1] \cap 1..2,
                      NEW p \in Shops!ToSet(shop.market.pages[shop.tried[i].page + 1][k])
               PROVE  ShopOf[p] \in Shops!ToSet(Shops!Listed)
    BY DEF Shops!LoadedIsListed, Shops!Returned, IsLoad
  <1>1. Loaded /\ shop.stage = "ended"
    BY DEF ShopInv, LoadedInv, ShopTypes
  <1>2. k <= 2 /\ p \in ToSet(shop.market.pages[shop.tried[i].page + 1][k])
    BY SameLists
  <1>3. p \in ToSet(shop.products)
    BY <1>1, <1>2 DEF Loaded
  <1>4. ShopOf[p] \in Shops!ShopsOf(shop.products)
    BY <1>3, SameLists DEF Shops!ShopsOf
  <1> QED
    BY <1>4, ListedAll DEF ShopInv

-----------------------------------------------------------------------------
(* Sums.                                                                     *)

\* Of some subsets of a finite set one has no proper part among them.
LEMMA SmallestSubset ==
  ASSUME NEW D, IsFiniteSet(D), NEW B \in SUBSET (SUBSET D), B # {}
  PROVE  \E S \in B : IsFiniteSet(S) /\ \A x \in S : S \ {x} \notin B
  <1> DEFINE W == {Cardinality(S) : S \in B}
             m == Min(W)
  <1>1. \A S \in SUBSET D : IsFiniteSet(S) /\ Cardinality(S) \in Nat
    BY FS_Subset, FS_CardinalityType
  <1>2. W \in SUBSET Nat /\ W # {}
    BY <1>1
  <1>3. m \in W /\ \A n \in W : m <= n
    <2> HIDE DEF W
    <2> QED
      BY <1>2, LeastOf
  <1> HIDE DEF m
  <1>4. PICK S \in B : Cardinality(S) = m
    BY <1>3
  <1>5. IsFiniteSet(S) /\ Cardinality(S) \in Nat
    BY <1>1
  <1>6. ASSUME NEW x \in S, S \ {x} \in B PROVE FALSE
    <2>1. Cardinality(S \ {x}) = Cardinality(S) - 1
      BY <1>5, FS_RemoveElement
    <2>2. m <= Cardinality(S \ {x})
      BY <1>3, <1>6
    <2> QED
      BY <1>4, <1>5, <2>1, <2>2
  <1> QED
    BY <1>5, <1>6

One(S) == CHOOSE x \in S : TRUE
IsSum(sum, f, D) ==
  sum = [S \in SUBSET D |-> IF S = {} THEN 0 ELSE f[One(S)] + sum[S \ {One(S)}]]
Sum(f, S) == Figures!SumFunctionOnSet(f, S)

LEMMA SumIs == \A f, D : Sum(f, D) = (CHOOSE sum : IsSum(sum, f, D))[D]
  BY Zenon DEF Sum, Figures!SumFunctionOnSet, Figures!FoldFunctionOnSet, Figures!MapThenFoldSet, IsSum, One

LEMMA OneOf == \A S : S # {} => One(S) \in S
  BY DEF One

LEMMA SumPart ==
  ASSUME NEW f, NEW D, NEW g, IsSum(g, f, D), NEW S \in SUBSET D
  PROVE  IsSum([s \in SUBSET S |-> g[s]], f, S)
  <1> DEFINE h == [s \in SUBSET S |-> g[s]]
             e == [s \in SUBSET S |-> IF s = {} THEN 0 ELSE f[One(s)] + h[s \ {One(s)}]]
  <1>1. \A s \in SUBSET D : g[s] = IF s = {} THEN 0 ELSE f[One(s)] + g[s \ {One(s)}]
    BY DEF IsSum
  <1>2. \A s \in SUBSET S : s \in SUBSET D /\ s \ {One(s)} \in SUBSET S
    OBVIOUS
  <1>3. \A s \in SUBSET S : g[s] = e[s]
    BY <1>1, <1>2
  <1>4. h = e
    BY <1>3
  <1> QED
    BY <1>4, Zenon DEF IsSum

LEMMA SumUnique ==
  ASSUME NEW f, NEW D, IsFiniteSet(D), NEW g, IsSum(g, f, D), NEW h, IsSum(h, f, D)
  PROVE  g = h
  <1> DEFINE B == {S \in SUBSET D : g[S] # h[S]}
  <1>1. /\ g = [S \in SUBSET D |-> g[S]] /\ h = [S \in SUBSET D |-> h[S]]
        /\ \A S \in SUBSET D : /\ g[S] = IF S = {} THEN 0 ELSE f[One(S)] + g[S \ {One(S)}]
                              /\ h[S] = IF S = {} THEN 0 ELSE f[One(S)] + h[S \ {One(S)}]
    BY DEF IsSum
  <1>2. SUFFICES ASSUME B # {} PROVE FALSE
    BY <1>1
  <1>3. PICK S \in B : \A x \in S : S \ {x} \notin B
    <2> HIDE DEF B
    <2>1. B \in SUBSET (SUBSET D)
      BY DEF B
    <2> QED
      BY <1>2, <2>1, SmallestSubset
  <1>4. S # {}
    BY <1>1
  <1>5. One(S) \in S /\ S \ {One(S)} \in SUBSET D
    BY <1>4, OneOf
  <1>6. g[S \ {One(S)}] = h[S \ {One(S)}]
    BY <1>3, <1>5
  <1> QED
    BY <1>1, <1>4, <1>6

LEMMA SumExists ==
  ASSUME NEW f, NEW D, IsFiniteSet(D)
  PROVE  \E g : IsSum(g, f, D)
  <1> DEFINE Has(S) == \E g : IsSum(g, f, S)
             B == {S \in SUBSET D : ~Has(S)}
             G(S) == (CHOOSE g : IsSum(g, f, S))[S]
  <1>1. SUFFICES ASSUME B # {} PROVE FALSE
    <2>1. D \in SUBSET D
      OBVIOUS
    <2> QED
      BY <2>1
  <1>2. PICK S \in B : IsFiniteSet(S) /\ \A x \in S : S \ {x} \notin B
    <2> HIDE DEF B
    <2>1. B \in SUBSET (SUBSET D)
      BY DEF B
    <2> QED
      BY <1>1, <2>1, SmallestSubset
  <1>3. ASSUME NEW s \in SUBSET S, s # S PROVE Has(s)
    <2>1. PICK x \in S : x \notin s
      BY <1>3
    <2>2. PICK g : IsSum(g, f, S \ {x})
      BY <1>2
    <2>3. s \in SUBSET (S \ {x})
      BY <2>1
    <2>4. IsSum([t \in SUBSET s |-> g[t]], f, s)
      BY <2>2, <2>3, SumPart
    <2> QED
      BY <2>4
  <1>4. ASSUME NEW s \in SUBSET S, s # S
        PROVE  G(s) = IF s = {} THEN 0 ELSE f[One(s)] + G(s \ {One(s)})
    <2> DEFINE g == CHOOSE g : IsSum(g, f, s)
    <2>1. IsSum(g, f, s)
      BY <1>3, <1>4
    <2> HIDE DEF g
    <2>2. g[s] = IF s = {} THEN 0 ELSE f[One(s)] + g[s \ {One(s)}]
      BY <2>1 DEF IsSum
    <2>3. ASSUME s # {} PROVE g[s \ {One(s)}] = G(s \ {One(s)})
      <3> DEFINE t == s \ {One(s)}
                 h == CHOOSE h : IsSum(h, f, t)
                 k == [u \in SUBSET t |-> g[u]]
      <3>1. t \in SUBSET s /\ t \in SUBSET S /\ t # S
        BY <1>4, <2>3, OneOf
      <3> HIDE DEF t
      <3>2. IsSum(h, f, t)
        BY <1>3, <3>1
      <3>3. IsSum(k, f, t)
        BY <2>1, <3>1, SumPart
      <3>4. IsFiniteSet(t)
        BY <1>2, <3>1, FS_Subset
      <3> HIDE DEF h
      <3>5. h = k
        <4> HIDE DEF k
        <4> QED
          BY <3>2, <3>3, <3>4, SumUnique
      <3>6. k[t] = g[t]
        OBVIOUS
      <3>7. h[t] = g[t]
        BY <3>5, <3>6
      <3> QED
        BY <3>7, Zenon DEF t, h
    <2> QED
      BY <2>2, <2>3 DEF g
  <1> DEFINE g == [s \in SUBSET S |-> IF s # S THEN G(s) ELSE
                                      IF s = {} THEN 0 ELSE f[One(s)] + G(s \ {One(s)})]
             e == [s \in SUBSET S |-> IF s = {} THEN 0 ELSE f[One(s)] + g[s \ {One(s)}]]
  <1>5. \A s \in SUBSET S : g[s] = IF s = {} THEN 0 ELSE f[One(s)] + G(s \ {One(s)})
    <2> HIDE DEF G
    <2> QED
      BY <1>4
  <1>6. \A s \in SUBSET S : s # {} => g[s \ {One(s)}] = G(s \ {One(s)})
    <2> HIDE DEF G
    <2>1. \A s \in SUBSET S : s # {} => s \ {One(s)} \in SUBSET S /\ s \ {One(s)} # S
      BY OneOf
    <2> QED
      BY <2>1
  <1>7. \A s \in SUBSET S : g[s] = e[s]
    <2> HIDE DEF G, g
    <2> QED
      BY <1>5, <1>6
  <1>8. g = e
    <2> HIDE DEF G
    <2> QED
      BY <1>7
  <1>9. IsSum(g, f, S)
    BY <1>8, Zenon DEF IsSum
  <1> QED
    BY <1>2, <1>9

\* The sum over a set is that over the rest and the one left out.
SumsTo(g, f, D) ==
  /\ \A S \in SUBSET D : Sum(f, S) = g[S]
  /\ g[{}] = 0
  /\ \A S \in SUBSET D : S # {} => g[S] = f[One(S)] + g[S \ {One(S)}]

LEMMA SumParts ==
  ASSUME NEW f, NEW D, IsFiniteSet(D)
  PROVE  \E g : SumsTo(g, f, D)
  <1>1. PICK g : IsSum(g, f, D)
    BY SumExists
  <1>2. ASSUME NEW S \in SUBSET D PROVE Sum(f, S) = g[S]
    <2> DEFINE h == CHOOSE h : IsSum(h, f, S)
               k == [s \in SUBSET S |-> g[s]]
    <2>1. IsFiniteSet(S)
      BY FS_Subset
    <2>2. IsSum(h, f, S)
      BY <2>1, SumExists
    <2>3. IsSum(k, f, S)
      BY <1>1, SumPart
    <2> HIDE DEF h
    <2>4. h = k
      <3> HIDE DEF k
      <3> QED
        BY <2>1, <2>2, <2>3, SumUnique
    <2>5. k[S] = g[S]
      OBVIOUS
    <2>6. Sum(f, S) = h[S]
      BY SumIs DEF h
    <2> QED
      BY <2>4, <2>5, <2>6
  <1>3. /\ g[{}] = 0
        /\ \A S \in SUBSET D : S # {} => g[S] = f[One(S)] + g[S \ {One(S)}]
    BY <1>1 DEF IsSum
  <1> QED
    BY <1>2, <1>3, Zenon DEF SumsTo

LEMMA SumEmpty == \A f : Sum(f, {}) = 0
  <1> TAKE f
  <1>1. IsFiniteSet({}) /\ {} \in SUBSET {}
    BY FS_EmptySet
  <1>2. PICK g : SumsTo(g, f, {})
    BY <1>1, SumParts, Zenon
  <1> QED
    BY <1>1, <1>2, Zenon DEF SumsTo

LEMMA SumInt ==
  ASSUME NEW f, NEW D, IsFiniteSet(D), \A i \in D : f[i] \in Int
  PROVE  Sum(f, D) \in Int
  <1>0. PICK g : SumsTo(g, f, D)
    BY SumParts, Zenon
  <1>1. /\ \A S \in SUBSET D : Sum(f, S) = g[S]
        /\ g[{}] = 0
        /\ \A S \in SUBSET D : S # {} => g[S] = f[One(S)] + g[S \ {One(S)}]
    BY <1>0 DEF SumsTo
  <1> DEFINE B == {S \in SUBSET D : g[S] \notin Int}
  <1>2. SUFFICES ASSUME B # {} PROVE FALSE
    <2>1. D \in SUBSET D
      OBVIOUS
    <2> QED
      BY <1>1, <2>1
  <1>3. PICK S \in B : \A x \in S : S \ {x} \notin B
    <2> HIDE DEF B
    <2>1. B \in SUBSET (SUBSET D)
      BY DEF B
    <2> QED
      BY <1>2, <2>1, SmallestSubset
  <1>4. S # {} /\ S \in SUBSET D /\ g[S] \notin Int
    <2>1. S \in SUBSET D /\ g[S] \notin Int
      OBVIOUS
    <2>2. g[{}] \in Int
      BY <1>1
    <2>3. S # {}
      BY <2>1, <2>2, Zenon
    <2> QED
      BY <2>1, <2>3
  <1>5. One(S) \in S /\ One(S) \in D /\ S \ {One(S)} \in SUBSET D
    BY <1>4, OneOf
  <1>6. g[S \ {One(S)}] \in Int /\ f[One(S)] \in Int
    BY <1>3, <1>5
  <1>7. g[S] = f[One(S)] + g[S \ {One(S)}]
    BY <1>1, <1>4
  <1> QED
    BY <1>4, <1>6, <1>7

LEMMA SumMore ==
  ASSUME NEW f, NEW D, IsFiniteSet(D), \A i \in D : f[i] \in Int
  PROVE  \A x \in D : Sum(f, D) = f[x] + Sum(f, D \ {x})
  <1>0. PICK g : SumsTo(g, f, D)
    BY SumParts, Zenon
  <1>1. /\ \A S \in SUBSET D : Sum(f, S) = g[S]
        /\ g[{}] = 0
        /\ \A S \in SUBSET D : S # {} => g[S] = f[One(S)] + g[S \ {One(S)}]
    BY <1>0 DEF SumsTo
  <1>2. \A S \in SUBSET D : g[S] \in Int
    <2> TAKE S \in SUBSET D
    <2>1. IsFiniteSet(S) /\ \A i \in S : f[i] \in Int
      BY FS_Subset
    <2>2. Sum(f, S) \in Int
      BY <2>1, SumInt
    <2> QED
      BY <1>1, <2>2
  <1> DEFINE Good(S) == \A x \in S : g[S] = f[x] + g[S \ {x}]
             B == {S \in SUBSET D : ~Good(S)}
  <1>3. B = {}
    <2> SUFFICES ASSUME B # {} PROVE FALSE
      OBVIOUS
    <2>1. PICK S \in B : \A x \in S : S \ {x} \notin B
      <3> HIDE DEF B
      <3>1. B \in SUBSET (SUBSET D)
        BY DEF B
      <3> QED
        BY <3>1, SmallestSubset
    <2>2. S \in SUBSET D /\ \A x \in S : S \ {x} \in SUBSET D
      OBVIOUS
    <2>3. \A x \in S : Good(S \ {x})
      BY <2>1, <2>2
    <2> DEFINE c == One(S)
    <2>4. PICK x \in S : g[S] # f[x] + g[S \ {x}]
      BY <2>1
    <2>5. c \in S /\ g[S] = f[c] + g[S \ {c}]
      BY <1>1, <2>4, OneOf
    <2> HIDE DEF c
    <2>6. x # c
      BY <2>4, <2>5
    <2>7. x \in S \ {c} /\ c \in S \ {x} /\ (S \ {c}) \ {x} = (S \ {x}) \ {c}
      BY <2>5, <2>6
    <2>8. g[S \ {c}] = f[x] + g[(S \ {c}) \ {x}]
      BY <2>3, <2>5, <2>7
    <2>9. g[S \ {x}] = f[c] + g[(S \ {x}) \ {c}]
      BY <2>3, <2>7
    <2> DEFINE r == g[(S \ {x}) \ {c}]
    <2>10. r \in Int
      BY <1>2
    <2>11. f[x] \in Int /\ f[c] \in Int
      BY <2>5
    <2>12. g[S \ {c}] = f[x] + r /\ g[S \ {x}] = f[c] + r
      BY <2>7, <2>8, <2>9
    <2> HIDE DEF r
    <2> QED
      BY <2>4, <2>5, <2>10, <2>11, <2>12
  <1>4. D \in SUBSET D /\ \A x \in D : D \ {x} \in SUBSET D
    OBVIOUS
  <1>5. Good(D)
    BY <1>3, <1>4
  <1> QED
    BY <1>1, <1>4, <1>5

\* The places may be numbered anew.
LEMMA SumMoved ==
  ASSUME NEW f, NEW D, IsFiniteSet(D), \A i \in D : f[i] \in Int,
         NEW E, NEW p \in Bijection(D, E), NEW g, \A i \in D : g[p[i]] = f[i]
  PROVE  IsFiniteSet(E) /\ Cardinality(E) = Cardinality(D) /\ Sum(g, E) = Sum(f, D)
  <1>1. p \in [D -> E] /\ (\A i, j \in D : p[i] = p[j] => i = j) /\ \A e \in E : \E i \in D : p[i] = e
    BY DEF Bijection, Injection, Surjection, IsInjective
  <1> DEFINE Im(S) == {p[i] : i \in S}
             B == {S \in SUBSET D : Sum(g, Im(S)) # Sum(f, S)}
  <1>2. IsFiniteSet(E) /\ Cardinality(E) = Cardinality(D)
    BY FS_Bijection DEF ExistsBijection
  <1>3. B = {}
    <2> SUFFICES ASSUME B # {} PROVE FALSE
      OBVIOUS
    <2>1. PICK S \in B : IsFiniteSet(S) /\ \A x \in S : S \ {x} \notin B
      <3> HIDE DEF B
      <3>1. B \in SUBSET (SUBSET D)
        BY DEF B
      <3> QED
        BY <3>1, SmallestSubset
    <2>2. CASE S = {}
      <3>1. Im(S) = {}
        BY <2>2
      <3> QED
        BY <2>1, <2>2, <3>1, SumEmpty
    <2>3. CASE S # {}
      <3>1. PICK x \in S : TRUE
        BY <2>3
      <3>2. S \in SUBSET D /\ S \ {x} \in SUBSET D /\ x \in D
        OBVIOUS
      <3>3. Sum(g, Im(S \ {x})) = Sum(f, S \ {x})
        BY <2>1, <3>1, <3>2
      <3>4. Im(S \ {x}) = Im(S) \ {p[x]} /\ p[x] \in Im(S)
        BY <1>1, <3>1, <3>2
      <3>5. IsFiniteSet(Im(S)) /\ \A e \in Im(S) : g[e] \in Int
        <4>1. Im(S) \in SUBSET E
          BY <1>1, <3>2
        <4> HIDE DEF Im
        <4>2. IsFiniteSet(Im(S))
          BY <1>2, <4>1, FS_Subset
        <4>3. \A e \in Im(S) : \E i \in S : e = p[i]
          BY DEF Im
        <4> QED
          BY <3>2, <4>2, <4>3
      <3>6. \A i \in S : f[i] \in Int
        BY <3>2
      <3> HIDE DEF Im
      <3>7. Sum(f, S) = f[x] + Sum(f, S \ {x})
        BY <2>1, <3>6, SumMore
      <3>8. Sum(g, Im(S)) = g[p[x]] + Sum(g, Im(S) \ {p[x]})
        BY <3>4, <3>5, SumMore
      <3>9. g[p[x]] = f[x]
        BY <3>2
      <3> QED
        BY <2>1, <3>3, <3>4, <3>7, <3>8, <3>9 DEF Im
    <2> QED
      BY <2>2, <2>3
  <1>4. Im(D) = E
    BY <1>1
  <1>5. D \in SUBSET D
    OBVIOUS
  <1>6. Sum(g, Im(D)) = Sum(f, D)
    <2> HIDE DEF Im
    <2> QED
      BY <1>3, <1>5
  <1> QED
    BY <1>2, <1>4, <1>6

LEMMA SumSame ==
  ASSUME NEW D, IsFiniteSet(D), NEW f, \A i \in D : f[i] \in Int, NEW g, \A i \in D : g[i] = f[i]
  PROVE  Sum(g, D) = Sum(f, D)
  <1> DEFINE p == [i \in D |-> i]
  <1>1. p \in Bijection(D, D) /\ \A i \in D : p[i] = i
    BY DEF Bijection, Injection, Surjection, IsInjective
  <1> HIDE DEF p
  <1>2. \A i \in D : g[p[i]] = f[i]
    BY <1>1
  <1> QED
    BY <1>1, <1>2, SumMoved

LEMMA SumZero ==
  ASSUME NEW D, IsFiniteSet(D), NEW f, \A i \in D : f[i] = 0
  PROVE  Sum(f, D) = 0
  <1> DEFINE B == {S \in SUBSET D : Sum(f, S) # 0}
  <1>1. SUFFICES ASSUME B # {} PROVE FALSE
    <2>1. D \in SUBSET D
      OBVIOUS
    <2> QED
      BY <2>1
  <1>2. PICK S \in B : IsFiniteSet(S) /\ \A x \in S : S \ {x} \notin B
    <2> HIDE DEF B
    <2>1. B \in SUBSET (SUBSET D)
      BY DEF B
    <2> QED
      BY <1>1, <2>1, SmallestSubset
  <1>3. S \in SUBSET D /\ Sum(f, S) # 0
    OBVIOUS
  <1>4. PICK x \in S : TRUE
    <2>1. S # {}
      BY <1>3, SumEmpty
    <2> QED
      BY <2>1
  <1>5. S \ {x} \in SUBSET D /\ f[x] = 0 /\ \A i \in S : f[i] \in Int
    BY <1>3
  <1>6. Sum(f, S \ {x}) = 0
    BY <1>2, <1>4, <1>5
  <1>7. Sum(f, S) = f[x] + Sum(f, S \ {x})
    BY <1>2, <1>4, <1>5, SumMore
  <1> QED
    BY <1>3, <1>5, <1>6, <1>7

\* What is summed may be grouped: first each group, then all groups.
LEMMA SumGrouped ==
  ASSUME NEW f, NEW D, IsFiniteSet(D), \A i \in D : f[i] \in Int,
         NEW K, IsFiniteSet(K), NEW k, \A i \in D : k[i] \in K
  PROVE  Sum([q \in K |-> Sum(f, {i \in D : k[i] = q})], K) = Sum(f, D)
  <1> DEFINE Group(S, q) == {i \in S : k[i] = q}
             Sums(S) == [q \in K |-> Sum(f, Group(S, q))]
             B == {S \in SUBSET D : Sum(Sums(S), K) # Sum(f, S)}
  <1>1. \A S \in SUBSET D : /\ IsFiniteSet(S) /\ (\A i \in S : f[i] \in Int)
                            /\ \A q \in K : Sums(S)[q] \in Int
    <2> TAKE S \in SUBSET D
    <2>1. IsFiniteSet(S) /\ \A i \in S : f[i] \in Int
      BY FS_Subset
    <2>2. ASSUME NEW q \in K PROVE Sum(f, Group(S, q)) \in Int
      <3>1. Group(S, q) \in SUBSET S
        OBVIOUS
      <3> HIDE DEF Group
      <3>2. IsFiniteSet(Group(S, q)) /\ \A i \in Group(S, q) : f[i] \in Int
        BY <2>1, <3>1, FS_Subset
      <3> QED
        BY <3>2, SumInt
    <2> QED
      BY <2>1, <2>2
  <1>2. B = {}
    <2> SUFFICES ASSUME B # {} PROVE FALSE
      OBVIOUS
    <2>1. PICK S \in B : \A x \in S : S \ {x} \notin B
      <3> HIDE DEF B
      <3>1. B \in SUBSET (SUBSET D)
        BY DEF B
      <3> QED
        BY <3>1, SmallestSubset
    <2>2. S \in SUBSET D /\ Sum(Sums(S), K) # Sum(f, S)
      OBVIOUS
    <2>3. CASE S = {}
      <3>1. \A q \in K : Sums(S)[q] = 0
        <4>1. \A q : Group(S, q) = {}
          BY <2>3
        <4> HIDE DEF Group
        <4> QED
          BY <4>1, SumEmpty
      <3> HIDE DEF Sums
      <3>2. Sum(Sums(S), K) = 0
        BY <3>1, SumZero
      <3> QED
        BY <2>2, <2>3, <3>2, SumEmpty
    <2>4. CASE S # {}
      <3>1. PICK x \in S : TRUE
        BY <2>4
      <3>2. S \ {x} \in SUBSET D /\ x \in D /\ k[x] \in K
        BY <2>2
      <3> DEFINE T == S \ {x}
                 c == k[x]
      <3>3. Sum(Sums(T), K) = Sum(f, T)
        BY <2>1, <3>1, <3>2
      <3>4. Sum(f, S) = f[x] + Sum(f, T)
        BY <1>1, <2>2, <3>1, SumMore
      <3>5. Sums(S)[c] = f[x] + Sums(T)[c]
        <4>1. x \in Group(S, c) /\ Group(T, c) = Group(S, c) \ {x} /\ Group(S, c) \in SUBSET S
          BY <3>1
        <4> HIDE DEF Group
        <4>2. IsFiniteSet(Group(S, c)) /\ \A i \in Group(S, c) : f[i] \in Int
          BY <1>1, <2>2, <4>1, FS_Subset
        <4>3. Sum(f, Group(S, c)) = f[x] + Sum(f, Group(T, c))
          <5>1. Sum(f, Group(S, c)) = f[x] + Sum(f, Group(S, c) \ {x})
            BY <4>1, <4>2, SumMore
          <5> QED
            BY <4>1, <5>1
        <4> QED
          BY <3>2, <4>3
      <3>6. \A q \in K \ {c} : Sums(S)[q] = Sums(T)[q]
        <4>1. \A q \in K \ {c} : Group(S, q) = Group(T, q)
          OBVIOUS
        <4> HIDE DEF Group
        <4> QED
          BY <4>1
      <3>7. \A q \in K : Sums(S)[q] \in Int /\ Sums(T)[q] \in Int
        BY <1>1, <2>2, <3>2
      <3> HIDE DEF Sums, T, c
      <3>8. Sum(Sums(S), K) = Sums(S)[c] + Sum(Sums(S), K \ {c})
        BY <3>2, <3>7, SumMore DEF c
      <3>9. Sum(Sums(T), K) = Sums(T)[c] + Sum(Sums(T), K \ {c})
        BY <3>2, <3>7, SumMore DEF c
      <3>10. IsFiniteSet(K \ {c}) /\ \A q \in K \ {c} : Sums(T)[q] \in Int
        BY <3>7, FS_RemoveElement
      <3>11. Sum(Sums(S), K \ {c}) = Sum(Sums(T), K \ {c}) /\ Sum(Sums(T), K \ {c}) \in Int
        BY <3>6, <3>10, SumSame, SumInt
      <3>12. f[x] \in Int /\ Sums(T)[c] \in Int
        BY <3>2, <3>7 DEF c
      <3> QED
        BY <2>2, <3>3, <3>4, <3>5, <3>8, <3>9, <3>11, <3>12
    <2> QED
      BY <2>3, <2>4
  <1>3. D \in SUBSET D
    OBVIOUS
  <1>4. Sum(Sums(D), K) = Sum(f, D)
    <2> HIDE DEF Sums
    <2> QED
      BY <1>2, <1>3
  <1> QED
    BY <1>4

-----------------------------------------------------------------------------
(* The figures of an article.                                                *)

LEMMA TotalIs == \A tab, S, c : Figures!Total(tab, S, c) = Sum([i \in S |-> tab[i][c]], S)
  <1> TAKE tab, S, c
  <1> DEFINE f == [i \in S |-> tab[i][c]]
  <1>1. Figures!Total(tab, S, c) = Sum(f, DOMAIN f)
    BY Zenon DEF Figures!Total, Figures!SumFunction, Sum
  <1>2. DOMAIN f = S
    OBVIOUS
  <1> HIDE DEF f
  <1>3. Figures!Total(tab, S, c) = Sum(f, S)
    BY <1>1, <1>2
  <1> QED
    BY <1>3 DEF f

LEMMA TotalMoved ==
  ASSUME NEW tab, NEW S, IsFiniteSet(S), NEW c, \A i \in S : tab[i][c] \in Int,
         NEW T, NEW p \in Bijection(S, T), NEW new, \A i \in S : new[p[i]][c] = tab[i][c]
  PROVE  Figures!Total(new, T, c) = Figures!Total(tab, S, c) /\ Figures!Total(tab, S, c) \in Int
  <1> DEFINE f == [i \in S |-> tab[i][c]]
             g == [i \in T |-> new[i][c]]
  <1>1. \A i \in S : p[i] \in T
    BY DEF Bijection, Injection
  <1>2. \A i \in S : f[i] = tab[i][c] /\ f[i] \in Int /\ g[p[i]] = f[i]
    BY <1>1
  <1>3. Figures!Total(tab, S, c) = Sum(f, S) /\ Figures!Total(new, T, c) = Sum(g, T)
    BY TotalIs
  <1> HIDE DEF f, g
  <1>4. Sum(f, S) \in Int
    BY <1>2, SumInt
  <1>5. Sum(g, T) = Sum(f, S)
    BY <1>2, SumMoved
  <1> QED
    BY <1>3, <1>4, <1>5

LEMMA BijectionPart ==
  ASSUME NEW S, NEW T, NEW p \in Bijection(S, T), NEW A \in SUBSET S, NEW B \in SUBSET T,
         \A i \in S : i \in A <=> p[i] \in B
  PROVE  [i \in A |-> p[i]] \in Bijection(A, B)
  <1> DEFINE q == [i \in A |-> p[i]]
  <1>1. p \in [S -> T] /\ (\A i, j \in S : p[i] = p[j] => i = j) /\ \A e \in T : \E i \in S : p[i] = e
    BY DEF Bijection, Injection, Surjection, IsInjective
  <1>2. q \in [A -> B]
    OBVIOUS
  <1>3. \A i, j \in A : q[i] = q[j] => i = j
    BY <1>1
  <1>4. \A e \in B : \E i \in A : q[i] = e
    <2> TAKE e \in B
    <2>1. PICK i \in S : p[i] = e
      BY <1>1
    <2>2. i \in A
      BY <2>1
    <2> QED
      BY <2>1, <2>2
  <1> HIDE DEF q
  <1>5. q \in Bijection(A, B)
    BY <1>2, <1>3, <1>4 DEF Bijection, Injection, Surjection, IsInjective
  <1> QED
    BY <1>5 DEF q

SaleFields == {"sku", "status", "paid", "units"}
LineFields == {"kind", "block", "sku", "spend"}
ReturnFields == {"sku", "status", "amount"}

\* A number in every field that is added or compared.
TablesOK(t) ==
  /\ IsList(t.sales) /\ IsList(t.cost) /\ IsList(t.ads) /\ IsList(t.returns)
  /\ \A i \in DOMAIN t.sales : t.sales[i].sku \in Nat /\ t.sales[i]["paid"] \in Int /\ t.sales[i]["units"] \in Int
                                 /\ DOMAIN t.sales[i] = SaleFields
  /\ \A i \in DOMAIN t.cost : t.cost[i].sku \in Nat /\ t.cost[i]["unit"] \in Int
  /\ \A i \in DOMAIN t.ads : t.ads[i].sku \in Nat /\ t.ads[i]["spend"] \in Int /\ DOMAIN t.ads[i] = LineFields
  /\ \A i \in DOMAIN t.returns : t.returns[i].sku \in Nat /\ t.returns[i]["amount"] \in Int
                                   /\ DOMAIN t.returns[i] = ReturnFields

SoldOf(t, sku) == {i \in Figures!Its(t.sales, sku) : t.sales[i].status = "completed"}
RefundsOf(t, sku) == {i \in Figures!Its(t.returns, sku) : t.returns[i].status = "refunded"}
CostOf(t, sku) == Figures!Latest(t.cost, Figures!Its(t.cost, sku), "unit")
AdsOf(t, sku) == Figures!Latest(t.ads, Figures!Its(t.ads, sku) \cap Figures!AdsBlock(t.ads), "spend")
UnitsOf(t, sku) == Figures!Total(t.sales, SoldOf(t, sku), "units")
PaidOf(t, sku) == Figures!Total(t.sales, SoldOf(t, sku), "paid")
RefundedOf(t, sku) == Figures!Total(t.returns, RefundsOf(t, sku), "amount")

MetricsOf(sku, paid, units, cost, ads, refunds, orders, returns_) ==
  [sku |-> sku, revenue |-> paid, cost |-> units * cost, ads |-> ads, refunds |-> refunds,
   net |-> paid - units * cost - ads - refunds, units |-> units,
   orders |-> orders, returns |-> returns_]

LEMMA MetricsIs ==
  \A t, sku : Figures!Metrics(t, sku) =
    MetricsOf(sku, PaidOf(t, sku), UnitsOf(t, sku), CostOf(t, sku), AdsOf(t, sku), RefundedOf(t, sku),
              Figures!Cardinality(SoldOf(t, sku)), Figures!Cardinality(Figures!Its(t.returns, sku)))
  BY Zenon DEF Figures!Metrics, MetricsOf, PaidOf, UnitsOf, CostOf, AdsOf, RefundedOf, SoldOf, RefundsOf

SameSales(t, u, sku) ==
  \E p \in Bijection(SoldOf(t, sku), SoldOf(u, sku)) : \A i \in SoldOf(t, sku) :
    u.sales[p[i]]["paid"] = t.sales[i]["paid"] /\ u.sales[p[i]]["units"] = t.sales[i]["units"]
SameReturns(t, u, sku) ==
  \E p \in Bijection(Figures!Its(t.returns, sku), Figures!Its(u.returns, sku)) :
    \A i \in Figures!Its(t.returns, sku) :
      /\ u.returns[p[i]].status = "refunded" <=> t.returns[i].status = "refunded"
      /\ t.returns[i].status = "refunded" => u.returns[p[i]]["amount"] = t.returns[i]["amount"]

LEMMA FiguresSizes == \A S : Figures!Cardinality(S) = Cardinality(S)
  BY Zenon DEF Figures!Cardinality, Cardinality

LEMMA ItsFinite ==
  ASSUME NEW tab, IsList(tab), NEW sku
  PROVE  /\ IsFiniteSet(Figures!Its(tab, sku)) /\ Cardinality(Figures!Its(tab, sku)) \in Nat
         /\ Figures!Its(tab, sku) \in SUBSET (1..Len(tab)) /\ Len(tab) \in Nat /\ DOMAIN tab = 1..Len(tab)
  <1>1. IsFiniteSet(DOMAIN tab) /\ Len(tab) \in Nat /\ DOMAIN tab = 1..Len(tab)
    BY ListHas
  <1>2. Figures!Its(tab, sku) \in SUBSET DOMAIN tab
    BY DEF Figures!Its
  <1> QED
    BY <1>1, <1>2, FS_Subset, FS_CardinalityType

\* Two sets of tables that hold the same rows for an article, in whatever order, give
\* the same figures for it.
LEMMA MetricsSame ==
  ASSUME NEW t, TablesOK(t), NEW u, NEW sku, SameSales(t, u, sku), SameReturns(t, u, sku),
         CostOf(u, sku) = CostOf(t, sku), AdsOf(u, sku) = AdsOf(t, sku)
  PROVE  Figures!Metrics(u, sku) = Figures!Metrics(t, sku)
  <1> DEFINE S == SoldOf(t, sku)
             R == Figures!Its(t.returns, sku)
             F == RefundsOf(t, sku)
  <1>1. IsFiniteSet(S) /\ (\A i \in S : t.sales[i]["paid"] \in Int /\ t.sales[i]["units"] \in Int)
    <2>1. IsFiniteSet(Figures!Its(t.sales, sku)) /\ \A i \in Figures!Its(t.sales, sku) : i \in DOMAIN t.sales
      BY ItsFinite DEF TablesOK, Figures!Its
    <2>2. S \in SUBSET Figures!Its(t.sales, sku)
      BY DEF SoldOf
    <2>3. IsFiniteSet(S)
      BY <2>1, <2>2, FS_Subset
    <2> QED
      BY <2>1, <2>2, <2>3 DEF TablesOK
  <1>2. IsFiniteSet(R) /\ IsFiniteSet(F) /\ (\A i \in F : t.returns[i]["amount"] \in Int)
    <2>1. IsFiniteSet(R) /\ \A i \in R : i \in DOMAIN t.returns
      BY ItsFinite DEF TablesOK, Figures!Its
    <2>2. F \in SUBSET R
      BY DEF RefundsOf
    <2>3. IsFiniteSet(F)
      BY <2>1, <2>2, FS_Subset
    <2> QED
      BY <2>1, <2>2, <2>3 DEF TablesOK
  <1>3. PaidOf(u, sku) = PaidOf(t, sku) /\ UnitsOf(u, sku) = UnitsOf(t, sku)
        /\ Cardinality(SoldOf(u, sku)) = Cardinality(S)
    <2>1. PICK p \in Bijection(SoldOf(t, sku), SoldOf(u, sku)) : \A i \in SoldOf(t, sku) :
            u.sales[p[i]]["paid"] = t.sales[i]["paid"] /\ u.sales[p[i]]["units"] = t.sales[i]["units"]
      BY DEF SameSales
    <2>2. PaidOf(u, sku) = PaidOf(t, sku)
      BY <1>1, <2>1, TotalMoved DEF PaidOf
    <2>3. UnitsOf(u, sku) = UnitsOf(t, sku)
      BY <1>1, <2>1, TotalMoved DEF UnitsOf
    <2>4. Cardinality(SoldOf(u, sku)) = Cardinality(S)
      BY <1>1, <2>1, FS_Bijection DEF ExistsBijection
    <2> QED
      BY <2>2, <2>3, <2>4
  <1>4. RefundedOf(u, sku) = RefundedOf(t, sku) /\ Cardinality(Figures!Its(u.returns, sku)) = Cardinality(R)
    <2> DEFINE R2 == Figures!Its(u.returns, sku)
               F2 == RefundsOf(u, sku)
    <2>1. PICK p \in Bijection(R, R2) : \A i \in R :
            /\ u.returns[p[i]].status = "refunded" <=> t.returns[i].status = "refunded"
            /\ t.returns[i].status = "refunded" => u.returns[p[i]]["amount"] = t.returns[i]["amount"]
      BY DEF SameReturns
    <2>2. \A i \in R : p[i] \in R2
      BY DEF Bijection, Injection
    <2>3. F \in SUBSET R /\ F2 \in SUBSET R2 /\ \A i \in R : i \in F <=> p[i] \in F2
      BY <2>1, <2>2 DEF RefundsOf
    <2>4. Cardinality(R2) = Cardinality(R)
      BY <1>2, FS_Bijection DEF ExistsBijection
    <2> DEFINE q == [i \in F |-> p[i]]
    <2>5. q \in Bijection(F, F2)
      <3> HIDE DEF R, R2, F, F2
      <3> QED
        BY <2>3, BijectionPart
    <2>6. \A i \in F : u.returns[q[i]]["amount"] = t.returns[i]["amount"]
      BY <2>1 DEF RefundsOf
    <2> HIDE DEF q
    <2>7. RefundedOf(u, sku) = RefundedOf(t, sku)
      BY <1>2, <2>5, <2>6, TotalMoved DEF RefundedOf
    <2> QED
      BY <2>4, <2>7
  <1> QED
    BY <1>3, <1>4, MetricsIs, FiguresSizes

LEMMA MaxIs ==
  ASSUME NEW n \in Nat, NEW S \in SUBSET (1..n), S # {}
  PROVE  /\ Figures!Max(S) \in S
         /\ \A x \in S : x <= Figures!Max(S)
         /\ \A k \in S : (\A x \in S : x <= k) => Figures!Max(S) = k
  <1> DEFINE W == {n - x : x \in S}
  <1>1. W \in SUBSET Nat /\ W # {}
    <2>1. \A x \in S : n - x \in Nat
      <3>1. \A x \in S : x \in 1..n
        OBVIOUS
      <3> QED
        BY <3>1
    <2> QED
      BY <2>1
  <1>2. Min(W) \in W /\ \A w \in W : Min(W) <= w
    <2> HIDE DEF W
    <2> QED
      BY <1>1, LeastOf
  <1>3. PICK m \in S : n - m = Min(W)
    BY <1>2
  <1>4. \A x \in S : x <= m
    <2> TAKE x \in S
    <2>1. n - m <= n - x
      BY <1>2, <1>3
    <2> QED
      BY <2>1
  <1>5. Figures!Max(S) = CHOOSE k \in S : \A x \in S : k >= x
    BY DEF Figures!Max
  <1>6. \A x \in S : m >= x
    BY <1>4
  <1>7. Figures!Max(S) \in S /\ \A x \in S : x <= Figures!Max(S)
    BY <1>5, <1>6
  <1>8. \A x \in S : x \in Nat
    OBVIOUS
  <1>9. \A k \in S : (\A x \in S : x <= k) => Figures!Max(S) = k
    <2> SUFFICES ASSUME NEW k \in S, \A x \in S : x <= k PROVE Figures!Max(S) = k
      OBVIOUS
    <2>1. Figures!Max(S) <= k /\ k <= Figures!Max(S) /\ Figures!Max(S) \in Nat /\ k \in Nat
      BY <1>7, <1>8
    <2> QED
      BY <2>1
  <1> QED
    BY <1>7, <1>8, <1>9

\* The rows of an article, taken out.
LEMMA OwnRows ==
  ASSUME NEW tab, IsList(tab), NEW sku
  PROVE  LET r == Selected(tab, Figures!Its(tab, sku))
         IN  /\ IsList(r) /\ Figures!Its(r, sku) = DOMAIN r
             /\ \E p \in Bijection(DOMAIN r, Figures!Its(tab, sku)) :
                  /\ \A a \in DOMAIN r : r[a] = tab[p[a]]
                  /\ \A a, b \in DOMAIN r : a < b => p[a] < p[b]
  <1> DEFINE P == Figures!Its(tab, sku)
             r == Selected(tab, P)
  <1>1. P \in SUBSET (1..Len(tab)) /\ Len(tab) \in Nat /\ \A i \in P : tab[i].sku = sku
    BY ItsFinite DEF Figures!Its
  <1> HIDE DEF P
  <1>2. PICK p : SelectsBy(p, r, tab, P) /\ \A a, b \in DOMAIN r : a < b => p[a] < p[b]
    BY <1>1, SelectedRises
  <1> HIDE DEF r
  <1>3. /\ IsList(r) /\ p \in [DOMAIN r -> P] /\ (\A a, b \in DOMAIN r : p[a] = p[b] => a = b)
        /\ (\A i \in P : \E a \in DOMAIN r : p[a] = i) /\ \A a \in DOMAIN r : r[a] = tab[p[a]]
    BY <1>2 DEF SelectsBy
  <1>4. p \in Bijection(DOMAIN r, P)
    BY <1>3 DEF Bijection, Injection, Surjection, IsInjective
  <1>5. \A a \in DOMAIN r : r[a].sku = sku
    <2>1. \A a \in DOMAIN r : p[a] \in P
      BY <1>3
    <2> TAKE a \in DOMAIN r
    <2>2. r[a] = tab[p[a]]
      BY <1>3
    <2>3. p[a] \in P
      BY <2>1
    <2> QED
      BY <1>1, <2>2, <2>3
  <1>6. Figures!Its(r, sku) = DOMAIN r
    BY <1>5 DEF Figures!Its
  <1> QED
    BY <1>2, <1>3, <1>4, <1>6 DEF r, P

LEMMA OwnSales ==
  ASSUME NEW t, IsList(t.sales), NEW sku, NEW u, u.sales = Selected(t.sales, Figures!Its(t.sales, sku))
  PROVE  SameSales(u, t, sku)
  <1> DEFINE r == u.sales
             P == Figures!Its(t.sales, sku)
  <1>1. /\ Figures!Its(r, sku) = DOMAIN r
        /\ \E p \in Bijection(DOMAIN r, P) : \A a \in DOMAIN r : r[a] = t.sales[p[a]]
    BY OwnRows
  <1>2. PICK p \in Bijection(DOMAIN r, P) : \A a \in DOMAIN r : r[a] = t.sales[p[a]]
    BY <1>1
  <1> DEFINE A == SoldOf(u, sku)
             B == SoldOf(t, sku)
             q == [i \in A |-> p[i]]
  <1>3. \A a \in DOMAIN r : p[a] \in P
    BY <1>2 DEF Bijection, Injection
  <1>4. A \in SUBSET DOMAIN r /\ B \in SUBSET P /\ \A a \in DOMAIN r : a \in A <=> p[a] \in B
    BY <1>1, <1>2, <1>3 DEF SoldOf
  <1>5. q \in Bijection(A, B)
    <2> HIDE DEF A, B, P, r
    <2> QED
      BY <1>2, <1>4, BijectionPart
  <1>6. \A a \in A : t.sales[q[a]] = u.sales[a]
    BY <1>2, <1>4
  <1> HIDE DEF q
  <1> QED
    BY <1>5, <1>6 DEF SameSales

LEMMA OwnReturns ==
  ASSUME NEW t, IsList(t.returns), NEW sku, NEW u, u.returns = Selected(t.returns, Figures!Its(t.returns, sku))
  PROVE  SameReturns(u, t, sku)
  <1> DEFINE r == u.returns
             P == Figures!Its(t.returns, sku)
  <1>1. /\ Figures!Its(r, sku) = DOMAIN r
        /\ \E p \in Bijection(DOMAIN r, P) : \A a \in DOMAIN r : r[a] = t.returns[p[a]]
    BY OwnRows
  <1>2. PICK p \in Bijection(DOMAIN r, P) : \A a \in DOMAIN r : r[a] = t.returns[p[a]]
    BY <1>1
  <1> QED
    BY <1>1, <1>2 DEF SameReturns

LEMMA OwnCost ==
  ASSUME NEW t, TablesOK(t), NEW sku, NEW u, u.cost = Selected(t.cost, Figures!Its(t.cost, sku))
  PROVE  CostOf(u, sku) = CostOf(t, sku)
  <1> DEFINE r == u.cost
             P == Figures!Its(t.cost, sku)
             n == Len(r)
  <1>1. IsList(r) /\ n \in Nat /\ DOMAIN r = 1..n /\ Figures!Its(r, sku) = 1..n
    <2>1. IsList(r) /\ Figures!Its(r, sku) = DOMAIN r
      BY OwnRows DEF TablesOK
    <2> QED
      BY <2>1, ListHas
  <1>2. PICK p \in Bijection(DOMAIN r, P) : /\ \A a \in DOMAIN r : r[a] = t.cost[p[a]]
                                           /\ \A a, b \in DOMAIN r : a < b => p[a] < p[b]
    BY OwnRows DEF TablesOK
  <1>3. P \in SUBSET (1..Len(t.cost)) /\ Len(t.cost) \in Nat /\ \A i \in P : t.cost[i]["unit"] \in Int
    BY ItsFinite DEF TablesOK
  <1>4. (\A a \in 1..n : p[a] \in P) /\ \A i \in P : \E a \in 1..n : p[a] = i
    BY <1>1, <1>2 DEF Bijection, Injection, Surjection
  <1>5. \A a \in 1..n : r[a]["unit"] = t.cost[p[a]]["unit"] /\ r[a]["unit"] \in Int
    BY <1>1, <1>2, <1>3, <1>4
  <1>6. CostOf(u, sku) = Figures!Latest(r, 1..n, "unit") /\ CostOf(t, sku) = Figures!Latest(t.cost, P, "unit")
    BY <1>1 DEF CostOf
  <1> HIDE DEF r, P, n
  <1>7. CASE n = 0
    <2>1. P = {} /\ 1..n = {}
      BY <1>4, <1>7
    <2> QED
      BY <1>6, <2>1 DEF Figures!Latest
  <1>8. CASE n # 0
    <2>1. n \in 1..n /\ \A a \in 1..n : a <= n
      BY <1>1, <1>8
    <2>2. \A i \in P : i <= p[n]
      <3> TAKE i \in P
      <3>1. PICK a \in 1..n : p[a] = i
        BY <1>4
      <3>2. a = n \/ a < n
        BY <1>1
      <3>3. p[n] \in Nat /\ i \in Nat
        <4>1. p[n] \in P
          BY <1>4, <2>1
        <4>2. \A k \in P : k \in Nat
          BY <1>3
        <4> QED
          BY <4>1, <4>2
      <3> QED
        <4>1. CASE a = n
          BY <3>1, <3>3, <4>1
        <4>2. CASE a < n
          <5>1. p[a] < p[n]
            BY <1>1, <1>2, <2>1, <4>2
          <5> QED
            BY <3>1, <3>3, <5>1
        <4> QED
          BY <3>2, <4>1, <4>2
    <2>3. Figures!Latest(r, 1..n, "unit") = r[n]["unit"]
      <3>1. 1..n \in SUBSET (1..n) /\ 1..n # {}
        BY <2>1
      <3>2. Figures!Max(1..n) = n
        BY <1>1, <2>1, <3>1, MaxIs
      <3> QED
        BY <3>1, <3>2 DEF Figures!Latest
    <2>4. Figures!Latest(t.cost, P, "unit") = t.cost[p[n]]["unit"]
      <3>1. p[n] \in P /\ P # {}
        BY <1>4, <2>1
      <3>2. Figures!Max(P) = p[n]
        BY <1>3, <2>2, <3>1, MaxIs
      <3> QED
        BY <3>1, <3>2 DEF Figures!Latest
    <2> QED
      BY <1>5, <1>6, <2>1, <2>3, <2>4
  <1> QED
    BY <1>7, <1>8

\* The lines of a block of ads, for the blocks that name their own.
OwnBlocks == {"", "ads"}
IsText(lines, i) == lines[i].kind = "cells"
AdsPart(lines, blocks) ==
  {i \in DOMAIN lines : \E header \in 1..i - 1 :
     /\ IsText(lines, header) /\ \A j \in 1..header - 1 : ~IsText(lines, j)
     /\ \A j \in header + 1..i : IsText(lines, j) /\ lines[j].block \in blocks}

LEMMA AdsBlockIs == \A lines : Figures!AdsBlock(lines) = AdsPart(lines, OwnBlocks)
  BY Zenon DEF Figures!AdsBlock, AdsPart, OwnBlocks, IsText

LEMMA AdsPartSame ==
  ASSUME NEW n \in Nat, NEW lines, DOMAIN lines = 1..n, NEW new, DOMAIN new = 1..n,
         \A i \in 1..n : new[i].kind = lines[i].kind /\ new[i].block = lines[i].block, NEW blocks
  PROVE  AdsPart(new, blocks) = AdsPart(lines, blocks)
  <1>1. \A i \in 1..n : IsText(new, i) <=> IsText(lines, i)
    BY DEF IsText
  <1>2. ASSUME NEW i \in 1..n, NEW header \in 1..i - 1
        PROVE  /\ (\A j \in 1..header - 1 : ~IsText(new, j)) <=> (\A j \in 1..header - 1 : ~IsText(lines, j))
               /\ IsText(new, header) <=> IsText(lines, header)
               /\ (\A j \in header + 1..i : IsText(new, j) /\ new[j].block \in blocks) <=>
                    (\A j \in header + 1..i : IsText(lines, j) /\ lines[j].block \in blocks)
    <2>1. header \in 1..n /\ (\A j \in 1..header - 1 : j \in 1..n) /\ \A j \in header + 1..i : j \in 1..n
      OBVIOUS
    <2> QED
      BY <1>1, <2>1
  <1>3. \A i \in 1..n : i \in AdsPart(new, blocks) <=> i \in AdsPart(lines, blocks)
    <2> TAKE i \in 1..n
    <2> QED
      BY <1>2 DEF AdsPart
  <1> QED
    BY <1>3 DEF AdsPart

\* Lines that differ in what others spend, or outside of the block.
LEMMA AdsSame ==
  ASSUME NEW t, IsList(t.ads), NEW u, DOMAIN u.ads = DOMAIN t.ads, NEW sku,
         \A i \in DOMAIN t.ads :
           /\ u.ads[i].kind = t.ads[i].kind /\ u.ads[i].block = t.ads[i].block
           /\ u.ads[i].sku = sku <=> t.ads[i].sku = sku,
         \A i \in Figures!Its(t.ads, sku) \cap Figures!AdsBlock(t.ads) : u.ads[i]["spend"] = t.ads[i]["spend"]
  PROVE  AdsOf(u, sku) = AdsOf(t, sku)
  <1> DEFINE n == Len(t.ads)
             S == Figures!Its(t.ads, sku) \cap Figures!AdsBlock(t.ads)
  <1>1. n \in Nat /\ DOMAIN t.ads = 1..n /\ DOMAIN u.ads = 1..n
    BY ListHas
  <1>2. Figures!Its(u.ads, sku) = Figures!Its(t.ads, sku)
    <2>1. \A i \in DOMAIN t.ads : u.ads[i].sku = sku <=> t.ads[i].sku = sku
      OBVIOUS
    <2> QED
      BY <2>1, Zenon DEF Figures!Its
  <1>3. Figures!AdsBlock(u.ads) = Figures!AdsBlock(t.ads)
    <2>1. AdsPart(u.ads, OwnBlocks) = AdsPart(t.ads, OwnBlocks)
      <3>1. \A i \in 1..n : u.ads[i].kind = t.ads[i].kind /\ u.ads[i].block = t.ads[i].block
        BY <1>1
      <3> HIDE DEF n
      <3> QED
        BY <1>1, <3>1, AdsPartSame
    <2> QED
      BY <2>1, AdsBlockIs
  <1>4. S \in SUBSET (1..n)
    BY <1>1 DEF Figures!Its
  <1>5. AdsOf(u, sku) = Figures!Latest(u.ads, S, "spend") /\ AdsOf(t, sku) = Figures!Latest(t.ads, S, "spend")
    BY <1>2, <1>3 DEF AdsOf
  <1>6. \A i \in S : u.ads[i]["spend"] = t.ads[i]["spend"]
    OBVIOUS
  <1> HIDE DEF S, n
  <1>7. CASE S = {}
    BY <1>5, <1>7 DEF Figures!Latest
  <1>8. CASE S # {}
    <2>1. Figures!Max(S) \in S
      BY <1>1, <1>4, <1>8, MaxIs
    <2> QED
      BY <1>5, <1>6, <1>8, <2>1 DEF Figures!Latest
  <1> QED
    BY <1>7, <1>8

\* The tables of one article, as the property about its own rows has them.
TakenOut(t, sku) ==
  [r \in Figures!Roles |->
     IF r # "ads" THEN Selected(t[r], Figures!Its(t[r], sku))
     ELSE [i \in DOMAIN t.ads |->
             IF t.ads[i].sku = sku THEN t.ads[i] ELSE [t.ads[i] EXCEPT !.sku = 0, !.spend = 0]]]

LEMMA OwnLines ==
  ASSUME NEW t, TablesOK(t), NEW sku \in Nat \ {0}
  PROVE  LET u == TakenOut(t, sku)
         IN  /\ u.sales = Selected(t.sales, Figures!Its(t.sales, sku))
             /\ u.cost = Selected(t.cost, Figures!Its(t.cost, sku))
             /\ u.returns = Selected(t.returns, Figures!Its(t.returns, sku))
             /\ DOMAIN u.ads = DOMAIN t.ads
             /\ \A i \in DOMAIN t.ads :
                  /\ u.ads[i].kind = t.ads[i].kind /\ u.ads[i].block = t.ads[i].block
                  /\ u.ads[i].sku = sku <=> t.ads[i].sku = sku
                  /\ u.ads[i].sku \in Nat /\ u.ads[i]["spend"] \in Int /\ DOMAIN u.ads[i] = LineFields
                  /\ t.ads[i].sku = sku => u.ads[i] = t.ads[i]
  <1> DEFINE u == TakenOut(t, sku)
             L == [i \in DOMAIN t.ads |->
                     IF t.ads[i].sku = sku THEN t.ads[i] ELSE [t.ads[i] EXCEPT !.sku = 0, !.spend = 0]]
  <1>1. /\ u.sales = Selected(t.sales, Figures!Its(t.sales, sku))
        /\ u.cost = Selected(t.cost, Figures!Its(t.cost, sku))
        /\ u.returns = Selected(t.returns, Figures!Its(t.returns, sku))
        /\ u.ads = L
    BY DEF TakenOut, Figures!Roles
  <1>2. ASSUME NEW i \in DOMAIN t.ads
        PROVE  /\ L[i].kind = t.ads[i].kind /\ L[i].block = t.ads[i].block
               /\ L[i].sku = sku <=> t.ads[i].sku = sku
               /\ L[i].sku \in Nat /\ L[i]["spend"] \in Int /\ DOMAIN L[i] = LineFields
               /\ t.ads[i].sku = sku => L[i] = t.ads[i]
    <2> DEFINE line == t.ads[i]
    <2>1. line.sku \in Nat /\ line["spend"] \in Int /\ DOMAIN line = LineFields
      BY DEF TablesOK
    <2>2. L[i] = IF line.sku = sku THEN line ELSE [line EXCEPT !.sku = 0, !.spend = 0]
      OBVIOUS
    <2> HIDE DEF L, line
    <2>3. CASE line.sku = sku
      <3>1. L[i] = line
        BY <2>2, <2>3
      <3> QED
        BY <2>1, <2>3, <3>1 DEF line
    <2>4. CASE line.sku # sku
      <3>1. L[i] = [line EXCEPT !.sku = 0, !.spend = 0]
        BY <2>2, <2>4
      <3>2. /\ L[i].kind = line.kind /\ L[i].block = line.block /\ L[i].sku = 0 /\ L[i]["spend"] = 0
            /\ DOMAIN L[i] = LineFields
        BY <2>1, <3>1 DEF LineFields
      <3> QED
        BY <2>4, <3>2 DEF line
    <2> QED
      BY <2>3, <2>4
  <1>3. DOMAIN L = DOMAIN t.ads
    OBVIOUS
  <1> HIDE DEF L, u
  <1> QED
    BY <1>1, <1>2, <1>3 DEF u

LEMMA OwnPart ==
  ASSUME NEW tab, IsList(tab), NEW sku, NEW r, r = Selected(tab, Figures!Its(tab, sku))
  PROVE  /\ IsList(r) /\ Figures!Its(r, sku) = DOMAIN r
         /\ \A a \in DOMAIN r : \E i \in DOMAIN tab : r[a] = tab[i]
         /\ \A i \in Figures!Its(tab, sku) : \E a \in DOMAIN r : r[a] = tab[i]
  <1> DEFINE P == Figures!Its(tab, sku)
  <1>1. IsList(r) /\ Figures!Its(r, sku) = DOMAIN r
    BY OwnRows
  <1>2. PICK p \in Bijection(DOMAIN r, P) : \A a \in DOMAIN r : r[a] = tab[p[a]]
    BY OwnRows
  <1>3. (\A a \in DOMAIN r : p[a] \in P) /\ \A i \in P : \E a \in DOMAIN r : p[a] = i
    BY <1>2 DEF Bijection, Injection, Surjection
  <1>4. \A i \in P : i \in DOMAIN tab
    BY DEF Figures!Its
  <1> QED
    BY <1>1, <1>2, <1>3, <1>4

LEMMA OwnTables ==
  ASSUME NEW t, TablesOK(t), NEW sku \in Nat \ {0}
  PROVE  TablesOK(TakenOut(t, sku))
  <1> DEFINE u == TakenOut(t, sku)
  <1>1. /\ u.sales = Selected(t.sales, Figures!Its(t.sales, sku))
        /\ u.cost = Selected(t.cost, Figures!Its(t.cost, sku))
        /\ u.returns = Selected(t.returns, Figures!Its(t.returns, sku))
    BY OwnLines
  <1>2. /\ DOMAIN u.ads = DOMAIN t.ads
        /\ \A i \in DOMAIN t.ads : u.ads[i].sku \in Nat /\ u.ads[i]["spend"] \in Int /\ DOMAIN u.ads[i] = LineFields
    BY OwnLines
  <1>3. u.ads = [i \in DOMAIN u.ads |-> u.ads[i]]
    BY DEF TakenOut, Figures!Roles
  <1> HIDE DEF u
  <1>4. IsList(u.ads)
    <2>1. Len(t.ads) \in Nat /\ DOMAIN t.ads = 1..Len(t.ads)
      BY ListHas DEF TablesOK
    <2> QED
      BY <1>2, <1>3, <2>1, ListIs
  <1>5. IsList(t.sales) /\ IsList(t.cost) /\ IsList(t.returns)
    BY DEF TablesOK
  <1>6. IsList(u.sales) /\ \A a \in DOMAIN u.sales : \E i \in DOMAIN t.sales : u.sales[a] = t.sales[i]
    BY <1>1, <1>5, OwnPart
  <1>7. IsList(u.cost) /\ \A a \in DOMAIN u.cost : \E i \in DOMAIN t.cost : u.cost[a] = t.cost[i]
    BY <1>1, <1>5, OwnPart
  <1>8. IsList(u.returns) /\ \A a \in DOMAIN u.returns : \E i \in DOMAIN t.returns : u.returns[a] = t.returns[i]
    BY <1>1, <1>5, OwnPart
  <1>9. \A a \in DOMAIN u.sales : /\ u.sales[a].sku \in Nat /\ u.sales[a]["paid"] \in Int /\ u.sales[a]["units"] \in Int
                                  /\ DOMAIN u.sales[a] = SaleFields
    <2> TAKE a \in DOMAIN u.sales
    <2>1. PICK i \in DOMAIN t.sales : u.sales[a] = t.sales[i]
      BY <1>6
    <2> QED
      BY <2>1 DEF TablesOK
  <1>10. \A a \in DOMAIN u.cost : u.cost[a].sku \in Nat /\ u.cost[a]["unit"] \in Int
    <2> TAKE a \in DOMAIN u.cost
    <2>1. PICK i \in DOMAIN t.cost : u.cost[a] = t.cost[i]
      BY <1>7
    <2> QED
      BY <2>1 DEF TablesOK
  <1>11. \A a \in DOMAIN u.returns : /\ u.returns[a].sku \in Nat /\ u.returns[a]["amount"] \in Int
                                     /\ DOMAIN u.returns[a] = ReturnFields
    <2> TAKE a \in DOMAIN u.returns
    <2>1. PICK i \in DOMAIN t.returns : u.returns[a] = t.returns[i]
      BY <1>8
    <2> QED
      BY <2>1 DEF TablesOK
  <1>12. TablesOK(u)
    BY <1>2, <1>4, <1>6, <1>7, <1>8, <1>9, <1>10, <1>11 DEF TablesOK
  <1> QED
    BY <1>12 DEF u

\* The figures of an article from its own rows alone.
LEMMA OwnFigures ==
  ASSUME NEW t, TablesOK(t), NEW sku \in Nat \ {0}
  PROVE  Figures!Metrics(TakenOut(t, sku), sku) = Figures!Metrics(t, sku)
  <1> DEFINE u == TakenOut(t, sku)
  <1>1. /\ u.sales = Selected(t.sales, Figures!Its(t.sales, sku))
        /\ u.cost = Selected(t.cost, Figures!Its(t.cost, sku))
        /\ u.returns = Selected(t.returns, Figures!Its(t.returns, sku))
    BY OwnLines
  <1>2. TablesOK(u)
    BY OwnTables
  <1>3. IsList(t.sales) /\ IsList(t.ads) /\ IsList(t.returns)
    BY DEF TablesOK
  <1>4. AdsOf(u, sku) = AdsOf(t, sku)
    <2>1. /\ DOMAIN u.ads = DOMAIN t.ads
          /\ \A i \in DOMAIN t.ads :
               /\ u.ads[i].kind = t.ads[i].kind /\ u.ads[i].block = t.ads[i].block
               /\ u.ads[i].sku = sku <=> t.ads[i].sku = sku
               /\ t.ads[i].sku = sku => u.ads[i] = t.ads[i]
      BY OwnLines
    <2>2. \A i \in Figures!Its(t.ads, sku) : i \in DOMAIN t.ads /\ t.ads[i].sku = sku
      BY DEF Figures!Its
    <2> HIDE DEF u
    <2>3. \A i \in Figures!Its(t.ads, sku) \cap Figures!AdsBlock(t.ads) : u.ads[i]["spend"] = t.ads[i]["spend"]
      BY <2>1, <2>2
    <2> QED
      BY <1>3, <2>1, <2>3, AdsSame
  <1> HIDE DEF u
  <1>5. SameSales(u, t, sku) /\ SameReturns(u, t, sku) /\ CostOf(u, sku) = CostOf(t, sku)
    BY <1>1, <1>3, OwnSales, OwnReturns, OwnCost
  <1>6. Figures!Metrics(t, sku) = Figures!Metrics(u, sku)
    BY <1>2, <1>4, <1>5, MetricsSame
  <1> QED
    BY <1>6 DEF u

LEMMA OwnProfit ==
  ASSUME NEW t, TablesOK(t), NEW i \in Figures!Sold(t)
  PROVE  Figures!ComputeProfit(TakenOut(t, t.sales[i].sku)) = {Figures!Metrics(t, t.sales[i].sku)}
  <1> DEFINE sku == t.sales[i].sku
             u == TakenOut(t, sku)
             r == u.sales
  <1>1. i \in DOMAIN t.sales /\ t.sales[i].status = "completed" /\ sku \in Nat \ {0}
    BY DEF Figures!Sold, TablesOK
  <1> HIDE DEF sku
  <1>2. r = Selected(t.sales, Figures!Its(t.sales, sku))
    BY <1>1, OwnLines
  <1>3. Figures!Metrics(u, sku) = Figures!Metrics(t, sku)
    BY <1>1, OwnFigures
  <1> HIDE DEF u
  <1>4. Figures!Its(r, sku) = DOMAIN r /\ \A k \in Figures!Its(t.sales, sku) : \E a \in DOMAIN r : r[a] = t.sales[k]
    BY <1>2, OwnPart DEF TablesOK
  <1>5. \A a \in DOMAIN r : r[a].sku = sku
    BY <1>4 DEF Figures!Its
  <1>6. i \in Figures!Its(t.sales, sku)
    BY <1>1 DEF Figures!Its, sku
  <1>7. PICK a \in DOMAIN r : r[a] = t.sales[i]
    BY <1>4, <1>6
  <1>8. a \in Figures!Sold(u)
    BY <1>1, <1>5, <1>7 DEF Figures!Sold
  <1>9. \A k \in Figures!Sold(u) : u.sales[k].sku = sku
    BY <1>5 DEF Figures!Sold
  <1>10. Figures!ComputeProfit(u) = {Figures!Metrics(u, sku)}
    BY <1>8, <1>9 DEF Figures!ComputeProfit
  <1> QED
    BY <1>3, <1>10 DEF u, sku

-----------------------------------------------------------------------------
(* The tables read from the end, without what was not realised.              *)

LEMMA Mirrored ==
  ASSUME NEW n \in Nat, NEW s, DOMAIN s = 1..n, s = [i \in DOMAIN s |-> s[i]]
  PROVE  LET r == Figures!Reverse(s)
         IN  /\ DOMAIN r = 1..n
             /\ \E p \in Bijection(1..n, 1..n) : \A i \in 1..n : r[p[i]] = s[i]
  <1> DEFINE r == Figures!Reverse(s)
             p == [i \in 1..n |-> (n - i) + 1]
  <1>1. Len(s) = n
    BY ListIs
  <1>2. r = [i \in 1..n |-> s[(n - i) + 1]]
    BY <1>1 DEF Figures!Reverse
  <1>3. p \in [1..n -> 1..n]
    OBVIOUS
  <1>4. \A i \in 1..n : p[p[i]] = i
    BY <1>3
  <1>5. p \in Bijection(1..n, 1..n)
    <2> HIDE DEF p
    <2> QED
      BY <1>3, <1>4 DEF Bijection, Injection, Surjection, IsInjective
  <1>6. \A i \in 1..n : r[p[i]] = s[i]
    <2> TAKE i \in 1..n
    <2>1. p[i] \in 1..n /\ (n - p[i]) + 1 = i
      OBVIOUS
    <2> HIDE DEF p, r
    <2> QED
      BY <1>2, <2>1
  <1> HIDE DEF p, r
  <1> QED
    BY <1>2, <1>5, <1>6 DEF r

RealSales(tab) ==
  [i \in DOMAIN tab |->
     IF tab[i].status = "completed" THEN tab[i] ELSE [tab[i] EXCEPT !.paid = 0, !.units = 0]]
RealReturns(tab) ==
  [i \in DOMAIN tab |-> IF tab[i].status = "refunded" THEN tab[i] ELSE [tab[i] EXCEPT !.amount = 0]]
RealAds(lines) ==
  [i \in DOMAIN lines |-> IF lines[i].block = "discount" THEN [lines[i] EXCEPT !.spend = 0] ELSE lines[i]]
Real(t) ==
  [sales |-> Figures!Reverse(RealSales(t.sales)), cost |-> t.cost, ads |-> RealAds(t.ads),
   returns |-> Figures!Reverse(RealReturns(t.returns))]

LEMMA RealSalesAre ==
  ASSUME NEW t, TablesOK(t), NEW new, new = Figures!Reverse(RealSales(t.sales))
  PROVE  \E n \in Nat : /\ DOMAIN t.sales = 1..n /\ DOMAIN new = 1..n
                        /\ \E p \in Bijection(1..n, 1..n) : \A i \in 1..n :
                             /\ new[p[i]].sku = t.sales[i].sku /\ new[p[i]].status = t.sales[i].status
                             /\ t.sales[i].status = "completed" => new[p[i]] = t.sales[i]
  <1> DEFINE s == RealSales(t.sales)
             n == Len(t.sales)
  <1>1. n \in Nat /\ DOMAIN t.sales = 1..n
    BY ListHas DEF TablesOK
  <1> HIDE DEF n
  <1>2. DOMAIN s = 1..n /\ s = [i \in DOMAIN s |-> s[i]]
    BY <1>1 DEF RealSales
  <1>3. ASSUME NEW i \in 1..n
        PROVE  /\ s[i].sku = t.sales[i].sku /\ s[i].status = t.sales[i].status
               /\ t.sales[i].status = "completed" => s[i] = t.sales[i]
    <2> DEFINE row == t.sales[i]
    <2>1. s[i] = IF row.status = "completed" THEN row ELSE [row EXCEPT !.paid = 0, !.units = 0]
      BY <1>1 DEF RealSales
    <2>2. DOMAIN row = SaleFields
      BY <1>1 DEF TablesOK
    <2> HIDE DEF row, s
    <2>3. s[i].sku = row.sku /\ s[i].status = row.status /\ (row.status = "completed" => s[i] = row)
      BY <2>1, <2>2 DEF SaleFields
    <2> QED
      BY <2>3 DEF row
  <1> HIDE DEF s
  <1>4. /\ DOMAIN new = 1..n
        /\ \E p \in Bijection(1..n, 1..n) : \A i \in 1..n : new[p[i]] = s[i]
    BY <1>1, <1>2, Mirrored DEF s
  <1>5. PICK p \in Bijection(1..n, 1..n) : \A i \in 1..n : new[p[i]] = s[i]
    BY <1>4
  <1>6. \A i \in 1..n : /\ new[p[i]].sku = t.sales[i].sku /\ new[p[i]].status = t.sales[i].status
                        /\ t.sales[i].status = "completed" => new[p[i]] = t.sales[i]
    BY <1>3, <1>5
  <1> QED
    BY <1>1, <1>4, <1>6

LEMMA RealReturnsAre ==
  ASSUME NEW t, TablesOK(t), NEW new, new = Figures!Reverse(RealReturns(t.returns))
  PROVE  \E n \in Nat : /\ DOMAIN t.returns = 1..n /\ DOMAIN new = 1..n
                        /\ \E p \in Bijection(1..n, 1..n) : \A i \in 1..n :
                             /\ new[p[i]].sku = t.returns[i].sku /\ new[p[i]].status = t.returns[i].status
                             /\ t.returns[i].status = "refunded" => new[p[i]] = t.returns[i]
  <1> DEFINE s == RealReturns(t.returns)
             n == Len(t.returns)
  <1>1. n \in Nat /\ DOMAIN t.returns = 1..n
    BY ListHas DEF TablesOK
  <1> HIDE DEF n
  <1>2. DOMAIN s = 1..n /\ s = [i \in DOMAIN s |-> s[i]]
    BY <1>1 DEF RealReturns
  <1>3. ASSUME NEW i \in 1..n
        PROVE  /\ s[i].sku = t.returns[i].sku /\ s[i].status = t.returns[i].status
               /\ t.returns[i].status = "refunded" => s[i] = t.returns[i]
    <2> DEFINE row == t.returns[i]
    <2>1. s[i] = IF row.status = "refunded" THEN row ELSE [row EXCEPT !.amount = 0]
      BY <1>1 DEF RealReturns
    <2>2. DOMAIN row = ReturnFields
      BY <1>1 DEF TablesOK
    <2> HIDE DEF row, s
    <2>3. s[i].sku = row.sku /\ s[i].status = row.status /\ (row.status = "refunded" => s[i] = row)
      BY <2>1, <2>2 DEF ReturnFields
    <2> QED
      BY <2>3 DEF row
  <1> HIDE DEF s
  <1>4. /\ DOMAIN new = 1..n
        /\ \E p \in Bijection(1..n, 1..n) : \A i \in 1..n : new[p[i]] = s[i]
    BY <1>1, <1>2, Mirrored DEF s
  <1>5. PICK p \in Bijection(1..n, 1..n) : \A i \in 1..n : new[p[i]] = s[i]
    BY <1>4
  <1>6. \A i \in 1..n : /\ new[p[i]].sku = t.returns[i].sku /\ new[p[i]].status = t.returns[i].status
                        /\ t.returns[i].status = "refunded" => new[p[i]] = t.returns[i]
    BY <1>3, <1>5
  <1> QED
    BY <1>1, <1>4, <1>6

LEMMA NoDiscount ==
  ASSUME NEW n \in Nat, NEW lines, DOMAIN lines = 1..n
  PROVE  \A i \in AdsPart(lines, OwnBlocks) : lines[i].block # "discount"
  <1>1. ASSUME NEW blocks, NEW i \in AdsPart(lines, blocks) PROVE lines[i].block \in blocks
    <2>1. PICK header \in 1..i - 1 : \A j \in header + 1..i : lines[j].block \in blocks
      BY DEF AdsPart
    <2>2. i \in 1..n
      BY DEF AdsPart
    <2> QED
      BY <2>1, <2>2
  <1>2. "discount" \notin OwnBlocks
    BY Zenon DEF OwnBlocks
  <1> QED
    BY <1>1, <1>2

\* Of no article the figures change.
LEMMA RealFigures ==
  ASSUME NEW t, TablesOK(t), NEW sku
  PROVE  Figures!Metrics(Real(t), sku) = Figures!Metrics(t, sku)
  <1> DEFINE u == Real(t)
  <1>1. /\ u.sales = Figures!Reverse(RealSales(t.sales)) /\ u.cost = t.cost
        /\ u.ads = RealAds(t.ads) /\ u.returns = Figures!Reverse(RealReturns(t.returns))
    BY DEF Real
  <1> HIDE DEF u
  <1>2. SameSales(t, u, sku)
    <2>1. PICK n \in Nat : /\ DOMAIN t.sales = 1..n /\ DOMAIN u.sales = 1..n
                           /\ \E p \in Bijection(1..n, 1..n) : \A i \in 1..n :
                                /\ u.sales[p[i]].sku = t.sales[i].sku /\ u.sales[p[i]].status = t.sales[i].status
                                /\ t.sales[i].status = "completed" => u.sales[p[i]] = t.sales[i]
      BY <1>1, RealSalesAre
    <2>2. PICK p \in Bijection(1..n, 1..n) : \A i \in 1..n :
            /\ u.sales[p[i]].sku = t.sales[i].sku /\ u.sales[p[i]].status = t.sales[i].status
            /\ t.sales[i].status = "completed" => u.sales[p[i]] = t.sales[i]
      BY <2>1
    <2> DEFINE A == SoldOf(t, sku)
               B == SoldOf(u, sku)
               q == [i \in A |-> p[i]]
    <2>3. \A i \in 1..n : p[i] \in 1..n
      BY DEF Bijection, Injection
    <2>4. /\ A \in SUBSET (1..n) /\ B \in SUBSET (1..n)
          /\ \A i \in 1..n : i \in A <=> p[i] \in B
      BY <2>1, <2>2, <2>3 DEF SoldOf, Figures!Its
    <2>5. \A i \in A : t.sales[i].status = "completed"
      BY DEF SoldOf
    <2> HIDE DEF A, B
    <2>6. q \in Bijection(A, B)
      BY <2>4, BijectionPart
    <2>7. \A i \in A : u.sales[q[i]] = t.sales[i]
      BY <2>2, <2>4, <2>5
    <2> HIDE DEF q
    <2> QED
      BY <2>6, <2>7 DEF SameSales, A, B
  <1>3. SameReturns(t, u, sku)
    <2>1. PICK n \in Nat : /\ DOMAIN t.returns = 1..n /\ DOMAIN u.returns = 1..n
                           /\ \E p \in Bijection(1..n, 1..n) : \A i \in 1..n :
                                /\ u.returns[p[i]].sku = t.returns[i].sku
                                /\ u.returns[p[i]].status = t.returns[i].status
                                /\ t.returns[i].status = "refunded" => u.returns[p[i]] = t.returns[i]
      BY <1>1, RealReturnsAre
    <2>2. PICK p \in Bijection(1..n, 1..n) : \A i \in 1..n :
            /\ u.returns[p[i]].sku = t.returns[i].sku /\ u.returns[p[i]].status = t.returns[i].status
            /\ t.returns[i].status = "refunded" => u.returns[p[i]] = t.returns[i]
      BY <2>1
    <2> DEFINE A == Figures!Its(t.returns, sku)
               B == Figures!Its(u.returns, sku)
               q == [i \in A |-> p[i]]
    <2>3. \A i \in 1..n : p[i] \in 1..n
      BY DEF Bijection, Injection
    <2>4. /\ A \in SUBSET (1..n) /\ B \in SUBSET (1..n)
          /\ \A i \in 1..n : i \in A <=> p[i] \in B
      BY <2>1, <2>2, <2>3 DEF Figures!Its
    <2> HIDE DEF A, B
    <2>5. q \in Bijection(A, B)
      BY <2>4, BijectionPart
    <2>6. \A i \in A : /\ u.returns[q[i]].status = t.returns[i].status
                       /\ t.returns[i].status = "refunded" => u.returns[q[i]] = t.returns[i]
      BY <2>2, <2>4
    <2> HIDE DEF q
    <2> QED
      BY <2>5, <2>6 DEF SameReturns, A, B
  <1>4. AdsOf(u, sku) = AdsOf(t, sku)
    <2> DEFINE n == Len(t.ads)
    <2>1. n \in Nat /\ DOMAIN t.ads = 1..n /\ IsList(t.ads)
      BY ListHas DEF TablesOK
    <2> HIDE DEF n
    <2>2. DOMAIN u.ads = DOMAIN t.ads
      BY <1>1 DEF RealAds
    <2>3. ASSUME NEW i \in DOMAIN t.ads
          PROVE  /\ u.ads[i].kind = t.ads[i].kind /\ u.ads[i].block = t.ads[i].block
                 /\ u.ads[i].sku = t.ads[i].sku
                 /\ t.ads[i].block # "discount" => u.ads[i] = t.ads[i]
      <3> DEFINE line == t.ads[i]
      <3>1. u.ads[i] = IF line.block = "discount" THEN [line EXCEPT !.spend = 0] ELSE line
        BY <1>1 DEF RealAds
      <3>2. DOMAIN line = LineFields
        BY DEF TablesOK
      <3> HIDE DEF line
      <3>3. /\ u.ads[i].kind = line.kind /\ u.ads[i].block = line.block /\ u.ads[i].sku = line.sku
            /\ line.block # "discount" => u.ads[i] = line
        BY <3>1, <3>2 DEF LineFields
      <3> QED
        BY <3>3 DEF line
    <2>4. \A i \in Figures!Its(t.ads, sku) \cap Figures!AdsBlock(t.ads) :
            i \in DOMAIN t.ads /\ t.ads[i].block # "discount"
      BY <2>1, AdsBlockIs, NoDiscount DEF Figures!Its
    <2>5. \A i \in Figures!Its(t.ads, sku) \cap Figures!AdsBlock(t.ads) : u.ads[i]["spend"] = t.ads[i]["spend"]
      BY <2>3, <2>4
    <2>6. \A i \in DOMAIN t.ads :
            /\ u.ads[i].kind = t.ads[i].kind /\ u.ads[i].block = t.ads[i].block
            /\ u.ads[i].sku = sku <=> t.ads[i].sku = sku
      BY <2>3
    <2> QED
      BY <2>1, <2>2, <2>5, <2>6, AdsSame
  <1>5. CostOf(u, sku) = CostOf(t, sku)
    BY <1>1 DEF CostOf
  <1>6. Figures!Metrics(u, sku) = Figures!Metrics(t, sku)
    BY <1>2, <1>3, <1>4, <1>5, MetricsSame
  <1> QED
    BY <1>6 DEF u

LEMMA RealProfit ==
  ASSUME NEW t, TablesOK(t)
  PROVE  Figures!ComputeProfit(Real(t)) = Figures!ComputeProfit(t)
  <1> DEFINE u == Real(t)
  <1>1. u.sales = Figures!Reverse(RealSales(t.sales))
    BY DEF Real
  <1>2. \A sku : Figures!Metrics(u, sku) = Figures!Metrics(t, sku)
    BY RealFigures
  <1> HIDE DEF u
  <1>3. PICK n \in Nat : /\ DOMAIN t.sales = 1..n /\ DOMAIN u.sales = 1..n
                         /\ \E p \in Bijection(1..n, 1..n) : \A i \in 1..n :
                              /\ u.sales[p[i]].sku = t.sales[i].sku /\ u.sales[p[i]].status = t.sales[i].status
                              /\ t.sales[i].status = "completed" => u.sales[p[i]] = t.sales[i]
    BY <1>1, RealSalesAre
  <1>4. PICK p \in Bijection(1..n, 1..n) : \A i \in 1..n :
          u.sales[p[i]].sku = t.sales[i].sku /\ u.sales[p[i]].status = t.sales[i].status
    BY <1>3
  <1>5. (\A i \in 1..n : p[i] \in 1..n) /\ \A e \in 1..n : \E i \in 1..n : p[i] = e
    BY DEF Bijection, Injection, Surjection
  <1> DEFINE X == Figures!Sold(t)
             Y == Figures!Sold(u)
  <1>6. /\ X \in SUBSET (1..n) /\ Y \in SUBSET (1..n)
        /\ \A i \in 1..n : i \in X <=> p[i] \in Y
    BY <1>3, <1>4, <1>5 DEF Figures!Sold
  <1> HIDE DEF X, Y
  <1>7. \A i \in X : \E k \in Y : u.sales[k].sku = t.sales[i].sku
    BY <1>4, <1>5, <1>6
  <1>8. \A k \in Y : \E i \in X : u.sales[k].sku = t.sales[i].sku
    <2> TAKE k \in Y
    <2>1. PICK i \in 1..n : p[i] = k
      BY <1>5, <1>6
    <2> QED
      BY <1>4, <1>6, <2>1
  <1>9. {Figures!Metrics(t, u.sales[k].sku) : k \in Y} = {Figures!Metrics(t, t.sales[i].sku) : i \in X}
    BY <1>7, <1>8
  <1>10. Figures!ComputeProfit(u) = {Figures!Metrics(u, u.sales[k].sku) : k \in Y}
    BY DEF Figures!ComputeProfit, Y
  <1>11. Figures!ComputeProfit(t) = {Figures!Metrics(t, t.sales[i].sku) : i \in X}
    BY DEF Figures!ComputeProfit, X
  <1>12. {Figures!Metrics(u, u.sales[k].sku) : k \in Y} = {Figures!Metrics(t, u.sales[k].sku) : k \in Y}
    BY <1>2, Zenon
  <1> QED
    BY <1>9, <1>10, <1>11, <1>12 DEF u

LEMMA SoldIs ==
  ASSUME NEW t, TablesOK(t)
  PROVE  /\ IsFiniteSet(Figures!Sold(t))
         /\ \A i \in Figures!Sold(t) : /\ i \in DOMAIN t.sales /\ t.sales[i].status = "completed"
                                      /\ t.sales[i].sku \in Nat \ {0} /\ t.sales[i]["paid"] \in Int
  <1>1. IsFiniteSet(DOMAIN t.sales)
    BY ListHas DEF TablesOK
  <1>2. Figures!Sold(t) \in SUBSET DOMAIN t.sales
    BY DEF Figures!Sold
  <1>3. IsFiniteSet(Figures!Sold(t))
    BY <1>1, <1>2, FS_Subset
  <1> QED
    BY <1>3 DEF Figures!Sold, TablesOK

LEMMA FieldsOf == \A t, sku : LET m == Figures!Metrics(t, sku)
                              IN  m.sku = sku /\ m.revenue = PaidOf(t, sku)
  <1> TAKE t, sku
  <1>1. \A paid, units, cost, ads, refunds, orders, returns_ :
          LET m == MetricsOf(sku, paid, units, cost, ads, refunds, orders, returns_)
          IN  m.sku = sku /\ m.revenue = paid
    BY DEF MetricsOf
  <1> QED
    BY <1>1, MetricsIs

\* Every amount paid for a completed sale is in the revenue of one article.
LEMMA RevenueSum ==
  ASSUME NEW t, TablesOK(t)
  PROVE  Figures!SumFunction([m \in Figures!ComputeProfit(t) |-> m.revenue])
           = Figures!Total(t.sales, Figures!Sold(t), "paid")
  <1> DEFINE D == Figures!Sold(t)
             F == Figures!ComputeProfit(t)
             f == [i \in D |-> t.sales[i]["paid"]]
             k == [i \in D |-> t.sales[i].sku]
             K == {k[i] : i \in D}
             h == [q \in K |-> Sum(f, {i \in D : k[i] = q})]
             g == [m \in F |-> m.revenue]
             M(q) == Figures!Metrics(t, q)
             p == [q \in K |-> M(q)]
  <1>1. /\ IsFiniteSet(D)
        /\ \A i \in D : /\ i \in DOMAIN t.sales /\ t.sales[i].status = "completed"
                        /\ t.sales[i].sku \in Nat \ {0} /\ t.sales[i]["paid"] \in Int
    BY SoldIs
  <1>2. Figures!Total(t.sales, D, "paid") = Sum(f, D)
    BY TotalIs
  <1>3. Figures!SumFunction(g) = Sum(g, F)
    <2>1. Figures!SumFunction(g) = Sum(g, DOMAIN g)
      BY Zenon DEF Figures!SumFunction, Sum
    <2>2. DOMAIN g = F
      OBVIOUS
    <2> HIDE DEF g
    <2> QED
      BY <2>1, <2>2
  <1>4. F = {M(q) : q \in K}
    <2>1. F = {M(t.sales[i].sku) : i \in D}
      BY DEF Figures!ComputeProfit
    <2>2. \A i \in D : k[i] = t.sales[i].sku
      OBVIOUS
    <2> HIDE DEF D, F, M, k
    <2> QED
      BY <2>1, <2>2
  <1>5. \A q \in K : M(q).sku = q /\ M(q).revenue = PaidOf(t, q)
    <2> TAKE q \in K
    <2> HIDE DEF K
    <2> QED
      BY FieldsOf
  <1>6. \A q \in K : {i \in D : k[i] = q} = SoldOf(t, q)
    <2> TAKE q \in K
    <2>1. q # 0
      BY <1>1
    <2>2. \A i \in D : k[i] = t.sales[i].sku
      OBVIOUS
    <2>3. \A i \in SoldOf(t, q) : i \in D /\ t.sales[i].sku = q
      BY <2>1 DEF SoldOf, Figures!Its, Figures!Sold
    <2>4. \A i \in D : t.sales[i].sku = q => i \in SoldOf(t, q)
      BY DEF SoldOf, Figures!Its, Figures!Sold
    <2> HIDE DEF D, k, K
    <2> QED
      BY <2>2, <2>3, <2>4
  <1>7. \A i \in D : f[i] = t.sales[i]["paid"] /\ f[i] \in Int /\ k[i] \in K
    BY <1>1
  <1>8. IsFiniteSet(K)
    <2>1. K = {k[i] : i \in D} /\ k = [i \in D |-> k[i]]
      OBVIOUS
    <2> HIDE DEF D, k, K
    <2>2. k \in Surjection(D, K)
      BY <2>1 DEF Surjection
    <2> QED
      BY <1>1, <2>2, FS_Surjection
  <1> HIDE DEF D, F, f, k, K, g, M
  <1>9. Sum(h, K) = Sum(f, D)
    BY <1>1, <1>7, <1>8, SumGrouped
  <1>10. \A q \in K : h[q] = PaidOf(t, q) /\ h[q] \in Int
    <2> TAKE q \in K
    <2> DEFINE S == SoldOf(t, q)
               e == [i \in S |-> t.sales[i]["paid"]]
    <2>1. h[q] = Sum(f, S)
      BY <1>6
    <2>2. S \in SUBSET D
      BY <1>6
    <2>3. IsFiniteSet(S) /\ \A i \in S : f[i] \in Int /\ e[i] = f[i]
      BY <1>1, <1>7, <2>2, FS_Subset
    <2>4. PaidOf(t, q) = Sum(e, S)
      BY TotalIs DEF PaidOf
    <2> HIDE DEF S, e, h
    <2>5. Sum(e, S) = Sum(f, S) /\ Sum(f, S) \in Int
      BY <2>3, SumSame, SumInt
    <2> QED
      BY <2>1, <2>4, <2>5
  <1>11. p \in Bijection(K, F) /\ \A q \in K : p[q] = M(q) /\ p[q] \in F
    <2>1. \A q \in K : p[q] = M(q) /\ p[q] \in F
      BY <1>4
    <2>2. p \in [K -> F]
      BY <1>4
    <2> HIDE DEF p
    <2>3. (\A q, r \in K : p[q] = p[r] => q = r) /\ \A m \in F : \E q \in K : p[q] = m
      BY <1>4, <1>5, <2>1
    <2>4. p \in Bijection(K, F)
      BY <2>2, <2>3 DEF Bijection, Injection, Surjection, IsInjective
    <2> QED
      BY <2>1, <2>4
  <1> HIDE DEF h, p
  <1>12. \A q \in K : g[p[q]] = h[q]
    <2>1. \A m \in F : g[m] = m.revenue
      BY DEF g
    <2> QED
      BY <1>5, <1>10, <1>11, <2>1
  <1>13. Sum(g, F) = Sum(h, K)
    BY <1>8, <1>10, <1>11, <1>12, SumMoved
  <1>14. Figures!SumFunction(g) = Figures!Total(t.sales, D, "paid")
    BY <1>2, <1>3, <1>9, <1>13
  <1> QED
    BY <1>14 DEF g, F, D

-----------------------------------------------------------------------------
(* The flags.                                                                *)

\* The figures of a report: one entry for an article, of whole numbers.
FiguresOK(F) ==
  /\ IsFiniteSet(F)
  /\ \A m \in F : m.net \in Int /\ m.revenue \in Int /\ m.ads \in Int /\ m.units \in Int /\ m.sku \in Nat
  /\ \A m, n \in F : m.sku = n.sku => m = n

LEMMA PartsTyped ==
  ASSUME NEW t, TablesOK(t), NEW sku
  PROVE  /\ PaidOf(t, sku) \in Int /\ UnitsOf(t, sku) \in Int /\ CostOf(t, sku) \in Int
         /\ AdsOf(t, sku) \in Int /\ RefundedOf(t, sku) \in Int
  <1>1. /\ IsFiniteSet(SoldOf(t, sku)) /\ IsFiniteSet(RefundsOf(t, sku))
        /\ \A i \in SoldOf(t, sku) : t.sales[i]["paid"] \in Int /\ t.sales[i]["units"] \in Int
        /\ \A i \in RefundsOf(t, sku) : t.returns[i]["amount"] \in Int
    <2>1. /\ IsFiniteSet(Figures!Its(t.sales, sku)) /\ \A i \in Figures!Its(t.sales, sku) : i \in DOMAIN t.sales
          /\ IsFiniteSet(Figures!Its(t.returns, sku)) /\ \A i \in Figures!Its(t.returns, sku) : i \in DOMAIN t.returns
      BY ItsFinite DEF TablesOK, Figures!Its
    <2>2. SoldOf(t, sku) \in SUBSET Figures!Its(t.sales, sku) /\ RefundsOf(t, sku) \in SUBSET Figures!Its(t.returns, sku)
      BY DEF SoldOf, RefundsOf
    <2>3. IsFiniteSet(SoldOf(t, sku)) /\ IsFiniteSet(RefundsOf(t, sku))
      BY <2>1, <2>2, FS_Subset
    <2> QED
      BY <2>1, <2>2, <2>3 DEF TablesOK
  <1>2. \A tab, S, c : IsFiniteSet(S) /\ (\A i \in S : tab[i][c] \in Int) => Figures!Total(tab, S, c) \in Int
    <2> SUFFICES ASSUME NEW tab, NEW S, NEW c, IsFiniteSet(S), \A i \in S : tab[i][c] \in Int
                 PROVE  Figures!Total(tab, S, c) \in Int
      OBVIOUS
    <2> DEFINE f == [i \in S |-> tab[i][c]]
    <2>1. Figures!Total(tab, S, c) = Sum(f, S)
      BY TotalIs
    <2>2. \A i \in S : f[i] \in Int
      OBVIOUS
    <2> HIDE DEF f
    <2> QED
      BY <2>1, <2>2, SumInt
  <1>3. PaidOf(t, sku) \in Int /\ UnitsOf(t, sku) \in Int /\ RefundedOf(t, sku) \in Int
    BY <1>1, <1>2 DEF PaidOf, UnitsOf, RefundedOf
  <1>4. CostOf(t, sku) \in Int
    <2> DEFINE S == Figures!Its(t.cost, sku)
    <2>1. S \in SUBSET (1..Len(t.cost)) /\ Len(t.cost) \in Nat /\ \A i \in S : t.cost[i]["unit"] \in Int
      BY ItsFinite DEF TablesOK
    <2>2. CostOf(t, sku) = Figures!Latest(t.cost, S, "unit")
      BY DEF CostOf
    <2> HIDE DEF S
    <2>3. CASE S = {}
      BY <2>2, <2>3 DEF Figures!Latest
    <2>4. CASE S # {}
      <3>1. Figures!Max(S) \in S
        BY <2>1, <2>4, MaxIs
      <3> QED
        BY <2>1, <2>2, <2>4, <3>1 DEF Figures!Latest
    <2> QED
      BY <2>3, <2>4
  <1>5. AdsOf(t, sku) \in Int
    <2> DEFINE S == Figures!Its(t.ads, sku) \cap Figures!AdsBlock(t.ads)
    <2>1. S \in SUBSET (1..Len(t.ads)) /\ Len(t.ads) \in Nat /\ \A i \in S : t.ads[i]["spend"] \in Int
      BY ItsFinite DEF TablesOK
    <2>2. AdsOf(t, sku) = Figures!Latest(t.ads, S, "spend")
      BY DEF AdsOf
    <2> HIDE DEF S
    <2>3. CASE S = {}
      BY <2>2, <2>3 DEF Figures!Latest
    <2>4. CASE S # {}
      <3>1. Figures!Max(S) \in S
        BY <2>1, <2>4, MaxIs
      <3> QED
        BY <2>1, <2>2, <2>4, <3>1 DEF Figures!Latest
    <2> QED
      BY <2>3, <2>4
  <1> QED
    BY <1>3, <1>4, <1>5

LEMMA FiguresTyped ==
  ASSUME NEW t, TablesOK(t)
  PROVE  FiguresOK(Figures!ComputeProfit(t))
  <1> DEFINE F == Figures!ComputeProfit(t)
             D == Figures!Sold(t)
             p == [i \in D |-> Figures!Metrics(t, t.sales[i].sku)]
  <1>1. IsFiniteSet(D) /\ \A i \in D : t.sales[i].sku \in Nat
    BY SoldIs
  <1>2. F = {p[i] : i \in D} /\ p = [i \in D |-> p[i]]
    BY DEF Figures!ComputeProfit
  <1>3. \A m \in F : \E sku \in Nat : m = Figures!Metrics(t, sku)
    BY <1>1 DEF Figures!ComputeProfit
  <1> HIDE DEF F, D, p
  <1>4. IsFiniteSet(F)
    <2>1. p \in Surjection(D, F)
      BY <1>2 DEF Surjection
    <2> QED
      BY <1>1, <2>1, FS_Surjection
  <1>5. ASSUME NEW m \in F
        PROVE  /\ m.net \in Int /\ m.revenue \in Int /\ m.ads \in Int /\ m.units \in Int /\ m.sku \in Nat
               /\ m = Figures!Metrics(t, m.sku)
    <2>1. PICK sku \in Nat : m = Figures!Metrics(t, sku)
      BY <1>3
    <2> DEFINE paid == PaidOf(t, sku)
               units == UnitsOf(t, sku)
               cost == CostOf(t, sku)
               ads == AdsOf(t, sku)
               refunds == RefundedOf(t, sku)
               orders == Figures!Cardinality(SoldOf(t, sku))
               back == Figures!Cardinality(Figures!Its(t.returns, sku))
    <2>2. m = MetricsOf(sku, paid, units, cost, ads, refunds, orders, back)
      BY <2>1, MetricsIs
    <2>3. paid \in Int /\ units \in Int /\ cost \in Int /\ ads \in Int /\ refunds \in Int
      BY PartsTyped
    <2> HIDE DEF paid, units, cost, ads, refunds, orders, back
    <2>4. /\ m.net = paid - units * cost - ads - refunds /\ m.revenue = paid /\ m.ads = ads
          /\ m.units = units /\ m.sku = sku
      BY <2>2 DEF MetricsOf
    <2>5. units * cost \in Int
      BY <2>3
    <2> QED
      BY <2>1, <2>3, <2>4, <2>5
  <1>6. \A m, n \in F : m.sku = n.sku => m = n
    BY <1>5
  <1>7. FiguresOK(F)
    BY <1>4, <1>5, <1>6 DEF FiguresOK
  <1> QED
    BY <1>7 DEF F

LEMMA FiguresOrdered == \A S, R : Figures!Ordered(S, R) = Ordered(S, R)
  BY Zenon DEF Figures!Ordered, Ordered, Figures!Cardinality, Cardinality

LEMMA FlagsMean ==
  \A m, F : /\ "best" \in Figures!Flags(m, F) <=> m.sku \in Figures!MostProfitable(F)
            /\ "fake hit" \in Figures!Flags(m, F) <=> Figures!FakeHit(m)
            /\ "ads" \in Figures!Flags(m, F) <=> Figures!AdEatsProfit(m)
  <1> TAKE m, F
  <1>1. "best" \in Figures!Flags(m, F) <=> m.sku \in Figures!MostProfitable(F)
    BY DEF Figures!Flags
  <1>2. "fake hit" \in Figures!Flags(m, F) <=> Figures!FakeHit(m)
    BY DEF Figures!Flags
  <1>3. "ads" \in Figures!Flags(m, F) <=> Figures!AdEatsProfit(m)
    BY DEF Figures!Flags
  <1> QED
    BY <1>1, <1>2, <1>3

Flagged(F, flag) == {m \in F : flag \in Figures!Flags(m, F)}

\* The articles that earn most, as many as there are up to TopN.
LEMMA BestAre ==
  ASSUME NEW F, FiguresOK(F)
  PROVE  LET B == Flagged(F, "best")
         IN  /\ Cardinality(B) <= TopN
             /\ \A b \in B : b.net > 0
             /\ \A m \in F \ B : m.net > 0 => Cardinality(B) = TopN /\ \A b \in B : b.net >= m.net
  <1> DEFINE R == {p \in F \X F : p[1].net > p[2].net \/ (p[1].net = p[2].net /\ p[1].sku < p[2].sku)}
             S == {m \in F : m.net > 0}
             o == Ordered(S, R)
             c == Cardinality(S)
             B == Flagged(F, "best")
  <1>0. TopN \in Nat \ {0}
    BY HealthAssumption DEF Figures!HealthAssumption
  <1>1. /\ IsFiniteSet(F)
        /\ \A m \in F : m.net \in Int /\ m.sku \in Nat
        /\ \A m, n \in F : m.sku = n.sku => m = n
    BY DEF FiguresOK
  <1>2. S \in SUBSET F /\ IsFiniteSet(S) /\ \A m \in F : m \in S <=> m.net > 0
    BY <1>1, FS_Subset
  <1>3. \A i, j \in F : <<i, j>> \in R <=> i.net > j.net \/ (i.net = j.net /\ i.sku < j.sku)
    OBVIOUS
  <1>4. Figures!MostProfitable(F) = {o[i].sku : i \in DOMAIN o \cap 1..TopN}
    <2>1. Figures!MostProfitable(F) = LET w == Figures!Ordered(S, R) IN {w[i].sku : i \in DOMAIN w \cap 1..TopN}
      BY Zenon DEF Figures!MostProfitable
    <2> HIDE DEF S, R
    <2> QED
      BY <2>1, FiguresOrdered
  <1> HIDE DEF S, R
  <1>5. TotalOn(S, R)
    <2>1. \A i \in S : <<i, i>> \notin R
      BY <1>1, <1>2, <1>3
    <2>2. ASSUME NEW i \in S, NEW j \in S, NEW k \in S, <<i, j>> \in R, <<j, k>> \in R PROVE <<i, k>> \in R
      <3>1. i \in F /\ j \in F /\ k \in F
        BY <1>2
      <3> QED
        BY <1>1, <1>3, <2>2, <3>1
    <2>3. ASSUME NEW i \in S, NEW j \in S, i # j PROVE <<i, j>> \in R \/ <<j, i>> \in R
      <3>1. i \in F /\ j \in F
        BY <1>2
      <3>2. i.sku # j.sku
        BY <1>1, <2>3, <3>1
      <3> QED
        BY <1>1, <1>3, <3>1, <3>2
    <2> QED
      BY <2>1, <2>2, <2>3 DEF TotalOn
  <1>6. InOrderOf(o, S, R)
    BY <1>2, <1>5, OrderIs
  <1>7. /\ c \in Nat /\ o \in [1..c -> S]
        /\ \A a, b \in 1..c : a < b => <<o[a], o[b]>> \in R
        /\ \A a, b \in 1..c : o[a] = o[b] => a = b
        /\ \A i \in S : \E a \in 1..c : o[a] = i
    BY <1>6 DEF InOrderOf
  <1> DEFINE k == IF c < TopN THEN c ELSE TopN
  <1>8. k \in Nat /\ k <= TopN /\ k <= c /\ (c > TopN => k = TopN) /\ (k < TopN => k = c)
    BY <1>0, <1>7
  <1>9. DOMAIN o \cap 1..TopN = 1..k
    BY <1>0, <1>7
  <1> HIDE DEF k, c, o
  <1>10. B = {o[i] : i \in 1..k}
    <2>1. \A m \in F : m \in B <=> \E i \in 1..k : m.sku = o[i].sku
      BY <1>4, <1>9, FlagsMean DEF Flagged
    <2>2. \A i \in 1..k : o[i] \in F
      BY <1>2, <1>7, <1>8
    <2>3. \A m \in F : m \in B <=> \E i \in 1..k : m = o[i]
      BY <1>1, <2>1, <2>2
    <2>4. \A m \in B : m \in F
      BY DEF Flagged
    <2> HIDE DEF B
    <2> QED
      BY <2>2, <2>3, <2>4
  <1> HIDE DEF B
  <1>11. Cardinality(B) = k
    <2> DEFINE p == [i \in 1..k |-> o[i]]
    <2>1. \A i \in 1..k : p[i] = o[i] /\ i \in 1..c
      BY <1>7, <1>8
    <2>2. p \in [1..k -> B]
      BY <1>10
    <2> HIDE DEF p
    <2>3. (\A i, j \in 1..k : p[i] = p[j] => i = j) /\ \A m \in B : \E i \in 1..k : p[i] = m
      BY <1>7, <1>10, <2>1
    <2>4. p \in Bijection(1..k, B)
      BY <2>2, <2>3 DEF Bijection, Injection, Surjection, IsInjective
    <2>5. IsFiniteSet(1..k) /\ Cardinality(1..k) = k
      BY <1>8, FS_Interval
    <2> QED
      BY <2>4, <2>5, FS_Bijection DEF ExistsBijection
  <1>12. \A b \in B : b.net > 0
    BY <1>2, <1>7, <1>8, <1>10
  <1>13. ASSUME NEW m \in F \ B, m.net > 0
         PROVE  Cardinality(B) = TopN /\ \A b \in B : b.net >= m.net
    <2>1. m \in S
      BY <1>2, <1>13
    <2>2. PICK a \in 1..c : o[a] = m
      BY <1>7, <2>1
    <2>3. a > k /\ a <= c
      <3>1. a \notin 1..k
        BY <1>10, <2>2
      <3> QED
        BY <1>7, <1>8, <3>1
    <2>4. k = TopN
      BY <1>0, <1>7, <1>8, <2>3
    <2>5. ASSUME NEW b \in B PROVE b.net >= m.net
      <3>1. PICK i \in 1..k : o[i] = b
        BY <1>10
      <3>2. i \in 1..c /\ i < a
        BY <1>7, <1>8, <2>3
      <3>3. <<b, m>> \in R
        BY <1>7, <2>2, <3>1, <3>2
      <3>4. b \in F /\ m \in F
        BY <1>2, <1>7, <3>1, <3>2
      <3> QED
        BY <1>1, <1>3, <3>3, <3>4
    <2> QED
      BY <1>11, <2>4, <2>5
  <1> QED
    BY <1>0, <1>8, <1>11, <1>12, <1>13 DEF B

Flagging(m, F) == [metrics |-> m, flags |-> Figures!Flags(m, F)]
ReportOf(F) == {Flagging(m, F) : m \in F}

LEMMA ReportHas ==
  ASSUME NEW F, NEW skus, skus = ReportOf(F)
  PROVE  /\ {x.metrics : x \in skus} = F
         /\ \A flag : {x.metrics : x \in {y \in skus : flag \in y.flags}} = Flagged(F, flag)
  <1>1. \A m : Flagging(m, F).metrics = m /\ Flagging(m, F).flags = Figures!Flags(m, F)
    BY DEF Flagging
  <1>2. {x.metrics : x \in skus} = F
    BY <1>1 DEF ReportOf
  <1>3. \A flag : {x.metrics : x \in {y \in skus : flag \in y.flags}} = Flagged(F, flag)
    BY <1>1 DEF ReportOf, Flagged
  <1> QED
    BY <1>2, <1>3

\* A loss of an article that sells or is advertised is pointed out.
LEMMA LossFlagged ==
  ASSUME NEW F, FiguresOK(F), NEW m \in F, m.net < 0, m.revenue >= 0, m.units >= HitUnits \/ m.ads > 0
  PROVE  m \in Flagged(F, "fake hit") \cup Flagged(F, "ads")
  <1>1. m.net \in Int /\ m.revenue \in Int /\ m.ads \in Int /\ m.units \in Int
    BY DEF FiguresOK
  <1>2. HitMargin \in Nat \ {0} /\ HitUnits \in Nat \ {0}
    BY HealthAssumption DEF Figures!HealthAssumption
  <1>3. CASE m.ads > 0
    <2>1. Figures!AdEatsProfit(m)
      BY <1>1, <1>3 DEF Figures!AdEatsProfit
    <2> QED
      BY <2>1, FlagsMean DEF Flagged
  <1>4. CASE m.units >= HitUnits
    <2>1. Figures!Below(m.net, m.revenue, HitMargin)
      <3> DEFINE net == m.net
                 whole == m.revenue
      <3>1. net \in Int /\ whole \in Int /\ net < 0 /\ whole >= 0
        BY <1>1
      <3> HIDE DEF net, whole
      <3>2. Figures!Below(net, whole, HitMargin)
        <4>1. CASE whole > 0
          <5>1. HitMargin * whole > 0
            BY <1>2, <3>1, <4>1
          <5>2. net * 100 < 0
            BY <3>1
          <5>3. net * 100 < HitMargin * whole
            BY <1>2, <3>1, <5>1, <5>2
          <5>4. whole > 0 /\ ~(whole < 0)
            BY <3>1, <4>1
          <5> QED
            BY <5>3, <5>4, Zenon DEF Figures!Below
        <4>2. CASE whole = 0
          <5>1. ~(whole > 0) /\ ~(whole < 0) /\ 0 < HitMargin
            BY <1>2, <4>2
          <5> QED
            BY <5>1 DEF Figures!Below
        <4> QED
          BY <3>1, <4>1, <4>2
      <3> QED
        BY <3>2 DEF net, whole
    <2>2. Figures!FakeHit(m)
      BY <1>4, <2>1 DEF Figures!FakeHit
    <2> QED
      BY <2>2, FlagsMean DEF Flagged
  <1> QED
    BY <1>3, <1>4

-----------------------------------------------------------------------------
(* The report of a run.                                                      *)

FigureInv ==
  /\ health.files \in Requests
  /\ health.skus = IF health.result = "report" THEN ReportOf(Figures!ComputeProfit(Figures!Tables)) ELSE {}

LEMMA RowsTyped ==
  ASSUME NEW files \in Requests, NEW i \in DOMAIN files, Figures!RoleOf(files[i].words) \in Figures!Roles
  PROVE  files[i].rows \in Seq(Figures!RowsOf[Figures!RoleOf(files[i].words)])
  <1>1. files[i] \in Figures!ToSet(files)
    BY DEF Figures!ToSet
  <1> QED
    BY <1>1, HealthAssumption DEF Figures!HealthAssumption

LEMMA SeqHas == \A R : \A s \in Seq(R) : IsList(s) /\ \A i \in DOMAIN s : s[i] \in R
  <1> SUFFICES ASSUME NEW R, NEW s \in Seq(R) PROVE IsList(s) /\ \A i \in DOMAIN s : s[i] \in R
    OBVIOUS
  <1>1. Len(s) \in Nat /\ DOMAIN s = 1..Len(s) /\ s = [i \in DOMAIN s |-> s[i]] /\ \A i \in DOMAIN s : s[i] \in R
    OBVIOUS
  <1> QED
    BY <1>1, ListIs

LEMMA TablesTyped ==
  ASSUME UploadInv, FigureInv, health.stage = "run" \/ health.result = "report"
  PROVE  TablesOK(Figures!Tables)
  <1> DEFINE t == Figures!Tables
  <1>1. LastOfRoles(health.disk, health.files, Len(health.files))
    BY DEF UploadInv
  <1>2. Len(health.files) \in Nat /\ DOMAIN health.files = 1..Len(health.files)
    BY ListHas DEF UploadInv
  <1>3. ASSUME NEW r \in Figures!Roles PROVE t[r] \in Seq(Figures!RowsOf[r])
    <2>1. t[r] = IF r \in DOMAIN health.disk THEN health.disk[r].rows ELSE <<>>
      BY DEF Figures!Tables, Figures!Table
    <2>2. CASE r \in DOMAIN health.disk
      <3> DEFINE S == RolePlaces(health.files, r, Len(health.files))
                 last == Figures!Max(S)
      <3>1. S # {} /\ health.disk[r] = health.files[last]
        BY <1>1, <2>2 DEF LastOfRoles
      <3>2. S \in SUBSET (1..Len(health.files)) /\ \A i \in S : Figures!RoleOf(health.files[i].words) = r
        BY DEF RolePlaces
      <3> HIDE DEF S
      <3>3. last \in S
        BY <1>2, <3>1, <3>2, MaxIs
      <3> HIDE DEF last
      <3>4. health.files[last].rows \in Seq(Figures!RowsOf[r])
        BY <1>2, <3>2, <3>3, RowsTyped DEF FigureInv
      <3> QED
        BY <2>1, <2>2, <3>1, <3>4
    <2>3. CASE r \notin DOMAIN health.disk
      <3>1. t[r] = <<>>
        BY <2>1, <2>3
      <3> QED
        BY <3>1
    <2> QED
      BY <2>2, <2>3
  <1> HIDE DEF t
  <1>4. t.sales \in Seq([sku : Nat, status : STRING, paid : Int, units : Int])
    BY <1>3 DEF Figures!Roles, Figures!RowsOf
  <1>5. t.cost \in Seq([sku : Nat, unit : Int])
    BY <1>3 DEF Figures!Roles, Figures!RowsOf
  <1>6. t.ads \in Seq([kind : STRING, block : STRING, sku : Nat, spend : Int])
    BY <1>3 DEF Figures!Roles, Figures!RowsOf
  <1>7. t.returns \in Seq([sku : Nat, status : STRING, amount : Int])
    BY <1>3 DEF Figures!Roles, Figures!RowsOf
  <1>8. IsList(t.sales) /\ \A i \in DOMAIN t.sales : t.sales[i] \in [sku : Nat, status : STRING, paid : Int, units : Int]
    BY <1>4, SeqHas
  <1>9. IsList(t.cost) /\ \A i \in DOMAIN t.cost : t.cost[i] \in [sku : Nat, unit : Int]
    BY <1>5, SeqHas
  <1>10. IsList(t.ads) /\ \A i \in DOMAIN t.ads : t.ads[i] \in [kind : STRING, block : STRING, sku : Nat, spend : Int]
    BY <1>6, SeqHas
  <1>11. IsList(t.returns) /\ \A i \in DOMAIN t.returns : t.returns[i] \in [sku : Nat, status : STRING, amount : Int]
    BY <1>7, SeqHas
  <1>12. \A i \in DOMAIN t.sales : /\ t.sales[i].sku \in Nat /\ t.sales[i]["paid"] \in Int /\ t.sales[i]["units"] \in Int
                                   /\ DOMAIN t.sales[i] = SaleFields
    BY <1>8 DEF SaleFields
  <1>13. \A i \in DOMAIN t.cost : t.cost[i].sku \in Nat /\ t.cost[i]["unit"] \in Int
    BY <1>9
  <1>14. \A i \in DOMAIN t.ads : t.ads[i].sku \in Nat /\ t.ads[i]["spend"] \in Int /\ DOMAIN t.ads[i] = LineFields
    BY <1>10 DEF LineFields
  <1>15. \A i \in DOMAIN t.returns : /\ t.returns[i].sku \in Nat /\ t.returns[i]["amount"] \in Int
                                     /\ DOMAIN t.returns[i] = ReturnFields
    BY <1>11 DEF ReturnFields
  <1>16. TablesOK(t)
    BY <1>8, <1>9, <1>10, <1>11, <1>12, <1>13, <1>14, <1>15 DEF TablesOK
  <1> QED
    BY <1>16 DEF t

LEMMA FigureInit == health \in Figures!Checks => FigureInv
  <1> SUFFICES ASSUME health \in Figures!Checks PROVE FigureInv
    OBVIOUS
  <1>1. PICK files \in Requests : health = Figures!Health(files)
    BY DEF Figures!Checks
  <1>2. health.files = files /\ health.skus = {} /\ health.result = "none"
    BY <1>1 DEF Figures!Health
  <1> QED
    BY <1>2 DEF FigureInv

LEMMA FigureKeeps == UploadInv /\ FigureInv /\ Figures!HealthNext => FigureInv'
  <1> SUFFICES ASSUME UploadInv, FigureInv, Figures!HealthNext PROVE FigureInv'
    OBVIOUS
  <1>1. DOMAIN health = HealthFields /\ (health.stage # "ended" => health.result = "none")
    BY DEF UploadInv
  <1>2. CASE Figures!Report
    <2>1. /\ health'.files = health.files /\ health'.disk = health.disk /\ health'.result = "report"
          /\ health'.skus = ReportOf(Figures!ComputeProfit(Figures!Tables))
      BY <1>1, <1>2 DEF Figures!Report, Figures!AtStage, HealthFields, ReportOf, Flagging
    <2>2. Figures!Tables' = Figures!Tables
      BY <2>1 DEF Figures!Tables, Figures!Table
    <2> QED
      BY <2>1, <2>2 DEF FigureInv
  <1>3. CASE ~Figures!Report
    <2>1. /\ health.stage # "ended" /\ health'.files = health.files /\ health'.skus = health.skus
          /\ health'.result # "report"
      <3>1. CASE Figures!TakeFile
        BY <1>1, <3>1 DEF Figures!TakeFile, Figures!AtStage, HealthFields
      <3>2. CASE Figures!RefuseFile
        BY <1>1, <3>2 DEF Figures!RefuseFile, Figures!AtStage, Figures!Fails, HealthFields
      <3>3. CASE Figures!RefuseUpload
        BY <1>1, <3>3 DEF Figures!RefuseUpload, Figures!AllRead, Figures!AtStage, Figures!Fails, HealthFields
      <3>4. CASE Figures!WriteFiles
        BY <1>1, <3>4 DEF Figures!WriteFiles, Figures!AllRead, Figures!AtStage, HealthFields
      <3>5. CASE Figures!WriteRaises
        BY <1>1, <3>5 DEF Figures!WriteRaises, Figures!AllRead, Figures!AtStage, HealthFields
      <3>6. CASE Figures!MissingFile
        BY <1>1, <3>6 DEF Figures!MissingFile, Figures!AtStage, Figures!Fails, HealthFields
      <3> QED
        BY <1>3, <3>1, <3>2, <3>3, <3>4, <3>5, <3>6 DEF Figures!HealthNext
    <2> QED
      BY <1>1, <2>1 DEF FigureInv
  <1> QED
    BY <1>2, <1>3

LEMMA OwnIs == \A sku : Figures!OfSku(sku) = TakenOut(Figures!Tables, sku)
  <1>1. \A s, P : Figures!Selected(s, P) = Selected(s, P)
    BY Zenon DEF Figures!Selected, Selected, Figures!Ordered, Ordered, Figures!Cardinality, Cardinality
  <1> QED
    BY <1>1 DEF Figures!OfSku, TakenOut

LEMMA RealIs == Figures!Realised = Real(Figures!Tables)
  BY Zenon DEF Figures!Realised, Real, RealSales, RealAds, RealReturns

\* The figures of a report are those of the tables and have the flags they ask for.
LEMMA FiguresRight == UploadInv /\ FigureInv => Figures!FiguresAreOwn /\ Figures!FlagsAreRight
  <1> SUFFICES ASSUME UploadInv, FigureInv PROVE Figures!FiguresAreOwn /\ Figures!FlagsAreRight
    OBVIOUS
  <1> DEFINE t == Figures!Tables
             F == Figures!ComputeProfit(t)
  <1>1. CASE health.result = "report"
    <2>1. TablesOK(t)
      BY <1>1, TablesTyped
    <2>2. health.skus = ReportOf(F)
      BY <1>1 DEF FigureInv
    <2>3. /\ Figures!Figures = F
          /\ \A flag : {x.metrics : x \in {y \in health.skus : flag \in y.flags}} = Flagged(F, flag)
      <3> HIDE DEF F
      <3> QED
        BY <2>2, ReportHas DEF Figures!Figures
    <2>4. ASSUME NEW m \in F PROVE Figures!ComputeProfit(Figures!OfSku(m.sku)) = {m}
      <3>1. PICK i \in Figures!Sold(t) : m = Figures!Metrics(t, t.sales[i].sku)
        BY DEF Figures!ComputeProfit
      <3> HIDE DEF t
      <3>2. m.sku = t.sales[i].sku
        BY <3>1, FieldsOf
      <3>3. Figures!ComputeProfit(TakenOut(t, m.sku)) = {m}
        BY <2>1, <3>1, <3>2, OwnProfit
      <3> QED
        BY <3>3, OwnIs DEF t
    <2>5. F = Figures!ComputeProfit(Figures!Realised)
      BY <2>1, RealProfit, RealIs
    <2>6. Figures!SumFunction([m \in F |-> m.revenue]) = Figures!Total(t.sales, Figures!Sold(t), "paid")
      BY <2>1, RevenueSum
    <2>7. FiguresOK(F)
      BY <2>1, FiguresTyped
    <2>8. Figures!FiguresAreOwn
      <3> HIDE DEF F
      <3>1. /\ \A m \in F : Figures!ComputeProfit(Figures!OfSku(m.sku)) = {m}
            /\ F = Figures!ComputeProfit(Figures!Realised)
            /\ Figures!SumFunction([m \in F |-> m.revenue]) = Figures!Total(t.sales, Figures!Sold(t), "paid")
        BY <2>4, <2>5, <2>6
      <3> QED
        BY <2>3, <3>1, Zenon DEF Figures!FiguresAreOwn
    <2>9. Figures!FlagsAreRight
      <3> DEFINE Has(f) == {x.metrics : x \in {y \in health.skus : f \in y.flags}}
      <3> HIDE DEF F
      <3>1. Has("best") = Flagged(F, "best") /\ Has("fake hit") = Flagged(F, "fake hit")
            /\ Has("ads") = Flagged(F, "ads")
        BY <2>3
      <3> HIDE DEF Has
      <3>2. /\ Figures!Cardinality(Has("best")) <= TopN
            /\ \A b \in Has("best") : b.net > 0
            /\ \A m \in Figures!Figures \ Has("best") : m.net > 0 =>
                 Figures!Cardinality(Has("best")) = TopN /\ \A b \in Has("best") : b.net >= m.net
        BY <2>3, <2>7, <3>1, BestAre, FiguresSizes
      <3>3. \A m \in Figures!Figures : m.net < 0 /\ m.revenue >= 0 /\ (m.units >= HitUnits \/ m.ads > 0) =>
              m \in Has("fake hit") \cup Has("ads")
        BY <2>3, <2>7, <3>1, LossFlagged
      <3> QED
        BY <3>2, <3>3, Zenon DEF Figures!FlagsAreRight, Has
    <2> QED
      BY <2>8, <2>9
  <1>2. CASE health.result # "report"
    <2>1. health.skus = {}
      BY <1>2 DEF FigureInv
    <2>2. Figures!FiguresAreOwn
      BY <1>2 DEF Figures!FiguresAreOwn
    <2>3. Figures!Figures = {} /\ \A flag : {x.metrics : x \in {y \in health.skus : flag \in y.flags}} = {}
      BY <2>1 DEF Figures!Figures
    <2>4. Figures!Cardinality({}) = 0 /\ TopN \in Nat
      BY FS_EmptySet, FiguresSizes, HealthAssumption DEF Figures!HealthAssumption
    <2>5. Figures!FlagsAreRight
      BY <2>3, <2>4 DEF Figures!FlagsAreRight
    <2> QED
      BY <2>2, <2>5
  <1> QED
    BY <1>1, <1>2

-----------------------------------------------------------------------------
(* The theorems.                                                             *)

\* The sellers of a search are the first of their shops, it is cut short only by its
\* budget or by blocked pages in a row, and no shop of a page that has loaded is missed:
\* for any market, limit and throttle.
THEOREM ShopsAreRightAlways == CollectSpec => []Shops!ShopsAreRight
  <1>1. CollectInit => ShopInv
    <2>1. (CHOOSE s \in Shops!Searches : TRUE) \in Shops!Searches
      <3>1. PICK m \in Markets, l \in Limits : TRUE
        BY ShopAssumption DEF Shops!ShopAssumption
      <3>2. [stage |-> "session", market |-> m, limit |-> l, session |-> TRUE, known |-> TRUE, page |-> 0,
             passes |-> 0, products |-> <<>>, tried |-> <<>>, at |-> 0, sellers |-> <<>>,
             result |-> "none"] \in Shops!Searches
        BY DEF Shops!Searches
      <3> QED
        BY <3>2
    <2> QED
      BY <2>1, ShopInit DEF CollectInit
  <1>2. ShopInv /\ [CollectNext]_collectVars => ShopInv'
    <2>1. UNCHANGED shop => (ShopInv' <=> ShopInv)
      BY DEF ShopInv, ShopTypes, Searching, SoldInv, ApiInv, OffersRead, ReadThrough, Selling, StopInv,
             LoadedInv, Loaded, Shops!MaxSearchPages, Shops!Enough
    <2> QED
      BY <2>1, ShopKeeps DEF CollectNext, LeadStep, ShopStep, HealthStep, MailStep, collectVars
  <1>3. ShopInv => Shops!ShopsAreRight
    BY SellersFirst, StopsRight, LoadedRight DEF Shops!ShopsAreRight
  <1> QED
    BY <1>1, <1>2, <1>3, PTL DEF CollectSpec

\* The figures of an article depend on nothing but its own rows, whatever their order,
\* and on no sale or return that was not realised; nothing that was paid is left out or
\* counted twice; the best articles are those that earn most, and a loss is pointed out:
\* for any request of any files.
THEOREM FiguresAreRightAlways == CollectSpec => [](Figures!FiguresAreOwn /\ Figures!FlagsAreRight)
  <1>1. CollectInit => UploadInv /\ FigureInv
    <2>1. Requests # {}
      BY HealthAssumption DEF Figures!HealthAssumption
    <2>2. Figures!Checks # {}
      BY <2>1 DEF Figures!Checks
    <2>3. (CHOOSE h \in Figures!Checks : TRUE) \in Figures!Checks
      BY <2>2
    <2> QED
      BY <2>3, UploadInit, FigureInit DEF CollectInit
  <1>2. UploadInv /\ FigureInv /\ [CollectNext]_collectVars => (UploadInv /\ FigureInv)'
    <2>1. UNCHANGED health => (UploadInv' <=> UploadInv)
      BY DEF UploadInv
    <2>2. UNCHANGED health => (FigureInv' <=> FigureInv)
      BY DEF FigureInv, Figures!Tables, Figures!Table
    <2> QED
      BY <2>1, <2>2, UploadKeeps, FigureKeeps
         DEF CollectNext, LeadStep, ShopStep, HealthStep, MailStep, collectVars
  <1> QED
    BY <1>1, <1>2, FiguresRight, PTL DEF CollectSpec

\* All of it together.
THEOREM CollectedIsRightAlways == CollectSpec => []CollectedIsRight
  <1>1. /\ ReadingsAreRight /\ Shops!ShopsAreRight /\ Figures!UploadIsWhole
        /\ Figures!FiguresAreOwn /\ Figures!FlagsAreRight /\ Mail!MailIsCounted
        => CollectedIsRight
    BY DEF CollectedIsRight, Figures!HealthIsRight
  <1> QED
    BY <1>1, ReadingsAreRightAlways, ShopsAreRightAlways, UploadIsWholeAlways, FiguresAreRightAlways,
       MailIsCountedAlways, PTL
=============================================================================
