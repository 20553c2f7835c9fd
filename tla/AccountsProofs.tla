--------------------------- MODULE AccountsProofs ---------------------------
(* Proofs about Accounts: the sign-ins through a provider and the requests of *)
(* administrators, for any number of accounts, identities and threads.       *)
EXTENDS Accounts, FiniteSetTheorems, WellFoundedInduction, TLAPS

-----------------------------------------------------------------------------
(* Least and greatest elements, by well-founded orders: what Min and Max     *)
(* choose exists.                                                            *)

LEMMA LeastNat ==
  ASSUME NEW S \in SUBSET Nat, S # {}
  PROVE  \E m \in S : \A n \in S : m <= n
  <1> DEFINE R == OpToRel(<, Nat)
  <1>1. PICK m \in S : \A n \in S : ~(<<n, m>> \in R)
    <2>1. IsWellFoundedOn(R, Nat)
      BY NatLessThanWellFounded
    <2> HIDE DEF R
    <2> QED
      BY <2>1, WFMin
  <1>2. \A n \in Nat : n < m => <<n, m>> \in R
    BY DEF OpToRel
  <1> HIDE DEF R
  <1>3. \A n \in S : ~(n < m)
    BY <1>1, <1>2, Zenon
  <1> QED
    BY <1>3

\* A finite set of numbers is bounded: a smallest unbounded subset would lose
\* an element and still be unbounded.
LEMMA FiniteBounded ==
  ASSUME NEW S \in SUBSET Nat, IsFiniteSet(S)
  PROVE  \E b \in Nat : \A n \in S : n <= b
  <1> DEFINE Bounded(T) == \E b \in Nat : \A n \in T : n <= b
             Unbounded == {T \in SUBSET S : ~Bounded(T)}
             R == StrictSubsetOrdering(S)
  <1> SUFFICES ASSUME Unbounded # {} PROVE FALSE
    OBVIOUS
  <1>1. IsWellFoundedOn(R, SUBSET S)
    BY FS_StrictSubsetOrderingWellFounded, FS_FiniteSubsetsOfFinite, Zenon
  <1>2. PICK T \in Unbounded : \A U \in Unbounded : ~(<<U, T>> \in R)
    <2>1. Unbounded \subseteq SUBSET S
      OBVIOUS
    <2> HIDE DEF Unbounded, R
    <2> QED
      BY <1>1, <2>1, WFMin, Zenon
  <1>3. PICK x : x \in T
    OBVIOUS
  <1>4. <<T \ {x}, T>> \in R
    BY <1>3 DEF StrictSubsetOrdering
  <1>5. PICK b \in Nat : \A n \in T \ {x} : n <= b
    BY <1>2, <1>4
  <1>6. x \in Nat /\ T \subseteq Nat
    BY <1>3
  <1>7. CASE x <= b
    BY <1>5, <1>6, <1>7
  <1>8. CASE ~(x <= b)
    <2>1. \A n \in T : n <= x
      BY <1>5, <1>6, <1>8
    <2> QED
      BY <1>6, <2>1
  <1> QED
    BY <1>6, <1>7, <1>8

LEMMA MinExists ==
  ASSUME NEW S \in SUBSET Nat, S # {}
  PROVE  Min(S) \in S
  BY LeastNat DEF Min

\* The greatest element is the least bound.
LEMMA MaxExists ==
  ASSUME NEW S \in SUBSET Nat, S # {}, IsFiniteSet(S)
  PROVE  Max(S) \in S /\ \A n \in S : n <= Max(S)
  <1> DEFINE B == {b \in Nat : \A n \in S : n <= b}
  <1>1. PICK m \in B : \A b \in B : m <= b
    BY FiniteBounded, LeastNat
  <1>2. m \in S
    <2> SUFFICES ASSUME m \notin S PROVE FALSE
      OBVIOUS
    <2>1. \A n \in S : n \in Nat /\ n <= m - 1 /\ m - 1 \in Nat
      BY <1>1
    <2>2. m - 1 \in B
      BY <2>1
    <2> QED
      BY <1>1, <2>2
  <1>3. \A n \in S : n \in Nat /\ m >= n
    BY <1>1
  <1> QED
    BY <1>2, <1>3 DEF Max

\* A rowid given out is not in use.
LEMMA NextIdIsFree == NextId \notin Ids
  <1>1. Ids \in SUBSET UserIds /\ UserIds \subseteq Nat /\ IsFiniteSet(UserIds)
    BY SsoAssumption DEF Ids
  <1>2. CASE Ids = {}
    BY <1>2
  <1>3. CASE Ids # {}
    <2>1. Max(Ids) \in Ids /\ \A n \in Ids : n \in Nat /\ n <= Max(Ids)
      BY <1>1, <1>3, FS_Subset, MaxExists
    <2> QED
      BY <1>3, <2>1 DEF NextId
  <1> QED
    BY <1>2, <1>3

\* _unique_username returns a username that nobody has.
LEMMA UniqueUsernameIsFree ==
  ASSUME NEW base \in Locals, NEW n \in 1 .. MaxSuffix, [base |-> base, suffix |-> n] \notin Taken
  PROVE  UniqueUsername(base) \in Slug \ Taken
  <1> DEFINE S == {m \in 1 .. MaxSuffix : [base |-> base, suffix |-> m] \notin Taken}
  <1>1. S \in SUBSET Nat /\ S # {}
    BY SsoAssumption
  <1>2. Min(S) \in S
    BY <1>1, MinExists
  <1> QED
    BY <1>2 DEF UniqueUsername, Slug

-----------------------------------------------------------------------------
(* The inductive invariant: what the callback under way will write is still  *)
(* right when it commits, whatever the administrators do meanwhile.          *)

ChangeType == [id : UserIds, link : Identities \cup {None}, email : Address \cup {None}]
InsertType == [id : {0}, row : Row]

\* The identity it will link is linked to nobody, and the row it will link has
\* no link.
PendingLinkIsFree ==
  pending # None =>
    /\ pending.id = 0 =>
         \A id \in Ids : users[id].link # None => users[id].link # pending.row.link
    /\ pending.id # 0 /\ pending.link # None =>
         /\ \A id \in Ids : users[id].link # pending.link
         /\ pending.id \in Ids => users[pending.id].link = None

\* The link and the address the row will have when it is committed.
LinkAfter == IF pending.link = None THEN users[pending.id].link ELSE pending.link

PendingEmailIsVouched ==
  pending # None /\ ~astray =>
    /\ pending.id = 0 /\ pending.row.email # None =>
         <<pending.row.link, pending.row.email>> \in vouched
    /\ pending.id # 0 =>
         /\ pending.id \in Ids
         /\ pending.email # None => <<LinkAfter, pending.email>> \in vouched

SsoInv == IdentitiesAreOwn /\ PendingLinkIsFree /\ PendingEmailIsVouched

\* Without a link there is no address.
LEMMA UnlinkedHasNoEmail ==
  ASSUME SsoInv, ~astray, NEW id \in Ids, users[id].link = None
  PROVE  users[id].email = None
  BY SsoAssumption DEF SsoInv, IdentitiesAreOwn, TypeOK, EmailIsVouched

LEMMA PendingTypes ==
  ASSUME TypeOK, pending # None
  PROVE  /\ pending.id = 0 => pending \in InsertType
         /\ pending.id # 0 => pending \in ChangeType
  BY SsoAssumption DEF TypeOK, InsertType, ChangeType

LEMMA RowTypes ==
  ASSUME TypeOK, NEW id \in Ids
  PROVE  id \in UserIds /\ users[id] \in Row /\ users[id] # None
  BY DEF TypeOK, Ids

\* A sign-in decides.
LEMMA ResolveKeeps ==
  ASSUME SsoInv, NEW identity \in Identities, NEW email \in Address \cup {None},
         NEW verified \in BOOLEAN, NEW base \in Locals, Resolve(identity, email, verified, base)
  PROVE  SsoInv'
  <1> DEFINE trusted == Trusted(email, verified)
             existing == IF trusted = None THEN {} ELSE Matching(trusted)
             Good == /\ pending' \in {None} \cup ChangeType \cup InsertType
                     /\ PendingLinkIsFree' /\ PendingEmailIsVouched'
  <1>1. /\ TypeOK /\ UNCHANGED <<users, astray>> /\ Ids' = Ids
        /\ vouched \subseteq vouched' /\ vouched' \subseteq Identities \X Address
        /\ trusted \in Address \cup {None}
        /\ trusted # None => <<identity, trusted>> \in vouched'
    BY DEF SsoInv, IdentitiesAreOwn, TypeOK, Resolve, Trusted, Ids
  <1>2. Good
    <2>1. ASSUME NEW id \in Linked(identity), pending' = Kept(id, Found(id, trusted))
          PROVE  Good
      <3>1. id \in Ids /\ users[id].link = identity /\ id \in UserIds /\ id # 0
        BY <1>1, <2>1, SsoAssumption DEF Linked, Ids
      <3>2. CASE pending' = None
        BY <3>2 DEF PendingLinkIsFree, PendingEmailIsVouched
      <3>3. CASE pending' = Found(id, trusted)
        <4>1. /\ pending'.id = id /\ pending'.link = None
              /\ pending'.email \in {None, trusted}
              /\ pending' \in ChangeType
          BY <1>1, <3>1, <3>3 DEF Found, Change, ChangeType
        <4>2. PendingLinkIsFree'
          BY <3>1, <4>1 DEF PendingLinkIsFree
        <4>3. PendingEmailIsVouched'
          BY <1>1, <3>1, <4>1 DEF PendingEmailIsVouched, LinkAfter
        <4> QED
          BY <4>1, <4>2, <4>3
      <3> QED
        BY <2>1, <3>2, <3>3 DEF Kept
    <2>2. ASSUME NEW id \in existing, Linked(identity) = {}, Attachable(id),
                 pending' = Kept(id, Attach(id, identity, trusted))
          PROVE  Good
      <3>1. id \in Ids /\ users[id].link = None /\ id \in UserIds /\ id # 0
        BY <1>1, <2>2, SsoAssumption DEF Matching, Ids, Attachable
      <3>2. CASE pending' = None
        BY <3>2 DEF PendingLinkIsFree, PendingEmailIsVouched
      <3>3. CASE pending' = Attach(id, identity, trusted)
        <4>1. /\ pending'.id = id /\ pending'.link = identity
              /\ pending'.email \in {None, trusted}
              /\ pending' \in ChangeType
          BY <1>1, <3>1, <3>3 DEF Attach, Change, ChangeType
        <4>2. \A j \in Ids : users[j].link # identity
          BY <2>2 DEF Linked
        <4>3. PendingLinkIsFree'
          BY <1>1, <3>1, <4>1, <4>2 DEF PendingLinkIsFree
        <4>4. PendingEmailIsVouched'
          BY <1>1, <3>1, <4>1, SsoAssumption DEF PendingEmailIsVouched, LinkAfter
        <4> QED
          BY <4>1, <4>3, <4>4
      <3> QED
        BY <2>2, <3>2, <3>3 DEF Kept
    <2>3. ASSUME Linked(identity) = {}, NEW n \in 1 .. MaxSuffix,
                 [base |-> base, suffix |-> n] \notin Taken,
                 pending' = Insert(UniqueUsername(base), trusted, identity)
          PROVE  Good
      <3>1. UniqueUsername(base) \in Username
        BY <2>3, UniqueUsernameIsFree DEF Username
      <3>2. /\ pending'.id = 0 /\ pending'.row.link = identity /\ pending'.row.email = trusted
            /\ pending' \in InsertType
        BY <1>1, <2>3, <3>1 DEF Insert, InsertType, Row
      <3>3. \A j \in Ids : users[j].link # identity
        BY <2>3 DEF Linked
      <3> QED
        BY <1>1, <3>2, <3>3 DEF PendingLinkIsFree, PendingEmailIsVouched
    <2> QED
      BY <2>1, <2>2, <2>3 DEF Resolve
  <1>3. IdentitiesAreOwn'
    BY <1>1, <1>2 DEF SsoInv, IdentitiesAreOwn, TypeOK, OneAccountPerIdentity, EmailIsVouched,
                      ChangeType, InsertType
  <1> QED
    BY <1>2, <1>3 DEF SsoInv

\* The commit of a sign-in to an account found.
LEMMA CommitChangeKeeps ==
  ASSUME SsoInv, CommitChange
  PROVE  SsoInv'
  <1>1. /\ TypeOK /\ pending # None /\ pending.id \in Ids /\ pending' = None
        /\ users' = [users EXCEPT ![pending.id] = Written(@, pending)]
        /\ UNCHANGED <<vouched, astray>>
    BY DEF SsoInv, IdentitiesAreOwn, CommitChange
  <1>2. pending \in ChangeType /\ pending.id # 0
    BY <1>1, PendingTypes, SsoAssumption DEF Ids
  <1>3. users[pending.id] \in Row /\ users[pending.id] # None
    BY <1>1, RowTypes
  <1>4. /\ Written(users[pending.id], pending) \in Row
        /\ Written(users[pending.id], pending).link = LinkAfter
        /\ Written(users[pending.id], pending).email =
             IF pending.email = None THEN users[pending.id].email ELSE pending.email
    BY <1>2, <1>3 DEF Row, Written, ChangeType, LinkAfter
  <1>5. /\ users'[pending.id] \in Row
        /\ users'[pending.id].link = LinkAfter
        /\ users'[pending.id].email =
             IF pending.email = None THEN users[pending.id].email ELSE pending.email
        /\ \A id \in UserIds : id # pending.id => users'[id] = users[id]
        /\ pending.id \in UserIds
    BY <1>1, <1>2, <1>4 DEF TypeOK, ChangeType
  <1>6. /\ \A id \in Ids' : id \in UserIds /\ users'[id] # None
        /\ \A id \in Ids' : id # pending.id => id \in Ids /\ users'[id] = users[id]
    BY <1>5 DEF Ids
  <1>7. TypeOK'
    BY <1>1, <1>4 DEF TypeOK
  <1>8. OneAccountPerIdentity'
    <2>1. \A i \in Ids : i # pending.id /\ LinkAfter # None => users[i].link # LinkAfter
      BY <1>1, <1>2 DEF SsoInv, IdentitiesAreOwn, OneAccountPerIdentity, PendingLinkIsFree, LinkAfter
    <2> QED
      BY <1>5, <1>6, <2>1 DEF SsoInv, IdentitiesAreOwn, OneAccountPerIdentity
  <1>9. EmailIsVouched'
    <2> SUFFICES ASSUME NEW id \in Ids', users'[id].email # None, ~astray
                 PROVE  <<users'[id].link, users'[id].email>> \in vouched
      BY <1>1 DEF EmailIsVouched
    <2>1. CASE id # pending.id
      BY <1>6, <2>1 DEF SsoInv, IdentitiesAreOwn, EmailIsVouched
    <2>2. CASE id = pending.id /\ pending.email # None
      BY <1>1, <1>2, <1>5, <2>2 DEF SsoInv, PendingEmailIsVouched
    <2>3. CASE id = pending.id /\ pending.email = None
      <3>1. users[id].email # None /\ <<users[id].link, users[id].email>> \in vouched
        BY <1>1, <1>5, <2>3 DEF SsoInv, IdentitiesAreOwn, EmailIsVouched
      <3>2. users[id].link # None
        BY <1>1, <2>3, <3>1, UnlinkedHasNoEmail
      <3>3. LinkAfter = users[id].link
        BY <1>1, <1>2, <2>3, <3>2 DEF SsoInv, PendingLinkIsFree, LinkAfter
      <3> QED
        BY <1>5, <2>3, <3>1, <3>3
    <2> QED
      BY <2>1, <2>2, <2>3
  <1> QED
    BY <1>1, <1>7, <1>8, <1>9 DEF SsoInv, IdentitiesAreOwn, PendingLinkIsFree, PendingEmailIsVouched

\* A row put under a free rowid, with a link nobody else has and an address
\* vouched for.
LEMMA InsertKeeps ==
  ASSUME IdentitiesAreOwn, NEW row \in Row, NextId \in UserIds, UNCHANGED <<vouched, astray>>,
         users' = [users EXCEPT ![NextId] = row],
         row.link # None => \A id \in Ids : users[id].link # row.link,
         row.email # None /\ ~astray => <<row.link, row.email>> \in vouched,
         pending' \in {None, pending}
  PROVE  /\ IdentitiesAreOwn'
         /\ Ids \subseteq Ids' /\ Ids' \subseteq Ids \cup {NextId} /\ users'[NextId] = row
         /\ \A id \in Ids : id # NextId /\ users'[id] = users[id]
  <1>1. NextId \notin Ids
    BY NextIdIsFree
  <1>2. /\ users'[NextId] = row
        /\ \A id \in UserIds : id # NextId => users'[id] = users[id]
        /\ TypeOK'
    BY DEF IdentitiesAreOwn, TypeOK
  <1> HIDE DEF NextId
  <1>3. Ids \subseteq Ids' /\ Ids' \subseteq Ids \cup {NextId} /\ \A id \in Ids : id # NextId /\ users'[id] = users[id]
    BY <1>1, <1>2 DEF Ids
  <1>4. OneAccountPerIdentity'
    BY <1>2, <1>3 DEF IdentitiesAreOwn, OneAccountPerIdentity
  <1>5. EmailIsVouched'
    BY <1>2, <1>3 DEF IdentitiesAreOwn, EmailIsVouched
  <1> QED
    BY <1>2, <1>3, <1>4, <1>5 DEF IdentitiesAreOwn

\* The commit of a sign-in with a new account.
LEMMA CommitInsertKeeps ==
  ASSUME SsoInv, CommitInsert
  PROVE  SsoInv'
  <1>1. pending \in InsertType /\ pending # None /\ pending' = None
    BY PendingTypes DEF SsoInv, IdentitiesAreOwn, CommitInsert
  <1>2. IdentitiesAreOwn'
    <2>1. /\ pending.row \in Row /\ pending.id = 0
      BY <1>1, SsoAssumption DEF InsertType
    <2> QED
      BY <1>1, <2>1, InsertKeeps DEF SsoInv, CommitInsert, PendingLinkIsFree, PendingEmailIsVouched
  <1> QED
    BY <1>1, <1>2 DEF SsoInv, PendingLinkIsFree, PendingEmailIsVouched

\* An administrator creates an account: it has no link and no address.
LEMMA CreateUserKeeps ==
  ASSUME SsoInv, NEW username \in Username, CreateUser(username)
  PROVE  SsoInv'
  <1> DEFINE row == [username |-> username, email |-> None, link |-> None, active |-> TRUE]
  <1>1. row \in Row /\ row.link = None /\ row.email = None
    BY DEF Row
  <1>2. /\ NextId \in UserIds /\ users' = [users EXCEPT ![NextId] = row]
        /\ UNCHANGED <<pending, vouched, astray>>
    BY DEF CreateUser
  <1> HIDE DEF row
  <1>3. /\ IdentitiesAreOwn'
        /\ Ids \subseteq Ids' /\ Ids' \subseteq Ids \cup {NextId} /\ users'[NextId] = row
        /\ \A id \in Ids : id # NextId /\ users'[id] = users[id]
    BY <1>1, <1>2, InsertKeeps DEF SsoInv
  <1> HIDE DEF NextId
  <1>4. PendingLinkIsFree'
    BY <1>1, <1>2, <1>3 DEF SsoInv, PendingLinkIsFree
  <1>5. PendingEmailIsVouched'
    BY <1>1, <1>2, <1>3 DEF SsoInv, PendingEmailIsVouched, LinkAfter
  <1> QED
    BY <1>3, <1>4, <1>5 DEF SsoInv

\* An account is disabled or enabled again.
LEMMA SetActiveKeeps ==
  ASSUME SsoInv, NEW id \in UserIds, NEW active \in BOOLEAN, SetActive(id, active)
  PROVE  SsoInv'
  <1>1. /\ id \in Ids /\ users' = [users EXCEPT ![id].active = active]
        /\ UNCHANGED <<pending, vouched, astray>> /\ TypeOK
    BY DEF SsoInv, IdentitiesAreOwn, SetActive
  <1>2. users[id] \in Row
    BY <1>1, RowTypes
  <1>3. /\ users'[id] \in Row /\ users'[id].link = users[id].link
        /\ users'[id].email = users[id].email
        /\ users' \in [UserIds -> Row \cup {None}]
        /\ \A j \in UserIds : j # id => users'[j] = users[j]
    BY <1>1, <1>2 DEF TypeOK, Row
  <1>4. \A j \in Ids' : j \in Ids /\ users'[j].link = users[j].link /\ users'[j].email = users[j].email
    BY <1>1, <1>3 DEF Ids
  <1>5. TypeOK'
    BY <1>1, <1>3 DEF TypeOK
  <1>6. OneAccountPerIdentity'
    BY <1>4 DEF SsoInv, IdentitiesAreOwn, OneAccountPerIdentity
  <1>7. EmailIsVouched'
    BY <1>1, <1>4 DEF SsoInv, IdentitiesAreOwn, EmailIsVouched
  <1>8. PendingLinkIsFree'
    BY <1>1, <1>4 DEF SsoInv, PendingLinkIsFree
  <1>9. PendingEmailIsVouched'
    <2>1. Ids' = Ids
      BY <1>1, <1>3, NoneIsNoRow DEF Ids
    <2> QED
      BY <1>1, <1>3, <1>4, <2>1 DEF SsoInv, PendingEmailIsVouched, LinkAfter
  <1> QED
    BY <1>5, <1>6, <1>7, <1>8, <1>9 DEF SsoInv, IdentitiesAreOwn

\* An account is deleted; if the callback under way holds it, astray tells.
LEMMA DeleteUserKeeps ==
  ASSUME SsoInv, NEW id \in UserIds, DeleteUser(id)
  PROVE  SsoInv'
  <1>1. /\ users' = [users EXCEPT ![id] = None]
        /\ astray' = (astray \/ (pending # None /\ pending.id = id))
        /\ UNCHANGED <<pending, vouched>> /\ TypeOK
        /\ ~astray' => ~astray /\ (pending # None => pending.id # id)
    BY DEF SsoInv, IdentitiesAreOwn, DeleteUser, TypeOK
  <1>2. Ids' = Ids \ {id} /\ \A j \in Ids' : users'[j] = users[j]
    BY <1>1 DEF TypeOK, Ids
  <1>3. TypeOK'
    BY <1>1 DEF TypeOK
  <1>4. OneAccountPerIdentity'
    BY <1>2 DEF SsoInv, IdentitiesAreOwn, OneAccountPerIdentity
  <1>5. EmailIsVouched'
    BY <1>1, <1>2 DEF SsoInv, IdentitiesAreOwn, EmailIsVouched
  <1>6. PendingLinkIsFree'
    BY <1>1, <1>2 DEF SsoInv, PendingLinkIsFree
  <1>7. PendingEmailIsVouched'
    BY <1>1, <1>2 DEF SsoInv, PendingEmailIsVouched, LinkAfter
  <1> QED
    BY <1>3, <1>4, <1>5, <1>6, <1>7 DEF SsoInv, IdentitiesAreOwn

LEMMA SsoStep == SsoInv /\ [Next]_vars => SsoInv'
  <1> SUFFICES ASSUME SsoInv, [Next]_vars PROVE SsoInv'
    OBVIOUS
  <1>1. CASE \E identity \in Identities, email \in Address \cup {None}, verified \in BOOLEAN,
                base \in Locals : Resolve(identity, email, verified, base)
    BY <1>1, ResolveKeeps
  <1>2. CASE CommitChange
    BY <1>2, CommitChangeKeeps
  <1>3. CASE CommitInsert
    BY <1>3, CommitInsertKeeps
  <1>4. CASE CommitFails
    BY <1>4 DEF CommitFails, SsoInv, IdentitiesAreOwn, TypeOK, OneAccountPerIdentity, EmailIsVouched,
                PendingLinkIsFree, PendingEmailIsVouched, Ids
  <1>5. CASE \E username \in Username : CreateUser(username)
    BY <1>5, CreateUserKeeps
  <1>6. CASE \E id \in UserIds, active \in BOOLEAN : SetActive(id, active)
    BY <1>6, SetActiveKeeps
  <1>7. CASE \E id \in UserIds : DeleteUser(id)
    BY <1>7, DeleteUserKeeps
  <1>8. CASE UNCHANGED vars
    BY <1>8 DEF vars, SsoInv, IdentitiesAreOwn, TypeOK, OneAccountPerIdentity, EmailIsVouched,
                PendingLinkIsFree, PendingEmailIsVouched, LinkAfter, Ids
  <1> QED
    BY <1>1, <1>2, <1>3, <1>4, <1>5, <1>6, <1>7, <1>8 DEF Next

LEMMA SsoMoves ==
  /\ AccountsInit => Init
  /\ [AccountsNext]_accountsVars => [Next]_vars
  BY DEF AccountsInit, AccountsNext, accountsVars

LEMMA SsoAlways == AccountsSpec => []SsoInv
  <1>1. Init => SsoInv
    BY DEF Init, SsoInv, IdentitiesAreOwn, TypeOK, OneAccountPerIdentity, EmailIsVouched,
           PendingLinkIsFree, PendingEmailIsVouched, Ids
  <1> QED
    BY <1>1, SsoMoves, SsoStep, PTL DEF AccountsSpec

\* resolve_sso_user and the commit of the callback: whatever accounts
\* administrators disable, delete and create beside it, an identity is linked
\* to one account, and an account has no address but one that the provider of
\* its identity called verified.
THEOREM IdentitiesAreOwnAlways == AccountsSpec => []IdentitiesAreOwn
  BY SsoAlways, PTL DEF SsoInv

\* Of all the requests, only the commit of a sign-in writes a link, and only to
\* an account that has none, even if the account it found has been deleted and
\* its id given to another meanwhile.
THEOREM LinkIsKeptAlways == AccountsSpec => LinkIsKept
  <1> DEFINE Kept1 == \A id \in Ids : users[id].link # None /\ users'[id] # None
                        => users'[id].link = users[id].link
  <1>1. SsoInv /\ [Next]_vars => [Kept1]_vars
    <2> SUFFICES ASSUME SsoInv, Next, NEW id \in Ids, users[id].link # None, users'[id] # None
                 PROVE  users'[id].link = users[id].link
      OBVIOUS
    <2>1. TypeOK /\ id \in UserIds /\ users[id] \in Row
      BY RowTypes DEF SsoInv, IdentitiesAreOwn
    <2>2. CASE UNCHANGED users
      BY <2>2
    <2>3. CASE CommitChange
      <3>1. CASE id = pending.id
        <4>1. pending \in ChangeType /\ pending.id # 0 /\ pending # None
          BY <2>1, <2>3, <3>1, PendingTypes, SsoAssumption DEF CommitChange
        <4>2. pending.link = None
          BY <3>1, <4>1 DEF SsoInv, PendingLinkIsFree
        <4> QED
          BY <2>1, <2>3, <3>1, <4>1, <4>2 DEF CommitChange, Written, TypeOK, Row
      <3>2. CASE id # pending.id
        BY <2>1, <2>3, <3>2 DEF CommitChange, TypeOK
      <3> QED
        BY <3>1, <3>2
    <2>4. CASE CommitInsert \/ \E username \in Username : CreateUser(username)
      <3>1. id # NextId
        BY NextIdIsFree
      <3> HIDE DEF NextId
      <3> QED
        BY <2>1, <2>4, <3>1 DEF CommitInsert, CreateUser, TypeOK
    <2>5. CASE \E j \in UserIds, active \in BOOLEAN : SetActive(j, active)
      BY <2>1, <2>5 DEF SetActive, TypeOK, Row
    <2>6. CASE \E j \in UserIds : DeleteUser(j)
      BY <2>1, <2>6 DEF DeleteUser, TypeOK
    <2> QED
      BY <2>2, <2>3, <2>4, <2>5, <2>6 DEF Next, Resolve, CommitFails
  <1> QED
    BY <1>1, SsoMoves, SsoAlways, PTL DEF AccountsSpec, LinkIsKept

-----------------------------------------------------------------------------
(* The administrators.                                                       *)

LEMMA MembersFacts ==
  /\ Members \subseteq Nat \ {0} /\ 1 \in Members
  /\ NoUser \notin [admin : BOOLEAN, active : BOOLEAN]
  /\ Keep \notin BOOLEAN
  BY MembersAssumption DEF Admin!AccountsAssumption

LEMMA AdminMoves ==
  /\ AccountsInit => Admin!Init
  /\ [AccountsNext]_accountsVars => [Admin!Next]_Admin!vars
  BY DEF AccountsInit, AccountsNext, accountsVars, adminVars, Admin!vars

\* Every step keeps the types of the table and of the requests in flight.
LEMMA AdminTypeStep == Admin!TypeOK /\ [Admin!Next]_Admin!vars => Admin!TypeOK'
  <1> SUFFICES ASSUME Admin!TypeOK, [Admin!Next]_Admin!vars PROVE Admin!TypeOK'
    OBVIOUS
  <1>1. ASSUME NEW id \in Members, NEW row \in Admin!User, Admin!CreateUser(id, row) PROVE Admin!TypeOK'
    BY <1>1 DEF Admin!TypeOK, Admin!CreateUser
  <1>2. ASSUME NEW t \in Threads, NEW caller \in Members, NEW target \in Members,
               NEW op \in {"patch", "delete"}, NEW asked \in Admin!Asked,
               Admin!Authorize(t, caller, target, op, asked)
        PROVE  Admin!TypeOK'
    <2>1. account[caller] \in Admin!User \cup {NoUser}
      BY DEF Admin!TypeOK
    <2> QED
      BY <1>2, <2>1 DEF Admin!TypeOK, Admin!Authorize, Admin!Request
  <1>3. ASSUME NEW t \in Threads, Admin!Check(t) PROVE Admin!TypeOK'
    <2>1. request[t] \in Admin!Request
      BY <1>3 DEF Admin!TypeOK, Admin!Check
    <2>2. Admin!Loaded(request[t]) \in Admin!User \cup {NoUser}
      BY <2>1 DEF Admin!TypeOK, Admin!Loaded, Admin!Request
    <2>3. [request[t] EXCEPT !.stage = "checked", !.row = Admin!Loaded(request[t])] \in Admin!Request
      BY <2>1, <2>2 DEF Admin!Request
    <2>4. account' = account /\ raced' = raced /\ \E r \in Admin!Request \cup {Idle} : request' = [request EXCEPT ![t] = r]
      BY <1>3, <2>3 DEF Admin!Check
    <2> QED
      BY <2>4 DEF Admin!TypeOK
  <1>4. ASSUME NEW t \in Threads, Admin!Commit(t) PROVE Admin!TypeOK'
    <2> DEFINE r == request[t]
    <2>1. r \in Admin!Request
      BY <1>4 DEF Admin!TypeOK, Admin!Commit
    <2>2. request' = [request EXCEPT ![t] = Idle]
      BY <1>4 DEF Admin!Commit
    <2>3. Admin!Exists(r.target) => Admin!Written(r) \in Admin!User
      <3>1. account[r.target] \in Admin!User \cup {NoUser}
        BY <2>1 DEF Admin!TypeOK, Admin!Request
      <3>2. Admin!Exists(r.target) => account[r.target].admin \in BOOLEAN /\ account[r.target].active \in BOOLEAN
        BY <3>1 DEF Admin!Exists, Admin!User
      <3> QED
        BY <3>2 DEF Admin!Written, Admin!User
    <2>5. raced' \in BOOLEAN
      BY <1>4 DEF Admin!Commit, Admin!TypeOK
    <2>4. \E row \in Admin!User \cup {NoUser} :
             account' = account \/ account' = [account EXCEPT ![r.target] = row]
      BY <1>4, <2>3 DEF Admin!Commit
    <2> QED
      BY <2>2, <2>4, <2>5 DEF Admin!TypeOK
  <1>5. CASE Admin!Restart
    BY <1>5 DEF Admin!TypeOK, Admin!Restart, Admin!SeededAdmin, Admin!User
  <1>6. CASE UNCHANGED Admin!vars
    BY <1>6 DEF Admin!TypeOK, Admin!vars
  <1> QED
    BY <1>1, <1>2, <1>3, <1>4, <1>5, <1>6 DEF Admin!Next

\* The types of the model hold in every reachable state (routers/admin.py).
THEOREM AccountsTypeCorrect == AccountsSpec => []Admin!TypeOK
  <1>1. Admin!Init => Admin!TypeOK
    <2> SUFFICES ASSUME Admin!Init PROVE Admin!TypeOK
      OBVIOUS
    <2> QED
      BY MembersFacts DEF Admin!Init, Admin!TypeOK, Admin!SeededAdmin, Admin!User
  <1> QED
    BY <1>1, AdminMoves, AdminTypeStep, PTL DEF AccountsSpec

-----------------------------------------------------------------------------
(* The last administrator.  A request that has passed its checks cannot take *)
(* the last one away, and only the commit of another one changes that, which *)
(* is what "raced" remembers.                                                *)

\* A request keeps the row require_admin has loaded: that of an administrator.
CallersAreAdmins ==
  \A t \in Threads :
    request[t] # Idle /\ request[t].stage = "authorized" => request[t].row.admin /\ request[t].row.active

\* The commit of r leaves an administrator: there is another one, or its
\* target is none, or it takes neither flag away.
Harmless(r) ==
  \/ Admin!OtherAdmin(r.target)
  \/ Admin!Exists(r.target) /\ ~Admin!ActiveAdmin(r.target)
  \/ r.op = "patch" /\ r.asked.admin # FALSE /\ r.asked.active # FALSE

CheckedAreHarmless == raced \/ \A t \in Threads : Admin!Checked(t) => Harmless(request[t])

AccountsInv == Admin!TypeOK /\ Admin!AdminRemains /\ CallersAreAdmins /\ CheckedAreHarmless

\* A row that appears disturbs no other one.
LEMMA CreationKeeps ==
  ASSUME AccountsInv, NEW id \in Members, NEW row \in Admin!User, Admin!CreateUser(id, row)
  PROVE  Admin!AdminRemains' /\ CallersAreAdmins' /\ CheckedAreHarmless'
  <1>1. account' = [account EXCEPT ![id] = row] /\ request' = request /\ raced' = raced /\ ~Admin!Exists(id)
    BY MembersFacts DEF Admin!CreateUser, Admin!FreshId
  <1>2. account \in [Members -> Admin!User \cup {NoUser}]
    BY DEF AccountsInv, Admin!TypeOK
  <1>3. \A i \in Members : Admin!Exists(i) => account'[i] = account[i]
    BY <1>1, <1>2
  <1>4. \A i \in Members : Admin!ActiveAdmin(i) => Admin!ActiveAdmin(i)'
    BY <1>3 DEF Admin!ActiveAdmin, Admin!Exists
  <1>5. \A r : Harmless(r) /\ r.target \in Members => Harmless(r)'
    <2> SUFFICES ASSUME NEW r, Harmless(r), r.target \in Members PROVE Harmless(r)'
      OBVIOUS
    <2>1. CASE Admin!OtherAdmin(r.target)
      BY <1>4, <2>1 DEF Harmless, Admin!OtherAdmin
    <2>2. CASE Admin!Exists(r.target) /\ ~Admin!ActiveAdmin(r.target)
      BY <1>3, <2>2 DEF Harmless, Admin!Exists, Admin!ActiveAdmin
    <2>3. CASE r.op = "patch" /\ r.asked.admin # FALSE /\ r.asked.active # FALSE
      BY <2>3 DEF Harmless
    <2> QED
      BY <2>1, <2>2, <2>3 DEF Harmless
  <1>6. \A t \in Threads : Admin!Checked(t) => request[t].target \in Members
    BY DEF AccountsInv, Admin!TypeOK, Admin!Checked, Admin!Request
  <1>7. Admin!AdminRemains'
    BY <1>1, <1>4 DEF AccountsInv, Admin!AdminRemains
  <1>8. CallersAreAdmins'
    BY <1>1 DEF AccountsInv, CallersAreAdmins
  <1>9. ASSUME NEW t \in Threads, ~raced', Admin!Checked(t)' PROVE Harmless(request[t])'
    <2>1. ~raced /\ Admin!Checked(t)
      BY <1>1, <1>9 DEF Admin!Checked
    <2>2. Harmless(request[t])
      BY <2>1 DEF AccountsInv, CheckedAreHarmless
    <2>3. request'[t] = request[t]
      BY <1>1
    <2> QED
      BY <1>5, <1>6, <2>1, <2>2, <2>3 DEF Harmless, Admin!OtherAdmin, Admin!ActiveAdmin, Admin!Exists
  <1> QED
    BY <1>7, <1>8, <1>9 DEF CheckedAreHarmless

\* A request that passes its checks is harmless from then on.
LEMMA AllowedIsHarmless ==
  ASSUME AccountsInv, NEW t \in Threads, request[t] # Idle, request[t].stage = "authorized",
         Admin!Allowed(request[t], Admin!Loaded(request[t]))
  PROVE  Harmless(request[t])
  <1> DEFINE r == request[t]
             row == Admin!Loaded(r)
  <1>1. r \in Admin!Request /\ r.target \in Members /\ r.op \in {"patch", "delete"} /\ row # NoUser
    BY DEF AccountsInv, Admin!TypeOK, Admin!Request, Admin!Allowed
  <1>2. CASE ~Admin!OtherAdmin(r.target) /\ r.op = "delete"
    <2>1. r.target # r.caller /\ ~(row.admin /\ row.active)
      BY <1>2 DEF Admin!Allowed
    <2>2. row = account[r.target]
      BY <2>1 DEF Admin!Loaded
    <2> QED
      BY <1>1, <2>1, <2>2 DEF Harmless, Admin!Exists, Admin!ActiveAdmin
  <1>3. CASE ~Admin!OtherAdmin(r.target) /\ r.op = "patch" /\ r.target = r.caller
    <2>1. row = r.row /\ r.row.admin /\ r.row.active
      BY <1>3 DEF Admin!Loaded, AccountsInv, CallersAreAdmins
    <2>2. r.asked.admin # FALSE /\ r.asked.active # FALSE
      BY <1>3, <2>1 DEF Admin!Allowed, Admin!Demotes, Admin!Deactivates
    <2> QED
      BY <1>3, <2>2 DEF Harmless
  <1>4. CASE ~Admin!OtherAdmin(r.target) /\ r.op = "patch" /\ r.target # r.caller
    <2>1. row = account[r.target]
      BY <1>4 DEF Admin!Loaded
    <2>2. CASE row.admin /\ row.active
      <3>1. r.asked.admin # FALSE /\ r.asked.active # FALSE
        BY <1>4, <2>2 DEF Admin!Allowed, Admin!Demotes, Admin!Deactivates
      <3> QED
        BY <1>4, <3>1 DEF Harmless
    <2>3. CASE ~(row.admin /\ row.active)
      BY <1>1, <2>1, <2>3 DEF Harmless, Admin!Exists, Admin!ActiveAdmin
    <2> QED
      BY <2>2, <2>3
  <1> QED
    BY <1>1, <1>2, <1>3, <1>4 DEF Harmless

\* The commit of a harmless request while no other one has passed its checks.
LEMMA CommitKeeps ==
  ASSUME AccountsInv, NEW t \in Threads, Admin!Commit(t)
  PROVE  Admin!AdminRemains' /\ CallersAreAdmins' /\ CheckedAreHarmless'
  <1> DEFINE r == request[t]
  <1>1. r \in Admin!Request /\ r.target \in Members /\ Admin!Checked(t)
    BY DEF AccountsInv, Admin!TypeOK, Admin!Commit, Admin!Request, Admin!Checked
  <1>2. account \in [Members -> Admin!User \cup {NoUser}] /\ request \in [Threads -> Admin!Request \cup {Idle}]
        /\ raced \in BOOLEAN
    BY DEF AccountsInv, Admin!TypeOK
  <1>3. request' = [request EXCEPT ![t] = Idle]
        /\ raced' = (raced \/ \E s \in Threads \ {t} : Admin!Checked(s))
    BY DEF Admin!Commit
  <1>4. CallersAreAdmins'
    BY <1>2, <1>3 DEF AccountsInv, CallersAreAdmins
  <1>5. CheckedAreHarmless'
    BY <1>2, <1>3 DEF CheckedAreHarmless, Admin!Checked
  <1>6. ASSUME ~raced' PROVE \E i \in Members : Admin!ActiveAdmin(i)'
    <2>1. ~raced
      BY <1>3, <1>6
    <2>2. Harmless(r) /\ \E i \in Members : Admin!ActiveAdmin(i)
      BY <1>1, <2>1 DEF AccountsInv, CheckedAreHarmless, Admin!AdminRemains
    <2>3. CASE ~Admin!Exists(r.target)
      <3>1. account' = account
        BY <2>3 DEF Admin!Commit
      <3> QED
        BY <2>2, <3>1 DEF Admin!ActiveAdmin, Admin!Exists
    <2>4. CASE Admin!Exists(r.target)
      <3>1. account' = [account EXCEPT ![r.target] = IF r.op = "delete" THEN NoUser ELSE Admin!Written(r)]
        BY <2>4 DEF Admin!Commit
      <3>2. \A i \in Members \ {r.target} : account'[i] = account[i]
        BY <1>2, <3>1
      <3>3. Admin!OtherAdmin(r.target) => \E i \in Members : Admin!ActiveAdmin(i)'
        BY <3>2 DEF Admin!OtherAdmin, Admin!ActiveAdmin, Admin!Exists
      <3>4. CASE ~Admin!ActiveAdmin(r.target)
        BY <2>2, <3>2, <3>4 DEF Admin!ActiveAdmin, Admin!Exists
      <3>5. CASE /\ Admin!ActiveAdmin(r.target)
                 /\ r.op = "patch" /\ r.asked.admin # FALSE /\ r.asked.active # FALSE
        <4>1. account[r.target] \in Admin!User /\ account[r.target].admin = TRUE /\ account[r.target].active = TRUE
          BY <1>1, <1>2, <3>5 DEF Admin!ActiveAdmin, Admin!Exists, Admin!User
        <4>2. Admin!Written(r) = [admin |-> TRUE, active |-> TRUE]
          BY <3>5, <4>1 DEF Admin!Written
        <4>3. account'[r.target] = [admin |-> TRUE, active |-> TRUE]
          BY <1>1, <1>2, <3>1, <3>5, <4>2
        <4>4. account'[r.target].admin /\ account'[r.target].active /\ account'[r.target] \in Admin!User
          BY <4>3 DEF Admin!User
        <4>5. account'[r.target] # NoUser
          BY <4>4, MembersFacts DEF Admin!User
        <4> QED
          BY <1>1, <4>4, <4>5 DEF Admin!ActiveAdmin, Admin!Exists
      <3> QED
        BY <2>2, <3>3, <3>4, <3>5 DEF Harmless
    <2> QED
      BY <2>3, <2>4
  <1>7. Admin!AdminRemains'
    BY <1>6 DEF Admin!AdminRemains
  <1> QED
    BY <1>4, <1>5, <1>7

\* Every step of the server keeps it.
LEMMA AccountsStep == AccountsInv /\ [Admin!Next]_Admin!vars => AccountsInv'
  <1> SUFFICES ASSUME AccountsInv, [Admin!Next]_Admin!vars PROVE AccountsInv'
    OBVIOUS
  <1>0. Admin!TypeOK' /\ Admin!TypeOK /\ Admin!AdminRemains /\ CallersAreAdmins /\ CheckedAreHarmless
    BY AdminTypeStep DEF AccountsInv
  <1>1. ASSUME NEW id \in Members, NEW row \in Admin!User, Admin!CreateUser(id, row) PROVE AccountsInv'
    BY <1>0, <1>1, CreationKeeps DEF AccountsInv
  <1>2. ASSUME NEW t \in Threads, NEW caller \in Members, NEW target \in Members,
               NEW op \in {"patch", "delete"}, NEW asked \in Admin!Asked,
               Admin!Authorize(t, caller, target, op, asked)
        PROVE  AccountsInv'
    <2> DEFINE new == [caller |-> caller, target |-> target, op |-> op, asked |-> asked,
                       stage |-> "authorized", row |-> account[caller]]
    <2>1. account' = account /\ raced' = raced /\ request' = [request EXCEPT ![t] = new]
          /\ account[caller].admin /\ account[caller].active
      BY <1>2 DEF Admin!Authorize, Admin!ActiveAdmin
    <2>2. Admin!AdminRemains'
      BY <1>0, <2>1 DEF Admin!AdminRemains, Admin!ActiveAdmin, Admin!Exists
    <2>3. \A s \in Threads : s # t => request'[s] = request[s]
      BY <1>0, <2>1 DEF Admin!TypeOK
    <2>4. request'[t] = new
      BY <1>0, <2>1 DEF Admin!TypeOK
    <2>5. CallersAreAdmins'
      BY <1>0, <2>1, <2>3, <2>4 DEF CallersAreAdmins
    <2>6. ASSUME NEW s \in Threads, ~raced', Admin!Checked(s)' PROVE Harmless(request[s])'
      <3>1. s # t
        BY <2>4, <2>6 DEF Admin!Checked
      <3>2. Harmless(request[s])
        BY <1>0, <2>1, <2>3, <2>6, <3>1 DEF Admin!Checked, CheckedAreHarmless
      <3> QED
        BY <2>1, <2>3, <3>1, <3>2 DEF Harmless, Admin!OtherAdmin, Admin!ActiveAdmin, Admin!Exists
    <2> QED
      BY <1>0, <2>2, <2>5, <2>6 DEF AccountsInv, CheckedAreHarmless
  <1>3. ASSUME NEW t \in Threads, Admin!Check(t) PROVE AccountsInv'
    <2> DEFINE r == request[t]
               new == [r EXCEPT !.stage = "checked", !.row = Admin!Loaded(r)]
    <2>1. r \in Admin!Request /\ r # Idle /\ r.stage = "authorized" /\ account' = account /\ raced' = raced
      BY <1>0, <1>3 DEF Admin!TypeOK, Admin!Check
    <2>2. Admin!AdminRemains'
      BY <1>0, <2>1 DEF Admin!AdminRemains, Admin!ActiveAdmin, Admin!Exists
    <2>3. request' = [request EXCEPT ![t] = IF Admin!Allowed(r, Admin!Loaded(r)) THEN new ELSE Idle]
      BY <1>3 DEF Admin!Check
    <2>4. \A s \in Threads : s # t => request'[s] = request[s]
      BY <1>0, <2>3 DEF Admin!TypeOK
    <2>5. request'[t] = IF Admin!Allowed(r, Admin!Loaded(r)) THEN new ELSE Idle
      BY <1>0, <2>3 DEF Admin!TypeOK
    <2>6. new.stage = "checked" /\ new.target = r.target /\ new.op = r.op /\ new.asked = r.asked
      BY <2>1 DEF Admin!Request
    <2>7. CallersAreAdmins'
      BY <1>0, <2>4, <2>5, <2>6 DEF CallersAreAdmins
    <2>8. ASSUME NEW s \in Threads, ~raced', Admin!Checked(s)' PROVE Harmless(request[s])'
      <3>1. CASE s # t
        <4>1. Harmless(request[s])
          BY <1>0, <2>1, <2>4, <2>8, <3>1 DEF Admin!Checked, CheckedAreHarmless
        <4> QED
          BY <2>1, <2>4, <3>1, <4>1 DEF Harmless, Admin!OtherAdmin, Admin!ActiveAdmin, Admin!Exists
      <3>2. CASE s = t
        <4>1. Admin!Allowed(r, Admin!Loaded(r)) /\ request'[t] = new
          BY <2>5, <2>8, <3>2 DEF Admin!Checked
        <4>2. Harmless(r)
          BY <2>1, <4>1, AllowedIsHarmless
        <4> HIDE DEF new
        <4> QED
          BY <2>1, <2>6, <3>2, <4>1, <4>2 DEF Harmless, Admin!OtherAdmin, Admin!ActiveAdmin, Admin!Exists
      <3> QED
        BY <3>1, <3>2
    <2> QED
      BY <1>0, <2>2, <2>7, <2>8 DEF AccountsInv, CheckedAreHarmless
  <1>4. ASSUME NEW t \in Threads, Admin!Commit(t) PROVE AccountsInv'
    BY <1>0, <1>4, CommitKeeps DEF AccountsInv
  <1>5. CASE Admin!Restart
    <2>1. raced' = raced /\ \A t \in Threads : request'[t] = Idle
      BY <1>5 DEF Admin!Restart
    <2>2. (\E id \in Members : Admin!Exists(id)) => account' = account
      BY <1>5 DEF Admin!Restart
    <2>3. Admin!AdminRemains'
      BY <1>0, <2>1, <2>2 DEF Admin!AdminRemains, Admin!ActiveAdmin, Admin!Exists
    <2>4. CallersAreAdmins' /\ CheckedAreHarmless'
      BY <2>1 DEF CallersAreAdmins, CheckedAreHarmless, Admin!Checked
    <2> QED
      BY <1>0, <2>3, <2>4 DEF AccountsInv
  <1>6. CASE UNCHANGED Admin!vars
    <2>1. Admin!AdminRemains' /\ CallersAreAdmins'
      BY <1>0, <1>6 DEF Admin!vars, Admin!AdminRemains, Admin!ActiveAdmin, Admin!Exists, CallersAreAdmins
    <2>2. CheckedAreHarmless'
      BY <1>0, <1>6 DEF Admin!vars, CheckedAreHarmless, Admin!Checked, Harmless, Admin!OtherAdmin, Admin!ActiveAdmin, Admin!Exists
    <2> QED
      BY <1>0, <2>1, <2>2 DEF AccountsInv
  <1> QED
    BY <1>1, <1>2, <1>3, <1>4, <1>5, <1>6 DEF Admin!Next

\* An active administrator remains as long as no two requests that change
\* accounts stand between their checks and their commits at once
\* (routers/admin.py, update_user and delete_user).
THEOREM AdminRemainsAlways == AccountsSpec => []AdminRemains
  <1>1. Admin!Init => AccountsInv
    <2> SUFFICES ASSUME Admin!Init PROVE AccountsInv
      OBVIOUS
    <2>1. Admin!TypeOK
      BY MembersFacts DEF Admin!Init, Admin!TypeOK, Admin!SeededAdmin, Admin!User
    <2>2. Admin!AdminRemains
      <3>1. 1 \in Members /\ account[1] = Admin!SeededAdmin
        BY MembersFacts DEF Admin!Init
      <3>2. account[1].admin /\ account[1].active /\ account[1] \in Admin!User
        BY <3>1 DEF Admin!SeededAdmin, Admin!User
      <3>3. account[1] # NoUser
        BY <3>2, MembersFacts DEF Admin!User
      <3> QED
        BY <3>1, <3>2, <3>3 DEF Admin!AdminRemains, Admin!ActiveAdmin, Admin!Exists
    <2>3. CallersAreAdmins /\ CheckedAreHarmless
      BY DEF Admin!Init, CallersAreAdmins, CheckedAreHarmless, Admin!Checked
    <2> QED
      BY <2>1, <2>2, <2>3 DEF AccountsInv
  <1>2. AccountsInv => AdminRemains
    BY DEF AccountsInv, AdminRemains
  <1> QED
    BY <1>1, <1>2, AccountsStep, AdminMoves, PTL DEF AccountsSpec
-----------------------------------------------------------------------------
(* The flags of an account.  Only the commit of a request that has passed its *)
(* checks writes a row that is there, and it writes the columns its request   *)
(* sets.                                                                      *)

\* What the ORM writes for a flag the request does not set.
LEMMA UnsetFlagsStay ==
  ASSUME Admin!TypeOK, NEW t \in Threads, request[t] # Idle
  PROVE  /\ request[t].asked.admin = Keep => Admin!Written(request[t]).admin = account[request[t].target].admin
         /\ request[t].asked.active = Keep => Admin!Written(request[t]).active = account[request[t].target].active
  BY MembersFacts DEF Admin!Written

\* The other flag of an account stays as the commit finds it, whatever other requests
\* have done to the row since it was loaded (routers/admin.py, update_user; the ORM
\* writes the columns that differ).
THEOREM OtherFlagKeptAlways == AccountsSpec => OtherFlagKept
  <1> DEFINE FlagKept(t) ==
        LET r == request[t]
        IN  r # Idle /\ r.stage = "checked" /\ r.op = "patch" /\ request'[t] = Idle
            /\ Admin!Exists(r.target) /\ account'[r.target] # account[r.target] /\ account'[r.target] # NoUser
            => /\ r.asked.admin = Keep => account'[r.target].admin = account[r.target].admin
               /\ r.asked.active = Keep => account'[r.target].active = account[r.target].active
  <1>1. ASSUME Admin!TypeOK, [Admin!Next]_Admin!vars, NEW t \in Threads PROVE FlagKept(t)
    <2> DEFINE r == request[t]
    <2> SUFFICES ASSUME r # Idle, r.stage = "checked", r.op = "patch", request'[t] = Idle,
                        Admin!Exists(r.target), account'[r.target] # account[r.target]
                 PROVE  /\ r.asked.admin = Keep => account'[r.target].admin = account[r.target].admin
                        /\ r.asked.active = Keep => account'[r.target].active = account[r.target].active
      OBVIOUS
    <2>0. /\ account \in [Members -> Admin!User \cup {NoUser}]
          /\ request \in [Threads -> Admin!Request \cup {Idle}]
          /\ r.target \in Members
      BY <1>1 DEF Admin!TypeOK, Admin!Request
    <2>1. ASSUME NEW id \in Members, NEW row \in Admin!User, Admin!CreateUser(id, row) PROVE FALSE
      BY <2>1 DEF Admin!CreateUser
    <2>2. ASSUME NEW s \in Threads, NEW caller \in Members, NEW target \in Members,
                 NEW op \in {"patch", "delete"}, NEW asked \in Admin!Asked,
                 Admin!Authorize(s, caller, target, op, asked)
          PROVE  FALSE
      BY <2>2 DEF Admin!Authorize
    <2>3. ASSUME NEW s \in Threads, Admin!Check(s) PROVE FALSE
      BY <2>3 DEF Admin!Check
    <2>4. ASSUME NEW s \in Threads, Admin!Commit(s), s # t PROVE FALSE
      BY <2>0, <2>4 DEF Admin!Commit
    <2>5. CASE Admin!Commit(t)
      <3>1. account' = [account EXCEPT ![r.target] = Admin!Written(r)]
        BY <2>5 DEF Admin!Commit
      <3>2. account'[r.target] = Admin!Written(r)
        BY <2>0, <3>1
      <3> QED
        BY <1>1, <3>2, UnsetFlagsStay
    <2>6. ASSUME Admin!Restart PROVE FALSE
      BY <2>0, <2>6 DEF Admin!Restart
    <2>7. ASSUME UNCHANGED Admin!vars PROVE FALSE
      BY <2>7 DEF Admin!vars
    <2> QED
      BY <1>1, <2>1, <2>2, <2>3, <2>4, <2>5, <2>6, <2>7 DEF Admin!Next
  <1>2. Admin!TypeOK /\ [Admin!Next]_Admin!vars => [\A t \in Threads : FlagKept(t)]_Admin!vars
    BY <1>1
  <1>3. AccountsSpec => [][Admin!Next]_Admin!vars
    BY AdminMoves, PTL DEF AccountsSpec
  <1>4. AccountsSpec => [][\A t \in Threads : FlagKept(t)]_Admin!vars
    BY <1>2, <1>3, AccountsTypeCorrect, PTL
  <1> QED
    BY <1>4 DEF OtherFlagKept, Admin!OtherFlagKept
=============================================================================
