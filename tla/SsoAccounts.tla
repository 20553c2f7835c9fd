----------------------------- MODULE SsoAccounts -----------------------------
(* Single sign-on: oauth.py resolves the identity a provider reports to an   *)
(* account (linked before, linked now by its verified email, or new), and    *)
(* the callback of routers/oauth.py commits it.  The callback does not await *)
(* in between, so there is one at a time, but the requests of the            *)
(* administrators run on other threads and may commit meanwhile.             *)
(*                                                                           *)
(* A definition directly above another one with the same parameters is a     *)
(* mutant of it (PROJECT.json, mutants).                                     *)
EXTENDS Integers, FiniteSets, FiniteSetsExt

CONSTANTS
  UserIds,     \* primary keys of the user table
  Identities,  \* pairs of provider and subject
  Locals,      \* local parts of addresses, and with them bases of usernames
  Hosts,       \* hosts of addresses
  MaxSuffix,   \* bound on the suffix of a username
  None         \* no row, no address, no link, no callback

ASSUME SsoAssumption ==
  /\ IsFiniteSet(UserIds) /\ UserIds \subseteq Nat \ {0}
  /\ MaxSuffix \in Nat \ {0}
  /\ None \notin Identities

VARIABLES
  users,    \* id -> row, or None
  pending,  \* what the callback under way will commit, or None
  vouched,  \* history: identities with an address their provider called verified
  astray    \* history: a row was deleted while a callback held it

vars == <<users, pending, vouched, astray>>

Address == [local : Locals, host : Hosts]
\* base, base2, base3 ...
Slug == [base : Locals, suffix : 1 .. MaxSuffix]
\* An administrator may use an address as a username.
Username == Slug \cup Address

Row == [username : Username, email : Address \cup {None}, link : Identities \cup {None},
        active : BOOLEAN]

ASSUME NoneIsNoRow == None \notin Row

Ids == {id \in UserIds : users[id] # None}
Taken == {users[id].username : id \in Ids}

\* The next rowid of SQLite is one above the greatest in use.
NextId == IF Ids = {} THEN 1 ELSE Max(Ids) + 1

Init ==
  /\ users = [id \in UserIds |-> None]
  /\ pending = None
  /\ vouched = {}
  /\ astray = FALSE

-----------------------------------------------------------------------------
(* resolve_sso_user.  None of its queries has an order: where several rows   *)
(* match, .first() is any of them.                                           *)

\* A change of the row found: the columns the ORM will write, None for neither.
Change(id, link, email) == [id |-> id, link |-> link, email |-> email]

\* A row to be inserted.
Insert(username, email, identity) ==
  [id |-> 0,
   row |-> [username |-> username, email |-> email, link |-> identity, active |-> TRUE]]

LinkedActive(identity) == {id \in Ids : users[id].link = identity /\ users[id].active}
Linked(identity) == {id \in Ids : users[id].link = identity}

\* The address column, or a username that is the address.
Matching(email) == {id \in Ids : users[id].email = email \/ users[id].username = email}

Trusted(email, verified) == IF verified THEN email ELSE None

\* _unique_username: the first free one of base, base2, base3 ...
UniqueUsername(base) ==
  [base |-> base,
   suffix |-> Min({n \in 1 .. MaxSuffix : [base |-> base, suffix |-> n] \notin Taken})]

\* Already linked: only a verified, different address is written.
Found(id, email) == Change(id, None, IF email = users[id].email THEN None ELSE email)

AttachableEver(id) == TRUE
Attachable(id) == users[id].link = None

Attach(id, identity, email) ==
  Change(id, identity, IF users[id].email = None THEN email ELSE None)

\* A disabled account is refused before the commit.
Kept(id, change) == IF users[id].active THEN change ELSE None

\* The base of a new username is the local part of a verified address, and else
\* any name the provider reports.
Resolve(identity, email, verified, base) ==
  LET trusted == Trusted(email, verified)
      known == Linked(identity)
      existing == IF trusted = None THEN {} ELSE Matching(trusted)
  IN  /\ pending = None
      /\ verified => email # None /\ base = email.local
      /\ vouched' = IF verified THEN vouched \cup {<<identity, email>>} ELSE vouched
      /\ \/ \E id \in known : pending' = Kept(id, Found(id, trusted))
         \/ \E id \in existing :
              /\ known = {} /\ Attachable(id)
              /\ pending' = Kept(id, Attach(id, identity, trusted))
         \/ /\ known = {}
            /\ existing = {} \/ \E id \in existing : ~Attachable(id)
            /\ \E n \in 1 .. MaxSuffix : [base |-> base, suffix |-> n] \notin Taken
            /\ pending' = Insert(UniqueUsername(base), trusted, identity)
      /\ UNCHANGED <<users, astray>>

\* oauth_callback commits; the ORM writes the columns that have changed.
Written(row, change) ==
  [row EXCEPT !.link = IF change.link = None THEN @ ELSE change.link,
              !.email = IF change.email = None THEN @ ELSE change.email]

CommitChange ==
  /\ pending # None /\ pending.id \in Ids
  /\ users' = [users EXCEPT ![pending.id] = Written(@, pending)]
  /\ pending' = None
  /\ UNCHANGED <<vouched, astray>>

CommitInsert ==
  /\ pending # None /\ pending.id = 0 /\ pending.row.username \notin Taken
  /\ NextId \in UserIds
  /\ users' = [users EXCEPT ![NextId] = pending.row]
  /\ pending' = None
  /\ UNCHANGED <<vouched, astray>>

\* The row is gone, or the username has been taken meanwhile: an error of the
\* database, and nothing is written.
CommitFails ==
  /\ pending # None
  /\ IF pending.id = 0 THEN pending.row.username \in Taken ELSE pending.id \notin Ids
  /\ pending' = None
  /\ UNCHANGED <<users, vouched, astray>>

-----------------------------------------------------------------------------
(* The administrators: routers/admin.py.                                     *)

CreateUser(username) ==
  /\ username \notin Taken
  /\ NextId \in UserIds
  /\ users' = [users EXCEPT ![NextId] =
       [username |-> username, email |-> None, link |-> None, active |-> TRUE]]
  /\ UNCHANGED <<pending, vouched, astray>>

SetActive(id, active) ==
  /\ id \in Ids /\ users[id].active # active
  /\ users' = [users EXCEPT ![id].active = active]
  /\ UNCHANGED <<pending, vouched, astray>>

DeleteUser(id) ==
  /\ id \in Ids
  /\ users' = [users EXCEPT ![id] = None]
  /\ astray' = (astray \/ (pending # None /\ pending.id = id))
  /\ UNCHANGED <<pending, vouched>>

Next ==
  \/ \E identity \in Identities, email \in Address \cup {None}, verified \in BOOLEAN,
        base \in Locals : Resolve(identity, email, verified, base)
  \/ CommitChange \/ CommitInsert \/ CommitFails
  \/ \E username \in Username : CreateUser(username)
  \/ \E id \in UserIds, active \in BOOLEAN : SetActive(id, active)
  \/ \E id \in UserIds : DeleteUser(id)

Spec == Init /\ [][Next]_vars

-----------------------------------------------------------------------------
(* Properties.                                                               *)

TypeOK ==
  /\ users \in [UserIds -> Row \cup {None}]
  /\ pending \in {None} \cup [id : UserIds, link : Identities \cup {None}, email : Address \cup {None}]
                         \cup [id : {0}, row : Row]
  /\ astray \in BOOLEAN
  /\ vouched \subseteq Identities \X Address

\* However often an identity signs in, with whatever address, beside accounts
\* that are disabled, deleted and created, it has one account at most.
OneAccountPerIdentity ==
  \A i, j \in Ids : users[i].link # None /\ users[i].link = users[j].link => i = j

\* An address an account carries is one that the provider of the identity
\* linked to it has called verified: nobody is found by an unverified address.
\* (When a row is deleted under a callback and its rowid goes to a new account
\* before the commit, the commit writes to that account.)
EmailIsVouched ==
  \A id \in Ids : users[id].email # None =>
    astray \/ <<users[id].link, users[id].email>> \in vouched

\* Identities and addresses belong to the accounts that carry them: the two
\* above, and the types.
IdentitiesAreOwn == TypeOK /\ OneAccountPerIdentity /\ EmailIsVouched

\* A sign-in never takes an account from the identity it is linked to.
LinkIsKept ==
  [][\A id \in Ids : users[id].link # None /\ users'[id] # None
        => users'[id].link = users[id].link]_vars
=============================================================================
