---------------------------- MODULE AdminAccounts ----------------------------
(* The user table and the endpoints of routers/admin.py that change who      *)
(* administers the application.  Each request runs on a thread of its own:   *)
(* its dependency require_admin, its checks and its commit are three         *)
(* separate reads and writes of the table.                                   *)
(*                                                                           *)
(* A definition directly above another one with the same parameters is a     *)
(* mutant of it (PROJECT.json, mutants).                                     *)
EXTENDS Integers, FiniteSets

CONSTANTS
  UserIds,  \* primary keys of the user table
  Threads,  \* request threads that change accounts
  NoUser,   \* no row
  Idle,     \* a thread without a request
  Keep      \* a field the request does not set

AccountsAssumption ==
  /\ UserIds \subseteq Nat \ {0} /\ 1 \in UserIds
  /\ NoUser \notin [admin : BOOLEAN, active : BOOLEAN]
  /\ Keep \notin BOOLEAN

VARIABLES
  users,   \* id -> row, or NoUser
  request, \* thread -> its request, or Idle
  raced    \* history: a request committed while another one had passed its checks

vars == <<users, request, raced>>

User == [admin : BOOLEAN, active : BOOLEAN]
Asked == [admin : BOOLEAN \cup {Keep}, active : BOOLEAN \cup {Keep}]
Request == [caller : UserIds, target : UserIds, op : {"patch", "delete"}, asked : Asked,
            stage : {"authorized", "checked"}, row : User \cup {NoUser}]

Exists(id) == users[id] # NoUser
ActiveAdmin(id) == Exists(id) /\ users[id].admin /\ users[id].active

\* _active_admin_count(session, exclude_id) > 0
AnotherAdmin(id) == \E i \in UserIds \ {id} : Exists(i) /\ users[i].admin
OtherAdmin(id) == \E i \in UserIds \ {id} : ActiveAdmin(i)

SeededAdmin == [admin |-> TRUE, active |-> TRUE]

Init ==
  /\ users = [id \in UserIds |-> IF id = 1 THEN SeededAdmin ELSE NoUser]
  /\ request = [t \in Threads |-> Idle]
  /\ raced = FALSE

-----------------------------------------------------------------------------
(* New rows: create_user, and the accounts single sign-on provisions.        *)

\* The next rowid of SQLite is one above the greatest in use.
FreshId(id) ==
  /\ \A i \in UserIds : Exists(i) => i < id
  /\ id = 1 \/ (id - 1 \in UserIds /\ Exists(id - 1))

CreateUser(id, row) ==
  /\ FreshId(id)
  /\ row.admin => \E caller \in UserIds : ActiveAdmin(caller)
  /\ row.active
  /\ users' = [users EXCEPT ![id] = row]
  /\ UNCHANGED <<request, raced>>

-----------------------------------------------------------------------------
(* update_user and delete_user.                                              *)

\* A DELETE request asks for no field.
NoBody == [admin |-> Keep, active |-> Keep]

\* require_admin loads the caller; the session keeps that row.
Authorize(t, caller, target, op, asked) ==
  /\ request[t] = Idle
  /\ ActiveAdmin(caller)
  /\ op = "delete" => asked = NoBody
  /\ request' = [request EXCEPT ![t] =
       [caller |-> caller, target |-> target, op |-> op, asked |-> asked,
        stage |-> "authorized", row |-> users[caller]]]
  /\ UNCHANGED <<users, raced>>

\* session.get(User, user_id): the caller comes from the session, anybody else
\* from the table.
Loaded(r) == IF r.target = r.caller THEN r.row ELSE users[r.target]

Demotes(r, row) == r.asked.admin = FALSE /\ row.admin
Deactivates(r, row) == r.asked.active = FALSE /\ row.active

Allowed(r, row) ==
  /\ row # NoUser
  /\ r.op = "patch" => ~(Demotes(r, row) \/ Deactivates(r, row)) \/ OtherAdmin(r.target)
  /\ r.op = "delete" => /\ r.target # r.caller
                        /\ row.admin /\ row.active => OtherAdmin(r.target)

\* The checks of the handler; a refused request answers 400 or 404.
Check(t) ==
  LET r == request[t]
      row == Loaded(r)
  IN  /\ r # Idle /\ r.stage = "authorized"
      /\ request' = [request EXCEPT ![t] =
           IF Allowed(r, row) THEN [r EXCEPT !.stage = "checked", !.row = row] ELSE Idle]
      /\ UNCHANGED <<users, raced>>

\* The ORM writes the columns that differ from the row it has loaded.
WrittenWhole(r) == [admin |-> IF r.asked.admin = Keep THEN r.row.admin ELSE r.asked.admin,
                    active |-> IF r.asked.active = Keep THEN r.row.active ELSE r.asked.active]
Written(r) ==
  [admin |-> IF r.asked.admin \in BOOLEAN /\ r.asked.admin # r.row.admin
             THEN r.asked.admin ELSE users[r.target].admin,
   active |-> IF r.asked.active \in BOOLEAN /\ r.asked.active # r.row.active
              THEN r.asked.active ELSE users[r.target].active]

Checked(t) == request[t] # Idle /\ request[t].stage = "checked"

\* A row that is gone by now is not written (the request answers 500).
Commit(t) ==
  LET r == request[t]
  IN  /\ r # Idle /\ r.stage = "checked"
      /\ users' = IF ~Exists(r.target) THEN users
                  ELSE [users EXCEPT ![r.target] = IF r.op = "delete" THEN NoUser ELSE Written(r)]
      /\ request' = [request EXCEPT ![t] = Idle]
      /\ raced' = (raced \/ \E s \in Threads \ {t} : Checked(s))

-----------------------------------------------------------------------------
\* The process restarts; _seed_admin only acts on an empty table.
Restart ==
  /\ request' = [t \in Threads |-> Idle]
  /\ users' = IF \E id \in UserIds : Exists(id) THEN users
              ELSE [users EXCEPT ![1] = SeededAdmin]
  /\ UNCHANGED raced

Next ==
  \/ \E id \in UserIds, row \in User : CreateUser(id, row)
  \/ \E t \in Threads :
       \/ \E caller, target \in UserIds, op \in {"patch", "delete"}, asked \in Asked :
            Authorize(t, caller, target, op, asked)
       \/ Check(t)
       \/ Commit(t)
  \/ Restart

Spec == Init /\ [][Next]_vars

-----------------------------------------------------------------------------
(* Properties.                                                               *)

TypeOK ==
  /\ users \in [UserIds -> User \cup {NoUser}]
  /\ request \in [Threads -> Request \cup {Idle}]
  /\ raced \in BOOLEAN

\* There is always an active administrator ("Guard against locking out the
\* last admin (by demotion or deactivation)", routers/admin.py), as long as no
\* two requests stand between their checks and their commits at once.
AdminRemains == raced \/ \E id \in UserIds : ActiveAdmin(id)

\* Whatever other requests did since the row was loaded, a request that changes
\* one flag of an account leaves the other flag as it finds it.
OtherFlagKept ==
  [][\A t \in Threads :
       LET r == request[t]
       IN  r # Idle /\ r.stage = "checked" /\ r.op = "patch" /\ request'[t] = Idle
           /\ Exists(r.target) /\ users'[r.target] # users[r.target] /\ users'[r.target] # NoUser
           => /\ r.asked.admin = Keep => users'[r.target].admin = users[r.target].admin
              /\ r.asked.active = Keep => users'[r.target].active = users[r.target].active]_vars
=============================================================================
