------------------------------ MODULE Accounts ------------------------------
(* The user table under its two kinds of writers: sign-ins through a         *)
(* provider (SsoAccounts) and requests of administrators (AdminAccounts).    *)
(* Each module has what the other one does to the rows among its own steps,  *)
(* reduced to the columns it reads, so a behaviour is seen by one of them.   *)
EXTENDS SsoAccounts

CONSTANTS
  Members,  \* primary keys of the user table, for the administrators
  Threads, NoUser, Idle, Keep

VARIABLES account, request, raced

Admin == INSTANCE AdminAccounts WITH UserIds <- Members, users <- account

ASSUME MembersAssumption == Admin!AccountsAssumption

VARIABLE writer  \* "provider" or "administrator"

adminVars == <<account, request, raced>>
accountsVars == <<vars, adminVars, writer>>

AccountsInit == writer \in {"provider", "administrator"} /\ Init /\ Admin!Init

AccountsNext ==
  \/ writer = "provider" /\ Next /\ UNCHANGED <<adminVars, writer>>
  \/ writer = "administrator" /\ Admin!Next /\ UNCHANGED <<vars, writer>>

AccountsSpec == AccountsInit /\ [][AccountsNext]_accountsVars

-----------------------------------------------------------------------------
(* Properties: those of SsoAccounts, and these of the administrators.        *)

\* There is always an active administrator, as long as no two requests stand
\* between their checks and their commits at once (AdminAccounts).
AdminRemains == Admin!AdminRemains

\* A request that changes one flag of an account leaves the other one as it
\* finds it, whatever other requests did since the row was loaded (AdminAccounts).
OtherFlagKept == Admin!OtherFlagKept
=============================================================================
