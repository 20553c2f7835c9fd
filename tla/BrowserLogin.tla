---------------------------- MODULE BrowserLogin ----------------------------
(* browser_session.py: the saved session of one site, the headed login that  *)
(* refreshes it on a thread of its own, and the Admin page that watches.     *)
(* A site is what the page in the browser looks like, as far as the checks   *)
(* of the sites tell it apart, and whether the operator really is logged in. *)
(*                                                                           *)
(* A definition directly above another one with the same parameters is a     *)
(* mutant of it (PROJECT.json, mutants).                                     *)
EXTENDS Integers, FiniteSets

CONSTANTS
  Workers,     \* login threads, one per accepted POST /sessions/{name}/login
  Kinds,       \* the checks of the sites, see LoggedIn
  MaxRestarts, \* bound on restarts of the server
  Nobody

ASSUME LoginAssumption ==
  /\ Kinds \subseteq {"marker", "not logged out", "left login"}
  /\ MaxRestarts \in Nat
  /\ Nobody \notin Workers

VARIABLES
  kind,     \* the check of this site
  task,     \* _TASKS[name]: its status and the worker it stands for
  file,     \* the storage_state file
  worker,   \* worker -> how far it is and the page it looks at
  view,     \* the Admin page: what it has read and shows (began is history: the
            \* task when it read the file)
  restarts

vars == <<kind, task, file, worker, view, restarts>>

\* A login form, a second factor or captcha, the home page with its "Sign in"
\* link, and the home page of an account.
Page == [loginUrl : BOOLEAN, marker : BOOLEAN, signIn : BOOLEAN]
LoginForm == [loginUrl |-> TRUE, marker |-> FALSE, signIn |-> FALSE]
Challenge == [loginUrl |-> FALSE, marker |-> FALSE, signIn |-> FALSE]
Visitor == [loginUrl |-> FALSE, marker |-> FALSE, signIn |-> TRUE]
Account == [loginUrl |-> FALSE, marker |-> TRUE, signIn |-> FALSE]
Pages == {LoginForm, Challenge, Visitor, Account}

NoFile == [exists |-> FALSE, by |-> Nobody, genuine |-> FALSE]
NoTask == [status |-> "none", by |-> Nobody]

Live == {"opening", "waiting", "settling", "saved"}

Init ==
  /\ kind \in Kinds
  /\ task = NoTask
  /\ file = NoFile
  /\ worker = [w \in Workers |-> [stage |-> "none", page |-> LoginForm, genuine |-> FALSE]]
  /\ view = [stage |-> "shown", file |-> NoFile, task |-> NoTask, began |-> NoTask]
  /\ restarts = 0

-----------------------------------------------------------------------------
(* The checks of the sites.                                                  *)

\* _looks_logged_out of the apply tools, for tasker and LinkedIn.
LooksLoggedOut(p) == p.loginUrl \/ (~p.marker /\ p.signIn)

LoggedIn(p) ==
  CASE kind = "marker" -> ~p.loginUrl /\ p.marker         \* 104
    [] kind = "not logged out" -> ~LooksLoggedOut(p)      \* tasker, LinkedIn
    [] kind = "left login" -> ~p.loginUrl                 \* Shopee

-----------------------------------------------------------------------------
(* start_login and its thread.                                               *)

\* 409 while one is running.
MayStartAnytime == TRUE
MayStart == task.status # "running"

StartLogin(w) ==
  /\ worker[w].stage = "none"
  /\ MayStart
  /\ task' = [status |-> "running", by |-> w]
  /\ worker' = [worker EXCEPT ![w].stage = "opening"]
  /\ UNCHANGED <<kind, file, view, restarts>>

Opened(w) ==
  /\ worker[w].stage = "opening"
  /\ worker' = [worker EXCEPT ![w].stage = "waiting"]
  /\ UNCHANGED <<kind, task, file, view, restarts>>

\* The operator and the site.
Navigate(w) ==
  /\ worker[w].stage = "waiting"
  /\ \E p \in Pages : worker' = [worker EXCEPT ![w].page = p]
  /\ UNCHANGED <<kind, task, file, view, restarts>>

Detect(w) ==
  /\ worker[w].stage = "waiting"
  /\ LoggedIn(worker[w].page)
  /\ worker' = [worker EXCEPT ![w].stage = "settling", ![w].genuine = worker[w].page = Account]
  /\ UNCHANGED <<kind, task, file, view, restarts>>

Save(w) ==
  /\ worker[w].stage = "settling"
  /\ file' = [exists |-> TRUE, by |-> w, genuine |-> worker[w].genuine]
  /\ worker' = [worker EXCEPT ![w].stage = "saved"]
  /\ UNCHANGED <<kind, task, view, restarts>>

Ended(w, status) ==
  /\ worker' = [worker EXCEPT ![w].stage = "ended"]
  /\ task' = [task EXCEPT !.status = status]
  /\ UNCHANGED <<kind, file, view, restarts>>

SucceedsAtOnce(w) == worker[w].stage = "settling" /\ Ended(w, "succeeded")
Succeeds(w) == worker[w].stage = "saved" /\ Ended(w, "succeeded")

\* The deadline passes without a login.
TimesOut(w) == worker[w].stage = "waiting" /\ Ended(w, "failed")

\* Chrome does not start, the login page does not load, the browser is closed.
StatusOnErrorKept == "running"
StatusOnError == "failed"

Raises(w) == worker[w].stage \in Live /\ Ended(w, StatusOnError)

\* The threads are daemons and the tasks live in memory.
Restart ==
  /\ restarts < MaxRestarts
  /\ restarts' = restarts + 1
  /\ task' = NoTask
  /\ worker' = [w \in Workers |->
       IF worker[w].stage \in Live THEN [worker[w] EXCEPT !.stage = "ended"] ELSE worker[w]]
  /\ UNCHANGED <<kind, file, view>>

-----------------------------------------------------------------------------
(* session_status, and renderAdminSessions of the browser.                   *)

\* Opened by hand, after a click on "Refresh login", or by its own timer while
\* a login is in progress.
ReadFile ==
  /\ view.stage = "shown"
  /\ view' = [view EXCEPT !.stage = "stat", !.file = file, !.began = task]
  /\ UNCHANGED <<kind, task, file, worker, restarts>>

ReadTask ==
  /\ view.stage = "stat"
  /\ view' = [view EXCEPT !.stage = "shown", !.task = task]
  /\ UNCHANGED <<kind, task, file, worker, restarts>>

Work(w) ==
  \/ Opened(w) \/ Detect(w) \/ Save(w) \/ Succeeds(w) \/ TimesOut(w) \/ Raises(w)

Next ==
  \/ \E w \in Workers : StartLogin(w) \/ Navigate(w) \/ Work(w)
  \/ Restart
  \/ ReadFile \/ ReadTask

Spec == Init /\ [][Next]_vars

\* Every wait of the login has a deadline or a timeout.
FairSpec == Spec /\ \A w \in Workers : WF_vars(Work(w)) /\ SF_vars(TimesOut(w))

-----------------------------------------------------------------------------
(* Properties.                                                               *)

TypeOK ==
  /\ kind \in Kinds
  /\ task \in [status : {"none", "running", "succeeded", "failed"}, by : Workers \cup {Nobody}]
  /\ file \in [exists : BOOLEAN, by : Workers \cup {Nobody}, genuine : BOOLEAN]
  /\ worker \in [Workers -> [stage : Live \cup {"none", "ended"}, page : Page, genuine : BOOLEAN]]
  /\ view.stage \in {"shown", "stat"}
  /\ restarts \in 0..MaxRestarts

\* One browser window per site, and it is the one the task speaks of.
OneWindow ==
  \A w \in Workers : worker[w].stage \in Live => task = [status |-> "running", by |-> w]

\* A login that is reported as succeeded has left its session in the file.
SucceededIsSaved == task.status = "succeeded" => file.exists /\ file.by = task.by

\* The session in the file belongs to a logged-in operator ("poll until the
\* site reports an authenticated session and save the storage_state"), for the
\* site whose check asks for an account marker; the other two take any page they
\* do not know as logged out.
SavedIsGenuine == file.exists /\ kind = "marker" => file.genuine

\* The file, the task and the windows of a site belong together: the three
\* above, and the types.
SessionIsSound == TypeOK /\ OneWindow /\ SucceededIsSaved /\ SavedIsGenuine

\* No login stays in progress: it succeeds, fails or goes away with the server.
LoginEnds == task.status = "running" ~> task.status # "running"

\* A page that shows a login as succeeded, and so has stopped polling, shows
\* the session that login has saved, unless the login ended between the two
\* reads of an answer.
ShownIsCurrent ==
  view.stage = "shown" /\ view.task.status = "succeeded" /\ view.began = view.task =>
    view.file.by = view.task.by
=============================================================================
