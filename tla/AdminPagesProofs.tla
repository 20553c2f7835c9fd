-------------------------- MODULE AdminPagesProofs --------------------------
(* Proofs about AdminPages: the browser sessions, the keys of the models and *)
(* the settings, for any number of logins, flows, restarts and requests.     *)
EXTENDS AdminPages, FiniteSetTheorems, SequenceTheorems, WellFoundedInduction, TLAPS

-----------------------------------------------------------------------------
(* Browser sessions.                                                         *)

\* What a login is about to save is genuine, what it has saved is in the file,
\* and a page that has read a success has read its file.
LoginInv ==
  /\ \A w \in Workers :
       /\ worker[w].page \in Pages
       /\ worker[w].stage \in {"settling", "saved"} /\ kind = "marker" => worker[w].genuine
       /\ worker[w].stage = "saved" => file.exists /\ file.by = w
  /\ view.began.status = "succeeded" => view.file.by = view.began.by

File == [exists : BOOLEAN, by : Workers \cup {Nobody}, genuine : BOOLEAN]
Task == [status : {"none", "running", "succeeded", "failed"}, by : Workers \cup {Nobody}]
Stage == {"opening", "waiting", "settling", "saved", "none", "ended"}

ViewTypeOK == view \in [stage : {"shown", "stat"}, file : File, task : Task, began : Task]

SessionInv == SessionIsSound /\ LoginInv /\ ViewTypeOK

LEMMA PagesArePages == Pages \subseteq Page
  BY DEF Pages, Page, LoginForm, Challenge, Visitor, Account

\* The check of a site for an account marker is met by an account only.
LEMMA MarkerIsGenuine ==
  ASSUME NEW p \in Pages, kind = "marker", LoggedIn(p)
  PROVE  p = Account
  BY DEF Pages, LoggedIn, LoginForm, Challenge, Visitor, Account

LEMMA SessionInit == Init => SessionInv
  <1> SUFFICES ASSUME Init PROVE SessionInv
    OBVIOUS
  <1>1. Nobody \notin Workers /\ Kinds \subseteq {"marker", "not logged out", "left login"}
        /\ MaxRestarts \in Nat
    BY LoginAssumption
  <1>2. NoTask \in Task /\ NoFile \in File /\ LoginForm \in Page /\ LoginForm \in Pages
    BY PagesArePages DEF NoTask, NoFile, Task, File, Pages
  <1>3. TypeOK
    <2>1. worker \in [Workers -> [stage : Live \cup {"none", "ended"}, page : Page, genuine : BOOLEAN]]
      BY <1>2 DEF Init
    <2>2. task \in Task /\ file \in File /\ kind \in Kinds /\ view.stage = "shown" /\ restarts = 0
      BY <1>2 DEF Init
    <2>3. MaxRestarts \in Nat
      BY <1>1
    <2>4. restarts \in 0..MaxRestarts /\ view.stage \in {"shown", "stat"}
      BY <2>2, <2>3
    <2> QED
      BY <2>1, <2>2, <2>4 DEF TypeOK, Task, File
  <1>4. ViewTypeOK
    BY <1>2 DEF Init, ViewTypeOK
  <1> QED
    BY <1>3, <1>4 DEF Init, SessionInv, SessionIsSound, OneWindow, SucceededIsSaved, SavedIsGenuine, LoginInv,
       NoTask, NoFile, Live, Pages

LEMMA WorkerTypes ==
  ASSUME TypeOK, NEW w \in Workers
  PROVE  /\ worker[w] \in [stage : Stage, page : Page, genuine : BOOLEAN]
         /\ Live \subseteq Stage /\ Live \cup {"none", "ended"} = Stage
  BY DEF TypeOK, Live, Stage

\* A login ends, one way or another.
LEMMA EndedKeeps ==
  ASSUME SessionInv, NEW w \in Workers, NEW status \in {"succeeded", "failed"}, Ended(w, status),
         worker[w].stage \in Live,
         status = "succeeded" => worker[w].stage = "saved"
  PROVE  SessionInv'
  <1>1. /\ TypeOK /\ task = [status |-> "running", by |-> w]
        /\ UNCHANGED <<kind, file, view, restarts>>
    BY DEF SessionInv, SessionIsSound, OneWindow, Ended
  <1>2. /\ worker'[w].stage = "ended" /\ worker'[w].page = worker[w].page
        /\ worker'[w].genuine = worker[w].genuine
        /\ \A v \in Workers \ {w} : worker'[v] = worker[v]
        /\ task' = [status |-> status, by |-> w]
        /\ worker' \in [Workers -> [stage : Live \cup {"none", "ended"}, page : Page, genuine : BOOLEAN]]
    BY <1>1, WorkerTypes DEF Ended, TypeOK
  <1>3. TypeOK'
    BY <1>1, <1>2 DEF TypeOK
  <1>4. \A v \in Workers \ {w} : worker[v].stage \notin Live
    BY <1>1 DEF SessionInv, SessionIsSound, OneWindow
  <1>5. OneWindow' /\ SucceededIsSaved' /\ SavedIsGenuine'
    BY <1>1, <1>2, <1>4
       DEF SessionInv, SessionIsSound, OneWindow, SucceededIsSaved, SavedIsGenuine, LoginInv, Live
  <1>6. LoginInv' /\ ViewTypeOK'
    BY <1>1, <1>2 DEF SessionInv, LoginInv, ViewTypeOK
  <1> QED
    BY <1>3, <1>5, <1>6 DEF SessionInv, SessionIsSound

\* A login goes on: its window stays the one the task speaks of.
LEMMA WorkerMoves ==
  ASSUME SessionInv, NEW w \in Workers, UNCHANGED <<kind, task, view, restarts>>,
         worker[w].stage \in Live, worker'[w].stage \in Live, worker'[w].page \in Pages,
         worker' \in [Workers -> [stage : Live \cup {"none", "ended"}, page : Page, genuine : BOOLEAN]],
         \A v \in Workers \ {w} : worker'[v] = worker[v],
         worker'[w].stage \in {"settling", "saved"} /\ kind = "marker" => worker'[w].genuine,
         \/ file' = file /\ worker'[w].stage # "saved"
         \/ /\ worker'[w].stage = "saved"
            /\ file' = [exists |-> TRUE, by |-> w, genuine |-> worker'[w].genuine]
  PROVE  SessionInv'
  <1>1. TypeOK /\ ViewTypeOK' /\ task = [status |-> "running", by |-> w]
    BY DEF SessionInv, SessionIsSound, OneWindow, ViewTypeOK
  <1>2. \A v \in Workers \ {w} : worker[v].stage \notin Live
    BY <1>1 DEF SessionInv, SessionIsSound, OneWindow
  <1>3. TypeOK'
    <2> DEFINE real == worker'[w].genuine
    <2>1. real \in BOOLEAN /\ (file' = file \/ file' = [exists |-> TRUE, by |-> w, genuine |-> real])
      OBVIOUS
    <2> HIDE DEF real
    <2>2. file' \in File
      <3>1. CASE file' = file
        BY <1>1, <3>1 DEF TypeOK, File
      <3>2. CASE file' = [exists |-> TRUE, by |-> w, genuine |-> real]
        BY <2>1, <3>2 DEF File
      <3> QED
        BY <2>1, <3>1, <3>2
    <2> QED
      BY <1>1, <2>2 DEF TypeOK, File
  <1>4. OneWindow' /\ SucceededIsSaved'
    BY <1>1, <1>2 DEF SessionInv, SessionIsSound, OneWindow, SucceededIsSaved
  <1>5. LoginInv'
    BY <1>2 DEF SessionInv, LoginInv, Live
  <1>6. SavedIsGenuine'
    <2>1. kind' = kind /\ SavedIsGenuine
      BY DEF SessionInv, SessionIsSound
    <2>2. CASE file' = file
      BY <2>1, <2>2 DEF SavedIsGenuine
    <2>3. CASE file' # file
      <3>1. worker'[w].stage = "saved" /\ file'.genuine = worker'[w].genuine
        BY <2>3
      <3>2. kind = "marker" => worker'[w].genuine
        BY <3>1
      <3> QED
        BY <2>1, <3>1, <3>2, Zenon DEF SavedIsGenuine
    <2> QED
      BY <2>2, <2>3
  <1> QED
    BY <1>1, <1>3, <1>4, <1>5, <1>6 DEF SessionInv, SessionIsSound

LEMMA WorkKeeps ==
  ASSUME SessionInv, NEW w \in Workers, Work(w) \/ Navigate(w)
  PROVE  SessionInv'
  <1>1. TypeOK /\ worker[w].page \in Pages /\ worker[w].genuine \in BOOLEAN
    BY WorkerTypes DEF SessionInv, SessionIsSound, LoginInv
  <1>2. CASE Opened(w)
    <2>1. /\ worker'[w].stage = "waiting" /\ worker'[w].page = worker[w].page
          /\ \A v \in Workers \ {w} : worker'[v] = worker[v]
          /\ worker' \in [Workers -> [stage : Live \cup {"none", "ended"}, page : Page, genuine : BOOLEAN]]
      BY <1>1, <1>2, WorkerTypes DEF Opened, TypeOK, Live
    <2> QED
      BY <1>1, <1>2, <2>1, WorkerMoves DEF Opened, Live
  <1>3. CASE Detect(w)
    <2>1. /\ worker'[w].stage = "settling" /\ worker'[w].page = worker[w].page
          /\ worker'[w].genuine = (worker[w].page = Account)
          /\ \A v \in Workers \ {w} : worker'[v] = worker[v]
          /\ worker' \in [Workers -> [stage : Live \cup {"none", "ended"}, page : Page, genuine : BOOLEAN]]
      <3> DEFINE ok == worker[w].page = Account
      <3>1. ok \in BOOLEAN /\ worker' = [worker EXCEPT ![w].stage = "settling", ![w].genuine = ok]
        BY <1>3 DEF Detect
      <3> HIDE DEF ok
      <3>2. /\ worker'[w].stage = "settling" /\ worker'[w].page = worker[w].page
            /\ worker'[w].genuine = ok
            /\ \A v \in Workers \ {w} : worker'[v] = worker[v]
            /\ worker' \in [Workers -> [stage : Live \cup {"none", "ended"}, page : Page, genuine : BOOLEAN]]
        BY <1>1, <3>1, WorkerTypes DEF TypeOK, Live
      <3> QED
        BY <3>2 DEF ok
    <2>2. kind = "marker" => worker[w].page = Account
      BY <1>1, <1>3, MarkerIsGenuine DEF Detect
    <2> QED
      BY <1>1, <1>3, <2>1, <2>2, WorkerMoves DEF Detect, Live
  <1>4. CASE Save(w)
    <2>1. /\ worker'[w].stage = "saved" /\ worker'[w].page = worker[w].page
          /\ worker'[w].genuine = worker[w].genuine
          /\ \A v \in Workers \ {w} : worker'[v] = worker[v]
          /\ worker' \in [Workers -> [stage : Live \cup {"none", "ended"}, page : Page, genuine : BOOLEAN]]
      BY <1>1, <1>4, WorkerTypes DEF Save, TypeOK, Live
    <2>2. kind = "marker" => worker[w].genuine
      BY <1>4 DEF Save, SessionInv, LoginInv
    <2>3. /\ worker'[w].stage = "saved"
          /\ file' = [exists |-> TRUE, by |-> w, genuine |-> worker'[w].genuine]
          /\ UNCHANGED <<kind, task, view, restarts>> /\ worker[w].stage \in Live
      BY <1>4, <2>1 DEF Save, Live
    <2> QED
      BY <1>1, <2>1, <2>2, <2>3, WorkerMoves DEF Live
  <1>5. CASE Navigate(w)
    <2>1. PICK p \in Pages : worker' = [worker EXCEPT ![w].page = p]
      BY <1>5 DEF Navigate
    <2>2. /\ worker'[w].stage = "waiting" /\ worker'[w].page = p
          /\ \A v \in Workers \ {w} : worker'[v] = worker[v]
          /\ worker' \in [Workers -> [stage : Live \cup {"none", "ended"}, page : Page, genuine : BOOLEAN]]
      BY <1>1, <1>5, <2>1, WorkerTypes, PagesArePages DEF Navigate, TypeOK, Live
    <2> QED
      BY <1>1, <1>5, <2>2, WorkerMoves DEF Navigate, Live
  <1>6. CASE Succeeds(w) \/ TimesOut(w) \/ Raises(w)
    BY <1>6, EndedKeeps DEF Succeeds, TimesOut, Raises, StatusOnError, Live
  <1> QED
    BY <1>2, <1>3, <1>4, <1>5, <1>6 DEF Work

LEMMA SessionStep == SessionInv /\ [Next]_vars => SessionInv'
  <1> SUFFICES ASSUME SessionInv, [Next]_vars PROVE SessionInv'
    OBVIOUS
  <1>0. TypeOK
    BY DEF SessionInv, SessionIsSound
  <1>1. ASSUME NEW w \in Workers, StartLogin(w) PROVE SessionInv'
    <2>1. /\ task.status # "running" /\ task' = [status |-> "running", by |-> w]
          /\ UNCHANGED <<kind, file, view, restarts>> /\ worker[w].stage = "none"
          /\ worker' = [worker EXCEPT ![w].stage = "opening"]
      BY <1>1 DEF StartLogin, MayStart
    <2>2. \A v \in Workers : worker[v].stage \notin Live
      BY <2>1 DEF SessionInv, SessionIsSound, OneWindow
    <2>3. /\ worker'[w].stage = "opening" /\ worker'[w].page = worker[w].page
          /\ \A v \in Workers \ {w} : worker'[v] = worker[v]
          /\ worker' \in [Workers -> [stage : Live \cup {"none", "ended"}, page : Page, genuine : BOOLEAN]]
      BY <1>0, <2>1, WorkerTypes DEF TypeOK, Live
    <2>4. TypeOK'
      BY <1>0, <2>1, <2>3 DEF TypeOK
    <2>5. OneWindow' /\ SucceededIsSaved' /\ SavedIsGenuine'
      BY <2>1, <2>2, <2>3 DEF SessionInv, SessionIsSound, OneWindow, SucceededIsSaved, SavedIsGenuine
    <2>6. LoginInv' /\ ViewTypeOK'
      BY <2>1, <2>3 DEF SessionInv, LoginInv, ViewTypeOK
    <2> QED
      BY <2>4, <2>5, <2>6 DEF SessionInv, SessionIsSound
  <1>2. ASSUME NEW w \in Workers, Work(w) \/ Navigate(w) PROVE SessionInv'
    BY <1>2, WorkKeeps
  <1>3. CASE Restart
    <2>1. /\ restarts' \in 0..MaxRestarts /\ task' = NoTask /\ UNCHANGED <<kind, file, view>>
      <3>1. MaxRestarts \in Nat /\ restarts \in 0..MaxRestarts
        BY <1>0, LoginAssumption DEF TypeOK
      <3> QED
        BY <1>3, <3>1 DEF Restart
    <2>2. \A w \in Workers :
            /\ worker'[w] = IF worker[w].stage \in Live
                            THEN [stage |-> "ended", page |-> worker[w].page, genuine |-> worker[w].genuine]
                            ELSE worker[w]
      BY <1>0, <1>3, WorkerTypes DEF Restart
    <2>3. \A w \in Workers :
            /\ worker'[w] \in [stage : Stage, page : Page, genuine : BOOLEAN]
            /\ worker'[w].page = worker[w].page /\ worker'[w].stage \notin Live
      <3> SUFFICES ASSUME NEW w \in Workers
                   PROVE  /\ worker'[w] \in [stage : Stage, page : Page, genuine : BOOLEAN]
                          /\ worker'[w].page = worker[w].page /\ worker'[w].stage \notin Live
        OBVIOUS
      <3>1. worker[w] \in [stage : Stage, page : Page, genuine : BOOLEAN]
        BY <1>0, WorkerTypes
      <3>2. "ended" \in Stage /\ "ended" \notin Live
        BY DEF Stage, Live
      <3>3. CASE worker[w].stage \in Live
        <4> DEFINE real == worker[w].genuine
                   page == worker[w].page
        <4>1. real \in BOOLEAN /\ page \in Page
          BY <3>1
        <4>2. worker'[w] = [stage |-> "ended", page |-> page, genuine |-> real]
          BY <2>2, <3>3
        <4> HIDE DEF real, page
        <4>3. worker'[w] \in [stage : Stage, page : Page, genuine : BOOLEAN]
          BY <3>2, <4>1, <4>2
        <4> QED
          BY <3>2, <4>2, <4>3 DEF page
      <3>4. CASE worker[w].stage \notin Live
        BY <2>2, <3>1, <3>4
      <3> QED
        BY <3>3, <3>4
    <2>4. TypeOK'
      <3>1. worker' \in [Workers -> [stage : Live \cup {"none", "ended"}, page : Page, genuine : BOOLEAN]]
        BY <1>3, <2>3 DEF Restart, Live, Stage
      <3> QED
        BY <1>0, <2>1, <3>1 DEF TypeOK, NoTask
    <2>5. OneWindow' /\ SucceededIsSaved' /\ SavedIsGenuine'
      BY <2>1, <2>3 DEF SessionInv, SessionIsSound, OneWindow, SucceededIsSaved, SavedIsGenuine, NoTask
    <2>6. LoginInv' /\ ViewTypeOK'
      BY <2>1, <2>3 DEF SessionInv, LoginInv, ViewTypeOK, Live
    <2> QED
      BY <2>4, <2>5, <2>6 DEF SessionInv, SessionIsSound
  <1>4. CASE ReadFile \/ ReadTask
    <2>1. UNCHANGED <<kind, task, file, worker, restarts>>
      BY <1>4 DEF ReadFile, ReadTask
    <2>2. ViewTypeOK /\ task \in Task /\ file \in File
      BY <1>0 DEF SessionInv, TypeOK, Task, File
    <2>3. ViewTypeOK' /\ (view'.began.status = "succeeded" => view'.file.by = view'.began.by)
      <3>1. CASE ReadFile
        <4>1. /\ view'.stage = "stat" /\ view'.file = file /\ view'.task = view.task /\ view'.began = task
              /\ ViewTypeOK'
          BY <2>2, <3>1 DEF ReadFile, ViewTypeOK
        <4> QED
          BY <4>1 DEF SessionInv, SessionIsSound, SucceededIsSaved
      <3>2. CASE ReadTask
        <4>1. /\ view'.stage = "shown" /\ view'.file = view.file /\ view'.task = task
              /\ view'.began = view.began /\ ViewTypeOK'
          BY <2>2, <3>2 DEF ReadTask, ViewTypeOK
        <4> QED
          BY <4>1 DEF SessionInv, LoginInv
      <3> QED
        BY <1>4, <3>1, <3>2
    <2>4. view'.stage \in {"shown", "stat"}
      BY <2>3 DEF ViewTypeOK
    <2> QED
      BY <2>1, <2>3, <2>4 DEF SessionInv, SessionIsSound, TypeOK, OneWindow, SucceededIsSaved, SavedIsGenuine, LoginInv
  <1>5. CASE UNCHANGED vars
    BY <1>5 DEF vars, SessionInv, ViewTypeOK, SessionIsSound, TypeOK, OneWindow, SucceededIsSaved, SavedIsGenuine, LoginInv
  <1> QED
    BY <1>1, <1>2, <1>3, <1>4, <1>5 DEF Next

LEMMA AdminSession == AdminSpec => []SessionInv
  <1>1. AdminInit => SessionInv
    BY SessionInit DEF AdminInit
  <1>2. [AdminNext]_adminVars => [Next]_vars
    BY DEF AdminNext, OfKey, OfStore, adminVars
  <1> QED
    BY <1>1, <1>2, SessionStep, PTL DEF AdminSpec

\* start_login and its thread, with any number of logins and restarts: one
\* browser window per site, a login that is reported as succeeded has left its
\* session in the file, and at a site with an account marker that session is of
\* an operator who was logged in.
THEOREM SessionIsSoundAlways == AdminSpec => []SessionIsSound
  BY AdminSession, PTL DEF SessionInv

\* session_status reads the file before the task: a page that shows a success
\* shows the session it has left, unless the login ended between the two reads.
THEOREM ShownIsCurrentAlways == AdminSpec => []ShownIsCurrent
  <1>1. SessionInv => ShownIsCurrent
    BY DEF SessionInv, LoginInv, ShownIsCurrent
  <1> QED
    BY <1>1, AdminSession, PTL

-----------------------------------------------------------------------------
(* Keys of the models.                                                       *)

\* What resolve() may have exported: a stored key that can be read, and before
\* the first clear nothing else than that or the environment of the start.
Unreadable == stored = None \/ stored.secret # secret

KeyInv ==
  /\ LlmKey!TypeOK
  /\ ~shared => \A v, w \in Flows : flow[v].stage # "idle" /\ flow[w].stage # "idle" => v = w
  /\ LlmKey!EnvironIsResolved
  /\ Unreadable /\ ~cleared =>
       environ = initial /\ \A w \in Flows : flow[w].stage = "found" => flow[w].key = initial

\* A flow moves, the stored key stays.
LEMMA FlowTypes ==
  ASSUME LlmKey!TypeOK, NEW w \in Flows
  PROVE  /\ flow[w] \in [stage : {"idle", "found", "calling"}, key : Keys \cup {None}]
         /\ flow[w].stage \in {"idle", "found", "calling"} /\ flow[w].key \in Keys \cup {None}
         /\ shared \in BOOLEAN /\ cleared \in BOOLEAN
  BY DEF LlmKey!TypeOK

\* The stored key is a key, and one that cannot be read is not used.
LEMMA Resolved ==
  ASSUME LlmKey!TypeOK
  PROVE  /\ LlmKey!get_llm_key \in Keys \cup {None}
         /\ Unreadable => LlmKey!get_llm_key = environ
  BY DEF LlmKey!TypeOK, LlmKey!get_llm_key, LlmKey!Decrypted, Unreadable

LEMMA KeyInit == LlmKey!Init => KeyInv
  <1> SUFFICES ASSUME LlmKey!Init PROVE KeyInv
    OBVIOUS
  <1>1. \A w \in Flows : flow[w] = [stage |-> "idle", key |-> None]
    BY DEF LlmKey!Init, LlmKey!Rest
  <1>2. flow \in [Flows -> [stage : {"idle", "found", "calling"}, key : Keys \cup {None}]]
    BY <1>1 DEF LlmKey!Init
  <1>3. LlmKey!TypeOK
    BY <1>2 DEF LlmKey!Init, LlmKey!TypeOK
  <1> QED
    BY <1>1, <1>3 DEF LlmKey!Init, KeyInv, LlmKey!EnvironIsResolved

LEMMA KeyStep == KeyInv /\ [LlmKey!Next]_LlmKey!vars => KeyInv'
  <1> SUFFICES ASSUME KeyInv, [LlmKey!Next]_LlmKey!vars PROVE KeyInv'
    OBVIOUS
  <1>0. LlmKey!TypeOK
    BY DEF KeyInv
  <1>1. ASSUME NEW k \in Keys, LlmKey!SetKey(k) PROVE KeyInv'
    <2>1. /\ stored' = [key |-> k, secret |-> secret] /\ stored' # None
          /\ UNCHANGED <<secret, initial, environ, flow, cleared, shared>>
      BY <1>0, <1>1, KeysOfPages DEF LlmKey!SetKey, LlmKey!TypeOK, LlmKey!KeysAssumption
    <2>2. ~Unreadable'
      BY <2>1 DEF Unreadable
    <2> QED
      BY <1>0, <2>1, <2>2 DEF KeyInv, LlmKey!TypeOK, LlmKey!EnvironIsResolved
  <1>2. CASE LlmKey!ClearKey
    BY <1>0, <1>2 DEF LlmKey!ClearKey, KeyInv, LlmKey!TypeOK, LlmKey!EnvironIsResolved
  <1>3. ASSUME NEW w \in Flows, LlmKey!FindKey(w) PROVE KeyInv'
    <2> DEFINE key == LlmKey!get_llm_key
               busy == \E v \in Flows : flow[v].stage # "idle"
    <2>1. /\ key \in Keys \cup {None} /\ (Unreadable => key = environ)
          /\ flow[w].stage = "idle" /\ flow' = [flow EXCEPT ![w] = [stage |-> "found", key |-> key]]
          /\ shared' = busy /\ UNCHANGED <<stored, secret, initial, environ, cleared>>
      BY <1>0, <1>3, Resolved DEF LlmKey!FindKey
    <2>2. busy \in BOOLEAN
      OBVIOUS
    <2> HIDE DEF key, busy
    <2>3. /\ flow'[w] = [stage |-> "found", key |-> key]
          /\ \A v \in Flows \ {w} : flow'[v] = flow[v]
          /\ flow' \in [Flows -> [stage : {"idle", "found", "calling"}, key : Keys \cup {None}]]
      BY <1>0, <2>1 DEF LlmKey!TypeOK
    <2>4. LlmKey!TypeOK'
      BY <1>0, <2>1, <2>2, <2>3 DEF LlmKey!TypeOK
    <2>5. ~shared' => \A v \in Flows : flow[v].stage = "idle"
      BY <2>1 DEF busy
    <2>6. ~shared' => \A v \in Flows \ {w} : flow'[v].stage = "idle"
      BY <2>3, <2>5
    <2>7. LlmKey!EnvironIsResolved'
      BY <2>3, <2>6 DEF LlmKey!EnvironIsResolved
    <2>8. ~shared' => \A u, v \in Flows : flow'[u].stage # "idle" /\ flow'[v].stage # "idle" => u = v
      BY <2>6
    <2>9. Unreadable' /\ ~cleared' =>
            environ' = initial' /\ \A v \in Flows : flow'[v].stage = "found" => flow'[v].key = initial'
      BY <2>1, <2>3 DEF KeyInv, Unreadable
    <2> QED
      BY <2>4, <2>7, <2>8, <2>9 DEF KeyInv
  <1>4. ASSUME NEW w \in Flows, LlmKey!ExportKey(w) PROVE KeyInv'
    <2>1. /\ flow[w].stage = "found" /\ environ' = flow[w].key
          /\ flow' = [flow EXCEPT ![w].stage = "calling"]
          /\ UNCHANGED <<stored, secret, initial, cleared, shared>>
      BY <1>4 DEF LlmKey!ExportKey, LlmKey!Exported
    <2>2. /\ flow'[w].stage = "calling" /\ flow'[w].key = flow[w].key
          /\ \A v \in Flows \ {w} : flow'[v] = flow[v]
          /\ flow' \in [Flows -> [stage : {"idle", "found", "calling"}, key : Keys \cup {None}]]
      BY <1>0, <2>1, FlowTypes DEF LlmKey!TypeOK
    <2>3. LlmKey!TypeOK'
      BY <1>0, <2>1, <2>2, FlowTypes DEF LlmKey!TypeOK
    <2> QED
      BY <2>1, <2>2, <2>3 DEF KeyInv, LlmKey!EnvironIsResolved, Unreadable
  <1>5. ASSUME NEW w \in Flows, LlmKey!FlowEnds(w) PROVE KeyInv'
    <2>1. /\ flow' = [flow EXCEPT ![w] = [stage |-> "idle", key |-> None]]
          /\ UNCHANGED <<stored, secret, initial, environ, cleared, shared>>
      BY <1>5 DEF LlmKey!FlowEnds, LlmKey!Rest
    <2>2. /\ flow'[w].stage = "idle" /\ \A v \in Flows \ {w} : flow'[v] = flow[v]
          /\ flow' \in [Flows -> [stage : {"idle", "found", "calling"}, key : Keys \cup {None}]]
      BY <1>0, <2>1 DEF LlmKey!TypeOK
    <2> QED
      BY <1>0, <2>1, <2>2 DEF KeyInv, LlmKey!TypeOK, LlmKey!EnvironIsResolved, Unreadable
  <1>6. CASE LlmKey!Restart
    <2>1. \A w \in Flows : flow'[w] = [stage |-> "idle", key |-> None]
      BY <1>6 DEF LlmKey!Restart, LlmKey!Rest
    <2>2. flow' \in [Flows -> [stage : {"idle", "found", "calling"}, key : Keys \cup {None}]]
      BY <1>6, <2>1 DEF LlmKey!Restart
    <2>3. LlmKey!TypeOK'
      BY <1>0, <1>6, <2>2 DEF LlmKey!Restart, LlmKey!TypeOK
    <2> QED
      BY <1>6, <2>1, <2>3 DEF LlmKey!Restart, KeyInv, LlmKey!EnvironIsResolved
  <1>7. CASE UNCHANGED LlmKey!vars
    BY <1>0, <1>7 DEF LlmKey!vars, KeyInv, LlmKey!TypeOK, LlmKey!EnvironIsResolved, Unreadable
  <1> QED
    BY <1>1, <1>2, <1>3, <1>4, <1>5, <1>6, <1>7 DEF LlmKey!Next

\* settings_store.py and provider.resolve(), with any number of flows and any
\* number of changes of the key: flows that do not resolve beside each other
\* call their LLM with the key the libraries read, and without a readable
\* stored key, and before a clear, the key is that of the environment.
THEOREM KeyIsResolvedAlways == AdminSpec => []KeyIsResolved
  <1>1. AdminInit => KeyInv
    BY KeyInit DEF AdminInit
  <1>2. [AdminNext]_adminVars => [LlmKey!Next]_LlmKey!vars
    BY DEF AdminNext, OfSession, OfStore, adminVars, keyVars, LlmKey!vars
  <1>3. KeyInv => KeyIsResolved
    BY Resolved DEF KeyInv, KeyIsResolved, LlmKey!KeyIsResolved, LlmKey!FallsBackToEnvironment, Unreadable
  <1> QED
    BY <1>1, <1>2, <1>3, KeyStep, PTL DEF AdminSpec

-----------------------------------------------------------------------------
(* Orders: the places of a finite set, and the least of some numbers.        *)

\* In a finite set whose elements come one after another, every place is taken:
\* B[p] is what comes up to p.
LEMMA PlacesAreTaken ==
  ASSUME NEW S, IsFiniteSet(S), NEW B \in [S -> SUBSET S],
         \A p \in S : p \in B[p],
         \A p, q \in S : p # q => B[p] # B[q] /\ (B[p] \subseteq B[q] \/ B[q] \subseteq B[p])
  PROVE  /\ Cardinality(S) \in Nat
         /\ \A k \in 1..Cardinality(S) : \E p \in S : Cardinality(B[p]) = k
         /\ \A p \in S : Cardinality(B[p]) \in 1..Cardinality(S)
         /\ \A p, q \in S : Cardinality(B[p]) = Cardinality(B[q]) => p = q
  <1> DEFINE n == Cardinality(S)
             f == [p \in S |-> Cardinality(B[p])]
  <1>1. n \in Nat
    BY FS_CardinalityType
  <1>2. ASSUME NEW p \in S PROVE IsFiniteSet(B[p]) /\ Cardinality(B[p]) \in 1..n
    <2>1. B[p] \in SUBSET S
      OBVIOUS
    <2>2. IsFiniteSet(B[p]) /\ Cardinality(B[p]) <= n
      BY <2>1, FS_Subset
    <2>3. Cardinality(B[p]) \in Nat /\ Cardinality(B[p]) # 0
      BY <2>2, FS_CardinalityType, FS_EmptySet
    <2> QED
      BY <1>1, <2>2, <2>3
  <1>3. ASSUME NEW p \in S, NEW q \in S, Cardinality(B[p]) = Cardinality(B[q]) PROVE p = q
    <2>1. B[p] \subseteq B[q] => B[p] = B[q]
      BY <1>2, <1>3, FS_Subset
    <2>2. B[q] \subseteq B[p] => B[p] = B[q]
      BY <1>2, <1>3, FS_Subset
    <2> QED
      BY <2>1, <2>2
  <1>4. f \in Injection(S, 1..n)
    <2>1. f \in [S -> 1..n]
      BY <1>2
    <2>2. \A p, q \in S : f[p] = f[q] => p = q
      BY <1>3
    <2> QED
      BY <2>1, <2>2 DEF Injection, IsInjective
  <1>5. IsFiniteSet(1..n) /\ Cardinality(1..n) = n
    BY <1>1, FS_Interval
  <1>6. f \in Surjection(S, 1..n)
    BY <1>4, <1>5, FS_Injection
  <1>7. \A k \in 1..n : \E p \in S : f[p] = k
    BY <1>6 DEF Surjection
  <1> QED
    BY <1>1, <1>2, <1>3, <1>7

LEMMA LeastNat ==
  ASSUME NEW S \in SUBSET Nat, S # {}
  PROVE  \E m \in S : \A n \in S : m <= n
  <1> DEFINE R == OpToRel(<, Nat)
  <1>1. PICK m \in S : \A n \in S : ~(<<n, m>> \in R)
    <2>1. IsWellFoundedOn(R, Nat)
      BY NatLessThanWellFounded
    <2> HIDE DEF R
    <2> QED
      BY <2>1, WFMin
  <1>2. \A n \in Nat : n < m => <<n, m>> \in R
    BY DEF OpToRel
  <1> HIDE DEF R
  <1>3. \A n \in S : ~(n < m)
    BY <1>1, <1>2, Zenon
  <1> QED
    BY <1>3

-----------------------------------------------------------------------------
(* The list of letters.                                                      *)

Letter == [name : Names, text : Nat]

Distinct(letters) == \A i, k \in DOMAIN letters : letters[i].name = letters[k].name => i = k
Descending(letters) == \A i, k \in DOMAIN letters : i < k => letters[k].text < letters[i].text

LEMMA SameSizes == \A S : Store!Cardinality(S) = Cardinality(S)
  BY Zenon DEF Store!Cardinality, Cardinality

LEMMA StoreConstants ==
  /\ MaxLetters \in Nat \ {0} /\ MaxAsked \in Nat /\ Unset \notin Judges
  /\ Known \cap Forgotten = {} /\ Slugs \cap (Known \cup Forgotten) = {}
  /\ Unset \notin Seq(Letter)
  BY StoreOfPages DEF Store!StoreAssumption, Letter

\* What a list comprehension keeps is the list at rising places, all of them.
LEMMA OthersAreKept ==
  ASSUME NEW letters \in Seq(Letter), NEW name
  PROVE  \E n \in Nat : \E at \in [1..n -> DOMAIN letters] :
           /\ Store!Others(letters, name) = [k \in 1..n |-> letters[at[k]]]
           /\ \A k \in 1..n : letters[at[k]].name # name
           /\ \A k, l \in 1..n : k < l => at[k] < at[l]
           /\ \A i \in DOMAIN letters : letters[i].name # name => \E k \in 1..n : at[k] = i
           /\ n <= Len(letters)
  <1> DEFINE S == {i \in DOMAIN letters : letters[i].name # name}
             B == [p \in S |-> {h \in S : h <= p}]
             n == Cardinality(S)
             At(k) == CHOOSE i \in S : Cardinality({h \in S : h <= i}) = k
             at == [k \in 1..n |-> At(k)]
  <1>1. DOMAIN letters = 1..Len(letters) /\ Len(letters) \in Nat /\ S \in SUBSET (1..Len(letters))
    OBVIOUS
  <1>2. IsFiniteSet(S) /\ n <= Len(letters)
    <2>1. IsFiniteSet(1..Len(letters)) /\ Cardinality(1..Len(letters)) = Len(letters)
      BY <1>1, FS_Interval
    <2> HIDE DEF S
    <2>2. IsFiniteSet(S) /\ Cardinality(S) <= Cardinality(1..Len(letters))
      BY <1>1, <2>1, FS_Subset
    <2> QED
      BY <2>1, <2>2
  <1>3. \A p \in S : p \in Nat
    BY <1>1
  <1>4. B \in [S -> SUBSET S] /\ (\A p \in S : p \in B[p])
    BY <1>3
  <1>5. \A p, q \in S : p < q => B[p] \subseteq B[q] /\ q \in B[q] /\ q \notin B[p]
    BY <1>3
  <1>6. \A p, q \in S : p # q => B[p] # B[q] /\ (B[p] \subseteq B[q] \/ B[q] \subseteq B[p])
    <2> SUFFICES ASSUME NEW p \in S, NEW q \in S, p # q
                 PROVE  B[p] # B[q] /\ (B[p] \subseteq B[q] \/ B[q] \subseteq B[p])
      OBVIOUS
    <2> HIDE DEF B
    <2>1. p < q \/ q < p
      BY <1>3
    <2> QED
      BY <1>5, <2>1
  <1>7. \A p \in S : B[p] = {h \in S : h <= p}
    OBVIOUS
  <1>8. Store!Others(letters, name) = [k \in 1..n |-> letters[At(k)]]
    BY Zenon DEF Store!Others, Store!Cardinality, Cardinality
  <1>9. \A i \in S : i \in DOMAIN letters /\ letters[i].name # name
    OBVIOUS
  <1>10. \A i \in DOMAIN letters : letters[i].name # name => i \in S
    OBVIOUS
  <1> HIDE DEF S, B
  <1>11. /\ n \in Nat /\ (\A k \in 1..n : \E p \in S : Cardinality(B[p]) = k)
         /\ \A p \in S : Cardinality(B[p]) \in 1..n
         /\ \A p, q \in S : Cardinality(B[p]) = Cardinality(B[q]) => p = q
    BY <1>2, <1>4, <1>6, PlacesAreTaken
  <1>12. \A k \in 1..n : At(k) \in S /\ Cardinality(B[At(k)]) = k
    <2>1. \A k \in 1..n : \E p \in S : Cardinality({h \in S : h <= p}) = k
      BY <1>7, <1>11
    <2> QED
      BY <1>7, <2>1
  <1> HIDE DEF At
  <1>13. \A p, q \in S : p < q => Cardinality(B[p]) <= Cardinality(B[q])
    <2>1. \A p \in S : IsFiniteSet(B[p])
      BY <1>2, <1>4, FS_Subset
    <2> QED
      BY <1>5, <2>1, FS_Subset
  <1>14. \A k, l \in 1..n : k < l => At(k) < At(l)
    <2> SUFFICES ASSUME NEW k \in 1..n, NEW l \in 1..n, k < l PROVE At(k) < At(l)
      OBVIOUS
    <2>1. At(k) \in S /\ At(l) \in S /\ Cardinality(B[At(k)]) = k /\ Cardinality(B[At(l)]) = l
      BY <1>12
    <2>2. ~(At(l) < At(k)) /\ At(k) # At(l)
      BY <1>13, <2>1
    <2> QED
      BY <1>3, <2>1, <2>2
  <1>15. \A i \in S : \E k \in 1..n : At(k) = i
    BY <1>11, <1>12
  <1> HIDE DEF n
  <1>16. at \in [1..n -> DOMAIN letters] /\ \A k \in 1..n : at[k] = At(k)
    BY <1>9, <1>12
  <1> HIDE DEF at
  <1>17. Store!Others(letters, name) = [k \in 1..n |-> letters[at[k]]]
    BY <1>8, <1>16
  <1>18. \A k \in 1..n : letters[at[k]].name # name
    BY <1>9, <1>12, <1>16
  <1>19. \A k, l \in 1..n : k < l => at[k] < at[l]
    BY <1>14, <1>16
  <1>20. \A i \in DOMAIN letters : letters[i].name # name => \E k \in 1..n : at[k] = i
    BY <1>10, <1>15, <1>16
  <1> QED
    BY <1>2, <1>11, <1>16, <1>17, <1>18, <1>19, <1>20, Zenon DEF n

\* The other letters are a list of letters of the list, with their order,
LEMMA OthersList ==
  ASSUME NEW letters \in Seq(Letter), Distinct(letters), NEW name, NEW others, others = Store!Others(letters, name)
  PROVE  /\ others \in Seq(Letter) /\ Len(others) <= Len(letters) /\ Distinct(others)
         /\ \A k \in DOMAIN others : others[k].name # name /\ \E i \in DOMAIN letters : others[k] = letters[i]
         /\ \A i \in DOMAIN letters : letters[i].name # name => \E k \in DOMAIN others : others[k] = letters[i]
         /\ Descending(letters) => Descending(others)
  <1>0. PICK n \in Nat : \E at \in [1..n -> DOMAIN letters] :
           /\ others = [k \in 1..n |-> letters[at[k]]]
           /\ \A k \in 1..n : letters[at[k]].name # name
           /\ \A k, l \in 1..n : k < l => at[k] < at[l]
           /\ \A i \in DOMAIN letters : letters[i].name # name => \E k \in 1..n : at[k] = i
           /\ n <= Len(letters)
    BY OthersAreKept
  <1>1. PICK at \in [1..n -> DOMAIN letters] :
           /\ others = [k \in 1..n |-> letters[at[k]]]
           /\ \A k \in 1..n : letters[at[k]].name # name
           /\ \A k, l \in 1..n : k < l => at[k] < at[l]
           /\ \A i \in DOMAIN letters : letters[i].name # name => \E k \in 1..n : at[k] = i
           /\ n <= Len(letters)
    BY <1>0
  <1>2. /\ \A i \in DOMAIN letters : letters[i] \in Letter
        /\ \A k \in 1..n : at[k] \in DOMAIN letters
    OBVIOUS
  <1>3. others \in [1..n -> Letter] /\ \A k \in 1..n : others[k] = letters[at[k]]
    BY <1>1, <1>2
  <1>4. others \in Seq(Letter) /\ DOMAIN others = 1..n /\ Len(others) = n
    <2>1. others \in Seq(Letter) /\ DOMAIN others = 1..n
      BY <1>1, <1>3, SeqDef
    <2> QED
      BY <1>1, <2>1
  <1>5. Distinct(others)
    <2> SUFFICES ASSUME NEW k \in 1..n, NEW l \in 1..n, others[k].name = others[l].name PROVE k = l
      BY <1>4 DEF Distinct
    <2>1. at[k] = at[l]
      BY <1>2, <1>3 DEF Distinct
    <2>2. ~(k < l) /\ ~(l < k)
      <3>1. \A i \in DOMAIN letters : ~(i < i)
        OBVIOUS
      <3> QED
        BY <1>1, <1>2, <2>1, <3>1, Zenon
    <2> QED
      BY <2>2
  <1>6. Descending(letters) => Descending(others)
    <2> SUFFICES ASSUME Descending(letters), NEW k \in 1..n, NEW l \in 1..n, k < l
                 PROVE  others[l].text < others[k].text
      BY <1>4 DEF Descending
    <2>1. at[k] < at[l] /\ at[k] \in DOMAIN letters /\ at[l] \in DOMAIN letters
      BY <1>1, <1>2
    <2>2. letters[at[l]].text < letters[at[k]].text
      BY <2>1 DEF Descending
    <2> QED
      BY <1>3, <2>2
  <1>7. \A k \in DOMAIN others : others[k].name # name /\ \E i \in DOMAIN letters : others[k] = letters[i]
    BY <1>1, <1>2, <1>3, <1>4
  <1>8. \A i \in DOMAIN letters : letters[i].name # name => \E k \in DOMAIN others : others[k] = letters[i]
    <2> SUFFICES ASSUME NEW i \in DOMAIN letters, letters[i].name # name
                 PROVE  \E k \in DOMAIN others : others[k] = letters[i]
      OBVIOUS
    <2>1. PICK k \in 1..n : at[k] = i
      BY <1>1
    <2>2. others[k] = letters[i] /\ k \in DOMAIN others
      BY <1>3, <1>4, <2>1
    <2> QED
      BY <2>2
  <1> QED
    BY <1>1, <1>4, <1>5, <1>6, <1>7, <1>8

\* A list with a letter saved in front: it has others of the list behind it, and what
\* does not fit is the oldest.
WithLetter(letters, name, text, list) ==
  /\ list \in Seq(Letter) /\ Len(list) <= MaxLetters /\ Distinct(list)
  /\ 1 \in DOMAIN list /\ list[1] = [name |-> name, text |-> text]
  /\ \A k \in DOMAIN list :
       \/ k = 1
       \/ /\ list[k].name # name
          /\ \E i \in DOMAIN letters : list[k] = letters[i]
  /\ Descending(letters) /\ (\A i \in DOMAIN letters : letters[i].text < text) =>
       /\ Descending(list)
       /\ \A i \in DOMAIN letters :
            letters[i].name # name /\ (\A k \in DOMAIN list : list[k] # letters[i]) =>
              Len(list) = MaxLetters /\ \A k \in DOMAIN list : letters[i].text < list[k].text

\* and that is what a saved letter makes of it.
LEMMA UpsertedList ==
  ASSUME NEW letters \in Seq(Letter), Distinct(letters), NEW name \in Names, NEW text \in Nat,
         Len(letters) <= MaxLetters
  PROVE  WithLetter(letters, name, text, Store!Upserted(letters, name, text))
  <1> DEFINE new == [name |-> name, text |-> text]
             list == Store!Upserted(letters, name, text)
             others == Store!Others(letters, name)
             all == <<new>> \o others
  <1>1. /\ others \in Seq(Letter) /\ Len(others) <= Len(letters) /\ Distinct(others)
        /\ \A k \in DOMAIN others : others[k].name # name /\ \E i \in DOMAIN letters : others[k] = letters[i]
        /\ \A i \in DOMAIN letters : letters[i].name # name => \E k \in DOMAIN others : others[k] = letters[i]
        /\ Descending(letters) => Descending(others)
    BY OthersList
  <1>2. new \in Letter /\ new.name = name /\ new.text = text
    BY DEF Letter
  <1>3. list = IF Len(all) <= MaxLetters THEN all ELSE SubSeq(all, 1, MaxLetters)
    BY Zenon DEF Store!Upserted
  <1> HIDE DEF new, others, list
  <1>4. /\ all \in Seq(Letter) /\ Len(all) = Len(others) + 1 /\ Len(others) \in Nat
        /\ all[1] = new /\ \A k \in 1..Len(others) : all[k + 1] = others[k]
    BY <1>1, <1>2
  <1>5. MaxLetters \in Nat \ {0} /\ Len(letters) \in Nat
    BY StoreConstants
  <1> DEFINE m == IF Len(all) <= MaxLetters THEN Len(all) ELSE MaxLetters
  <1> HIDE DEF all
  <1>6. /\ list \in Seq(Letter) /\ Len(list) = m /\ m \in Nat /\ m >= 1 /\ m <= Len(all) /\ m <= MaxLetters
        /\ DOMAIN list = 1..m /\ \A k \in 1..m : list[k] = all[k]
    <2>1. CASE Len(all) <= MaxLetters
      BY <1>3, <1>4, <1>5, <2>1
    <2>2. CASE ~(Len(all) <= MaxLetters)
      <3>1. list = SubSeq(all, 1, MaxLetters) /\ m = MaxLetters /\ MaxLetters <= Len(all)
        BY <1>3, <1>4, <1>5, <2>2
      <3>2. \A k \in 1..MaxLetters : k \in 1..Len(all) /\ all[k] \in Letter
        BY <1>4, <1>5, <3>1
      <3>3. /\ list \in Seq(Letter) /\ Len(list) = MaxLetters
            /\ \A k \in 1..MaxLetters : list[k] = all[1 + k - 1]
        BY <1>4, <1>5, <3>1, <3>2, SubSeqProperties
      <3> QED
        BY <1>5, <3>1, <3>3
    <2> QED
      BY <2>1, <2>2
  <1> HIDE DEF m
  <1>7. \A k \in 1..m : k # 1 => k - 1 \in DOMAIN others /\ list[k] = others[k - 1]
    <2> SUFFICES ASSUME NEW k \in 1..m, k # 1 PROVE k - 1 \in DOMAIN others /\ list[k] = others[k - 1]
      OBVIOUS
    <2>1. k - 1 \in 1..Len(others) /\ (k - 1) + 1 = k
      BY <1>4, <1>6
    <2>2. all[(k - 1) + 1] = others[k - 1]
      BY <1>4, <2>1
    <2> QED
      BY <1>1, <1>6, <2>1, <2>2
  <1>8. list[1] = new /\ 1 \in DOMAIN list
    BY <1>4, <1>6
  <1>9. \A k \in DOMAIN list : k = 1 \/ (list[k].name # name /\ \E i \in DOMAIN letters : list[k] = letters[i])
    BY <1>1, <1>6, <1>7
  <1>10. Distinct(list)
    <2> SUFFICES ASSUME NEW k \in 1..m, NEW l \in 1..m, list[k].name = list[l].name PROVE k = l
      BY <1>6 DEF Distinct
    <2>1. CASE k = 1 \/ l = 1
      BY <1>2, <1>6, <1>8, <1>9, <2>1
    <2>2. CASE k # 1 /\ l # 1
      <3>1. /\ k - 1 \in DOMAIN others /\ l - 1 \in DOMAIN others
            /\ others[k - 1].name = others[l - 1].name
        BY <1>7, <2>2
      <3>2. k - 1 = l - 1
        BY <1>1, <3>1, Zenon DEF Distinct
      <3> QED
        BY <1>6, <3>2
    <2> QED
      BY <2>1, <2>2
  <1>11. ASSUME Descending(letters), \A i \in DOMAIN letters : letters[i].text < text
         PROVE  Descending(list)
    <2> SUFFICES ASSUME NEW k \in 1..m, NEW l \in 1..m, k < l PROVE list[l].text < list[k].text
      BY <1>6 DEF Descending
    <2>1. l # 1 /\ l - 1 \in DOMAIN others /\ list[l] = others[l - 1]
      BY <1>6, <1>7
    <2>2. CASE k = 1
      BY <1>1, <1>2, <1>8, <1>11, <2>1, <2>2
    <2>3. CASE k # 1
      <3>1. k - 1 \in DOMAIN others /\ list[k] = others[k - 1] /\ k - 1 < l - 1
        BY <1>6, <1>7, <2>3
      <3> QED
        BY <1>1, <1>11, <2>1, <3>1 DEF Descending
    <2> QED
      BY <2>2, <2>3
  <1>12. ASSUME Descending(letters), \A i \in DOMAIN letters : letters[i].text < text,
                NEW i \in DOMAIN letters, letters[i].name # name, \A k \in DOMAIN list : list[k] # letters[i]
         PROVE  Len(list) = MaxLetters /\ \A k \in DOMAIN list : letters[i].text < list[k].text
    <2>1. PICK p \in DOMAIN others : others[p] = letters[i]
      BY <1>1, <1>12
    <2>2. p \in 1..Len(others) /\ p + 1 \in 1..Len(all) /\ all[p + 1] = letters[i]
      BY <1>1, <1>4, <2>1
    <2>3. ~(p + 1 \in 1..m)
      BY <1>6, <1>12, <2>2
    <2>4. m = MaxLetters /\ p >= m
      BY <1>4, <1>5, <2>2, <2>3 DEF m
    <2>5. ASSUME NEW k \in 1..m PROVE letters[i].text < list[k].text
      <3>1. CASE k = 1
        BY <1>2, <1>8, <1>12, <3>1
      <3>2. CASE k # 1
        <4>1. k - 1 \in DOMAIN others /\ list[k] = others[k - 1] /\ k - 1 < p
          BY <1>6, <1>7, <2>2, <2>4, <3>2
        <4> QED
          BY <1>1, <1>12, <2>1, <4>1 DEF Descending
      <3> QED
        BY <3>1, <3>2
    <2> QED
      BY <1>6, <2>4, <2>5
  <1> QED
    BY <1>6, <1>8, <1>9, <1>10, <1>11, <1>12 DEF new, list, WithLetter

-----------------------------------------------------------------------------
(* The requests about letters.                                               *)

LetterRequest ==
  [stage : {"look", "commit"}, no : Nat, key : {"letters"}, row : BOOLEAN,
   change : {"save", "delete"}, name : Names, read : Seq(Letter)]

IsOpen(r) == request[r].stage # "idle"

\* A number that no open request has, and none that has failed.
Settled(text) == /\ text \in 1..asked /\ text \notin failed
                 /\ \A r \in Requests : IsOpen(r) => request[r].no # text

\* A list that was stored: short, each name once, each letter of a request that is done.
Sound(letters) ==
  /\ letters \in Seq(Letter) /\ Len(letters) <= MaxLetters /\ Distinct(letters)
  /\ \A i \in DOMAIN letters : Settled(letters[i].text)

Later(n) == {m \in Names : saved[m] > saved[n]}
IsListed(n) == \E i \in DOMAIN Store!get_cover_letters : Store!get_cover_letters[i].name = n

\* As long as no two changes overlap: the letters are the ones saved last.
Latest ==
  LET letters == Store!get_cover_letters IN
  /\ Descending(letters)
  /\ \A i \in DOMAIN letters : letters[i].name \notin deleted /\ letters[i].text = saved[letters[i].name]
  /\ \A n \in Names : ~IsListed(n) /\ n \notin deleted /\ saved[n] # 0 =>
       Cardinality(Later(n)) >= MaxLetters

Untouched ==
  /\ setting = [letters |-> setting.letters, enabled |-> Unset, judge |-> Unset]
  /\ custom = <<>> /\ astray = FALSE

LettersInv ==
  /\ Untouched
  /\ request \in [Requests -> {Store!Idle} \cup LetterRequest]
  /\ asked \in 0..MaxAsked
  /\ setting.letters = Unset \/ setting.letters \in Seq(Letter)
  /\ saved \in [Names -> Nat] /\ IsFiniteSet({n \in Names : saved[n] # 0}) /\ overlapped \in BOOLEAN
  /\ \A r \in Requests : IsOpen(r) => request[r].no \in 1..asked /\ request[r].no \notin failed
  /\ \A r, w \in Requests : IsOpen(r) /\ IsOpen(w) /\ r # w => request[r].no # request[w].no
  /\ failed \subseteq 1..asked
  /\ Sound(Store!get_cover_letters)
  /\ \A r \in Requests : IsOpen(r) =>
       Sound(request[r].read) /\ \A i \in DOMAIN request[r].read : request[r].read[i].text < request[r].no
  /\ overlapped \/ Latest

LEMMA StoreBegins ==
  ASSUME Store!Init
  PROVE  /\ setting = [letters |-> Unset, enabled |-> setting.enabled, judge |-> Unset]
         /\ setting.enabled \in {Unset, Known \cup Forgotten}
         /\ custom = <<>> /\ astray = FALSE /\ asked = 0 /\ failed = {} /\ overlapped = FALSE /\ reused = FALSE
         /\ saved = [n \in Names |-> 0] /\ deleted = {}
         /\ request = [r \in Requests |-> Store!Idle] /\ asked \in 0..MaxAsked
         /\ Store!get_cover_letters = <<>>
  <1>1. MaxAsked \in Nat
    BY StoreConstants
  <1>2. PICK enabled \in {Unset, Known \cup Forgotten} :
          setting = [letters |-> Unset, enabled |-> enabled, judge |-> Unset]
    BY DEF Store!Init
  <1>3. setting.letters = Unset /\ setting.enabled = enabled
    BY <1>2
  <1>4. Store!get_cover_letters = <<>>
    BY <1>3 DEF Store!get_cover_letters
  <1> QED
    BY <1>1, <1>2, <1>3, <1>4 DEF Store!Init

LEMMA LettersInit ==
  ASSUME Store!Init, setting.enabled = Unset
  PROVE  LettersInv
  <1>1. request \in [Requests -> {Store!Idle} \cup LetterRequest] /\ \A r \in Requests : ~IsOpen(r)
    BY StoreBegins DEF IsOpen, Store!Idle
  <1>2. <<>> \in Seq(Letter) /\ Len(<<>>) = 0 /\ DOMAIN <<>> = {}
    OBVIOUS
  <1>3. Sound(Store!get_cover_letters) /\ Latest
    BY <1>2, StoreBegins, StoreConstants DEF Sound, Latest, Distinct, Descending
  <1>4. setting.letters = Unset /\ saved \in [Names -> Nat] /\ failed \subseteq 1..asked
        /\ IsFiniteSet({n \in Names : saved[n] # 0})
    <2>1. saved = [n \in Names |-> 0] /\ {n \in Names : saved[n] # 0} = {}
      BY StoreBegins
    <2>2. IsFiniteSet({n \in Names : saved[n] # 0})
      BY <2>1, FS_EmptySet
    <2> QED
      BY <2>1, <2>2, StoreBegins
  <1> QED
    BY <1>1, <1>3, <1>4, StoreBegins DEF LettersInv, Untouched

\* What the invariant says is what is checked.
LEMMA LettersShow == LettersInv => StoreIsSound
  <1> SUFFICES ASSUME LettersInv PROVE StoreIsSound
    OBVIOUS
  <1> DEFINE letters == Store!get_cover_letters
  <1>1. /\ Sound(letters) /\ letters \in Seq(Letter) /\ setting.enabled = Unset /\ setting.judge = Unset
        /\ DOMAIN letters = 1..Len(letters) /\ \A i \in DOMAIN letters : letters[i] \in Letter
    BY DEF LettersInv, Untouched, Sound
  <1>2. Store!StoreTypeOK
    BY <1>1 DEF LettersInv, Store!StoreTypeOK, Store!get_cover_letters, Letter
  <1>3. Store!ListIsSound
    BY <1>1, Zenon DEF Store!ListIsSound, Sound, Distinct, Settled
  <1>4. Store!LettersAreKept
    <2> SUFFICES ASSUME ~overlapped PROVE Store!LettersAreKept
      BY DEF Store!LettersAreKept
    <2>1. Latest
      BY DEF LettersInv
    <2> HIDE DEF letters
    <2>2. ASSUME NEW i \in DOMAIN letters
          PROVE  /\ letters[i].name \notin deleted /\ letters[i].text = saved[letters[i].name]
                 /\ i > 1 => letters[i].text < letters[i - 1].text
      <3>1. i > 1 => i - 1 \in DOMAIN letters /\ i - 1 < i
        BY <1>1
      <3> QED
        BY <2>1, <3>1 DEF Latest, Descending, letters
    <2>3. ASSUME NEW n \in Names \ ({letters[i].name : i \in DOMAIN letters} \cup deleted), saved[n] # 0
          PROVE  Store!Cardinality({m \in Names : saved[m] > saved[n]}) >= MaxLetters
      <3>1. ~IsListed(n)
        BY <2>3 DEF IsListed, letters
      <3>2. Cardinality(Later(n)) >= MaxLetters
        BY <2>1, <2>3, <3>1 DEF Latest
      <3> QED
        BY <3>2, SameSizes DEF Later
    <2> QED
      BY <2>2, <2>3 DEF Store!LettersAreKept, letters
  <1>5. Store!AutomationsAreOne
    BY DEF LettersInv, Untouched, Store!AutomationsAreOne
  <1>6. Store!ForgottenStayOff
    BY <1>1, StoreConstants DEF LettersInv, Untouched, Store!ForgottenStayOff, Store!IsEnabled,
       Store!get_enabled_automations
  <1> QED
    BY <1>2, <1>3, <1>4, <1>5, <1>6 DEF StoreIsSound, Store!StoreIsSound

LEMMA LetterTypes ==
  ASSUME LettersInv, NEW r \in Requests, IsOpen(r)
  PROVE  /\ request[r] \in LetterRequest /\ request[r].key = "letters" /\ request[r].name \in Names
         /\ request[r].no \in Nat /\ request[r].read \in Seq(Letter)
         /\ request[r].change \in {"save", "delete"} /\ request[r].stage \in {"look", "commit"}
         /\ Sound(request[r].read) /\ Distinct(request[r].read) /\ Len(request[r].read) <= MaxLetters
         /\ request[r].row \in BOOLEAN
  <1>1. request[r] \in LetterRequest
    BY DEF LettersInv, IsOpen, Store!Idle
  <1>2. Sound(request[r].read)
    BY DEF LettersInv
  <1> QED
    BY <1>1, <1>2 DEF LetterRequest, Sound

\* What a request writes is a list again.
LEMMA ValueIsList ==
  ASSUME LettersInv, NEW r \in Requests, IsOpen(r)
  PROVE  /\ Store!Value(request[r]) \in Seq(Letter) /\ Store!Value(request[r]) # Unset
         /\ Store!Value(request[r]) =
              IF request[r].change = "save" THEN Store!Upserted(request[r].read, request[r].name, request[r].no)
              ELSE Store!Others(request[r].read, request[r].name)
  <1> DEFINE q == request[r]
  <1>1. Store!Value(q) = IF q.change = "save" THEN Store!Upserted(q.read, q.name, q.no) ELSE Store!Others(q.read, q.name)
    BY LetterTypes DEF Store!Value
  <1>2. /\ q.read \in Seq(Letter) /\ Distinct(q.read) /\ Len(q.read) <= MaxLetters
        /\ q.name \in Names /\ q.no \in Nat
    BY LetterTypes
  <1> HIDE DEF q
  <1>3. Store!Upserted(q.read, q.name, q.no) \in Seq(Letter)
    BY <1>2, UpsertedList DEF WithLetter
  <1>4. Store!Others(q.read, q.name) \in Seq(Letter)
    BY <1>2, OthersList
  <1> QED
    BY <1>1, <1>3, <1>4, StoreConstants DEF q

LEMMA AskLetter ==
  ASSUME LettersInv, NEW r \in Requests, NEW change \in {"save", "delete"}, NEW n \in Names,
         Store!Ask(r, Store!OfLetter(change, n))
  PROVE  LettersInv'
  <1> DEFINE q == Store!OfLetter(change, n)
  <1>1. /\ request[r] = Store!Idle /\ asked < MaxAsked /\ asked' = asked + 1
        /\ request' = [request EXCEPT ![r] = q]
        /\ UNCHANGED <<setting, custom, saved, deleted, overlapped, reused, astray, failed>>
    BY DEF Store!Ask, Store!letterHistory, Store!customHistory
  <1>2. /\ asked \in Nat /\ MaxAsked \in Nat /\ asked' \in Nat
    BY <1>1, StoreConstants DEF LettersInv
  <1>3. Sound(Store!get_cover_letters) /\ Store!get_cover_letters \in Seq(Letter)
    BY DEF LettersInv, Sound
  <1>4. /\ q \in LetterRequest /\ q.no = asked + 1 /\ q.read = Store!get_cover_letters
        /\ q.stage = "look"
    BY <1>2, <1>3 DEF Store!OfLetter, LetterRequest
  <1> HIDE DEF q
  <1>5. /\ request' \in [Requests -> {Store!Idle} \cup LetterRequest]
        /\ request'[r] = q /\ \A w \in Requests : w # r => request'[w] = request[w]
    BY <1>1, <1>4 DEF LettersInv
  <1>6. Store!get_cover_letters' = Store!get_cover_letters
    BY <1>1 DEF Store!get_cover_letters
  <1>7. \A t : Settled(t) => Settled(t)'
    BY <1>1, <1>2, <1>4, <1>5 DEF Settled, IsOpen
  <1>8. \A l : Sound(l) => Sound(l)'
    BY <1>7 DEF Sound
  <1>9. Sound(Store!get_cover_letters)'
    BY <1>3, <1>6, <1>8 DEF Sound
  <1>10. \A w \in Requests : IsOpen(w)' => Sound(request[w].read)'
                                           /\ \A i \in DOMAIN request'[w].read : request'[w].read[i].text < request'[w].no
    <2> SUFFICES ASSUME NEW w \in Requests, IsOpen(w)'
                 PROVE  Sound(request[w].read)' /\ \A i \in DOMAIN request'[w].read : request'[w].read[i].text < request'[w].no
      OBVIOUS
    <2>1. CASE w = r
      <3>1. request'[w].read = Store!get_cover_letters /\ request'[w].no = asked + 1
        BY <1>4, <1>5, <2>1
      <3>2. \A i \in DOMAIN Store!get_cover_letters : Store!get_cover_letters[i].text \in 1..asked
        BY <1>3 DEF Sound, Settled
      <3> QED
        BY <1>2, <1>3, <1>8, <3>1, <3>2 DEF Sound
    <2>2. CASE w # r
      <3>1. request'[w] = request[w] /\ IsOpen(w)
        BY <1>5, <2>2 DEF IsOpen
      <3>2. Sound(request[w].read) /\ \A i \in DOMAIN request[w].read : request[w].read[i].text < request[w].no
        BY <3>1 DEF LettersInv
      <3> QED
        BY <1>8, <3>1, <3>2 DEF Sound
    <2> QED
      BY <2>1, <2>2
  <1>11. \A w \in Requests : IsOpen(w)' => request'[w].no \in 1..asked' /\ request'[w].no \notin failed'
    BY <1>1, <1>2, <1>4, <1>5 DEF LettersInv, IsOpen
  <1>12. \A v, w \in Requests : IsOpen(v)' /\ IsOpen(w)' /\ v # w => request'[v].no # request'[w].no
    BY <1>1, <1>2, <1>4, <1>5 DEF LettersInv, IsOpen
  <1>13. overlapped' \/ Latest'
    BY <1>1, <1>6 DEF LettersInv, Latest, Descending, IsListed, Later
  <1>14. Untouched' /\ asked' \in 0..MaxAsked /\ failed' \subseteq 1..asked'
         /\ (setting.letters = Unset \/ setting.letters \in Seq(Letter))'
         /\ saved' \in [Names -> Nat] /\ IsFiniteSet({m \in Names : saved[m] # 0})' /\ overlapped' \in BOOLEAN
    BY <1>1, <1>2 DEF LettersInv, Untouched
  <1> QED
    BY <1>5, <1>9, <1>10, <1>11, <1>12, <1>13, <1>14 DEF LettersInv

LEMMA LookLetter ==
  ASSUME LettersInv, NEW r \in Requests, Store!Look(r)
  PROVE  LettersInv'
  <1>1. IsOpen(r)
    BY DEF Store!Look, IsOpen
  <1>2. /\ request' = [request EXCEPT ![r].stage = "commit", ![r].row = (setting[request[r].key] # Unset)]
        /\ UNCHANGED <<asked, setting, custom, saved, deleted, overlapped, reused, astray, failed>>
    BY <1>1, ValueIsList DEF Store!Look, Store!letterHistory, Store!customHistory
  <1>3. request[r] \in LetterRequest /\ request \in [Requests -> {Store!Idle} \cup LetterRequest]
    BY <1>1, LetterTypes DEF LettersInv
  <1>4. request' \in [Requests -> {Store!Idle} \cup LetterRequest]
    BY <1>2, <1>3 DEF LetterRequest
  <1>5. \A w \in Requests : (IsOpen(w)' <=> IsOpen(w)) /\ (IsOpen(w) => request'[w].no = request[w].no /\ request'[w].read = request[w].read)
    BY <1>1, <1>2, <1>3 DEF IsOpen, LetterRequest, Store!Idle
  <1>6. Store!get_cover_letters' = Store!get_cover_letters
    BY <1>2 DEF Store!get_cover_letters
  <1>7. \A t : Settled(t) => Settled(t)'
    BY <1>2, <1>5 DEF Settled
  <1>8. \A l : Sound(l) => Sound(l)'
    BY <1>7 DEF Sound
  <1>9. Sound(Store!get_cover_letters)'
    BY <1>6, <1>8 DEF Sound, LettersInv
  <1>10. \A w \in Requests : IsOpen(w)' => Sound(request[w].read)'
                                           /\ \A i \in DOMAIN request'[w].read : request'[w].read[i].text < request'[w].no
    BY <1>5, <1>8 DEF LettersInv, Sound
  <1>11. overlapped' \/ Latest'
    BY <1>2, <1>6 DEF LettersInv, Latest, Descending, IsListed, Later
  <1> QED
    BY <1>2, <1>4, <1>5, <1>9, <1>10, <1>11 DEF LettersInv, Untouched

\* A request that is answered leaves the others, and what is settled, as they are.
LEMMA LetterAnswered ==
  ASSUME LettersInv, NEW r \in Requests, IsOpen(r), Store!Answered(r),
         failed' = failed \/ failed' = failed \cup {request[r].no}
  PROVE  /\ request' \in [Requests -> {Store!Idle} \cup LetterRequest] /\ asked' = asked
         /\ \A w \in Requests : IsOpen(w)' => IsOpen(w) /\ w # r /\ request'[w] = request[w]
         /\ \A t : Settled(t) => Settled(t)'
         /\ \A t : t = request[r].no /\ failed' = failed => Settled(t)'
         /\ \A l : Sound(l) => Sound(l)'
         /\ \A w \in Requests : IsOpen(w)' => request'[w].no \in 1..asked' /\ request'[w].no \notin failed'
         /\ \A v, w \in Requests : IsOpen(v)' /\ IsOpen(w)' /\ v # w => request'[v].no # request'[w].no
         /\ failed' \subseteq 1..asked'
         /\ \A w \in Requests : IsOpen(w)' => Sound(request[w].read)'
                                /\ \A i \in DOMAIN request'[w].read : request'[w].read[i].text < request'[w].no
  <1>1. /\ request' = [request EXCEPT ![r] = Store!Idle] /\ asked' = asked
        /\ request \in [Requests -> {Store!Idle} \cup LetterRequest]
    BY DEF Store!Answered, LettersInv
  <1>2. request' \in [Requests -> {Store!Idle} \cup LetterRequest]
    BY <1>1
  <1>3. \A w \in Requests : IsOpen(w)' => IsOpen(w) /\ w # r /\ request'[w] = request[w]
    BY <1>1 DEF IsOpen, Store!Idle
  <1>4. request[r].no \in 1..asked /\ request[r].no \notin failed
    BY DEF LettersInv
  <1>5. \A t : Settled(t) => Settled(t)'
    BY <1>1, <1>3 DEF Settled
  <1>6. \A l : Sound(l) => Sound(l)'
    BY <1>5 DEF Sound
  <1>7. \A t : t = request[r].no /\ failed' = failed => Settled(t)'
    <2> SUFFICES ASSUME NEW t, t = request[r].no, failed' = failed PROVE Settled(t)'
      OBVIOUS
    <2>1. \A w \in Requests : IsOpen(w)' => request'[w].no # t
      BY <1>3 DEF LettersInv
    <2>2. t \in 1..asked' /\ t \notin failed'
      BY <1>1, <1>4
    <2> QED
      BY <2>1, <2>2 DEF Settled
  <1>8. \A w \in Requests : IsOpen(w)' => request'[w].no \in 1..asked' /\ request'[w].no \notin failed'
    BY <1>1, <1>3 DEF LettersInv
  <1>9. \A v, w \in Requests : IsOpen(v)' /\ IsOpen(w)' /\ v # w => request'[v].no # request'[w].no
    BY <1>3 DEF LettersInv
  <1>10. failed' \subseteq 1..asked'
    BY <1>1, <1>4 DEF LettersInv
  <1>11. \A w \in Requests : IsOpen(w)' => Sound(request[w].read)'
                                /\ \A i \in DOMAIN request'[w].read : request'[w].read[i].text < request'[w].no
    <2> SUFFICES ASSUME NEW w \in Requests, IsOpen(w)'
                 PROVE  Sound(request[w].read)' /\ \A i \in DOMAIN request'[w].read : request'[w].read[i].text < request'[w].no
      OBVIOUS
    <2>1. request'[w] = request[w] /\ IsOpen(w)
      BY <1>3
    <2>2. Sound(request[w].read) /\ \A i \in DOMAIN request[w].read : request[w].read[i].text < request[w].no
      BY <2>1 DEF LettersInv
    <2> QED
      BY <1>6, <2>1, <2>2 DEF Sound
  <1> QED
    BY <1>1, <1>2, <1>3, <1>5, <1>6, <1>7, <1>8, <1>9, <1>10, <1>11

\* A change made to the list as it is keeps the letters the latest ones.
LEMMA LatestKept ==
  ASSUME LettersInv, Latest, NEW r \in Requests, IsOpen(r), NEW value,
         request[r].read = Store!get_cover_letters, \A n \in Names : saved[n] <= request[r].no,
         value = Store!Value(request[r]), Store!get_cover_letters' = value,
         saved' = IF request[r].change = "save" THEN [saved EXCEPT ![request[r].name] = request[r].no] ELSE saved,
         deleted' = IF request[r].change = "save" THEN deleted \ {request[r].name} ELSE deleted \cup {request[r].name},
         IsFiniteSet({n \in Names : saved[n] # 0})'
  PROVE  Latest'
  <1> DEFINE q == request[r]
             letters == Store!get_cover_letters
             Up == \A i \in DOMAIN letters : letters[i].text < q.no
  <1>1. /\ q.name \in Names /\ q.no \in Nat /\ q.change \in {"save", "delete"}
        /\ letters \in Seq(Letter) /\ Distinct(letters) /\ Len(letters) <= MaxLetters /\ Up
        /\ saved \in [Names -> Nat]
    BY LetterTypes DEF LettersInv
  <1>2. /\ Descending(letters)
        /\ \A i \in DOMAIN letters : letters[i].name \notin deleted /\ letters[i].text = saved[letters[i].name]
        /\ \A n \in Names : ~IsListed(n) /\ n \notin deleted /\ saved[n] # 0 => Cardinality(Later(n)) >= MaxLetters
        /\ \A i \in DOMAIN letters : letters[i] \in Letter
    BY <1>1 DEF Latest
  <1>3. \A n : IsListed(n) <=> \E i \in DOMAIN letters : letters[i].name = n
    BY DEF IsListed
  <1>4. \A n : IsListed(n)' <=> \E i \in DOMAIN value : value[i].name = n
    BY DEF IsListed
  <1>5. q.change = "save" => q.no # 0
    BY DEF LettersInv
  <1>6. CASE q.change = "save"
    <2>1. value = Store!Upserted(letters, q.name, q.no)
      BY <1>6, ValueIsList
    <2> HIDE DEF letters, q
    <2>2. /\ value \in Seq(Letter) /\ Len(value) <= MaxLetters /\ Distinct(value)
          /\ 1 \in DOMAIN value /\ value[1] = [name |-> q.name, text |-> q.no]
          /\ \A k \in DOMAIN value : k = 1 \/ (value[k].name # q.name /\ \E i \in DOMAIN letters : value[k] = letters[i])
          /\ Descending(value)
          /\ \A i \in DOMAIN letters :
               letters[i].name # q.name /\ (\A k \in DOMAIN value : value[k] # letters[i]) =>
                 Len(value) = MaxLetters /\ \A k \in DOMAIN value : letters[i].text < value[k].text
      <3>1. /\ letters \in Seq(Letter) /\ Distinct(letters) /\ q.name \in Names /\ q.no \in Nat
            /\ Len(letters) <= MaxLetters /\ Descending(letters)
            /\ \A i \in DOMAIN letters : letters[i].text < q.no
        BY <1>1, <1>2
      <3>2. WithLetter(letters, q.name, q.no, value)
        BY <2>1, <3>1, UpsertedList
      <3> QED
        BY <3>1, <3>2 DEF WithLetter
    <2>3. saved' = [saved EXCEPT ![q.name] = q.no] /\ deleted' = deleted \ {q.name}
      BY <1>6 DEF q
    <2>4. ASSUME NEW k \in DOMAIN value
          PROVE  value[k].name \notin deleted' /\ value[k].text = saved'[value[k].name]
      <3>1. CASE k = 1
        BY <1>1, <2>2, <2>3, <3>1
      <3>2. CASE k # 1
        <4>1. PICK i \in DOMAIN letters : value[k] = letters[i] /\ value[k].name # q.name
          BY <2>2, <3>2
        <4>2. letters[i].name \notin deleted /\ letters[i].text = saved[letters[i].name] /\ letters[i].name \in Names
          BY <1>2 DEF Letter
        <4> QED
          BY <1>1, <2>3, <4>1, <4>2
      <3> QED
        BY <3>1, <3>2
    <2>5. ASSUME NEW n \in Names, ~IsListed(n)', n \notin deleted', saved'[n] # 0
          PROVE  Cardinality(Later(n)') >= MaxLetters
      <3>1. n # q.name /\ saved'[n] = saved[n] /\ n \notin deleted /\ saved[n] # 0
        BY <1>1, <1>4, <2>2, <2>3, <2>5
      <3>2. IsFiniteSet(Later(n)')
        <4>1. Later(n)' \subseteq {m \in Names : saved'[m] # 0}
          BY <1>1, <2>3, <3>1 DEF Later
        <4> QED
          BY <4>1, FS_Subset
      <3>3. CASE ~IsListed(n)
        <4>1. Cardinality(Later(n)) >= MaxLetters
          BY <1>2, <3>1, <3>3
        <4>2. Later(n) \subseteq Later(n)'
          <5> SUFFICES ASSUME NEW m \in Names, saved[m] > saved[n] PROVE saved'[m] > saved'[n]
            BY DEF Later
          <5>1. saved[m] <= q.no /\ saved[m] \in Nat /\ saved[n] \in Nat
            BY <1>1 DEF q
          <5> QED
            BY <1>1, <2>3, <3>1, <5>1
        <4>3. Cardinality(Later(n)) <= Cardinality(Later(n)') /\ IsFiniteSet(Later(n))
          BY <3>2, <4>2, FS_Subset
        <4>4. Cardinality(Later(n)) \in Nat /\ Cardinality(Later(n)') \in Nat
          BY <3>2, <4>3, FS_CardinalityType
        <4> QED
          BY <4>1, <4>3, <4>4, StoreConstants
      <3>4. CASE IsListed(n)
        <4>1. PICK i \in DOMAIN letters : letters[i].name = n
          BY <1>3, <3>4
        <4>2. \A k \in DOMAIN value : value[k] # letters[i]
          BY <1>4, <2>5, <4>1
        <4>3. Len(value) = MaxLetters /\ \A k \in DOMAIN value : letters[i].text < value[k].text
          BY <2>2, <3>1, <4>1, <4>2
        <4> DEFINE f == [k \in 1..MaxLetters |-> value[k].name]
        <4>4. DOMAIN value = 1..MaxLetters /\ \A k \in DOMAIN value : value[k].name \in Names /\ value[k].text \in Nat
          <5>1. DOMAIN value = 1..MaxLetters /\ \A k \in DOMAIN value : value[k] \in Letter
            BY <2>2, <4>3
          <5> QED
            BY <5>1 DEF Letter
        <4>5. \A k \in 1..MaxLetters : value[k].name \in Later(n)'
          <5> SUFFICES ASSUME NEW k \in 1..MaxLetters PROVE saved'[value[k].name] > saved'[n]
            BY <4>4 DEF Later
          <5>1. saved'[value[k].name] = value[k].text /\ letters[i].text = saved[n] /\ letters[i].text < value[k].text
            BY <1>2, <2>4, <4>1, <4>3, <4>4
          <5>2. value[k].text \in Nat /\ saved[n] \in Nat
            BY <1>1, <4>4
          <5> QED
            BY <3>1, <5>1, <5>2
        <4>6. f \in Injection(1..MaxLetters, Later(n)')
          <5>1. f \in [1..MaxLetters -> Later(n)']
            BY <4>5
          <5>2. \A k, l \in 1..MaxLetters : f[k] = f[l] => k = l
            BY <2>2, <4>4 DEF Distinct
          <5> QED
            BY <5>1, <5>2 DEF Injection, IsInjective
        <4>7. MaxLetters \in Nat /\ IsFiniteSet(1..MaxLetters) /\ Cardinality(1..MaxLetters) = MaxLetters
          BY StoreConstants, FS_Interval
        <4>8. Cardinality(1..MaxLetters) <= Cardinality(Later(n)')
          BY <3>2, <4>6, FS_Injection
        <4>9. Cardinality(Later(n)') \in Nat
          BY <3>2, FS_CardinalityType
        <4> QED
          BY <4>7, <4>8, <4>9
      <3> QED
        BY <3>3, <3>4
    <2> QED
      BY <2>2, <2>4, <2>5 DEF Latest
  <1>7. CASE q.change # "save"
    <2>1. value = Store!Others(letters, q.name)
      BY <1>7, ValueIsList
    <2> HIDE DEF letters, q
    <2>2. /\ value \in Seq(Letter) /\ Distinct(value) /\ Descending(value)
          /\ \A k \in DOMAIN value : value[k].name # q.name /\ \E i \in DOMAIN letters : value[k] = letters[i]
          /\ \A i \in DOMAIN letters : letters[i].name # q.name => \E k \in DOMAIN value : value[k] = letters[i]
      BY <1>1, <1>2, <2>1, OthersList
    <2>3. saved' = saved /\ deleted' = deleted \cup {q.name}
      BY <1>7 DEF q
    <2>4. ASSUME NEW k \in DOMAIN value
          PROVE  value[k].name \notin deleted' /\ value[k].text = saved'[value[k].name]
      BY <1>2, <2>2, <2>3
    <2>5. ASSUME NEW n \in Names, ~IsListed(n)', n \notin deleted', saved'[n] # 0
          PROVE  Cardinality(Later(n)') >= MaxLetters
      <3>1. n # q.name /\ n \notin deleted /\ saved[n] # 0
        BY <2>3, <2>5
      <3>2. ~IsListed(n)
        BY <1>3, <1>4, <2>2, <2>5, <3>1
      <3>3. Later(n)' = Later(n)
        BY <2>3 DEF Later
      <3> QED
        BY <1>2, <3>1, <3>2, <3>3
    <2> QED
      BY <2>2, <2>4, <2>5 DEF Latest
  <1> QED
    BY <1>6, <1>7 DEF q

LEMMA CommitLetter ==
  ASSUME LettersInv, NEW r \in Requests, Store!Commit(r)
  PROVE  LettersInv'
  <1> DEFINE q == request[r]
             value == Store!Value(q)
  <1>1. IsOpen(r)
    BY DEF Store!Commit, IsOpen
  <1>2. /\ q.key = "letters" /\ q.name \in Names /\ q.no \in Nat /\ q.change \in {"save", "delete"}
        /\ q.read \in Seq(Letter) /\ Distinct(q.read) /\ Len(q.read) <= MaxLetters /\ Sound(q.read)
    BY <1>1, LetterTypes
  <1>3. value \in Seq(Letter) /\ value # Unset
    BY <1>1, ValueIsList
  <1>4. CASE Store!Fails(r)
    <2>1. /\ Store!Answered(r) /\ failed' = failed \cup {request[r].no}
          /\ UNCHANGED <<setting, custom, saved, deleted, overlapped, reused, astray>>
      BY <1>4 DEF Store!Fails, Store!letterHistory, Store!customHistory
    <2>2. Store!get_cover_letters' = Store!get_cover_letters
      BY <2>1 DEF Store!get_cover_letters
    <2>3. /\ request' \in [Requests -> {Store!Idle} \cup LetterRequest] /\ asked' = asked
          /\ \A l : Sound(l) => Sound(l)'
          /\ \A w \in Requests : IsOpen(w)' => request'[w].no \in 1..asked' /\ request'[w].no \notin failed'
          /\ \A v, w \in Requests : IsOpen(v)' /\ IsOpen(w)' /\ v # w => request'[v].no # request'[w].no
          /\ failed' \subseteq 1..asked'
          /\ \A w \in Requests : IsOpen(w)' => Sound(request[w].read)'
                                 /\ \A i \in DOMAIN request'[w].read : request'[w].read[i].text < request'[w].no
      BY <1>1, <2>1, LetterAnswered
    <2>4. Sound(Store!get_cover_letters)'
      BY <2>2, <2>3 DEF Sound, LettersInv
    <2>5. overlapped' \/ Latest'
      BY <2>1, <2>2 DEF LettersInv, Latest, Descending, IsListed, Later
    <2> QED
      BY <2>1, <2>3, <2>4, <2>5 DEF LettersInv, Untouched
  <1>5. CASE ~Store!Fails(r)
    <2>1. /\ setting' = [setting EXCEPT !["letters"] = value] /\ Store!NotesLetters(q) /\ Store!Answered(r)
          /\ UNCHANGED <<custom, reused, astray, failed>>
      BY <1>2, <1>5 DEF Store!Commit, Store!customHistory
    <2>2. /\ overlapped' = (overlapped \/ q.read # Store!get_cover_letters \/ \E n \in Names : saved[n] > q.no)
          /\ saved' = IF q.change = "save" THEN [saved EXCEPT ![q.name] = q.no] ELSE saved
          /\ deleted' = IF q.change = "save" THEN deleted \ {q.name} ELSE deleted \cup {q.name}
      BY <2>1 DEF Store!NotesLetters
    <2>3. setting'.letters = value /\ Untouched'
      <3>1. custom = <<>> /\ astray = FALSE /\ \E old : setting = [letters |-> old, enabled |-> Unset, judge |-> Unset]
        BY DEF LettersInv, Untouched
      <3> HIDE DEF value
      <3>2. setting' = [letters |-> value, enabled |-> Unset, judge |-> Unset]
        <4>1. PICK old : setting = [letters |-> old, enabled |-> Unset, judge |-> Unset]
          BY <3>1
        <4>2. \A x : [[letters |-> old, enabled |-> Unset, judge |-> Unset] EXCEPT !["letters"] = x]
                     = [letters |-> x, enabled |-> Unset, judge |-> Unset]
          OBVIOUS
        <4> QED
          BY <2>1, <4>1, <4>2
      <3>3. setting'.letters = value
        BY <3>2
      <3> QED
        BY <2>1, <3>1, <3>2, <3>3 DEF Untouched
    <2>4. Store!get_cover_letters' = value
      BY <1>3, <2>3 DEF Store!get_cover_letters
    <2>5. /\ request' \in [Requests -> {Store!Idle} \cup LetterRequest] /\ asked' = asked
          /\ \A t : Settled(t) => Settled(t)'
          /\ \A t : t = request[r].no /\ failed' = failed => Settled(t)'
          /\ \A w \in Requests : IsOpen(w)' => request'[w].no \in 1..asked' /\ request'[w].no \notin failed'
          /\ \A v, w \in Requests : IsOpen(v)' /\ IsOpen(w)' /\ v # w => request'[v].no # request'[w].no
          /\ failed' \subseteq 1..asked'
          /\ \A w \in Requests : IsOpen(w)' => Sound(request[w].read)'
                                 /\ \A i \in DOMAIN request'[w].read : request'[w].read[i].text < request'[w].no
      BY <1>1, <2>1, LetterAnswered
    <2>6. \A t : t = q.no \/ (\E i \in DOMAIN q.read : t = q.read[i].text) => Settled(t)'
      BY <1>2, <2>1, <2>5 DEF Sound
    <2>7. value = IF q.change = "save" THEN Store!Upserted(q.read, q.name, q.no) ELSE Store!Others(q.read, q.name)
      BY <1>1, ValueIsList
    <2>8. Len(value) <= MaxLetters /\ Distinct(value) /\ \A t : (\E k \in DOMAIN value : t = value[k].text) => Settled(t)'
      <3>1. CASE q.change = "save"
        <4> HIDE DEF q, value
        <4>1. WithLetter(q.read, q.name, q.no, value)
          BY <1>2, <2>7, <3>1, UpsertedList
        <4>2. \A k \in DOMAIN value : value[k].text = q.no \/ \E i \in DOMAIN q.read : value[k].text = q.read[i].text
          BY <4>1 DEF WithLetter
        <4>3. Len(value) <= MaxLetters /\ Distinct(value)
          BY <4>1 DEF WithLetter
        <4> QED
          BY <2>6, <4>2, <4>3
      <3>2. CASE q.change # "save"
        <4> HIDE DEF q, value
        <4>1. /\ Len(value) <= Len(q.read) /\ Distinct(value)
              /\ \A k \in DOMAIN value : \E i \in DOMAIN q.read : value[k] = q.read[i]
          BY <1>2, <2>7, <3>2, OthersList
        <4>2. Len(value) \in Nat /\ Len(q.read) \in Nat /\ MaxLetters \in Nat
          BY <1>2, <1>3, StoreConstants
        <4>3. Len(value) <= MaxLetters
          BY <1>2, <4>1, <4>2
        <4> QED
          BY <2>6, <4>1, <4>3
      <3> QED
        BY <3>1, <3>2
    <2> HIDE DEF value
    <2>9. Sound(Store!get_cover_letters)'
      BY <1>3, <2>4, <2>8 DEF Sound, Distinct, Settled
    <2>10. saved' \in [Names -> Nat] /\ overlapped' \in BOOLEAN
      BY <1>2, <2>2 DEF LettersInv
    <2>11. IsFiniteSet({n \in Names : saved[n] # 0})'
      <3>1. {n \in Names : saved'[n] # 0} \subseteq {n \in Names : saved[n] # 0} \cup {q.name}
        BY <1>2, <2>2 DEF LettersInv
      <3>2. IsFiniteSet({n \in Names : saved[n] # 0} \cup {q.name})
        BY FS_AddElement DEF LettersInv
      <3> QED
        BY <3>1, <3>2, FS_Subset
    <2>12. overlapped' \/ Latest'
      <3> SUFFICES ASSUME ~overlapped' PROVE Latest'
        OBVIOUS
      <3>1. q.read = Store!get_cover_letters /\ Latest /\ ~\E n \in Names : saved[n] > q.no
        BY <2>2 DEF LettersInv
      <3>2. \A n \in Names : saved[n] <= q.no
        <4>1. saved \in [Names -> Nat]
          BY DEF LettersInv
        <4> HIDE DEF q
        <4> QED
          BY <1>2, <3>1, <4>1
      <3> QED
        BY <1>1, <2>2, <2>4, <2>11, <3>1, <3>2, LatestKept DEF value
    <2> QED
      BY <1>3, <2>1, <2>3, <2>5, <2>9, <2>10, <2>11, <2>12 DEF LettersInv
  <1> QED
    BY <1>4, <1>5

LEMMA LettersStep == LettersInv /\ (Store!LetterNext \/ UNCHANGED storeVars) => LettersInv'
  <1>1. ASSUME LettersInv, UNCHANGED storeVars PROVE LettersInv'
    BY <1>1 DEF storeVars, LettersInv, Untouched, IsOpen, Sound, Settled, Distinct, Latest, Descending, Later, IsListed,
       Store!get_cover_letters
  <1>2. ASSUME LettersInv, Store!LetterNext PROVE LettersInv'
    BY <1>2, AskLetter, LookLetter, CommitLetter DEF Store!LetterNext, Store!SaveLetter, Store!DeleteLetter, Store!Writes
  <1> QED
    BY <1>1, <1>2

-----------------------------------------------------------------------------
(* The requests about the other settings.                                    *)

ValueRequest ==
  [stage : {"look", "commit"}, no : Nat, key : {"enabled"}, row : BOOLEAN, value : SUBSET Known]
    \cup [stage : {"look", "commit"}, no : Nat, key : {"judge"}, row : BOOLEAN, value : Judges \cup {Unset}]

NoLetters == saved = [n \in Names |-> 0]

ValuesInv ==
  /\ NoLetters /\ custom = <<>> /\ astray = FALSE /\ asked \in 0..MaxAsked
  /\ \E enabled, judge :
       /\ setting = [letters |-> Unset, enabled |-> enabled, judge |-> judge]
       /\ enabled = Unset \/ enabled \subseteq Known \cup Forgotten
       /\ judge \in Judges \cup {Unset}
  /\ request \in [Requests -> {Store!Idle} \cup ValueRequest]

\* Without letters there is nothing to keep.
LEMMA NoneIsSound ==
  ASSUME NoLetters, setting.letters = Unset
  PROVE  Store!ListIsSound /\ Store!LettersAreKept
  <1>1. Store!get_cover_letters = <<>>
    BY DEF Store!get_cover_letters
  <1>2. Len(<<>>) = 0 /\ DOMAIN <<>> = {} /\ \A n \in Names : saved[n] = 0
    BY DEF NoLetters
  <1> QED
    BY <1>1, <1>2, StoreConstants DEF Store!ListIsSound, Store!LettersAreKept

LEMMA ValuesInit == Store!Init => ValuesInv
  <1> SUFFICES ASSUME Store!Init PROVE ValuesInv
    OBVIOUS
  <1>1. \E enabled : /\ setting = [letters |-> Unset, enabled |-> enabled, judge |-> Unset]
                     /\ enabled = Unset \/ enabled \subseteq Known \cup Forgotten
    BY DEF Store!Init
  <1> QED
    BY <1>1, StoreBegins DEF ValuesInv, NoLetters

LEMMA ValuesShow == ValuesInv => StoreIsSound
  <1> SUFFICES ASSUME ValuesInv PROVE StoreIsSound
    OBVIOUS
  <1>1. /\ setting.letters = Unset /\ setting.judge \in Judges \cup {Unset}
        /\ setting.enabled = Unset \/ setting.enabled \subseteq Known \cup Forgotten
        /\ custom = <<>> /\ astray = FALSE /\ asked \in 0..MaxAsked /\ NoLetters
    BY DEF ValuesInv
  <1>2. Store!StoreTypeOK
    BY <1>1 DEF Store!StoreTypeOK
  <1>3. Store!ListIsSound /\ Store!LettersAreKept
    BY <1>1, NoneIsSound
  <1>4. Store!AutomationsAreOne
    BY <1>1 DEF Store!AutomationsAreOne
  <1>5. Store!ForgottenStayOff
    BY <1>1, StoreConstants DEF Store!ForgottenStayOff, Store!IsEnabled, Store!get_enabled_automations
  <1> QED
    BY <1>2, <1>3, <1>4, <1>5 DEF StoreIsSound, Store!StoreIsSound

LEMMA ValuesStep == ValuesInv /\ (Store!ValueNext \/ UNCHANGED storeVars) => ValuesInv'
  <1> SUFFICES ASSUME ValuesInv, Store!ValueNext \/ UNCHANGED storeVars PROVE ValuesInv'
    OBVIOUS
  <1>0. asked \in Nat /\ MaxAsked \in Nat
    BY StoreConstants DEF ValuesInv
  <1>1. ASSUME NEW r \in Requests, Store!SetAutomations(r) PROVE ValuesInv'
    <2>1. PICK types \in SUBSET (Known \cup Forgotten) : Store!Ask(r, Store!OfValue("enabled", types \cap Known))
      BY <1>1 DEF Store!SetAutomations
    <2>2. Store!OfValue("enabled", types \cap Known) \in ValueRequest
      BY <1>0 DEF Store!OfValue, ValueRequest
    <2>3. request' \in [Requests -> {Store!Idle} \cup ValueRequest]
      BY <2>1, <2>2 DEF Store!Ask, ValuesInv
    <2>4. asked' \in 0..MaxAsked /\ UNCHANGED <<setting, custom, astray, saved>>
      BY <1>0, <2>1 DEF Store!Ask, Store!letterHistory, Store!customHistory, ValuesInv
    <2> QED
      BY <2>3, <2>4 DEF ValuesInv, NoLetters
  <1>2. ASSUME NEW r \in Requests, Store!SetJudge(r) PROVE ValuesInv'
    <2>1. PICK j \in Judges \cup {Unset} : Store!Ask(r, Store!OfValue("judge", j))
      BY <1>2 DEF Store!SetJudge
    <2>2. Store!OfValue("judge", j) \in ValueRequest
      BY <1>0 DEF Store!OfValue, ValueRequest
    <2>3. request' \in [Requests -> {Store!Idle} \cup ValueRequest]
      BY <2>1, <2>2 DEF Store!Ask, ValuesInv
    <2>4. asked' \in 0..MaxAsked /\ UNCHANGED <<setting, custom, astray, saved>>
      BY <1>0, <2>1 DEF Store!Ask, Store!letterHistory, Store!customHistory, ValuesInv
    <2> QED
      BY <2>3, <2>4 DEF ValuesInv, NoLetters
  <1>3. ASSUME NEW r \in Requests, Store!Look(r) PROVE ValuesInv'
    <2>1. request[r] \in ValueRequest
      BY <1>3 DEF Store!Look, ValuesInv, Store!Idle
    <2>2. request' \in [Requests -> {Store!Idle} \cup ValueRequest] /\ asked' = asked
      <3>1. CASE request' = [request EXCEPT ![r] = Store!Idle]
        BY <1>3, <3>1 DEF Store!Look, Store!Answered, ValuesInv
      <3>2. CASE request' # [request EXCEPT ![r] = Store!Idle]
        <4>1. request' = [request EXCEPT ![r].stage = "commit", ![r].row = (setting[request[r].key] # Unset)] /\ asked' = asked
          BY <1>3, <3>2 DEF Store!Look, Store!Answered
        <4>2. request' = [request EXCEPT ![r] = [request[r] EXCEPT !.stage = "commit", !.row = (setting[request[r].key] # Unset)]]
          BY <4>1 DEF ValuesInv
        <4>3. [request[r] EXCEPT !.stage = "commit", !.row = (setting[request[r].key] # Unset)] \in ValueRequest
          BY <2>1 DEF ValueRequest
        <4> QED
          BY <4>1, <4>2, <4>3 DEF ValuesInv
      <3> QED
        BY <3>1, <3>2
    <2> QED
      BY <1>3, <2>2 DEF Store!Look, Store!letterHistory, Store!customHistory, ValuesInv, NoLetters
  <1>4. ASSUME NEW r \in Requests, Store!Commit(r) PROVE ValuesInv'
    <2>1. request[r] \in ValueRequest
      BY <1>4 DEF Store!Commit, ValuesInv, Store!Idle
    <2>2. Store!Answered(r) /\ UNCHANGED <<custom, astray, saved>>
      BY <1>4, <2>1 DEF Store!Commit, Store!Fails, Store!letterHistory, Store!customHistory, ValueRequest
    <2>3. request' \in [Requests -> {Store!Idle} \cup ValueRequest] /\ asked' = asked
      BY <2>2 DEF Store!Answered, ValuesInv
    <2>4. setting' = setting \/ setting' = [setting EXCEPT ![request[r].key] = request[r].value]
      BY <1>4, <2>1 DEF Store!Commit, Store!Fails, Store!Value, ValueRequest
    <2>5. PICK enabled, judge :
            /\ setting = [letters |-> Unset, enabled |-> enabled, judge |-> judge]
            /\ enabled = Unset \/ enabled \subseteq Known \cup Forgotten
            /\ judge \in Judges \cup {Unset}
      BY DEF ValuesInv
    <2>6. \E e, j : /\ setting' = [letters |-> Unset, enabled |-> e, judge |-> j]
                    /\ e = Unset \/ e \subseteq Known \cup Forgotten
                    /\ j \in Judges \cup {Unset}
      <3>1. CASE setting' = setting
        BY <2>5, <3>1
      <3>2. CASE setting' = [setting EXCEPT ![request[r].key] = request[r].value] /\ request[r].key = "enabled"
        <4>1. request[r].value \subseteq Known
          BY <2>1, <3>2 DEF ValueRequest
        <4>2. setting' = [letters |-> Unset, enabled |-> request[r].value, judge |-> judge]
          BY <2>5, <3>2
        <4> QED
          BY <2>5, <4>1, <4>2
      <3>3. CASE setting' = [setting EXCEPT ![request[r].key] = request[r].value] /\ request[r].key = "judge"
        <4>1. request[r].value \in Judges \cup {Unset}
          BY <2>1, <3>3 DEF ValueRequest
        <4>2. setting' = [letters |-> Unset, enabled |-> enabled, judge |-> request[r].value]
          BY <2>5, <3>3
        <4> QED
          BY <2>5, <4>1, <4>2
      <3>4. request[r].key \in {"enabled", "judge"}
        BY <2>1 DEF ValueRequest
      <3> QED
        BY <2>4, <3>1, <3>2, <3>3, <3>4
    <2> QED
      BY <2>2, <2>3, <2>6 DEF ValuesInv, NoLetters
  <1>5. CASE UNCHANGED storeVars
    BY <1>5 DEF storeVars, ValuesInv, NoLetters
  <1> QED
    BY <1>1, <1>2, <1>3, <1>4, <1>5 DEF Store!ValueNext, Store!Writes

-----------------------------------------------------------------------------
(* The requests about custom automations.                                    *)

CustomRow == [slug : Slugs, enabled : BOOLEAN, no : Nat]
InsertRequest == [stage : {"insert"}, no : Nat, slug : Slugs]
ChangeRequest ==
  [stage : {"change"}, no : Nat, id : Nat, to : {"enabled", "disabled", "deleted"}, was : CustomRow]

CustomInv ==
  /\ NoLetters /\ asked \in 0..MaxAsked
  /\ setting = [letters |-> Unset, enabled |-> Unset, judge |-> Unset]
  /\ custom \in [DOMAIN custom -> CustomRow] /\ DOMAIN custom \subseteq Nat
  /\ \E b \in Nat : \A id \in DOMAIN custom : id <= b
  /\ \A i, k \in DOMAIN custom : custom[i].slug = custom[k].slug => i = k
  /\ request \in [Requests -> {Store!Idle} \cup InsertRequest \cup ChangeRequest]
  /\ astray => reused
  \* An id that was not given out again is that of the row the request has read.
  /\ reused \/ \A r \in Requests :
       request[r].stage = "change" /\ request[r].id \in DOMAIN custom =>
         custom[request[r].id].no = request[r].was.no

\* The table gives out an id above those of its rows.
LEMMA NextIdIsFree ==
  ASSUME DOMAIN custom \subseteq Nat, NEW b \in Nat, \A id \in DOMAIN custom : id <= b
  PROVE  Store!NextId \in Nat /\ Store!NextId \notin DOMAIN custom
  <1> DEFINE S == {0} \cup DOMAIN custom
             Above == {n \in Nat : \A y \in S : y <= n}
  <1>1. b \in Above /\ Above \in SUBSET Nat
    OBVIOUS
  <1>2. PICK m \in Above : \A n \in Above : m <= n
    BY <1>1, LeastNat
  <1>3. m \in Nat /\ (\A y \in S : y \in Nat /\ y <= m) /\ 0 \in S
    OBVIOUS
  <1>4. m \in S
    <2> SUFFICES ASSUME m \notin S PROVE FALSE
      OBVIOUS
    <2>1. m # 0
      BY <1>3
    <2>2. m - 1 \in Nat /\ \A y \in S : y <= m - 1
      <3> HIDE DEF S, Above
      <3> QED
        BY <1>3, <2>1
    <2> QED
      BY <1>2, <1>3, <2>2
  <1>5. \E x \in S : \A y \in S : x >= y
    <2> HIDE DEF S, Above
    <2> QED
      BY <1>3, <1>4
  <1>6. Store!Max(S) \in S /\ \A y \in S : Store!Max(S) >= y
    <2> HIDE DEF S, Above
    <2>1. Store!Max(S) = CHOOSE x \in S : \A y \in S : x >= y
      BY Zenon DEF Store!Max
    <2> QED
      BY <1>5, <2>1
  <1>7. Store!NextId = 1 + Store!Max(S)
    BY Zenon DEF Store!NextId
  <1>8. DOMAIN custom \subseteq S
    OBVIOUS
  <1> HIDE DEF S, Above
  <1> QED
    BY <1>3, <1>6, <1>7, <1>8

LEMMA CustomInit ==
  ASSUME Store!Init, setting.enabled = Unset
  PROVE  CustomInv
  <1>1. /\ <<>> \in [DOMAIN <<>> -> CustomRow] /\ DOMAIN <<>> = {} /\ 0 \in Nat
    OBVIOUS
  <1>2. setting = [letters |-> Unset, enabled |-> Unset, judge |-> Unset]
    BY StoreBegins
  <1>3. request \in [Requests -> {Store!Idle} \cup InsertRequest \cup ChangeRequest]
        /\ \A r \in Requests : request[r].stage # "change"
    BY StoreBegins DEF Store!Idle
  <1>4. custom = <<>> /\ astray = FALSE /\ asked \in 0..MaxAsked /\ NoLetters
    BY StoreBegins DEF NoLetters
  <1> QED
    BY <1>1, <1>2, <1>3, <1>4 DEF CustomInv

LEMMA CustomShow == CustomInv => StoreIsSound
  <1> SUFFICES ASSUME CustomInv PROVE StoreIsSound
    OBVIOUS
  <1>1. setting.letters = Unset /\ setting.enabled = Unset /\ setting.judge = Unset /\ NoLetters
    BY DEF CustomInv
  <1>2. Store!StoreTypeOK
    BY <1>1 DEF CustomInv, Store!StoreTypeOK
  <1>3. Store!ListIsSound /\ Store!LettersAreKept
    BY <1>1, NoneIsSound
  <1>4. Store!AutomationsAreOne
    BY DEF CustomInv, Store!AutomationsAreOne
  <1>5. Store!ForgottenStayOff
    <2>1. \A id \in DOMAIN custom : custom[id].slug \in Slugs
      BY DEF CustomInv, CustomRow
    <2> QED
      BY <1>1, <2>1, StoreConstants DEF Store!ForgottenStayOff, Store!IsEnabled, Store!get_enabled_automations
  <1> QED
    BY <1>2, <1>3, <1>4, <1>5 DEF StoreIsSound, Store!StoreIsSound

LEMMA CheckSlugStep ==
  ASSUME CustomInv, NEW r \in Requests, Store!CheckSlug(r)
  PROVE  CustomInv'
  <1>0. asked \in Nat /\ MaxAsked \in Nat
    BY StoreConstants DEF CustomInv
  <1>1. PICK s \in Slugs : Store!Ask(r, [stage |-> "insert", no |-> asked + 1, slug |-> s])
    BY DEF Store!CheckSlug
  <1>2. [stage |-> "insert", no |-> asked + 1, slug |-> s] \in InsertRequest
    BY <1>0 DEF InsertRequest
  <1>3. /\ asked' \in 0..MaxAsked /\ UNCHANGED <<setting, custom, saved, reused, astray>>
        /\ request' \in [Requests -> {Store!Idle} \cup InsertRequest \cup ChangeRequest]
        /\ request'[r].stage # "change" /\ \A w \in Requests : w # r => request'[w] = request[w]
    BY <1>0, <1>1, <1>2 DEF Store!Ask, Store!letterHistory, Store!customHistory, CustomInv
  <1> QED
    BY <1>3 DEF CustomInv, NoLetters

LEMMA LoadCustomStep ==
  ASSUME CustomInv, NEW r \in Requests, Store!LoadCustom(r)
  PROVE  CustomInv'
  <1>0. asked \in Nat /\ MaxAsked \in Nat
    BY StoreConstants DEF CustomInv
  <1>1. PICK id \in DOMAIN custom, to \in {"enabled", "disabled", "deleted"} :
          Store!Ask(r, [stage |-> "change", no |-> asked + 1, id |-> id, to |-> to, was |-> custom[id]])
    BY DEF Store!LoadCustom
  <1> DEFINE q == [stage |-> "change", no |-> asked + 1, id |-> id, to |-> to, was |-> custom[id]]
  <1>2. q \in ChangeRequest /\ q.id = id /\ q.was = custom[id]
    BY <1>0 DEF ChangeRequest, CustomInv
  <1> HIDE DEF q
  <1>3. Store!Ask(r, q)
    BY <1>1 DEF q
  <1>4. /\ asked' \in 0..MaxAsked /\ UNCHANGED <<setting, custom, saved, reused, astray>>
        /\ request' \in [Requests -> {Store!Idle} \cup InsertRequest \cup ChangeRequest]
        /\ request'[r] = q /\ \A w \in Requests : w # r => request'[w] = request[w]
    BY <1>0, <1>2, <1>3 DEF Store!Ask, Store!letterHistory, Store!customHistory, CustomInv
  <1> QED
    BY <1>2, <1>4 DEF CustomInv, NoLetters

\* A request that is answered is none that changes anything.
LEMMA CustomAnswered ==
  ASSUME CustomInv, NEW r \in Requests, Store!Answered(r)
  PROVE  /\ request' \in [Requests -> {Store!Idle} \cup InsertRequest \cup ChangeRequest] /\ asked' = asked
         /\ \A w \in Requests : request'[w].stage = "change" => request[w].stage = "change" /\ request'[w] = request[w]
  BY DEF CustomInv, Store!Answered, Store!Idle

LEMMA InsertStep ==
  ASSUME CustomInv, NEW r \in Requests, Store!Insert(r)
  PROVE  CustomInv'
  <1> DEFINE q == request[r]
             row == [slug |-> q.slug, enabled |-> TRUE, no |-> q.no]
             next == Store!NextId
  <1>1. q \in InsertRequest
    BY DEF Store!Insert, CustomInv, Store!Idle, ChangeRequest
  <1>2. row \in CustomRow /\ row.slug = q.slug
    BY <1>1 DEF InsertRequest, CustomRow
  <1>3. next \in Nat /\ next \notin DOMAIN custom
    BY NextIdIsFree DEF CustomInv
  <1>4. CASE Store!Fails(r)
    <2>1. Store!Answered(r) /\ UNCHANGED <<setting, custom, saved, reused, astray>>
      BY <1>4 DEF Store!Fails, Store!letterHistory, Store!customHistory
    <2>2. /\ request' \in [Requests -> {Store!Idle} \cup InsertRequest \cup ChangeRequest] /\ asked' = asked
          /\ \A w \in Requests : request'[w].stage = "change" => request[w].stage = "change" /\ request'[w] = request[w]
      BY <2>1, CustomAnswered
    <2> QED
      BY <2>1, <2>2 DEF CustomInv, NoLetters
  <1>5. CASE ~Store!Fails(r)
    <2>1. /\ custom' = [id \in DOMAIN custom \cup {next} |-> IF id = next THEN row ELSE custom[id]]
          /\ reused' = (reused \/ \E w \in Requests : request[w].stage = "change" /\ request[w].id = next)
          /\ Store!Answered(r) /\ UNCHANGED <<setting, saved, astray>>
          /\ \A id \in DOMAIN custom : custom[id].slug # q.slug
      BY <1>5 DEF Store!Insert, Store!letterHistory, Store!Taken, Store!SlugsInUse
    <2>2. /\ request' \in [Requests -> {Store!Idle} \cup InsertRequest \cup ChangeRequest] /\ asked' = asked
          /\ \A w \in Requests : request'[w].stage = "change" => request[w].stage = "change" /\ request'[w] = request[w]
      BY <2>1, CustomAnswered
    <2> HIDE DEF q, row, next
    <2>3. /\ DOMAIN custom' = DOMAIN custom \cup {next} /\ custom'[next] = row
          /\ \A id \in DOMAIN custom : custom'[id] = custom[id]
      BY <1>3, <2>1
    <2>4. custom' \in [DOMAIN custom' -> CustomRow] /\ DOMAIN custom' \subseteq Nat
      BY <1>2, <1>3, <2>1, <2>3 DEF CustomInv
    <2>5. \E b \in Nat : \A id \in DOMAIN custom' : id <= b
      <3>1. PICK b \in Nat : \A id \in DOMAIN custom : id <= b
        BY DEF CustomInv
      <3>2. b + next \in Nat /\ next <= b + next /\ \A id \in DOMAIN custom : id \in Nat /\ id <= b + next
        BY <1>3, <3>1 DEF CustomInv
      <3> QED
        BY <2>3, <3>2
    <2>6. \A i, k \in DOMAIN custom' : custom'[i].slug = custom'[k].slug => i = k
      BY <1>2, <2>1, <2>3 DEF CustomInv
    <2>7. reused' \/ \A w \in Requests :
            request'[w].stage = "change" /\ request'[w].id \in DOMAIN custom' =>
              custom'[request'[w].id].no = request'[w].was.no
      <3> SUFFICES ASSUME ~reused', NEW w \in Requests, request'[w].stage = "change", request'[w].id \in DOMAIN custom'
                   PROVE  custom'[request'[w].id].no = request'[w].was.no
        OBVIOUS
      <3>1. request'[w] = request[w] /\ request[w].stage = "change" /\ request[w].id # next /\ ~reused
        BY <2>1, <2>2
      <3> QED
        BY <2>3, <3>1 DEF CustomInv
    <2>8. astray' => reused'
      BY <2>1 DEF CustomInv
    <2>9. NoLetters' /\ asked' \in 0..MaxAsked /\ setting' = [letters |-> Unset, enabled |-> Unset, judge |-> Unset]
      BY <2>1, <2>2 DEF CustomInv, NoLetters
    <2> QED
      BY <2>2, <2>4, <2>5, <2>6, <2>7, <2>8, <2>9 DEF CustomInv
  <1> QED
    BY <1>4, <1>5

LEMMA ChangeStep ==
  ASSUME CustomInv, NEW r \in Requests, Store!ChangeCustom(r)
  PROVE  CustomInv'
  <1> DEFINE q == request[r]
  <1>1. q \in ChangeRequest /\ q.stage = "change"
    BY DEF Store!ChangeCustom, CustomInv, Store!Idle, InsertRequest
  <1>2. Store!Answered(r) /\ UNCHANGED <<setting, saved, reused>>
    BY DEF Store!ChangeCustom, Store!Fails, Store!NotesCustom, Store!letterHistory, Store!customHistory
  <1>3. /\ request' \in [Requests -> {Store!Idle} \cup InsertRequest \cup ChangeRequest] /\ asked' = asked
        /\ \A w \in Requests : request'[w].stage = "change" => request[w].stage = "change" /\ request'[w] = request[w]
    BY <1>2, CustomAnswered
  <1>4. \/ custom' = custom
        \/ q.id \in DOMAIN custom /\ custom' = [id \in DOMAIN custom \ {q.id} |-> custom[id]]
        \/ \E to \in BOOLEAN : q.id \in DOMAIN custom /\ custom' = [custom EXCEPT ![q.id].enabled = to]
    BY DEF Store!ChangeCustom, Store!Fails
  <1>5. \/ astray' = astray
        \/ q.id \in DOMAIN custom /\ astray' = (astray \/ custom[q.id].no # q.was.no)
    BY DEF Store!ChangeCustom, Store!Fails, Store!NotesCustom, Store!customHistory
  <1> HIDE DEF q
  <1>6. /\ DOMAIN custom' \subseteq DOMAIN custom /\ custom' \in [DOMAIN custom' -> CustomRow]
        /\ \A id \in DOMAIN custom' : custom'[id].slug = custom[id].slug /\ custom'[id].no = custom[id].no
    <2>1. CASE custom' = custom
      BY <2>1 DEF CustomInv
    <2>2. CASE custom' = [id \in DOMAIN custom \ {q.id} |-> custom[id]]
      BY <2>2 DEF CustomInv
    <2>3. ASSUME NEW to \in BOOLEAN, q.id \in DOMAIN custom, custom' = [custom EXCEPT ![q.id].enabled = to]
          PROVE  /\ DOMAIN custom' \subseteq DOMAIN custom /\ custom' \in [DOMAIN custom' -> CustomRow]
                 /\ \A id \in DOMAIN custom' : custom'[id].slug = custom[id].slug /\ custom'[id].no = custom[id].no
      BY <2>3 DEF CustomInv, CustomRow
    <2> QED
      BY <1>4, <2>1, <2>2, <2>3
  <1>7. astray' => reused'
    BY <1>1, <1>2, <1>5 DEF CustomInv, q
  <1>8. reused' \/ \A w \in Requests :
          request'[w].stage = "change" /\ request'[w].id \in DOMAIN custom' =>
            custom'[request'[w].id].no = request'[w].was.no
    BY <1>2, <1>3, <1>6 DEF CustomInv
  <1>9. DOMAIN custom' \subseteq Nat /\ \E b \in Nat : \A id \in DOMAIN custom' : id <= b
    BY <1>6 DEF CustomInv
  <1>10. \A i, k \in DOMAIN custom' : custom'[i].slug = custom'[k].slug => i = k
    BY <1>6 DEF CustomInv
  <1>11. NoLetters' /\ asked' \in 0..MaxAsked /\ setting' = [letters |-> Unset, enabled |-> Unset, judge |-> Unset]
    BY <1>2, <1>3 DEF CustomInv, NoLetters
  <1> QED
    BY <1>3, <1>6, <1>7, <1>8, <1>9, <1>10, <1>11 DEF CustomInv

LEMMA CustomStep == CustomInv /\ (Store!CustomNext \/ UNCHANGED storeVars) => CustomInv'
  <1>1. ASSUME CustomInv, UNCHANGED storeVars PROVE CustomInv'
    BY <1>1 DEF storeVars, CustomInv, NoLetters
  <1>2. ASSUME CustomInv, Store!CustomNext PROVE CustomInv'
    BY <1>2, CheckSlugStep, InsertStep, LoadCustomStep, ChangeStep DEF Store!CustomNext
  <1> QED
    BY <1>1, <1>2

-----------------------------------------------------------------------------
(* The store: the requests are about one of its subjects, and without any it *)
(* stays as it was.                                                          *)

StoreInv ==
  /\ subject = "values" => ValuesInv
  /\ subject = "custom" => CustomInv
  /\ subject \notin {"values", "custom"} => LettersInv

LEMMA StoreStep == StoreInv /\ [AdminNext]_adminVars => StoreInv'
  <1> SUFFICES ASSUME StoreInv, [AdminNext]_adminVars PROVE StoreInv'
    OBVIOUS
  <1>1. subject' = subject
    BY DEF AdminNext, OfSession, OfKey, OfStore, adminVars
  <1>2. CASE subject = "values"
    <2>1. Store!ValueNext \/ UNCHANGED storeVars
      BY <1>2 DEF AdminNext, OfSession, OfKey, OfStore, adminVars
    <2> QED
      BY <1>1, <1>2, <2>1, ValuesStep DEF StoreInv
  <1>3. CASE subject = "custom"
    <2>1. Store!CustomNext \/ UNCHANGED storeVars
      BY <1>3 DEF AdminNext, OfSession, OfKey, OfStore, adminVars
    <2> QED
      BY <1>1, <1>3, <2>1, CustomStep DEF StoreInv
  <1>4. CASE subject \notin {"values", "custom"}
    <2>1. Store!LetterNext \/ UNCHANGED storeVars
      BY <1>4 DEF AdminNext, OfSession, OfKey, OfStore, adminVars
    <2> QED
      BY <1>1, <1>4, <2>1, LettersStep DEF StoreInv
  <1> QED
    BY <1>2, <1>3, <1>4

\* settings_store.py and custom_automations.py, with any number of requests
\* that cut through each other between their reads and their writes: the
\* letters stay a short list of distinct names without anything a failed
\* request brought, and are the ones saved last until two changes overlap; a
\* slug stands for one automation, and a change reaches another one than it
\* was meant for only after its id was given out again; and what is forgotten
\* stays off.
THEOREM StoreIsSoundAlways == AdminSpec => []StoreIsSound
  <1>1. AdminInit => StoreInv
    BY LettersInit, ValuesInit, CustomInit DEF AdminInit, StoreInv
  <1>2. StoreInv => StoreIsSound
    BY LettersShow, ValuesShow, CustomShow DEF StoreInv
  <1> QED
    BY <1>1, <1>2, StoreStep, PTL DEF AdminSpec

=============================================================================
