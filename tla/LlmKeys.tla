------------------------------- MODULE LlmKeys -------------------------------
(* Where an LLM key comes from: the encrypted settings of settings_store.py, *)
(* the environment of the process, and provider.resolve(), which copies the  *)
(* key it finds into that environment for the libraries that read it there.  *)
(* Flows resolve on worker threads while an administrator sets and clears    *)
(* keys.  One provider is modelled; providers do not interact.               *)
(*                                                                           *)
(* A definition directly above another one with the same parameters is a     *)
(* mutant of it (PROJECT.json, mutants).                                     *)
EXTENDS FiniteSets

CONSTANTS
  Workers,    \* threads that run flows
  Keys,       \* key values
  Secrets,    \* values of APP_SECRET
  None

KeysAssumption == None \notin Keys \cup [key : Keys, secret : Secrets]

VARIABLES
  stored,   \* the llm_key setting: [key, secret], or None
  secret,   \* APP_SECRET of the running process
  initial,  \* the variable in the environment the process was started with
  environ,  \* the variable in os.environ
  worker,   \* per thread: [stage, key] with the key resolve() has found
  cleared,  \* history: a key was cleared in this process
  shared    \* history: flows under way have resolved beside each other

vars == <<stored, secret, initial, environ, worker, cleared, shared>>

Rest == [stage |-> "idle", key |-> None]

TypeOK ==
  /\ stored \in [key : Keys, secret : Secrets] \cup {None}
  /\ secret \in Secrets
  /\ {initial, environ} \subseteq Keys \cup {None}
  /\ worker \in [Workers -> [stage : {"idle", "found", "calling"}, key : Keys \cup {None}]]
  /\ {cleared, shared} \subseteq BOOLEAN

Init ==
  /\ stored = None
  /\ secret \in Secrets
  /\ initial \in Keys \cup {None}
  /\ environ = initial
  /\ worker = [w \in Workers |-> Rest]
  /\ cleared = FALSE /\ shared = FALSE

\* A value encrypted under another secret counts as unset.
Decrypted == IF stored # None /\ stored.secret = secret THEN stored.key ELSE None

get_llm_key == IF Decrypted # None THEN Decrypted ELSE environ

-----------------------------------------------------------------------------
SetKey(k) ==
  /\ stored' = [key |-> k, secret |-> secret]
  /\ UNCHANGED <<secret, initial, environ, worker, cleared, shared>>

ClearKey ==
  /\ stored' = None
  /\ cleared' = TRUE
  /\ UNCHANGED <<secret, initial, environ, worker, shared>>

\* resolve() reads the key, and raises when there is none.
FindKey(w) ==
  /\ worker[w].stage = "idle"
  /\ get_llm_key # None
  /\ worker' = [worker EXCEPT ![w] = [stage |-> "found", key |-> get_llm_key]]
  /\ shared' = \E v \in Workers : worker[v].stage # "idle"
  /\ UNCHANGED <<stored, secret, initial, environ, cleared>>

\* It exports the key, builds the LLM with it, and the flow starts calling it.
ExportedOnce(w) == IF environ = None THEN worker[w].key ELSE environ
Exported(w) == worker[w].key
ExportKey(w) ==
  /\ worker[w].stage = "found"
  /\ environ' = Exported(w)
  /\ worker' = [worker EXCEPT ![w].stage = "calling"]
  /\ UNCHANGED <<stored, secret, initial, cleared, shared>>

FlowEnds(w) ==
  /\ worker[w].stage = "calling"
  /\ worker' = [worker EXCEPT ![w] = Rest]
  /\ UNCHANGED <<stored, secret, initial, environ, cleared, shared>>

\* The process restarts, perhaps with another secret.
Restart ==
  /\ secret' \in Secrets
  /\ environ' = initial
  /\ worker' = [w \in Workers |-> Rest]
  /\ cleared' = FALSE /\ shared' = FALSE
  /\ UNCHANGED <<stored, initial>>

Next ==
  \/ \E k \in Keys : SetKey(k)
  \/ ClearKey
  \/ \E w \in Workers : FindKey(w) \/ ExportKey(w) \/ FlowEnds(w)
  \/ Restart

Spec == Init /\ [][Next]_vars

-----------------------------------------------------------------------------
(* Properties.                                                               *)

\* While a flow calls its LLM, the libraries that read the environment see the
\* key of that LLM (provider.py, "make the resolved key visible to them"), as
\* long as no other flow resolves beside it.
EnvironIsResolved ==
  ~shared => \A w \in Workers : worker[w].stage = "calling" => environ = worker[w].key

\* Without a readable stored key, resolution gives what the process was started
\* with ("resolution falls back to the environment", settings_store.py), as
\* long as no key has been cleared in this process: resolve() may have exported it.
FallsBackToEnvironment ==
  (stored = None \/ stored.secret # secret) /\ ~cleared => get_llm_key = initial

\* A key is the stored one, or else that of the environment, and it is the one
\* the libraries see: the two above, and the types.
KeyIsResolved == TypeOK /\ EnvironIsResolved /\ FallsBackToEnvironment
=============================================================================
