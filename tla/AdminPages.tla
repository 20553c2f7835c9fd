----------------------------- MODULE AdminPages -----------------------------
(* What the Admin page and the pages of the automations keep on the server   *)
(* between runs: browser sessions (BrowserLogin), the keys of the models     *)
(* (LlmKeys), cover letters, switches and custom automations (SettingsStore).*)
(* Each keeps rows or files of its own, so a behaviour is about one of them. *)
EXTENDS BrowserLogin

CONSTANTS
  Flows, Keys, Secrets, None,
  Requests, Names, MaxLetters, Known, Forgotten, Judges, Slugs, MaxAsked, Unset

VARIABLES stored, secret, initial, environ, flow, cleared, shared

VARIABLES setting, custom, request, asked, saved, deleted, failed, overlapped, reused, astray

LlmKey == INSTANCE LlmKeys WITH Workers <- Flows, worker <- flow
Store == INSTANCE SettingsStore

ASSUME KeysOfPages == LlmKey!KeysAssumption
ASSUME StoreOfPages == Store!StoreAssumption

VARIABLE subject

Subjects == {"session", "key", "letters", "values", "custom"}

keyVars == <<stored, secret, initial, environ, flow, cleared, shared>>
storeVars == <<setting, custom, request, asked, saved, deleted, failed, overlapped, reused, astray>>
adminVars == <<vars, keyVars, storeVars, subject>>

\* The variables of the other subjects keep one initial value.
AdminInit ==
  /\ subject \in Subjects
  /\ Init /\ LlmKey!Init /\ Store!Init
  /\ subject # "session" => kind = CHOOSE k \in Kinds : TRUE
  /\ subject # "key" => initial = None /\ secret = CHOOSE s \in Secrets : TRUE
  /\ subject # "values" => setting["enabled"] = Unset

OfSession == subject = "session" /\ UNCHANGED <<keyVars, storeVars, subject>>
OfKey == subject = "key" /\ UNCHANGED <<vars, storeVars, subject>>
OfStore(what) == subject = what /\ UNCHANGED <<vars, keyVars, subject>>

AdminNext ==
  \/ Next /\ OfSession
  \/ LlmKey!Next /\ OfKey
  \/ Store!LetterNext /\ OfStore("letters")
  \/ Store!ValueNext /\ OfStore("values")
  \/ Store!CustomNext /\ OfStore("custom")

\* Every wait of the login has a deadline or a timeout.
AdminSpec ==
  /\ AdminInit /\ [][AdminNext]_adminVars
  /\ \A w \in Workers : WF_adminVars(Work(w) /\ OfSession) /\ SF_adminVars(TimesOut(w) /\ OfSession)

-----------------------------------------------------------------------------
(* Properties: those of BrowserLogin, and these of the others.               *)

\* A key is the stored one, or else that of the environment, and it is the one the
\* libraries see (LlmKeys).
KeyIsResolved == LlmKey!KeyIsResolved

\* No change of a letter, a switch or an automation undoes another one behind its back,
\* as long as the two have not overlapped (SettingsStore).
StoreIsSound == Store!StoreIsSound
=============================================================================
