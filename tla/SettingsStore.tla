---------------------------- MODULE SettingsStore ----------------------------
(* What requests keep in the database for the automations: the values of     *)
(* settings_store.py (the cover letters of 104, the enabled automations, the *)
(* judge of the results) and the custom automations of custom_automations.py.*)
(* The keys of the models are in LlmKeys.  A request reads, and writes in a  *)
(* transaction that does not hold what was read, so requests cut through     *)
(* each other.  The number of a request stands for what it brings: the text  *)
(* of a letter, the body of an automation.                                   *)
(*                                                                           *)
(* A definition directly above another one with the same parameters is a     *)
(* mutant of it (PROJECT.json, mutants).                                     *)
EXTENDS Integers, Sequences, SequencesExt, FiniteSetsExt

CONSTANTS
  Requests,         \* threads that serve them
  Names,            \* of letters
  MaxLetters,       \* _COVER_LETTERS_MAX_COUNT
  Known, Forgotten, \* job types that exist, and that did
  Judges,
  Slugs,            \* of custom automations
  MaxAsked,         \* bound on the requests
  Unset

StoreAssumption ==
  /\ MaxLetters \in Nat \ {0} /\ MaxAsked \in Nat
  /\ Unset \notin Judges /\ Known \cap Forgotten = {}
  /\ Unset \notin Seq([name : Names, text : Nat])
  \* The job type of a custom automation has a prefix of its own.
  /\ Slugs \cap (Known \cup Forgotten) = {}

VARIABLES
  setting,    \* key -> value or Unset, the Setting table
  custom,     \* id -> [slug, enabled, no], the CustomAutomation table
  request,    \* thread -> what it is at
  asked,      \* the requests so far
  saved,      \* history: name -> the last letter saved under it, 0 for none
  deleted,    \* history: the names deleted since
  failed,     \* history: requests answered with an error
  overlapped, \* history: a change of the letters was made although another one has
              \* come since its request has read the list
  reused,     \* history: an id was given out again under an open request
  astray      \* history: a request changed an automation it was not meant for

storeVars == <<setting, custom, request, asked, saved, deleted, failed, overlapped, reused, astray>>
letterHistory == <<saved, deleted, overlapped>>
customHistory == <<reused, astray>>

Idle == [stage |-> "idle"]

\* An older version may have left the automations of its time.
Init ==
  /\ \E enabled \in {Unset, Known \cup Forgotten} :
       setting = [letters |-> Unset, enabled |-> enabled, judge |-> Unset]
  /\ custom = <<>>
  /\ request = [r \in Requests |-> Idle]
  /\ asked = 0
  /\ saved = [n \in Names |-> 0] /\ deleted = {} /\ failed = {}
  /\ overlapped = FALSE /\ reused = FALSE /\ astray = FALSE

Ask(r, what) ==
  /\ request[r] = Idle /\ asked < MaxAsked
  /\ asked' = asked + 1
  /\ request' = [request EXCEPT ![r] = what]
  /\ UNCHANGED <<setting, custom, letterHistory, customHistory, failed>>

Answered(r) == request' = [request EXCEPT ![r] = Idle] /\ UNCHANGED asked

\* An exception nothing catches: the primary key is taken, or the row is gone.
Fails(r) ==
  /\ Answered(r)
  /\ failed' = failed \cup {request[r].no}
  /\ UNCHANGED <<setting, custom, letterHistory, customHistory>>

-----------------------------------------------------------------------------
(* settings_store.py.                                                        *)

get_cover_letters == IF setting["letters"] = Unset THEN <<>> ELSE setting["letters"]

\* The letters of other names, in their order: the k-th is the one with k of them up to it.
Others(letters, name) ==
  LET other == {i \in DOMAIN letters : letters[i].name # name}
      At(k) == CHOOSE i \in other : Cardinality({h \in other : h <= i}) = k
  IN  [k \in 1..Cardinality(other) |-> letters[At(k)]]

UpsertedAtEnd(letters, name, text) ==
  LET all == Append(Others(letters, name), [name |-> name, text |-> text])
  IN  IF Len(all) <= MaxLetters THEN all ELSE SubSeq(all, 1, MaxLetters)
\* save_cover_letter: in front, and the oldest go.
Upserted(letters, name, text) ==
  LET all == <<[name |-> name, text |-> text]>> \o Others(letters, name)
  IN  IF Len(all) <= MaxLetters THEN all ELSE SubSeq(all, 1, MaxLetters)

OfLetter(change, name) ==
  [stage |-> "look", no |-> asked + 1, key |-> "letters", row |-> FALSE,
   change |-> change, name |-> name, read |-> get_cover_letters]
SaveLetter(r) == \E n \in Names : Ask(r, OfLetter("save", n))
DeleteLetter(r) == \E n \in Names : Ask(r, OfLetter("delete", n))

\* Only job types that exist are stored, and read back.
OfValue(key, value) == [stage |-> "look", no |-> asked + 1, key |-> key, row |-> FALSE, value |-> value]
SetAutomations(r) == \E types \in SUBSET (Known \cup Forgotten) : Ask(r, OfValue("enabled", types \cap Known))
get_enabled_automations == IF setting["enabled"] = Unset THEN Known ELSE setting["enabled"] \cap Known

\* No judge: the setting is deleted.
SetJudge(r) == \E j \in Judges \cup {Unset} : Ask(r, OfValue("judge", j))

Value(q) ==
  IF q.key # "letters" THEN q.value
  ELSE IF q.change = "save" THEN Upserted(q.read, q.name, q.no) ELSE Others(q.read, q.name)

\* set_setting and delete_setting: first the row is looked up.
Look(r) ==
  LET q == request[r] IN
  /\ q.stage = "look"
  /\ IF Value(q) = Unset /\ setting[q.key] = Unset
     THEN Answered(r)
     ELSE request' = [request EXCEPT ![r].stage = "commit", ![r].row = (setting[q.key] # Unset)] /\ UNCHANGED asked
  /\ UNCHANGED <<setting, custom, letterHistory, customHistory, failed>>

NotesLetters(q) ==
  /\ overlapped' = (overlapped \/ q.read # get_cover_letters \/ \E n \in Names : saved[n] > q.no)
  /\ saved' = IF q.change = "save" THEN [saved EXCEPT ![q.name] = q.no] ELSE saved
  /\ deleted' = IF q.change = "save" THEN deleted \ {q.name} ELSE deleted \cup {q.name}

\* Then it is inserted or updated, or deleted: a deletion that finds no row only warns.
Commit(r) ==
  LET q == request[r] IN
  /\ q.stage = "commit"
  /\ IF Value(q) # Unset /\ q.row # (setting[q.key] # Unset)
     THEN Fails(r)
     ELSE /\ setting' = [setting EXCEPT ![q.key] = Value(q)]
          /\ IF q.key = "letters" THEN NotesLetters(q) ELSE UNCHANGED letterHistory
          /\ Answered(r)
          /\ UNCHANGED <<custom, customHistory, failed>>

-----------------------------------------------------------------------------
(* custom_automations.py.                                                    *)

SlugsInUse == {custom[id].slug : id \in DOMAIN custom}
NextId == 1 + Max({0} \cup DOMAIN custom)

\* create: 400 for a slug in use.
CheckSlug(r) ==
  \E s \in Slugs \ SlugsInUse : Ask(r, [stage |-> "insert", no |-> asked + 1, slug |-> s])

\* The unique index refuses what another request has inserted since.
Taken(slug) == slug \in SlugsInUse

Insert(r) ==
  LET q == request[r]
      row == [slug |-> q.slug, enabled |-> TRUE, no |-> q.no]
  IN /\ q.stage = "insert"
     /\ IF Taken(q.slug) THEN Fails(r)
        ELSE /\ custom' = [id \in DOMAIN custom \cup {NextId} |-> IF id = NextId THEN row ELSE custom[id]]
             /\ reused' = (reused \/ \E w \in Requests : request[w].stage = "change" /\ request[w].id = NextId)
             /\ Answered(r)
             /\ UNCHANGED <<setting, letterHistory, astray, failed>>

\* set_enabled and delete load the row of an id: 404 without one.
LoadCustom(r) ==
  \E id \in DOMAIN custom, to \in {"enabled", "disabled", "deleted"} :
    Ask(r, [stage |-> "change", no |-> asked + 1, id |-> id, to |-> to, was |-> custom[id]])

NotesCustom(q) == astray' = (astray \/ custom[q.id].no # q.was.no) /\ UNCHANGED reused

\* A flag that is not changed is not written.
ChangeCustom(r) ==
  LET q == request[r]
      kept == q.to # "deleted" /\ q.was.enabled = (q.to = "enabled")
  IN /\ q.stage = "change"
     /\ IF q.id \in DOMAIN custom
        THEN /\ custom' = IF q.to = "deleted" THEN [id \in DOMAIN custom \ {q.id} |-> custom[id]]
                          ELSE IF kept THEN custom ELSE [custom EXCEPT ![q.id].enabled = (q.to = "enabled")]
             /\ IF kept THEN UNCHANGED customHistory ELSE NotesCustom(q)
             /\ Answered(r)
             /\ UNCHANGED <<setting, letterHistory, failed>>
        ELSE IF q.to = "deleted"
             THEN Answered(r) /\ UNCHANGED <<setting, custom, letterHistory, customHistory, failed>>
             ELSE Fails(r)

\* is_automation_enabled.
IsEnabled(type) ==
  \/ type \in get_enabled_automations
  \/ \E id \in DOMAIN custom : custom[id].slug = type /\ custom[id].enabled

\* The letters, the other settings and the automations have nothing to do with each other.
Writes(r) == Look(r) \/ Commit(r)
LetterNext == \E r \in Requests : SaveLetter(r) \/ DeleteLetter(r) \/ Writes(r)
ValueNext == \E r \in Requests : SetAutomations(r) \/ SetJudge(r) \/ Writes(r)
CustomNext == \E r \in Requests : CheckSlug(r) \/ Insert(r) \/ LoadCustom(r) \/ ChangeCustom(r)

-----------------------------------------------------------------------------
(* Properties.                                                               *)

StoreTypeOK ==
  /\ setting["letters"] = Unset \/ \A i \in DOMAIN setting["letters"] : setting["letters"][i].name \in Names
  /\ setting["enabled"] = Unset \/ setting["enabled"] \subseteq Known \cup Forgotten
  /\ setting["judge"] \in Judges \cup {Unset}
  /\ asked \in 0..MaxAsked

\* Whatever overlaps, a name is listed once, the list keeps its limit, and what a failed
\* request brought is not in it.
ListIsSound ==
  LET letters == get_cover_letters IN
  /\ Len(letters) <= MaxLetters
  /\ \A i, k \in DOMAIN letters : letters[i].name = letters[k].name => i = k
  /\ \A i \in DOMAIN letters : letters[i].text \notin failed

\* The letters are those saved last, newest first, each with its last text; one that is
\* missing was deleted, or pushed out by as many later ones as the list holds.  This is
\* so until two changes of the letters have overlapped: then one of them may be lost.
LettersAreKept ==
  LET letters == get_cover_letters
      listed == {letters[i].name : i \in DOMAIN letters}
      Later(n) == {m \in Names : saved[m] > saved[n]}
  IN ~overlapped =>
       /\ \A i \in DOMAIN letters :
            /\ letters[i].name \notin deleted /\ letters[i].text = saved[letters[i].name]
            /\ i > 1 => letters[i].text < letters[i - 1].text
       /\ \A n \in Names \ (listed \cup deleted) : saved[n] # 0 => Cardinality(Later(n)) >= MaxLetters

\* A slug, and with it a job type, stands for one custom automation, and a switch or a
\* deletion reaches the one it was meant for unless its id was given out again.
AutomationsAreOne ==
  /\ \A i, k \in DOMAIN custom : custom[i].slug = custom[k].slug => i = k
  /\ astray => reused

\* An automation that is not known any more cannot be run.
ForgottenStayOff == \A t \in Forgotten : ~IsEnabled(t)

StoreIsSound == StoreTypeOK /\ ListIsSound /\ LettersAreKept /\ AutomationsAreOne /\ ForgottenStayOff
=============================================================================
