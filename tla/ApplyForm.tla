------------------------------ MODULE ApplyForm ------------------------------
(* What run_greenhouse_apply writes into an application form (plan_answers   *)
(* of the tool): the rules, the profile, the model for required questions    *)
(* the rules miss, and what stays unanswered.  A form is what the job board  *)
(* describes; an option of a question is a label that means something.       *)
(*                                                                           *)
(* A definition directly above another one with the same parameters is a     *)
(* mutant of it (PROJECT.json, mutants).                                     *)
EXTENDS Naturals, Sequences, SequencesExt, FiniteSets

CONSTANTS
  Means,    \* option label -> "Yes", "No", "agree", "source", "decline" or "other"
  Profile,  \* [allowed, authorized, sponsorship, extra, known], the last two topic -> answer
  Questions,  \* id -> [part, topic, countries, required, fields, options]
  Place     \* job -> [located, countries], countries may hold "*"

\* No answer.
Blank == ""

YesNo(flag) == IF flag THEN "Yes" ELSE "No"

BlanketIfUnknown(q, job) ==
  IF Profile.allowed = {} \/ (q.countries = {} /\ Place[job].countries = {}) THEN "blanket"
  ELSE YesNo(q.countries \subseteq Profile.allowed)
\* Whether a question about the right to work is about a country on the list.
AuthorizedFor(q, job) ==
  LET asked == IF q.countries # {} THEN q.countries ELSE Place[job].countries IN
  CASE Profile.allowed = {} \/ (q.countries = {} /\ ~Place[job].located) -> "blanket"
    [] OTHER -> IF asked = {} THEN "unknown"
                ELSE YesNo((q.countries = {} /\ "*" \in asked) \/ asked \subseteq Profile.allowed)

\* The answer to a question about the right to work; "skip" must not be guessed.
RightToWork(q, job) ==
  LET ok == AuthorizedFor(q, job)
      needs == ok = "No" \/ Profile.sponsorship
      authorized == IF ok = "blanket" THEN Profile.authorized ELSE ok = "Yes"
  IN IF ok = "unknown" THEN "skip"
     ELSE CASE q.topic = "sponsorship" -> YesNo(needs)
            [] q.topic = "authorized" -> YesNo(authorized)
            [] q.topic = "unsponsored" -> YesNo(authorized /\ ~needs)

\* Topics of the rules about the right to work.
RightTopics == {"sponsorship", "authorized", "unsponsored"}

\* What the user has given for a keyword comes before every rule.
RuleAnswer(q, job) ==
  IF q.topic \in DOMAIN Profile.extra THEN Profile.extra[q.topic]
  ELSE IF q.topic \in RightTopics THEN RightToWork(q, job)
  ELSE IF q.topic \in {"source", "agree"} THEN q.topic
  ELSE IF q.topic \in DOMAIN Profile.known THEN Profile.known[q.topic] ELSE Blank

\* The first option that says so.
ToOption(meaning, options) ==
  LET hits == {i \in DOMAIN options : Means[options[i]] = meaning}
  IN IF meaning = Blank \/ hits = {} THEN Blank ELSE options[CHOOSE i \in hits : \A k \in hits : i <= k]

OrElse(answer, other) == IF answer # Blank THEN answer ELSE other

-----------------------------------------------------------------------------
(* One question.  A field is [name, kind]: named for a topic of the profile, *)
(* "paste" (the text in place of a file) or "custom".                        *)

Custom == {"custom", "paste"}
Known(q) == SelectSeq(q.fields, LAMBDA f : f.kind # "unsupported")
Supported(q) == Known(q) # <<>>

\* The field that counts is the first that is no alternative to a file.
FieldOf(q) ==
  LET hasFile == \E f \in ToSet(Known(q)) : f.name \in {"resume", "cover_letter"}
  IN Head(SelectSeq(Known(q), LAMBDA f : ~(f.name = "paste" /\ hasFile)))

\* Without the model: the option the rule says, or the only one there is.
RuleOption(q, rule) ==
  OrElse(ToOption(rule, q.options), IF q.required /\ Len(q.options) = 1 THEN q.options[1] ELSE Blank)
RuleText(rule) == CASE rule = "source" -> "careers page" [] rule = "agree" -> Blank [] OTHER -> rule

\* Then the model, and at last declining where the question is about identity.
SelectAnswer(q, rule, reply) ==
  LET IfRequired(answer) == IF q.required THEN answer ELSE Blank IN
  OrElse(RuleOption(q, rule),
    OrElse(IfRequired(ToOption(reply, q.options)),
      IF q.topic = "identity" THEN IfRequired(ToOption("decline", q.options)) ELSE Blank))
TextAnswer(q, rule, reply) == OrElse(RuleText(rule), IF q.required THEN reply ELSE Blank)

\* Whether rules and model may answer at all.
IsOpen(q, job) ==
  /\ Supported(q) /\ FieldOf(q).name \in Custom /\ FieldOf(q).kind # "file"
  /\ RuleAnswer(q, job) # "skip"

\* reply is the model's, "" if it is not asked, abstains or fails.
AnswerTo(q, job, reply) ==
  LET rule == RuleAnswer(q, job) IN
  IF Supported(q) /\ FieldOf(q).name \notin Custom
  THEN IF FieldOf(q).name \in DOMAIN Profile.known THEN Profile.known[FieldOf(q).name] ELSE Blank
  ELSE IF ~IsOpen(q, job) THEN Blank
  ELSE IF FieldOf(q).kind = "select" THEN SelectAnswer(q, rule, reply) ELSE TextAnswer(q, rule, reply)

\* The model is asked for a required answer when rule and profile have none, and
\* before a question of identity is declined.
Consulted(q, job) ==
  /\ q.required /\ IsOpen(q, job)
  /\ LET rule == RuleAnswer(q, job)
     IN (IF FieldOf(q).kind = "select" THEN RuleOption(q, rule) ELSE RuleText(rule)) = Blank

\* A block (education, employment, location) the profile can fill, or not.
BlockAnswer(q) == IF q.topic \in DOMAIN Profile.known THEN Profile.known[q.topic] ELSE Blank

\* A survey of identity is declined where it is required.
Declined(q) == IF q.required THEN ToOption("decline", q.options) ELSE Blank

Answer(q, job, reply) ==
  CASE q.part = "block" -> BlockAnswer(q)
    [] q.part = "survey" -> Declined(q)
    [] q.part = "question" -> AnswerTo(q, job, reply)

\* A required question without an answer; one whose fields are all of a kind the
\* tool does not know is passed over.
IsUnanswered(q, answer) == q.required /\ answer = Blank /\ (q.part = "question" => Supported(q))

\* form is the set of the questions of a form, replies those of the model.
PlanAnswers(form, job, replies) ==
  LET answer == [id \in form |-> Answer(Questions[id], job, replies[id])] IN
  [answers |-> [id \in {i \in form : answer[i] # Blank} |-> answer[id]],
   unanswered |-> {id \in form : IsUnanswered(Questions[id], answer[id])}]

-----------------------------------------------------------------------------
\* A question is asked of everyone ("question"), is a block of its own ("block":
\* education, employment, location) or a survey of identity ("survey").  Only a select
\* has options, and it is a custom field, as is one about the right to work; an option
\* that reads Yes or No means it.
FormAssumption ==
  /\ Profile.authorized \in BOOLEAN /\ Profile.sponsorship \in BOOLEAN
  /\ \A m \in {"Yes", "No"} \cap DOMAIN Means : Means[m] = m
  /\ \A id \in DOMAIN Questions :
       LET q == Questions[id] IN
       /\ q.part \in {"question", "block", "survey"}
       /\ q.options \in Seq(DOMAIN Means) /\ (q.part = "block" => q.options = <<>>)
       /\ q.part = "question" /\ Supported(q) =>
            /\ q.options # <<>> => FieldOf(q).name \in Custom /\ FieldOf(q).kind = "select"
            /\ q.topic \in RightTopics => FieldOf(q).name \in Custom

-----------------------------------------------------------------------------
(* What an answer may be.                                                    *)

\* An answer about the right to work claims no country that is not on the list, and
\* nothing where the country is not known.
ClaimsNoOther(q, job, answer, reply) ==
  LET asked == IF q.countries # {} THEN q.countries ELSE Place[job].countries
      claim == IF answer \in DOMAIN Means THEN Means[answer] ELSE answer
      favourable == claim = IF q.topic = "sponsorship" THEN "No" ELSE "Yes"
  IN q.topic \in RightTopics \ DOMAIN Profile.extra
     /\ Profile.allowed # {}
     /\ (q.countries # {} \/ Place[job].located) /\ favourable /\ reply = Blank /\ Len(q.options) # 1
     => asked # {} /\ (asked \subseteq Profile.allowed \/ (q.countries = {} /\ "*" \in asked))

\* It is one of the options; of a survey only the one that declines; and the model
\* is heard only where the rules and the profile have nothing.
IsHonest(id, job, answer, reply) ==
  LET q == Questions[id] IN
  /\ q.options # <<>> => answer \in ToSet(q.options)
  /\ q.part = "survey" => Means[answer] = "decline"
  /\ q.part = "question" => ClaimsNoOther(q, job, answer, reply)
  /\ answer # Answer(q, job, Blank) => q.required /\ reply # Blank /\ Consulted(q, job)
=============================================================================
