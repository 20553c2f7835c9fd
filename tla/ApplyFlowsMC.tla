---------------------------- MODULE ApplyFlowsMC ----------------------------
(* Greenhouse: a board of two jobs and a board of one, a dry run under a     *)
(* quota of jobs per board, and a run that sends, scans two jobs of a board  *)
(* at most, and is given the larger board twice.  The listings have the same *)
(* jobs in order, and one that may be published later.                       *)
EXTENDS ApplyFlows

MCBoard == [j \in Jobs |-> IF j = "c" THEN "small" ELSE "large"]

MCQuota == [groups |-> <<<<"a", "b">>, <<"c">>>>,
            limit |-> 3, perBoard |-> 1, scans |-> 0, dry |-> TRUE]
MCTwice == [groups |-> <<<<"a", "b">>, <<"a", "c">>>>,
            limit |-> 2, perBoard |-> 0, scans |-> 2, dry |-> FALSE]

MCInputs == {MCQuota, MCTwice}

MCListed == <<"a", "b", "c">>

\* The flows: a job abroad, one that does not say where, one anywhere and one
\* without a place; a candidate
\* who may work in one country and has not given everything.
MCOpenings == <<"a", "b", "c", "d">>
MCPlace == [a |-> [located |-> TRUE, countries |-> {"japan"}],
            b |-> [located |-> TRUE, countries |-> {}],
            c |-> [located |-> TRUE, countries |-> {"*"}],
            d |-> [located |-> FALSE, countries |-> {}]]
MCProfile ==
  [allowed |-> {"taiwan"}, authorized |-> TRUE, sponsorship |-> FALSE,
   extra |-> [notice |-> "month"],
   known |-> [resume |-> "file", location |-> "taipei"]]

MCMeans ==
  [yes |-> "Yes", no |-> "No", agree |-> "agree", board |-> "source",
   decline |-> "decline", identity |-> "other"]

Select(part, topic, countries, required, options) ==
  [part |-> part, topic |-> topic, countries |-> countries, required |-> required,
   options |-> options, fields |-> <<[name |-> "custom", kind |-> "select"]>>]
Text(topic, required, fields) ==
  [part |-> "question", topic |-> topic, countries |-> {}, required |-> required,
   options |-> <<>>, fields |-> fields]
Block(topic) == [Text(topic, TRUE, <<>>) EXCEPT !.part = "block"]

YesOrNo == <<"yes", "no">>
Identities == <<"identity", "decline">>

MCQuestions == [
  workThere |-> Select("question", "authorized", {}, TRUE, YesOrNo),
  workHere |-> Select("question", "unsponsored", {"taiwan"}, TRUE, YesOrNo),
  sponsored |-> Select("question", "sponsorship", {}, TRUE, YesOrNo),
  terms |-> Select("question", "terms", {}, TRUE, <<"agree">>),
  found |-> Select("question", "source", {}, FALSE, <<"board">>),
  pronoun |-> Select("question", "identity", {}, TRUE, Identities),
  race |-> Select("survey", "identity", {}, TRUE, Identities),
  veteran |-> Select("survey", "identity", {}, FALSE, Identities),
  resume |-> Text("resume", TRUE, <<[name |-> "paste", kind |-> "text"],
                                    [name |-> "resume", kind |-> "file"]>>),
  notice |-> Text("notice", TRUE, <<[name |-> "custom", kind |-> "text"]>>),
  why |-> Text("why", TRUE, <<[name |-> "custom", kind |-> "text"]>>),
  whyUs |-> Text("why", TRUE, <<[name |-> "custom", kind |-> "text"]>>),
  consent |-> Text("agree", TRUE, <<[name |-> "custom", kind |-> "unsupported"]>>),
  location |-> Block("location"),
  school |-> [Block("school") EXCEPT !.required = FALSE]]

MCForm == [
  a |-> {"workThere", "sponsored", "terms", "found", "pronoun", "race", "veteran", "resume",
         "consent", "location"},
  b |-> {"workThere", "whyUs"},
  c |-> {"workHere", "sponsored", "notice", "why", "location", "school"},
  d |-> {"workThere", "sponsored"}]

Payload(flow) ==
  {[flow |-> flow, required |-> TRUE, charges |-> c, filter |-> f, background |-> b,
    area |-> a, template |-> t, dry |-> d] :
     c \in IF flow = "tasker_apply" THEN {<<100, 200>>, <<200, 100>>, <<50, 200>>} ELSE {<<0, 0>>},
     f \in BOOLEAN, b \in IF flow = "greenhouse_apply" THEN BOOLEAN ELSE {FALSE},
     a \in IF flow = "tw104_apply" THEN SUBSET {"taipei", "hsinchu", "typo"} ELSE {{}},
     t \in IF flow = "tasker_apply" THEN {"good", "broken"} ELSE {"good"},
     d \in BOOLEAN}

MCPayloads ==
  UNION {Payload(f) \cup {[p EXCEPT !.required = FALSE] : p \in Payload(f)} : f \in JobTypes}

\* The forms: one that asks where from, one whose list has no place of the applicant's,
\* one that nobody can answer, and one of screening questions.
Field(kind, topic, required, value, options) ==
  [kind |-> kind, topic |-> topic, required |-> required, value |-> value, invalid |-> FALSE,
   fussy |-> FALSE, options |-> options]
MCContact == <<Field("text", "phone", TRUE, "", <<>>), Field("text", "email", TRUE, "given", <<>>)>>
MCCountry == <<Field("select", "nationality", TRUE, "", <<"abroad", "own">>), Field("text", "place", FALSE, "", <<>>)>>
MCAbroad == <<Field("select", "place", TRUE, "", <<"abroad">>)>>
MCScreening ==
  <<Field("text", "years", TRUE, "N/A", <<>>), Field("number", "years", TRUE, "", <<>>),
    Field("radio", "sponsorship", TRUE, "", <<"yes", "no">>), Field("textarea", "why", TRUE, "", <<>>)>>
MCFussy ==
  <<[Field("text", "why", TRUE, "", <<>>) EXCEPT !.fussy = TRUE], Field("checkbox", "terms", TRUE, "", <<>>)>>
MCForms ==
  {<<MCContact, MCCountry, MCScreening>>, <<MCContact, MCAbroad>>, <<MCScreening, MCFussy, MCContact>>, <<MCScreening>>}

MCProfiles ==
  {[phone |-> "phone", nationality |-> "own", place |-> "home"], [phone |-> "", nationality |-> "", place |-> ""]}
=============================================================================
