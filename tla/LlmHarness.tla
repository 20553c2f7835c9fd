----------------------------- MODULE LlmHarness -----------------------------
(* The harness of one run: the attempts of executor.execute_run, the chain   *)
(* of models of _run_flow inside each attempt, the steps of                  *)
(* pipeline.execute_pipeline, validation, and the choice of a judge in       *)
(* harness/evaluator.py.  Administrators change keys and judge meanwhile, so *)
(* both are whatever they are when they are read (LlmKeys models the keys).  *)
(*                                                                           *)
(* A definition directly above another one with the same parameters is a     *)
(* mutant of it (PROJECT.json, mutants).                                     *)
EXTENDS Integers, Sequences, FiniteSets, SequencesExt

CONSTANTS
  Catalog,        \* _CATALOG: provider -> sequence of its models
  Default,        \* provider -> its default model
  BaseProvider,   \* "openai", whose entry stands in for a missing provider
  OtherProviders, \* provider names a payload may give that are not in _CATALOG
  Kinds,          \* subset of {"flow", "custom", "pipeline"}
  Steps,          \* number of steps of a pipeline
  MaxRetries,     \* bound on the max_retries of a payload
  MaxLlmAttempts, \* MAX_LLM_ATTEMPTS
  CodeJudge,      \* _DEFAULT_JUDGE
  JudgeModels,    \* the models an administrator may set for the judge, or None
  Requests,       \* the models a payload may name, or None for the default
  None

Providers == DOMAIN Catalog
AllProviders == Providers \cup OtherProviders
Models == (UNION {ToSet(Catalog[p]) : p \in Providers}) \cup (Requests \ {None})

ASSUME HarnessAssumption ==
  /\ \A p \in Providers :
       Catalog[p] \in Seq(ToSet(Catalog[p])) /\ IsInjective(Catalog[p]) /\ Default[p] \in ToSet(Catalog[p])
  /\ BaseProvider \in Providers
  /\ Kinds \subseteq {"flow", "custom", "pipeline"}
  /\ Steps \in Nat \ {0} /\ MaxRetries \in Nat /\ MaxLlmAttempts \in Nat \ {0}
  /\ CodeJudge \in Providers \X Models
  /\ JudgeModels \subseteq Models \cup {None}
  /\ None \notin Models \cup Nat \cup (AllProviders \X (Models \cup {None}))

VARIABLES
  kind, provider, named, maxRetries, \* the payload; named is its llm_model
  pc,        \* "begin", "kickoff", "validate", "evaluate", "done"
  attempt,   \* attempt of execute_run
  step,      \* step of the pipeline
  try,       \* attempt of _run_flow
  tried,     \* tried of _run_flow
  reason,    \* vr: the attempt whose reason it holds, or None
  raised,    \* history: the attempts that raised
  previous,  \* previous_error of the payload, in the same way
  producers, \* models that produced a part of the result at hand
  kickoffs,  \* history: number of kickoffs so far
  record     \* what _update_run stores

payload == <<kind, provider, named, maxRetries>>
chain == <<step, try, tried, producers, kickoffs>>
vars == <<payload, pc, attempt, chain, reason, raised, previous, record>>

Unset == [status |-> "running", served |-> None, fallback |-> FALSE, attempted |-> 1,
          judge |-> None, grader |-> None, flagged |-> FALSE]

-----------------------------------------------------------------------------
(* harness/provider.py.                                                      *)

ModelOf(p, m) == IF m # None THEN m ELSE Default[IF p \in Providers THEN p ELSE BaseProvider]

effective == ModelOf(provider, named)

fallback_sequence(p, m) ==
  <<m>> \o (IF p \in Providers THEN RemoveFirst(Catalog[p], m) ELSE <<>>)

\* The model of the n-th attempt of a chain; the one requested goes twice.
ModelStuck(seq, n) == seq[1]
ModelAt(seq, n) == seq[IF n <= 2 THEN 1 ELSE IF n - 1 < Len(seq) THEN n - 1 ELSE Len(seq)]

candidates == fallback_sequence(provider, effective)
current == IF kind = "custom" THEN effective ELSE ModelAt(candidates, try)

-----------------------------------------------------------------------------
Init ==
  /\ kind \in Kinds
  /\ provider \in AllProviders
  /\ named \in Requests
  /\ maxRetries \in 0..MaxRetries
  /\ pc = "begin" /\ attempt = 0 /\ step = 1 /\ try = 1 /\ tried = {}
  /\ reason = None /\ raised = {} /\ previous = None
  /\ producers = {} /\ kickoffs = 0
  /\ record = Unset

\* An attempt begins with the reason of the last validation in its payload.
PreviousOnce == IF attempt = 1 THEN reason ELSE None
PreviousReason == IF attempt > 0 THEN reason ELSE None

AttemptBegins ==
  /\ pc = "begin"
  /\ previous' = PreviousReason
  /\ step' = 1 /\ try' = 1 /\ tried' = {} /\ producers' = {}
  /\ pc' = "kickoff"
  /\ UNCHANGED <<payload, attempt, kickoffs, reason, raised, record>>

Kicked == kickoffs' = kickoffs + 1

KickoffSucceeds ==
  /\ pc = "kickoff"
  /\ Kicked
  /\ producers' = producers \cup {current}
  /\ IF kind = "pipeline" /\ step < Steps
     THEN step' = step + 1 /\ try' = 1 /\ tried' = {} /\ UNCHANGED pc
     ELSE pc' = "validate" /\ tried' = tried \cup {current} /\ UNCHANGED <<step, try>>
  /\ UNCHANGED <<payload, attempt, reason, raised, previous, record>>

\* A transient error: the chain backs off and goes on while attempts are left.
KickoffUnavailable ==
  /\ pc = "kickoff"
  /\ kind # "custom"
  /\ try < MaxLlmAttempts
  /\ Kicked
  /\ tried' = tried \cup {current}
  /\ try' = try + 1
  /\ UNCHANGED <<payload, pc, attempt, step, producers, reason, raised, previous, record>>

\* What raises leaves the attempt; without retries left the run has failed.
Raised ==
  IF attempt < maxRetries
  THEN pc' = "begin" /\ attempt' = attempt + 1 /\ UNCHANGED record
  ELSE pc' = "done" /\ record' = [Unset EXCEPT !.status = "failed"] /\ UNCHANGED attempt

\* A hard error, a missing key or a disabled definition at any attempt, or a
\* transient one at the last (at the only one of a custom automation).
KickoffRaises ==
  /\ pc = "kickoff"
  /\ Kicked
  /\ tried' = tried \cup {current}
  /\ raised' = raised \cup {attempt}
  /\ Raised
  /\ UNCHANGED <<payload, step, try, producers, reason, previous>>

Validate(valid) ==
  /\ pc = "validate"
  /\ reason' = IF valid THEN None ELSE attempt
  /\ IF ~valid /\ attempt < maxRetries
     THEN pc' = "begin" /\ attempt' = attempt + 1
     ELSE pc' = "evaluate" /\ UNCHANGED attempt
  /\ UNCHANGED <<payload, chain, raised, previous, record>>

-----------------------------------------------------------------------------
(* harness/evaluator.py.                                                     *)

\* The judge of the admin settings, <<provider, model>> or None.
Judges == {None} \cup (Providers \X JudgeModels)

preferred(judge) == IF judge # None THEN judge ELSE CodeJudge

JudgesSelfFirst(judge) ==
  <<preferred(judge), <<provider, effective>>>>
JudgeCandidates(judge) ==
  LET own == <<provider, effective>>
      siblings == IF provider \in Providers THEN RemoveFirst(Catalog[provider], effective) ELSE <<>>
  IN  (IF preferred(judge) # own THEN <<preferred(judge)>> ELSE <<>>)
      \o [i \in 1..Len(siblings) |-> <<provider, siblings[i]>>]
      \o <<own>>

\* The first of those whose provider has a key.
Usable(judge, keyed) ==
  LET ordered == JudgeCandidates(judge) IN {i \in DOMAIN ordered : ordered[i][1] \in keyed}
Grader(judge, keyed) ==
  LET first == JudgeCandidates(judge)[Min(Usable(judge, keyed))]
  IN  <<first[1], ModelOf(first[1], first[2])>>

Flagged(grader) == grader = <<provider, effective>>

\* What _run_flow, _run_custom and execute_run report as having served.
Served == IF kind = "pipeline" THEN effective ELSE current
Attempted == IF kind = "flow" THEN Cardinality(tried) ELSE 1

Finished(judge, grader, flag) ==
  /\ pc = "evaluate"
  /\ pc' = "done"
  /\ record' = [status |-> IF reason = None THEN "success" ELSE "failed",
                served |-> Served, fallback |-> Served # effective,
                attempted |-> Attempted, judge |-> judge, grader |-> grader, flagged |-> flag]
  /\ UNCHANGED <<payload, attempt, chain, reason, raised, previous>>

Judged(judge, keyed) ==
  /\ Usable(judge, keyed) # {}
  /\ Finished(judge, Grader(judge, keyed), Flagged(Grader(judge, keyed)))

\* The result holds an error, no judge has a key, or its one call failed.
Unjudged == Finished(None, None, FALSE)

-----------------------------------------------------------------------------
Next ==
  \/ AttemptBegins
  \/ KickoffSucceeds \/ KickoffUnavailable \/ KickoffRaises
  \/ \E valid \in BOOLEAN : Validate(valid)
  \/ \E judge \in Judges, keyed \in SUBSET Providers : Judged(judge, keyed)
  \/ Unjudged

Spec == Init /\ [][Next]_vars

-----------------------------------------------------------------------------
(* Properties.                                                               *)

TypeOK ==
  /\ pc \in {"begin", "kickoff", "validate", "evaluate", "done"}
  /\ attempt \in 0..maxRetries
  /\ step \in 1..Steps /\ try \in 1..MaxLlmAttempts
  /\ tried \subseteq Models /\ producers \subseteq Models
  /\ {reason, previous} \subseteq {None} \cup 0..maxRetries
  /\ raised \subseteq 0..maxRetries
  /\ record.served \in Models \cup {None}

\* A run gives up on an overloaded provider only when the chain of its last
\* attempt has tried as many models as five attempts allow (README, section 3).
\* Stated on the step that leaves a full chain.
TriesEveryFallback ==
  [][pc = "kickoff" /\ kind # "custom" /\ try = MaxLlmAttempts =>
       \/ kickoffs' = kickoffs
       \/ Cardinality(tried \cup {current}) >= IF Len(candidates) < MaxLlmAttempts - 1
                                 THEN Len(candidates) ELSE MaxLlmAttempts - 1]_vars

\* Within a chain a model is kicked off again only when it is the requested
\* one at the second attempt, or the last of the sequence.
OneModelPerAttempt ==
  [][pc = "kickoff" /\ kickoffs' # kickoffs /\ kind # "custom" /\ current \in tried =>
       current = candidates[Len(candidates)] \/ (try = 2 /\ current = effective)]_vars

\* Whatever fails, the flows of a run are kicked off a bounded number of times
\* (each kickoff may send mail or submit a form).
KickoffsBounded ==
  kickoffs <= (maxRetries + 1) * (IF kind = "custom" THEN 1 ELSE MaxLlmAttempts)
                    * (IF kind = "pipeline" THEN Steps ELSE 1)

\* A retry is told the reason of the latest attempt that gave a result, also
\* past attempts that raised ("fix this issue from the previous attempt",
\* README, section 2).
FeedbackIsLatest ==
  LET results == (0 .. attempt - 1) \ raised
  IN  pc = "kickoff" =>
        previous = IF results = {} THEN None ELSE CHOOSE a \in results : \A b \in results : b <= a

\* Only models of the payload's own provider, or the one it named, are used
\* (provider.py, "never leak another provider's models"); an unknown provider
\* has to come with a model, as normalize takes the default of the base
\* provider otherwise.
NoForeignModel ==
  [][kickoffs' # kickoffs /\ (provider \in Providers \/ named # None) =>
       \/ current = named
       \/ provider \in Providers /\ current \in ToSet(Catalog[provider])]_vars

\* The stored served_model is the model that produced the result (models.py),
\* except for a pipeline, which drops what its steps report.
ServedIsProducer ==
  kind # "pipeline" /\ record.served # None => producers = {record.served}

\* A score by the model that produced the result is flagged, as long as no
\* fallback took part: execute_run names the requested model to the judge.
SelfGradeIsFlagged ==
  producers \subseteq {effective} /\ record.grader = <<provider, effective>> => record.flagged

\* A judge set to a provider without a model, when the run uses the default
\* model of that provider: _judge_candidates takes them for different.
HiddenSelf == record.judge = <<provider, None>> /\ effective = ModelOf(provider, None)

\* A run is graded by its own model only if its provider has no other model
\* (evaluator.py, "only as a last resort"), unless the judge hides it.
SelfGradeIsLastResort ==
  record.grader = <<provider, effective>> /\ provider \in Providers =>
    HiddenSelf \/ \A m \in ToSet(Catalog[provider]) : m = effective

\* The retries of a run: bounded, and told the right reason; and the types.
RetriesAreSound == TypeOK /\ KickoffsBounded /\ FeedbackIsLatest

\* What a run stores about itself is true: who made it and who graded it.
RecordIsHonest == ServedIsProducer /\ SelfGradeIsFlagged /\ SelfGradeIsLastResort

\* The chain of models: every fallback is tried, none twice without need, and
\* none of another provider.
ChainIsComplete == TriesEveryFallback /\ OneModelPerAttempt /\ NoForeignModel
=============================================================================
