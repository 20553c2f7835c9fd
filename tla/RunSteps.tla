------------------------------ MODULE RunSteps ------------------------------
(* What a run writes to its log step by step (executor.execute_run,          *)
(* pipeline.execute_pipeline, progress.append_log) and what the overview     *)
(* grid and the run page read out of that log (automation/flow_steps.py,     *)
(* ui/app.js).  A step of a flow is known by a trigger in a log entry, a     *)
(* step of a pipeline by its "[Step n/total]" markers.  The chain of models  *)
(* inside one step is in LlmHarness.                                         *)
(*                                                                           *)
(* A definition directly above another one with the same parameters is a     *)
(* mutant of it (PROJECT.json, mutants).                                     *)
EXTENDS Integers, Sequences, FiniteSets, SequencesExt

CONSTANTS
  Kinds,       \* subset of {"flow", "pipeline"}
  NFlow,       \* number of steps of a flow; the last three are _QA and _DONE
  NPipeline,   \* number of steps of a pipeline
  MaxRetries,  \* bound on the max_retries of a payload
  MaxLost      \* bound on log writes that fail (append_log only warns)

StepsAssumption ==
  /\ Kinds \subseteq {"flow", "pipeline"}
  /\ NFlow \in Nat /\ NFlow >= 5 /\ NPipeline \in Nat /\ NPipeline >= 2
  /\ MaxRetries \in Nat /\ MaxLost \in Nat

VARIABLES
  kind, maxRetries,  \* the payload
  log,       \* the entries of run.log
  lost,      \* log writes that failed
  status,    \* of the row
  pc,        \* "begin", "step", "inside", "validate", "evaluate", "ended"
  attempt,   \* attempt of execute_run
  step,      \* the step at work; 0 between the steps of a pipeline
  results,   \* results of execute_pipeline: the attempt each one was made in
  inputs,    \* history: step -> attempts its template variables came from
  finished,  \* history: the steps completed in the attempt at hand
  failedAt   \* history: the step at work when the last exception was raised

run == <<kind, maxRetries>>
history == <<results, inputs, finished, failedAt>>
vars == <<run, log, lost, status, pc, attempt, step, history>>

N == IF kind = "flow" THEN NFlow ELSE NPipeline

Step == 1..N
Verify == N - 2
Evaluate == N - 1
Done == N

Entries == [mark : {"trigger", "start", "completed", "none"}, step : 0..N, by : 0..N]

Init ==
  /\ kind \in Kinds /\ maxRetries \in 0..MaxRetries
  /\ log = <<>> /\ lost = 0
  /\ status = "running" /\ pc = "begin" /\ attempt = 1 /\ step = 0
  /\ results = <<>> /\ inputs = [s \in Step |-> {}] /\ finished = {} /\ failedAt = 0

-----------------------------------------------------------------------------
(* automation/flow_steps.py, over a log l and the status st of its row.      *)

MarkedSteps(l, m) == {s \in Step : \E i \in DOMAIN l : l[i].mark = m /\ l[i].step = s}
Largest(S) == CHOOSE s \in S : \A t \in S : t <= s

Reached(l) == Largest(MarkedSteps(l, "trigger") \cup {0})

Terminal(st, otherwise) ==
  CASE st = "failed" -> "failed" [] st = "success" -> "done" [] OTHER -> otherwise

InferEager(l, st) == [s \in Step |-> IF s <= Reached(l) THEN "done" ELSE "pending"]
infer_step_states(l, st) ==
  [s \in Step |-> CASE s < Reached(l) -> "done"
                    [] s = Reached(l) -> Terminal(st, "running")
                    [] OTHER -> "pending"]

\* setdefault: a second start of the step keeps its "done".
IsDone(l, s) ==
  \E i, j \in DOMAIN l : /\ i < j /\ l[i].step = s /\ l[j].step = s
                         /\ l[i].mark = "start" /\ l[j].mark = "completed"

\* The markers carry the total; without one a single step is shown.
Total(l) == IF MarkedSteps(l, "start") \cup MarkedSteps(l, "completed") = {} THEN 1 ELSE N

FromMarkers(l, st, total) ==
  [s \in 1..total |->
     IF IsDone(l, s) THEN "done"
     ELSE IF s = total /\ st \in {"success", "failed"} THEN Terminal(st, "running")
     ELSE IF s \in MarkedSteps(l, "start") THEN "running"
     ELSE "pending"]

pipeline_step_states(l, st) == FromMarkers(l, st, Total(l))

\* renderPipelineStepGraph of the page: the total of the first start it finds.
PageTotal(l) == IF MarkedSteps(l, "start") = {} THEN 1 ELSE N
PageStates(l, st) == FromMarkers(l, st, PageTotal(l))

States(l, st) ==
  IF kind = "pipeline" THEN pipeline_step_states(l, st) ELSE infer_step_states(l, st)

\* run_step_logs: the step entry i of l is filed under.
Bucket(l, i) ==
  IF kind = "pipeline"
  THEN LET marked == {j \in 1..i : l[j].mark \in {"start", "completed"}}
       IN  IF marked = {} THEN 1 ELSE l[Largest(marked)].step
  ELSE Largest({1} \cup {l[j].step : j \in {h \in 1..i : l[h].mark = "trigger"}})

-----------------------------------------------------------------------------
(* progress.append_log.                                                      *)

Entry(mark, s, by) == [mark |-> mark, step |-> s, by |-> by]
Note(by) == Entry("none", 0, by)

Writes(entries) ==
  \/ log' = log \o entries /\ UNCHANGED lost
  \/ /\ lost < MaxLost
     /\ lost' = lost + 1
     /\ \E i \in DOMAIN entries : log' = log \o RemoveAt(entries, i)

-----------------------------------------------------------------------------
(* The flow of a run.                                                        *)

BeginFlow ==
  /\ pc = "begin" /\ kind = "flow"
  /\ Writes(<<Entry("trigger", 1, 1)>>)
  /\ pc' = "inside" /\ step' = 1
  /\ UNCHANGED <<run, status, attempt, history>>

\* The next step begins with its trigger and may log more.
FlowStep ==
  /\ pc = "inside" /\ kind = "flow"
  /\ step + 1 < Verify
  /\ step' = step + 1
  /\ finished' = finished \cup {step}
  /\ \E notes \in {<<>>, <<Note(step')>>} : Writes(<<Entry("trigger", step', step')>> \o notes)
  /\ UNCHANGED <<run, status, pc, attempt, results, inputs, failedAt>>

FlowReturns ==
  /\ pc = "inside" /\ kind = "flow"
  /\ step + 1 = Verify
  /\ step' = Verify /\ pc' = "validate"
  /\ finished' = finished \cup {step}
  /\ Writes(<<Entry("trigger", Verify, Verify)>>)
  /\ UNCHANGED <<run, status, attempt, results, inputs, failedAt>>

-----------------------------------------------------------------------------
(* pipeline.execute_pipeline.                                                *)

BeginPipeline ==
  /\ pc = "begin" /\ kind = "pipeline"
  /\ Writes(<<Note(0)>>)
  /\ pc' = "step"
  /\ UNCHANGED <<run, status, attempt, step, history>>

\* _interpolate: a variable of a step without a result stays as it is.
StartStep ==
  LET s == Len(results) + 1 IN
  /\ pc = "step" /\ s <= N
  /\ step' = s /\ pc' = "inside"
  /\ inputs' = [inputs EXCEPT ![s] = ToSet(results)]
  /\ Writes(<<Entry("start", s, s)>>)
  /\ UNCHANGED <<run, status, attempt, results, finished, failedAt>>

CompleteStep ==
  /\ pc = "inside" /\ kind = "pipeline"
  /\ results' = Append(results, attempt)
  /\ finished' = finished \cup {step}
  /\ \E notes \in {<<>>, <<Note(step)>>} : Writes(notes \o <<Entry("completed", step, step)>>)
  /\ step' = 0 /\ pc' = "step"
  /\ UNCHANGED <<run, status, attempt, inputs, failedAt>>

\* A list of steps always validates.
PipelineReturns ==
  /\ pc = "step" /\ Len(results) = N
  /\ pc' = "validate"
  /\ Writes(<<Note(0)>>)
  /\ UNCHANGED <<run, status, attempt, step, history>>

-----------------------------------------------------------------------------
(* The attempts of execute_run.                                              *)

ResultsKept == results
ResultsAfresh == <<>>

MoreAttempts == attempt <= maxRetries

\* The next attempt; its "Retrying" belongs to no step.
Again ==
  /\ attempt' = attempt + 1
  /\ results' = ResultsAfresh /\ finished' = {}
  /\ step' = IF kind = "flow" THEN 1 ELSE 0
  /\ pc' = IF kind = "flow" THEN "inside" ELSE "step"
  /\ UNCHANGED <<run, status, inputs>>

\* The step raises, or a malformed step of a pipeline does before it starts.
Raises ==
  /\ pc = "inside" \/ (pc = "step" /\ Len(results) < N)
  /\ failedAt' = IF pc = "inside" THEN step ELSE Len(results) + 1
  /\ IF MoreAttempts
     THEN Again /\ Writes(<<Note(step), Note(IF kind = "flow" THEN 1 ELSE step)>>)
     ELSE /\ Writes(<<Note(step)>>)
          /\ pc' = "ended" /\ status' = "failed"
          /\ UNCHANGED <<run, attempt, step, results, inputs, finished>>

\* The validator refuses the result and there are attempts left.
Refuses ==
  /\ pc = "validate" /\ kind = "flow" /\ MoreAttempts
  /\ Again
  /\ Writes(<<Note(step), Note(1)>>)
  /\ UNCHANGED failedAt

Validates ==
  /\ pc = "validate"
  /\ pc' = "evaluate"
  /\ finished' = finished \cup {step}
  /\ IF kind = "flow"
     THEN step' = Evaluate /\ Writes(<<Note(Verify), Note(Verify), Entry("trigger", Evaluate, Evaluate)>>)
     ELSE UNCHANGED step /\ Writes(<<Note(0), Note(0), Note(0)>>)
  /\ UNCHANGED <<run, status, attempt, results, inputs, failedAt>>

\* A result that was refused on the last attempt ends the run here as well.
Ends ==
  /\ pc = "evaluate"
  /\ pc' = "ended"
  /\ \/ /\ status' = "success"
        /\ finished' = finished \cup {step, Done}
        /\ IF kind = "flow" THEN Writes(<<Entry("trigger", Done, Done)>>) ELSE Writes(<<Note(0)>>)
        /\ UNCHANGED failedAt
     \/ /\ kind = "flow"
        /\ status' = "failed" /\ failedAt' = Evaluate
        /\ Writes(<<Note(Evaluate)>>)
        /\ UNCHANGED finished
  /\ UNCHANGED <<run, attempt, step, results, inputs>>

Next ==
  \/ BeginFlow \/ FlowStep \/ FlowReturns
  \/ BeginPipeline \/ StartStep \/ CompleteStep \/ PipelineReturns
  \/ Raises \/ Refuses \/ Validates \/ Ends

Spec == Init /\ [][Next]_vars

-----------------------------------------------------------------------------
(* Properties.                                                               *)

TypeOK ==
  /\ kind \in Kinds /\ maxRetries \in 0..MaxRetries
  /\ log \in Seq(Entries) /\ lost \in 0..MaxLost
  /\ status \in {"running", "success", "failed"}
  /\ pc \in {"begin", "step", "inside", "validate", "evaluate", "ended"}
  /\ attempt \in 1..(maxRetries + 1) /\ step \in 0..N
  /\ results \in Seq(1..(MaxRetries + 1)) /\ Len(results) <= N
  /\ inputs \in [Step -> SUBSET (1..(MaxRetries + 1))]
  /\ finished \subseteq 0..N /\ failedAt \in 0..N

\* A template variable only ever brings in a result of the same attempt, never
\* one of an attempt that failed; and the types.
InputsAreFresh ==
  TypeOK /\ \A s \in Step : pc = "inside" /\ kind = "pipeline" /\ s = step => inputs[s] \subseteq {attempt}

\* A run that succeeded shows every one of its steps as done, however many
\* attempts of it failed half way before (unless a log write was lost).
SuccessShowsAllDone ==
  lost = 0 /\ status = "success" => \A s \in Step : States(log, status)[s] = "done"

\* A step that is shown as done while the run is in its first attempt has
\* completed, whatever log writes were lost.
DoneIsCompleted ==
  attempt = 1 => \A s \in DOMAIN States(log, status) :
                   States(log, status)[s] = "done" => s \in finished

\* The drill-down files each entry under the step that wrote it: for a pipeline
\* in every attempt, for a flow in the first one, as a later attempt of it is
\* filed under the furthest step of the ones before.
EntriesUnderTheirStep ==
  lost = 0 /\ (kind = "flow" => attempt = 1) =>
    \A i \in DOMAIN log : log[i].by # 0 => Bucket(log, i) = log[i].by

\* The drill-down and the grid agree: the last step with entries of its own is
\* the step the grid takes for the furthest.
LastBucketIsReached ==
  kind = "flow" /\ Reached(log) # 0 => Bucket(log, Len(log)) = Reached(log)

\* The grid of the server and the step graph of the page, two implementations
\* of the same reading, show the same (unless a log write was lost).
PageAgrees == lost = 0 /\ kind = "pipeline" => PageStates(log, status) = pipeline_step_states(log, status)

\* A failed run shows the step that failed as failed, the ones before it as
\* done and the ones after it as pending: a flow that fails in its first attempt,
\* and a pipeline that fails in its last step, the only one whose failure it shows.
FailureIsShown ==
  lost = 0 /\ status = "failed" /\ (IF kind = "flow" THEN attempt = 1 ELSE failedAt = N) =>
    \A s \in DOMAIN States(log, status) :
      States(log, status)[s] =
        (CASE s < failedAt -> "done" [] s = failedAt -> "failed" [] OTHER -> "pending")

\* The states of the steps are those of the run, in the grid of the server and
\* on the page: of a success, of a failure, of a run that goes on.
StatesAreRight == SuccessShowsAllDone /\ DoneIsCompleted /\ FailureIsShown /\ PageAgrees

\* The entries are filed under the right step, and the two readings agree on it.
EntriesAreFiled == EntriesUnderTheirStep /\ LastBucketIsReached
=============================================================================
