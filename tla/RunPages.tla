------------------------------ MODULE RunPages ------------------------------
(* What a browser is shown of the runs: the stream of one run (RunStream),   *)
(* the steps read out of its log (RunSteps), and the listings and figures    *)
(* over all runs (RunViews).  Each reads the rows for itself and they share  *)
(* nothing, so a behaviour is one of them.                                   *)
EXTENDS RunStream

CONSTANTS
  Kinds, NFlow, NPipeline, MaxRetries, MaxLost,
  Users, Admin, Types, Reported, Outcomes, Queries, MaxJobs, MaxRows, MaxMoves

VARIABLES
  kind, maxRetries, log, lost, status, pc, attempt, step, results, inputs, finished, failedAt

VARIABLES jobs, runs, reports, made, asked, answer

Steps == INSTANCE RunSteps
Views == INSTANCE RunViews WITH MaxRuns <- MaxRows

ASSUME StepsOfPages == Steps!StepsAssumption
ASSUME ViewsOfPages == Views!ViewsAssumption

VARIABLE shown  \* "stream", "steps" or "views"

stepVars == <<kind, maxRetries, log, lost, status, pc, attempt, step, results, inputs, finished, failedAt>>
viewVars == <<jobs, runs, reports, made, asked, answer>>
pageVars == <<vars, stepVars, viewVars, shown>>

PagesInit ==
  /\ shown \in {"stream", "steps", "views"}
  /\ Init /\ Steps!Init /\ Views!Init
  /\ shown # "steps" => kind = "flow" /\ maxRetries = 0

OfStream == shown = "stream" /\ UNCHANGED <<stepVars, viewVars, shown>>
OfSteps == shown = "steps" /\ UNCHANGED <<vars, viewVars, shown>>
OfViews == shown = "views" /\ UNCHANGED <<vars, stepVars, shown>>

PagesNext ==
  \/ Next /\ OfStream
  \/ Steps!Next /\ OfSteps
  \/ Views!Next /\ OfViews

\* The event loop resumes the generator of the stream after each sleep.
PagesSpec == PagesInit /\ [][PagesNext]_pageVars /\ WF_pageVars(Poll /\ OfStream)

-----------------------------------------------------------------------------
(* Properties: those of RunStream, and these of the others.                  *)

\* A template variable of a pipeline only ever brings in a result of the same
\* attempt; and the types of RunSteps.
InputsAreFresh == Steps!InputsAreFresh

\* The states of the steps, in the grid of the server and on the page, are those of
\* the run, and each entry of its log is filed under the step that wrote it.
StepsAreRight == Steps!StatesAreRight /\ Steps!EntriesAreFiled

\* A listing, the schedules and the figures tell what the tables hold, also when these
\* change while the answer is put together, and a deletion takes settled runs only.
ViewsAreTrue ==
  /\ Views!ViewsTypeOK
  /\ Views!ListIsOwn /\ Views!PageFitsTotal /\ Views!OnlySettledGo
  /\ Views!LastIsLatest /\ Views!StatsAddUp

\* The PDF served for a run was made for it.
ReportIsOfRun == Views!ReportIsOfRun
=============================================================================
