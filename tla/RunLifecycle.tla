---------------------------- MODULE RunLifecycle ----------------------------
(* The life of a run: the endpoints of routers/runs.py that create, cancel   *)
(* and delete rows of the run table, launcher.py, registry.py, the retry     *)
(* loop of executor.py, append_log of progress.py, and what a stop, a crash  *)
(* and the reconciliation of database.py do to runs in flight.               *)
(*                                                                           *)
(* Coroutines and async endpoints share one event loop, so everything        *)
(* between two awaits is one action.  Sync endpoints (DELETE) run on a pool  *)
(* thread and are split where another thread can step in between.  A flow,   *)
(* the judge and the tracer run in worker threads that a cancelled coroutine *)
(* leaves behind.                                                            *)
(*                                                                           *)
(* A definition directly above another one with the same parameters is a     *)
(* mutant of it, a bug somebody could have written (PROJECT.json, mutants).  *)
EXTENDS Integers, FiniteSets

CONSTANTS
  Tasks,      \* executor coroutines, one per launched run
  RunIds,     \* primary keys of the run table
  Deleters,   \* pool threads that may be serving a DELETE request
  Budgets,    \* values of max_retries in a payload; a negative one stands for
              \* every value that gives no attempt (negative, or not an int)
  MaxFaults,  \* bound on the writes to the run row that fail
  NoTask      \* nobody

ASSUME RunAssumption ==
  /\ NoTask \notin Tasks
  /\ RunIds \subseteq Nat \ {0}
  /\ Budgets \subseteq Int
  /\ MaxFaults \in Nat

VARIABLES
  phase,     \* the server process: "up", "draining" (after SIGTERM), "down"
  runs,      \* the run table
  lastId,    \* last id handed out
  launched,  \* number of launches, stamped on rows to tell which came later
  reused,    \* history: an id has been given out twice
  pc,        \* where each executor coroutine is suspended
  rid,       \* its run_id argument
  budget,    \* its local max_retries
  attempt,   \* its local attempt
  verdict,   \* its local vr: outcome of the last validation
  registry,  \* _TASKS of registry.py
  orphans,   \* coroutines cancelled while their flow thread keeps running
  doomed,    \* per pool thread: rows its DELETE request has found deletable
  faults     \* database faults so far

taskVars == <<pc, rid, budget, attempt, verdict>>
vars == <<phase, runs, lastId, launched, reused, taskVars, registry, orphans, doomed, faults>>

-----------------------------------------------------------------------------
Ongoing == {"pending", "running"}
Settled == {"success", "failed"}

Results == {"none", "ok", "invalid", "error", "cancelled", "restarted"}

Row == [status : Ongoing \cup Settled \cup {"absent"},
        owner : Tasks \cup {NoTask}, \* the coroutine launched with the row
        born : Nat,
        result : Results,
        finished : BOOLEAN,          \* finished_at is set
        retries : Nat,               \* retry_count
        log : SUBSET Tasks]          \* whose entries the log holds

Absent == [status |-> "absent", owner |-> NoTask, born |-> 0, result |-> "none",
           finished |-> FALSE, retries |-> 0, log |-> {}]

Present(id) == runs[id].status # "absent"
Active(id) == runs[id].status \in Ongoing
Terminal(id) == runs[id].status \in Settled

\* States in which a coroutine can still be resumed.
Live == {"created", "flow", "evaluate", "trace", "cancelling"}

\* Only launched coroutines are registered.
RegistryIsLaunched ==
  \A id \in RunIds : registry[id] # NoTask => pc[registry[id]] # "none"

TypeOK ==
  /\ phase \in {"up", "draining", "down"}
  /\ runs \in [RunIds -> Row]
  /\ lastId \in Nat
  /\ launched \in Nat /\ reused \in BOOLEAN
  /\ pc \in [Tasks -> Live \cup {"none", "done"}]
  /\ rid \in [Tasks -> RunIds \cup {0}]
  /\ \A t \in Tasks : pc[t] # "none" => rid[t] \in RunIds
  /\ budget \in [Tasks -> Budgets \cup {0}]
  /\ attempt \in [Tasks -> Nat]
  /\ verdict \in [Tasks -> {"none", "valid", "invalid"}]
  /\ registry \in [RunIds -> Tasks \cup {NoTask}]
  /\ RegistryIsLaunched
  /\ orphans \in SUBSET Tasks
  /\ \A t \in orphans : pc[t] # "none"
  /\ doomed \in [Deleters -> SUBSET RunIds]
  /\ faults \in 0..MaxFaults

Init ==
  /\ phase = "up"
  /\ runs = [id \in RunIds |-> Absent]
  /\ lastId = 0
  /\ launched = 0 /\ reused = FALSE
  /\ pc = [t \in Tasks |-> "none"]
  /\ rid = [t \in Tasks |-> 0]
  /\ budget = [t \in Tasks |-> 0]
  /\ attempt = [t \in Tasks |-> 0]
  /\ verdict = [t \in Tasks |-> "none"]
  /\ registry = [id \in RunIds |-> NoTask]
  /\ orphans = {}
  /\ doomed = [d \in Deleters |-> {}]
  /\ faults = 0

-----------------------------------------------------------------------------
(* Writes to the run table.                                                  *)

\* The id the database gives to a new row: the next of a sequence (PostgreSQL),
\* or the rowid after the largest one left (SQLite).
RowidId(id) ==
  /\ \A i \in RunIds : Present(i) => i < id
  /\ id = 1 \/ (id - 1 \in RunIds /\ Present(id - 1))
AnyFreeId(id) == ~Present(id)
FreshId(id) == id = lastId + 1 \/ RowidId(id)

\* append_log: an UPDATE, so nothing happens when the row is gone.
Logged(id, t) ==
  IF Present(id) THEN [runs EXCEPT ![id].log = @ \cup {t}] ELSE runs

\* _update_run with the log lines that surround it; the row must exist.
Updated(row, t, status, result) ==
  [row EXCEPT !.status = status,
              !.result = IF status = "running" THEN @ ELSE result,
              !.finished = @ \/ status \in Settled,
              !.retries = attempt[t],
              !.log = @ \cup {t}]

Saved(id, t, status, result) == [runs EXCEPT ![id] = Updated(@, t, status, result)]

\* The coroutine ends and its finally clause unregisters its run id.
Finish(t) ==
  /\ pc' = [pc EXCEPT ![t] = "done"]
  /\ registry' = [registry EXCEPT ![rid[t]] = NoTask]

-----------------------------------------------------------------------------
(* launcher.py, reached from trigger_run and from the scheduler.             *)

Launch(t) ==
  /\ phase = "up"
  /\ pc[t] = "none"
  /\ \E id \in RunIds, b \in Budgets :
       /\ FreshId(id)
       /\ runs' = [runs EXCEPT ![id] = [Absent EXCEPT !.status = "pending", !.owner = t,
                                                      !.born = launched + 1]]
       /\ lastId' = id
       /\ reused' = (reused \/ id # lastId + 1)
       /\ rid' = [rid EXCEPT ![t] = id]
       /\ budget' = [budget EXCEPT ![t] = b]
       /\ registry' = [registry EXCEPT ![id] = t]
  /\ launched' = launched + 1
  /\ pc' = [pc EXCEPT ![t] = "created"]
  /\ UNCHANGED <<phase, attempt, verdict, orphans, doomed, faults>>

-----------------------------------------------------------------------------
(* execute_run.                                                              *)

Start(t) ==
  /\ pc[t] = "created"
  /\ Present(rid[t])
  /\ runs' = Saved(rid[t], t, "running", "none")
  /\ IF budget[t] >= 0
     THEN pc' = [pc EXCEPT ![t] = "flow"] /\ UNCHANGED registry
     ELSE Finish(t) \* int() raises or the loop body never runs
  /\ UNCHANGED <<phase, lastId, launched, reused, rid, budget, attempt, verdict, orphans,
                 doomed, faults>>

\* The first _update_run raises outside the try: the coroutine just ends.
StartFails(t) ==
  /\ pc[t] = "created"
  /\ \/ ~Present(rid[t]) /\ UNCHANGED faults
     \/ faults < MaxFaults /\ faults' = faults + 1
  /\ Finish(t)
  /\ UNCHANGED <<phase, runs, lastId, launched, reused, rid, budget, attempt, verdict,
                 orphans, doomed>>

\* The next iteration of the retry loop.
Retry(t) ==
  /\ attempt[t] < budget[t]
  /\ attempt' = [attempt EXCEPT ![t] = @ + 1]
  /\ pc' = [pc EXCEPT ![t] = "flow"]
  /\ runs' = Logged(rid[t], t)
  /\ UNCHANGED registry

\* The except clause, f faults so far: retry, or record the failure.  When
\* that write raises too, the coroutine ends and the run keeps its status.
HandleError(t, f) ==
  \/ Retry(t) /\ faults' = f
  \/ /\ attempt[t] >= budget[t]
     /\ Present(rid[t])
     /\ runs' = Saved(rid[t], t, "failed", "error")
     /\ pc' = [pc EXCEPT ![t] = "trace"]
     /\ faults' = f
     /\ UNCHANGED <<attempt, registry>>
  \/ /\ attempt[t] >= budget[t]
     /\ \/ ~Present(rid[t]) /\ faults' = f
        \/ f < MaxFaults /\ faults' = f + 1
     /\ Finish(t)
     /\ UNCHANGED <<runs, attempt>>

\* validate's answer, as the retry loop reads it.
RejectAll(v) == TRUE
Rejected(v) == v = "invalid"

FlowReturns(t, v) ==
  /\ pc[t] = "flow"
  /\ verdict' = [verdict EXCEPT ![t] = v]
  /\ \/ Rejected(v) /\ Retry(t)
     \/ /\ ~Rejected(v) \/ attempt[t] >= budget[t]
        /\ pc' = [pc EXCEPT ![t] = "evaluate"]
        /\ runs' = Logged(rid[t], t)
        /\ UNCHANGED <<attempt, registry>>
  /\ UNCHANGED <<phase, lastId, launched, reused, rid, budget, orphans, doomed, faults>>

FlowRaises(t) ==
  /\ pc[t] = "flow"
  /\ HandleError(t, faults)
  /\ UNCHANGED <<phase, lastId, launched, reused, rid, budget, verdict, orphans, doomed>>

\* The judge has answered: one _update_run with the status the verdict gives.
EvaluateReturns(t) ==
  /\ pc[t] = "evaluate"
  /\ Present(rid[t])
  /\ runs' = IF verdict[t] = "valid" THEN Saved(rid[t], t, "success", "ok")
                                     ELSE Saved(rid[t], t, "failed", "invalid")
  /\ pc' = [pc EXCEPT ![t] = "trace"]
  /\ UNCHANGED <<phase, lastId, launched, reused, rid, budget, attempt, verdict, registry,
                 orphans, doomed, faults>>

\* That write raises inside the try: the except clause takes over.
EvaluateSaveFails(t) ==
  /\ pc[t] = "evaluate"
  /\ \/ ~Present(rid[t]) /\ HandleError(t, faults)
     \/ faults < MaxFaults /\ HandleError(t, faults + 1)
  /\ UNCHANGED <<phase, lastId, launched, reused, rid, budget, verdict, orphans, doomed>>

\* The trace is sent; its URL is logged when Langfuse is configured.
TraceReturns(t) ==
  /\ pc[t] = "trace"
  /\ \/ UNCHANGED runs
     \/ runs' = Logged(rid[t], t)
  /\ Finish(t)
  /\ UNCHANGED <<phase, lastId, launched, reused, rid, budget, attempt, verdict, orphans,
                 doomed, faults>>

\* CancelledError is thrown at the await, re-raised, and the finally runs.
Unwind(t) ==
  /\ pc[t] = "cancelling"
  /\ Finish(t)
  /\ UNCHANGED <<phase, runs, lastId, launched, reused, rid, budget, attempt, verdict,
                 orphans, doomed, faults>>

-----------------------------------------------------------------------------
(* The thread of a flow: it logs progress, also after its coroutine is gone. *)

WorkerLogs(t) ==
  /\ pc[t] = "flow" \/ t \in orphans
  /\ runs' = Logged(rid[t], t)
  /\ UNCHANGED <<phase, lastId, launched, reused, taskVars, registry, orphans, doomed, faults>>

OrphanEnds(t) ==
  /\ t \in orphans
  /\ orphans' = orphans \ {t}
  /\ UNCHANGED <<phase, runs, lastId, launched, reused, taskVars, registry, doomed, faults>>

-----------------------------------------------------------------------------
(* routers/runs.py.  Requests that answer 404, 409 or cancelled=false change *)
(* nothing and are not actions.                                              *)

\* Cancelling is refused (409) when the run is not in progress.
CancelGuardDropped(id) == Present(id)
Cancellable(id) == Active(id)

CancelKeepsStatus(row) == [row EXCEPT !.result = "cancelled", !.finished = TRUE]
CancelledRow(row) == [row EXCEPT !.status = "failed", !.result = "cancelled", !.finished = TRUE]

CancelRun(id) ==
  LET t == registry[id] IN
  /\ phase = "up"
  /\ Cancellable(id)
  /\ t # NoTask
  /\ pc[t] # "done"
  /\ registry' = [registry EXCEPT ![id] = NoTask]
  /\ pc' = [pc EXCEPT ![t] = IF @ = "created" THEN "done" ELSE "cancelling"]
  /\ orphans' = IF pc[t] = "flow" THEN orphans \cup {t} ELSE orphans
  /\ runs' = [runs EXCEPT ![id] = CancelledRow(@)]
  /\ UNCHANGED <<phase, lastId, launched, reused, rid, budget, attempt, verdict, doomed, faults>>

\* Deleting is refused (409), or the row passed over, while in progress.
DeleteGuardDropped(id) == Present(id)
Deletable(id) == Terminal(id)

\* delete_run and bulk_delete_runs: read the rows that are not in progress...
DeleteCheck(d, ids) ==
  /\ phase = "up"
  /\ doomed[d] = {}
  /\ ids # {}
  /\ \A id \in ids : Deletable(id)
  /\ doomed' = [doomed EXCEPT ![d] = ids]
  /\ UNCHANGED <<phase, runs, lastId, launched, reused, taskVars, registry, orphans, faults>>

\* ... then delete them by primary key and commit.
DeleteCommit(d) ==
  /\ doomed[d] # {}
  /\ runs' = [id \in RunIds |-> IF id \in doomed[d] THEN Absent ELSE runs[id]]
  /\ doomed' = [doomed EXCEPT ![d] = {}]
  /\ UNCHANGED <<phase, lastId, launched, reused, taskVars, registry, orphans, faults>>

-----------------------------------------------------------------------------
(* The process.                                                              *)

\* SIGTERM: pending requests are answered, then asyncio.run cancels what is
\* left and joins the worker threads.
Stop ==
  /\ phase = "up"
  /\ \A d \in Deleters : doomed[d] = {}
  /\ phase' = "draining"
  /\ orphans' = orphans \cup {t \in Tasks : pc[t] = "flow"}
  /\ pc' = [t \in Tasks |-> CASE pc[t] = "created" -> "done"
                              [] pc[t] \in Live \ {"created"} -> "cancelling"
                              [] OTHER -> pc[t]]
  /\ UNCHANGED <<runs, lastId, launched, reused, rid, budget, attempt, verdict, registry,
                 doomed, faults>>

\* The end of the process, after the drain or by a crash, takes everything
\* that is not in the database.
Ended ==
  /\ phase' = "down"
  /\ pc' = [t \in Tasks |-> IF pc[t] \in Live THEN "done" ELSE pc[t]]
  /\ registry' = [id \in RunIds |-> NoTask]
  /\ orphans' = {}
  /\ doomed' = [d \in Deleters |-> {}]
  /\ UNCHANGED <<runs, lastId, launched, reused, rid, budget, attempt, verdict, faults>>

Exit ==
  /\ phase = "draining"
  /\ orphans = {}
  /\ \A t \in Tasks : pc[t] \notin Live
  /\ Ended

Crash ==
  /\ phase # "down"
  /\ Ended

ReconcileForgetsPending(row) ==
  IF row.status = "running" THEN [row EXCEPT !.status = "failed", !.result = "restarted"] ELSE row
ReconcileRequeues(row) ==
  IF row.status \in Ongoing THEN [row EXCEPT !.status = "pending"] ELSE row
Reconciled(row) ==
  IF row.status \in Ongoing THEN [row EXCEPT !.status = "failed", !.result = "restarted"] ELSE row

\* lifespan: reconcile_stale_runs fails what the last process left behind.
Restart ==
  /\ phase = "down"
  /\ phase' = "up"
  /\ runs' = [id \in RunIds |-> Reconciled(runs[id])]
  /\ UNCHANGED <<lastId, launched, reused, taskVars, registry, orphans, doomed, faults>>

-----------------------------------------------------------------------------
Executor(t) ==
  \/ Start(t) \/ StartFails(t)
  \/ \E v \in {"valid", "invalid"} : FlowReturns(t, v)
  \/ FlowRaises(t)
  \/ EvaluateReturns(t) \/ EvaluateSaveFails(t)
  \/ TraceReturns(t) \/ Unwind(t)

Next ==
  \/ \E t \in Tasks : Launch(t) \/ Executor(t) \/ WorkerLogs(t) \/ OrphanEnds(t)
  \/ \E id \in RunIds : CancelRun(id)
  \/ \E d \in Deleters : (\E ids \in SUBSET RunIds : DeleteCheck(d, ids)) \/ DeleteCommit(d)
  \/ Stop \/ Exit \/ Crash \/ Restart

Spec == Init /\ [][Next]_vars

\* The event loop resumes every ready coroutine; flows, the judge and the
\* tracer are assumed to return (they carry their own network timeouts); a
\* stopped process is started again by its supervisor.
Fairness ==
  /\ \A t \in Tasks : WF_vars(Executor(t)) /\ WF_vars(OrphanEnds(t))
  /\ WF_vars(Exit)
  /\ WF_vars(Restart)

FairSpec == Spec /\ Fairness
-----------------------------------------------------------------------------
(* Properties.                                                               *)

\* A coroutine that has not settled its run finds its own row, still ongoing:
\* no DELETE, cancel or restart took it away (executor.py, _update_run).
LiveHasRow ==
  \A t \in Tasks : pc[t] \in {"created", "flow", "evaluate"} =>
    /\ runs[rid[t]].owner = t
    /\ runs[rid[t]].status = (IF pc[t] = "created" THEN "pending" ELSE "running")

\* A run that its coroutine may have left in progress: a payload that gives no
\* attempt, or a write to the run row that failed.
Abandoned(t) == budget[t] < 0 \/ faults > 0

\* Every ongoing run of a live server can be cancelled: the registry holds the
\* coroutine that was launched for it and that coroutine can still be resumed
\* (README "registered in registry.py for cancellation").  Here and below, not
\* when an id was reused: the end of a coroutine unregisters its id, whoever has it.
ActiveIsCancellable ==
  phase = "up" => \A id \in RunIds : Active(id) =>
    LET t == runs[id].owner IN
    \/ registry[id] = t /\ rid[t] = id /\ pc[t] \in {"created", "flow", "evaluate"}
    \/ Abandoned(t) \/ reused

\* The log of a run holds entries of that run only (progress.py append_log).
LogsAreOwn == \A id \in RunIds : runs[id].log \subseteq {runs[id].owner}

\* While the server is up, a coroutine that receives CancelledError has a run
\* that is settled already (executor.py, the except clause for CancelledError).
CancelledIsSettled ==
  \A t \in Tasks : phase = "up" /\ pc[t] = "cancelling" => reused \/ ~Active(rid[t])

\* Among the rows that exist, a larger id means launched later (routers/jobs.py
\* list_schedules takes the largest id for the latest run).
NewestIdIsLatest ==
  \A i, j \in RunIds : Present(i) /\ Present(j) /\ i < j => runs[i].born < runs[j].born

\* finished_at is set on every run that settled in the process that ran it
\* (doc/design.md, status lifecycle; reconcile_stale_runs leaves it empty).
SettledIsStamped ==
  \A id \in RunIds : Terminal(id) /\ runs[id].result # "restarted" => runs[id].finished

\* The types, and what the views of the table rest on.
TableIsSound == TypeOK /\ NewestIdIsLatest /\ SettledIsStamped

\* Cancelling works in both directions: whatever is in progress can be reached
\* by a cancel, and a cancel that reaches a coroutine has settled its run,
\* whatever ends, fails, restarts or is deleted beside it.
CancelWorks == ActiveIsCancellable /\ CancelledIsSettled

\* A settled run keeps its status, result and retry count until it is deleted:
\* a late result never overwrites a cancellation, a retry never revives a run.
TerminalIsFinal ==
  [][\A id \in RunIds : ~reused' /\ Terminal(id) /\ runs'[id].owner = runs[id].owner =>
       /\ runs'[id].status = runs[id].status
       /\ runs'[id].result = runs[id].result
       /\ runs'[id].retries = runs[id].retries]_vars

\* A run in progress is never deleted ("Cannot delete a run that is in
\* progress", routers/runs.py).
ActiveNeverDeleted ==
  [][\A id \in RunIds : ~reused' /\ Active(id) => runs'[id].owner = runs[id].owner]_vars

\* A flow, and whatever it does to the outside world, is run again after a valid
\* result only when that could not be saved (executor.py, the retry loop): the
\* write failed or, once an id was reused, the row is gone.  If the flow raises
\* when it is run again, vr is still that of the result that was not saved.
RerunOnlyAfterRejection ==
  [][\A t \in Tasks : attempt'[t] # attempt[t] /\ verdict'[t] = "valid" =>
       \/ faults' # faults
       \/ reused /\ ~Present(rid[t])
       \/ pc[t] = "flow" /\ verdict[t] = "valid" /\ (faults > 0 \/ reused)]_vars

\* Every launched run settles or the process that runs it ends, unless it is
\* abandoned.
RunSettles ==
  \A t \in Tasks :
    pc[t] = "created" ~> \/ phase # "up"
                         \/ \A id \in RunIds : runs[id].owner = t => Terminal(id)
                         \/ Abandoned(t)

-----------------------------------------------------------------------------
(* The inductive invariant behind LiveHasRow, LogsAreOwn, TerminalIsFinal    *)
(* and ActiveNeverDeleted as long as no id has been given out twice.         *)

\* Ids above lastId have not been used by anything yet.
UnusedIds ==
  /\ \A id \in RunIds : id > lastId => /\ runs[id].status = "absent"
                                       /\ registry[id] = NoTask
                                       /\ \A d \in Deleters : id \notin doomed[d]
  /\ \A t \in Tasks : rid[t] <= lastId

\* A row and the coroutine launched for it point at each other.
RowHasOwner ==
  \A id \in RunIds :
    IF Present(id)
    THEN runs[id].owner \in Tasks /\ rid[runs[id].owner] = id /\ pc[runs[id].owner] # "none"
    ELSE runs[id] = Absent

\* No two coroutines ever had the same run id.
OwnIds ==
  \A t, u \in Tasks : pc[t] # "none" /\ pc[u] # "none" /\ rid[t] = rid[u] => t = u

RegistryIsSound ==
  \A id \in RunIds : registry[id] # NoTask => rid[registry[id]] = id

\* A row that a DELETE request found deletable stays deletable.
DoomedIsIdle == \A d \in Deleters : \A id \in doomed[d] : ~Active(id)

\* Outside a live server no coroutine runs its body.
DownIsQuiet ==
  \A t \in Tasks : phase # "up" => pc[t] \notin {"created", "flow", "evaluate", "trace"}

IInv ==
  /\ TypeOK
  /\ UnusedIds
  /\ RowHasOwner
  /\ OwnIds
  /\ RegistryIsSound
  /\ DoomedIsIdle
  /\ DownIsQuiet
  /\ LiveHasRow
  /\ LogsAreOwn

\* As long as no id is reused, rows, coroutines, the registry and the DELETE
\* requests in flight belong together: a coroutine finds its own row in the
\* status it left it in, logs are written by their own run only, and what a
\* DELETE request found deletable still is.
RowsKeepOwners == reused \/ IInv

-----------------------------------------------------------------------------
(* What the outside sees of a run, for the refinement of RunBoard.           *)

BoardStatus(t) ==
  IF pc[t] = "none" THEN "none"
  ELSE IF \E id \in RunIds : runs[id].owner = t
  THEN runs[CHOOSE id \in RunIds : runs[id].owner = t].status
  ELSE "deleted"

Board == INSTANCE RunBoard WITH board <- [t \in Tasks |-> BoardStatus(t)]

\* The run table behaves as the status board of RunBoard, as long as no id is
\* given out twice.
ImplementsBoard == Board!Spec
=============================================================================
