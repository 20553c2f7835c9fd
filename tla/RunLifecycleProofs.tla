------------------------- MODULE RunLifecycleProofs -------------------------
(* Proofs about RunLifecycle, for any number of coroutines, ids, pool        *)
(* threads, retry budgets and database faults, and about what starts things  *)
(* by itself: CronScheduler, for any set of jobs and schedules, any number   *)
(* of edits and any clock, and DesktopShell, for any number of boots.        *)
EXTENDS RunLifecycle, CronScheduler, DesktopShell, FiniteSetTheorems, TLAPS

-----------------------------------------------------------------------------
(* The two ways a coroutine writes its row.                                  *)

LEMMA SavedRow ==
  ASSUME TypeOK, NEW id \in RunIds, NEW t \in Tasks,
         NEW st \in Settled \cup {"running"}, NEW res \in Results
  PROVE  /\ Saved(id, t, st, res) \in [RunIds -> Row]
         /\ \A i \in RunIds \ {id} : Saved(id, t, st, res)[i] = runs[i]
         /\ Saved(id, t, st, res)[id].status = st
         /\ Saved(id, t, st, res)[id].owner = runs[id].owner
         /\ Saved(id, t, st, res)[id].log = runs[id].log \cup {t}
  <1> DEFINE new == Updated(runs[id], t, st, res)
  <1>1. runs \in [RunIds -> Row] /\ runs[id] \in Row /\ attempt[t] \in Nat
    BY DEF TypeOK
  <1>2. new \in Row
    BY <1>1 DEF Row, Settled, Ongoing, Updated
  <1>3. new.status = st /\ new.owner = runs[id].owner /\ new.log = runs[id].log \cup {t}
    BY <1>1 DEF Row, Updated
  <1> HIDE DEF new
  <1> QED
    <2>1. Saved(id, t, st, res) = [runs EXCEPT ![id] = new]
      BY DEF Saved, new
    <2> QED
      BY <2>1, <1>1, <1>2, <1>3

LEMMA LoggedRow ==
  ASSUME TypeOK, NEW id \in RunIds, NEW t \in Tasks
  PROVE  /\ Logged(id, t) \in [RunIds -> Row]
         /\ \A i \in RunIds \ {id} : Logged(id, t)[i] = runs[i]
         /\ Logged(id, t)[id].status = runs[id].status
         /\ Logged(id, t)[id].owner = runs[id].owner
         /\ Logged(id, t)[id].result = runs[id].result
         /\ Logged(id, t)[id].retries = runs[id].retries
         /\ ~Present(id) => Logged(id, t)[id] = runs[id]
         /\ Present(id) => Logged(id, t)[id].log = runs[id].log \cup {t}
  <1> DEFINE new == [runs[id] EXCEPT !.log = @ \cup {t}]
  <1>1. runs[id] \in Row /\ runs \in [RunIds -> Row]
    BY DEF TypeOK
  <1>2. /\ new \in Row /\ new.status = runs[id].status /\ new.owner = runs[id].owner
        /\ new.log = runs[id].log \cup {t} /\ new.result = runs[id].result
        /\ new.retries = runs[id].retries
    BY <1>1 DEF Row
  <1>3. CASE Present(id)
    <2>1. Logged(id, t) = [runs EXCEPT ![id] = new]
      BY <1>3 DEF Logged
    <2> HIDE DEF new
    <2> QED
      BY <2>1, <1>1, <1>2, <1>3
  <1>4. CASE ~Present(id)
    BY <1>1, <1>4 DEF Logged
  <1> QED
    BY <1>3, <1>4

\* A step that registers nobody.
LEMMA RegistryKept ==
  ASSUME TypeOK,
         \A id \in RunIds : registry'[id] \in {registry[id], NoTask},
         \A u \in Tasks : pc'[u] # "none" <=> pc[u] # "none"
  PROVE  RegistryIsLaunched'
  BY RunAssumption DEF TypeOK, RegistryIsLaunched

\* The finally clause of a coroutine.
LEMMA FinishTypes ==
  ASSUME TypeOK, NEW t \in Tasks, pc[t] # "none", Finish(t)
  PROVE  /\ pc' \in [Tasks -> Live \cup {"none", "done"}]
         /\ registry' \in [RunIds -> Tasks \cup {NoTask}]
         /\ \A id \in RunIds : registry'[id] \in {registry[id], NoTask}
         /\ \A u \in Tasks : pc'[u] # "none" <=> pc[u] # "none"
  BY DEF TypeOK, Finish

-----------------------------------------------------------------------------
(* Type correctness.                                                         *)

LEMMA InitType == Init => TypeOK
  <1> SUFFICES ASSUME Init PROVE TypeOK
    OBVIOUS
  <1>1. Absent \in Row
    BY DEF Absent, Row, Results
  <1>2. /\ phase \in {"up", "draining", "down"} /\ lastId \in Nat /\ launched \in Nat
        /\ faults \in 0..MaxFaults /\ orphans \in SUBSET Tasks
    BY RunAssumption DEF Init
  <1>3. /\ runs \in [RunIds -> Row]
        /\ pc \in [Tasks -> Live \cup {"none", "done"}]
        /\ rid \in [Tasks -> RunIds \cup {0}]
        /\ budget \in [Tasks -> Budgets \cup {0}]
        /\ attempt \in [Tasks -> Nat]
        /\ verdict \in [Tasks -> {"none", "valid", "invalid"}]
        /\ registry \in [RunIds -> Tasks \cup {NoTask}]
        /\ doomed \in [Deleters -> SUBSET RunIds]
    BY <1>1 DEF Init
  <1>4. /\ \A t \in Tasks : pc[t] # "none" => rid[t] \in RunIds
        /\ \A t \in orphans : pc[t] # "none"
        /\ RegistryIsLaunched
    BY DEF Init, RegistryIsLaunched
  <1>5. reused \in BOOLEAN
    BY DEF Init
  <1> QED
    BY <1>1, <1>2, <1>3, <1>4, <1>5 DEF TypeOK

LEMMA AbsentRow == Absent \in Row
  BY DEF Absent, Row, Results

LEMMA LaunchType == ASSUME TypeOK, NEW t \in Tasks, Launch(t) PROVE TypeOK'
  <1>1. PICK id \in RunIds, b \in Budgets :
          /\ runs' = [runs EXCEPT ![id] = [Absent EXCEPT !.status = "pending", !.owner = t,
                                                         !.born = launched + 1]]
          /\ lastId' = id
          /\ rid' = [rid EXCEPT ![t] = id]
          /\ budget' = [budget EXCEPT ![t] = b]
          /\ registry' = [registry EXCEPT ![id] = t]
    BY DEF Launch
  <1>2. [Absent EXCEPT !.status = "pending", !.owner = t, !.born = launched + 1] \in Row
    <2>1. launched + 1 \in Nat
      BY DEF TypeOK
    <2>2. \A row \in Row :
            [row EXCEPT !.status = "pending", !.owner = t, !.born = launched + 1] \in Row
      BY <2>1 DEF Row, Ongoing
    <2> QED
      BY <2>2, AbsentRow
  <1>3. runs' \in [RunIds -> Row]
    BY <1>1, <1>2 DEF TypeOK
  <1> QED
    BY <1>1, <1>3, RunAssumption DEF Launch, TypeOK, Live, RegistryIsLaunched

LEMMA ExecutorType == ASSUME TypeOK, NEW t \in Tasks, Executor(t) PROVE TypeOK'
  <1>1. pc[t] # "none" /\ rid[t] \in RunIds
    BY DEF Executor, Start, StartFails, FlowReturns, FlowRaises, EvaluateReturns,
           EvaluateSaveFails, TraceReturns, Unwind, TypeOK
  <1>2. /\ Logged(rid[t], t) \in [RunIds -> Row]
        /\ Saved(rid[t], t, "running", "none") \in [RunIds -> Row]
        /\ Saved(rid[t], t, "failed", "error") \in [RunIds -> Row]
        /\ Saved(rid[t], t, "failed", "invalid") \in [RunIds -> Row]
        /\ Saved(rid[t], t, "success", "ok") \in [RunIds -> Row]
    BY <1>1, SavedRow, LoggedRow DEF Settled, Results
  <1>3. \A f \in 0..MaxFaults : HandleError(t, f) =>
          /\ runs' \in [RunIds -> Row]
          /\ attempt' \in [Tasks -> Nat]
          /\ pc' \in [Tasks -> Live \cup {"none", "done"}]
          /\ \A u \in Tasks : pc'[u] # "none" <=> pc[u] # "none"
          /\ registry' \in [RunIds -> Tasks \cup {NoTask}]
          /\ \A id \in RunIds : registry'[id] \in {registry[id], NoTask}
          /\ faults' \in 0..MaxFaults
    <2> SUFFICES ASSUME NEW f \in 0..MaxFaults, HandleError(t, f)
                 PROVE  /\ runs' \in [RunIds -> Row]
                        /\ attempt' \in [Tasks -> Nat]
                        /\ pc' \in [Tasks -> Live \cup {"none", "done"}]
                        /\ \A u \in Tasks : pc'[u] # "none" <=> pc[u] # "none"
                        /\ registry' \in [RunIds -> Tasks \cup {NoTask}]
                        /\ \A id \in RunIds : registry'[id] \in {registry[id], NoTask}
                        /\ faults' \in 0..MaxFaults
      OBVIOUS
    <2>1. CASE Retry(t) /\ faults' = f
      BY <2>1, <1>1, <1>2 DEF Retry, TypeOK, Live
    <2>2. CASE Finish(t) /\ UNCHANGED <<runs, attempt>> /\ faults' \in {f, f + 1}
               /\ (faults' = f + 1 => f < MaxFaults)
      BY <2>2, <1>1, FinishTypes, RunAssumption DEF TypeOK
    <2>3. CASE /\ runs' = Saved(rid[t], t, "failed", "error")
               /\ pc' = [pc EXCEPT ![t] = "trace"]
               /\ faults' = f
               /\ UNCHANGED <<attempt, registry>>
      BY <2>3, <1>1, <1>2 DEF TypeOK, Live
    <2> QED
      BY <2>1, <2>2, <2>3 DEF HandleError
  <1>4. CASE Start(t)
    <2>1. CASE budget[t] >= 0
      BY RegistryKept, <1>1, <1>2, <1>4, <2>1 DEF Start, TypeOK, Live
    <2>2. CASE ~(budget[t] >= 0)
      BY RegistryKept, <1>1, <1>2, <1>4, <2>2, FinishTypes DEF Start, TypeOK
    <2> QED
      BY <2>1, <2>2
  <1>5. CASE StartFails(t)
    BY RegistryKept, <1>1, <1>5, FinishTypes, RunAssumption DEF StartFails, TypeOK
  <1>6. ASSUME NEW v \in {"valid", "invalid"}, FlowReturns(t, v) PROVE TypeOK'
    <2>1. CASE Retry(t)
      BY RegistryKept, <1>1, <1>2, <1>6, <2>1 DEF FlowReturns, Retry, TypeOK, Live
    <2>2. CASE /\ pc' = [pc EXCEPT ![t] = "evaluate"]
               /\ runs' = Logged(rid[t], t)
               /\ UNCHANGED <<attempt, registry>>
      BY RegistryKept, <1>1, <1>2, <1>6, <2>2 DEF FlowReturns, TypeOK, Live
    <2> QED
      BY <1>6, <2>1, <2>2 DEF FlowReturns
  <1>7. CASE FlowRaises(t)
    BY RegistryKept, <1>1, <1>3, <1>7 DEF FlowRaises, TypeOK
  <1>8. CASE EvaluateReturns(t)
    BY RegistryKept, <1>1, <1>2, <1>8 DEF EvaluateReturns, TypeOK, Live
  <1>9. CASE EvaluateSaveFails(t)
    <2>1. \E f \in 0..MaxFaults : HandleError(t, f)
      BY <1>9, RunAssumption DEF EvaluateSaveFails, TypeOK
    <2> QED
      BY RegistryKept, <1>1, <1>3, <1>9, <2>1 DEF EvaluateSaveFails, TypeOK
  <1>10. CASE TraceReturns(t)
    BY RegistryKept, <1>1, <1>2, <1>10, FinishTypes DEF TraceReturns, TypeOK
  <1>11. CASE Unwind(t)
    BY RegistryKept, <1>1, <1>11, FinishTypes DEF Unwind, TypeOK
  <1> QED
    BY <1>4, <1>5, <1>6, <1>7, <1>8, <1>9, <1>10, <1>11 DEF Executor

\* Requests and the process.
LEMMA ServerType ==
  ASSUME TypeOK,
         \/ \E t \in Tasks : WorkerLogs(t) \/ OrphanEnds(t)
         \/ \E id \in RunIds : CancelRun(id)
         \/ \E d \in Deleters : (\E ids \in SUBSET RunIds : DeleteCheck(d, ids)) \/ DeleteCommit(d)
         \/ Stop \/ Exit \/ Crash \/ Restart
         \/ UNCHANGED vars
  PROVE  TypeOK'
  <1>1. ASSUME NEW t \in Tasks, WorkerLogs(t) PROVE TypeOK'
    <2>1. rid[t] \in RunIds
      BY <1>1 DEF WorkerLogs, TypeOK
    <2>2. runs' \in [RunIds -> Row]
      BY <1>1, <2>1, LoggedRow DEF WorkerLogs
    <2> QED
      BY RegistryKept, <1>1, <2>2 DEF WorkerLogs, TypeOK, taskVars
  <1>2. ASSUME NEW t \in Tasks, OrphanEnds(t) PROVE TypeOK'
    BY RegistryKept, <1>2 DEF OrphanEnds, TypeOK, taskVars
  <1>3. ASSUME NEW id \in RunIds, CancelRun(id) PROVE TypeOK'
    <2>1. registry[id] \in Tasks
      BY <1>3 DEF CancelRun, TypeOK
    <2>2. \A row \in Row : CancelledRow(row) \in Row
      BY DEF CancelledRow, Row, Settled, Results
    <2>3. runs' \in [RunIds -> Row]
      BY <1>3, <2>2 DEF CancelRun, TypeOK
    <2>4. /\ pc' \in [Tasks -> Live \cup {"none", "done"}]
          /\ registry' \in [RunIds -> Tasks \cup {NoTask}]
      BY <1>3, <2>1 DEF CancelRun, TypeOK, Live
    <2>5. \A t \in Tasks : pc'[t] # "none" <=> pc[t] # "none"
      BY <1>3, <2>1 DEF CancelRun, TypeOK, RegistryIsLaunched
    <2>6. RegistryIsLaunched'
      BY <1>3, <2>5, RegistryKept DEF CancelRun, TypeOK
    <2> QED
      BY <1>3, <2>1, <2>3, <2>4, <2>5, <2>6 DEF CancelRun, TypeOK
  <1>4. ASSUME NEW d \in Deleters, NEW ids \in SUBSET RunIds, DeleteCheck(d, ids) PROVE TypeOK'
    BY RegistryKept, <1>4 DEF DeleteCheck, TypeOK, taskVars
  <1>5. ASSUME NEW d \in Deleters, DeleteCommit(d) PROVE TypeOK'
    BY RegistryKept, <1>5, AbsentRow DEF DeleteCommit, TypeOK, taskVars
  <1>6. CASE Stop
    BY RegistryKept, <1>6 DEF Stop, TypeOK, Live
  <1>7. ASSUME Ended PROVE TypeOK'
    BY RegistryKept, <1>7 DEF Ended, TypeOK, Live
  <1>8. CASE Restart
    <2>1. \A row \in Row : Reconciled(row) \in Row
      BY DEF Reconciled, Row, Settled, Results
    <2>2. runs' \in [RunIds -> Row]
      BY <1>8, <2>1 DEF Restart, TypeOK
    <2> QED
      BY RegistryKept, <1>8, <2>2 DEF Restart, TypeOK, taskVars
  <1>9. CASE UNCHANGED vars
    BY RegistryKept, <1>9 DEF vars, taskVars, TypeOK
  <1> QED
    BY <1>1, <1>2, <1>3, <1>4, <1>5, <1>6, <1>7, <1>8, <1>9 DEF Exit, Crash

LEMMA NextType == TypeOK /\ [Next]_vars => TypeOK'
  BY LaunchType, ExecutorType, ServerType DEF Next

\* Every variable keeps its type, whatever the id policy and the faults.
THEOREM TypeCorrect == Spec => []TypeOK
  BY InitType, NextType, PTL DEF Spec

-----------------------------------------------------------------------------
(* The inductive invariant, as long as no id has been given out twice.       *)

Working == {"created", "flow", "evaluate"}

\* What the steps of coroutine t and of its threads have in common: they write
\* no row but the one t was given, never revive or create it, and end nobody
\* else's registration with a new one.
OwnStep(t) ==
  LET old == runs[rid[t]]
      new == runs'[rid[t]]
  IN
  /\ UNCHANGED <<phase, lastId, rid, doomed>>
  /\ pc[t] # "none" /\ pc'[t] # "none"
  /\ \A u \in Tasks \ {t} : pc'[u] = pc[u]
  /\ \A id \in RunIds : registry'[id] \in {registry[id], NoTask}
  /\ \A i \in RunIds \ {rid[t]} : runs'[i] = runs[i]
  /\ old.status = "absent" => new = old
  /\ old.status # "absent" => new.status # "absent"
  /\ new.owner = old.owner
  /\ new.log \subseteq old.log \cup {t}
  /\ old.status \in Settled => /\ new.status = old.status
                               /\ new.result = old.result
                               /\ new.retries = old.retries
  /\ pc'[t] = "created" => pc[t] = "created" /\ new.status = old.status
  /\ pc'[t] \in {"flow", "evaluate"} => pc[t] \in Working /\ new.status = "running"
  /\ pc'[t] = "trace" => pc[t] \in Working \cup {"trace"}

LEMMA HandleErrorOwn ==
  ASSUME TypeOK, LiveHasRow, NEW t \in Tasks, pc[t] \in {"flow", "evaluate"},
         NEW f \in Nat, HandleError(t, f),
         UNCHANGED <<phase, lastId, rid, doomed>>
  PROVE  OwnStep(t)
  <1>1. rid[t] \in RunIds /\ runs[rid[t]].status = "running"
    BY DEF TypeOK, LiveHasRow
  <1>2. CASE Retry(t)
    BY <1>1, <1>2, LoggedRow DEF Retry, OwnStep, TypeOK, Present, Working, Settled
  <1>3. CASE /\ runs' = Saved(rid[t], t, "failed", "error")
             /\ pc' = [pc EXCEPT ![t] = "trace"]
             /\ UNCHANGED registry
    <2>1. "failed" \in Settled \cup {"running"} /\ "error" \in Results
      BY DEF Settled, Results
    <2> QED
      BY <1>1, <1>3, <2>1, SavedRow DEF OwnStep, TypeOK, Present, Working, Settled
  <1>4. CASE Finish(t) /\ UNCHANGED runs
    BY <1>1, <1>4, FinishTypes DEF Finish, OwnStep, TypeOK, Present, Working, Settled
  <1> QED
    BY <1>2, <1>3, <1>4 DEF HandleError

LEMMA ExecutorOwn ==
  ASSUME TypeOK, LiveHasRow, NEW t \in Tasks, Executor(t)
  PROVE  OwnStep(t)
  <1>1. pc[t] # "none" /\ rid[t] \in RunIds
    BY DEF Executor, Start, StartFails, FlowReturns, FlowRaises, EvaluateReturns,
           EvaluateSaveFails, TraceReturns, Unwind, TypeOK
  <1>2. CASE Start(t)
    <2>1. runs[rid[t]].status = "pending" /\ pc[t] = "created"
      BY <1>2 DEF Start, LiveHasRow
    <2>2. "running" \in Settled \cup {"running"} /\ "none" \in Results
      BY DEF Results
    <2>3. \/ pc' = [pc EXCEPT ![t] = "flow"] /\ UNCHANGED registry
          \/ Finish(t)
      BY <1>2 DEF Start
    <2>4. CASE pc' = [pc EXCEPT ![t] = "flow"] /\ UNCHANGED registry
      BY <1>1, <1>2, <2>1, <2>2, <2>4, SavedRow
         DEF Start, OwnStep, TypeOK, Present, Working, Settled
    <2>5. CASE Finish(t)
      BY <1>1, <1>2, <2>1, <2>2, <2>5, SavedRow
         DEF Start, Finish, OwnStep, TypeOK, Present, Working, Settled
    <2> QED
      BY <2>3, <2>4, <2>5
  <1>3. CASE StartFails(t)
    BY <1>1, <1>3 DEF StartFails, Finish, OwnStep, TypeOK, Present, Working, Settled
  <1>4. ASSUME NEW v \in {"valid", "invalid"}, FlowReturns(t, v) PROVE OwnStep(t)
    <2>1. runs[rid[t]].status = "running" /\ pc[t] = "flow"
      BY <1>4 DEF FlowReturns, LiveHasRow
    <2>2. /\ UNCHANGED <<phase, lastId, rid, doomed, registry>>
          /\ runs' = Logged(rid[t], t)
          /\ pc' = [pc EXCEPT ![t] = "flow"] \/ pc' = [pc EXCEPT ![t] = "evaluate"]
      BY <1>4 DEF FlowReturns, Retry
    <2>3. CASE pc' = [pc EXCEPT ![t] = "flow"]
      BY <1>1, <2>1, <2>2, <2>3, LoggedRow DEF OwnStep, TypeOK, Present, Working, Settled
    <2>4. CASE pc' = [pc EXCEPT ![t] = "evaluate"]
      BY <1>1, <2>1, <2>2, <2>4, LoggedRow DEF OwnStep, TypeOK, Present, Working, Settled
    <2> QED
      BY <2>2, <2>3, <2>4
  <1>5. CASE FlowRaises(t)
    BY <1>5, HandleErrorOwn DEF FlowRaises, TypeOK
  <1>6. CASE EvaluateReturns(t)
    <2>1. runs[rid[t]].status = "running" /\ pc[t] = "evaluate"
      BY <1>6 DEF EvaluateReturns, LiveHasRow
    <2>2. PICK st \in Settled, res \in Results : runs' = Saved(rid[t], t, st, res)
      BY <1>6 DEF EvaluateReturns, Settled, Results
    <2>3. /\ \A i \in RunIds \ {rid[t]} : runs'[i] = runs[i]
          /\ runs'[rid[t]].status = st
          /\ runs'[rid[t]].owner = runs[rid[t]].owner
          /\ runs'[rid[t]].log = runs[rid[t]].log \cup {t}
      BY <1>1, <2>2, SavedRow
    <2> QED
      BY <1>1, <1>6, <2>1, <2>3
         DEF EvaluateReturns, OwnStep, TypeOK, Present, Working, Settled
  <1>7. CASE EvaluateSaveFails(t)
    <2>1. faults \in Nat /\ faults + 1 \in Nat
      BY RunAssumption DEF TypeOK
    <2>2. /\ pc[t] \in {"flow", "evaluate"}
          /\ UNCHANGED <<phase, lastId, rid, doomed>>
          /\ HandleError(t, faults) \/ HandleError(t, faults + 1)
      BY <1>7 DEF EvaluateSaveFails
    <2> QED
      BY <2>1, <2>2, HandleErrorOwn
  <1>8. CASE TraceReturns(t)
    <2>1. runs' = runs \/ runs' = Logged(rid[t], t)
      BY <1>8 DEF TraceReturns
    <2>2. CASE runs' = runs
      BY <1>1, <1>8, <2>2 DEF TraceReturns, Finish, OwnStep, TypeOK, Present, Working, Settled
    <2>3. CASE runs' = Logged(rid[t], t)
      BY <1>1, <1>8, <2>3, LoggedRow
         DEF TraceReturns, Finish, OwnStep, TypeOK, Present, Working, Settled
    <2> QED
      BY <2>1, <2>2, <2>3
  <1>9. CASE Unwind(t)
    BY <1>1, <1>9 DEF Unwind, Finish, OwnStep, TypeOK, Present, Working, Settled
  <1> QED
    BY <1>2, <1>3, <1>4, <1>5, <1>6, <1>7, <1>8, <1>9 DEF Executor

LEMMA ThreadOwn ==
  ASSUME TypeOK, LiveHasRow, NEW t \in Tasks, WorkerLogs(t) \/ OrphanEnds(t)
  PROVE  OwnStep(t)
  <1>1. pc[t] # "none" /\ rid[t] \in RunIds
    BY DEF WorkerLogs, OrphanEnds, TypeOK
  <1>2. CASE WorkerLogs(t)
    BY <1>1, <1>2, LoggedRow
       DEF WorkerLogs, OwnStep, TypeOK, Present, Working, Settled, LiveHasRow, taskVars
  <1>3. CASE OrphanEnds(t)
    BY <1>1, <1>3 DEF OrphanEnds, OwnStep, TypeOK, Present, Working, Settled, LiveHasRow, taskVars
  <1> QED
    BY <1>2, <1>3

LEMMA OwnStepInv ==
  ASSUME IInv, TypeOK', NEW t \in Tasks, OwnStep(t)
  PROVE  IInv'
  <1>1. rid[t] \in RunIds /\ TypeOK /\ rid' = rid /\ phase' = phase /\ doomed' = doomed
    BY DEF IInv, TypeOK, OwnStep
  <1>2. \A u \in Tasks \ {t} : pc[u] # "none" => rid[u] # rid[t]
    BY DEF IInv, OwnIds, OwnStep
  <1>3. \A u \in Tasks : pc'[u] # "none" <=> pc[u] # "none"
    BY DEF OwnStep
  <1>4. UnusedIds'
    <2>1. \A id \in RunIds : runs[id].status = "absent" => runs'[id].status = "absent"
      BY <1>1 DEF OwnStep
    <2> QED
      BY <1>1, <2>1 DEF IInv, UnusedIds, OwnStep, TypeOK
  <1>5. RowHasOwner'
    <2> SUFFICES ASSUME NEW id \in RunIds
                 PROVE  IF Present(id)'
                        THEN /\ runs'[id].owner \in Tasks
                             /\ rid'[runs'[id].owner] = id
                             /\ pc'[runs'[id].owner] # "none"
                        ELSE runs'[id] = Absent
      BY DEF RowHasOwner, Present
    <2>1. runs'[id].owner = runs[id].owner /\ (Present(id) <=> Present(id)')
      BY <1>1 DEF OwnStep, Present
    <2>2. ~Present(id) => runs'[id] = runs[id]
      BY <1>1 DEF OwnStep, Present
    <2> QED
      BY <1>1, <1>3, <2>1, <2>2 DEF IInv, RowHasOwner
  <1>6. OwnIds'
    BY <1>1, <1>3 DEF IInv, OwnIds
  <1>7. RegistryIsSound'
    BY <1>1 DEF IInv, RegistryIsSound, OwnStep
  <1>8. LiveHasRow'
    <2> SUFFICES ASSUME NEW u \in Tasks, pc'[u] \in Working
                 PROVE  /\ runs'[rid[u]].owner = u
                        /\ runs'[rid[u]].status =
                             (IF pc'[u] = "created" THEN "pending" ELSE "running")
      BY <1>1 DEF LiveHasRow, Working
    <2>1. pc[u] \in Working
      BY DEF OwnStep, Working
    <2>2. /\ runs[rid[u]].owner = u
          /\ runs[rid[u]].status = (IF pc[u] = "created" THEN "pending" ELSE "running")
      BY <2>1 DEF IInv, LiveHasRow, Working
    <2>3. CASE u = t
      BY <2>2, <2>3 DEF OwnStep, Working
    <2>4. CASE u # t
      <3>1. rid[u] # rid[t] /\ rid[u] \in RunIds
        BY <1>1, <1>2, <2>1, <2>4 DEF Working, TypeOK
      <3> QED
        BY <2>2, <2>4, <3>1 DEF OwnStep
    <2> QED
      BY <2>3, <2>4
  <1>9. DoomedIsIdle'
    <2>1. runs[rid[t]].status \in Settled \cup {"absent"} =>
            runs'[rid[t]].status = runs[rid[t]].status
      BY DEF OwnStep
    <2>2. \A id \in RunIds : ~Active(id) => ~Active(id)'
      BY <1>1, <2>1 DEF OwnStep, Active, TypeOK, Row, Settled, Ongoing
    <2> QED
      BY <1>1, <2>2 DEF IInv, DoomedIsIdle, TypeOK
  <1>10. DownIsQuiet'
    BY <1>1 DEF IInv, DownIsQuiet, OwnStep, Working
  <1>11. LogsAreOwn'
    <2>1. Present(rid[t]) => runs[rid[t]].owner = t
      BY <1>1, <1>2 DEF IInv, RowHasOwner
    <2>2. ~Present(rid[t]) => runs'[rid[t]] = runs[rid[t]]
      BY DEF OwnStep, Present
    <2>3. runs'[rid[t]].log \subseteq {runs'[rid[t]].owner}
      BY <1>1, <2>1, <2>2 DEF IInv, LogsAreOwn, OwnStep
    <2> QED
      BY <1>1, <2>3 DEF IInv, LogsAreOwn, OwnStep
  <1> QED
    BY <1>4, <1>5, <1>6, <1>7, <1>8, <1>9, <1>10, <1>11 DEF IInv

\* The only step that gives out an id: it is unlike any earlier one.
LEMMA LaunchInv ==
  ASSUME IInv, TypeOK', ~reused', NEW t \in Tasks, Launch(t)
  PROVE  IInv'
  <1>1. PICK id \in RunIds :
          /\ id = lastId + 1
          /\ runs' = [runs EXCEPT ![id] = [Absent EXCEPT !.status = "pending", !.owner = t,
                                                         !.born = launched + 1]]
          /\ lastId' = id
          /\ rid' = [rid EXCEPT ![t] = id]
          /\ registry' = [registry EXCEPT ![id] = t]
    BY DEF Launch, FreshId
  <1>2. /\ pc[t] = "none" /\ phase = "up" /\ phase' = phase /\ doomed' = doomed
        /\ pc' = [pc EXCEPT ![t] = "created"]
    BY DEF Launch
  <1>3. TypeOK /\ id \in Nat /\ lastId \in Nat
    BY RunAssumption DEF IInv, TypeOK
  <1>4. /\ runs'[id].status = "pending" /\ runs'[id].owner = t /\ runs'[id].log = {}
        /\ \A i \in RunIds \ {id} : runs'[i] = runs[i]
    BY <1>1, <1>3 DEF TypeOK, Absent
  <1>5. /\ rid'[t] = id /\ \A u \in Tasks \ {t} : rid'[u] = rid[u] /\ rid[u] # id
        /\ \A d \in Deleters : id \notin doomed[d]
        /\ runs[id].status = "absent"
    BY <1>1, <1>3 DEF IInv, UnusedIds, TypeOK
  <1>6. pc'[t] = "created" /\ \A u \in Tasks \ {t} : pc'[u] = pc[u]
    BY <1>2, <1>3 DEF TypeOK
  <1>7. UnusedIds'
    BY <1>1, <1>2, <1>3, <1>4, <1>5, RunAssumption DEF IInv, UnusedIds, TypeOK
  <1>8. RowHasOwner'
    <2> SUFFICES ASSUME NEW i \in RunIds
                 PROVE  IF runs'[i].status # "absent"
                        THEN /\ runs'[i].owner \in Tasks
                             /\ rid'[runs'[i].owner] = i
                             /\ pc'[runs'[i].owner] # "none"
                        ELSE runs'[i] = Absent
      BY DEF RowHasOwner, Present
    <2>1. CASE i = id
      BY <2>1, <1>4, <1>5, <1>6
    <2>2. CASE i # id
      BY <2>2, <1>2, <1>4, <1>5, <1>6 DEF IInv, RowHasOwner, Present
    <2> QED
      BY <2>1, <2>2
  <1>9. OwnIds'
    BY <1>5, <1>6 DEF IInv, OwnIds
  <1>10. RegistryIsSound'
    BY <1>1, <1>2, <1>3, <1>5 DEF IInv, RegistryIsSound, RegistryIsLaunched, TypeOK
  <1>11. LiveHasRow'
    <2> SUFFICES ASSUME NEW u \in Tasks, pc'[u] \in Working
                 PROVE  /\ runs'[rid'[u]].owner = u
                        /\ runs'[rid'[u]].status =
                             (IF pc'[u] = "created" THEN "pending" ELSE "running")
      BY DEF LiveHasRow, Working
    <2>1. CASE u = t
      BY <2>1, <1>4, <1>5, <1>6
    <2>2. CASE u # t
      <3>1. rid[u] \in RunIds \ {id} /\ pc[u] \in Working
        BY <2>2, <1>3, <1>5, <1>6 DEF TypeOK, Working
      <3> QED
        BY <2>2, <3>1, <1>4, <1>5, <1>6 DEF IInv, LiveHasRow, Working
    <2> QED
      BY <2>1, <2>2
  <1>12. DoomedIsIdle'
    <2> SUFFICES ASSUME NEW d \in Deleters, NEW i \in doomed[d] PROVE ~Active(i)'
      BY <1>2 DEF DoomedIsIdle
    <2>1. i \in RunIds \ {id} /\ ~Active(i)
      BY <1>3, <1>5 DEF IInv, DoomedIsIdle, TypeOK
    <2> QED
      BY <2>1, <1>4 DEF Active
  <1>13. DownIsQuiet'
    BY <1>2, <1>3 DEF IInv, DownIsQuiet
  <1>14. LogsAreOwn'
    BY <1>4 DEF IInv, LogsAreOwn
  <1> QED
    BY <1>7, <1>8, <1>9, <1>10, <1>11, <1>12, <1>13, <1>14 DEF IInv

LEMMA CancelInv ==
  ASSUME IInv, TypeOK', NEW id \in RunIds, CancelRun(id)
  PROVE  IInv'
  <1> DEFINE t == registry[id]
  <1>1. t \in Tasks /\ rid[t] = id /\ pc[t] # "none" /\ TypeOK
    BY DEF IInv, TypeOK, RegistryIsSound, RegistryIsLaunched, CancelRun
  <1>2. /\ Active(id) /\ phase = "up"
        /\ UNCHANGED <<phase, lastId, rid, doomed>>
        /\ registry' = [registry EXCEPT ![id] = NoTask]
        /\ \A u \in Tasks \ {t} : pc'[u] = pc[u]
        /\ pc'[t] \in {"done", "cancelling"}
    BY <1>1 DEF CancelRun, Cancellable, TypeOK
  <1>3. /\ runs'[id].status = "failed" /\ runs'[id].owner = runs[id].owner
        /\ runs'[id].log = runs[id].log
        /\ \A i \in RunIds \ {id} : runs'[i] = runs[i]
    <2>1. runs[id] \in Row
      BY <1>1 DEF TypeOK
    <2> QED
      BY <1>1, <2>1 DEF CancelRun, CancelledRow, TypeOK, Row
  <1> HIDE DEF t
  <1>4. UnusedIds'
    BY <1>1, <1>2, <1>3 DEF IInv, UnusedIds, Active, Ongoing, TypeOK
  <1>5. RowHasOwner'
    BY <1>1, <1>2, <1>3 DEF IInv, RowHasOwner, Present, Active, Ongoing
  <1>6. OwnIds'
    BY <1>1, <1>2 DEF IInv, OwnIds
  <1>7. RegistryIsSound'
    BY <1>1, <1>2 DEF IInv, RegistryIsSound, TypeOK
  <1>8. LiveHasRow'
    <2> SUFFICES ASSUME NEW u \in Tasks, pc'[u] \in Working
                 PROVE  /\ runs'[rid[u]].owner = u
                        /\ runs'[rid[u]].status =
                             (IF pc'[u] = "created" THEN "pending" ELSE "running")
      BY <1>2 DEF LiveHasRow, Working
    <2>1. u # t /\ pc[u] \in Working
      BY <1>2 DEF Working
    <2>2. rid[u] \in RunIds \ {id}
      BY <2>1, <1>1 DEF IInv, OwnIds, TypeOK, Working
    <2> QED
      BY <2>1, <2>2, <1>2, <1>3 DEF IInv, LiveHasRow, Working
  <1>9. DoomedIsIdle'
    BY <1>1, <1>2, <1>3 DEF IInv, DoomedIsIdle, Active, TypeOK, Ongoing
  <1>10. DownIsQuiet'
    BY <1>2 DEF IInv, DownIsQuiet
  <1>11. LogsAreOwn'
    BY <1>3 DEF IInv, LogsAreOwn
  <1> QED
    BY <1>4, <1>5, <1>6, <1>7, <1>8, <1>9, <1>10, <1>11 DEF IInv

LEMMA DeleteInv ==
  ASSUME IInv, TypeOK', NEW d \in Deleters,
         (\E ids \in SUBSET RunIds : DeleteCheck(d, ids)) \/ DeleteCommit(d)
  PROVE  IInv'
  <1>1. CASE \E ids \in SUBSET RunIds : DeleteCheck(d, ids)
    <2>1. PICK ids \in SUBSET RunIds : DeleteCheck(d, ids)
      BY <1>1
    <2>2. /\ \A id \in ids : Terminal(id)
          /\ doomed' = [doomed EXCEPT ![d] = ids]
          /\ UNCHANGED <<phase, runs, lastId, pc, rid, registry>>
      BY <2>1 DEF DeleteCheck, Deletable, taskVars
    <2>3. UnusedIds'
      <3>1. \A id \in ids : ~(id > lastId)
        BY <2>2 DEF IInv, UnusedIds, Terminal, Settled
      <3> QED
        BY <2>2, <3>1 DEF IInv, UnusedIds, TypeOK
    <2>4. DoomedIsIdle'
      BY <2>2 DEF IInv, DoomedIsIdle, Terminal, Active, Settled, Ongoing, TypeOK
    <2>5. RowHasOwner' /\ OwnIds' /\ RegistryIsSound' /\ LiveHasRow' /\ DownIsQuiet' /\ LogsAreOwn'
      BY <2>2 DEF IInv, RowHasOwner, Present, OwnIds, RegistryIsSound, LiveHasRow,
                  DownIsQuiet, LogsAreOwn
    <2> QED
      BY <2>3, <2>4, <2>5 DEF IInv
  <1>2. CASE DeleteCommit(d)
    <2>1. /\ runs' = [id \in RunIds |-> IF id \in doomed[d] THEN Absent ELSE runs[id]]
          /\ doomed' = [doomed EXCEPT ![d] = {}]
          /\ UNCHANGED <<phase, lastId, pc, rid, registry>>
      BY <1>2 DEF DeleteCommit, taskVars
    <2>2. Absent.status = "absent" /\ Absent.log = {}
      BY DEF Absent
    <2>3. UnusedIds'
      BY <2>1, <2>2 DEF IInv, UnusedIds, TypeOK
    <2>4. DoomedIsIdle'
      BY <2>1, <2>2 DEF IInv, DoomedIsIdle, Active, Ongoing, TypeOK
    <2>5. RowHasOwner'
      BY <2>1, <2>2 DEF IInv, RowHasOwner, Present
    <2>6. LiveHasRow'
      <3> SUFFICES ASSUME NEW u \in Tasks, pc[u] \in Working
                   PROVE  runs'[rid[u]] = runs[rid[u]]
        BY <2>1 DEF IInv, LiveHasRow, Working
      <3>1. Active(rid[u]) /\ rid[u] \in RunIds
        BY DEF IInv, LiveHasRow, Active, Ongoing, Working, TypeOK
      <3> QED
        BY <2>1, <3>1 DEF IInv, DoomedIsIdle
    <2>7. LogsAreOwn'
      BY <2>1, <2>2 DEF IInv, LogsAreOwn
    <2>8. OwnIds' /\ RegistryIsSound' /\ DownIsQuiet'
      BY <2>1 DEF IInv, OwnIds, RegistryIsSound, DownIsQuiet
    <2> QED
      BY <2>3, <2>4, <2>5, <2>6, <2>7, <2>8 DEF IInv
  <1> QED
    BY <1>1, <1>2

LEMMA ProcessInv ==
  ASSUME IInv, TypeOK', Stop \/ Exit \/ Crash \/ Restart \/ UNCHANGED vars
  PROVE  IInv'
  <1>1. TypeOK
    BY DEF IInv
  <1>2. CASE Stop
    <2>1. /\ UNCHANGED <<runs, lastId, rid, registry, doomed>>
          /\ \A t \in Tasks : pc'[t] \notin {"created", "flow", "evaluate", "trace"}
          /\ \A t \in Tasks : pc'[t] # "none" <=> pc[t] # "none"
      BY <1>1, <1>2 DEF Stop, TypeOK, Live
    <2> QED
      BY <2>1 DEF IInv, UnusedIds, RowHasOwner, Present, OwnIds, RegistryIsSound,
                  DoomedIsIdle, Active, DownIsQuiet, LiveHasRow, LogsAreOwn
  <1>3. CASE Ended
    <2>1. /\ UNCHANGED <<runs, lastId, rid>>
          /\ registry' = [id \in RunIds |-> NoTask]
          /\ doomed' = [d \in Deleters |-> {}]
          /\ \A t \in Tasks : pc'[t] \notin {"created", "flow", "evaluate", "trace"}
          /\ \A t \in Tasks : pc'[t] # "none" <=> pc[t] # "none"
      BY <1>1, <1>3 DEF Ended, TypeOK, Live
    <2> QED
      BY <2>1 DEF IInv, UnusedIds, RowHasOwner, Present, OwnIds, RegistryIsSound,
                  DoomedIsIdle, Active, DownIsQuiet, LiveHasRow, LogsAreOwn
  <1>4. CASE Restart
    <2>1. /\ phase = "down"
          /\ UNCHANGED <<lastId, rid, registry, doomed, pc>>
      BY <1>4 DEF Restart, taskVars
    <2>2. \A id \in RunIds : /\ runs'[id].owner = runs[id].owner
                             /\ runs'[id].log = runs[id].log
                             /\ ~Active(id) => runs'[id] = runs[id]
                             /\ Active(id) => runs'[id].status = "failed"
      <3>1. runs \in [RunIds -> Row]
        BY <1>1 DEF TypeOK
      <3>2. \A row \in Row : /\ Reconciled(row).owner = row.owner
                             /\ Reconciled(row).log = row.log
                             /\ row.status \notin Ongoing => Reconciled(row) = row
                             /\ row.status \in Ongoing => Reconciled(row).status = "failed"
        BY DEF Row, Reconciled
      <3> QED
        BY <1>4, <3>1, <3>2 DEF Restart, Active
    <2>3. \A t \in Tasks : pc[t] \notin {"created", "flow", "evaluate", "trace"}
      BY <2>1 DEF IInv, DownIsQuiet
    <2>4. UnusedIds'
      BY <2>1, <2>2 DEF IInv, UnusedIds, Active, Ongoing
    <2>5. RowHasOwner'
      BY <2>1, <2>2 DEF IInv, RowHasOwner, Present, Active, Ongoing
    <2>6. DoomedIsIdle'
      BY <1>1, <2>1, <2>2 DEF IInv, DoomedIsIdle, Active, TypeOK
    <2>7. OwnIds' /\ RegistryIsSound' /\ LiveHasRow' /\ DownIsQuiet' /\ LogsAreOwn'
      BY <2>1, <2>2, <2>3 DEF IInv, OwnIds, RegistryIsSound, LiveHasRow, DownIsQuiet, LogsAreOwn
    <2> QED
      BY <2>4, <2>5, <2>6, <2>7 DEF IInv
  <1>5. CASE UNCHANGED vars
    BY <1>5 DEF vars, taskVars, IInv, UnusedIds, RowHasOwner, Present, OwnIds, RegistryIsSound,
                DoomedIsIdle, Active, DownIsQuiet, LiveHasRow, LogsAreOwn
  <1> QED
    BY <1>2, <1>3, <1>4, <1>5 DEF Exit, Crash

LEMMA InitInv == Init => IInv
  <1> SUFFICES ASSUME Init PROVE IInv
    OBVIOUS
  <1>1. TypeOK
    BY InitType
  <1>2. Absent.status = "absent" /\ Absent.log = {}
    BY DEF Absent
  <1> QED
    BY <1>1, <1>2, RunAssumption
       DEF Init, IInv, UnusedIds, RowHasOwner, Present, OwnIds, RegistryIsSound, DoomedIsIdle,
           DownIsQuiet, LiveHasRow, LogsAreOwn

LEMMA NextInv ==
  ASSUME ~reused', IInv, [Next]_vars
  PROVE  IInv'
  <1>1. TypeOK /\ LiveHasRow /\ TypeOK'
    BY NextType DEF IInv
  <1>2. ASSUME NEW t \in Tasks, Executor(t) \/ WorkerLogs(t) \/ OrphanEnds(t) PROVE IInv'
    BY <1>1, <1>2, ExecutorOwn, ThreadOwn, OwnStepInv
  <1> QED
    BY <1>1, <1>2, LaunchInv, CancelInv, DeleteInv, ProcessInv DEF Next

LEMMA ReusedStays == ASSUME reused, [Next]_vars PROVE reused'
  <1>1. ASSUME NEW t \in Tasks, Launch(t) PROVE reused'
    BY <1>1 DEF Launch
  <1>2. ASSUME NEW t \in Tasks, Executor(t) \/ WorkerLogs(t) \/ OrphanEnds(t) PROVE reused'
    BY <1>2 DEF Executor, Start, StartFails, FlowReturns, FlowRaises, HandleError, Retry,
                EvaluateReturns, EvaluateSaveFails, TraceReturns, Unwind, WorkerLogs, OrphanEnds
  <1>3. ASSUME NEW id \in RunIds, CancelRun(id) PROVE reused'
    BY <1>3 DEF CancelRun
  <1>4. ASSUME NEW d \in Deleters,
               (\E ids \in SUBSET RunIds : DeleteCheck(d, ids)) \/ DeleteCommit(d)
        PROVE  reused'
    BY <1>4 DEF DeleteCheck, DeleteCommit
  <1>5. CASE Stop \/ Exit \/ Crash \/ Restart \/ UNCHANGED vars
    BY <1>5 DEF Stop, Exit, Crash, Ended, Restart, vars
  <1> QED
    BY <1>1, <1>2, <1>3, <1>4, <1>5 DEF Next

\* As long as no id is reused rows, coroutines, the registry and the requests
\* in flight belong together.
THEOREM Invariance == Spec => []RowsKeepOwners
  <1>1. Init => RowsKeepOwners
    BY InitInv DEF RowsKeepOwners
  <1>2. RowsKeepOwners /\ [Next]_vars => RowsKeepOwners'
    BY NextInv, ReusedStays DEF RowsKeepOwners
  <1> QED
    BY <1>1, <1>2, PTL DEF Spec

-----------------------------------------------------------------------------
(* What follows from it.                                                     *)

\* A coroutine that still has to settle its run finds its own row.
THEOREM LiveHasRowAlways == Spec => [](reused \/ LiveHasRow)
  <1>1. RowsKeepOwners => reused \/ LiveHasRow
    BY DEF RowsKeepOwners, IInv
  <1> QED
    BY <1>1, Invariance, PTL

\* No run's log ever receives an entry of another run.
THEOREM LogsAreOwnAlways == Spec => [](reused \/ LogsAreOwn)
  <1>1. RowsKeepOwners => reused \/ LogsAreOwn
    BY DEF RowsKeepOwners, IInv
  <1> QED
    BY <1>1, Invariance, PTL

\* A DELETE never removes a run in progress.
LEMMA NoActiveDeleted ==
  ASSUME ~reused', IInv, [Next]_vars, NEW id \in RunIds, Active(id)
  PROVE  runs'[id].owner = runs[id].owner
  <1>1. TypeOK /\ LiveHasRow /\ runs[id] \in Row
    BY DEF IInv, TypeOK
  <1>2. ASSUME NEW t \in Tasks, Launch(t) PROVE runs'[id] = runs[id]
    <2>1. runs[id].status # "absent" /\ lastId \in Nat
      BY <1>1 DEF Active, Ongoing, TypeOK
    <2>2. id # lastId + 1
      BY <2>1, RunAssumption DEF IInv, UnusedIds
    <2> QED
      BY <1>1, <1>2, <2>2 DEF Launch, FreshId, TypeOK
  <1>3. ASSUME NEW t \in Tasks, OwnStep(t) PROVE runs'[id].owner = runs[id].owner
    BY <1>3 DEF OwnStep
  <1>4. ASSUME NEW i \in RunIds, CancelRun(i) PROVE runs'[id].owner = runs[id].owner
    BY <1>1, <1>4 DEF CancelRun, CancelledRow, TypeOK, Row
  <1>5. ASSUME NEW d \in Deleters,
               (\E ids \in SUBSET RunIds : DeleteCheck(d, ids)) \/ DeleteCommit(d)
        PROVE  runs'[id] = runs[id]
    BY <1>5 DEF DeleteCheck, DeleteCommit, IInv, DoomedIsIdle, TypeOK
  <1>6. CASE Stop \/ Exit \/ Crash \/ UNCHANGED vars
    BY <1>6 DEF Stop, Exit, Crash, Ended, vars
  <1>7. CASE Restart
    BY <1>1, <1>7 DEF Restart, Reconciled, Row
  <1> QED
    BY <1>1, <1>2, <1>3, <1>4, <1>5, <1>6, <1>7, ExecutorOwn, ThreadOwn DEF Next

THEOREM ActiveNeverDeletedAlways == Spec => ActiveNeverDeleted
  <1>1. RowsKeepOwners /\ [Next]_vars =>
          [\A id \in RunIds : ~reused' /\ Active(id) => runs'[id].owner = runs[id].owner]_vars
    BY NoActiveDeleted, ReusedStays DEF RowsKeepOwners
  <1> QED
    BY <1>1, Invariance, PTL DEF Spec, ActiveNeverDeleted

\* A settled run keeps its outcome as long as it exists.
LEMMA SettledKept ==
  ASSUME ~reused', IInv, [Next]_vars, NEW id \in RunIds, Terminal(id),
         runs'[id].owner = runs[id].owner
  PROVE  /\ runs'[id].status = runs[id].status
         /\ runs'[id].result = runs[id].result
         /\ runs'[id].retries = runs[id].retries
  <1>1. TypeOK /\ LiveHasRow /\ runs[id] \in Row /\ ~Active(id)
    BY DEF IInv, TypeOK, Terminal, Active, Settled, Ongoing
  <1>2. ASSUME NEW t \in Tasks, Launch(t) PROVE runs'[id] = runs[id]
    <2>1. runs[id].status # "absent" /\ lastId \in Nat
      BY <1>1 DEF Terminal, Settled, TypeOK
    <2>2. id # lastId + 1
      BY <2>1, RunAssumption DEF IInv, UnusedIds
    <2> QED
      BY <1>1, <1>2, <2>2 DEF Launch, FreshId, TypeOK
  <1>3. ASSUME NEW t \in Tasks, OwnStep(t)
        PROVE  /\ runs'[id].status = runs[id].status
               /\ runs'[id].result = runs[id].result
               /\ runs'[id].retries = runs[id].retries
    BY <1>3 DEF OwnStep, Terminal
  <1>4. ASSUME NEW i \in RunIds, CancelRun(i) PROVE runs'[id] = runs[id]
    BY <1>1, <1>4 DEF CancelRun, Cancellable, TypeOK
  <1>5. ASSUME NEW d \in Deleters,
               (\E ids \in SUBSET RunIds : DeleteCheck(d, ids)) \/ DeleteCommit(d)
        PROVE  runs'[id] = runs[id]
    <2>1. CASE \E ids \in SUBSET RunIds : DeleteCheck(d, ids)
      BY <2>1 DEF DeleteCheck
    <2>2. CASE DeleteCommit(d)
      <3>1. runs[id].owner # NoTask
        BY RunAssumption DEF IInv, RowHasOwner, Present, Terminal, Settled
      <3>2. runs'[id] # Absent
        BY <3>1 DEF Absent
      <3> QED
        BY <2>2, <3>2 DEF DeleteCommit
    <2> QED
      BY <1>5, <2>1, <2>2
  <1>6. CASE Stop \/ Exit \/ Crash \/ UNCHANGED vars
    BY <1>6 DEF Stop, Exit, Crash, Ended, vars
  <1>7. CASE Restart
    BY <1>1, <1>7 DEF Restart, Reconciled, Active
  <1> QED
    BY <1>1, <1>2, <1>3, <1>4, <1>5, <1>6, <1>7, ExecutorOwn, ThreadOwn DEF Next

THEOREM TerminalIsFinalAlways == Spec => TerminalIsFinal
  <1>1. RowsKeepOwners /\ [Next]_vars =>
          [\A id \in RunIds : ~reused' /\ Terminal(id) /\ runs'[id].owner = runs[id].owner =>
             /\ runs'[id].status = runs[id].status
             /\ runs'[id].result = runs[id].result
             /\ runs'[id].retries = runs[id].retries]_vars
    BY SettledKept, ReusedStays DEF RowsKeepOwners
  <1> QED
    BY <1>1, Invariance, PTL DEF Spec, TerminalIsFinal

-----------------------------------------------------------------------------
(* What the views of the table rest on, whether or not an id is reused: an   *)
(* id given out is above the ids of all rows there are, and only the         *)
(* reconciliation settles a run without a time.                              *)

Stamped(row) == row.status \in Settled /\ row.result # "restarted" => row.finished

\* What every write but that of a launch leaves of a row.
Keeps(old, new) ==
  /\ new.status # "absent" => old.status # "absent" /\ new.born = old.born
  /\ Stamped(old) => Stamped(new)

LEMMA SavedKeeps ==
  ASSUME TypeOK, NEW id \in RunIds, NEW t \in Tasks, Present(id),
         NEW st \in Settled \cup {"running"}, NEW res \in Results
  PROVE  \A i \in RunIds : Keeps(runs[i], Saved(id, t, st, res)[i])
  <1> DEFINE new == Updated(runs[id], t, st, res)
  <1>1. runs \in [RunIds -> Row] /\ runs[id] \in Row
    BY DEF TypeOK
  <1>2. new.status = st /\ new.born = runs[id].born /\ (st \in Settled => new.finished)
    BY <1>1 DEF Row, Updated
  <1>3. Keeps(runs[id], new)
    <2>1. Stamped(new)
      BY <1>2 DEF Stamped
    <2> QED
      BY <1>2, <2>1 DEF Keeps, Present
  <1>4. \A i \in RunIds : Keeps(runs[i], runs[i])
    BY DEF Keeps
  <1>5. Saved(id, t, st, res) = [runs EXCEPT ![id] = new]
    BY DEF Saved
  <1> HIDE DEF new
  <1> QED
    BY <1>1, <1>3, <1>4, <1>5

LEMMA LoggedKeeps ==
  ASSUME TypeOK, NEW id \in RunIds, NEW t \in Tasks
  PROVE  \A i \in RunIds : Keeps(runs[i], Logged(id, t)[i])
  <1> DEFINE new == [runs[id] EXCEPT !.log = @ \cup {t}]
  <1>1. runs \in [RunIds -> Row] /\ runs[id] \in Row
    BY DEF TypeOK
  <1>2. Keeps(runs[id], new)
    BY <1>1 DEF Row, Keeps, Stamped
  <1>3. \A i \in RunIds : Keeps(runs[i], runs[i])
    BY DEF Keeps
  <1>4. Logged(id, t) = IF Present(id) THEN [runs EXCEPT ![id] = new] ELSE runs
    BY DEF Logged
  <1> HIDE DEF new
  <1> QED
    BY <1>1, <1>2, <1>3, <1>4

\* Steps that give out no id.
NoLaunch ==
  \/ \E t \in Tasks : Executor(t) \/ WorkerLogs(t) \/ OrphanEnds(t)
  \/ \E id \in RunIds : CancelRun(id)
  \/ \E d \in Deleters : (\E ids \in SUBSET RunIds : DeleteCheck(d, ids)) \/ DeleteCommit(d)
  \/ Stop \/ Exit \/ Crash \/ Restart
  \/ UNCHANGED vars

LEMMA WritesKeep ==
  ASSUME TypeOK, NoLaunch
  PROVE  /\ \A i \in RunIds : Keeps(runs[i], runs'[i])
         /\ UNCHANGED <<lastId, launched>>
  <1>1. \A i \in RunIds : Keeps(runs[i], runs[i])
    BY DEF Keeps
  <1>2. ASSUME NEW t \in Tasks, Executor(t) PROVE \A i \in RunIds : Keeps(runs[i], runs'[i])
    <2>1. rid[t] \in RunIds
      BY <1>2 DEF Executor, Start, StartFails, FlowReturns, FlowRaises, EvaluateReturns,
             EvaluateSaveFails, TraceReturns, Unwind, TypeOK
    <2>2. \/ runs' = runs \/ runs' = Logged(rid[t], t)
          \/ Present(rid[t]) /\ runs' = Saved(rid[t], t, "running", "none")
          \/ Present(rid[t]) /\ runs' = Saved(rid[t], t, "failed", "error")
          \/ Present(rid[t]) /\ runs' = Saved(rid[t], t, "failed", "invalid")
          \/ Present(rid[t]) /\ runs' = Saved(rid[t], t, "success", "ok")
      BY <1>2 DEF Executor, Start, StartFails, FlowReturns, FlowRaises, HandleError, Retry,
             EvaluateReturns, EvaluateSaveFails, TraceReturns, Unwind
    <2>3. /\ {"failed", "running", "success"} \subseteq Settled \cup {"running"}
          /\ {"none", "error", "invalid", "ok"} \subseteq Results
      BY DEF Settled, Results
    <2> QED
      BY <1>1, <2>1, <2>2, <2>3, SavedKeeps, LoggedKeeps
  <1>3. ASSUME NEW t \in Tasks, WorkerLogs(t) \/ OrphanEnds(t)
        PROVE  \A i \in RunIds : Keeps(runs[i], runs'[i])
    <2>1. rid[t] \in RunIds
      BY <1>3 DEF WorkerLogs, OrphanEnds, TypeOK
    <2> QED
      BY <1>1, <1>3, <2>1, LoggedKeeps DEF WorkerLogs, OrphanEnds
  <1>4. ASSUME NEW id \in RunIds, CancelRun(id) PROVE \A i \in RunIds : Keeps(runs[i], runs'[i])
    <2>1. \A row \in Row : row.status \in Ongoing => Keeps(row, CancelledRow(row))
      BY DEF Row, CancelledRow, Keeps, Stamped, Ongoing
    <2> QED
      BY <1>1, <1>4, <2>1 DEF CancelRun, Cancellable, Active, TypeOK
  <1>5. ASSUME NEW d \in Deleters,
               (\E ids \in SUBSET RunIds : DeleteCheck(d, ids)) \/ DeleteCommit(d)
        PROVE  \A i \in RunIds : Keeps(runs[i], runs'[i])
    <2>1. \A i \in RunIds : Keeps(runs[i], Absent)
      BY DEF Keeps, Stamped, Absent, Settled
    <2> QED
      BY <1>1, <1>5, <2>1 DEF DeleteCheck, DeleteCommit
  <1>6. CASE Stop \/ Exit \/ Crash \/ UNCHANGED vars
    BY <1>1, <1>6 DEF Stop, Exit, Crash, Ended, vars
  <1>7. CASE Restart
    <2>1. \A row \in Row : Keeps(row, Reconciled(row))
      BY DEF Row, Reconciled, Keeps, Stamped, Ongoing
    <2> QED
      BY <1>7, <2>1 DEF Restart, TypeOK
  <1>8. UNCHANGED <<lastId, launched>>
    BY DEF NoLaunch, Executor, Start, StartFails, FlowReturns, FlowRaises, EvaluateReturns,
           EvaluateSaveFails, TraceReturns, Unwind, WorkerLogs, OrphanEnds, CancelRun,
           DeleteCheck, DeleteCommit, Stop, Exit, Crash, Ended, Restart, vars
  <1> QED
    BY <1>2, <1>3, <1>4, <1>5, <1>6, <1>7, <1>8 DEF NoLaunch

\* The rows there are have ids and launch numbers given out already.
RowsAreIssued ==
  \A id \in RunIds : Present(id) => id <= lastId /\ runs[id].born <= launched

LEMMA TableLaunch ==
  ASSUME TypeOK, RowsAreIssued, NewestIdIsLatest, SettledIsStamped, NEW t \in Tasks, Launch(t)
  PROVE  RowsAreIssued' /\ NewestIdIsLatest' /\ SettledIsStamped'
  <1>1. PICK id \in RunIds :
          /\ FreshId(id)
          /\ runs' = [runs EXCEPT ![id] = [Absent EXCEPT !.status = "pending", !.owner = t,
                                                         !.born = launched + 1]]
          /\ lastId' = id
    BY DEF Launch
  <1>2. launched' = launched + 1 /\ launched \in Nat /\ lastId \in Nat /\ RunIds \subseteq Nat
    BY RunAssumption DEF Launch, TypeOK
  <1>3. /\ runs'[id].status = "pending" /\ runs'[id].born = launched + 1
        /\ \A i \in RunIds \ {id} : runs'[i] = runs[i]
    BY <1>1 DEF TypeOK, Absent
  <1>4. \A i \in RunIds : Present(i) => i < id
    BY <1>1, <1>2 DEF FreshId, RowidId, RowsAreIssued
  <1>5. \A i \in RunIds : runs[i].born \in Nat
    BY DEF TypeOK, Row
  <1>6. RowsAreIssued'
    BY <1>1, <1>2, <1>3, <1>4, <1>5 DEF RowsAreIssued, Present
  <1>7. NewestIdIsLatest'
    <2> SUFFICES ASSUME NEW i \in RunIds, NEW j \in RunIds, Present(i)', Present(j)', i < j
                 PROVE  runs'[i].born < runs'[j].born
      BY DEF NewestIdIsLatest
    <2>1. i # id
      BY <1>2, <1>3, <1>4 DEF Present
    <2>2. CASE j = id
      BY <1>2, <1>3, <1>5, <2>1, <2>2 DEF RowsAreIssued, Present
    <2>3. CASE j # id
      BY <1>3, <2>1, <2>3 DEF NewestIdIsLatest, Present
    <2> QED
      BY <2>2, <2>3
  <1>8. SettledIsStamped'
    BY <1>3 DEF SettledIsStamped, Terminal, Settled
  <1> QED
    BY <1>6, <1>7, <1>8

\* Whatever the id policy: types, ids in the order of the launches, and a time
\* on every run that settled in the process that ran it.
THEOREM TableIsSoundAlways == Spec => []TableIsSound
  <1> DEFINE Inv == TypeOK /\ RowsAreIssued /\ NewestIdIsLatest /\ SettledIsStamped
  <1>1. Init => Inv
    <2>1. Absent.status = "absent"
      BY DEF Absent
    <2> QED
      BY <2>1, InitType
         DEF Init, RowsAreIssued, NewestIdIsLatest, SettledIsStamped, Present, Terminal, Settled
  <1>2. Inv /\ [Next]_vars => Inv'
    <2> SUFFICES ASSUME Inv, [Next]_vars PROVE Inv'
      OBVIOUS
    <2>1. TypeOK'
      BY NextType
    <2>2. CASE NoLaunch
      <3>1. /\ \A i \in RunIds : Keeps(runs[i], runs'[i])
            /\ UNCHANGED <<lastId, launched>>
        BY <2>2, WritesKeep
      <3>2. \A i \in RunIds : Stamped(runs[i])
        BY DEF SettledIsStamped, Stamped, Terminal
      <3>3. \A i \in RunIds : Stamped(runs'[i])
        BY <3>1, <3>2 DEF Keeps
      <3>4. SettledIsStamped'
        BY <3>3 DEF SettledIsStamped, Stamped, Terminal
      <3>5. RowsAreIssued' /\ NewestIdIsLatest'
        BY <3>1 DEF Keeps, RowsAreIssued, NewestIdIsLatest, Present
      <3> QED
        BY <2>1, <3>4, <3>5
    <2>3. ASSUME NEW t \in Tasks, Launch(t) PROVE Inv'
      BY <2>1, <2>3, TableLaunch
    <2> QED
      BY <2>2, <2>3 DEF Next, NoLaunch
  <1>3. Inv => TableIsSound
    BY DEF TableIsSound
  <1> QED
    BY <1>1, <1>2, <1>3, PTL DEF Spec

-----------------------------------------------------------------------------
(* Cancelling.  What it needs beyond IInv: a row in progress has its         *)
(* coroutine in the registry, a coroutine being cancelled has no row in      *)
(* progress, and no coroutine outlives its process.                          *)

Reachable ==
  phase = "up" => \A id \in RunIds : Active(id) =>
    LET t == runs[id].owner IN
    \/ registry[id] = t /\ pc[t] \in Working
    \/ Abandoned(t)

CancelledHasSettled ==
  \A t \in Tasks : phase = "up" /\ pc[t] = "cancelling" => ~Active(rid[t])

DownIsOver == \A t \in Tasks : phase = "down" => pc[t] \notin Live

CInv == Reachable /\ CancelledHasSettled /\ DownIsOver

\* What a step of coroutine t does to its own registration: it is kept, or the
\* run has settled or is abandoned.  Faults are never forgotten.
StaysReachable(t) ==
  /\ UNCHANGED budget
  /\ faults > 0 => faults' > 0
  /\ Active(rid[t])' =>
       \/ UNCHANGED registry /\ (pc[t] \in Working => pc'[t] \in Working)
       \/ Abandoned(t)'
  /\ \A id \in RunIds \ {rid[t]} : registry'[id] = registry[id]
  /\ pc'[t] = "cancelling" => pc[t] = "cancelling"
  /\ pc'[t] \in Live => pc[t] \in Live

LEMMA HandleErrorReachable ==
  ASSUME TypeOK, LiveHasRow, NEW t \in Tasks, pc[t] \in {"flow", "evaluate"},
         NEW f \in Nat, f >= faults, HandleError(t, f), UNCHANGED <<budget, rid>>
  PROVE  StaysReachable(t)
  <1>1. rid[t] \in RunIds /\ Present(rid[t]) /\ faults \in Nat
    BY RunAssumption DEF TypeOK, LiveHasRow, Present
  <1>2. CASE Retry(t) /\ faults' = f
    BY <1>1, <1>2 DEF Retry, StaysReachable, TypeOK, Working, Live
  <1>3. CASE /\ runs' = Saved(rid[t], t, "failed", "error")
             /\ pc' = [pc EXCEPT ![t] = "trace"]
             /\ faults' = f
             /\ UNCHANGED registry
    <2>1. runs'[rid[t]].status = "failed"
      BY <1>1, <1>3, SavedRow DEF Settled, Results
    <2> QED
      BY <1>1, <1>3, <2>1 DEF StaysReachable, TypeOK, Active, Ongoing, Live
  <1>4. CASE Finish(t) /\ faults' = f + 1
    BY <1>1, <1>4 DEF Finish, StaysReachable, TypeOK, Abandoned, Live
  <1> QED
    BY <1>1, <1>2, <1>3, <1>4 DEF HandleError

LEMMA ExecutorReachable ==
  ASSUME TypeOK, LiveHasRow, NEW t \in Tasks, Executor(t)
  PROVE  StaysReachable(t) \/ (pc[t] \in {"trace", "cancelling"} /\ Finish(t)
                               /\ UNCHANGED <<budget, faults>>)
  <1>1. /\ rid[t] \in RunIds /\ faults \in Nat /\ faults + 1 \in Nat
        /\ budget[t] \in Int /\ UNCHANGED <<budget, rid>>
    <2>1. pc[t] # "none" /\ UNCHANGED <<budget, rid>>
      BY DEF Executor, Start, StartFails, FlowReturns, FlowRaises, EvaluateReturns,
             EvaluateSaveFails, TraceReturns, Unwind
    <2>2. faults \in Nat /\ budget[t] \in Budgets \cup {0}
      BY RunAssumption DEF TypeOK
    <2>3. budget[t] \in Int
      <3>1. 0 \in Int
        OBVIOUS
      <3> QED
        BY <2>2, <3>1, RunAssumption, Zenon
    <2> QED
      BY <2>1, <2>2, <2>3 DEF TypeOK
  <1>2. CASE Start(t)
    <2>1. CASE budget[t] >= 0
      BY <1>1, <1>2, <2>1 DEF Start, StaysReachable, TypeOK, Working, Live
    <2>2. CASE ~(budget[t] >= 0)
      BY <1>1, <1>2, <2>2 DEF Start, Finish, StaysReachable, TypeOK, Abandoned, Live
    <2> QED
      BY <2>1, <2>2
  <1>3. CASE StartFails(t)
    <2>1. Present(rid[t])
      BY <1>3 DEF StartFails, LiveHasRow, Present
    <2> QED
      BY <1>1, <1>3, <2>1 DEF StartFails, Finish, StaysReachable, TypeOK, Abandoned, Live
  <1>4. ASSUME NEW v \in {"valid", "invalid"}, FlowReturns(t, v) PROVE StaysReachable(t)
    BY <1>1, <1>4 DEF FlowReturns, Retry, StaysReachable, TypeOK, Working, Live
  <1>5. CASE FlowRaises(t)
    BY <1>1, <1>5, HandleErrorReachable DEF FlowRaises
  <1>6. CASE EvaluateReturns(t)
    <2>1. runs'[rid[t]].status \in Settled
      BY <1>1, <1>6, SavedRow DEF EvaluateReturns, Settled, Results
    <2> QED
      BY <1>1, <1>6, <2>1
         DEF EvaluateReturns, StaysReachable, TypeOK, Active, Ongoing, Settled, Live
  <1>7. CASE EvaluateSaveFails(t)
    BY <1>1, <1>7, HandleErrorReachable DEF EvaluateSaveFails
  <1>8. CASE TraceReturns(t) \/ Unwind(t)
    BY <1>8 DEF TraceReturns, Unwind
  <1> QED
    BY <1>2, <1>3, <1>4, <1>5, <1>6, <1>7, <1>8 DEF Executor

\* A step of coroutine t or of its threads.
LEMMA OwnStepCancel ==
  ASSUME IInv, CInv, NEW t \in Tasks, OwnStep(t),
         StaysReachable(t) \/ (pc[t] \in {"trace", "cancelling"} /\ Finish(t)
                               /\ UNCHANGED <<budget, faults>>)
  PROVE  CInv'
  <1>1. /\ TypeOK /\ rid[t] \in RunIds /\ UNCHANGED <<phase, rid, budget>>
        /\ faults > 0 => faults' > 0
        /\ \A u \in Tasks \ {t} : pc'[u] = pc[u]
    BY DEF IInv, TypeOK, OwnStep, StaysReachable
  <1>2. \A id \in RunIds \ {rid[t]} : registry'[id] = registry[id] /\ runs'[id] = runs[id]
    BY <1>1 DEF OwnStep, StaysReachable, Finish, TypeOK
  <1>3. /\ runs'[rid[t]].owner = runs[rid[t]].owner
        /\ Active(rid[t])' => Active(rid[t])
    BY <1>1 DEF OwnStep, Active, TypeOK, Row, Settled, Ongoing
  <1>4. \A u \in Tasks : Abandoned(u) => Abandoned(u)'
    BY <1>1 DEF Abandoned
  <1>5. \A id \in RunIds : Active(id) => runs[id].owner \in Tasks /\ rid[runs[id].owner] = id
    BY DEF IInv, RowHasOwner, Present, Active, Ongoing
  <1>6. /\ pc'[t] = "cancelling" => pc[t] = "cancelling"
        /\ pc'[t] \in Live => pc[t] \in Live
    BY <1>1 DEF StaysReachable, Finish, TypeOK, Live
  <1>7. Reachable'
    <2> SUFFICES ASSUME phase = "up", NEW id \in RunIds, Active(id)',
                        NEW u \in Tasks, u = runs'[id].owner
                 PROVE  (registry'[id] = u /\ pc'[u] \in Working) \/ Abandoned(u)'
      <3>1. \A id \in RunIds : Active(id)' => runs'[id].owner \in Tasks
        BY <1>1, <1>2, <1>3, <1>5 DEF Active
      <3> QED
        BY <1>1, <3>1 DEF Reachable
    <2>1. Active(id) /\ u = runs[id].owner /\ rid[u] = id
      BY <1>1, <1>2, <1>3, <1>5 DEF Active
    <2>2. (registry[id] = u /\ pc[u] \in Working) \/ Abandoned(u)
      BY <2>1 DEF CInv, Reachable
    <2>3. CASE u # t
      <3>1. Present(id) /\ pc[u] # "none" /\ pc[t] # "none"
        BY <2>1 DEF IInv, RowHasOwner, OwnStep, Present, Active, Ongoing
      <3>2. id # rid[t]
        BY <2>1, <2>3, <3>1 DEF IInv, OwnIds
      <3> QED
        BY <1>1, <1>2, <1>4, <2>2, <2>3, <3>2
    <2>4. CASE u = t /\ ~Abandoned(t)'
      <3>1. registry[id] = t /\ pc[t] \in Working
        BY <1>4, <2>2, <2>4
      <3>2. StaysReachable(t)
        BY <3>1 DEF Working
      <3> QED
        BY <1>1, <2>1, <2>4, <3>1, <3>2 DEF StaysReachable, Active
    <2> QED
      BY <2>3, <2>4
  <1>8. CancelledHasSettled'
    <2>1. \A u \in Tasks : pc'[u] = "cancelling" => pc[u] = "cancelling"
      BY <1>1, <1>6
    <2>2. \A id \in RunIds : Active(id)' => Active(id)
      BY <1>1, <1>2, <1>3 DEF Active
    <2>3. \A u \in Tasks : pc[u] = "cancelling" => rid[u] \in RunIds
      BY <1>1 DEF TypeOK
    <2> QED
      BY <1>1, <2>1, <2>2, <2>3 DEF CInv, CancelledHasSettled, Active
  <1>9. DownIsOver'
    BY <1>1, <1>6 DEF CInv, DownIsOver
  <1> QED
    BY <1>7, <1>8, <1>9 DEF CInv

LEMMA ThreadStays ==
  ASSUME TypeOK, NEW t \in Tasks, WorkerLogs(t) \/ OrphanEnds(t)
  PROVE  StaysReachable(t)
  <1>1. UNCHANGED <<pc, registry, budget, faults>>
    BY DEF WorkerLogs, OrphanEnds, taskVars
  <1> QED
    BY <1>1 DEF StaysReachable

LEMMA LaunchCancel ==
  ASSUME IInv, CInv, ~reused', NEW t \in Tasks, Launch(t)
  PROVE  CInv'
  <1>1. PICK id \in RunIds, b \in Budgets :
          /\ id = lastId + 1
          /\ runs' = [runs EXCEPT ![id] = [Absent EXCEPT !.status = "pending", !.owner = t,
                                                         !.born = launched + 1]]
          /\ rid' = [rid EXCEPT ![t] = id]
          /\ budget' = [budget EXCEPT ![t] = b]
          /\ registry' = [registry EXCEPT ![id] = t]
    BY DEF Launch, FreshId
  <1>2. /\ TypeOK /\ phase = "up" /\ phase' = phase /\ faults' = faults /\ pc[t] = "none"
        /\ pc' = [pc EXCEPT ![t] = "created"]
    BY DEF Launch, IInv
  <1>3. /\ runs'[id].owner = t /\ registry'[id] = t /\ pc'[t] = "created"
        /\ \A i \in RunIds \ {id} : runs'[i] = runs[i] /\ registry'[i] = registry[i]
        /\ \A u \in Tasks \ {t} : pc'[u] = pc[u] /\ rid'[u] = rid[u] /\ budget'[u] = budget[u]
    BY <1>1, <1>2 DEF TypeOK, Absent
  <1>4. \A u \in Tasks : rid[u] # id
    BY <1>1, RunAssumption DEF IInv, UnusedIds, TypeOK
  <1>5. Reachable'
    <2> SUFFICES ASSUME NEW i \in RunIds, Active(i)', i # id, NEW u, u = runs'[i].owner
                 PROVE  (registry'[i] = u /\ pc'[u] \in Working) \/ Abandoned(u)'
      BY <1>3 DEF Reachable, Working
    <2>1. Active(i) /\ u = runs[i].owner
      BY <1>3 DEF Active
    <2>2. u \in Tasks /\ pc[u] # "none"
      BY <2>1 DEF IInv, RowHasOwner, Present, Active, Ongoing
    <2> QED
      BY <1>2, <1>3, <2>1, <2>2 DEF CInv, Reachable, Abandoned
  <1>6. CancelledHasSettled'
    <2> SUFFICES ASSUME NEW u \in Tasks, pc'[u] = "cancelling" PROVE ~Active(rid[u]) /\ u # t
                                                                    /\ rid[u] \in RunIds \ {id}
      BY <1>3 DEF CancelledHasSettled, Active
    <2> QED
      BY <1>2, <1>3, <1>4 DEF CInv, CancelledHasSettled, TypeOK
  <1>7. DownIsOver'
    BY <1>2 DEF DownIsOver
  <1> QED
    BY <1>5, <1>6, <1>7 DEF CInv

LEMMA CancelCancel ==
  ASSUME IInv, CInv, NEW id \in RunIds, CancelRun(id)
  PROVE  CInv'
  <1> DEFINE t == registry[id]
  <1>1. TypeOK /\ t \in Tasks /\ rid[t] = id
    BY DEF IInv, TypeOK, RegistryIsSound, CancelRun
  <1>2. /\ phase = "up" /\ UNCHANGED <<phase, rid, budget, faults>>
        /\ \A i \in RunIds \ {id} : registry'[i] = registry[i] /\ runs'[i] = runs[i]
        /\ \A u \in Tasks \ {t} : pc'[u] = pc[u]
    BY <1>1 DEF CancelRun, TypeOK
  <1>3. ~Active(id)'
    <2>1. runs[id] \in Row
      BY <1>1 DEF TypeOK
    <2> QED
      BY <1>1, <2>1 DEF CancelRun, CancelledRow, TypeOK, Row, Active, Ongoing
  <1> HIDE DEF t
  <1>4. Reachable'
    <2> SUFFICES ASSUME NEW i \in RunIds \ {id}, Active(i)', NEW u, u = runs'[i].owner
                 PROVE  (registry'[i] = u /\ pc'[u] \in Working) \/ Abandoned(u)'
      BY <1>3 DEF Reachable
    <2>1. Active(i) /\ u = runs[i].owner
      BY <1>2 DEF Active
    <2>2. u \in Tasks \ {t}
      BY <1>1, <2>1 DEF IInv, RowHasOwner, Present, Active, Ongoing
    <2> QED
      BY <1>2, <2>1, <2>2 DEF CInv, Reachable, Abandoned
  <1>5. CancelledHasSettled'
    <2> SUFFICES ASSUME NEW u \in Tasks, pc'[u] = "cancelling", u # t
                 PROVE  ~Active(rid[u])'
      BY <1>1, <1>2, <1>3 DEF CancelledHasSettled, Active
    <2>1. ~Active(rid[u]) /\ rid[u] \in RunIds
      BY <1>1, <1>2 DEF CInv, CancelledHasSettled, TypeOK
    <2> QED
      BY <1>2, <1>3, <2>1 DEF Active
  <1>6. DownIsOver'
    BY <1>2 DEF DownIsOver
  <1> QED
    BY <1>4, <1>5, <1>6 DEF CInv

LEMMA DeleteCancel ==
  ASSUME IInv, CInv, NEW d \in Deleters,
         (\E ids \in SUBSET RunIds : DeleteCheck(d, ids)) \/ DeleteCommit(d)
  PROVE  CInv'
  <1>1. UNCHANGED <<phase, pc, rid, budget, faults, registry>>
    BY DEF DeleteCheck, DeleteCommit, taskVars
  <1>2. \A i \in RunIds : Active(i)' => Active(i) /\ runs'[i] = runs[i]
    BY DEF DeleteCheck, DeleteCommit, Active, Ongoing, Absent
  <1>3. \A u \in Tasks : pc[u] = "cancelling" => rid[u] \in RunIds
    BY DEF IInv, TypeOK
  <1>4. Reachable'
    BY <1>1, <1>2 DEF CInv, Reachable, Abandoned
  <1>5. CancelledHasSettled'
    BY <1>1, <1>2, <1>3 DEF CInv, CancelledHasSettled, Active
  <1>6. DownIsOver'
    BY <1>1 DEF CInv, DownIsOver
  <1> QED
    BY <1>4, <1>5, <1>6 DEF CInv

LEMMA ProcessCancel ==
  ASSUME IInv, CInv, Stop \/ Exit \/ Crash \/ Restart \/ UNCHANGED vars
  PROVE  CInv'
  <1>1. TypeOK
    BY DEF IInv
  <1>2. CASE Stop
    BY <1>2 DEF Stop, CInv, Reachable, CancelledHasSettled, DownIsOver
  <1>3. CASE Ended
    <2>1. phase' = "down" /\ \A t \in Tasks : pc'[t] \notin Live
      BY <1>1, <1>3 DEF Ended, TypeOK, Live
    <2> QED
      BY <2>1 DEF CInv, Reachable, CancelledHasSettled, DownIsOver
  <1>4. CASE Restart
    <2>1. phase = "down" /\ phase' = "up" /\ UNCHANGED pc
      BY <1>4 DEF Restart, taskVars
    <2>2. \A i \in RunIds : ~Active(i)'
      <3>1. \A row \in Row : Reconciled(row).status \notin Ongoing
        BY DEF Row, Reconciled, Ongoing
      <3> QED
        BY <1>1, <1>4, <3>1 DEF Restart, Active, TypeOK
    <2>3. \A t \in Tasks : pc[t] # "cancelling"
      BY <2>1 DEF CInv, DownIsOver, Live
    <2> QED
      BY <2>1, <2>2, <2>3 DEF CInv, Reachable, CancelledHasSettled, DownIsOver
  <1>5. CASE UNCHANGED vars
    BY <1>5 DEF vars, taskVars, CInv, Reachable, CancelledHasSettled, DownIsOver, Active, Abandoned
  <1> QED
    BY <1>2, <1>3, <1>4, <1>5 DEF Exit, Crash

LEMMA NextCancel ==
  ASSUME IInv, CInv, ~reused', [Next]_vars
  PROVE  CInv'
  <1>1. ASSUME NEW t \in Tasks, Executor(t) \/ WorkerLogs(t) \/ OrphanEnds(t) PROVE CInv'
    BY <1>1, ExecutorOwn, ExecutorReachable, ThreadOwn, ThreadStays, OwnStepCancel DEF IInv
  <1> QED
    BY <1>1, LaunchCancel, CancelCancel, DeleteCancel, ProcessCancel DEF Next

\* Whatever is in progress can be reached by a cancel, and whatever a cancel
\* has reached has settled.
THEOREM CancelWorksAlways == Spec => []CancelWorks
  <1> DEFINE Inv == reused \/ (IInv /\ CInv)
  <1>1. Init => Inv
    BY InitInv DEF Init, CInv, Reachable, CancelledHasSettled, DownIsOver, Active, Absent,
                   Ongoing, Live
  <1>2. Inv /\ [Next]_vars => Inv'
    BY NextInv, NextCancel, ReusedStays
  <1>3. Inv => CancelWorks
    BY DEF CancelWorks, ActiveIsCancellable, CancelledIsSettled, CInv, Reachable,
           CancelledHasSettled, IInv, RowHasOwner, Present, Active, Ongoing, Working
  <1> QED
    BY <1>1, <1>2, <1>3, PTL DEF Spec

-----------------------------------------------------------------------------
(* Running a flow again.  The verdict of a coroutine is that of its last     *)
(* result, so one that is about to run a flow has a valid one only after a   *)
(* valid result that could not be saved.                                     *)

StaleVerdict(t) == pc[t] \in {"none", "created", "flow"} /\ verdict[t] = "valid"

StaleAfterFault == \A t \in Tasks : StaleVerdict(t) => faults > 0 \/ reused

LEMMA VerdictKept ==
  ASSUME TypeOK, StaleAfterFault, [Next]_vars, reused \/ LiveHasRow
  PROVE  StaleAfterFault'
  <1>1. faults \in Nat /\ faults' \in Nat
    BY NextType, RunAssumption DEF TypeOK
  <1>2. faults' >= faults /\ (reused => reused')
    <2>1. CASE \E t \in Tasks : Executor(t)
      BY <1>1, <2>1, ReusedStays
         DEF Executor, Start, StartFails, FlowReturns, FlowRaises, HandleError, EvaluateReturns,
             EvaluateSaveFails, TraceReturns, Unwind
    <2>2. CASE UNCHANGED faults
      BY <1>1, <2>2, ReusedStays
    <2> QED
      BY <2>1, <2>2 DEF Next, Launch, WorkerLogs, OrphanEnds, CancelRun, DeleteCheck,
                        DeleteCommit, Stop, Exit, Crash, Ended, Restart, vars
  <1>3. ASSUME \A u \in Tasks : StaleVerdict(u)' => StaleVerdict(u) \/ faults' > 0 \/ reused'
        PROVE  StaleAfterFault'
    BY <1>1, <1>2, <1>3 DEF StaleAfterFault
  <1>4. ASSUME NEW t \in Tasks, Executor(t) PROVE StaleAfterFault'
    <2>1. /\ \A u \in Tasks \ {t} : pc'[u] = pc[u] /\ verdict'[u] = verdict[u]
          /\ pc[t] # "none"
      BY <1>4 DEF Executor, Start, StartFails, FlowReturns, FlowRaises, HandleError, Retry,
                  Finish, EvaluateReturns, EvaluateSaveFails, TraceReturns, Unwind, TypeOK
    <2>2. StaleVerdict(t)' => StaleVerdict(t) \/ faults' > 0 \/ reused'
      <3>1. ASSUME NEW v \in {"valid", "invalid"}, FlowReturns(t, v) PROVE ~StaleVerdict(t)'
        BY <3>1 DEF FlowReturns, Rejected, Retry, StaleVerdict, TypeOK
      <3>2. CASE EvaluateSaveFails(t)
        <4>1. CASE ~Present(rid[t])
          BY <4>1, <3>2, <1>2 DEF EvaluateSaveFails, LiveHasRow, Present
        <4>2. CASE HandleError(t, faults + 1)
          BY <4>2, <1>1 DEF HandleError
        <4> QED
          BY <3>2, <4>1, <4>2 DEF EvaluateSaveFails
      <3>3. CASE \/ Start(t) \/ StartFails(t) \/ FlowRaises(t) \/ EvaluateReturns(t)
                 \/ TraceReturns(t) \/ Unwind(t)
        BY <3>3 DEF Start, StartFails, FlowRaises, HandleError, Retry, Finish, EvaluateReturns,
                    TraceReturns, Unwind, StaleVerdict, TypeOK
      <3> QED
        BY <1>4, <3>1, <3>2, <3>3 DEF Executor
    <2> QED
      BY <1>3, <2>1, <2>2 DEF StaleVerdict
  <1>5. ASSUME NEW t \in Tasks, Launch(t) PROVE StaleAfterFault'
    BY <1>3, <1>5 DEF Launch, StaleVerdict, TypeOK
  <1>6. ASSUME NEW t \in Tasks, WorkerLogs(t) \/ OrphanEnds(t) PROVE StaleAfterFault'
    BY <1>3, <1>6 DEF WorkerLogs, OrphanEnds, taskVars, StaleVerdict
  <1>7. ASSUME NEW id \in RunIds, CancelRun(id) PROVE StaleAfterFault'
    BY <1>3, <1>7 DEF CancelRun, StaleVerdict, TypeOK
  <1>8. ASSUME NEW d \in Deleters,
               (\E ids \in SUBSET RunIds : DeleteCheck(d, ids)) \/ DeleteCommit(d)
        PROVE  StaleAfterFault'
    BY <1>3, <1>8 DEF DeleteCheck, DeleteCommit, taskVars, StaleVerdict
  <1>9. CASE Stop \/ Exit \/ Crash
    BY <1>3, <1>9 DEF Stop, Exit, Crash, Ended, StaleVerdict
  <1>10. CASE Restart \/ UNCHANGED vars
    BY <1>3, <1>10 DEF Restart, vars, taskVars, StaleVerdict
  <1> QED
    BY <1>4, <1>5, <1>6, <1>7, <1>8, <1>9, <1>10 DEF Next

LEMMA RerunDeserved ==
  ASSUME TypeOK, StaleAfterFault, reused \/ LiveHasRow, [Next]_vars,
         NEW t \in Tasks, attempt'[t] # attempt[t], verdict'[t] = "valid"
  PROVE  \/ faults' # faults
         \/ reused /\ ~Present(rid[t])
         \/ pc[t] = "flow" /\ verdict[t] = "valid" /\ (faults > 0 \/ reused)
  <1>1. faults \in Nat
    BY RunAssumption DEF TypeOK
  <1>2. PICK u \in Tasks : Executor(u)
    BY DEF Next, Launch, WorkerLogs, OrphanEnds, CancelRun, DeleteCheck,
           DeleteCommit, Stop, Exit, Crash, Ended, Restart, vars, taskVars
  <1>3. u = t
    BY <1>2 DEF Executor, Start, StartFails, FlowReturns, FlowRaises, HandleError, Retry,
                EvaluateReturns, EvaluateSaveFails, TraceReturns, Unwind, TypeOK
  <1>4. ASSUME NEW v \in {"valid", "invalid"}, FlowReturns(t, v) PROVE FALSE
    BY <1>4 DEF FlowReturns, Rejected, Retry, TypeOK
  <1>5. CASE FlowRaises(t)
    BY <1>5 DEF FlowRaises, StaleAfterFault, StaleVerdict
  <1>6. CASE EvaluateSaveFails(t)
    <2>1. CASE ~Present(rid[t])
      BY <1>6, <2>1 DEF EvaluateSaveFails, LiveHasRow, Present
    <2>2. CASE HandleError(t, faults + 1)
      BY <1>1, <2>2 DEF HandleError
    <2> QED
      BY <1>6, <2>1, <2>2 DEF EvaluateSaveFails
  <1> QED
    BY <1>2, <1>3, <1>4, <1>5, <1>6
       DEF Executor, Start, StartFails, EvaluateReturns, TraceReturns, Unwind

\* A flow is not run again after a valid result that could be saved.
THEOREM RerunOnlyAfterRejectionAlways == Spec => RerunOnlyAfterRejection
  <1> DEFINE Inv == TypeOK /\ StaleAfterFault /\ RowsKeepOwners
  <1>1. RowsKeepOwners => reused \/ LiveHasRow
    BY DEF RowsKeepOwners, IInv
  <1>2. Init => StaleAfterFault
    BY DEF Init, StaleAfterFault, StaleVerdict
  <1>3. Inv /\ [Next]_vars => StaleAfterFault'
    BY <1>1, VerdictKept
  <1>4. Inv /\ [Next]_vars =>
          [\A t \in Tasks : attempt'[t] # attempt[t] /\ verdict'[t] = "valid" =>
             \/ faults' # faults
             \/ reused /\ ~Present(rid[t])
             \/ pc[t] = "flow" /\ verdict[t] = "valid" /\ (faults > 0 \/ reused)]_vars
    BY <1>1, RerunDeserved
  <1> QED
    BY <1>2, <1>3, <1>4, TypeCorrect, Invariance, PTL DEF Spec, RerunOnlyAfterRejection

-----------------------------------------------------------------------------
(* RunLifecycle implements RunBoard: every step of the server moves runs on  *)
(* the board as RunBoard allows, or leaves it alone.                         *)

\* What the board shows, when rows and coroutines belong together: the row of
\* the run's id, if it is still that of the run.
Shown(t) ==
  IF pc[t] = "none" THEN "none"
  ELSE IF runs[rid[t]].owner = t THEN runs[rid[t]].status ELSE "deleted"

LEMMA BoardShows ==
  ASSUME TypeOK, RowHasOwner, NEW t \in Tasks
  PROVE  BoardStatus(t) = Shown(t)
  <1>1. CASE pc[t] = "none"
    BY <1>1 DEF BoardStatus, Shown
  <1>2. CASE pc[t] # "none"
    <2>1. \A id \in RunIds : runs[id].owner = t => id = rid[t]
      <3>1. Absent.owner # t
        BY RunAssumption DEF Absent
      <3> QED
        BY <3>1 DEF RowHasOwner, Present
    <2>2. rid[t] \in RunIds
      BY <1>2 DEF TypeOK
    <2>3. CASE runs[rid[t]].owner = t
      <3>1. (CHOOSE id \in RunIds : runs[id].owner = t) = rid[t]
        BY <2>1, <2>2, <2>3
      <3> QED
        BY <1>2, <2>2, <2>3, <3>1 DEF BoardStatus, Shown
    <2>4. CASE runs[rid[t]].owner # t
      BY <1>2, <2>1, <2>2, <2>4 DEF BoardStatus, Shown
    <2> QED
      BY <2>3, <2>4
  <1> QED
    BY <1>1, <1>2

-----------------------------------------------------------------------------
\* How a step moves the board, in terms of what is shown.
ShownMove(S, From, to) ==
  /\ \A t \in S : Shown(t) \in From
  /\ \A t \in Tasks : Shown(t)' = IF t \in S THEN to ELSE Shown(t)

ShownMoves ==
  \/ \E t \in Tasks : \/ ShownMove({t}, {"none"}, "pending")
                      \/ ShownMove({t}, {"pending"}, "running")
                      \/ ShownMove({t}, {"running"}, "success")
  \/ \E S \in SUBSET Tasks : \/ ShownMove(S, {"pending", "running"}, "failed")
                             \/ ShownMove(S, {"success", "failed"}, "deleted")

LEMMA NothingMoves ==
  ASSUME \A t \in Tasks : Shown(t)' = Shown(t)
  PROVE  ShownMoves
  <1>1. ShownMove({}, {"pending", "running"}, "failed")
    BY DEF ShownMove
  <1> QED
    BY <1>1 DEF ShownMoves

LEMMA LaunchMoves ==
  ASSUME IInv, ~reused', NEW t \in Tasks, Launch(t)
  PROVE  ShownMove({t}, {"none"}, "pending")
  <1>1. PICK id \in RunIds :
          /\ id = lastId + 1
          /\ runs' = [runs EXCEPT ![id] = [Absent EXCEPT !.status = "pending", !.owner = t,
                                                         !.born = launched + 1]]
          /\ rid' = [rid EXCEPT ![t] = id]
    BY DEF Launch, FreshId
  <1>2. TypeOK /\ pc[t] = "none" /\ pc' = [pc EXCEPT ![t] = "created"]
    BY DEF Launch, IInv
  <1>3. /\ runs'[id].status = "pending" /\ runs'[id].owner = t /\ rid'[t] = id
        /\ pc'[t] = "created"
        /\ \A i \in RunIds \ {id} : runs'[i] = runs[i]
        /\ \A u \in Tasks \ {t} : pc'[u] = pc[u] /\ rid'[u] = rid[u]
    BY <1>1, <1>2 DEF TypeOK, Absent
  <1>4. \A u \in Tasks : rid[u] # id
    BY <1>1, RunAssumption DEF IInv, UnusedIds, TypeOK
  <1>5. \A u \in Tasks : pc[u] # "none" => rid[u] \in RunIds \ {id}
    BY <1>2, <1>4 DEF TypeOK
  <1> QED
    BY <1>2, <1>3, <1>5 DEF ShownMove, Shown

\* A step of coroutine t or of its threads changes the status of its own row
\* at most.
LEMMA OwnMoves ==
  ASSUME IInv, NEW t \in Tasks, OwnStep(t)
  PROVE  /\ \A u \in Tasks \ {t} : Shown(u)' = Shown(u)
         /\ runs'[rid[t]].status = runs[rid[t]].status => Shown(t)' = Shown(t)
         /\ runs[rid[t]].owner = t => /\ Shown(t) = runs[rid[t]].status
                                      /\ Shown(t)' = runs'[rid[t]].status
  <1>1. /\ TypeOK /\ rid' = rid /\ pc[t] # "none" /\ pc'[t] # "none" /\ rid[t] \in RunIds
        /\ \A u \in Tasks \ {t} : pc'[u] = pc[u]
        /\ \A i \in RunIds \ {rid[t]} : runs'[i] = runs[i]
        /\ runs'[rid[t]].owner = runs[rid[t]].owner
    BY DEF IInv, OwnStep, TypeOK
  <1>2. \A u \in Tasks \ {t} : pc[u] # "none" => rid[u] \in RunIds \ {rid[t]}
    BY <1>1 DEF IInv, OwnIds, TypeOK
  <1> QED
    BY <1>1, <1>2 DEF Shown

LEMMA ExecutorMoves ==
  ASSUME IInv, NEW t \in Tasks, Executor(t)
  PROVE  ShownMoves
  <1>1. TypeOK /\ LiveHasRow /\ rid[t] \in RunIds /\ OwnStep(t)
    BY ExecutorOwn DEF IInv, TypeOK, OwnStep
  <1>2. CASE runs'[rid[t]].status = runs[rid[t]].status
    BY <1>1, <1>2, OwnMoves, NothingMoves
  <1>3. ASSUME NEW st \in Settled \cup {"running"}, NEW res \in Results,
               runs' = Saved(rid[t], t, st, res)
        PROVE  runs'[rid[t]].status = st
    BY <1>1, <1>3, SavedRow
  <1>4. CASE Start(t)
    <2>1. /\ runs[rid[t]].owner = t /\ runs[rid[t]].status = "pending"
          /\ runs'[rid[t]].status = "running"
      BY <1>1, <1>3, <1>4 DEF Start, LiveHasRow, Results
    <2>2. ShownMove({t}, {"pending"}, "running")
      BY <1>1, <2>1, OwnMoves DEF ShownMove
    <2> QED
      BY <2>2 DEF ShownMoves
  <1>5. ASSUME pc[t] \in {"flow", "evaluate"}, runs'[rid[t]].status \in Settled
        PROVE  ShownMoves
    <2>1. runs[rid[t]].owner = t /\ runs[rid[t]].status = "running"
      BY <1>1, <1>5 DEF LiveHasRow
    <2>2. CASE runs'[rid[t]].status = "success"
      <3>1. ShownMove({t}, {"running"}, "success")
        BY <1>1, <2>1, <2>2, OwnMoves DEF ShownMove
      <3> QED
        BY <3>1 DEF ShownMoves
    <2>3. CASE runs'[rid[t]].status = "failed"
      <3>1. ShownMove({t}, {"pending", "running"}, "failed")
        BY <1>1, <2>1, <2>3, OwnMoves DEF ShownMove
      <3> QED
        BY <3>1 DEF ShownMoves
    <2> QED
      BY <1>5, <2>2, <2>3 DEF Settled
  <1>6. \/ Start(t)
        \/ runs' = runs \/ runs' = Logged(rid[t], t)
        \/ /\ pc[t] \in {"flow", "evaluate"}
           /\ \/ runs' = Saved(rid[t], t, "failed", "error")
              \/ runs' = Saved(rid[t], t, "failed", "invalid")
              \/ runs' = Saved(rid[t], t, "success", "ok")
    BY DEF Executor, StartFails, FlowReturns, FlowRaises, HandleError, Retry,
           EvaluateReturns, EvaluateSaveFails, TraceReturns, Unwind
  <1>7. Logged(rid[t], t)[rid[t]].status = runs[rid[t]].status
    BY <1>1, LoggedRow
  <1>8. {"error", "invalid", "ok"} \subseteq Results /\ {"failed", "success"} \subseteq Settled
    BY DEF Results, Settled
  <1> QED
    BY <1>2, <1>3, <1>4, <1>5, <1>6, <1>7, <1>8

LEMMA ThreadMoves ==
  ASSUME IInv, NEW t \in Tasks, WorkerLogs(t) \/ OrphanEnds(t)
  PROVE  ShownMoves
  <1>1. TypeOK /\ LiveHasRow /\ rid[t] \in RunIds /\ OwnStep(t)
    BY ThreadOwn DEF IInv, TypeOK, OwnStep
  <1>2. runs'[rid[t]].status = runs[rid[t]].status
    BY <1>1, LoggedRow DEF WorkerLogs, OrphanEnds
  <1> QED
    BY <1>1, <1>2, OwnMoves, NothingMoves

LEMMA CancelMoves ==
  ASSUME IInv, NEW id \in RunIds, CancelRun(id)
  PROVE  ShownMoves
  <1> DEFINE t == registry[id]
  <1>1. TypeOK /\ t \in Tasks /\ rid[t] = id /\ pc[t] # "none" /\ Active(id)
    BY DEF IInv, TypeOK, RegistryIsSound, RegistryIsLaunched, CancelRun, Cancellable
  <1>2. /\ rid' = rid
        /\ \A u \in Tasks : pc'[u] # "none" <=> pc[u] # "none"
        /\ \A i \in RunIds \ {id} : runs'[i] = runs[i]
    BY <1>1 DEF CancelRun, TypeOK
  <1>3. runs'[id].status = "failed" /\ runs'[id].owner = runs[id].owner
    <2>1. runs[id] \in Row
      BY <1>1 DEF TypeOK
    <2> QED
      BY <1>1, <2>1 DEF CancelRun, CancelledRow, TypeOK, Row
  <1>4. runs[id].owner = t
    BY <1>1 DEF IInv, RowHasOwner, OwnIds, Present, Active, Ongoing
  <1>5. \A u \in Tasks \ {t} : pc[u] # "none" => rid[u] \in RunIds \ {id}
    BY <1>1 DEF IInv, OwnIds, TypeOK
  <1> HIDE DEF t
  <1>6. ShownMove({t}, {"pending", "running"}, "failed")
    BY <1>1, <1>2, <1>3, <1>4, <1>5 DEF ShownMove, Shown, Active, Ongoing
  <1> QED
    BY <1>1, <1>6 DEF ShownMoves

LEMMA DeleteMoves ==
  ASSUME IInv, NEW d \in Deleters, DeleteCommit(d)
  PROVE  ShownMoves
  <1> DEFINE S == {t \in Tasks : pc[t] # "none" /\ rid[t] \in doomed[d] /\ runs[rid[t]].owner = t}
  <1>1. TypeOK /\ UNCHANGED <<pc, rid>>
    BY DEF IInv, DeleteCommit, taskVars
  <1>2. runs' = [id \in RunIds |-> IF id \in doomed[d] THEN Absent ELSE runs[id]]
    BY DEF DeleteCommit
  <1>3. Absent.owner \notin Tasks
    BY RunAssumption DEF Absent
  <1>4. \A t \in S : Shown(t) \in {"success", "failed"}
    <2> SUFFICES ASSUME NEW t \in S PROVE Shown(t) \in {"success", "failed"}
      OBVIOUS
    <2>1. Present(rid[t])
      BY <1>1, <1>3 DEF IInv, RowHasOwner, TypeOK
    <2> QED
      BY <1>1, <2>1 DEF Shown, Present, IInv, DoomedIsIdle, Active, TypeOK, Row, Ongoing, Settled
  <1>5. \A t \in Tasks : Shown(t)' = IF t \in S THEN "deleted" ELSE Shown(t)
    <2> SUFFICES ASSUME NEW t \in Tasks, pc[t] # "none"
                 PROVE  Shown(t)' = IF t \in S THEN "deleted" ELSE Shown(t)
      BY <1>1 DEF Shown
    <2>1. rid[t] \in RunIds
      BY <1>1 DEF TypeOK
    <2> QED
      BY <1>1, <1>2, <1>3, <2>1 DEF Shown
  <1> QED
    BY <1>4, <1>5 DEF ShownMoves, ShownMove

LEMMA RestartMoves ==
  ASSUME IInv, Restart
  PROVE  ShownMoves
  <1> DEFINE S == {t \in Tasks : Shown(t) \in {"pending", "running"}}
  <1>1. TypeOK /\ UNCHANGED <<pc, rid>>
    BY DEF IInv, Restart, taskVars
  <1>2. \A row \in Row : /\ Reconciled(row).owner = row.owner
                         /\ Reconciled(row).status = IF row.status \in {"pending", "running"}
                                                     THEN "failed" ELSE row.status
    BY DEF Row, Reconciled, Ongoing
  <1>3. \A id \in RunIds : /\ runs'[id].owner = runs[id].owner
                           /\ runs'[id].status = IF runs[id].status \in {"pending", "running"}
                                                 THEN "failed" ELSE runs[id].status
    BY <1>1, <1>2 DEF Restart, TypeOK
  <1>4. \A t \in Tasks : pc[t] # "none" => rid[t] \in RunIds
    BY <1>1 DEF TypeOK
  <1>5. \A t \in Tasks : Shown(t)' = IF t \in S THEN "failed" ELSE Shown(t)
    BY <1>1, <1>3, <1>4 DEF Shown
  <1> QED
    BY <1>5 DEF ShownMoves, ShownMove

LEMMA QuietMoves ==
  ASSUME IInv,
         \/ \E d \in Deleters, ids \in SUBSET RunIds : DeleteCheck(d, ids)
         \/ Stop \/ Exit \/ Crash \/ UNCHANGED vars
  PROVE  ShownMoves
  <1>1. TypeOK /\ UNCHANGED <<runs, rid>> /\ \A t \in Tasks : pc'[t] # "none" <=> pc[t] # "none"
    BY DEF IInv, TypeOK, DeleteCheck, Stop, Exit, Crash, Ended, vars, taskVars, Live
  <1> QED
    BY <1>1, NothingMoves DEF Shown

LEMMA StepMoves ==
  ASSUME IInv, ~reused', [Next]_vars
  PROVE  ShownMoves
  <1>1. ASSUME NEW t \in Tasks, Launch(t) PROVE ShownMoves
    BY <1>1, LaunchMoves DEF ShownMoves
  <1> QED
    BY <1>1, ExecutorMoves, ThreadMoves, CancelMoves, DeleteMoves, RestartMoves, QuietMoves DEF Next

-----------------------------------------------------------------------------
LEMMA ShownNow == IInv => \A t \in Tasks : BoardStatus(t) = Shown(t)
  BY BoardShows DEF IInv

LEMMA ShownNext == IInv' => (\A t \in Tasks : BoardStatus(t) = Shown(t))'
  BY ShownNow, PTL

LEMMA BoardStep ==
  ASSUME RowsKeepOwners, [Next]_vars
  PROVE  [Board!Next]_(Board!vars)
  <1>1. CASE reused'
    BY <1>1 DEF Board!Next
  <1>2. CASE ~reused'
    <2> SUFFICES Board!Moves
      BY <1>2, ReusedStays DEF Board!Next
    <2>1. IInv /\ IInv' /\ ShownMoves
      BY <1>2, ReusedStays, NextInv, StepMoves DEF RowsKeepOwners
    <2> DEFINE board == [t \in Tasks |-> BoardStatus(t)]
    <2>2. board = [t \in Tasks |-> Shown(t)]
      BY <2>1, ShownNow
    <2>3. board' = [t \in Tasks |-> Shown(t)']
      BY <2>1, ShownNext
    <2> HIDE DEF board
    <2>4. ASSUME NEW S \in SUBSET Tasks, NEW From, NEW to, ShownMove(S, From, to)
          PROVE  /\ \A t \in S : board[t] \in From
                 /\ board' = [t \in Tasks |-> IF t \in S THEN to ELSE board[t]]
      BY <2>2, <2>3, <2>4 DEF ShownMove
    <2>5. ASSUME NEW S \in SUBSET Tasks, NEW From, NEW to, ShownMove(S, From, to)
          PROVE  Board!Move(S, From, to)
      BY <2>4, <2>5 DEF Board!Move, board
    <2>6. CASE \E t \in Tasks : \/ ShownMove({t}, {"none"}, "pending")
                               \/ ShownMove({t}, {"pending"}, "running")
                               \/ ShownMove({t}, {"running"}, "success")
      <3>1. PICK t \in Tasks : \/ Board!Move({t}, {"none"}, "pending")
                              \/ Board!Move({t}, {"pending"}, "running")
                              \/ Board!Move({t}, {"running"}, "success")
        BY <2>5, <2>6
      <3>2. Board!Submit(t) \/ Board!Begin(t) \/ Board!Succeed(t)
        BY <3>1 DEF Board!Submit, Board!Begin, Board!Succeed
      <3> QED
        BY <3>2 DEF Board!Moves
    <2>7. CASE \E S \in SUBSET Tasks : \/ ShownMove(S, {"pending", "running"}, "failed")
                                      \/ ShownMove(S, {"success", "failed"}, "deleted")
      <3>1. PICK S \in SUBSET Tasks : \/ Board!Move(S, {"pending", "running"}, "failed")
                                     \/ Board!Move(S, {"success", "failed"}, "deleted")
        BY <2>5, <2>7
      <3>2. Board!Fail(S) \/ Board!Remove(S)
        BY <3>1 DEF Board!Fail, Board!Remove
      <3> QED
        BY <3>2 DEF Board!Moves
    <2> QED
      BY <2>1, <2>6, <2>7 DEF ShownMoves
  <1> QED
    BY <1>1, <1>2

\* As long as no id is given out twice, users see every run move as RunBoard
\* allows: nothing skips a status, a settled run only disappears, and only a
\* settled one does.
THEOREM ImplementsBoardAlways == Spec => ImplementsBoard
  <1>1. Init => Board!Init
    BY DEF Init, Board!Init, BoardStatus
  <1>2. RowsKeepOwners /\ [Next]_vars => [Board!Next]_(Board!vars)
    BY BoardStep
  <1> QED
    BY <1>1, <1>2, Invariance, PTL DEF Spec, ImplementsBoard, Board!Spec

-----------------------------------------------------------------------------
(* The scheduler: next_fire and the entries of the map.                      *)

\* next_fire returns a slot of the schedule strictly after its argument.
LEMMA NextFireIsAhead ==
  ASSUME NEW s \in Schedules, NEW t \in Nat, HasNext(s, t)
  PROVE  NextFire(s, t) \in Nat /\ NextFire(s, t) > t
  <1>1. PICK x \in Slots[s] : IsNext(s, t, x)
    BY DEF HasNext
  <1>2. NextFire(s, t) \in Slots[s] /\ IsNext(s, t, NextFire(s, t))
    BY <1>1 DEF NextFire
  <1> QED
    BY <1>2, SchedulerAssumption DEF IsNext

\* The rows a tick has loaded carry a schedule.
RowsLoaded == \A id \in JobIds : snapshot[id] # NoJob => snapshot[id].sched \in Schedules

\* A job that did not raise has an entry that never moves back, lies after the
\* clock of the tick if it is new or due, and was kept otherwise.
LEMMA AdvancedEntry ==
  ASSUME CronTypeOK, RowsLoaded, NEW id \in Seen \ Raising
  PROVE  /\ Advanced(id) \in Nat
         /\ nextDue[id] = Never \/ id \in Due => Advanced(id) > tickNow
         /\ nextDue[id] # Never /\ id \notin Due => Advanced(id) = nextDue[id]
  <1>1. id \in JobIds /\ snapshot[id].sched \in Schedules /\ tickNow \in Nat
    BY DEF CronTypeOK, RowsLoaded, Seen
  <1>2. nextDue[id] \in Nat \cup {Never}
    BY <1>1 DEF CronTypeOK
  <1>3. CASE nextDue[id] = Never \/ id \in Due
    <2>1. HasNext(snapshot[id].sched, tickNow)
      BY <1>3 DEF Raising
    <2>2. Advanced(id) = NextFire(snapshot[id].sched, tickNow)
      BY <1>3 DEF Advanced
    <2> QED
      BY <2>1, <2>2, <1>1, <1>3, NextFireIsAhead
  <1>4. CASE nextDue[id] # Never /\ id \notin Due
    BY <1>2, <1>4 DEF Advanced
  <1> QED
    BY <1>3, <1>4

-----------------------------------------------------------------------------
(* The inductive invariant.                                                  *)

\* What has been fired was due by the clock of some tick, and the entry of
\* its job lies after it.
Ahead ==
  /\ tickNow <= now
  /\ \A f \in fires : /\ f.due <= tickNow
                      /\ nextDue[f.id] # Never => f.due < nextDue[f.id]

SchedInv == CronTypeOK /\ RowsLoaded /\ Ahead

\* The scheduler starts with an empty map and no history.
THEOREM SchedInit == CronInit => SchedInv
  <1> SUFFICES ASSUME CronInit PROVE SchedInv
    OBVIOUS
  <1>1. CronTypeOK
    BY DEF CronInit, CronTypeOK
  <1>2. RowsLoaded /\ Ahead
    BY DEF CronInit, RowsLoaded, Ahead
  <1> QED
    BY <1>1, <1>2 DEF SchedInv

\* A launch appends the due time of the entry of the job.
LEMMA FireOfDue ==
  ASSUME CronTypeOK, RowsLoaded, NEW id \in Due
  PROVE  /\ FireOf(id) \in Fire
         /\ FireOf(id).id = id /\ FireOf(id).due = nextDue[id]
         /\ nextDue[id] \in Nat /\ nextDue[id] <= tickNow
         /\ id \in Seen /\ id \in JobIds
  <1>1. id \in JobIds /\ id \in Seen /\ snapshot[id] # NoJob /\ nextDue[id] # Never
        /\ tickNow >= nextDue[id]
    BY DEF Due, Seen
  <1>2. snapshot[id] \in Job /\ nextDue[id] \in Nat /\ tickNow \in Nat
    BY <1>1 DEF CronTypeOK
  <1>3. snapshot[id].sched \in Schedules /\ snapshot[id].inherits \in BOOLEAN
    BY <1>1, <1>2 DEF RowsLoaded, Job
  <1> QED
    BY <1>1, <1>2, <1>3 DEF FireOf, Fire

\* Edits of the job table and of the allowlist.
LEMMA EditKeeps ==
  ASSUME SchedInv, NEW k, NEW id \in JobIds, NEW j \in Job \cup {NoJob}, Edit(k, id, j),
         lastJob' \in Nat
  PROVE  SchedInv'
  <1>1. CronTypeOK'
    BY DEF SchedInv, CronTypeOK, Edit, tickVars
  <1>2. (RowsLoaded /\ Ahead)'
    BY DEF SchedInv, RowsLoaded, Ahead, Edit, tickVars
  <1> QED
    BY <1>1, <1>2 DEF SchedInv

\* Every edit, tick and restart keeps the invariant.
THEOREM SchedStep == SchedInv /\ [CronNext]_cronVars => SchedInv'
  <1> SUFFICES ASSUME SchedInv, [CronNext]_cronVars PROVE SchedInv'
    OBVIOUS
  <1>0. CronTypeOK /\ RowsLoaded /\ Ahead
    BY DEF SchedInv
  <1>1. ASSUME NEW id \in JobIds, NEW s \in Schedules \cup {Manual}, CreateJob(id, s)
        PROVE  SchedInv'
    <2>1. [sched |-> s, inherits |-> Inherits(id)] \in Job /\ lastJob' \in Nat
      BY <1>0, <1>1, SchedulerAssumption DEF CronTypeOK, Job, Inherits, CreateJob
    <2> QED
      BY <1>1, <2>1, EditKeeps DEF CreateJob
  <1>2. ASSUME NEW id \in JobIds, NEW s \in Schedules \cup {Manual}, UpdateJob(id, s)
        PROVE  SchedInv'
    <2>1. [sched |-> s, inherits |-> Inherits(id)] \in Job /\ lastJob' \in Nat
      BY <1>0, <1>2 DEF CronTypeOK, Job, Inherits, UpdateJob
    <2> QED
      BY <1>2, <2>1, EditKeeps DEF UpdateJob
  <1>3. ASSUME NEW id \in JobIds, DeleteJob(id) PROVE SchedInv'
    <2>1. lastJob' \in Nat
      BY <1>0, <1>3 DEF CronTypeOK, DeleteJob
    <2> QED
      BY <1>3, <2>1, EditKeeps DEF DeleteJob
  <1>4. CASE ToggleAutomation
    <2>1. CronTypeOK'
      BY <1>0, <1>4 DEF CronTypeOK, ToggleAutomation, tickVars
    <2>2. (RowsLoaded /\ Ahead)'
      BY <1>0, <1>4 DEF RowsLoaded, Ahead, ToggleAutomation, tickVars
    <2> QED
      BY <2>1, <2>2 DEF SchedInv
  <1>5. CASE StartScheduler
    <2>1. CronTypeOK'
      BY <1>0, <1>5 DEF CronTypeOK, StartScheduler, userVars
    <2>2. (RowsLoaded /\ Ahead)'
      <3>1. \A f \in fires : f.id \in JobIds
        BY <1>0 DEF CronTypeOK, Fire
      <3> QED
        BY <3>1, <1>0, <1>5 DEF RowsLoaded, Ahead, StartScheduler, userVars
    <2> QED
      BY <2>1, <2>2 DEF SchedInv
  <1>6. CASE StopScheduler \/ LoadFails
    <2>1. CronTypeOK'
      BY <1>0, <1>6 DEF CronTypeOK, StopScheduler, LoadFails, userVars
    <2>2. (RowsLoaded /\ Ahead)'
      BY <1>0, <1>6 DEF RowsLoaded, Ahead, StopScheduler, LoadFails
    <2> QED
      BY <2>1, <2>2 DEF SchedInv
  <1>7. CASE TickBegins
    <2>1. CronTypeOK'
      BY <1>0, <1>7 DEF CronTypeOK, TickBegins, userVars
    <2>2. RowsLoaded'
      BY <1>0, <1>7 DEF RowsLoaded, TickBegins
    <2>3. Ahead'
      <3>1. \A f \in fires : f.due \in Nat
        BY <1>0 DEF CronTypeOK, Fire
      <3>2. tickNow \in Nat /\ now \in Nat /\ tickNow <= now /\ tickNow' = now /\ now' = now
            /\ fires' = fires /\ nextDue' = nextDue
        BY <1>0, <1>7 DEF CronTypeOK, Ahead, TickBegins
      <3>3. \A f \in fires : f.due <= now
        BY <3>1, <3>2, <1>0 DEF Ahead
      <3> QED
        BY <3>2, <3>3, <1>0 DEF Ahead
    <2> QED
      BY <2>1, <2>2, <2>3 DEF SchedInv
  <1>8. CASE TickLoads
    <2>1. CronTypeOK'
      BY <1>0, <1>8 DEF CronTypeOK, TickLoads, userVars
    <2>2. RowsLoaded'
      <3>1. \A id \in JobIds : Exists(id) /\ jobs[id].sched # Manual => jobs[id].sched \in Schedules
        BY <1>0 DEF CronTypeOK, Job, Exists
      <3> QED
        BY <3>1, <1>8 DEF RowsLoaded, TickLoads
    <2>3. Ahead'
      BY <1>0, <1>8 DEF Ahead, TickLoads
    <2> QED
      BY <2>1, <2>2, <2>3 DEF SchedInv
  <1>9. CASE TickFires
    <2>1. PICK fired \in SUBSET Due : fires' = fires \cup {FireOf(id) : id \in fired}
      BY <1>9 DEF TickFires
    <2>2. /\ nextDue' = [id \in JobIds |-> IF id \in Seen THEN Advanced(id) ELSE Never]
          /\ Raising = {} /\ tick' = "idle"
          /\ now' = now /\ tickNow' = tickNow /\ snapshot' = snapshot
          /\ jobs' = jobs /\ lastJob' = lastJob /\ edits' = edits /\ enabled' = enabled
      BY <1>9 DEF TickFires, userVars
    <2>3. \A id \in Seen : /\ Advanced(id) \in Nat
                           /\ nextDue[id] = Never \/ id \in Due => Advanced(id) > tickNow
                           /\ nextDue[id] # Never /\ id \notin Due => Advanced(id) = nextDue[id]
      BY <1>0, <2>2, AdvancedEntry
    <2>4. CronTypeOK'
      <3>1. fires' \subseteq Fire
        BY <1>0, <2>1, FireOfDue DEF CronTypeOK
      <3>2. nextDue' \in [JobIds -> Nat \cup {Never}]
        BY <2>2, <2>3
      <3> QED
        BY <1>0, <2>2, <3>1, <3>2 DEF CronTypeOK
    <2>5. RowsLoaded'
      BY <1>0, <2>2 DEF RowsLoaded
    <2>6. Ahead'
      <3>1. ASSUME NEW f \in fires'
            PROVE  f.due <= tickNow /\ (nextDue'[f.id] # Never => f.due < nextDue'[f.id])
        <4>1. CASE f \in fires
          <5>1. f.id \in JobIds /\ f.due \in Nat /\ tickNow \in Nat /\ f.due <= tickNow
                /\ (nextDue[f.id] # Never => f.due < nextDue[f.id])
            BY <4>1, <1>0 DEF CronTypeOK, Fire, Ahead
          <5>2. CASE f.id \in Seen
            <6>1. nextDue'[f.id] = Advanced(f.id)
              BY <2>2, <5>1, <5>2
            <6>2. CASE nextDue[f.id] = Never \/ f.id \in Due
              <7>1. Advanced(f.id) \in Nat /\ Advanced(f.id) > tickNow
                BY <2>3, <5>2, <6>2
              <7> QED
                BY <7>1, <6>1, <5>1
            <6>3. CASE nextDue[f.id] # Never /\ f.id \notin Due
              BY <2>3, <5>1, <5>2, <6>1, <6>3
            <6> QED
              BY <6>2, <6>3
          <5>3. CASE f.id \notin Seen
            BY <2>2, <5>1, <5>3
          <5> QED
            BY <5>2, <5>3
        <4>2. ASSUME NEW id \in fired, f = FireOf(id)
              PROVE  f.due <= tickNow /\ (nextDue'[f.id] # Never => f.due < nextDue'[f.id])
          <5>1. id \in Due
            BY <4>2
          <5>2. f.id = id /\ f.due = nextDue[id] /\ nextDue[id] \in Nat /\ nextDue[id] <= tickNow
                /\ id \in Seen /\ id \in JobIds
            BY <1>0, <4>2, <5>1, FireOfDue
          <5>3. nextDue'[id] = Advanced(id) /\ Advanced(id) \in Nat /\ Advanced(id) > tickNow
            BY <2>2, <2>3, <5>1, <5>2
          <5>4. tickNow \in Nat
            BY <1>0 DEF CronTypeOK
          <5> QED
            BY <5>2, <5>3, <5>4
        <4> QED
          BY <2>1, <4>1, <4>2
      <3> QED
        BY <3>1, <1>0, <2>2 DEF Ahead
    <2> QED
      BY <2>4, <2>5, <2>6 DEF SchedInv
  <1>10. CASE TickRaises
    <2>1. PICK done \in SUBSET (Seen \ Raising) :
            nextDue' = [id \in JobIds |-> IF id \in done THEN Advanced(id) ELSE nextDue[id]]
      BY <1>10 DEF TickRaises
    <2>2. /\ tick' = "idle" /\ fires' = fires
          /\ now' = now /\ tickNow' = tickNow /\ snapshot' = snapshot
          /\ jobs' = jobs /\ lastJob' = lastJob /\ edits' = edits /\ enabled' = enabled
      BY <1>10 DEF TickRaises, userVars
    <2>3. \A id \in done : /\ Advanced(id) \in Nat
                           /\ nextDue[id] = Never \/ id \in Due => Advanced(id) > tickNow
                           /\ nextDue[id] # Never /\ id \notin Due => Advanced(id) = nextDue[id]
      BY <1>0, <2>1, AdvancedEntry
    <2>4. CronTypeOK'
      <3>1. nextDue' \in [JobIds -> Nat \cup {Never}]
        BY <1>0, <2>1, <2>3 DEF CronTypeOK
      <3> QED
        BY <1>0, <2>2, <3>1 DEF CronTypeOK
    <2>5. RowsLoaded'
      BY <1>0, <2>2 DEF RowsLoaded
    <2>6. Ahead'
      <3>1. ASSUME NEW f \in fires
            PROVE  nextDue'[f.id] # Never => f.due < nextDue'[f.id]
        <4>1. f.id \in JobIds /\ f.due \in Nat /\ tickNow \in Nat /\ f.due <= tickNow
              /\ (nextDue[f.id] # Never => f.due < nextDue[f.id])
          BY <1>0 DEF CronTypeOK, Fire, Ahead
        <4>2. CASE f.id \in done
          <5>1. nextDue'[f.id] = Advanced(f.id)
            BY <2>1, <4>1, <4>2
          <5>2. CASE nextDue[f.id] = Never \/ f.id \in Due
            <6>1. Advanced(f.id) \in Nat /\ Advanced(f.id) > tickNow
              BY <2>3, <4>2, <5>2
            <6> QED
              BY <6>1, <5>1, <4>1
          <5>3. CASE nextDue[f.id] # Never /\ f.id \notin Due
            BY <2>3, <4>1, <4>2, <5>1, <5>3
          <5> QED
            BY <5>2, <5>3
        <4>3. CASE f.id \notin done
          BY <2>1, <4>1, <4>3
        <4> QED
          BY <4>2, <4>3
      <3> QED
        BY <3>1, <1>0, <2>2 DEF Ahead
    <2> QED
      BY <2>4, <2>5, <2>6 DEF SchedInv
  <1>11. CASE ClockAdvances
    <2>1. CronTypeOK'
      BY <1>0, <1>11 DEF CronTypeOK, ClockAdvances, userVars, tickVars
    <2>2. RowsLoaded'
      BY <1>0, <1>11 DEF RowsLoaded, ClockAdvances, tickVars
    <2>3. Ahead'
      BY <1>0, <1>11 DEF CronTypeOK, Ahead, ClockAdvances, tickVars
    <2> QED
      BY <2>1, <2>2, <2>3 DEF SchedInv
  <1>12. CASE UNCHANGED cronVars
    <2>1. CronTypeOK'
      BY <1>0, <1>12 DEF CronTypeOK, cronVars, userVars, tickVars
    <2>2. (RowsLoaded /\ Ahead)'
      BY <1>0, <1>12 DEF RowsLoaded, Ahead, cronVars, userVars, tickVars
    <2> QED
      BY <2>1, <2>2 DEF SchedInv
  <1> QED
    BY <1>1, <1>2, <1>3, <1>4, <1>5, <1>6, <1>7, <1>8, <1>9, <1>10, <1>11, <1>12
    DEF CronNext, TickStep

\* The invariant holds of every reachable state.
THEOREM SchedInvariance == CronSpec => []SchedInv
  <1>1. CronInit => SchedInv
    BY SchedInit
  <1>2. SchedInv /\ [CronNext]_cronVars => SchedInv'
    BY SchedStep
  <1> QED
    BY <1>1, <1>2, PTL DEF CronSpec

-----------------------------------------------------------------------------
(* What follows from it.                                                     *)

\* Every reachable state of the scheduler has its type (scheduler.py, jobs.py).
THEOREM SchedTypeCorrect == CronSpec => []CronTypeOK
  <1>1. SchedInv => CronTypeOK
    BY DEF SchedInv
  <1> QED
    BY <1>1, SchedInvariance, PTL

\* No due time of a job is fired twice, whatever edits, reused ids,
\* restarts, failing loads and raising ticks come between (scheduler.py,
\* _sync_and_collect).
THEOREM SlotFiresOnceAlways == CronSpec => SlotFiresOnce
  <1>1. ASSUME SchedInv, [CronNext]_cronVars
        PROVE  [\A f \in fires' \ fires : \A g \in fires : f.id = g.id => g.due < f.due]_cronVars
    <2>0. CronTypeOK /\ RowsLoaded /\ Ahead
      BY <1>1 DEF SchedInv
    <2>1. CASE TickFires
      <3>1. PICK fired \in SUBSET Due : fires' = fires \cup {FireOf(id) : id \in fired}
        BY <2>1 DEF TickFires
      <3>2. ASSUME NEW f \in fires' \ fires, NEW g \in fires, f.id = g.id
            PROVE  g.due < f.due
        <4>1. PICK id \in fired : f = FireOf(id)
          BY <3>1, <3>2
        <4>2. f.id = id /\ f.due = nextDue[id] /\ nextDue[id] \in Nat
          BY <2>0, <4>1, FireOfDue
        <4>3. nextDue[id] # Never
          BY <4>2, SchedulerAssumption
        <4> QED
          BY <2>0, <3>2, <4>2, <4>3 DEF Ahead
      <3> QED
        BY <3>2
    <2>2. CASE ~TickFires
      <3>1. fires' = fires
        BY <1>1, <2>2 DEF CronNext, TickStep, CreateJob, UpdateJob, DeleteJob, Edit, ToggleAutomation,
          StartScheduler, StopScheduler, LoadFails, TickBegins, TickLoads, TickRaises, ClockAdvances, cronVars, tickVars
      <3> QED
        BY <3>1
    <2> QED
      BY <2>1, <2>2
  <1> QED
    BY <1>1, SchedInvariance, PTL DEF CronSpec, SlotFiresOnce

-----------------------------------------------------------------------------
(* Launches and entries keep to the schedules.  The invariant says what the  *)
(* tick under way relies on: a row that has changed since it was loaded is   *)
(* marked as inheriting, and what was loaded fits its entry.                 *)

\* An entry that next_fire has computed from schedule s by the clock t.
Fits(x, s, t) == /\ s \in Schedules /\ x \in Slots[s]
                 /\ ~\E y \in Slots[s] : t < y /\ y < x

EntriesFit ==
  \A id \in JobIds : Exists(id) /\ ~jobs[id].inherits /\ nextDue[id] # Never =>
    Fits(nextDue[id], jobs[id].sched, tickNow)

SnapshotIsCurrent ==
  tick = "loaded" => \A id \in Seen :
    /\ Exists(id) /\ ~jobs[id].inherits => jobs[id] = snapshot[id]
    /\ ~snapshot[id].inherits /\ nextDue[id] # Never => nextDue[id] \in Slots[snapshot[id].sched]

KeptInv == SchedInv /\ EntriesFit /\ SnapshotIsCurrent /\ FiresAsScheduled

\* next_fire returns the first slot after its argument.
LEMMA NextFireFits ==
  ASSUME NEW s \in Schedules, NEW t \in Nat, HasNext(s, t)
  PROVE  Fits(NextFire(s, t), s, t)
  <1>1. NextFire(s, t) \in Slots[s] /\ IsNext(s, t, NextFire(s, t))
    BY DEF HasNext, NextFire
  <1>2. Slots[s] \subseteq Nat
    BY SchedulerAssumption
  <1> QED
    BY <1>1, <1>2 DEF IsNext, Fits

\* What a tick leaves for a row that has not changed since it was loaded.
LEMMA AdvancedFits ==
  ASSUME KeptInv, tick = "loaded", NEW id \in Seen \ Raising, Exists(id), ~jobs[id].inherits
  PROVE  Fits(Advanced(id), jobs[id].sched, tickNow)
  <1>1. /\ jobs[id] = snapshot[id] /\ id \in JobIds /\ snapshot[id].sched \in Schedules
        /\ tickNow \in Nat
    BY DEF KeptInv, SchedInv, SnapshotIsCurrent, CronTypeOK, RowsLoaded, Seen
  <1>2. CASE nextDue[id] = Never \/ id \in Due
    <2>1. HasNext(snapshot[id].sched, tickNow)
      BY <1>2 DEF Raising
    <2> QED
      BY <1>1, <1>2, <2>1, NextFireFits DEF Advanced
  <1>3. CASE nextDue[id] # Never /\ id \notin Due
    BY <1>1, <1>3 DEF KeptInv, EntriesFit, Advanced
  <1> QED
    BY <1>2, <1>3

\* The schedule set by an edit inherits wherever there is an entry for its id
\* or a tick that will make one.
LEMMA EditFits ==
  ASSUME KeptInv, NEW k, NEW id \in JobIds, NEW j \in Job \cup {NoJob}, Edit(k, id, j),
         j = NoJob \/ j.inherits = Inherits(id)
  PROVE  EntriesFit' /\ SnapshotIsCurrent' /\ FiresAsScheduled'
  <1>1. /\ jobs' = [jobs EXCEPT ![id] = j]
        /\ UNCHANGED <<tick, tickNow, snapshot, nextDue, fires>>
        /\ jobs \in [JobIds -> Job \cup {NoJob}]
    BY DEF Edit, tickVars, KeptInv, SchedInv, CronTypeOK
  <1>2. EntriesFit'
    BY <1>1 DEF KeptInv, EntriesFit, Exists, Inherits
  <1>3. SnapshotIsCurrent'
    BY <1>1 DEF KeptInv, SnapshotIsCurrent, Seen, Exists, Inherits
  <1>4. FiresAsScheduled'
    BY <1>1 DEF KeptInv, FiresAsScheduled
  <1> QED
    BY <1>2, <1>3, <1>4

LEMMA TickFits ==
  ASSUME KeptInv, TickFires \/ TickRaises
  PROVE  EntriesFit' /\ SnapshotIsCurrent' /\ FiresAsScheduled'
  <1>1. /\ tick = "loaded" /\ tick' = "idle"
        /\ UNCHANGED <<jobs, tickNow, snapshot>>
    BY DEF TickFires, TickRaises, userVars
  <1>2. CronTypeOK /\ RowsLoaded
    BY DEF KeptInv, SchedInv
  <1>3. SnapshotIsCurrent'
    BY <1>1 DEF SnapshotIsCurrent
  <1>4. ASSUME NEW id \in JobIds, Exists(id), ~jobs[id].inherits, nextDue'[id] # Never
        PROVE  nextDue'[id] = nextDue[id] \/ (id \in Seen \ Raising /\ nextDue'[id] = Advanced(id))
    BY <1>4 DEF TickFires, TickRaises
  <1>5. EntriesFit'
    <2> SUFFICES ASSUME NEW id \in JobIds, Exists(id), ~jobs[id].inherits, nextDue'[id] # Never
                 PROVE  Fits(nextDue'[id], jobs[id].sched, tickNow)
      BY <1>1 DEF EntriesFit, Exists
    <2>1. CASE nextDue'[id] = nextDue[id]
      BY <2>1 DEF KeptInv, EntriesFit
    <2>2. CASE id \in Seen \ Raising /\ nextDue'[id] = Advanced(id)
      BY <1>1, <2>2, AdvancedFits
    <2> QED
      BY <1>4, <2>1, <2>2
  <1>6. FiresAsScheduled'
    <2>1. CASE TickFires
      <3>1. PICK fired \in SUBSET Due : fires' = fires \cup {FireOf(id) : id \in fired}
        BY <2>1 DEF TickFires
      <3>2. ASSUME NEW id \in Due PROVE ~FireOf(id).inherits => FireOf(id).due \in Slots[FireOf(id).sched]
        BY <1>1 DEF KeptInv, SnapshotIsCurrent, Due, FireOf
      <3> QED
        BY <3>1, <3>2 DEF KeptInv, FiresAsScheduled
    <2>2. CASE TickRaises
      BY <2>2 DEF TickRaises, KeptInv, FiresAsScheduled
    <2> QED
      BY <2>1, <2>2
  <1> QED
    BY <1>3, <1>5, <1>6

LEMMA KeptStep ==
  ASSUME KeptInv, [CronNext]_cronVars
  PROVE  KeptInv'
  <1>1. SchedInv' /\ CronTypeOK /\ RowsLoaded /\ Ahead
    BY SchedStep DEF KeptInv, SchedInv
  <1> SUFFICES EntriesFit' /\ SnapshotIsCurrent' /\ FiresAsScheduled'
    BY <1>1 DEF KeptInv
  <1>2. ASSUME NEW id \in JobIds, NEW s \in Schedules \cup {Manual},
               CreateJob(id, s) \/ UpdateJob(id, s)
        PROVE  EntriesFit' /\ SnapshotIsCurrent' /\ FiresAsScheduled'
    <2> DEFINE j == [sched |-> s, inherits |-> Inherits(id)]
    <2>1. j \in Job /\ j.inherits = Inherits(id)
      BY DEF Job, Inherits
    <2>2. Edit("create", id, j) \/ Edit("patch", id, j)
      BY <1>2 DEF CreateJob, UpdateJob
    <2> HIDE DEF j
    <2> QED
      BY <2>1, <2>2, EditFits
  <1>3. ASSUME NEW id \in JobIds, DeleteJob(id)
        PROVE  EntriesFit' /\ SnapshotIsCurrent' /\ FiresAsScheduled'
    BY <1>3, EditFits DEF DeleteJob
  <1>4. CASE StartScheduler
    BY <1>4 DEF StartScheduler, userVars, KeptInv, EntriesFit, SnapshotIsCurrent, FiresAsScheduled
  <1>5. CASE StopScheduler \/ LoadFails \/ ToggleAutomation \/ ClockAdvances \/ UNCHANGED cronVars
    BY <1>5 DEF StopScheduler, LoadFails, ToggleAutomation, ClockAdvances, cronVars, userVars, tickVars, KeptInv,
                EntriesFit, SnapshotIsCurrent, FiresAsScheduled, Seen, Exists
  <1>6. CASE TickBegins
    <2>1. /\ UNCHANGED <<jobs, nextDue, fires>> /\ tick' = "loading" /\ tickNow' = now
          /\ tickNow <= now /\ now \in Nat /\ tickNow \in Nat
      BY <1>1, <1>6 DEF TickBegins, userVars, Ahead, CronTypeOK
    <2>2. ASSUME NEW x, NEW s, Fits(x, s, tickNow) PROVE Fits(x, s, now)
      <3>1. s \in Schedules /\ Slots[s] \subseteq Nat
        BY <2>2, SchedulerAssumption DEF Fits
      <3> QED
        BY <2>1, <2>2, <3>1 DEF Fits
    <2>3. EntriesFit'
      BY <2>1, <2>2 DEF KeptInv, EntriesFit, Exists
    <2> QED
      BY <2>1, <2>3 DEF KeptInv, SnapshotIsCurrent, FiresAsScheduled
  <1>7. CASE TickLoads
    <2>1. /\ UNCHANGED <<jobs, nextDue, fires, tickNow>>
          /\ snapshot' = [id \in JobIds |-> IF Exists(id) /\ jobs[id].sched # Manual
                                            THEN jobs[id] ELSE NoJob]
      BY <1>7 DEF TickLoads, userVars
    <2>2. SnapshotIsCurrent'
      <3>1. \A id \in Seen' : id \in JobIds /\ Exists(id) /\ snapshot'[id] = jobs[id]
        BY <2>1 DEF Seen
      <3> QED
        BY <2>1, <3>1 DEF KeptInv, SnapshotIsCurrent, EntriesFit, Fits, Exists
    <2> QED
      BY <2>1, <2>2 DEF KeptInv, EntriesFit, Exists, FiresAsScheduled
  <1> QED
    BY <1>2, <1>3, <1>4, <1>5, <1>6, <1>7, TickFits DEF CronNext, TickStep

\* Whatever edits, reused ids, restarts and raising ticks come between, a job
\* is fired only for times of its schedule and none of them is passed over
\* (scheduler.py, _sync_and_collect).
THEOREM SchedulesAreKeptAlways == CronSpec => []SchedulesAreKept
  <1>1. CronInit => KeptInv
    <2>1. CronInit => EntriesFit /\ SnapshotIsCurrent /\ FiresAsScheduled
      BY DEF CronInit, EntriesFit, Exists, SnapshotIsCurrent, FiresAsScheduled
    <2> QED
      BY <2>1, SchedInit DEF KeptInv
  <1>2. KeptInv /\ [CronNext]_cronVars => KeptInv'
    BY KeptStep
  <1>3. KeptInv => SchedulesAreKept
    BY DEF KeptInv, SchedInv, EntriesFit, Fits, SchedulesAreKept, EntryIsNext
  <1> QED
    BY <1>1, <1>2, <1>3, PTL DEF CronSpec

-----------------------------------------------------------------------------
(* The desktop shell.                                                        *)

\* While no window was closed too early, the only backend that is up is the one
\* held, and a boot that is about to start one is alone and finds none held.
OnlyHeldIsUp == hasty \/ \A b \in Boots : proc[b] \in Up => held = b

PortAlone ==
  hasty \/ \A b \in Boots : boot[b] = "port" =>
    /\ held = 0
    /\ app = "running" => window # "none"
    /\ \A c \in Boots : boot[c] = "port" => c = b

\* Only a shell that shuts down has told a backend to stop.
StoppingIsMeant == \A b \in Boots : proc[b] = "stopping" => shuttingDown

OwnInv ==
  /\ ShellTypeOK /\ OnlyHeldIsUp /\ PortAlone /\ StoppingIsMeant
  /\ QuitStopsBackend /\ NoAlarmOnQuit

LEMMA OneIsHeld == ShellTypeOK /\ OnlyHeldIsUp => OneBackend
  <1> SUFFICES ASSUME ShellTypeOK, OnlyHeldIsUp, ~hasty
               PROVE  Cardinality({b \in Boots : proc[b] \in Up}) <= 1
    BY DEF OneBackend
  <1>1. {b \in Boots : proc[b] \in Up} \subseteq {held}
    BY DEF OnlyHeldIsUp
  <1>2. IsFiniteSet({held}) /\ Cardinality({held}) = 1
    BY FS_Singleton
  <1> QED
    BY <1>1, <1>2, FS_Subset

LEMMA TypeInit == ShellInit => ShellTypeOK
  <1> SUFFICES ASSUME ShellInit PROVE ShellTypeOK
    OBVIOUS
  <1>1. 0 \in 0..MaxBoots
    BY ShellAssumption
  <1>2. {darwin, alarm, failed, hasty} \subseteq BOOLEAN /\ shuttingDown \in BOOLEAN
    BY Zenon DEF ShellInit
  <1> QED
    BY <1>1, <1>2 DEF ShellInit, ShellTypeOK

LEMMA OwnInit == ShellInit => OwnInv
  BY TypeInit DEF ShellInit, OwnInv, OnlyHeldIsUp, PortAlone, StoppingIsMeant,
     QuitStopsBackend, NoAlarmOnQuit, Up

\* What stopBackend does to the processes: the one held is told to stop.
LEMMA StopBackendStops ==
  ASSUME ShellTypeOK, StopBackend
  PROVE  /\ held' = 0 /\ held' \in 0..MaxBoots /\ shuttingDown' \in BOOLEAN
         /\ proc' \in [Boots -> {"none", "starting", "healthy", "stopping", "dead"}]
         /\ shuttingDown => shuttingDown'
         /\ \A b \in Boots : proc'[b] = proc[b] \/ (proc'[b] = "stopping" /\ shuttingDown')
         /\ \A b \in Boots : proc'[b] \in Up => proc[b] \in Up /\ held # b
  <1>1. MaxBoots \in Nat /\ 0 \notin Boots /\ 0 \in 0..MaxBoots
    BY ShellAssumption DEF Boots
  <1>2. CASE held = 0
    BY <1>1, <1>2 DEF ShellTypeOK, StopBackend, Boots, Up
  <1>3. CASE held # 0
    <2>1. /\ shuttingDown' /\ shuttingDown' \in BOOLEAN /\ held' = 0 /\ held \in Boots
          /\ \A b \in Boots : proc'[b] = IF b = held /\ proc[b] \in Up THEN "stopping" ELSE proc[b]
          /\ proc' \in [Boots -> {"none", "starting", "healthy", "stopping", "dead"}]
      BY <1>1, <1>3 DEF ShellTypeOK, StopBackend, Boots
    <2> QED
      BY <1>1, <2>1 DEF Up
  <1> QED
    BY <1>2, <1>3

\* A step that stops the backend and leaves the boots at most further.
LEMMA StopKeeps ==
  ASSUME OwnInv, StopBackend, hasty => hasty', hasty' \in BOOLEAN,
         app' \in {"quitting", "exited"}, ShellTypeOK',
         \A b \in Boots : boot'[b] = "port" => boot[b] = "port",
         alarm' => failed'
  PROVE  OwnInv'
  <1>1. OnlyHeldIsUp'
    BY StopBackendStops DEF OwnInv, OnlyHeldIsUp
  <1>2. PortAlone'
    BY StopBackendStops DEF OwnInv, PortAlone
  <1>3. StoppingIsMeant'
    BY StopBackendStops DEF OwnInv, StoppingIsMeant
  <1>4. QuitStopsBackend'
    BY StopBackendStops DEF OwnInv, OnlyHeldIsUp, QuitStopsBackend
  <1> QED
    BY <1>1, <1>2, <1>3, <1>4 DEF OwnInv, NoAlarmOnQuit

LEMMA OwnStepKeeps == OwnInv /\ [ShellNext]_shellVars => OwnInv'
  <1> SUFFICES ASSUME OwnInv, [ShellNext]_shellVars PROVE OwnInv'
    OBVIOUS
  <1>0. ShellTypeOK /\ Boots \subseteq 1..MaxBoots /\ 0 \notin Boots /\ MaxBoots \in Nat
    BY ShellAssumption DEF OwnInv, Boots
  <1>1. ASSUME NEW b \in Boots, StartBoot(b) PROVE OwnInv'
    <2>1. /\ boot' \in [Boots -> {"none", "port", "health", "done"}]
          /\ \A c \in Boots : c # b => boot'[c] = boot[c]
          /\ boot'[b] = "port" => held = 0 /\ window' = "splash"
          /\ boot'[b] \in {"port", "done"}
          /\ window' \in {"splash", "broken", "app"}
          /\ UNCHANGED <<darwin, proc, held, port, shuttingDown, app, alarm, failed, hasty>>
          /\ app = "running" /\ window = "none"
      BY <1>0, <1>1 DEF StartBoot, StartsBackend, ShellTypeOK, Loaded
    <2>2. ShellTypeOK'
      BY <1>0, <2>1 DEF ShellTypeOK
    <2>3. PortAlone'
      BY <1>0, <2>1 DEF OwnInv, PortAlone, ShellTypeOK
    <2> QED
      BY <2>1, <2>2, <2>3 DEF OwnInv, OnlyHeldIsUp, StoppingIsMeant, QuitStopsBackend, NoAlarmOnQuit
  <1>2. ASSUME NEW b \in Boots, PickFreePort(b) PROVE OwnInv'
    <2>1. ShellTypeOK'
      BY <1>0, <1>2 DEF PickFreePort, ShellTypeOK
    <2>2. OnlyHeldIsUp' /\ PortAlone'
      BY <1>0, <1>2 DEF PickFreePort, OwnInv, OnlyHeldIsUp, PortAlone, ShellTypeOK, Up
    <2>3. StoppingIsMeant' /\ QuitStopsBackend' /\ NoAlarmOnQuit'
      BY <1>0, <1>2 DEF PickFreePort, OwnInv, StoppingIsMeant, QuitStopsBackend, NoAlarmOnQuit, ShellTypeOK
    <2> QED
      BY <2>1, <2>2, <2>3 DEF OwnInv
  <1>3. ASSUME NEW b \in Boots, Healthy(b) PROVE OwnInv'
    BY <1>0, <1>3 DEF Healthy, Reloads, Loaded, OwnInv, ShellTypeOK, OnlyHeldIsUp, PortAlone,
       StoppingIsMeant, QuitStopsBackend, NoAlarmOnQuit
  <1>4. ASSUME NEW b \in Boots, HealthTimeout(b) PROVE OwnInv'
    <2>1. CASE window = "none"
      BY <1>0, <1>4, <2>1 DEF HealthTimeout, OwnInv, ShellTypeOK, OnlyHeldIsUp, PortAlone,
         StoppingIsMeant, QuitStopsBackend, NoAlarmOnQuit
    <2>2. CASE window # "none"
      <3>1. StopBackend /\ ShellTypeOK'
        BY <1>0, <1>4, <2>2, StopBackendStops DEF HealthTimeout, Quit, ShellTypeOK
      <3> QED
        BY <1>0, <1>4, <2>2, <3>1, StopKeeps DEF HealthTimeout, Quit, ShellTypeOK
    <2> QED
      BY <2>1, <2>2
  <1>5. CASE CloseWindow
    <2>1. hasty => hasty'
      BY <1>5 DEF CloseWindow
    <2>2. CASE darwin
      BY <1>0, <1>5, <2>2 DEF CloseWindow, OwnInv, ShellTypeOK, OnlyHeldIsUp, PortAlone,
         StoppingIsMeant, QuitStopsBackend, NoAlarmOnQuit
    <2>3. CASE ~darwin
      <3>1. StopBackend /\ ShellTypeOK'
        BY <1>0, <1>5, <2>3, StopBackendStops DEF CloseWindow, Quit, ShellTypeOK
      <3> QED
        BY <1>0, <1>5, <2>1, <2>3, <3>1, StopKeeps DEF CloseWindow, Quit, ShellTypeOK, OwnInv, NoAlarmOnQuit
    <2> QED
      BY <2>2, <2>3
  <1>6. CASE UserQuits \/ ShellExits
    <2>1. StopBackend /\ ShellTypeOK'
      BY <1>0, <1>6, StopBackendStops DEF UserQuits, ShellExits, Quit, ShellTypeOK
    <2> QED
      BY <1>0, <1>6, <2>1, StopKeeps DEF UserQuits, ShellExits, Quit, ShellTypeOK, OwnInv, NoAlarmOnQuit
  <1>7. ASSUME NEW b \in Boots, BecomesHealthy(b) PROVE OwnInv'
    BY <1>0, <1>7 DEF BecomesHealthy, OwnInv, ShellTypeOK, OnlyHeldIsUp, PortAlone,
       StoppingIsMeant, QuitStopsBackend, NoAlarmOnQuit, Up
  <1>8. ASSUME NEW b \in Boots, Ends(b) PROVE OwnInv'
    <2>1. failed => failed'
      BY <1>8 DEF Ends
    <2>2. CASE shuttingDown
      BY <1>0, <1>8, <2>1, <2>2 DEF Ends, OwnInv, ShellTypeOK, OnlyHeldIsUp, PortAlone,
         StoppingIsMeant, QuitStopsBackend, NoAlarmOnQuit, Up
    <2>3. CASE ~shuttingDown
      <3>1. proc[b] \in Up
        BY <1>8, <2>3 DEF Ends, OwnInv, StoppingIsMeant
      <3>2. failed' /\ ShellTypeOK'
        <4>1. failed' = TRUE /\ alarm' = TRUE /\ shuttingDown' = (held # 0)
          BY <1>8, <2>3, <3>1, Zenon DEF Ends
        <4>2. {darwin', alarm', failed', hasty'} \subseteq BOOLEAN /\ shuttingDown' \in BOOLEAN
          BY <1>0, <1>8, <4>1 DEF Ends, ShellTypeOK
        <4> QED
          BY <1>0, <1>8, <2>3, <4>1, <4>2 DEF Ends, ShellTypeOK
      <3>3. OnlyHeldIsUp' /\ PortAlone' /\ QuitStopsBackend'
        BY <1>0, <1>8, <2>3 DEF Ends, OwnInv, OnlyHeldIsUp, PortAlone, QuitStopsBackend, Up
      <3>4. StoppingIsMeant'
        BY <1>0, <1>8, <2>3 DEF Ends, OwnInv, StoppingIsMeant
      <3> QED
        BY <3>2, <3>3, <3>4 DEF OwnInv, NoAlarmOnQuit
    <2> QED
      BY <2>2, <2>3
  <1>9. ASSUME NEW b \in Boots, StopsAlone(b) PROVE OwnInv'
    BY <1>0, <1>9 DEF StopsAlone, OwnInv, ShellTypeOK, OnlyHeldIsUp, PortAlone,
       StoppingIsMeant, QuitStopsBackend, NoAlarmOnQuit, Up
  <1>10. CASE UNCHANGED shellVars
    BY <1>10 DEF shellVars, OwnInv, ShellTypeOK, OnlyHeldIsUp, PortAlone,
       StoppingIsMeant, QuitStopsBackend, NoAlarmOnQuit
  <1> QED
    BY <1>1, <1>2, <1>3, <1>4, <1>5, <1>6, <1>7, <1>8, <1>9, <1>10 DEF ShellNext

\* boot(), stopBackend and the handlers of electron/main.js: the shell runs one
\* backend at most, stops it however it quits, and shows an error box only after
\* a failure, unless a window was closed while its boot was picking a port.
THEOREM BackendIsOwnedAlways == ShellSpec => []BackendIsOwned
  <1>1. OwnInv => BackendIsOwned
    BY OneIsHeld DEF OwnInv, BackendIsOwned
  <1> QED
    BY <1>1, OwnInit, OwnStepKeeps, PTL DEF ShellSpec

-----------------------------------------------------------------------------
(* The window.                                                               *)

\* As long as nothing has failed, a backend that has not answered yet is waited
\* for, and a window without the application waits for a boot to load it.
WaitInv ==
  /\ ShellTypeOK
  /\ held # 0 => port # 0
  /\ \A b \in Boots : boot[b] = "health" => port # 0
  /\ app = "running" /\ ~failed =>
       /\ ~shuttingDown
       /\ \A b \in Boots : /\ proc[b] \in {"none", "starting", "healthy"}
                           /\ proc[b] = "starting" => boot[b] = "health"
       /\ port # 0 => proc[port] # "none"
       /\ window \in {"splash", "broken"} => \E b \in Boots : boot[b] \in {"port", "health"}

LEMMA WaitStep == WaitInv /\ ShellTypeOK' /\ [ShellNext]_shellVars => WaitInv'
  <1> SUFFICES ASSUME WaitInv, ShellTypeOK', [ShellNext]_shellVars PROVE WaitInv'
    OBVIOUS
  <1>0. /\ ShellTypeOK /\ 0 \notin Boots /\ MaxBoots \in Nat
        /\ port # 0 => port \in Boots
    BY ShellAssumption DEF WaitInv, ShellTypeOK, Boots
  <1>1. ASSUME NEW b \in Boots, StartBoot(b) PROVE WaitInv'
    <2>1. /\ \A c \in Boots : c # b => boot'[c] = boot[c]
          /\ boot[b] = "none" /\ boot'[b] \in {"port", "done"}
          /\ UNCHANGED <<darwin, proc, held, port, shuttingDown, app, alarm, failed, hasty>>
          /\ boot'[b] # "port" => held # 0 /\ window' = Loaded(port)
      BY <1>0, <1>1 DEF StartBoot, StartsBackend, ShellTypeOK
    <2>2. ASSUME app = "running", ~failed, window' \in {"splash", "broken"}
          PROVE  \E c \in Boots : boot'[c] \in {"port", "health"}
      <3>1. CASE boot'[b] = "port"
        BY <3>1
      <3>2. CASE boot'[b] # "port"
        BY <1>0, <2>1, <2>2, <3>2 DEF WaitInv, Loaded
      <3> QED
        BY <3>1, <3>2
    <2> QED
      BY <1>0, <2>1, <2>2 DEF WaitInv
  <1>2. ASSUME NEW b \in Boots, PickFreePort(b) PROVE WaitInv'
    BY <1>0, <1>2 DEF PickFreePort, WaitInv, ShellTypeOK
  <1>3. ASSUME NEW b \in Boots, Healthy(b) PROVE WaitInv'
    <2>1. /\ boot[b] = "health" /\ proc[b] = "healthy" /\ boot'[b] = "done"
          /\ \A c \in Boots : c # b => boot'[c] = boot[c]
          /\ window' = IF window = "none" THEN "none" ELSE Loaded(port)
          /\ UNCHANGED <<darwin, proc, held, port, shuttingDown, app, alarm, failed, hasty>>
      BY <1>0, <1>3 DEF Healthy, Reloads, ShellTypeOK
    <2>2. ASSUME app = "running", ~failed, window' \in {"splash", "broken"}
          PROVE  boot'[port] = "health" /\ port \in Boots
      BY <1>0, <2>1, <2>2 DEF WaitInv, Loaded
    <2> QED
      BY <1>0, <2>1, <2>2 DEF WaitInv
  <1>4. ASSUME NEW b \in Boots, HealthTimeout(b) PROVE WaitInv'
    BY <1>0, <1>4 DEF HealthTimeout, Quit, StopBackend, WaitInv, ShellTypeOK
  <1>5. CASE CloseWindow
    BY <1>0, <1>5 DEF CloseWindow, Quit, StopBackend, WaitInv, ShellTypeOK
  <1>6. CASE UserQuits \/ ShellExits
    BY <1>0, <1>6 DEF UserQuits, ShellExits, Quit, StopBackend, WaitInv, ShellTypeOK
  <1>7. ASSUME NEW b \in Boots, BecomesHealthy(b) PROVE WaitInv'
    BY <1>0, <1>7 DEF BecomesHealthy, WaitInv, ShellTypeOK
  <1>8. ASSUME NEW b \in Boots, Ends(b) PROVE WaitInv'
    <2>1. ~(app' = "running" /\ ~failed')
      BY <1>0, <1>8 DEF Ends, WaitInv, ShellTypeOK, Up
    <2> QED
      BY <1>0, <1>8, <2>1 DEF Ends, WaitInv
  <1>9. ASSUME NEW b \in Boots, StopsAlone(b) PROVE WaitInv'
    BY <1>0, <1>9 DEF StopsAlone, WaitInv
  <1>10. CASE UNCHANGED shellVars
    BY <1>10 DEF shellVars, WaitInv
  <1> QED
    BY <1>1, <1>2, <1>3, <1>4, <1>5, <1>6, <1>7, <1>8, <1>9, <1>10 DEF ShellNext

\* boot(): when no boot is under way any more and nothing has failed, an open
\* window shows the application, whichever call opened it and whichever loaded
\* it.
THEOREM ReadyIsShownAlways == ShellSpec => []ReadyIsShown
  <1>1. ShellInit => WaitInv
    BY TypeInit DEF ShellInit, WaitInv
  <1>2. WaitInv => ReadyIsShown
    BY DEF WaitInv, ShellTypeOK, ReadyIsShown
  <1>3. OwnInv => ShellTypeOK
    BY DEF OwnInv
  <1> QED
    BY <1>1, <1>2, <1>3, OwnInit, OwnStepKeeps, WaitStep, PTL DEF ShellSpec
=============================================================================
