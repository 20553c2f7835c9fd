------------------------------ MODULE RunViews ------------------------------
(* The tables of runs and jobs as the routers answer from them (list_runs,   *)
(* bulk_delete_runs, get_run_report, get_stats of routers/runs.py,           *)
(* list_schedules of routers/jobs.py).  An answer is put together from       *)
(* several SELECTs, each of which sees the tables as they are then, while    *)
(* runs are launched, end and are deleted.  One such request is open at a    *)
(* time.  An id is the largest in use plus one, so it comes back when the    *)
(* last row is deleted; "born" tells the rows of an id apart (history).      *)
(*                                                                           *)
(* A definition directly above another one with the same parameters is a     *)
(* mutant of it (PROJECT.json, mutants).                                     *)
EXTENDS Integers, Sequences, SequencesExt, FiniteSets, FiniteSetsExt

CONSTANTS
  Users, Admin,      \* Admin is one of them
  Types,             \* of jobs; those of Reported leave a PDF
  Reported,
  Outcomes,          \* [status, retried, seconds] a run may end with
  Queries,           \* [user, status, type, since, until, offset, limit] of a
                     \* listing, "any" or 0 for no condition
  MaxJobs, MaxRuns,  \* bounds on the rows ever made
  MaxMoves           \* bound on the changes while a request is open

ViewsAssumption ==
  /\ Admin \in Users /\ Reported \subseteq Types
  /\ MaxJobs \in Nat /\ MaxRuns \in Nat /\ MaxMoves \in Nat
  /\ \A q \in Queries : q.user \in Users /\ q.offset \in Nat /\ q.limit \in Nat
  /\ \A o \in Outcomes : o.status \in {"success", "failed"} /\ o.retried \in BOOLEAN /\ o.seconds \in Nat

VARIABLES
  jobs,     \* id -> [type]
  runs,     \* id -> [job, owner, status, retried, seconds, born]
  reports,  \* id -> born of the run its file was made for
  made,     \* rows ever made of each table
  asked,    \* the request that is open
  answer    \* the last one given

viewVars == <<jobs, runs, reports, made, asked, answer>>

NoRequest == [kind |-> "none"]
NoAnswer == [kind |-> "none"]

Init ==
  /\ jobs = <<>> /\ runs = <<>> /\ reports = <<>>
  /\ made = [jobs |-> 0, runs |-> 0]
  /\ asked = NoRequest /\ answer = NoAnswer

-----------------------------------------------------------------------------
(* The rows.  The request that is open counts the changes (history), and the *)
(* answer before it is done with.                                            *)

NextId(rows) == 1 + Max({0} \cup DOMAIN rows)
With(rows, id, row) == [i \in DOMAIN rows \cup {id} |-> IF i = id THEN row ELSE rows[i]]
Without(rows, ids) == [i \in DOMAIN rows \ ids |-> rows[i]]

Noted ==
  /\ answer' = NoAnswer
  /\ \/ asked = NoRequest /\ UNCHANGED asked
     \/ /\ asked # NoRequest /\ asked.moved < MaxMoves
        /\ asked' = [asked EXCEPT !.moved = @ + 1]

CreateJob ==
  /\ made.jobs < MaxJobs
  /\ \E type \in Types :
       jobs' = With(jobs, NextId(jobs), [type |-> type])
  /\ made' = [made EXCEPT !.jobs = @ + 1]
  /\ Noted /\ UNCHANGED <<runs, reports>>

\* The runs of a deleted job stay.
DeleteJob(id) ==
  /\ jobs' = Without(jobs, {id})
  /\ Noted /\ UNCHANGED <<runs, reports, made>>

Launch(id, user) ==
  /\ made.runs < MaxRuns
  /\ runs' = With(runs, NextId(runs),
       [job |-> id, owner |-> user, status |-> "active", retried |-> FALSE, seconds |-> 0,
        born |-> made.runs + 1])
  /\ made' = [made EXCEPT !.runs = @ + 1]
  /\ Noted /\ UNCHANGED <<jobs, reports>>

\* The PDF is written within the run, and fails softly.
Finish(id) ==
  /\ runs[id].status = "active"
  /\ \E o \in Outcomes :
       runs' = [runs EXCEPT ![id].status = o.status, ![id].retried = o.retried, ![id].seconds = o.seconds]
  /\ \/ UNCHANGED reports
     \/ /\ runs[id].job \in DOMAIN jobs /\ jobs[runs[id].job].type \in Reported
        /\ reports' = With(reports, id, runs[id].born)
  /\ Noted /\ UNCHANGED <<jobs, made>>

\* delete_run of another session.  Nothing removes the file.
DeleteRun(id) ==
  /\ runs[id].status # "active"
  /\ runs' = Without(runs, {id})
  /\ Noted /\ UNCHANGED <<jobs, reports, made>>

-----------------------------------------------------------------------------
(* The requests.                                                             *)

Open(request) ==
  /\ asked = NoRequest
  /\ asked' = request
  /\ answer' = NoAnswer
  /\ UNCHANGED <<jobs, runs, reports, made>>

Reads(request) == asked' = request /\ UNCHANGED <<jobs, runs, reports, made, answer>>

Answers(request) ==
  /\ answer' = request
  /\ asked' = NoRequest
  /\ UNCHANGED <<jobs, runs, reports, made>>

At(kind, stage) == asked # NoRequest /\ asked.kind = kind /\ asked.stage = stage

\* ORDER BY: the members of S, each behind those that come before it.
Ordered(S, before) ==
  [n \in 1..Cardinality(S) |-> CHOOSE i \in S : Cardinality({k \in S : <<k, i>> \in before}) = n - 1]

IsOwn(user, id) == user = Admin \/ runs[id].owner = user

JobType(job) == IF job \in DOMAIN jobs THEN jobs[job].type ELSE "unknown"
TypeOf(id) == JobType(runs[id].job)

\* list_runs: the WHERE of both its SELECTs.
Matching(q) ==
  {id \in DOMAIN runs :
     /\ IsOwn(q.user, id)
     /\ q.status \in {"any", runs[id].status}
     /\ q.type \in {"any", TypeOf(id)}
     /\ runs[id].born >= q.since
     /\ q.until = 0 \/ runs[id].born < q.until + 1}

PageFromOne(rows, offset, limit) == SubSeq(rows, Max({1, offset}), Min({offset + limit, Len(rows)}))
\* OFFSET and LIMIT.
Page(rows, offset, limit) == SubSeq(rows, offset + 1, Min({offset + limit, Len(rows)}))

CountRows ==
  \E q \in Queries :
    Open([kind |-> "list", stage |-> "page", moved |-> 0, query |-> q,
          total |-> Cardinality(Matching(q)), page |-> <<>>])

Newer == {p \in (DOMAIN runs) \X (DOMAIN runs) : runs[p[1]].born > runs[p[2]].born}

\* Newest first.  Without rows the answer is given at once.
PageRows ==
  LET ids == Page(Ordered(Matching(asked.query), Newer), asked.query.offset, asked.query.limit)
      page == [i \in DOMAIN ids |-> [born |-> runs[ids[i]].born, owner |-> runs[ids[i]].owner,
                 status |-> runs[ids[i]].status, job |-> runs[ids[i]].job, type |-> "unknown"]]
  IN /\ At("list", "page")
     /\ IF page = <<>> THEN Answers(asked) ELSE Reads([asked EXCEPT !.stage = "jobs", !.page = page])

\* The jobs of the page come from a SELECT of their own.
NameJobs ==
  /\ At("list", "jobs")
  /\ Answers([asked EXCEPT !.page =
       [i \in DOMAIN asked.page |-> [asked.page[i] EXCEPT !.type = JobType(asked.page[i].job)]]])

\* bulk_delete_runs: what is chosen is deleted by id, whatever the row is by then.
Deletable(user, ids) == {id \in ids \cap DOMAIN runs : runs[id].status # "active" /\ IsOwn(user, id)}

ChooseRows ==
  \E u \in Users, ids \in {DOMAIN runs} \cup {{id} : id \in DOMAIN runs} :
    Open([kind |-> "delete", stage |-> "delete", moved |-> 0, user |-> u,
          chosen |-> [id \in Deletable(u, ids) |-> runs[id].born]])

DeleteChosen ==
  LET chosen == DOMAIN asked.chosen IN
  /\ At("delete", "delete")
  /\ runs' = Without(runs, chosen)
  /\ answer' = [kind |-> "delete", user |-> asked.user, deleted |-> Cardinality(chosen),
                gone |-> {[row |-> runs[id], seen |-> asked.chosen[id] = runs[id].born] : id \in chosen \cap DOMAIN runs}]
  /\ asked' = NoRequest
  /\ UNCHANGED <<jobs, reports, made>>

\* get_run_report: the file with the number of the run.
ServeReport ==
  /\ asked = NoRequest
  /\ \E id \in DOMAIN reports :
       answer' = [kind |-> "report", of |-> reports[id],
                  run |-> IF id \in DOMAIN runs THEN runs[id].born ELSE 0]
  /\ UNCHANGED <<jobs, runs, reports, made, asked>>

\* list_schedules: the jobs, how many runs each has, the run with its largest id.
RunsOf(job) == {id \in DOMAIN runs : runs[id].job = job}

ReadJobs ==
  /\ DOMAIN jobs # {}
  /\ Open([kind |-> "schedules", stage |-> "counts", moved |-> 0, jobs |-> DOMAIN jobs,
           counts |-> <<>>, last |-> <<>>, latest |-> <<>>])
CountRuns ==
  /\ At("schedules", "counts")
  /\ Reads([asked EXCEPT !.stage = "last", !.counts = [j \in asked.jobs |-> Cardinality(RunsOf(j))]])
LastRuns ==
  LET seen == {j \in asked.jobs : RunsOf(j) # {}} IN
  /\ At("schedules", "last")
  /\ Answers([asked EXCEPT !.last = [j \in seen |-> runs[Max(RunsOf(j))].born],
                           !.latest = [j \in seen |-> Max({runs[id].born : id \in RunsOf(j)})]])

-----------------------------------------------------------------------------
(* get_stats; without runs it has nothing to add up (_empty_stats).          *)

InStatus(status) == Cardinality({id \in DOMAIN runs : runs[id].status = status})

Totals ==
  /\ DOMAIN runs # {}
  /\ Open([kind |-> "stats", stage |-> "counts", moved |-> 0, total |-> Cardinality(DOMAIN runs),
           success |-> 0, failed |-> 0, active |-> 0, retried |-> 0,
           durations |-> <<>>, p50 |-> 0, p95 |-> 0, byType |-> <<>>, rows |-> 0])

Statuses ==
  /\ At("stats", "counts")
  /\ Reads([asked EXCEPT !.stage = "trust", !.success = InStatus("success"), !.failed = InStatus("failed"),
                         !.active = InStatus("active")])

Retries ==
  /\ At("stats", "trust")
  /\ Reads([asked EXCEPT !.stage = "durations", !.retried = Cardinality({id \in DOMAIN runs : runs[id].retried})])

\* The nth of the durations; hundredths is p.
Percentile(durations, hundredths) ==
  LET n == Len(durations)
  IN IF n = 0 THEN 0 ELSE durations[1 + Min({(hundredths * n) \div 100, n - 1})]

Shorter ==
  {p \in (DOMAIN runs) \X (DOMAIN runs) :
     \/ runs[p[1]].seconds < runs[p[2]].seconds
     \/ runs[p[1]].seconds = runs[p[2]].seconds /\ p[1] < p[2]}

Durations ==
  LET ended == Ordered({id \in DOMAIN runs : runs[id].status # "active"}, Shorter)
      durations == [i \in DOMAIN ended |-> runs[ended[i]].seconds]
  IN /\ At("stats", "durations")
     /\ Reads([asked EXCEPT !.stage = "types", !.durations = durations,
                            !.p50 = Percentile(durations, 50), !.p95 = Percentile(durations, 95)])

\* GROUP BY type and status; the rows of one type are then added up.
Grouped(t, status) == Cardinality({id \in DOMAIN runs : TypeOf(id) = t /\ runs[id].status = status})

ByType ==
  /\ At("stats", "types")
  /\ Answers([asked EXCEPT !.rows = Cardinality(DOMAIN runs),
       !.byType = [t \in {TypeOf(id) : id \in DOMAIN runs} |->
         [total |-> Grouped(t, "success") + Grouped(t, "failed") + Grouped(t, "active"),
          active |-> Grouped(t, "active")]]])

Changes ==
  \/ CreateJob
  \/ \E id \in DOMAIN jobs : DeleteJob(id) \/ \E u \in Users : Launch(id, u)
  \/ \E id \in DOMAIN runs : Finish(id) \/ DeleteRun(id)

Next ==
  \/ Changes
  \/ CountRows \/ PageRows \/ NameJobs \/ ChooseRows \/ DeleteChosen \/ ServeReport
  \/ ReadJobs \/ CountRuns \/ LastRuns
  \/ Totals \/ Statuses \/ Retries \/ Durations \/ ByType

-----------------------------------------------------------------------------
(* Properties, of the last answer.                                           *)

ViewsTypeOK ==
  /\ \A id \in DOMAIN jobs : jobs[id].type \in Types
  /\ \A id \in DOMAIN runs : runs[id].status \in {"active", "success", "failed"} /\ runs[id].owner \in Users
  /\ made.jobs \in 0..MaxJobs /\ made.runs \in 0..MaxRuns
  /\ asked.kind \in {"none", "list", "delete", "schedules", "stats"}

\* A listing shows its user no run of another, only rows that match and each of them
\* once, newest first, whatever has changed since they were counted; the type alone may
\* be that of a job deleted meanwhile.
ListIsOwn ==
  answer.kind = "list" =>
    /\ Len(answer.page) <= answer.query.limit
    /\ \A i \in DOMAIN answer.page :
         /\ answer.query.user \in {Admin, answer.page[i].owner}
         /\ answer.query.status \in {"any", answer.page[i].status}
         /\ answer.moved = 0 => answer.query.type \in {"any", answer.page[i].type}
         /\ \A k \in 1..(i - 1) : answer.page[k].born > answer.page[i].born

\* The page has as many rows as the total promises, unless the rows changed between
\* the two.
PageFitsTotal ==
  answer.kind = "list" /\ answer.moved = 0 =>
    Len(answer.page) = Max({0, Min({answer.query.limit, answer.total - answer.query.offset})})

\* A deletion takes no run that is active or another user's, unless the id was given
\* out again after it was chosen.
OnlySettledGo ==
  answer.kind = "delete" =>
    /\ Cardinality(answer.gone) <= answer.deleted
    /\ \A g \in answer.gone : g.seen => g.row.status # "active" /\ answer.user \in {Admin, g.row.owner}

\* The run with the largest id of a job is its latest, although ids come back, and a
\* job without runs counts none.
LastIsLatest ==
  answer.kind = "schedules" =>
    /\ answer.last = answer.latest
    /\ answer.moved = 0 => \A j \in DOMAIN answer.counts : (answer.counts[j] > 0) = (j \in DOMAIN answer.last)

\* The figures of the dashboard fit each other: the statuses and the retried runs the
\* total (unless rows changed between the SELECTs), the totals of the types, counted one
\* by one, the rows, and the percentiles the durations, half of which are no longer than
\* the median.
StatsAddUp ==
  answer.kind = "stats" =>
    /\ answer.moved = 0 => /\ answer.success + answer.failed + answer.active = answer.total
                        /\ answer.retried <= answer.total /\ Len(answer.durations) <= answer.total
    /\ answer.rows = Cardinality(UNION {{t} \X (1..answer.byType[t].total) : t \in DOMAIN answer.byType})
    /\ answer.p50 <= answer.p95
    /\ answer.durations # <<>> =>
         LET Below(p) == Cardinality({i \in DOMAIN answer.durations : answer.durations[i] <= p})
         IN /\ answer.p50 \in ToSet(answer.durations) /\ answer.p95 \in ToSet(answer.durations)
            /\ 2 * Below(answer.p50) >= Len(answer.durations)

\* The PDF served for a run was made for it.
ReportIsOfRun == answer.kind = "report" /\ answer.run # 0 => answer.of = answer.run
=============================================================================
