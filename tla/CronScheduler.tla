---------------------------- MODULE CronScheduler ----------------------------
(* The cron scheduler of automation/scheduler.py next to the job endpoints   *)
(* of routers/jobs.py that change schedules under it.                        *)
(*                                                                           *)
(* A tick reads the clock, loads the jobs on a worker thread, and then, with *)
(* no further await, decides what is due and launches it.  The map of next   *)
(* due times lives in memory only.  Time is counted in cron slots.           *)
(*                                                                           *)
(* A definition directly above another one with the same parameters is a     *)
(* mutant of it (PROJECT.json, mutants).                                     *)
EXTENDS Integers, FiniteSets

CONSTANTS
  JobIds,        \* primary keys of the job table
  Schedules,     \* cron expressions that pass is_valid_cron
  Slots,         \* Slots[s]: the times s names; empty for one like "0 0 30 2 *"
  Edits,         \* the edits users make: subset of {"create", "patch", "delete"}
  ReuseIds,      \* TRUE: SQLite rowids (max + 1); FALSE: a sequence
  LaunchMayFail, \* launch_run may raise
  MaxTime,       \* bound on the clock
  MaxEdits,      \* bound on the edits
  Manual,        \* a job without a schedule
  NoJob,         \* no row
  Never          \* no entry in the map

ASSUME SchedulerAssumption ==
  /\ JobIds \subseteq Nat \ {0}
  /\ Slots \in [Schedules -> SUBSET Nat]
  /\ Manual \notin Schedules
  /\ Never \notin Nat
  /\ ReuseIds \in BOOLEAN /\ LaunchMayFail \in BOOLEAN
  /\ MaxTime \in Nat /\ MaxEdits \in Nat

VARIABLES
  now,      \* the clock
  jobs,     \* the job table: [sched, inherits] or NoJob; inherits: when sched was
            \* set there was a due time of its predecessor (history)
  lastJob,  \* last id handed out
  edits,    \* number of edits
  enabled,  \* the automation type of the jobs is on the global allowlist
  tick,     \* the scheduler task: "off", "idle", "loading", "loaded"
  tickNow,  \* the local now of the tick
  snapshot, \* the rows the tick has loaded
  nextDue,  \* _next_due
  fires     \* history of launches: [id, sched, inherits, due]

userVars == <<jobs, lastJob, edits, enabled>>
tickVars == <<tick, tickNow, snapshot, nextDue, fires>>
cronVars == <<now, userVars, tickVars>>

Job == [sched : Schedules \cup {Manual}, inherits : BOOLEAN]
Fire == [id : JobIds, sched : Schedules, inherits : BOOLEAN, due : Nat]

Exists(id) == jobs[id] # NoJob

CronTypeOK ==
  /\ now \in Nat /\ lastJob \in Nat /\ edits \in Nat /\ tickNow \in Nat
  /\ jobs \in [JobIds -> Job \cup {NoJob}]
  /\ enabled \in BOOLEAN
  /\ tick \in {"off", "idle", "loading", "loaded"}
  /\ snapshot \in [JobIds -> Job \cup {NoJob}]
  /\ nextDue \in [JobIds -> Nat \cup {Never}]
  /\ fires \subseteq Fire

CronInit ==
  /\ now = 0 /\ lastJob = 0 /\ edits = 0 /\ tickNow = 0
  /\ jobs = [id \in JobIds |-> NoJob]
  /\ enabled = TRUE
  /\ tick = "idle"
  /\ snapshot = [id \in JobIds |-> NoJob]
  /\ nextDue = [id \in JobIds |-> Never]
  /\ fires = {}

-----------------------------------------------------------------------------
(* cron_utils.next_fire.                                                     *)

IsNext(s, t, x) == x > t /\ \A y \in Slots[s] : y > t => x <= y
HasNext(s, t) == \E x \in Slots[s] : IsNext(s, t, x)

NextFireLast(s, t) == CHOOSE x \in Slots[s] : \A y \in Slots[s] : y <= x
NextFire(s, t) == CHOOSE x \in Slots[s] : IsNext(s, t, x)

-----------------------------------------------------------------------------
(* routers/jobs.py and the allowlist of routers/admin.py.                    *)

FreshJob(id) ==
  IF ReuseIds
  THEN /\ \A i \in JobIds : Exists(i) => i < id
       /\ id = 1 \/ (id - 1 \in JobIds /\ Exists(id - 1))
  ELSE id = lastJob + 1

\* A due time computed for the predecessor of a schedule that is set now, by
\* an earlier tick or by the one under way.
Inherits(id) == nextDue[id] # Never \/ (tick = "loaded" /\ snapshot[id] # NoJob)

Edit(kind, id, job) ==
  /\ kind \in Edits
  /\ edits < MaxEdits
  /\ edits' = edits + 1
  /\ jobs' = [jobs EXCEPT ![id] = job]
  /\ UNCHANGED <<now, enabled, tickVars>>

CreateJob(id, s) ==
  /\ FreshJob(id)
  /\ Edit("create", id, [sched |-> s, inherits |-> Inherits(id)])
  /\ lastJob' = id

UpdateJob(id, s) ==
  /\ Exists(id)
  /\ Edit("patch", id, [sched |-> s, inherits |-> Inherits(id)])
  /\ UNCHANGED lastJob

DeleteJob(id) ==
  /\ Exists(id)
  /\ Edit("delete", id, NoJob)
  /\ UNCHANGED lastJob

ToggleAutomation ==
  /\ edits < MaxEdits
  /\ edits' = edits + 1
  /\ enabled' = ~enabled
  /\ UNCHANGED <<now, jobs, lastJob, tickVars>>

-----------------------------------------------------------------------------
(* CronScheduler.                                                            *)

StartScheduler ==
  /\ tick = "off"
  /\ tick' = "idle"
  /\ nextDue' = [id \in JobIds |-> Never]
  /\ UNCHANGED <<now, userVars, tickNow, snapshot, fires>>

\* stop(), a cancellation at the await of a tick, or a crash.
StopScheduler ==
  /\ tick # "off"
  /\ tick' = "off"
  /\ UNCHANGED <<now, userVars, tickNow, snapshot, nextDue, fires>>

TickBegins ==
  /\ tick = "idle"
  /\ tick' = "loading"
  /\ tickNow' = now
  /\ UNCHANGED <<now, userVars, snapshot, nextDue, fires>>

\* The worker thread reads the scheduled jobs; a database error ends the tick.
TickLoads ==
  /\ tick = "loading"
  /\ tick' = "loaded"
  /\ snapshot' = [id \in JobIds |-> IF Exists(id) /\ jobs[id].sched # Manual
                                    THEN jobs[id] ELSE NoJob]
  /\ UNCHANGED <<now, userVars, tickNow, nextDue, fires>>

LoadFails ==
  /\ tick = "loading"
  /\ tick' = "idle"
  /\ UNCHANGED <<now, userVars, tickNow, snapshot, nextDue, fires>>

Seen == {id \in JobIds : snapshot[id] # NoJob}
DueOnTime == {id \in Seen : nextDue[id] # Never /\ tickNow = nextDue[id]}
Due == {id \in Seen : nextDue[id] # Never /\ tickNow >= nextDue[id]}

\* The entry _sync_and_collect leaves for a job it has processed.
KeepDue(id) == IF nextDue[id] = Never THEN NextFire(snapshot[id].sched, tickNow) ELSE nextDue[id]
Advanced(id) ==
  IF nextDue[id] = Never \/ id \in Due THEN NextFire(snapshot[id].sched, tickNow)
  ELSE nextDue[id]

\* next_fire raises for a schedule that names no future time.
Raising ==
  {id \in Seen : (nextDue[id] = Never \/ id \in Due) /\ ~HasNext(snapshot[id].sched, tickNow)}

FireOf(id) == [id |-> id, sched |-> snapshot[id].sched, inherits |-> snapshot[id].inherits,
               due |-> nextDue[id]]

\* Due jobs are launched unless the type is disabled or the launch raises;
\* either way their entry has advanced.
TickFires ==
  /\ tick = "loaded"
  /\ Raising = {}
  /\ \E launched \in SUBSET Due :
       /\ LaunchMayFail \/ launched = (IF enabled THEN Due ELSE {})
       /\ ~enabled => launched = {}
       /\ fires' = fires \cup {FireOf(id) : id \in launched}
  /\ nextDue' = [id \in JobIds |-> IF id \in Seen THEN Advanced(id) ELSE Never]
  /\ tick' = "idle"
  /\ UNCHANGED <<now, userVars, tickNow, snapshot>>

\* The exception of next_fire ends the tick: the jobs processed before it have
\* advanced, but what was due is not launched and nothing is forgotten.
TickRaises ==
  /\ tick = "loaded"
  /\ Raising # {}
  /\ \E done \in SUBSET (Seen \ Raising) :
       nextDue' = [id \in JobIds |-> IF id \in done THEN Advanced(id) ELSE nextDue[id]]
  /\ tick' = "idle"
  /\ UNCHANGED <<now, userVars, tickNow, snapshot, fires>>

ClockAdvances ==
  /\ now < MaxTime
  /\ now' = now + 1
  /\ UNCHANGED <<userVars, tickVars>>

-----------------------------------------------------------------------------
TickStep == TickBegins \/ TickLoads \/ TickFires \/ TickRaises

CronNext ==
  \/ \E id \in JobIds : DeleteJob(id) \/ \E s \in Schedules \cup {Manual} :
                                           CreateJob(id, s) \/ UpdateJob(id, s)
  \/ ToggleAutomation
  \/ StartScheduler \/ StopScheduler \/ TickStep \/ LoadFails
  \/ ClockAdvances

CronSpec == CronInit /\ [][CronNext]_cronVars

\* The loop of the scheduler keeps ticking on the event loop, and a load does
\* not fail for ever.
FairCronSpec ==
  /\ CronSpec
  /\ WF_cronVars(TickBegins) /\ SF_cronVars(TickLoads) /\ WF_cronVars(TickFires \/ TickRaises)

-----------------------------------------------------------------------------
(* Properties.                                                               *)

\* A due time of a job is launched at most once, also across edits, reused
\* ids, restarts and late ticks (scheduler.py, "can't double-fire the same slot").
\* Stated on steps: a launch adds a due time the history does not have.
SlotFiresOnce ==
  [][\A f \in fires' \ fires : \A g \in fires : f.id = g.id => g.due < f.due]_cronVars

\* No slot of a job is passed over: its entry is the first time its schedule
\* names after the clock of the latest tick, or a time before that clock which
\* is still to be launched.  A schedule that inherits starts at the due time of
\* its predecessor: _sync_and_collect looks at the id only.
EntryIsNext ==
  \A id \in JobIds : Exists(id) /\ ~jobs[id].inherits /\ nextDue[id] # Never =>
    /\ nextDue[id] \in Slots[jobs[id].sched]
    /\ ~\E x \in Slots[jobs[id].sched] : tickNow < x /\ x < nextDue[id]

\* A job is only launched for a time its schedule names ("periodically fires
\* runs for Jobs that carry a cron schedule"), unless it inherits.
FiresAsScheduled == \A f \in fires : ~f.inherits => f.due \in Slots[f.sched]

\* The types, and the two above: launches and entries keep to the schedules.
SchedulesAreKept == CronTypeOK /\ EntryIsNext /\ FiresAsScheduled

Overdue(id) == Exists(id) /\ nextDue[id] # Never /\ now >= nextDue[id]

\* next_fire raises for this schedule whatever the time.
Dead(id) == Exists(id) /\ jobs[id].sched # Manual /\ Slots[jobs[id].sched] = {}

\* No job stays overdue: a tick takes it and its entry moves on, however late
\* the tick is, unless the scheduler is stopped again and again or a schedule
\* without a next time makes every tick raise.
DueIsTaken ==
  \A id \in JobIds : []<>(~Overdue(id) \/ tick = "off" \/ \E i \in JobIds : Dead(i))

\* A job that is due is launched unless somebody edits, disables or stops
\* something first ("When now >= next_due the job is collected").
DueIsLaunched ==
  \A id \in JobIds, d \in 1..MaxTime, e \in 0..MaxEdits :
    (nextDue[id] = d /\ now >= d /\ Exists(id) /\ enabled /\ edits = e /\ tick = "idle")
      ~> (edits # e \/ tick = "off" \/ \E f \in fires : f.id = id /\ f.due = d)
=============================================================================
