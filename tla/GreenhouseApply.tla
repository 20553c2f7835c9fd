--------------------------- MODULE GreenhouseApply ---------------------------
(* run_greenhouse_apply: the candidates of several job boards, the quotas,   *)
(* the form, its confirmation page, and the ledger file that keeps a job     *)
(* from being applied to twice.  A run of the tool is a thread of the        *)
(* server: two of them may be under way, and a stop of the server ends both  *)
(* wherever they are.  Reading the ledger, truncating it and writing it are  *)
(* separate steps, as they are in the file system.                           *)
(*                                                                           *)
(* A definition directly above another one with the same parameters is a     *)
(* mutant of it (PROJECT.json, mutants).                                     *)
EXTENDS Integers, Sequences, FiniteSets, SequencesExt

CONSTANTS
  Runs,         \* calls of run_greenhouse_apply
  Jobs,         \* jobs listed on the boards
  Board,        \* job -> the token of its board
  Inputs,       \* the arguments a run may be called with
  MaxCrashes,   \* bound on the stops of the server
  MaxFaults,    \* bound on the failures after a confirmation or a form
  NoJob

Input == [groups : Seq(Seq(Jobs)), \* matching jobs per entry of boards
          limit : Nat \ {0},       \* max_applications, clamped to at least 1
          perBoard : Nat,          \* max_per_board, 0 for no cap
          scans : Nat,             \* max_scans_per_board, 0 for no cap
          dry : BOOLEAN]

ASSUME ApplyAssumption ==
  /\ Inputs \subseteq Input
  /\ MaxCrashes \in Nat /\ MaxFaults \in Nat
  /\ NoJob \notin Jobs

VARIABLES
  run,        \* run -> its local variables
  ledger,     \* the file: whether it is JSON, and the jobs in it
  received,   \* job -> applications the employer has got
  confirmed,  \* run -> jobs whose confirmation page it has seen
  crashes, faults,
  spoilt      \* history: two runs have overlapped, or one was cut short while recording

vars == <<run, ledger, received, confirmed, crashes, faults, spoilt>>

Idle == [stage |-> "idle", input |-> [limit |-> 1, perBoard |-> 0, scans |-> 0, dry |-> TRUE, groups |-> <<>>],
         queue |-> <<>>, known |-> {}, job |-> NoJob, accepted |-> FALSE, base |-> {},
         scanned |-> <<>>, applied |-> <<>>, skipped |-> <<>>]

File(jobs) == [whole |-> TRUE, jobs |-> jobs]
Torn == [whole |-> FALSE, jobs |-> {}]

Over == {"idle", "done", "lost"}
UnderWay(r) == run[r].stage \notin Over
Recording(r) == run[r].stage \in {"recording", "writing", "truncated"}

Init ==
  /\ run = [r \in Runs |-> Idle]
  /\ ledger = File({})
  /\ received = [j \in Jobs |-> 0]
  /\ confirmed = [r \in Runs |-> {}]
  /\ crashes = 0
  /\ faults = 0
  /\ spoilt = FALSE

-----------------------------------------------------------------------------
(* Discovery.                                                                *)

\* A round i takes the i-th job of every group g that has one, in the order of
\* the groups.
Picks(groups) == UNION {{<<i, g>> : i \in DOMAIN groups[g]} : g \in DOMAIN groups}
Earlier(p, q) == p[1] < q[1] \/ (p[1] = q[1] /\ p[2] < q[2])
Turn(groups, p) == 1 + Cardinality({q \in Picks(groups) : Earlier(q, p)})

InterleaveBoards(groups) ==
  [k \in 1..Cardinality(Picks(groups)) |->
     LET p == CHOOSE p \in Picks(groups) : Turn(groups, p) = k
     IN  groups[p[2]][p[1]]]

\* discover_jobs; without candidates the run is over.
Discover(r, input) ==
  LET queue == InterleaveBoards(input.groups)
  IN  /\ run[r].stage = "idle"
      /\ run' = [run EXCEPT ![r] = [Idle EXCEPT !.input = input, !.queue = queue,
                                      !.stage = IF queue = <<>> THEN "done" ELSE "discovered"]]
      /\ spoilt' = (spoilt \/ \E o \in Runs : UnderWay(o))
      /\ UNCHANGED <<ledger, received, confirmed, crashes, faults>>

\* load_ledger: a file that cannot be parsed reads as empty.
Readable == IF ledger.whole THEN ledger.jobs ELSE {}

LoadLedger(r) ==
  /\ run[r].stage = "discovered"
  /\ run' = [run EXCEPT ![r].stage = "scan", ![r].known = Readable]
  /\ UNCHANGED <<ledger, received, confirmed, crashes, faults, spoilt>>

-----------------------------------------------------------------------------
(* The scan.                                                                 *)

OnBoard(b, jobs) == Cardinality({i \in DOMAIN jobs : Board[jobs[i]] = b})

Full(s) == Len(s.applied) >= s.input.limit

OverQuotaAfter(s, b) ==
  \/ s.input.perBoard > 0 /\ OnBoard(b, s.applied) > s.input.perBoard
  \/ s.input.scans > 0 /\ OnBoard(b, s.scanned) >= s.input.scans
OverQuota(s, b) ==
  \/ s.input.perBoard > 0 /\ OnBoard(b, s.applied) >= s.input.perBoard
  \/ s.input.scans > 0 /\ OnBoard(b, s.scanned) >= s.input.scans

Scanning(r) == run[r].stage = "scan" /\ run[r].queue # <<>> /\ ~Full(run[r])

\* This employer has had enough: its job is passed over.
PassOver(r) ==
  /\ Scanning(r)
  /\ OverQuota(run[r], Board[Head(run[r].queue)])
  /\ run' = [run EXCEPT ![r].queue = Tail(@)]
  /\ UNCHANGED <<ledger, received, confirmed, crashes, faults, spoilt>>

\* The ledger has the job, task_filter rejects it, its questions cannot be
\* loaded or answered, or the browser does not start.
SkipJob(r) ==
  LET job == Head(run[r].queue)
  IN  /\ Scanning(r)
      /\ ~OverQuota(run[r], Board[job])
      /\ run' = [run EXCEPT ![r].queue = Tail(@), ![r].scanned = Append(@, job),
                            ![r].skipped = Append(@, job)]
      /\ UNCHANGED <<ledger, received, confirmed, crashes, faults, spoilt>>

\* Every answer is planned.
InKnownNever(s, job) == FALSE
InKnown(s, job) == job \in s.known

OpenForm(r) ==
  LET job == Head(run[r].queue)
  IN  /\ Scanning(r)
      /\ ~OverQuota(run[r], Board[job])
      /\ ~InKnown(run[r], job)
      /\ run' = [run EXCEPT ![r].queue = Tail(@), ![r].scanned = Append(@, job),
                            ![r].job = job, ![r].stage = "form"]
      /\ UNCHANGED <<ledger, received, confirmed, crashes, faults, spoilt>>

-----------------------------------------------------------------------------
(* _apply_to_job.                                                            *)

\* The form does not load, cannot be filled or has no Submit button.
FormFails(r) ==
  /\ run[r].stage = "form"
  /\ run' = [run EXCEPT ![r].skipped = Append(@, run[r].job), ![r].stage = "pause"]
  /\ UNCHANGED <<ledger, received, confirmed, crashes, faults, spoilt>>

\* A filled form that is not to be sent counts as applied.
Prepare(r) ==
  /\ run[r].stage = "form" /\ run[r].input.dry
  /\ run' = [run EXCEPT ![r].applied = Append(@, run[r].job), ![r].stage = "pause"]
  /\ UNCHANGED <<ledger, received, confirmed, crashes, faults, spoilt>>

\* The click on Submit; the site may reject the form or ask for a code.
Submit(r) ==
  LET job == run[r].job
  IN  /\ run[r].stage = "form" /\ ~run[r].input.dry
      /\ \E accepted \in BOOLEAN :
           /\ run' = [run EXCEPT ![r].stage = "submitted", ![r].accepted = accepted]
           /\ received' = IF accepted THEN [received EXCEPT ![job] = @ + 1] ELSE received
      /\ UNCHANGED <<ledger, confirmed, crashes, faults, spoilt>>

\* The entry joins applied before the ledger is written.
Confirmed(r) ==
  /\ run[r].stage = "submitted" /\ run[r].accepted
  /\ run' = [run EXCEPT ![r].stage = "recording", ![r].applied = Append(@, run[r].job)]
  /\ confirmed' = [confirmed EXCEPT ![r] = @ \cup {run[r].job}]
  /\ UNCHANGED <<ledger, received, crashes, faults, spoilt>>

\* No confirmation page in time, an error on the form, a security code.
Unconfirmed(r) ==
  /\ run[r].stage = "submitted"
  /\ run' = [run EXCEPT ![r].stage = "pause", ![r].skipped = Append(@, run[r].job)]
  /\ UNCHANGED <<ledger, received, confirmed, crashes, faults, spoilt>>

-----------------------------------------------------------------------------
(* record_applied: read the file, open it for writing, write it.             *)

RecordRead(r) ==
  /\ run[r].stage = "recording"
  /\ run' = [run EXCEPT ![r].stage = "writing", ![r].base = Readable]
  /\ UNCHANGED <<ledger, received, confirmed, crashes, faults, spoilt>>

RecordTruncate(r) ==
  /\ run[r].stage = "writing"
  /\ run' = [run EXCEPT ![r].stage = "truncated"]
  /\ ledger' = Torn
  /\ UNCHANGED <<received, confirmed, crashes, faults, spoilt>>

\* Over the text another run wrote since the file was truncated, a shorter
\* text leaves the end of the longer one.
ContentFresh(s) == {s.job}
Content(s) == s.base \cup {s.job}

RecordWrite(r) ==
  /\ run[r].stage = "truncated"
  /\ ledger' \in {File(Content(run[r]))} \cup (IF ledger.whole THEN {Torn} ELSE {})
  /\ run' = [run EXCEPT ![r].stage = "pause", ![r].known = @ \cup {run[r].job}, ![r].base = {}]
  /\ UNCHANGED <<received, confirmed, crashes, faults, spoilt>>

\* An OSError of the file, or the browser gone during the pause: the job is
\* also reported as failed.
LateFailure(r) ==
  /\ Recording(r) \/ run[r].stage = "pause"
  /\ faults < MaxFaults
  /\ faults' = faults + 1
  /\ run' = [run EXCEPT ![r].stage = "scan", ![r].skipped = Append(@, run[r].job),
                        ![r].job = NoJob, ![r].accepted = FALSE, ![r].base = {}]
  /\ spoilt' = (spoilt \/ Recording(r))
  /\ UNCHANGED <<ledger, received, confirmed, crashes>>

\* The pause between two jobs.
Pause(r) ==
  /\ run[r].stage = "pause"
  /\ run' = [run EXCEPT ![r].stage = "scan", ![r].job = NoJob, ![r].accepted = FALSE]
  /\ UNCHANGED <<ledger, received, confirmed, crashes, faults, spoilt>>

Finish(r) ==
  /\ run[r].stage = "scan"
  /\ run[r].queue = <<>> \/ Full(run[r])
  /\ run' = [run EXCEPT ![r].stage = "done"]
  /\ UNCHANGED <<ledger, received, confirmed, crashes, faults, spoilt>>

\* The server stops with its threads; the file keeps what it holds.
Crash ==
  /\ crashes < MaxCrashes
  /\ \E r \in Runs : UnderWay(r)
  /\ crashes' = crashes + 1
  /\ spoilt' = (spoilt \/ \E r \in Runs : Recording(r))
  /\ run' = [r \in Runs |-> IF UnderWay(r) THEN [run[r] EXCEPT !.stage = "lost"] ELSE run[r]]
  /\ UNCHANGED <<ledger, received, confirmed, faults>>

-----------------------------------------------------------------------------
Advance(r) ==
  \/ LoadLedger(r)
  \/ PassOver(r) \/ SkipJob(r) \/ OpenForm(r)
  \/ FormFails(r) \/ Prepare(r) \/ Submit(r) \/ Confirmed(r) \/ Unconfirmed(r)
  \/ RecordRead(r) \/ RecordTruncate(r) \/ RecordWrite(r)
  \/ LateFailure(r) \/ Pause(r) \/ Finish(r)

Next ==
  \/ \E r \in Runs : \/ \E input \in Inputs : Discover(r, input)
                     \/ Advance(r)
  \/ Crash

Spec == Init /\ [][Next]_vars

-----------------------------------------------------------------------------
(* Properties.                                                               *)

Stages == Over \cup {"discovered", "scan", "form", "submitted", "recording", "writing",
                     "truncated", "pause"}

TypeOK ==
  /\ run \in [Runs -> [stage : Stages, input : Inputs \cup {Idle.input}, queue : Seq(Jobs),
                       known : SUBSET Jobs, job : Jobs \cup {NoJob}, accepted : BOOLEAN,
                       base : SUBSET Jobs, scanned : Seq(Jobs), applied : Seq(Jobs),
                       skipped : Seq(Jobs)]]
  /\ ledger \in [whole : BOOLEAN, jobs : SUBSET Jobs]
  /\ received \in [Jobs -> Nat]
  /\ confirmed \in [Runs -> SUBSET Jobs]
  /\ crashes \in 0..MaxCrashes /\ faults \in 0..MaxFaults /\ spoilt \in BOOLEAN
  /\ \A r \in Runs : run[r].stage \in Stages \ (Over \cup {"discovered", "scan"}) => run[r].job \in Jobs

AllConfirmed == UNION {confirmed[r] : r \in Runs}

\* Only a job whose confirmation page was seen is ever taken for applied: not a
\* prepared one, not one whose Submit was clicked ("Only Greenhouse's
\* confirmation page counts as applied").
LedgerIsHonest ==
  /\ Readable \subseteq AllConfirmed
  /\ \A r \in Runs : run[r].known \subseteq AllConfirmed

\* A job that was confirmed is never sent to the employer again, by this run or
\* by a later one ("Skip jobs already submitted from this machine"): not after a
\* stop of the server, not when a board is named twice.  It takes runs that
\* follow one another, each of them left to finish what it records: a run goes by
\* the ledger it has loaded at its start.
ConfirmedNotResent == [][spoilt \/ \A j \in AllConfirmed : received'[j] = received[j]]_vars

\* Whenever nobody is in the middle of recording, the ledger can be read and has
\* every job that was ever confirmed, however the runs have ended; as above, a
\* run cut short while it records may lose all the file had.
LedgerRemembers ==
  ~spoilt /\ (\A r \in Runs : ~Recording(r)) => ledger = File(AllConfirmed)

\* No run reports more jobs, on all boards or on one, than it was asked for,
\* nor looks at more jobs of one board.
QuotasHold ==
  \A r \in Runs :
    LET s == run[r]
    IN  /\ Len(s.applied) <= s.input.limit
        /\ \A j \in Jobs :
             /\ s.input.perBoard > 0 => OnBoard(Board[j], s.applied) <= s.input.perBoard
             /\ s.input.scans > 0 => OnBoard(Board[j], s.scanned) <= s.input.scans

\* A finished run reports each job it saw confirmed as applied, also when
\* recording it failed.
ConfirmedIsReported ==
  \A r \in Runs : run[r].stage = "done" => \A j \in confirmed[r] : Contains(run[r].applied, j)

\* Without late failures a finished run has one entry for every scan: nothing
\* is dropped and nothing is listed twice (a job whose recording fails is listed
\* as applied and as skipped).
OneEntryPerScan ==
  \A r \in Runs : faults = 0 /\ run[r].stage = "done" =>
    \A j \in Jobs :
      LET Times(jobs) == Cardinality({i \in DOMAIN jobs : jobs[i] = j})
      IN  Times(run[r].applied) + Times(run[r].skipped) = Times(run[r].scanned)

\* However long the queue, no board is served twice while another one, not yet
\* exhausted, waits ("interleave boards so one big employer can't eat the whole
\* limit"); for inputs that name every board once.
BoardsTakeTurns ==
  \A r \in Runs : run[r].stage = "discovered" =>
    LET groups == run[r].input.groups
        Taken(g, n) == Cardinality({k \in 1..n : Contains(groups[g], run[r].queue[k])})
        distinct == \A g, h \in DOMAIN groups : g # h => ToSet(groups[g]) \cap ToSet(groups[h]) = {}
    IN  distinct => \A n \in 0..Len(run[r].queue) : \A g, h \in DOMAIN groups :
          Taken(g, n) <= Taken(h, n) + 1 \/ Taken(h, n) = Len(groups[h])

\* The ledger, and what a run says, agree with what was confirmed: the three
\* above about confirmations.
LedgerIsKept == LedgerIsHonest /\ LedgerRemembers /\ ConfirmedIsReported

\* A scan keeps to its limits, in turns of the boards, and accounts for every job.
ScanIsFair == QuotasHold /\ BoardsTakeTurns /\ OneEntryPerScan
=============================================================================
