# Verification of agent_auto_system

TLA+ modules of the parts of agent_auto_system that keep state, run
concurrently or join data of several sources, the TLC configurations that check them on
small instances, and theorems about them that TLAPS checks for every value of their
constants. `PROJECT.json` lists the runs, the mutants, the source lines behind every
definition, the hazards of the code and the theorems.

    tlc -workers 2 -config RunLifecycle.cfg RunLifecycleMC.tla     # one run
    tlapm RunLifecycleProofs.tla                                   # its proofs

Contents: [1 the system](#1-the-system), [2 the modules](#2-the-modules),
[3 the runs](#3-the-runs), [4 the proofs](#4-the-proofs),
[5 disagreements](#5-where-the-code-and-its-texts-disagree),
[6 what is left out](#6-what-is-not-modelled), [7 plan](#7-plan).

## 1 The system

A FastAPI server runs *automations* for its users: a **flow** (crewai agents and
tools, a browser), a **custom automation** (a prompt), or a **pipeline** of other
automations. A user triggers a run over HTTP, or a **job** with a cron expression
does. The run is a row of the `run` table, a coroutine on the event loop and, below
it, a flow in a worker thread. The page follows it over server-sent events.
An Electron shell starts the server as a child process on the desktop.

| Component | State | Operations | Interacts with |
|---|---|---|---|
| Run lifecycle (`executor.py`, `launcher.py`, `registry.py`, `progress.py`, `routers/runs.py`, `database.py`) | `run` rows; the `_TASKS` registry; coroutines, flow threads, DELETE threads | launch, execute with retries, validate, evaluate, trace, cancel, delete one or many, stop, crash, reconcile | scheduler (launch), harness (attempts), stream and step view (read the row) |
| Run stream (`routers/runs.py`) | per client: last status, last log length | open, poll, end | run rows |
| Run views (`routers/runs.py`, `routers/jobs.py`) | per request: what its earlier SELECTs have answered; the report files | list with filters and pages, figures of the dashboard, list of schedules, bulk deletion, report of a run | run and job rows, files |
| Cron scheduler (`scheduler.py`, `cron_utils.py`, `routers/jobs.py`) | `job` rows; the in-memory `_next_due` map | tick (load, sync, collect, launch), create, PATCH, delete, start, stop | launcher |
| LLM harness (`executor._run_flow`, `harness/provider.py`, `harness/evaluator.py`, `pipeline.py`) | the chain of models of an attempt, the last validation, what the row records | kickoff, fall back, raise, validate, judge | run lifecycle, keys |
| LLM keys (`harness/provider.py`, `settings_store.py`) | encrypted settings, `os.environ` | set, clear, resolve, restart | harness |
| Settings and custom automations (`settings_store.py`, `custom_automations.py`, `routers/admin.py`, `routers/cover_letters.py`) | `setting` rows (letters as one JSON value, disabled automations, judge), `custom_automation` rows | read, save, switch on and off, create, delete | the flows read them when they run |
| Accounts (`routers/admin.py`, `auth.py`) | `user` rows | create, PATCH, delete, last-admin guard | single sign-on |
| Single sign-on (`oauth.py`, `routers/oauth.py`) | links of accounts to identities | resolve, link, provision, commit | accounts |
| Job pages of Greenhouse (`greenhouse_apply_tool.py`) | ledger file, queue, lists of a scan; a form and its answers | discover, scan, plan answers, fill, submit, confirm, record | its flow |
| Listing tools (`tasker_`, `tw104_`, `linkedin_apply_tool.py`) | page, queue, seen ids, lists of a scan; the pages of a LinkedIn form | load page, skip, apply, confirm; fill, next, review, submit | the job sites, their flows |
| Flows around them (`*_apply_flow.py`) | payload, model (resolved lazily), judge of relevance, proposals | validate, gate, write, answer, report | the tools, settings |
| Email collection (`email_collect_flow.py`, `contact_harvest.py` and six tools) | businesses found, their index, leads | discover, merge, resolve, visit, verify, sort, enrich, qualify | Maps, registry, directories, sites, mail servers |
| Sellers, profit check, mail (`shopee_scraper_tool.py`, `uploads.py`, `profit_calc_tool.py`, `gmail_send_tool.py`) | products and sellers of a search; files of an upload; a message | page, fall back, stop; classify, compute, flag; send | run lifecycle (attempts) |
| Browser sessions (`browser_session.py`) | `_TASKS`, storage_state files, windows | start login, detect, save, status | listing tools, Admin page |
| Step view (`flow_steps.py`, `ui/app.js`) | none: reads `run.log` and status | step states, logs per step | run lifecycle, pipeline |
| Desktop shell (`electron/main.js`) | window, backend process, port, `shuttingDown` | boot, health, close, quit | the server process |
| Other flows and scrapers, crews, catalogue, telemetry, deployment | see section 6 | | |

What is hard in it, and what makes each part correct:

* **Run lifecycle.** A cancel may meet the last write of a run, a stop, a second
  cancel, or a thread that keeps running; DELETE checks and deletes in two steps;
  a crash falls between any two writes; SQLite hands the rowid of a deleted
  newest row out again while coroutines, registry and requests still hold it.
  Correct: outcomes are final, a run in progress can be cancelled and is never
  deleted, every run settles, a flow is not repeated after an accepted result.
* **Scheduler.** Ticks are late, raise or are cut by a stop, schedules change
  between the load and the launch, ids are reused. Correct: no slot twice, none
  passed over, no job stays overdue.
* **Harness.** Retries of the run multiply with the fallbacks of the model chain and
  with the steps of a pipeline. Correct: bounded kickoffs, every fallback tried,
  the stored model is the producer, nobody grades himself unnoticed.
* **Keys, settings, accounts, single sign-on.** Check-then-act over a shared table and a
  shared environment. Correct: what is called with is what was resolved, a saved letter is
  not lost, one automation per slug, an administrator remains, one account
  per identity, no link is taken over, addresses are vouched for.
* **Application tools and flows.** Effects on the outside world that cannot be undone, and
  statements made in somebody's name. Correct: no second application, an honest and
  durable ledger, limits, every scanned job accounted for, nothing after a block; no
  answer that is not the candidate's, nothing reported as sent that was not, a judge that
  fails loses no job.
* **Collectors.** Rows of several sources that fail one by one are joined by keys.
  Correct: one business per company, no field of another one, one lead per address
  trusted only as far as its server has answered, figures of an article from its own
  rows alone.
* **Stream, step view, run views, login page.** Readers that reconstruct state from polls,
  log texts and several SELECTs. Correct: no gaps, no repetitions, agreement with what
  was done, nobody else's rows.
* **Shell.** A child process beside windows that come and go. Correct: one backend,
  shown when ready, stopped with the application.

## 2 The modules

In every module a definition **directly above** another one with the same parameters
is a *mutant* of it: the bug somebody could have written, which the property named
in `PROJECT.json` has to detect. Variables and fields marked *history* exist for
properties only; no guard reads them. Several of them record that something has happened
which the code does not survive (`reused`, `raced`, `spoilt`, `cleared`, `shared`, `inherits`,
`astray`, `hasty`, `overlapped`); the property is then stated up to that point, and section 5
says what happens after it. The behaviours themselves are all in the models.

| Module | Models | State and actions against the code |
|---|---|---|
| `RunBoard` | what a user may rely on: the status lifecycle | abstract specification implemented by `RunLifecycle` |
| `RunLifecycle` | run rows, executor coroutines, registry, DELETE threads, the process | everything between two awaits of a coroutine is one action; `pc` is where `execute_run` is suspended (`flow`, `evaluate`, `trace`, `cancelling`); sync endpoints are split into `DeleteCheck` and `DeleteCommit` |
| `CronScheduler` | `_next_due`, the tick, edits of jobs | `TickBegins` reads the clock, `TickLoads` loads rows in a thread, `TickFires` is the rest of the tick up to its end or exception |
| `LlmHarness` | attempts, chain of models, validation, judge | `KickoffSucceeds`, `KickoffUnavailable`, `KickoffRaises` are the three outcomes of a kickoff; keys and judge may differ at every read |
| `LlmKeys` | `get_llm_key`, `resolve`, `os.environ` | `FindKey` and `ExportKey` are the two halves of `resolve()` between which other threads run |
| `SettingsStore` | settings and custom automations under overlapping requests | a request's read and its transaction are two actions; the number of a request stands for what it brings |
| `BrowserLogin` | login threads, tasks, session file, Admin page | `kind` is the check of the site; `ReadFile` and `ReadTask` are the two reads of `session_status` |
| `AdminPages` | what the Admin page keeps | composes `BrowserLogin`, `LlmKeys` and `SettingsStore` |
| `AdminAccounts` | PATCH and DELETE of accounts | `Authorize`, `Check`, `Commit`: the dependency, the handler up to its commit, the commit; the ORM writes changed columns only |
| `SsoAccounts` | `resolve_sso_user`, the callback's commit | `Resolve` computes the pending change, `CommitChange`, `CommitInsert` or `CommitFails` ends it; administrators act in between. `.first()` without an order is any row that matches |
| `Accounts` | the two ways accounts change | composes `AdminAccounts` and `SsoAccounts` |
| `GreenhouseApply` | `run_greenhouse_apply`, the ledger file | reading, truncating and writing the ledger are three steps; two runs may overlap; a `Crash` cuts them anywhere |
| `ListingApply` | the three paged scans beside a site that moves | one module, the tools differ in `EmptyOnFailure`, `Confirms`, `known`, `SendBlocked`, `PauseFails` |
| `ApplyForm` | `plan_answers` and the rules behind it | operators: from a question, a profile and a job to an answer, or to the reason why there is none |
| `ApplyGate` | the four apply flows around their tools | one action per opening: gate, proposal, answers, verdict of the flow; the model is resolved when the first of them asks |
| `EasyApply` | the LinkedIn form and its script `_FILL_JS` | a page of fields per step; filling, the site's refusal, the tries that are left |
| `ApplyFlows` | the dispatch by job type | composes the four; a behaviour is one of a tool, of a flow, or of a form |
| `Lists` | what the collectors do with lists: order, choose, join, cut | operators over places of sequences |
| `BusinessIndex` | `merge_by_keys`, `unique_records` | the dict from keys to shared rows as a sequence of entries with all their keys |
| `LeadSources` | the tools of the collector | functions of what Maps, the registry, a social profile, a site and a mail server answer |
| `DirectoryCrawl` | `search_association` | list pages, the members of a page one by one, then records; what a page holds is chosen when it is read |
| `LeadCollect` | `EmailCollectFlow` | stages `discover`, `resolve`, `harvest`, `enrich`, `qualify`; one action per source and business, and one per row that is merged |
| `ShopSearch` | `ShopeeSellerScraperTool` | a page of the API per action, a page of the site per load and pass over its cards, each of which may be blocked; then products one by one |
| `ProfitFigures` | `create_upload`, `compute_profit` | a file per action, all or nothing; the figures are operators over the tables, sums over sets of their rows |
| `MailSend` | attempts of `email_sender` around one SMTP conversation | the server takes a message, and its answer is lost or not, in one action each |
| `Collections` | the dispatch by job type | composes the four flows above |
| `RunStream` | `event_generator` | one `Poll` per turn of the loop, between any changes of the row |
| `RunSteps` | the log a run writes and its three readers | `infer_step_states`, `pipeline_step_states`, `Bucket` (`run_step_logs`) and `PageStates` (`ui/app.js`) are operators over the log |
| `RunViews` | `list_runs`, `get_stats`, `list_schedules`, `bulk_delete_runs`, `get_run_report` | one action per SELECT or DELETE; runs are launched, end and are deleted in between |
| `RunPages` | what a browser is shown of runs | composes `RunStream`, `RunSteps` and `RunViews` |
| `DesktopShell` | `boot`, `startBackend`, `stopBackend`, windows, quit | one action per await and per event handler; `held` is `backendProc` |
| `RunLifecycleMC`, `CronSchedulerMC`, `LlmHarnessMC`, `AccountsMC`, `ApplyFlowsMC`, `CollectionsMC`, `RunPagesMC` | | values of function-valued constants, and symmetry of request threads |
| `RunLifecycleProofs` (also of scheduler and shell), `LlmHarnessProofs`, `AccountsProofs`, `AdminPagesProofs`, `ApplyFlowsProofs`, `RunPagesProofs`, `CollectionsProofs`, `ShopsProofs` (which goes on from it) | | theorems, section 4 |

Data is abstracted to what the properties tell apart: a log entry is the run or the
step that wrote it, a result is `valid` or not, a page is whether it has a marker, a
cron expression is the set of times it names, a key is a value and the secret it was
encrypted under, a name is its normalised form, an address is its domain and rank, the
label of an option is what it means.

Composition: `RunLifecycle` refines `RunBoard` (property `ImplementsBoard`).
`ApplyFlows`, `Collections`, `RunPages`, `AdminPages` and `Accounts` put components
together that a user meets in one place (`INSTANCE`). The members of the first four share
neither rows nor files in the code, so a behaviour of the composition is one of a member
and the others stand still: their products would add states and no case. Those of
`Accounts` do share the rows of users: each models what the other may do to them (in
`SsoAccounts` administrators disable and delete between a sign-in's steps, `AdminAccounts`
creates accounts without the flag), so here, too, a behaviour is one of a member. The
other modules meet at one variable each and are checked apart: the scheduler's
`fires` are the launches of `RunLifecycle`, an attempt of `RunLifecycle` is a
behaviour of `LlmHarness`, a tool of `ApplyFlows` takes whatever the functions of its flow
answer as any answer, `RunStream`, `RunSteps` and `RunViews` take rows as
`RunLifecycle` writes them.

## 3 The runs

One run per group of components; all but two pass. A property of the runs is often a
conjunction of named parts, one question each: `TableIsSound` is `TypeOK`,
`NewestIdIsLatest` and `SettledIsStamped`. Every property of a passing run has a mutant
that violates it under the same configuration.

| Run | Configuration | Distinct states | Shows |
|---|---|---|---|
| `run` | `RunLifecycle.cfg` | 218,783 | `TableIsSound` (types, `NewestIdIsLatest`, `SettledIsStamped`), `RowsKeepOwners`, `CancelWorks` (`ActiveIsCancellable`, `CancelledIsSettled`), `TerminalIsFinal`, `ActiveNeverDeleted`, `RerunOnlyAfterRejection`, `RunSettles`, and `ImplementsBoard` |
| `sched` | `CronScheduler.cfg` | 399,007 | `SchedulesAreKept` (types, `EntryIsNext`, `FiresAsScheduled`), `SlotFiresOnce`, `DueIsTaken` |
| `sched_dead` | `CronScheduler_dead.cfg` | | violated: `DueIsLaunched` (section 5) |
| `llm` | `LlmHarness.cfg` | 221,557 | `RetriesAreSound` (types, `KickoffsBounded`, `FeedbackIsLatest`), `RecordIsHonest` (`ServedIsProducer`, `SelfGradeIsFlagged`, `SelfGradeIsLastResort`), `ChainIsComplete` (`TriesEveryFallback`, `OneModelPerAttempt`, `NoForeignModel`) |
| `accounts` | `Accounts.cfg` | 174,104 | administrators: `AdminRemains`, `OtherFlagKept`; sign-ins: `IdentitiesAreOwn` (types, `OneAccountPerIdentity`, `EmailIsVouched`), `LinkIsKept` |
| `admin` | `AdminPages.cfg` | 230,898 | logins: `SessionIsSound` (types, `OneWindow`, `SucceededIsSaved`, `SavedIsGenuine`), `ShownIsCurrent`, `LoginEnds`; keys: `KeyIsResolved` (types, `EnvironIsResolved`, `FallsBackToEnvironment`); settings: `StoreIsSound` (`ListIsSound`, `LettersAreKept`, `AutomationsAreOne`, `ForgottenStayOff`) |
| `apply` | `ApplyFlows.cfg` | 542,889 | Greenhouse: `LedgerIsKept` (`LedgerIsHonest`, `LedgerRemembers`, `ConfirmedIsReported`), `ScanIsFair` (`QuotasHold`, `BoardsTakeTurns`, `OneEntryPerScan`), `ConfirmedNotResent`; listings: `ListsAreHonest` (types, `EachListedOnce`, `AppliedIsRecorded`, `LoadedIsScanned`), `SentOnce`, `NoSendAfterBlock`; flows and forms: `FlowIsHonest` (`NothingIsGuessed`, `SentIsComplete`, `GateFailsOpen`, `AreaIsKept`, `LlmIsLazy`, `EasyIsHonest`) |
| `leads` | `Collections.cfg` | 322,747 | `BusinessesAreOne` (`MembersAreOne`, `CompaniesAreOne`, `BrokenSourceIsAlone`, `SourcesShare`); `CollectedIsRight`: directories, registry and addresses (`RowsAreOwn`, `GuildIsNoMember`, `ShortIsExplained`, `ScanIsExplained`, `PublishedIsOffered`), sellers (`SellersAreFirst`, `StopsForReason`, `LoadedIsListed`), profit (`UploadIsWhole`, `FiguresAreOwn`, `FlagsAreRight`), mail (`MailIsCounted`); `LeadsAreSound` (`OneLeadPerAddress`, `GuessIsUntrusted`, `NothingIsLost`, `HookIsItsOwn`) |
| `pages` | `RunPages.cfg` | 485,442 | stream: `StreamIsFaithful` (types, `GotIsPrefix`, `StatusesInOrder`, `EndIsComplete`), `StreamEnds`; steps: `InputsAreFresh`, `StepsAreRight` (`SuccessShowsAllDone`, `DoneIsCompleted`, `FailureIsShown`, `PageAgrees`, `EntriesUnderTheirStep`, `LastBucketIsReached`); views: `ViewsAreTrue` (`ListIsOwn`, `PageFitsTotal`, `OnlySettledGo`, `LastIsLatest`, `StatsAddUp`) |
| `report_stale` | `RunPages_report.cfg` | | violated: `ReportIsOfRun` (section 5) |
| `shell` | `DesktopShell.cfg` | 74,627 | `BackendIsOwned` (types, `OneBackend`, `QuitStopsBackend`, `NoAlarmOnQuit`), `ReadyIsShown` |

`EasyIsHonest` is `SentForReal`, `PrefilledIsKept`, `NothingIsClaimed` and
`GivenUpForReason` of `EasyApply`. The type invariant of `AdminAccounts` is proved
instead of checked.

### Bounds

* `run`: two runs and two ids are what the races need: an old coroutine or request, and
  the new run that has got its id; two DELETE requests, as one of them may delete the
  newest row while the other still holds its id. `AnyBudget` holds a payload
  without attempts and one with a retry: a second retry takes the same path.
  One failing write, as a second one meets a coroutine that is already abandoned.
* `sched`: two jobs, so that one can keep the other from its launch; a schedule
  of every slot, one of every third, one that never comes; three edits
  (create, change, delete or create again); four slots of time.
* `llm`: a provider with fewer models than attempts and one with as many;
  an unknown provider; two steps and up to two retries, so that a rejection can
  precede an exception and an attempt after it. `MaxLlmAttempts` is that of the code.
* `accounts`: two requests and the two accounts a race takes, one of them created, deleted
  and created again. The threads, and the identities, are interchangeable (symmetry; no
  liveness is checked). For the sign-ins two identities that meet at one account, two accounts, two addresses with the
  same local part, so that usernames collide.
* `admin`: two logins, one restart, the three kinds of check a site has; two flows, three
  keys (stored, replaced, environment), two secrets; two requests that overlap, three
  names for a list of two letters, so that one falls out, two slugs, four requests in all
  (`MaxAsked`), enough to create, switch, delete and create again.
* `apply`: two boards, one named twice, with limits of each kind; two overlapping
  calls, one stop, one failing step. Listings: three entries on pages of two, one that
  is published later, two page failures and two changes of the site. Flows: four openings
  over fifteen kinds of question, of every part of a form. LinkedIn forms of up to three
  pages; `MaxErrors` is that of the code, and `MaxSteps` leaves room for a form that is
  refused once or twice and not for one that goes on being refused, so both limits are reached.
* `leads`: four companies with two sites of their own and a page on a shared host, under
  one name, one site or both, so that every pair of keys meets; limits of one to three
  leads; directories of two pages and two records, registries scanned for three rows,
  so that each bound of the code (smaller here) cuts something off. Three shops on pages
  of two products. Every sequence of up to four of ten files: each role twice, of
  every kind that is refused; articles that sell, lose, are returned, advertised or
  missing from a table. Two people and two retries of a message.
* `pages`: log of four entries and two owners of the id; five steps of a flow (its three
  common last ones and two of its own) and four of a pipeline, one retry, one lost write;
  one job and three runs of two users, three queries, and one change between the SELECTs of a request, which is
  what tells apart those that must not be affected by it.
* `shell`: four boots.

### Fairness

Four runs have a liveness property; the others need no fairness.

* `run`: the event loop resumes every coroutine that is ready, flows, judge and
  tracer return (they carry network timeouts), a stopped process exits and is
  started again by its supervisor. No fairness for users, cancels, deletes, crashes.
* `sched`: the tick loop goes on (`_run_loop` catches everything and sleeps); a load of
  the jobs may fail at any tick, but not at every one (strong fairness of `TickLoads`).
  No fairness for the clock, the users or a stop.
* `pages` (`PagesSpec`): the event loop resumes the generator of a stream after its sleep.
* `admin` (`AdminSpec`): every step of a login thread has a timeout; the deadline is
  strongly fair, as the operator may navigate for ever (`TimesOut` is enabled whenever the
  thread waits).

### Where TLC does not look for deadlocks

`llm` (a run is done), `apply` (scans and forms end and their bounds are used up), `leads`
(a call returns), `pages` and `report_stale` (streams are closed, a run has ended, bounds
are used up), `admin` (restarts and requests are used up), `shell` (the application has
exited). In the others something can always happen.

## 4 The proofs

TLAPS checks, for every value of the constants (with the named `ASSUME` of each module):

| Theorem | States |
|---|---|
| `RunLifecycleProofs!TypeCorrect` | `Spec => []TypeOK` |
| `!Invariance` | `Spec => []RowsKeepOwners`, that is `[](reused \/ IInv)` |
| `!LiveHasRowAlways`, `!LogsAreOwnAlways` | `Spec => [](reused \/ LiveHasRow)`, `Spec => [](reused \/ LogsAreOwn)` |
| `!ActiveNeverDeletedAlways`, `!TerminalIsFinalAlways` | `Spec => ActiveNeverDeleted`, `Spec => TerminalIsFinal` |
| `!TableIsSoundAlways`, `!CancelWorksAlways` | `Spec => []TableIsSound`, `Spec => []CancelWorks` |
| `!RerunOnlyAfterRejectionAlways` | `Spec => RerunOnlyAfterRejection` |
| `!ImplementsBoardAlways` | `Spec => ImplementsBoard`: the refinement of `RunBoard` |
| `RunLifecycleProofs!SchedTypeCorrect`, `!SlotFiresOnceAlways`, `!SchedulesAreKeptAlways` | of the scheduler: `CronSpec => []CronTypeOK`, `CronSpec => SlotFiresOnce`, `CronSpec => []SchedulesAreKept` |
| `LlmHarnessProofs!RetriesAreSoundAlways`, `!RecordIsHonestAlways`, `!ChainIsCompleteAlways` | `Spec => []RetriesAreSound`, `Spec => []RecordIsHonest`, `Spec => ChainIsComplete` |
| `AccountsProofs!AccountsTypeCorrect`, `!AdminRemainsAlways`, `!OtherFlagKeptAlways` | of the administrators: `AccountsSpec => []Admin!TypeOK`, `[]AdminRemains`, `OtherFlagKept` |
| `!IdentitiesAreOwnAlways`, `!LinkIsKeptAlways` | of the sign-ins: `AccountsSpec => []IdentitiesAreOwn`, `LinkIsKept` |
| `AdminPagesProofs!SessionIsSoundAlways`, `!ShownIsCurrentAlways`, `!KeyIsResolvedAlways`, `!StoreIsSoundAlways` | `AdminSpec => []SessionIsSound`, `[]ShownIsCurrent`, `[]KeyIsResolved`, `[]StoreIsSound` |
| `ApplyFlowsProofs!LedgerIsKeptAlways`, `!ScanIsFairAlways`, `!ConfirmedNotResentAlways` | of Greenhouse: `FlowsSpec => []LedgerIsKept`, `[]ScanIsFair`, `ConfirmedNotResent` |
| `!SentOnceAlways`, `!NoSendAfterBlockAlways`, `!ListsAreHonestAlways` | of the listings: `FlowsSpec => []SentOnce`, `NoSendAfterBlock`, `[]ListsAreHonest` |
| `!FlowIsHonestAlways` | of the flows and the forms: `FlowsSpec => []FlowIsHonest` |
| `RunPagesProofs!StreamIsFaithfulAlways` | `PagesSpec => []StreamIsFaithful` |
| `!InputsAreFreshAlways`, `!StepsAreRightAlways` | of the steps: `PagesSpec => []InputsAreFresh`, `[]StepsAreRight` |
| `!ViewsAreTrueAlways` | of the tables: `PagesSpec => []ViewsAreTrue` |
| `RunLifecycleProofs!BackendIsOwnedAlways`, `!ReadyIsShownAlways` | of the shell: `ShellSpec => []BackendIsOwned`, `[]ReadyIsShown` |
| `CollectionsProofs!BusinessesAreOneAlways`, `!LeadsAreSoundAlways` | of the e-mail collector: `CollectSpec => []BusinessesAreOne`, `[]LeadsAreSound` |
| `!ReadingsAreRightAlways`, `!UploadIsWholeAlways`, `!MailIsCountedAlways` | of what is read of directories, registries and sites, of the upload of a shop's tables and of a message: `CollectSpec => []ReadingsAreRight`, `[]Figures!UploadIsWhole`, `[]Mail!MailIsCounted` |
| `ShopsProofs!ShopsAreRightAlways`, `!FiguresAreRightAlways` | of the sellers of a search and of the profit check: `CollectSpec => []Shops!ShopsAreRight`, `[](Figures!FiguresAreOwn /\ Figures!FlagsAreRight)` |
| `!CollectedIsRightAlways` | of the four flows: `CollectSpec => []CollectedIsRight`, from the five before it |

**Run lifecycle.** "A run in progress is never deleted" is not inductive: a
DELETE request may already hold the id. `IInv` adds what the code relies on without
saying it: ids above `lastId` are used by nothing (`UnusedIds`), a row and the coroutine
launched for it point at each other (`RowHasOwner`), no two coroutines ever had one id
(`OwnIds`), the registry only leads to coroutines of that id (`RegistryIsSound`), what a
DELETE found deletable stays so (`DoomedIsIdle`), and outside a live server no
coroutine runs (`DownIsQuiet`). Each of these fails once SQLite reuses a rowid, so
the invariant is `reused \/ IInv`; `reused` never goes back (`ReusedStays`). The steps
are grouped by what they touch: the own row and coroutine (`OwnStepInv`, from
`ExecutorOwn` and `ThreadOwn`), launch, cancel, delete, and the process as a whole.
`TerminalIsFinal` and `ActiveNeverDeleted` follow from the invariant and a lemma each on
one step (`SettledKept`, `NoActiveDeleted`). On a database with a sequence (PostgreSQL)
`reused` stays FALSE and the theorems hold without condition.

`TableIsSound` needs no such condition; it rests on `RowsAreIssued`, that no row has an id
above the greatest in use. `CancelWorks` adds `CInv`: a live coroutine is registered
under its id (`Reachable`), one that is being cancelled by a request has a settled row
(`CancelledHasSettled`), one of a stopped process is over. `RerunOnlyAfterRejection` needs
`StaleAfterFault`: a coroutine at work on an attempt has an accepted result of an earlier
one only after a write that failed, or after a reuse.

For the refinement, `BoardShows` says what a user sees of a row, and there is one lemma
for each kind of step: those of a coroutine on its own row, launch, cancel, delete and the
end of the process map to one move of `RunBoard` each or change nothing a user sees. Two
things came out of the proof. A DELETE that has waited can remove a row whose id has been
given out again *and settled*, so the board had to be released from the moment of the
reuse on, and not only from the harm it does; hence the variable `reused` of `RunBoard`.
And an attempt may follow on an accepted result when the write of that result has
failed, which `RerunOnlyAfterRejection` names.

**Scheduler.** `SlotFiresOnce` needs the invariant `Ahead`: every launch in the history
was due by the clock of some tick, and lies before the entry of its job if it has one.
`AdvancedEntry` says that a tick never moves an entry back and moves a due one past
its clock, `NextFireIsAhead` that `next_fire` is strictly ahead of its argument. The
theorem has no condition on edits, reused ids, restarts or raising ticks.
`SchedulesAreKept` adds what a tick under way relies on: a row that has changed since it
was loaded is marked (`SnapshotIsCurrent`), and an entry computed from the schedule its
row still has is the first slot after the clock of a tick (`EntriesFit`).

**Harness.** The bound on the kickoffs is a product of three loops. `CountInv` is their
count at every place of the code: `attempt * PerAttempt + (step - 1) * PerChain + (try - 1)`
in a kickoff. `FeedbackInv` follows the reason through attempts that raise, `RecordInv` the
producer from the kickoff to the row, `TriedInv` says that the models tried are the first
ones of the chain. The chain is built by removing a model from its catalogue and putting
it in front; the lemmas before say what that does to the order (`RemoveFirst`).

**Administrators.** `AdminRemains` needs that as long as no two requests have raced, what a
request has checked still holds when it commits (`AccountsInv`); `CommitKeeps` shows
that an allowed removal leaves an administrator, `CreationKeeps` that a new
account does not disturb what a request has seen. `OtherFlagKept` follows from one step:
the flags a request does not set stay, whatever it has loaded.

**Sign-ins.** What a callback is about to commit is still right when it commits, although
administrators act in between: the identity it links belongs to nobody else, the row it
links has no link yet (`PendingLinkIsFree`), and the address it writes was vouched for by
the identity the row will have (`PendingEmailIsVouched`, until a row was deleted under the
callback and its rowid given out again). A username that nobody has exists because the
suffixes tried are finitely many and the least free one is taken (`MinExists`).

**Sessions and keys.** `LoginInv`: what a thread is about to save was seen behind an account
marker, what it has saved is in the file, and the page that has read a success has read
its file. `KeyInv`: as long as flows do not overlap at most one has left `idle`, and before the
first clear the environment holds the stored key or what it held at the start.

**Settings.** Three invariants, as letters, other settings and automations have nothing to do
with each other. `LettersInv`: the number of an open request is its own, and the texts of
any list that is stored, or read by an open request, are settled (`Sound`: their requests
are over and have not failed), so what a failed request brought cannot come back. Until
two changes overlap, `Latest` says that the list is descending and that a letter missing
from it was deleted or has `MaxLetters` later ones; `LatestKept` shows that a change made to
the list as it is keeps that, by an injection of the places of the list into the later
names. The proof corrected the meaning of "overlap": to compare the list with the one that
was read is not enough, since it may change and change back in between, and the older save
then commits after the newer one; `overlapped` also looks at who has saved since.
`CustomInv`: unique slugs, ids below some bound (so the next one is free, `NextIdIsFree`),
and a row still is the one a request has read unless an id was given out again.

**Greenhouse.** `LedgerInv` is in two parts. `Honest` holds always: what any run knows, has
read or is recording was confirmed, and a run reports what it saw confirmed. `Orderly`
holds until two runs have overlapped or one was cut short while it records: only one run is
under way, it knows all that was confirmed, and the ledger lacks at most the job it is
recording. `ScanInv` has the limits with room for the job of an open form (`WithinLimits`),
and an entry for each job scanned (`Accounted`, by counting places in the lists).

That boards take turns is a fact about `_interleave` for any boards. The jobs are sorted by
round, and within a round by board; every place in this order is taken by exactly one job
(`PlacesAreTaken`, `TurnsAreTaken`), what is taken before a job are those of earlier rounds
and of boards before it (`EarlierComesFirst`, `TakenByTurns`), and so two boards differ by one
job unless one of them is exhausted (`TurnsAreEven`).

**Listings.** `ListingInv`: no page and nothing left of it has an entry twice, what is left
has been seen, an application has gone out for nothing but what was taken off a page, and a
scan that was blocked is at its end with nothing left. `NewOnPage` says that what is
new on a page is in its order, without repetitions, and was not seen.

`ListsAreHonest` adds what is on the way between two lists: what was scanned is applied,
skipped, or the job whose form is open (`ListsAgree`), what has been seen was scanned or is
left of the page (`SeenIsScanned`), and as long as the listing has not changed and no page
has looked empty, the pages before the one at hand are seen but for those that failed
(`PagesAreSeen`). That an earlier page need not be looked at again rests on arithmetic
about where a page ends (`PagesInOrder`).

**Questions and flows.** What is answered is a matter of operators, so the lemmas are about
one question: an answer picked from options is one of them (`AnswerIsAnOption`), a text
is what the profile, a rule or the model says, and a right to work is never claimed for a
country that was not told (`RightIsClaimed`, `AnswerClaimsNoOther`). `GateInv` then follows
a run of a flow: an application under way is for a job that was not dropped, and where the
form is filled in, each answer it needs is in the plan.

**LinkedIn's form.** `Holds` says what a field may hold given what it held when it was shown:
what the site accepts is kept and not marked, no country or exemption is claimed, and
neither a blank nor a placeholder comes up anew. Filling in keeps that whatever the kind of
the field, and leaves nothing open that has an answer (`FilledHolds`); so does the site's
marking (`MarkedHolds`). `ModalInv` has it for every field of every page, that a page about
to be left is `Answered` unless the script failed, and that nothing has gone out
before the last page. The proof needs two assumptions on the constants that the
code justifies: a radio group has buttons, and nobody's phone number, nationality or place is
the script's own placeholder `N/A`.

**Stream and steps.** `StreamInv`: while the id is that of its run, what the client has is a
prefix of the log as long as the generator's counter says, the status told last is the
greatest of those told and not ahead of the row. `StepsInv`: a pipeline holds the results of
the attempt at hand, one for each step before the one at work.

`StepsAreRight` is about what the readers of a log make of it, so `LogInv` says what is in it.
For a flow in its first attempt (`FlowFirst`): no trigger is of a step beyond the one at work,
the steps before that one have completed, and, unless a write was lost, the step at work has
its trigger and every entry is filed under its step. For a pipeline (`PipeLog`): the last step
is logged as completed only if it has a result, and, unless a write was lost, the results are
those of the steps the markers show as done, a completion follows a start, and the
latest marker is of the step at work (`PipeWhole`). The lemmas before it add one entry to a
log: earlier entries stay filed where they were (`BucketKept`), and the new one goes to
the furthest trigger (`TriggerOfFlow`, `NoteOfFlow`) or the latest marker (`MarkOfStep`,
`NoteOfStep`). `LogGrows` covers a write of which one entry is lost.

**Views.** `ViewsInv` follows a request through its SELECTs. `TablesOK`: ids are given out
again, but among the rows there are a larger id was given out later, which is why the run
with the largest id of a job is its latest. `AskedFits`: what a request has read so far fits
the tables as long as nothing has changed since it was opened, and a row chosen for deletion
is settled and the user's own for as long as the id stands for that row. Any change keeps
this because of `RowsKept`: it leaves a row alone, ends an active one, or makes one with a
later `born`. The lemmas on numbers are apart from it: rows that come one before another can be
numbered in that order (`OrderIs`, by counting those before each), a page is as long as offset
and limit leave it (`PageIs`), statuses partition the rows (`ThreeParts`), rows counted by type
add up to the rows (`SplitCount`, a bijection), and half of the durations are no longer
than the median (`PercentileIs`).

**Leads.** `LeadInv` says what `LeadsAreSound` says of the end at every stage: an address
is a lead's only after it was seen, and one as soon as it is seen unless no server would
take it (`SeenFits`); hooks come with the last step only. The sort is a permutation that
puts the better leads first, by `OrderIs` again, and what is added afterwards changes none
of the fields the properties are about (`LeadsAnnotated`).

**Businesses.** `IndexOK` relates an index of merged rows to the rows that went in: each of
them with a key is in exactly one entry, which has the keys of its rows and no others, the
rows of an entry hang together by keys they share, no key is in two entries, and a field
is blank where all its rows leave it blank, and nowhere else. `MergeKeeps` shows that one more row keeps that,
however many entries its keys bring together; `DiscoverInv` and `CrawlInv` have it for
the index of the run and for that of each directory, the latter with the rows of pages and
records that are still to be added. The share of a source is again a matter of order:
within the interleaved list every place comes by its round (`TurnsAreFair`), so what a
cut takes of two sources differs by one at most, unless one has no more
(`InterleavedShare`).

**Readings.** Three questions with an invariant each. No row of a directory has its own
address: none that is found, or about to be added, has it (`GuildInv`), and what is merged
brings no value that none of the rows had (`NothingInvented`, `RowsOwn`). A short
list is explained: `ScanFits` says of a scan of the registry where it ended and why, and
`PagesSuffice` that as many pages as a limit needs hold that many members. What
is offered as published is published: a link, a usual path or the home page of a site that
something has named (`CrawlSites`, `FlowSites`), and what is within reach is scanned
because the first places of a list without repetitions are those of the list
(`DistinctPlace`, `ReachIsScanned`).

**Sellers.** `SoldInv`: the sellers so far are the shops of the products looked at so far, in
their order (`SellersFit`). `ApiInv` traces each product to an offer that shows its
shop behind the same others (`Traces`), for as many offers as have been read, which are
enough, all, or those of the budget (`ReadThrough`); so the shops that show first are those
that are listed. `StopInv` counts blocked pages in a row by where
they stand in the history; `LoadedInv` has the cards of the first two passes over every
page that has loaded among the products. The loop over the passes is a step per pass in
`ShopSearch`, and the proof showed what it needs of the bound: at least two passes
(`MaxScrolls`; the code has twelve), since the first pass never is the last.

**Upload and figures.** `UploadInv`: of each role the contents are the last of the files read so
far, by the greatest of their places (`NextOfRole`). The figures are sums over sets of rows. What a
sum is follows without induction over data: the sets of rows for which two of the ways
to compute a sum disagree would have a smallest one (`SmallestSubset`), and a sum does not
depend on which row is taken off first (`SumMore`). From that, a sum moves along a bijection
of the rows (`SumMoved`) and splits by article (`SumGrouped`). Tables with the same
rows for an article give it the same figures (`MetricsSame`); what is taken out of the tables
for one article, and the tables read from the end without what was not realised, are such
tables (`OwnFigures`, `RealFigures`), and the amounts paid are grouped by the article
(`RevenueSum`). The best articles are the first of an order (`BestAre`, by `OrderIs`).
`FigureInv` says that a report holds the figures of the tables and nothing else does.

**Mail.** `MailInv` counts what each person got against the answers lost so far and the
attempt under way.

The assumptions these proofs make of the constants: a limit is at least one (`min="1"` of its
field, `src/ui/index.html:684`), addresses have a total order (`cap_key`
ends with the address), the address of a directory is no blank, `Web` and `Static` describe every
site something names, the pages of the TCA are full but for the last and show a member
once, there is a request and a market to begin with, and a table holds rows of its
columns, with whole numbers for amounts: a cell that is no number is 0
(`_num`, `profit_calc_tool.py:46`); fractions are left out.

**Shell.** `OwnInv`: the only backend that is up is the one held, and a boot about to start
one is alone and finds none held. `WaitInv`: a window without the application waits for a
boot that will load it.

Operators the proofs are about are written without `SelectSeq`, `FlattenSeq` and recursion:
the facts about those take operators as parameters or need induction over data, which the
provers cannot instantiate. `Picks`, `Earlier` and `Turn` in `GreenhouseApply`, `New` in
`ListingApply` and `Others` in `SettingsStore` name the places of a sequence instead, `Ordered`
and `Selected` in `Lists` put members of a set and chosen places of a sequence in
order, a loop over rows is a step per row, and counts are cardinalities.

Every invariant and action property of the passing runs is stated by a theorem. Only
model-checked is liveness (`RunSettles`, `DueIsTaken`, `StreamEnds`, `LoginEnds`): fairness and
ENABLED are out of the prover's reach.

## 5 Where the code and its texts disagree

Met while modelling. The first two are shown by the runs `sched_dead` and `report_stale`;
for the others the property excepts the case, as its comment says, or is about
something else, and removing the exception makes TLC show the behaviour.

* **One dead schedule stops all launches.** `is_valid_cron` accepts `0 0 30 2 *`, which
  never comes. `next_fire` raises inside the loop of `_sync_and_collect`
  (`src/src/automation/scheduler.py:59`), the tick is lost, and so is every later one.
* **The report of another run.** `GET /runs/{id}/report` serves the file with the number
  of the run (`routers/runs.py:197`). Deleting a run leaves the file, and the number is
  given out again: a later run, of another type or user, is served the old figures.
* **Reused rowids.** `unregister(run_id)` in the finally clause of an old
  coroutine (`registry.py:26`) removes the entry of the run that has got the id since;
  that run cannot be cancelled. A DELETE that waits between check and commit
  (`routers/runs.py:177`) deletes it, and so does a bulk deletion (`:339`). A stream goes
  on with it (`routers/runs.py:268`).
* **A stop is not a cancel.** `executor.py:274` says that the status has been updated by
  the cancel endpoint; after a stop it has not, and the row is settled at the next start.
* **`finished_at`** stays empty on rows that `reconcile_stale_runs` settles (`database.py:82`),
  against the lifecycle of `doc/design.md:237`.
* **No attempt at all.** A `max_retries` below zero or that is no number ends the loop
  before its first turn (`executor.py:185`); the run stays in progress for good.
* **Figures from several moments.** The total and the page of a list, and the counts of the
  dashboard, are SELECTs of their own (`routers/runs.py:119`): when a run ends or goes in
  between they do not fit each other, up to a rate above 100%.
* **A changed schedule** keeps the due time of the former one (`scheduler.py:56`): the
  next launch comes at a time the new expression does not name.
* **Harness.** After an attempt that raised, the next is told the reason of an older
  result (`executor.py:220`). An unknown provider without a model gets a model of
  the base provider (`harness/provider.py:57`). A pipeline loses the model that served
  (`pipeline.py:79`). The judge is compared to the requested model, not to the
  fallback that produced the result (`executor.py:244`), and a preferred judge without
  a model compares unequal to the model it stands for (`evaluator.py:132`).
* **Keys and settings.** `resolve()` exports the key (`harness/provider.py:101`): after
  `clear_llm_key` ("fall back to the environment", `settings_store.py:117`) the cleared key
  is what the environment holds, and two flows may see each other's. Two saves of cover
  letters at once lose one (`settings_store.py:226`); two first saves of one setting, or of
  one custom automation (`custom_automations.py:118`), end in an unhandled error for
  the second; a switch or deletion that waits may meet an automation that has got the id since.
* **Last administrator.** Two requests can both count the other one (`routers/admin.py:134`).
* **Single sign-on.** Where two accounts match an address and `.first()` returns the one that
  is linked already, a third one is provisioned although the other could have been
  linked (`oauth.py:15`). A callback whose row is deleted and whose rowid is
  given out again before its commit writes to the new account.
* **Greenhouse.** A second run goes by the ledger it loaded at its start
  (`greenhouse_apply_tool.py:1006`) and applies again; a stop between truncation and write
  erases the ledger (`:627`). A required question all of whose fields are of kinds the tool
  does not know is passed over instead of skipping the job; the model is asked about a
  question of identity that is declined afterwards; a location that cannot be picked from
  the list is only logged.
* **Flows around the tools.** The judge of relevance "fails open"
  (`tasker_apply_flow.py:22`), but a verdict that is neither yes nor no, as null, is read as
  no. An empty proposal is replaced by the template with its placeholders
  (`tasker_apply_flow.py:115`), other failures by the filled-in one. What the model has
  used is lost when the tool raises.
* **Listings.** tasker takes a page that fails to load for the last one
  (`tasker_apply_tool.py:191`) and a closed case for a recorded proposal (`:278`);
  applications that are recorded but not confirmed in time do not count towards
  `max_applications` (`tw104_apply_tool.py:494`).
* **LinkedIn form.** A country is never guessed, says `linkedin_apply_tool.py:428`; when
  the profile names no nationality it is chosen as any yes-or-no answer is. An e-mail
  field is recognised and left empty.
* **Collector.** A link that `urljoin` rejects ends the run
  (`email_extract_tool.py:328`). An address first met as a guess keeps that label when a
  site publishes it later; it is not trusted beyond what its server answered.
* **Sellers.** A page of the API that is blocked after the first ends the search with what
  there is and without a word (`shopee_scraper_tool.py:258`); an exception loses the sellers
  already found.
* **Profit check.** Of two rows of costs or of ads for one article only the later counts
  (`profit_calc_tool.py:72`); an article without a completed sale is dropped, with what its
  ads and refunds cost; one without a row of costs counts as free; with a negative revenue a
  loss shows as a positive margin. A file of nothing but a byte order mark passes the upload
  and fails the run.
* **Mail.** A message the server has taken while its answer was lost goes out again at the
  next attempt (`gmail_send_tool.py:83`, `executor.py:238`); recipients the server refuses
  are not reported; a cancelled run still sends.
* **Google form** (not modelled). On an HTTP error `final_url` is the address submitted to,
  which contains the word that counts as success (`google_form_tools.py:119`).
* **Logins.** The checks of tasker, LinkedIn and Shopee take a challenge page for an
  account (`linkedin_apply_tool.py:154` against `browser_session.py:95`);
  `session_status` may report success beside the old file (`browser_session.py:232`).
* **Step view.** A pipeline that fails before its last step shows the last one as failed
  and the failed one as running (`flow_steps.py:136`); entries of a second attempt
  of a flow are filed under the furthest step of the first (`flow_steps.py:76`).
* **Shell.** A window closed and reopened while a port is picked starts a second backend
  (`electron/main.js:157`); the SIGKILL after 4 s is never sent, as the application is
  gone by then (`electron/main.js:102`).

## 6 What is not modelled

* **Crews and prompts.** Declarative; one kickoff is one external call, whose outcome is
  nondeterministic in `LlmHarness` and `RunLifecycle`. What a model answers and what a site
  looks like is outside any model of this code.
* **Other flows and scrapers** (Hacker News, web, X, sheets, Google form). One read of a
  page and one crew each, no state between two steps; whether a form is submitted once is
  up to the agent that is given the tool.
* **Text.** How addresses, fields and figures are parsed out of pages and files, and the
  selectors of the sites; what a page holds after parsing is chosen.
* **Catalogue and system routes, the layout of the report.** Static descriptions of the
  job types and read-only views of one table each.
* **Telemetry, tracing, costs.** Nothing reads them back. The wait for the tracer is part of
  `RunLifecycle`, as it delays the unregistering of a run.
* **Passwords, session cookies, permissions, the exchange of tokens.** Checks at the edge of
  a request, within one transaction. The owner of a row is modelled where a view
  filters by it (`RunViews`).
* **The rendering of the page** beyond the step progress, the stream and the polling.
* **Several replicas.** The repository deploys one process; `doc/saas-readiness.md` lists
  what would change.
* **Deployment.** Infrastructure definitions and build scripts.

## 7 Plan

What is checked is proved, but for liveness. The next thing to state would be a common
specification of scheduler, launcher and executor: that every slot fired is one run of the
board, as a refinement of both.
