---------------------------- MODULE ListingApply ----------------------------
(* run_tasker_apply, run_tw104_apply and run_linkedin_apply: one scan of a   *)
(* paged listing that applies to what it finds until it has reached its      *)
(* target.  Meanwhile the site publishes, closes and reorders entries, and   *)
(* an application may be recorded without an answer and answered without     *)
(* being recorded.                                                           *)
(*                                                                           *)
(* A definition directly above another one with the same parameters is a     *)
(* mutant of it (PROJECT.json, mutants).                                     *)
EXTENDS Integers, Sequences, FiniteSets, SequencesExt

CONSTANTS
  Tools,       \* subset of {"tasker_apply", "tw104_apply", "linkedin_apply"}
  Jobs,        \* job openings or cases
  Listed,      \* those listed at the start, in order
  PageSize,    \* entries on a page of the listing
  MaxPages,    \* max_pages
  MaxLimit,    \* bound on max_cases, max_applications
  MaxOutages,  \* bound on pages that fail
  MaxChanges,  \* bound on the changes of the listing
  NoJob

ListingAssumption ==
  /\ Tools \subseteq {"tasker_apply", "tw104_apply", "linkedin_apply"}
  /\ Listed \in Seq(Jobs) /\ IsInjective(Listed)
  /\ {PageSize, MaxPages, MaxLimit} \subseteq Nat \ {0}
  /\ MaxOutages \in Nat /\ MaxChanges \in Nat
  /\ NoJob \notin Jobs

VARIABLES
  tool, dry, limit,  \* the tool, dry_run, and max_cases or max_applications
  pc,         \* "page", "scan", "form", "sent", "ended"
  page,       \* page_num
  queue,      \* new_ids: what is left of the page
  seen,
  job,        \* the job of the form that is open
  scanned, applied, skipped,
  blocked,    \* block_msg is set
  known,      \* jobs taken for applied: my_proposed, or marked in the listing
  listing,    \* the site: what it lists,
  closed,     \*   what it has closed,
  recorded,   \*   the applications it holds,
  sends,      \*   job -> applications it has been sent by this run
  changes, outages

input == <<tool, dry, limit>>
lists == <<scanned, applied, skipped>>
site == <<listing, closed, recorded, sends, changes>>
vars == <<input, pc, page, queue, seen, job, lists, blocked, known, site, outages>>

Init ==
  /\ tool \in Tools /\ dry \in BOOLEAN /\ limit \in 1..MaxLimit
  /\ pc = "page" /\ page = 1 /\ queue = <<>> /\ seen = {} /\ job = NoJob
  /\ scanned = <<>> /\ applied = <<>> /\ skipped = <<>>
  /\ blocked = FALSE
  /\ listing = Listed /\ closed = {}
  /\ recorded \in {{}} \cup {{Listed[i]} : i \in DOMAIN Listed \cap {1}}
  /\ known = IF tool = "tasker_apply" THEN recorded ELSE {}
  /\ sends = [j \in Jobs |-> 0]
  /\ changes = 0 /\ outages = {}

Target == Len(applied) >= limit

PageOf(p) == LET last == p * PageSize
             IN  SubSeq(listing, last - PageSize + 1, IF last < Len(listing) THEN last ELSE Len(listing))

-----------------------------------------------------------------------------
(* The pages.                                                                *)

NewAgain(jobs) == jobs
New(jobs) ==
  LET kept == {i \in DOMAIN jobs : jobs[i] \notin seen}
  IN  [k \in 1..Cardinality(kept) |->
         jobs[CHOOSE i \in kept : Cardinality({h \in kept : h <= i}) = k]]

\* No page beyond max_pages and none once the target is reached.
MayTurn == ~Target /\ page <= MaxPages

\* Without anything new on it, the page is taken for the end of the listing.
Read(jobs) ==
  /\ pc = "page" /\ MayTurn
  /\ queue' = New(jobs) /\ seen' = seen \cup ToSet(jobs)
  /\ pc' = IF New(jobs) = <<>> THEN "ended" ELSE "scan"
  /\ known' = IF tool = "tasker_apply" THEN known ELSE known \cup (ToSet(jobs) \cap recorded)
  /\ UNCHANGED <<input, page, job, lists, blocked, site>>

LoadPage == Read(PageOf(page)) /\ UNCHANGED outages

IsOut(way) ==
  /\ Cardinality(outages) < MaxOutages
  /\ outages' = outages \cup {[page |-> page, way |-> way]}

\* The page is there but renders no entry in time.
BlankPage == IsOut("blank") /\ Read(<<>>)

\* Three failed attempts: the tasker tool returns an empty page, the others
\* None, which turns to the next page.
EmptyOnFailureAlways == TRUE
EmptyOnFailure == tool = "tasker_apply"

FailPage ==
  /\ IsOut("failed")
  /\ IF EmptyOnFailure
     THEN Read(<<>>)
     ELSE /\ pc = "page" /\ MayTurn
          /\ page' = page + 1
          /\ UNCHANGED <<input, pc, queue, seen, job, lists, blocked, known, site>>

Proceeds == "page"
ProceedsUnlessBlocked == IF blocked THEN "ended" ELSE "page"

LeavesPage == queue = <<>> \/ Target

TurnPage ==
  /\ pc = "scan" /\ LeavesPage
  /\ queue' = <<>>
  /\ page' = page + 1
  /\ pc' = ProceedsUnlessBlocked
  /\ UNCHANGED <<input, seen, job, lists, blocked, known, site, outages>>

EndScan ==
  /\ pc = "page" /\ ~MayTurn
  /\ pc' = "ended"
  /\ UNCHANGED <<input, page, queue, seen, job, lists, blocked, known, site, outages>>

-----------------------------------------------------------------------------
(* One entry.                                                                *)

Available(j) == j \notin closed \cup recorded

Scan(j) ==
  /\ pc = "scan" /\ ~LeavesPage
  /\ j = Head(queue)
  /\ queue' = Tail(queue)
  /\ scanned' = Append(scanned, j)
  /\ UNCHANGED <<input, page, seen, blocked, known, site, outages>>

SkippedSilently(j) == skipped
SkippedWith(j) == Append(skipped, j)

\* Known as applied, not available, filtered out, or something raises.
Skip ==
  /\ \E j \in Jobs : Scan(j) /\ skipped' = SkippedWith(j)
  /\ UNCHANGED <<pc, job, applied>>

\* proposal/check of tasker, the apply button of the others.
OpenForm ==
  /\ \E j \in Jobs : Scan(j) /\ j \notin known /\ Available(j) /\ job' = j
  /\ pc' = "form"
  /\ UNCHANGED <<applied, skipped>>

Finish(list, other) ==
  /\ list' = Append(list, job)
  /\ job' = NoJob /\ pc' = "scan"
  /\ UNCHANGED <<input, page, seen, scanned, other, known, outages>>

Prepare ==
  /\ pc = "form" /\ dry
  /\ Finish(applied, skipped)
  /\ UNCHANGED <<queue, site, blocked>>

\* The form cannot be filled in or has no button to send it.
GiveUp ==
  /\ pc = "form"
  /\ Finish(skipped, applied)
  /\ UNCHANGED <<queue, site, blocked>>

IsSent == sends' = [sends EXCEPT ![job] = @ + 1]

IsRecorded == Available(job) /\ recorded' = recorded \cup {job}

\* The site takes the application; whether it records it is its own affair.
Send ==
  /\ pc = "form" /\ ~dry
  /\ IsSent
  /\ IsRecorded \/ UNCHANGED recorded
  /\ pc' = "sent"
  /\ UNCHANGED <<input, page, queue, seen, job, lists, blocked, known, listing, closed, changes, outages>>

\* The site refuses it, or the answer is lost after it has been recorded.
SendFails ==
  /\ pc = "form" /\ ~dry
  /\ IsSent
  /\ IsRecorded \/ UNCHANGED recorded
  /\ Finish(skipped, applied)
  /\ UNCHANGED <<queue, blocked, listing, closed, changes>>

\* A status of _STOP_STATUSES: the rest of the page is left.
SendBlocked ==
  /\ pc = "form" /\ ~dry /\ tool = "tasker_apply"
  /\ IsSent
  /\ blocked' = TRUE /\ queue' = <<>>
  /\ Finish(skipped, applied)
  /\ UNCHANGED <<listing, closed, recorded, changes>>

\* tasker reads can_propose and the status of the proposal back; the others
\* wait for the page or the banner that only a recorded application brings.
Confirms(j) == j \in recorded \/ (tool = "tasker_apply" /\ j \in closed)

Confirmed ==
  /\ pc = "sent" /\ Confirms(job)
  /\ Finish(applied, skipped)
  /\ UNCHANGED <<queue, site, blocked>>

\* Nothing confirms it in time, although it may be recorded.
Unconfirmed ==
  /\ pc = "sent"
  /\ Finish(skipped, applied)
  /\ UNCHANGED <<queue, site, blocked>>

\* LinkedIn pauses after every job inside the same try: when the page is gone
\* by then, the job that was just listed is listed as failed, too.
PauseFails ==
  /\ tool = "linkedin_apply" /\ pc = "scan"
  /\ scanned # <<>> /\ applied # <<>> /\ Last(applied) = Last(scanned)
  /\ Last(scanned) \notin ToSet(skipped)
  /\ skipped' = Append(skipped, Last(scanned))
  /\ UNCHANGED <<input, pc, page, queue, seen, job, scanned, applied, blocked, known, site, outages>>

-----------------------------------------------------------------------------
(* The site.                                                                 *)

Publish ==
  /\ changes < MaxChanges
  /\ changes' = changes + 1
  /\ \E j \in Jobs \ (ToSet(listing) \cup closed) : listing' = <<j>> \o listing
  /\ UNCHANGED <<closed, recorded, sends>>

Close ==
  /\ changes < MaxChanges
  /\ changes' = changes + 1
  /\ \E i \in DOMAIN listing :
       /\ listing' = RemoveAt(listing, i)
       /\ closed' = closed \cup {listing[i]}
  /\ UNCHANGED <<recorded, sends>>

SiteChanges ==
  /\ pc # "ended" /\ (Publish \/ Close)
  /\ UNCHANGED <<input, pc, page, queue, seen, job, lists, blocked, known, outages>>

Run ==
  \/ LoadPage \/ BlankPage \/ FailPage \/ TurnPage \/ EndScan
  \/ Skip \/ OpenForm \/ Prepare \/ GiveUp
  \/ Send \/ SendFails \/ SendBlocked \/ Confirmed \/ Unconfirmed \/ PauseFails

Next == Run \/ SiteChanges

Spec == Init /\ [][Next]_vars

-----------------------------------------------------------------------------
(* Properties.                                                               *)

TypeOK ==
  /\ tool \in Tools /\ dry \in BOOLEAN /\ limit \in 1..MaxLimit
  /\ pc \in {"page", "scan", "form", "sent", "ended"}
  /\ page \in 1..(MaxPages + 1)
  /\ queue \in Seq(Jobs) /\ seen \subseteq Jobs /\ job \in Jobs \cup {NoJob}
  /\ {scanned, applied, skipped} \subseteq Seq(Jobs)
  /\ blocked \in BOOLEAN /\ known \subseteq Jobs
  /\ listing \in Seq(Jobs) /\ closed \subseteq Jobs /\ recorded \subseteq Jobs
  /\ sends \in [Jobs -> Nat]
  /\ changes \in 0..MaxChanges /\ outages \subseteq [page : 1..MaxPages, way : {"failed", "blank"}]

\* However the listing moves between two pages, a run applies to a job at most
\* once, also when the first application was not confirmed.
SentOnce == \A j \in Jobs : sends[j] <= 1

\* What a run has scanned, and nothing else, is listed as applied or as skipped,
\* and it is listed once; only LinkedIn's tool may list a job it has applied to
\* as skipped, too.
EachListedOnce ==
  pc # "form" /\ pc # "sent" =>
    /\ ToSet(scanned) = ToSet(applied) \cup ToSet(skipped)
    /\ tool # "linkedin_apply" => Len(scanned) = Len(applied) + Len(skipped)

\* A run ends below its target only when it has scanned every page that loaded
\* (or was blocked): a page that fails costs the jobs on it and no others.  A
\* page that cannot be told from an empty one is taken for the end: a blank one
\* and, for tasker, one that fails.
LooksEmpty(o) == o.way = "blank" \/ tool = "tasker_apply"

LoadedIsScanned ==
  pc = "ended" /\ ~Target /\ ~blocked /\ changes = 0 /\ ~(\E o \in outages : LooksEmpty(o)) =>
    \A p \in 1..MaxPages :
      (\A o \in outages : o.page # p) => ToSet(PageOf(p)) \subseteq ToSet(scanned)

\* "Only count it as applied once the site confirms it": what is listed as
\* applied is recorded at the site, whatever was answered; a case that tasker
\* has closed since answers like one that is recorded.
AppliedIsRecorded ==
  ~dry => ToSet(applied) \subseteq recorded \cup (IF tool = "tasker_apply" THEN closed ELSE {})

\* Once the account is blocked, no further application goes out.
NoSendAfterBlock == [][blocked => UNCHANGED sends]_vars
=============================================================================
