----------------------------- MODULE ApplyFlows -----------------------------
(* Applying to jobs, as the executor dispatches to it by job type: the tools *)
(* run_greenhouse_apply, which keeps a ledger (GreenhouseApply), and a scan  *)
(* of one of the paged listings, which asks the site what it has already got *)
(* (ListingApply), the flows around them (ApplyGate), and the form of one    *)
(* job at LinkedIn (EasyApply).  A tool takes whatever the flow's functions  *)
(* answer as any answer, a form as any outcome, and the tools share nothing, *)
(* so a behaviour is one of a tool, of a flow, or of a form.                 *)
EXTENDS GreenhouseApply

CONSTANTS
  Tools, Listed, PageSize, MaxPages, MaxLimit, MaxOutages, MaxChanges,
  Means, Profile, Questions, Place,
  Payloads, MinCharge, Openings, Form, Areas, Unmentioned, Replies,
  Forms, Profiles, MaxSteps, MaxErrors

VARIABLES
  tool, dry, limit, pc, page, queue, seen, job, scanned, applied, skipped,
  blocked, known, listing, closed, recorded, sends, changes, outages

VARIABLES
  payload, step, llm, gate, answerer, area, left, verdict, proposal,
  plan, unset, outcome, usage, reported, heard

VARIABLE modal

Listings == INSTANCE ListingApply
Gate == INSTANCE ApplyGate
Modal == INSTANCE EasyApply

ASSUME ListingsAssumption == Listings!ListingAssumption
ASSUME QuestionsAssumption == Gate!GateAssumption
ASSUME FormsAssumption == Modal!ModalAssumption

VARIABLES
  jobType,  \* what the run has been dispatched to
  level     \* "tool", "flow" or "form"

JobTypes == {"greenhouse_apply"} \cup Tools

listingVars ==
  <<tool, dry, limit, pc, page, queue, seen, job, scanned, applied, skipped,
    blocked, known, listing, closed, recorded, sends, changes, outages>>
flowVars ==
  <<payload, step, llm, gate, answerer, area, left, verdict, proposal, plan, unset,
    outcome, usage, reported, heard>>
allVars == <<vars, listingVars, flowVars, modal, jobType, level>>

OfGreenhouse ==
  level = "tool" /\ jobType = "greenhouse_apply"
  /\ UNCHANGED <<jobType, level, listingVars, flowVars, modal>>
OfListing == level = "tool" /\ jobType = tool /\ UNCHANGED <<jobType, level, vars, flowVars, modal>>
OfFlow == level = "flow" /\ UNCHANGED <<jobType, level, vars, listingVars, modal>>
OfForm == level = "form" /\ UNCHANGED <<jobType, level, vars, listingVars, flowVars>>

\* The variables of what does not run keep one initial value.
FlowsInit ==
  /\ jobType \in JobTypes /\ level \in {"tool", "flow", "form"}
  /\ Init /\ Listings!Init /\ Gate!Init /\ Modal!ModalInit
  /\ IF level = "tool" /\ jobType \in Tools THEN tool = jobType
     ELSE tool = (CHOOSE t \in Tools : TRUE) /\ dry /\ limit = 1 /\ recorded = {}
  /\ IF level = "flow" THEN payload.flow = jobType ELSE payload = CHOOSE p \in Payloads : TRUE
  /\ IF level = "form" THEN jobType = "linkedin_apply"
     ELSE modal.dry /\ modal.form = (CHOOSE f \in Forms : TRUE) /\ modal.profile = CHOOSE p \in Profiles : TRUE

FlowsNext ==
  \/ Next /\ OfGreenhouse
  \/ Listings!Next /\ OfListing
  \/ Gate!Next /\ OfFlow
  \/ Modal!ModalNext /\ OfForm

FlowsSpec == FlowsInit /\ [][FlowsNext]_allVars

-----------------------------------------------------------------------------
(* Properties: those of GreenhouseApply, and these of the others.            *)

\* The types of all modules.
FlowsTypeOK ==
  TypeOK /\ Listings!TypeOK /\ Gate!GateTypeOK /\ jobType \in JobTypes /\ level \in {"tool", "flow", "form"}

\* However the listing moves between two pages, a run applies to a job at most
\* once, also when the first application was not confirmed.
SentOnce == Listings!SentOnce

\* What a run has scanned, and nothing else, is listed, as applied or skipped,
\* and what it lists as applied is recorded at the site; a page that fails to load
\* costs the jobs on it and no others; and the types.
ListsAreHonest ==
  FlowsTypeOK /\ Listings!EachListedOnce /\ Listings!AppliedIsRecorded /\ Listings!LoadedIsScanned

\* A flow neither guesses in a form nor drops a job for want of a model, sends no
\* form with a required answer missing, searches the area asked for, and asks
\* for a model only where it is of use; a form at LinkedIn claims nothing that is not so,
\* keeps what was filled in, and is given up only at what has no answer.
FlowIsHonest ==
  /\ Gate!NothingIsGuessed /\ Gate!SentIsComplete /\ Gate!GateFailsOpen
  /\ Gate!AreaIsKept /\ Gate!LlmIsLazy
  /\ Modal!EasyIsHonest

\* Once the account is blocked, no further application goes out.
NoSendAfterBlock == Listings!NoSendAfterBlock
=============================================================================
