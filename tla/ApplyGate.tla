------------------------------ MODULE ApplyGate ------------------------------
(* The flows around the tools that apply to jobs (greenhouse_apply_flow,     *)
(* tw104_apply_flow, linkedin_apply_flow, tasker_apply_flow): the payload,   *)
(* the model, resolved only if something needs it, and what the flow hands   *)
(* to its tool: a judge of relevance, a writer of proposals, an answerer of  *)
(* screening questions.  Which jobs the tool scans, and in what order, is    *)
(* GreenhouseApply and ListingApply; here it goes through its jobs once.     *)
EXTENDS ApplyForm

CONSTANTS
  Payloads,         \* [flow, required, charges, filter, background, area, template, dry]
  MinCharge,        \* _MIN_CHARGE_FLOOR
  Openings,         \* jobs in the order of the scan
  Form,             \* job -> questions of its form
  Areas,            \* the names the table of areas has
  Unmentioned,      \* questions that name an employer the background does not mention
  Replies           \* of the model to a question

VARIABLES
  payload, step,
  llm,       \* "unasked", "none" or "ready": llm_box
  gate, answerer,   \* whether relevance_fn and answer_fn are given
  area,      \* the codes to search; all of them if there are none
  left,      \* jobs still to be scanned
  verdict, proposal,  \* of the job at hand: what the model said, who wrote the text
  plan, unset,      \* answers planned for it, those that could not be set
  outcome,          \* of the last job
  usage, reported,  \* usage_acc and state.usage
  heard      \* replies the plan has used (history)

GateAssumption ==
  /\ FormAssumption
  /\ Openings \in Seq(DOMAIN Form)
  /\ \A j \in DOMAIN Form : Form[j] \subseteq DOMAIN Questions /\ IsFiniteSet(Form[j])

NoPlan == [answers |-> <<>>, unanswered |-> {}]
Job == Head(left)

Init ==
  /\ payload \in Payloads /\ step = "validate" /\ llm = "unasked"
  /\ gate = FALSE /\ answerer = FALSE /\ area = {} /\ left = Openings
  /\ verdict = "unasked" /\ proposal = "none" /\ plan = NoPlan /\ unset = {} /\ outcome = "none"
  /\ usage = 0 /\ reported = 0 /\ heard = <<>>

\* The required fields, and for tasker the floor of the charges and their order.
IsValid ==
  /\ payload.required
  /\ payload.flow = "tasker_apply" =>
       /\ 0 \notin {payload.charges[1], payload.charges[2]}
       /\ payload.charges[1] >= MinCharge /\ payload.charges[1] <= payload.charges[2]

ValidatePayload ==
  /\ step = "validate"
  /\ step' = IF ~IsValid THEN "failed" ELSE IF payload.flow = "tw104_apply" THEN "area" ELSE "prepare"
  /\ UNCHANGED <<payload, llm, gate, answerer, area, left, verdict, proposal, plan, unset, outcome,
                 usage, reported, heard>>

\* _get_llm: resolved once, and only when it is wanted.
Resolved(wanted) == llm' \in IF wanted /\ llm = "unasked" THEN {"none", "ready"} ELSE {llm}

\* A kickoff that returns counts, whatever it returns.
Counted(calls) == usage' = usage + calls

\* Names the table of areas misses go to the model, once; only names it then finds
\* are added, and where none is found the search is nationwide.
ResolveArea ==
  /\ step = "area"
  /\ Resolved(~(payload.area \subseteq Areas))
  /\ IF payload.area \subseteq Areas \/ llm' = "none"
     THEN area' = payload.area \cap Areas /\ Counted(0)
     ELSE \E names \in {{}} \cup {{a} : a \in Areas}, failed \in BOOLEAN :
            /\ failed => names = {}
            /\ area' = (payload.area \cap Areas) \cup names
            /\ Counted(IF failed THEN 0 ELSE 1)
  /\ step' = "prepare"
  /\ UNCHANGED <<payload, gate, answerer, left, verdict, proposal, plan, unset, outcome, reported, heard>>

\* Who needs the model: the writer of proposals, the gate, the answerer.
Wanted ==
  \/ payload.flow = "tasker_apply" \/ payload.filter
  \/ payload.flow = "greenhouse_apply" /\ payload.background

\* Without a model the gate stays open and questions unanswered.
Prepare ==
  /\ step = "prepare"
  /\ Resolved(Wanted)
  /\ gate' = (payload.filter /\ llm' = "ready")
  /\ answerer' = (payload.flow = "greenhouse_apply" /\ payload.background /\ llm' = "ready")
  /\ step' = "scan"
  /\ UNCHANGED <<payload, area, left, verdict, proposal, plan, unset, outcome, usage, reported, heard>>

\* The judge drops a job only on a verdict it can read; a value that is neither yes
\* nor no ("odd") reads as no.
Keeps(said) == said \notin {"irrelevant", "odd"}

\* What the loop does with a job, and then it takes the next.
Ends(result) ==
  /\ left' = Tail(left) /\ step' = "scan" /\ outcome' = result
  /\ plan' = NoPlan /\ unset' = {} /\ heard' = <<>>
GoesTo(next) == step' = next /\ UNCHANGED left

Judge ==
  /\ step = "scan" /\ left # <<>>
  /\ verdict' \in IF gate THEN {"relevant", "irrelevant", "odd", "garbled", "failed"} ELSE {"unasked"}
  /\ Counted(IF verdict' \in {"unasked", "failed"} THEN 0 ELSE 1)
  /\ IF Keeps(verdict') THEN GoesTo("apply") /\ outcome' = "none" /\ UNCHANGED <<plan, unset, heard>>
     ELSE Ends("dropped")
  /\ proposal' = "none"
  /\ UNCHANGED <<payload, llm, gate, answerer, area, reported>>

\* The template with the title in it, unless it cannot be formatted.
Template == IF payload.template = "broken" THEN "raw" ELSE "filled"

\* A reply without text falls back to the template as it is.
Written(reply) == CASE reply = "text" -> "model" [] reply = "empty" -> "raw" [] OTHER -> Template

\* proposal_fn of tasker; the others have nothing to write.
Propose ==
  /\ step = "apply" /\ payload.flow # "greenhouse_apply"
  /\ IF payload.flow # "tasker_apply" THEN Counted(0) /\ UNCHANGED proposal
     ELSE \E reply \in IF llm = "ready" THEN {"text", "empty", "failed"} ELSE {"failed"} :
            /\ proposal' = Written(reply)
            /\ Counted(IF reply = "failed" THEN 0 ELSE 1)
  /\ step' = "send"
  /\ UNCHANGED <<payload, llm, gate, answerer, area, left, verdict, plan, unset, outcome, reported, heard>>

\* The questions of the form the answerer lets the model see.
Asked == {id \in Form[Job] : Questions[id].part = "question" /\ Consulted(Questions[id], Job)}
Shown == IF answerer THEN Asked \ Unmentioned ELSE {}

\* A job with a required question left unanswered is skipped, one whose form cannot
\* be fetched fails.
Plan ==
  /\ step = "apply" /\ payload.flow = "greenhouse_apply"
  /\ \/ Counted(0) /\ Ends("failed")
     \/ \E said \in [Shown -> Replies \cup {Blank, "failed"}] :
          LET replies == [id \in Form[Job] |-> IF id \in Shown /\ said[id] # "failed" THEN said[id] ELSE Blank]
              planned == PlanAnswers(Form[Job], Job, replies)
          IN /\ Counted(Cardinality({id \in Shown : said[id] # "failed"}))
             /\ IF planned.unanswered # {} THEN Ends("unanswered")
                ELSE GoesTo("fill") /\ plan' = planned /\ heard' = replies /\ UNCHANGED <<unset, outcome>>
  /\ UNCHANGED <<payload, llm, gate, answerer, area, verdict, proposal, reported>>

\* A location may stay as typed, any other field that cannot be set ends the attempt.
UnsetIsFatal(failing) == \E id \in failing : Questions[id].topic # "location"

\* One field that fails is enough to tell.
Fill ==
  /\ step = "fill"
  /\ \E failing \in {{}} \cup {{id} : id \in DOMAIN plan.answers} :
       IF UnsetIsFatal(failing) THEN Ends("failed")
       ELSE GoesTo("send") /\ unset' = failing /\ UNCHANGED <<plan, heard, outcome>>
  /\ UNCHANGED <<payload, llm, gate, answerer, area, verdict, proposal, usage, reported>>

\* Only a confirmation counts: otherwise there was no form or no button, or, once it
\* is sent, a code is asked for or nothing is shown in time.
Send ==
  /\ step = "send"
  /\ \E result \in {"failed"} \cup IF payload.dry THEN {"prepared"} ELSE {"submitted", "unconfirmed"} :
       Ends(result)
  /\ UNCHANGED <<payload, llm, gate, answerer, area, verdict, proposal, usage, reported>>

ToolReturns ==
  /\ step = "scan" /\ left = <<>>
  /\ step' = "done" /\ reported' = usage
  /\ UNCHANGED <<payload, llm, gate, answerer, area, left, verdict, proposal, plan, unset, outcome,
                 usage, heard>>

\* What the calls have cost is lost with an exception.
ToolRaises ==
  /\ step = "scan"
  /\ step' = "failed"
  /\ UNCHANGED <<payload, llm, gate, answerer, area, left, verdict, proposal, plan, unset, outcome,
                 usage, reported, heard>>

Next ==
  \/ ValidatePayload \/ ResolveArea \/ Prepare \/ Judge \/ Propose \/ Plan \/ Fill \/ Send
  \/ ToolReturns \/ ToolRaises

-----------------------------------------------------------------------------
(* Properties.                                                               *)

GateTypeOK ==
  /\ step \in {"validate", "area", "prepare", "scan", "apply", "fill", "send", "done", "failed"}
  /\ llm \in {"unasked", "none", "ready"} /\ gate \in BOOLEAN /\ answerer \in BOOLEAN
  /\ usage \in Nat /\ reported \in Nat

\* The gate fails open: it drops a job only when the model has said something of
\* this job that reads as no, and then nothing is sent.
GateFailsOpen ==
  /\ outcome = "dropped" => verdict \in {"irrelevant", "odd"}
  /\ verdict = "irrelevant" => outcome = "dropped"

\* A run that needs no model asks for none.
LlmIsLazy == llm # "unasked" => Wanted \/ (payload.flow = "tw104_apply" /\ ~(payload.area \subseteq Areas))

\* Nothing in a form is guessed: every answer is one the profile, a rule or an
\* option justifies, or the model gave to a question it may see.
NothingIsGuessed ==
  step = "fill" => \A id \in DOMAIN plan.answers :
    /\ IsHonest(id, Job, plan.answers[id], heard[id])
    /\ heard[id] # Blank => answerer /\ id \notin Unmentioned

\* What is sent is complete: every required question the tool can see has an answer,
\* and it is in the form, but for a location.
SentIsComplete ==
  step = "send" /\ payload.flow = "greenhouse_apply" =>
    /\ \A id \in Form[Job] : Questions[id].required /\ (Questions[id].part = "question" => Supported(Questions[id]))
         => id \in DOMAIN plan.answers
    /\ \A id \in unset : Questions[id].topic = "location"

\* The area searched holds every area asked for by name, and others only where a
\* name was not known.
AreaIsKept ==
  step \notin {"validate", "area", "failed"} /\ payload.flow = "tw104_apply" =>
    /\ payload.area \cap Areas \subseteq area
    /\ payload.area \subseteq Areas => area = payload.area
=============================================================================
