------------------------------ MODULE EasyApply ------------------------------
(* _apply_to_job of linkedin_apply_tool.py and its script _FILL_JS: one Easy *)
(* Apply form, page by page, each filled in before it is left; the site      *)
(* refuses a page with an answer missing or wrong.  Field values stand for   *)
(* what they were taken from.  Which resume is picked, and that the draft is *)
(* discarded at the end, are left out.                                       *)
EXTENDS Integers, Sequences, SequencesExt

CONSTANTS
  Forms,     \* sequences of pages, which are sequences of fields
  Profiles,  \* [phone, nationality, place], "" for what is not given
  MaxSteps,  \* _MAX_MODAL_STEPS
  MaxErrors  \* the tries a form gets, 3

\* A fussy field takes no answer of the script.  The option "own" is the one that fits
\* the profile.
Field ==
  [kind : {"text", "number", "select", "radio", "textarea", "checkbox"}, topic : STRING,
   required : BOOLEAN, value : STRING, invalid : BOOLEAN, fussy : BOOLEAN,
   options : Seq({"yes", "no", "own", "abroad"})]

\* Nothing is marked before the page has been tried, and a radio has buttons; nobody
\* gives a placeholder as a datum.
ModalAssumption ==
  /\ MaxSteps \in Nat /\ MaxErrors \in Nat
  /\ \A f \in Forms : f \in Seq(Seq(Field)) /\ f # <<>> /\ \A n \in DOMAIN f : \A i \in DOMAIN f[n] :
       ~f[n][i].invalid /\ (f[n][i].kind = "radio" => f[n][i].options # <<>>)
  /\ Profiles \subseteq [phone : STRING \ {"N/A"}, nationality : STRING \ {"N/A"}, place : STRING \ {"N/A"}]

VARIABLE
  modal  \* [stage, shown, form, at, steps, errors, profile, dry, result, sends, recorded,
         \* broken]; shown is the form as it was opened and broken that the script failed
         \* (both history), sends and recorded are the site's

ModalInit ==
  \E f \in Forms, p \in Profiles, d \in BOOLEAN :
    modal = [stage |-> "job", shown |-> f, form |-> f, at |-> 1, steps |-> 0, errors |-> 0,
             profile |-> p, dry |-> d, result |-> "none", sends |-> 0, recorded |-> FALSE, broken |-> FALSE]

-----------------------------------------------------------------------------
(* _FILL_JS: what a field holds afterwards.                                  *)

\* Nothing filled in, and what stands for it where a value is required.
Blank == ""

Placeholder == "N/A"

TextFor(f, p) ==
  CASE f.topic = "phone" -> p.phone
    [] f.topic = "email" -> Blank
    [] f.topic = "nationality" -> p.nationality
    [] f.topic = "salary" -> "0"
    [] f.topic = "place" -> p.place
    [] OTHER -> IF f.topic = "years" \/ f.required THEN "years" ELSE Blank

TextAnswer(f, p) ==
  IF (f.value \notin {Blank, Placeholder} /\ ~f.invalid) \/ TextFor(f, p) = Blank THEN f.value ELSE TextFor(f, p)

NumberAnswer(f) ==
  IF f.value # Blank /\ ~f.invalid THEN f.value
  ELSE CASE f.topic = "years" -> "years" [] f.topic = "salary" -> "0" [] OTHER -> "1"

\* No to sponsorship and yes to the rest, or else the first there is.
YesOrNo(f) ==
  LET want == IF f.topic = "sponsorship" THEN "no" ELSE "yes"
  IN  IF want \in ToSet(f.options) THEN want ELSE f.options[1]

\* A country is not guessed, as long as the profile names one; without, it is guessed as
\* any other answer, whatever the comment of the script says.
IsCountry(f, p) ==
  (f.topic = "nationality" /\ p.nationality # Blank) \/ (f.topic = "place" /\ p.place # Blank)

SelectAnswer(f, p) ==
  IF f.value # Blank \/ f.options = <<>> THEN f.value
  ELSE IF ~IsCountry(f, p) THEN YesOrNo(f)
  ELSE IF "own" \in ToSet(f.options) THEN "own" ELSE f.value

Filled(f, p) ==
  [f EXCEPT !.value =
     CASE f.kind = "text" -> TextAnswer(f, p)
       [] f.kind = "number" -> NumberAnswer(f)
       [] f.kind = "select" -> SelectAnswer(f, p)
       [] f.kind = "radio" -> IF f.value = Blank THEN YesOrNo(f) ELSE f.value
       [] f.kind = "textarea" -> IF f.value = Blank /\ f.required THEN "see my profile" ELSE f.value
       [] f.kind = "checkbox" -> IF f.required THEN "checked" ELSE f.value]

-----------------------------------------------------------------------------
(* The funnel.                                                               *)

At(stage) == modal.stage = stage

Ends(m, result) == modal' = [m EXCEPT !.stage = "ended", !.result = result]
To(m, stage) == modal' = [m EXCEPT !.stage = stage]

\* No Easy Apply button, one that cannot be clicked, a modal that does not open.
OpenModal ==
  /\ At("job")
  /\ \/ Ends(modal, "skipped") \/ Ends(modal, "failed")
     \/ To(modal, "page")

\* A page without a button to go on, or one page too many.
WaitForStep ==
  /\ At("page")
  /\ \/ Ends(modal, "failed")
     \/ modal.steps < MaxSteps /\ To([modal EXCEPT !.steps = @ + 1], "fill")

FillPage ==
  LET p == modal.profile
      page == modal.form[modal.at]
  IN /\ At("fill")
     /\ \/ To([modal EXCEPT !.form[modal.at] = [i \in DOMAIN page |-> Filled(page[i], p)]], "press")
        \/ To([modal EXCEPT !.broken = TRUE], "press")

\* The site.
IsValid(f) == (f.required => f.value # Blank) /\ f.value # Placeholder /\ ~f.fussy
PageIsValid == \A i \in DOMAIN modal.form[modal.at] : IsValid(modal.form[modal.at][i])
Flagged ==
  LET page == modal.form[modal.at]
  IN  [modal EXCEPT !.form[modal.at] = [i \in DOMAIN page |-> [page[i] EXCEPT !.invalid = ~IsValid(page[i])]]]

OnSubmitPage == modal.at = Len(modal.form)

ClickRaises == At("press") /\ ~(OnSubmitPage /\ modal.dry) /\ Ends(modal, "failed")

Submit ==
  /\ At("press") /\ OnSubmitPage
  /\ IF modal.dry THEN Ends(modal, "prepared")
     ELSE \E taken \in {FALSE, PageIsValid} :
            To([modal EXCEPT !.sends = @ + 1, !.recorded = taken], "sent")

\* The banner that only a recorded application brings; it may come too late.
Confirm ==
  /\ At("sent")
  /\ Ends(modal, "unconfirmed") \/ (modal.recorded /\ Ends(modal, "submitted"))

\* The page is left, or shows its errors; they may be read too early.
Advance ==
  /\ At("press") /\ ~OnSubmitPage
  /\ \/ PageIsValid /\ To([modal EXCEPT !.at = @ + 1], "page")
     \/ ~PageIsValid /\ To(Flagged, "page")
     \/ /\ ~PageIsValid
        /\ IF modal.errors >= MaxErrors THEN Ends(Flagged, "unanswered")
           ELSE To([Flagged EXCEPT !.errors = @ + 1], "page")

ModalNext == OpenModal \/ WaitForStep \/ FillPage \/ ClickRaises \/ Submit \/ Confirm \/ Advance

-----------------------------------------------------------------------------
(* Properties.                                                               *)

\* A dry run sends nothing, no form is sent twice, and "success is ONLY a confirmed
\* banner": what is called submitted is recorded.
SentForReal ==
  /\ modal.sends <= IF modal.dry THEN 0 ELSE 1
  /\ modal.result = "submitted" => modal.recorded

\* Nothing is put over an answer the site had filled in and accepts.
IsKept(was, is) == was.value # Blank /\ IsValid(was) /\ was.kind # "checkbox" => is.value = was.value
PrefilledIsKept ==
  \A n \in DOMAIN modal.form : \A i \in DOMAIN modal.form[n] : IsKept(modal.shown[n][i], modal.form[n][i])

\* No country is picked that is not the applicant's, as long as the profile names it,
\* and sponsorship is not asked for where "no" can be answered.
ClaimsNothing(was, is, p) ==
  /\ is.kind = "select" /\ IsCountry(is, p) => is.value \in {was.value, "own"}
  /\ is.kind \in {"select", "radio"} /\ is.topic = "sponsorship" /\ was.value = Blank /\ "no" \in ToSet(is.options)
       => is.value \in {Blank, "no"}
NothingIsClaimed ==
  \A n \in DOMAIN modal.form : \A i \in DOMAIN modal.form[n] :
    ClaimsNothing(modal.shown[n][i], modal.form[n][i], modal.profile)

\* A form is only given up as unanswerable at a question that has no answer: one the site
\* is fussy about, or one that asks for what the profile does not give; unless the script
\* failed on a page.
HasAnswer(f, p) ==
  /\ ~f.fussy
  /\ f.value = Placeholder => f.kind = "text"
  /\ f.value = Placeholder \/ (f.required /\ f.value = Blank) =>
       /\ f.kind = "text" => /\ f.topic # "email"
                             /\ f.required \/ f.topic \in {"phone", "nationality", "salary", "place", "years"}
                             /\ f.topic = "phone" => p.phone # Blank
                             /\ f.topic = "nationality" => p.nationality # Blank
                             /\ f.topic = "place" => p.place # Blank
       /\ f.kind = "select" => f.options # <<>> /\ (IsCountry(f, p) => "own" \in ToSet(f.options))

GivenUpForReason ==
  modal.result = "unanswered" /\ ~modal.broken =>
    LET page == modal.shown[modal.at] IN \E i \in DOMAIN page : ~HasAnswer(page[i], modal.profile)

EasyIsHonest == SentForReal /\ PrefilledIsKept /\ NothingIsClaimed /\ GivenUpForReason
=============================================================================
