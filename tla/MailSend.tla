------------------------------ MODULE MailSend ------------------------------
(* A run of email_sender: the attempts of the executor around one            *)
(* conversation with the mail server (GmailSendTool), which may break before *)
(* or after the server has taken the message.                                *)
EXTENDS Integers, FiniteSets

CONSTANTS
  People,
  MaxRetries   \* bound on max_retries of the payload

MailAssumption == MaxRetries \in Nat /\ IsFiniteSet(People)

VARIABLE
  mail  \* [stage, status, asked, recipients, configured, retries, attempt, got, sent, lost];
        \* asked: the payload has what is required; got (history): how often each of the
        \* people has got the message; lost (history): messages taken whose answer never
        \* came or died with the run

\* Recipients are those of to, cc and bcc together; a field may name nobody.
Mails ==
  [stage : {"begin"}, status : {"running"}, asked : BOOLEAN, recipients : SUBSET People,
   configured : BOOLEAN, retries : 0..MaxRetries, attempt : {0}, got : {[p \in People |-> 0]},
   sent : {FALSE}, lost : {0}]

Running == mail.status = "running"
AtMail(stage) == mail.stage = stage
Answer(sent) == [mail EXCEPT !.stage = "answered", !.sent = sent]

\* A payload that lacks something raises, which is retried as well.
Begin ==
  /\ AtMail("begin") /\ Running
  /\ mail' = IF mail.asked /\ mail.configured THEN [mail EXCEPT !.stage = "connect"] ELSE Answer(FALSE)

Login == AtMail("connect") /\ (mail' = [mail EXCEPT !.stage = "session"] \/ mail' = Answer(FALSE))

\* The server may refuse some of the recipients, which nobody hears of, or all.
SendMail ==
  /\ AtMail("session")
  /\ \E taken \in SUBSET mail.recipients :
       mail' = IF taken = {} THEN Answer(FALSE)
               ELSE [mail EXCEPT !.stage = "taken",
                                 !.got = [p \in People |-> @[p] + IF p \in taken THEN 1 ELSE 0]]

Quit == AtMail("taken") /\ (mail' = Answer(TRUE) \/ mail' = [Answer(FALSE) EXCEPT !.lost = @ + 1])

\* The last answer is the result of the run.
Settle ==
  /\ AtMail("answered") /\ Running
  /\ mail.sent \/ mail.attempt = mail.retries
  /\ mail' = [mail EXCEPT !.stage = "ended", !.status = IF mail.sent THEN "success" ELSE "failed"]

Retry ==
  /\ AtMail("answered") /\ Running
  /\ ~mail.sent /\ mail.attempt < mail.retries
  /\ mail' = [mail EXCEPT !.stage = "begin", !.attempt = @ + 1]

\* The thread that talks to the server goes on without the run.
Cancel == Running /\ mail' = [mail EXCEPT !.status = "cancelled"]

\* The process dies; the next one settles the run.
Stop ==
  /\ ~AtMail("ended")
  /\ mail' = [mail EXCEPT !.stage = "ended", !.status = IF Running THEN "failed" ELSE @,
                          !.lost = @ +
                            IF AtMail("taken") \/ (AtMail("answered") /\ mail.sent) THEN 1 ELSE 0]

MailNext == Begin \/ Login \/ SendMail \/ Quit \/ Settle \/ Retry \/ Cancel \/ Stop

-----------------------------------------------------------------------------
(* Properties.                                                               *)

\* Whatever fails after the message has been handed over: nobody gets it again unless the
\* answer to an earlier one was lost, a run that succeeds has reached somebody, and one
\* that fails nobody, unless an answer was lost.
MailIsCounted ==
  LET reached == {p \in People : mail.got[p] > 0} IN
  /\ reached \subseteq mail.recipients
  /\ \A p \in People : mail.got[p] <= mail.lost + 1
  /\ mail.status = "success" => reached # {}
  /\ mail.status = "failed" /\ reached # {} => mail.lost > 0
=============================================================================
