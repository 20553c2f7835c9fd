----------------------------- MODULE RunPagesMC -----------------------------
(* An administrator and a user, jobs of a type with a report and of one      *)
(* without, and runs of which one is retried and one takes longer.           *)
EXTENDS RunPages

MCOutcomes ==
  {[status |-> "success", retried |-> FALSE, seconds |-> 1],
   [status |-> "failed", retried |-> TRUE, seconds |-> 2]}

AnyRun == [user |-> "root", status |-> "any", type |-> "any", since |-> 0, until |-> 0, offset |-> 0, limit |-> 2]
MCQueries ==
  {AnyRun, [AnyRun EXCEPT !.offset = 1, !.limit = 1, !.status = "failed"],
   [AnyRun EXCEPT !.type = "profit", !.user = "ann", !.since = 2, !.until = 2]}
=============================================================================
