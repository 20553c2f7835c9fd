------------------------------ MODULE RunStream ------------------------------
(* stream_run of routers/runs.py: the events a browser gets about a run      *)
(* while the executor and the flow thread go on writing its row.  One id of  *)
(* the run table and one stream on it; each turn of the polling loop reads   *)
(* the row once, in a session of its own, and sends at most one event.       *)
(*                                                                           *)
(* A definition directly above another one with the same parameters is a     *)
(* mutant of it (PROJECT.json, mutants).                                     *)
EXTENDS Integers, Sequences, SequencesExt

CONSTANTS
  MaxLog,   \* bound on the entries of a log
  MaxRuns,  \* bound on the runs that have the id, one after the other
  NoRun, NoStatus

ASSUME StreamAssumption ==
  /\ MaxLog \in Nat /\ MaxRuns \in Nat \ {0}
  /\ NoStatus \notin {"pending", "running", "success", "failed"}

VARIABLES
  row,     \* the row with the id, or NoRun
  born,    \* runs that have had the id
  settled, \* length of the log when the run got its terminal status
  stream   \* the generator and what its client has got

vars == <<row, born, settled, stream>>

Terminal == {"success", "failed"}
Statuses == <<"pending", "running">> \* and then one of Terminal

Closed == [stage |-> "closed", of |-> 0, lastStatus |-> NoStatus, lastCount |-> 0,
           got |-> <<>>, statuses |-> <<>>]

Init ==
  /\ row = NoRun
  /\ born = 0
  /\ settled = 0
  /\ stream = Closed

-----------------------------------------------------------------------------
(* The row.                                                                  *)

\* launch_run; the id of a deleted run is given out again (SQLite, while it is
\* the largest).  An entry of the log tells which run it was written for.
Create ==
  /\ row = NoRun
  /\ born < MaxRuns
  /\ born' = born + 1
  /\ row' = [status |-> "pending", log |-> <<>>]
  /\ settled' = 0
  /\ UNCHANGED stream

Start ==
  /\ row # NoRun /\ row.status = "pending"
  /\ row' = [row EXCEPT !.status = "running"]
  /\ UNCHANGED <<born, settled, stream>>

\* append_log, one UPDATE; the tracer and the thread of a cancelled run also
\* write after the end.
AppendLog ==
  /\ row # NoRun /\ Len(row.log) < MaxLog
  /\ row' = [row EXCEPT !.log = Append(@, [run |-> born, no |-> Len(row.log) + 1])]
  /\ UNCHANGED <<born, settled, stream>>

\* _update_run of the executor, or the cancel endpoint.
Settle ==
  /\ row # NoRun /\ row.status \notin Terminal
  /\ \E s \in Terminal :
       /\ row.status = "pending" => s = "failed"
       /\ row' = [row EXCEPT !.status = s]
  /\ settled' = Len(row.log)
  /\ UNCHANGED <<born, stream>>

Delete ==
  /\ row # NoRun /\ row.status \in Terminal
  /\ row' = NoRun
  /\ UNCHANGED <<born, settled, stream>>

-----------------------------------------------------------------------------
(* The stream.                                                               *)

\* 404 for an id without a row.
Open ==
  /\ stream.stage = "closed" /\ row # NoRun
  /\ stream' = [Closed EXCEPT !.stage = "polling", !.of = born]
  /\ UNCHANGED <<row, born, settled>>

\* current_log[last_log_count:]
NewEntriesAgain(r, n) == SubSeq(r.log, IF n = 0 THEN 1 ELSE n, Len(r.log))
NewEntries(r, n) == SubSeq(r.log, n + 1, Len(r.log))

Event(r) ==
  LET new == NewEntries(r, stream.lastCount)
  IN  [stream EXCEPT !.lastStatus = r.status, !.lastCount = Len(r.log), !.got = @ \o new,
         !.statuses = IF r.status = stream.lastStatus THEN @ ELSE Append(@, r.status)]

\* One event if the status or the log has changed.
Sent(r) ==
  IF r.status # stream.lastStatus \/ NewEntries(r, stream.lastCount) # <<>>
  THEN Event(r) ELSE stream

\* The loop ends with a terminal status.
EndsOnSuccess(r) == r.status = "success"
Ends(r) == r.status \in Terminal

LastTurn(r) == [Sent(r) EXCEPT !.stage = "ended"]

Poll ==
  /\ stream.stage = "polling"
  /\ stream' = IF row = NoRun THEN [stream EXCEPT !.stage = "gone"]
               ELSE IF Ends(row) THEN LastTurn(row)
               ELSE Sent(row)
  /\ UNCHANGED <<row, born, settled>>

\* The client goes away.
Disconnect ==
  /\ stream.stage = "polling"
  /\ stream' = [stream EXCEPT !.stage = "left"]
  /\ UNCHANGED <<row, born, settled>>

Next == Create \/ Start \/ AppendLog \/ Settle \/ Delete \/ Open \/ Poll \/ Disconnect

Spec == Init /\ [][Next]_vars

\* The event loop resumes the generator after each sleep.
FairSpec == Spec /\ WF_vars(Poll)

-----------------------------------------------------------------------------
(* Properties.                                                               *)

TypeOK ==
  /\ row = NoRun \/ (row.status \in ToSet(Statuses) \cup Terminal /\ Len(row.log) <= MaxLog)
  /\ born \in 0..MaxRuns
  /\ settled \in 0..MaxLog
  /\ stream.stage \in {"closed", "polling", "ended", "gone", "left"}
  /\ stream.of \in 0..born
  /\ stream.lastCount \in 0..MaxLog
  /\ stream.lastStatus \in ToSet(Statuses) \cup Terminal \cup {NoStatus}
  /\ stream.of = born => Len(stream.got) = stream.lastCount

\* The client has got the beginning of the log of its run: no entry twice, none
\* left out in between.  Here and below: while no other run has got the id, which
\* the stream would go on with.
GotIsPrefix ==
  row # NoRun /\ stream.of = born => IsPrefix(stream.got, row.log)

\* It is told each status once and in the order of the life of a run.
StatusesInOrder ==
  LET seen == stream.statuses
      Rank(s) == CASE s = "pending" -> 1 [] s = "running" -> 2 [] OTHER -> 3
  IN  stream.of = born => \A i, j \in DOMAIN seen : i < j => Rank(seen[i]) < Rank(seen[j])

\* A stream that ends with the run has delivered everything that was in the log
\* when the run ended; what the tracer adds later may be missing.
EndIsComplete ==
  stream.stage = "ended" /\ stream.of = born => Len(stream.got) >= settled

\* What the client has got is faithful to the run: the three above, and the types.
StreamIsFaithful == TypeOK /\ GotIsPrefix /\ StatusesInOrder /\ EndIsComplete

\* The stream of a run that ends or is deleted comes to its end.
StreamEnds ==
  (stream.stage = "polling" /\ (row = NoRun \/ row.status \in Terminal))
    ~> (stream.stage # "polling" \/ stream.of # born)
=============================================================================
