------------------------------ MODULE RunBoard ------------------------------
(* What a user may rely on about runs, without ids, coroutines or registry:  *)
(* the status lifecycle of doc/design.md with the exits that cancellation,   *)
(* restart and deletion add.  RunLifecycle implements it.                    *)
CONSTANT Tasks
VARIABLES
  board,
  reused   \* an id has been given out twice

vars == <<board, reused>>

Init == board = [t \in Tasks |-> "none"] /\ reused = FALSE

\* S leaves a status in From for the status to.
Move(S, From, to) ==
  /\ \A t \in S : board[t] \in From
  /\ board' = [t \in Tasks |-> IF t \in S THEN to ELSE board[t]]

Submit(t) == Move({t}, {"none"}, "pending")
Begin(t) == Move({t}, {"pending"}, "running")
Succeed(t) == Move({t}, {"running"}, "success")

\* One run fails or is cancelled; a restart fails all that are in progress.
Fail(S) == Move(S, {"pending", "running"}, "failed")
Remove(S) == Move(S, {"success", "failed"}, "deleted")

Moves ==
  \/ \E t \in Tasks : Submit(t) \/ Begin(t) \/ Succeed(t)
  \/ \E S \in SUBSET Tasks : Fail(S) \/ Remove(S)

\* An id given out twice ends the promise: a DELETE that had found the first
\* run deletable then removes the second one, in progress or not.
Next == (reused => reused') /\ (reused' \/ Moves)

Spec == Init /\ [][Next]_vars
=============================================================================
