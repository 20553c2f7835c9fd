--------------------------- MODULE RunLifecycleMC ---------------------------
(* RunLifecycle on small instances.                                          *)
EXTENDS RunLifecycle

\* Values of max_retries: one that gives no attempt, and one retry.
AnyBudget == {-1, 1}
=============================================================================
