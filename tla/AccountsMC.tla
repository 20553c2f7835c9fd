----------------------------- MODULE AccountsMC -----------------------------
(* Accounts with interchangeable threads and identities.                     *)
EXTENDS Accounts, TLC

Symmetry == Permutations(Threads) \cup Permutations(Identities)
=============================================================================
