------------------------------- MODULE Lists -------------------------------
(* What the models of the collections do with lists.                         *)
EXTENDS Naturals, Sequences, SequencesExt, FiniteSets, FiniteSetsExt

IsList(seq) == seq \in Seq(ToSet(seq))

\* The members of a finite set, each behind those that come before it.
Ordered(S, before) ==
  [n \in 1..Cardinality(S) |-> CHOOSE i \in S : Cardinality({k \in S : <<k, i>> \in before}) = n - 1]

\* The elements of a sequence at some of its places.
Selected(seq, places) ==
  LET at == Ordered(places, {p \in places \X places : p[1] < p[2]})
  IN [n \in DOMAIN at |-> seq[at[n]]]

\* The distinct elements of a sequence, at their first occurrence.
Distinct(seq) ==
  Selected(seq, {i \in DOMAIN seq : \A j \in DOMAIN seq : j < i => seq[j] # seq[i]})

\* One sequence of several.
Joined(seqs) ==
  LET places == UNION {{<<p, i>> : i \in DOMAIN seqs[p]} : p \in DOMAIN seqs}
      at == Ordered(places, {q \in places \X places :
              q[1][1] < q[2][1] \/ (q[1][1] = q[2][1] /\ q[1][2] < q[2][2])})
  IN [n \in DOMAIN at |-> seqs[at[n][1]][at[n][2]]]

Prefix(seq, n) == SubSeq(seq, 1, IF Len(seq) < n THEN Len(seq) ELSE n)
=============================================================================
