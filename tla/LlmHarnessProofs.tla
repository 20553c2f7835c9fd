-------------------------- MODULE LlmHarnessProofs --------------------------
(* Proofs about LlmHarness, for any catalogue, any number of retries, steps  *)
(* and attempts, and whatever keys and judges are set meanwhile.             *)
EXTENDS LlmHarness, FiniteSetTheorems, WellFoundedInduction, TLAPS

-----------------------------------------------------------------------------
(* Sequences of distinct models.                                             *)

LEMMA MinOfNats ==
  ASSUME NEW S \in SUBSET Nat, S # {}
  PROVE  Min(S) \in S /\ \A n \in S : Min(S) <= n
  <1> DEFINE R == OpToRel(<, Nat)
  <1>1. PICK m \in S : \A n \in S : ~(<<n, m>> \in R)
    <2>1. IsWellFoundedOn(R, Nat)
      BY NatLessThanWellFounded
    <2> HIDE DEF R
    <2> QED
      BY <2>1, WFMin
  <1>2. \A n \in Nat : n < m => <<n, m>> \in R
    BY DEF OpToRel
  <1> HIDE DEF R
  <1>3. \A n \in S : ~(n < m)
    BY <1>1, <1>2, Zenon
  <1>4. \A n \in S : m <= n
    BY <1>3
  <1> QED
    BY <1>4 DEF Min

LEMMA Glued ==
  ASSUME NEW S, NEW a \in Seq(S), NEW b \in Seq(S)
  PROVE  /\ a \o b \in Seq(S) /\ Len(a \o b) = Len(a) + Len(b)
         /\ \A i \in 1..Len(a) + Len(b) : (a \o b)[i] = IF i <= Len(a) THEN a[i] ELSE b[i - Len(a)]
  OBVIOUS

\* RemoveFirst on a sequence without repetitions: the others, in their order.
LEMMA OthersOf ==
  ASSUME NEW S, NEW s \in Seq(S), IsInjective(s), NEW e
  PROVE  /\ RemoveFirst(s, e) \in Seq(S) /\ IsInjective(RemoveFirst(s, e))
         /\ ToSet(RemoveFirst(s, e)) = ToSet(s) \ {e}
  <1>1. CASE ~\E i \in 1..Len(s) : s[i] = e
    BY <1>1 DEF RemoveFirst, ToSet
  <1>2. CASE \E i \in 1..Len(s) : s[i] = e
    <2> DEFINE I == {i \in 1..Len(s) : s[i] = e}
               k == Min(I)
               r == RemoveAt(s, k)
    <2>1. k \in 1..Len(s) /\ s[k] = e
      <3>1. I \in SUBSET Nat /\ I # {}
        BY <1>2
      <3> HIDE DEF I
      <3>2. k \in I
        BY <3>1, MinOfNats
      <3> QED
        BY <3>2 DEF I
    <2>2. RemoveFirst(s, e) = r
      <3>1. I # {}
        BY <1>2
      <3>2. SelectInSeq(s, LAMBDA v : v = e) = k
        BY <3>1 DEF SelectInSeq
      <3> QED
        BY <1>2, <3>2 DEF RemoveFirst
    <2> HIDE DEF k
    <2>3. /\ r \in Seq(S) /\ Len(r) = Len(s) - 1
          /\ \A i \in 1..Len(s) - 1 : r[i] = IF i < k THEN s[i] ELSE s[i + 1]
      <3> DEFINE a == SubSeq(s, 1, k - 1)
                 b == SubSeq(s, k + 1, Len(s))
      <3>1. a \in Seq(S) /\ Len(a) = k - 1 /\ \A i \in 1..k - 1 : a[i] = s[i]
        BY <2>1
      <3>2. b \in Seq(S) /\ Len(b) = Len(s) - k /\ \A i \in 1..Len(s) - k : b[i] = s[k + i]
        BY <2>1
      <3>3. r = a \o b
        BY DEF RemoveAt
      <3> HIDE DEF a, b, r
      <3>4. /\ r \in Seq(S) /\ Len(r) = Len(a) + Len(b)
            /\ \A i \in 1..Len(a) + Len(b) : r[i] = IF i <= Len(a) THEN a[i] ELSE b[i - Len(a)]
        BY <3>1, <3>2, <3>3, Glued
      <3>5. Len(a) + Len(b) = Len(s) - 1 /\ Len(s) \in Nat /\ k \in 1..Len(s)
        BY <2>1, <3>1, <3>2
      <3>6. ASSUME NEW i \in 1..Len(s) - 1 PROVE r[i] = IF i < k THEN s[i] ELSE s[i + 1]
        <4>1. CASE i < k
          BY <3>1, <3>4, <3>5, <4>1
        <4>2. CASE ~(i < k)
          <5>1. i - Len(a) \in 1..Len(s) - k /\ k + (i - Len(a)) = i + 1 /\ ~(i <= Len(a))
            BY <3>1, <3>5, <4>2
          <5>2. r[i] = b[i - Len(a)]
            BY <3>4, <3>5, <5>1
          <5> QED
            BY <3>2, <4>2, <5>1, <5>2
        <4> QED
          BY <4>1, <4>2
      <3> QED
        BY <3>4, <3>5, <3>6
    <2> HIDE DEF r
    <2>4. DOMAIN r = 1..Len(s) - 1 /\ DOMAIN s = 1..Len(s) /\ Len(s) \in Nat
      BY <2>3
    <2>5. IsInjective(r)
      BY <2>1, <2>3, <2>4 DEF IsInjective
    <2>6. \A m : m \in ToSet(r) => m \in ToSet(s) /\ m # e
      BY <2>1, <2>3, <2>4 DEF ToSet, IsInjective
    <2>7. ASSUME NEW m \in ToSet(s), m # e PROVE m \in ToSet(r)
      <3>1. PICK i \in 1..Len(s) : s[i] = m
        BY <2>4 DEF ToSet
      <3>2. CASE i < k
        <4>1. i \in DOMAIN r /\ r[i] = m
          BY <2>1, <2>3, <2>4, <3>1, <3>2
        <4> QED
          BY <4>1 DEF ToSet
      <3>3. CASE ~(i < k)
        <4>1. i # k
          BY <2>1, <2>7, <3>1
        <4>2. i - 1 \in DOMAIN r /\ r[i - 1] = m
          BY <2>1, <2>3, <2>4, <3>1, <3>3, <4>1
        <4> QED
          BY <4>2 DEF ToSet
      <3> QED
        BY <3>2, <3>3
    <2> QED
      BY <2>2, <2>3, <2>5, <2>6, <2>7
  <1> QED
    BY <1>1, <1>2

-----------------------------------------------------------------------------
(* The models of a chain.                                                    *)

PayloadOK ==
  /\ kind \in Kinds /\ provider \in AllProviders /\ named \in Requests
  /\ maxRetries \in 0..MaxRetries

LEMMA ModelOfIsAModel ==
  ASSUME NEW p \in AllProviders, NEW m \in Models \cup {None}
  PROVE  ModelOf(p, m) \in Models
  BY HarnessAssumption DEF ModelOf, Models, AllProviders

LEMMA EffectiveIsAModel ==
  ASSUME PayloadOK
  PROVE  /\ named \in Models \cup {None} /\ effective \in Models
         /\ named # None => effective = named
         /\ named = None /\ provider \in Providers => effective \in ToSet(Catalog[provider])
  <1>1. named \in Models \cup {None}
    <2> DEFINE known == UNION {ToSet(Catalog[p]) : p \in Providers}
    <2>1. Models = known \cup (Requests \ {None})
      BY DEF Models
    <2> HIDE DEF known
    <2> QED
      BY <2>1 DEF PayloadOK
  <1> QED
    BY <1>1, ModelOfIsAModel, HarnessAssumption DEF PayloadOK, effective, ModelOf

\* fallback_sequence: the requested model first, and then every other model of
\* its provider, once.
LEMMA CandidatesAreModels ==
  ASSUME PayloadOK
  PROVE  /\ candidates \in Seq(Models) /\ Len(candidates) \in Nat \ {0}
         /\ IsInjective(candidates) /\ candidates[1] = effective
         /\ \A i \in 2..Len(candidates) :
              provider \in Providers /\ candidates[i] \in ToSet(Catalog[provider])
  <1> DEFINE others == IF provider \in Providers THEN RemoveFirst(Catalog[provider], effective) ELSE <<>>
             models == IF provider \in Providers THEN ToSet(Catalog[provider]) ELSE {}
  <1>1. /\ others \in Seq(models) /\ IsInjective(others) /\ effective \notin ToSet(others)
        /\ models \subseteq Models
    <2>1. CASE provider \in Providers
      <3>1. Catalog[provider] \in Seq(ToSet(Catalog[provider])) /\ IsInjective(Catalog[provider])
        BY <2>1, HarnessAssumption
      <3>2. /\ others \in Seq(models) /\ IsInjective(others) /\ ToSet(others) = models \ {effective}
        BY <2>1, <3>1, OthersOf
      <3> QED
        BY <2>1, <3>2 DEF Models
    <2>2. CASE provider \notin Providers
      BY <2>2 DEF IsInjective, ToSet
    <2> QED
      BY <2>1, <2>2
  <1>2. effective \in Models
    BY EffectiveIsAModel
  <1>3. candidates = <<effective>> \o others
    BY DEF candidates, fallback_sequence
  <1>4. models = {} \/ (provider \in Providers /\ models = ToSet(Catalog[provider]))
    OBVIOUS
  <1> HIDE DEF others, models
  <1>5. <<effective>> \in Seq(Models) /\ others \in Seq(Models)
    BY <1>1, <1>2
  <1>6. /\ candidates \in Seq(Models) /\ Len(candidates) = 1 + Len(others)
        /\ candidates[1] = effective
        /\ \A i \in 2..Len(candidates) : i - 1 \in DOMAIN others /\ candidates[i] = others[i - 1]
    BY <1>3, <1>5, Glued
  <1>7. \A i \in DOMAIN others : others[i] \in models /\ others[i] # effective
    BY <1>1 DEF ToSet
  <1>8. IsInjective(candidates)
    <2>1. DOMAIN candidates = 1..Len(candidates) /\ Len(candidates) \in Nat
      BY <1>6
    <2>2. ASSUME NEW i \in 1..Len(candidates), NEW j \in 1..Len(candidates),
                 candidates[i] = candidates[j]
          PROVE  i = j
      <3>1. CASE i = 1 \/ j = 1
        BY <1>6, <1>7, <2>1, <2>2, <3>1
      <3>2. CASE i # 1 /\ j # 1
        <4>1. i - 1 \in DOMAIN others /\ j - 1 \in DOMAIN others /\ others[i - 1] = others[j - 1]
          BY <1>6, <2>1, <2>2, <3>2
        <4>2. i - 1 = j - 1
          BY <1>1, <4>1 DEF IsInjective
        <4> QED
          BY <4>2
      <3> QED
        BY <3>1, <3>2
    <2> QED
      BY <2>1, <2>2 DEF IsInjective
  <1> QED
    BY <1>1, <1>4, <1>6, <1>7, <1>8

LEMMA CurrentIsAModel ==
  ASSUME PayloadOK, try \in 1..MaxLlmAttempts
  PROVE  current \in Models
  <1>1. candidates \in Seq(Models) /\ Len(candidates) \in Nat \ {0} /\ MaxLlmAttempts \in Nat
    BY CandidatesAreModels, HarnessAssumption
  <1>2. ModelAt(candidates, try) \in Models
    BY <1>1 DEF ModelAt
  <1> QED
    BY <1>2, EffectiveIsAModel DEF current

-----------------------------------------------------------------------------
(* The judges.                                                               *)

LEMMA PreferredIsAPair ==
  ASSUME NEW judge \in Judges
  PROVE  /\ preferred(judge) \in Providers \X (Models \cup {None})
         /\ preferred(judge)[2] = None => judge = preferred(judge)
  BY HarnessAssumption DEF preferred, Judges

\* _judge_candidates: every candidate but the last is the judge preferred, not
\* the run's own model, or a sibling of that; and every sibling is there.
LEMMA JudgesInOrder ==
  ASSUME PayloadOK, NEW judge \in Judges
  PROVE  LET ordered == JudgeCandidates(judge)
             own == <<provider, effective>>
             n == Len(ordered)
         IN  /\ ordered \in Seq(AllProviders \X (Models \cup {None})) /\ n \in Nat \ {0}
             /\ ordered[n] = own
             /\ \A i \in 1..n - 1 :
                  \/ ordered[i] = preferred(judge) /\ ordered[i] # own
                  \/ \E m \in Models \ {effective} : ordered[i] = <<provider, m>>
             /\ provider \in Providers =>
                  \A m \in ToSet(Catalog[provider]) \ {effective} :
                    \E i \in 1..n - 1 : ordered[i] = <<provider, m>>
  <1> DEFINE own == <<provider, effective>>
             siblings == IF provider \in Providers THEN RemoveFirst(Catalog[provider], effective) ELSE <<>>
             Pair == AllProviders \X (Models \cup {None})
             first == IF preferred(judge) # own THEN <<preferred(judge)>> ELSE <<>>
             second == [i \in 1..Len(siblings) |-> <<provider, siblings[i]>>]
             ordered == JudgeCandidates(judge)
  <1>1. /\ siblings \in Seq(Models)
        /\ \A m \in ToSet(siblings) : m # effective
        /\ provider \in Providers => ToSet(siblings) = ToSet(Catalog[provider]) \ {effective}
    <2>1. CASE provider \in Providers
      <3>1. Catalog[provider] \in Seq(ToSet(Catalog[provider])) /\ IsInjective(Catalog[provider])
        BY <2>1, HarnessAssumption
      <3>2. siblings \in Seq(ToSet(Catalog[provider])) /\ ToSet(siblings) = ToSet(Catalog[provider]) \ {effective}
        BY <2>1, <3>1, OthersOf
      <3>3. ToSet(Catalog[provider]) \subseteq Models
        BY <2>1 DEF Models
      <3> HIDE DEF siblings
      <3> QED
        BY <3>2, <3>3
    <2>2. CASE provider \notin Providers
      BY <2>2 DEF ToSet
    <2> QED
      BY <2>1, <2>2
  <1>2. ordered = (first \o second) \o <<own>>
    BY DEF JudgeCandidates
  <1>3. preferred(judge) \in Pair /\ own \in Pair /\ provider \in AllProviders
    BY PreferredIsAPair, EffectiveIsAModel DEF PayloadOK, AllProviders
  <1> HIDE DEF siblings
  <1>4. /\ first \in Seq(Pair) /\ Len(first) \in {0, 1}
        /\ \A i \in 1..Len(first) : first[i] = preferred(judge) /\ first[i] # own
    BY <1>3
  <1>5. /\ second \in Seq(Pair) /\ Len(second) = Len(siblings)
        /\ \A i \in 1..Len(siblings) : second[i] = <<provider, siblings[i]>>
    BY <1>1, <1>3
  <1> HIDE DEF first, second, ordered, Pair
  <1> DEFINE both == first \o second
  <1>6. /\ both \in Seq(Pair) /\ Len(both) = Len(first) + Len(second)
        /\ \A i \in 1..Len(first) + Len(second) :
             both[i] = IF i <= Len(first) THEN first[i] ELSE second[i - Len(first)]
    BY <1>4, <1>5, Glued
  <1> HIDE DEF both
  <1>7. <<own>> \in Seq(Pair) /\ Len(<<own>>) = 1 /\ <<own>>[1] = own
    BY <1>3
  <1>8. /\ ordered \in Seq(Pair) /\ Len(ordered) = Len(both) + 1
        /\ ordered[Len(ordered)] = own
        /\ \A i \in 1..Len(both) : ordered[i] = both[i]
    <2>1. ordered = both \o <<own>>
      BY <1>2 DEF both
    <2> HIDE DEF own
    <2> QED
      BY <1>6, <1>7, <2>1, Glued
  <1>9. Len(first) \in Nat /\ Len(siblings) \in Nat /\ Len(both) = Len(first) + Len(siblings)
        /\ Len(ordered) - 1 = Len(both)
    BY <1>1, <1>4, <1>5, <1>6, <1>8
  <1>10. ASSUME NEW i \in 1..Len(ordered) - 1
         PROVE  \/ ordered[i] = preferred(judge) /\ ordered[i] # own
                \/ \E m \in Models \ {effective} : ordered[i] = <<provider, m>>
    <2>1. ordered[i] = both[i] /\ i \in 1..Len(first) + Len(siblings)
      BY <1>8, <1>9
    <2>2. CASE i <= Len(first)
      <3>1. i \in 1..Len(first)
        BY <1>9, <2>1, <2>2
      <3>2. both[i] = first[i]
        BY <1>5, <1>6, <2>1, <2>2
      <3>3. ordered[i] = first[i]
        BY <2>1, <3>2
      <3>4. first[i] = preferred(judge) /\ first[i] # own
        BY <1>4, <3>1
      <3> HIDE DEF own
      <3> QED
        BY <3>3, <3>4
    <2>3. CASE ~(i <= Len(first))
      <3>1. i - Len(first) \in 1..Len(siblings)
        BY <1>9, <2>1, <2>3
      <3>2. ordered[i] = <<provider, siblings[i - Len(first)]>>
        BY <1>5, <1>6, <1>9, <2>1, <2>3, <3>1
      <3>3. siblings[i - Len(first)] \in Models \ {effective}
        BY <1>1, <3>1 DEF ToSet
      <3> QED
        BY <3>2, <3>3
    <2> QED
      BY <2>2, <2>3
  <1>11. ASSUME provider \in Providers, NEW m \in ToSet(Catalog[provider]) \ {effective}
         PROVE  \E i \in 1..Len(ordered) - 1 : ordered[i] = <<provider, m>>
    <2>1. PICK j \in 1..Len(siblings) : siblings[j] = m
      <3>1. m \in ToSet(siblings) /\ DOMAIN siblings = 1..Len(siblings)
        BY <1>1, <1>11
      <3> QED
        BY <3>1 DEF ToSet
    <2>2. Len(first) + j \in 1..Len(ordered) - 1 /\ Len(first) + j \in 1..Len(first) + Len(siblings)
          /\ ~(Len(first) + j <= Len(first)) /\ (Len(first) + j) - Len(first) = j
      BY <1>9, <2>1
    <2>3. ordered[Len(first) + j] = second[j]
      BY <1>5, <1>6, <1>8, <1>9, <2>1, <2>2
    <2> QED
      BY <1>5, <2>1, <2>2, <2>3
  <1> QED
    <2>1. Len(ordered) \in Nat \ {0}
      BY <1>8, <1>9
    <2> QED
      BY <1>8, <1>10, <1>11, <2>1, Zenon DEF Pair, ordered
-----------------------------------------------------------------------------
(* The retries.                                                              *)

PerChain == IF kind = "custom" THEN 1 ELSE MaxLlmAttempts
PerAttempt == PerChain * (IF kind = "pipeline" THEN Steps ELSE 1)

\* The kickoffs that the attempts, steps and tries so far account for.
CountInv ==
  /\ kickoffs \in Nat
  /\ kind = "custom" => try = 1
  /\ kind # "pipeline" => step = 1
  /\ pc = "begin" => kickoffs <= attempt * PerAttempt
  /\ pc = "kickoff" => kickoffs <= attempt * PerAttempt + (step - 1) * PerChain + (try - 1)
  /\ pc \in {"validate", "evaluate", "done"} => kickoffs <= (attempt + 1) * PerAttempt

\* The attempts whose result was refused; in validate the one under way is not
\* among them yet.
Refused == (0 .. attempt - 1) \ raised
LatestRefused == IF Refused = {} THEN None ELSE CHOOSE a \in Refused : \A b \in Refused : b <= a

FeedbackInv ==
  /\ pc \in {"begin", "kickoff", "validate"} =>
       reason = LatestRefused /\ \A a \in raised : a < attempt
  /\ pc = "kickoff" => previous = reason

LEMMA Times ==
  ASSUME NEW a \in Nat, NEW b \in Nat, NEW c \in Nat
  PROVE  /\ a * c \in Nat /\ (a + 1) * c = a * c + c
         /\ a <= b => a * c <= b * c
  OBVIOUS

LEMMA CountTypes ==
  ASSUME PayloadOK, TypeOK
  PROVE  /\ MaxLlmAttempts \in Nat \ {0} /\ Steps \in Nat \ {0} /\ maxRetries \in Nat
         /\ attempt \in Nat /\ attempt <= maxRetries
         /\ step \in Nat \ {0} /\ step <= Steps /\ try \in Nat \ {0} /\ try <= MaxLlmAttempts
         /\ PerChain \in Nat /\ PerAttempt \in Nat
         /\ attempt * PerAttempt \in Nat /\ (step - 1) * PerChain \in Nat
  <1>1. /\ MaxLlmAttempts \in Nat \ {0} /\ Steps \in Nat \ {0} /\ maxRetries \in Nat
        /\ attempt \in Nat /\ attempt <= maxRetries
        /\ step \in Nat \ {0} /\ step <= Steps /\ try \in Nat \ {0} /\ try <= MaxLlmAttempts
    BY HarnessAssumption DEF PayloadOK, TypeOK
  <1>2. PerChain \in Nat /\ PerAttempt \in Nat
    BY <1>1, Times DEF PerChain, PerAttempt
  <1> QED
    BY <1>1, <1>2, Times

\* One more kickoff fits: into the step, the attempt and the run.
LEMMA RoomForOne ==
  ASSUME PayloadOK, TypeOK, CountInv, pc = "kickoff"
  PROVE  /\ kickoffs + 1 <= attempt * PerAttempt + step * PerChain
         /\ kickoffs + 1 <= (attempt + 1) * PerAttempt
  <1>1. try <= PerChain
    BY CountTypes DEF CountInv, PerChain
  <1>2. step * PerChain = (step - 1) * PerChain + PerChain
    <2>1. step - 1 \in Nat /\ (step - 1) + 1 = step
      BY CountTypes
    <2> QED
      BY <2>1, CountTypes, Times
  <1>3. step * PerChain <= PerAttempt
    <2>1. CASE kind = "pipeline"
      <3>1. step * PerChain <= Steps * PerChain
        BY CountTypes, Times
      <3>2. Steps * PerChain = PerChain * Steps
        BY CountTypes
      <3> QED
        BY <2>1, <3>1, <3>2 DEF PerAttempt
    <2>2. CASE kind # "pipeline"
      <3>1. step = 1 /\ PerAttempt = PerChain
        BY <2>2, CountTypes DEF CountInv, PerAttempt
      <3> QED
        BY <3>1, CountTypes
    <2> QED
      BY <2>1, <2>2
  <1>4. (attempt + 1) * PerAttempt = attempt * PerAttempt + PerAttempt
    BY CountTypes, Times
  <1> DEFINE x == attempt * PerAttempt
             y == (step - 1) * PerChain
             z == step * PerChain
             w == (attempt + 1) * PerAttempt
  <1>5. x \in Nat /\ y \in Nat /\ PerChain \in Nat /\ PerAttempt \in Nat /\ kickoffs \in Nat /\ try \in Nat
    BY CountTypes DEF CountInv
  <1>6. kickoffs <= x + y + (try - 1) /\ z = y + PerChain /\ z <= PerAttempt /\ w = x + PerAttempt
    BY <1>2, <1>3, <1>4 DEF CountInv
  <1> HIDE DEF x, y, z, w
  <1>7. kickoffs + 1 <= x + z /\ kickoffs + 1 <= w
    BY <1>1, <1>5, <1>6
  <1> QED
    BY <1>7 DEF x, z, w

LEMMA CountBounds ==
  ASSUME PayloadOK, TypeOK, CountInv
  PROVE  KickoffsBounded
  <1>1. kickoffs <= (attempt + 1) * PerAttempt
    <2>1. CASE pc = "begin"
      <3>1. attempt * PerAttempt <= (attempt + 1) * PerAttempt
        BY CountTypes, Times
      <3> QED
        BY <2>1, <3>1, CountTypes, Times DEF CountInv
    <2>2. CASE pc = "kickoff"
      <3>1. (attempt + 1) * PerAttempt \in Nat
        BY CountTypes, Times
      <3> QED
        BY <2>2, <3>1, RoomForOne DEF CountInv
    <2> QED
      BY <2>1, <2>2 DEF CountInv, TypeOK
  <1>2. (attempt + 1) * PerAttempt <= (maxRetries + 1) * PerAttempt
    BY CountTypes, Times
  <1>3. (maxRetries + 1) * PerAttempt = (maxRetries + 1) * PerChain * (IF kind = "pipeline" THEN Steps ELSE 1)
    BY CountTypes DEF PerAttempt
  <1>4. /\ (attempt + 1) * PerAttempt \in Nat /\ (maxRetries + 1) * PerAttempt \in Nat /\ kickoffs \in Nat
    BY CountTypes, Times DEF CountInv
  <1>5. kickoffs <= (maxRetries + 1) * PerAttempt
    BY <1>1, <1>2, <1>4
  <1> QED
    BY <1>3, <1>5 DEF KickoffsBounded, PerChain

LEMMA FeedbackShows ==
  ASSUME FeedbackInv
  PROVE  FeedbackIsLatest
  BY DEF FeedbackInv, FeedbackIsLatest, LatestRefused, Refused
-----------------------------------------------------------------------------
(* What a run stores.                                                        *)

\* The result at hand was made by the model the chain is at, and nothing is
\* stored before the end.
RecordInv ==
  /\ pc # "done" => record = Unset
  /\ pc = "kickoff" /\ kind # "pipeline" => producers = {}
  /\ pc \in {"validate", "evaluate"} /\ kind # "pipeline" => producers = {current}
  /\ RecordIsHonest

\* The models a chain has tried are those of its attempts so far.
TriedInv ==
  kind # "custom" /\ pc = "kickoff" => tried = {ModelAt(candidates, n) : n \in 1..try - 1}

HarnessInv == PayloadOK /\ TypeOK /\ CountInv /\ FeedbackInv /\ RecordInv /\ TriedInv

LEMMA SamePayload ==
  ASSUME UNCHANGED payload
  PROVE  /\ UNCHANGED <<kind, provider, named, maxRetries, effective, candidates>>
         /\ UNCHANGED <<PerChain, PerAttempt>> /\ (PayloadOK => PayloadOK')
         /\ (try' = try => current' = current)
  BY DEF payload, effective, candidates, PerChain, PerAttempt, PayloadOK, current

LEMMA UnsetIsHonest ==
  PayloadOK /\ record.served = None /\ record.grader = None => RecordIsHonest
  BY HarnessAssumption, EffectiveIsAModel
     DEF RecordIsHonest, ServedIsProducer, SelfGradeIsFlagged, SelfGradeIsLastResort, PayloadOK

LEMMA UnsetIsHonestNext ==
  (PayloadOK /\ record.served = None /\ record.grader = None)' => (RecordIsHonest)'
  BY UnsetIsHonest, PTL

\* A judge that is the run's own model has no independent one before it.
LEMMA GradedFairly ==
  ASSUME PayloadOK, NEW judge \in Judges, NEW keyed \in SUBSET Providers,
         Usable(judge, keyed) # {}, Grader(judge, keyed) = <<provider, effective>>,
         provider \in Providers
  PROVE  \/ judge = <<provider, None>> /\ effective = ModelOf(provider, None)
         \/ \A m \in ToSet(Catalog[provider]) : m = effective
  <1> DEFINE ordered == JudgeCandidates(judge)
             U == Usable(judge, keyed)
             k == Min(U)
             n == Len(ordered)
  <1>1. /\ ordered \in Seq(AllProviders \X (Models \cup {None})) /\ n \in Nat \ {0}
        /\ ordered[n] = <<provider, effective>>
        /\ \A i \in 1..n - 1 :
             \/ ordered[i] = preferred(judge) /\ ordered[i] # <<provider, effective>>
             \/ \E m \in Models \ {effective} : ordered[i] = <<provider, m>>
        /\ \A m \in ToSet(Catalog[provider]) \ {effective} :
             \E i \in 1..n - 1 : ordered[i] = <<provider, m>>
    BY JudgesInOrder
  <1>2. U = {i \in 1..n : ordered[i][1] \in keyed}
    BY <1>1 DEF Usable
  <1>3. /\ ordered[k][1] = provider /\ ModelOf(provider, ordered[k][2]) = effective
    BY DEF Grader
  <1> HIDE DEF ordered, U
  <1>4. k \in U /\ \A i \in U : k <= i
    <2>1. U \in SUBSET Nat /\ U # {}
      BY <1>2 DEF U
    <2> QED
      BY <2>1, MinOfNats
  <1> HIDE DEF k, n
  <1>5. provider \in keyed /\ k \in 1..n
    BY <1>2, <1>3, <1>4
  <1>6. CASE k = n
    <2>1. ASSUME NEW m \in ToSet(Catalog[provider]), m # effective PROVE FALSE
      <3>1. PICK i \in 1..n - 1 : ordered[i] = <<provider, m>>
        BY <1>1, <2>1
      <3>2. i \in U
        BY <1>1, <1>2, <1>5, <3>1
      <3> QED
        BY <1>1, <1>4, <1>6, <3>1, <3>2
    <2> QED
      BY <2>1
  <1>7. CASE k # n
    <2>1. k \in 1..n - 1
      BY <1>1, <1>5, <1>7
    <2>2. CASE \E m \in Models \ {effective} : ordered[k] = <<provider, m>>
      BY <1>3, <2>2, HarnessAssumption DEF ModelOf
    <2>3. CASE ordered[k] = preferred(judge) /\ ordered[k] # <<provider, effective>>
      <3>1. /\ preferred(judge) \in Providers \X (Models \cup {None})
            /\ preferred(judge)[2] = None => judge = preferred(judge)
        BY PreferredIsAPair
      <3>2. preferred(judge) = <<provider, preferred(judge)[2]>>
        BY <1>3, <2>3, <3>1
      <3>3. preferred(judge)[2] = None
        BY <1>3, <2>3, <3>2 DEF ModelOf
      <3> QED
        BY <1>3, <2>3, <3>1, <3>2, <3>3
    <2> QED
      BY <1>1, <2>1, <2>2, <2>3
  <1> QED
    BY <1>6, <1>7

LEMMA HarnessInit == Init => HarnessInv
  <1> SUFFICES ASSUME Init PROVE HarnessInv
    OBVIOUS
  <1>1. PayloadOK /\ TypeOK
    BY HarnessAssumption DEF Init, PayloadOK, TypeOK, Unset
  <1>2. CountInv
    <2>1. attempt * PerAttempt \in Nat
      BY <1>1, CountTypes
    <2> QED
      BY <2>1 DEF Init, CountInv
  <1>3. FeedbackInv
    BY DEF Init, FeedbackInv, LatestRefused, Refused
  <1>4. RecordInv
    BY <1>1, UnsetIsHonest DEF Init, RecordInv, Unset
  <1> QED
    BY <1>1, <1>2, <1>3, <1>4 DEF HarnessInv, TriedInv, Init

LEMMA BeginsKeeps ==
  ASSUME HarnessInv, AttemptBegins
  PROVE  HarnessInv'
  <1>1. PayloadOK /\ TypeOK /\ PayloadOK' /\ UNCHANGED <<PerChain, PerAttempt, maxRetries, kind>>
    BY SamePayload DEF HarnessInv, AttemptBegins
  <1>2. TypeOK'
    BY <1>1, HarnessAssumption DEF TypeOK, AttemptBegins, PreviousReason
  <1>3. CountInv'
    <2>1. /\ kickoffs <= attempt * PerAttempt /\ kickoffs \in Nat /\ attempt * PerAttempt \in Nat
          /\ UNCHANGED <<kickoffs, attempt, kind>> /\ step' = 1 /\ try' = 1 /\ pc' = "kickoff"
      BY <1>1, CountTypes DEF HarnessInv, CountInv, AttemptBegins, payload
    <2>2. (step' - 1) * PerChain' = 0
      BY <1>1, <2>1, CountTypes
    <2> QED
      BY <1>1, <2>1, <2>2 DEF CountInv
  <1>4. FeedbackInv'
    <2>1. attempt \in Nat /\ (attempt = 0 => Refused = {})
      BY <1>1, CountTypes DEF Refused
    <2> QED
      BY <2>1 DEF HarnessInv, FeedbackInv, AttemptBegins, PreviousReason, LatestRefused, Refused
  <1>5. RecordInv'
    BY <1>1, UnsetIsHonestNext DEF HarnessInv, RecordInv, AttemptBegins, Unset
  <1>6. TriedInv'
    BY DEF TriedInv, AttemptBegins
  <1> QED
    BY <1>1, <1>2, <1>3, <1>4, <1>5, <1>6 DEF HarnessInv
\* A kickoff gives a result: the next step of the pipeline, or validation.
LEMMA SucceedsKeeps ==
  ASSUME HarnessInv, KickoffSucceeds
  PROVE  HarnessInv'
  <1>1. /\ PayloadOK /\ TypeOK /\ CountInv /\ PayloadOK'
        /\ UNCHANGED <<PerChain, PerAttempt, maxRetries, kind, effective, candidates, attempt>>
        /\ UNCHANGED <<reason, raised, previous, record>>
        /\ pc = "kickoff" /\ kickoffs' = kickoffs + 1 /\ producers' = producers \cup {current}
        /\ current \in Models
    BY SamePayload, CurrentIsAModel DEF HarnessInv, KickoffSucceeds, Kicked, TypeOK
  <1>2. CASE kind = "pipeline" /\ step < Steps
    <2>1. step' = step + 1 /\ try' = 1 /\ tried' = {} /\ pc' = "kickoff"
      BY <1>1, <1>2 DEF KickoffSucceeds
    <2>2. TypeOK'
      <3>1. step + 1 \in 1..Steps /\ 1 \in 1..MaxLlmAttempts
        BY <1>1, <1>2, CountTypes
      <3> QED
        BY <1>1, <2>1, <3>1 DEF TypeOK
    <2>3. CountInv'
      <3>1. kickoffs + 1 <= attempt * PerAttempt + step * PerChain
        BY <1>1, RoomForOne
      <3>2. step' - 1 = step /\ try' - 1 = 0 /\ step \in Nat /\ kickoffs \in Nat
            /\ attempt * PerAttempt \in Nat /\ step * PerChain \in Nat
        BY <1>1, <2>1, CountTypes, Times DEF CountInv
      <3> QED
        BY <1>1, <1>2, <2>1, <3>1, <3>2 DEF CountInv
    <2>4. FeedbackInv' /\ RecordInv' /\ TriedInv'
      BY <1>1, <1>2, <2>1, UnsetIsHonestNext
         DEF HarnessInv, FeedbackInv, LatestRefused, Refused, RecordInv, TriedInv, Unset
    <2> QED
      BY <1>1, <2>2, <2>3, <2>4 DEF HarnessInv
  <1>3. CASE ~(kind = "pipeline" /\ step < Steps)
    <2>1. pc' = "validate" /\ tried' = tried \cup {current} /\ UNCHANGED <<step, try>> /\ current' = current
      BY <1>1, <1>3, SamePayload DEF KickoffSucceeds
    <2>2. TypeOK'
      BY <1>1, <2>1 DEF TypeOK
    <2>3. CountInv'
      BY <1>1, <2>1, RoomForOne DEF CountInv
    <2>4. FeedbackInv' /\ TriedInv'
      BY <1>1, <2>1 DEF HarnessInv, FeedbackInv, LatestRefused, Refused, TriedInv
    <2>5. RecordInv'
      BY <1>1, <2>1, UnsetIsHonestNext DEF HarnessInv, RecordInv, Unset
    <2> QED
      BY <1>1, <2>2, <2>3, <2>4, <2>5 DEF HarnessInv
  <1> QED
    BY <1>2, <1>3

\* The chain goes on to its next attempt.
LEMMA UnavailableKeeps ==
  ASSUME HarnessInv, KickoffUnavailable
  PROVE  HarnessInv'
  <1>1. /\ PayloadOK /\ TypeOK /\ CountInv /\ PayloadOK'
        /\ UNCHANGED <<PerChain, PerAttempt, maxRetries, kind, effective, candidates, attempt>>
        /\ UNCHANGED <<reason, raised, previous, record, producers, step, pc>>
        /\ pc = "kickoff" /\ kickoffs' = kickoffs + 1 /\ current \in Models
        /\ kind # "custom" /\ try < MaxLlmAttempts /\ try' = try + 1 /\ tried' = tried \cup {current}
    BY SamePayload, CurrentIsAModel DEF HarnessInv, KickoffUnavailable, Kicked, TypeOK
  <1>2. TypeOK'
    BY <1>1, CountTypes DEF TypeOK
  <1>3. CountInv'
    <2>1. /\ try \in Nat /\ kickoffs \in Nat /\ attempt * PerAttempt \in Nat
          /\ (step - 1) * PerChain \in Nat
      BY <1>1, CountTypes DEF CountInv
    <2> QED
      BY <1>1, <2>1 DEF CountInv
  <1>4. FeedbackInv' /\ RecordInv'
    BY <1>1, UnsetIsHonestNext
       DEF HarnessInv, FeedbackInv, LatestRefused, Refused, RecordInv, Unset
  <1>5. TriedInv'
    <2>1. current = ModelAt(candidates, try) /\ try' - 1 = try /\ try \in Nat \ {0}
      BY <1>1, CountTypes DEF current
    <2>2. tried = {ModelAt(candidates, n) : n \in 1..try - 1}
      BY <1>1 DEF HarnessInv, TriedInv
    <2>3. 1..try = (1..try - 1) \cup {try}
      BY <2>1
    <2>4. tried' = {ModelAt(candidates, n) : n \in 1..try}
      BY <1>1, <2>1, <2>2, <2>3, Zenon
    <2> QED
      BY <1>1, <2>1, <2>4 DEF TriedInv
  <1> QED
    BY <1>1, <1>2, <1>3, <1>4, <1>5 DEF HarnessInv

\* An attempt that raises is not one whose result was refused.
LEMMA RaisesKeeps ==
  ASSUME HarnessInv, KickoffRaises
  PROVE  HarnessInv'
  <1>1. /\ PayloadOK /\ TypeOK /\ CountInv /\ PayloadOK'
        /\ UNCHANGED <<PerChain, PerAttempt, maxRetries, kind, effective, candidates>>
        /\ UNCHANGED <<reason, previous, producers, step, try>>
        /\ pc = "kickoff" /\ kickoffs' = kickoffs + 1 /\ current \in Models
        /\ tried' = tried \cup {current} /\ raised' = raised \cup {attempt}
    BY SamePayload, CurrentIsAModel DEF HarnessInv, KickoffRaises, Kicked, TypeOK
  <1>2. kickoffs + 1 <= (attempt + 1) * PerAttempt /\ kickoffs \in Nat /\ attempt \in Nat
    BY <1>1, RoomForOne, CountTypes DEF CountInv
  <1>3. CASE attempt < maxRetries
    <2>1. pc' = "begin" /\ attempt' = attempt + 1 /\ record' = record
      BY <1>3 DEF KickoffRaises, Raised
    <2>2. TypeOK'
      BY <1>1, <1>3, <2>1, CountTypes DEF TypeOK
    <2>3. CountInv'
      BY <1>1, <1>2, <2>1 DEF CountInv
    <2>4. Refused' = Refused /\ \A a \in raised' : a < attempt'
      <3>1. \A a \in raised : a \in Nat /\ a < attempt
        BY <1>1, CountTypes DEF HarnessInv, FeedbackInv, TypeOK
      <3>2. 0..attempt' - 1 = (0..attempt - 1) \cup {attempt} /\ attempt \notin 0..attempt - 1
        BY <1>2, <2>1
      <3>3. Refused' = Refused
        BY <1>1, <3>2 DEF Refused
      <3> QED
        BY <1>1, <1>2, <2>1, <3>1, <3>3
    <2>5. FeedbackInv' /\ RecordInv' /\ TriedInv'
      BY <1>1, <2>1, <2>4, UnsetIsHonestNext
         DEF HarnessInv, FeedbackInv, LatestRefused, RecordInv, TriedInv, Unset
    <2> QED
      BY <1>1, <2>2, <2>3, <2>5 DEF HarnessInv
  <1>4. CASE ~(attempt < maxRetries)
    <2>1. pc' = "done" /\ attempt' = attempt /\ record' = [Unset EXCEPT !.status = "failed"]
      BY <1>4 DEF KickoffRaises, Raised
    <2>2. TypeOK'
      BY <1>1, <2>1, CountTypes DEF TypeOK, Unset
    <2>3. CountInv'
      BY <1>1, <1>2, <2>1 DEF CountInv
    <2>4. FeedbackInv' /\ RecordInv' /\ TriedInv'
      BY <1>1, <2>1, UnsetIsHonestNext DEF FeedbackInv, RecordInv, TriedInv, Unset
    <2> QED
      BY <1>1, <2>2, <2>3, <2>4 DEF HarnessInv
  <1> QED
    BY <1>3, <1>4

\* A refused result is the latest one refused.
LEMMA ValidateKeeps ==
  ASSUME HarnessInv, NEW valid \in BOOLEAN, Validate(valid)
  PROVE  HarnessInv'
  <1>1. /\ PayloadOK /\ TypeOK /\ CountInv /\ PayloadOK'
        /\ UNCHANGED <<PerChain, PerAttempt, maxRetries, kind, effective, candidates, current>>
        /\ UNCHANGED <<step, try, tried, producers, kickoffs, raised, previous, record>>
        /\ pc = "validate" /\ reason' = (IF valid THEN None ELSE attempt) /\ attempt \in Nat
    BY SamePayload, CountTypes DEF HarnessInv, Validate, chain
  <1>2. CASE ~valid /\ attempt < maxRetries
    <2>1. pc' = "begin" /\ attempt' = attempt + 1 /\ reason' = attempt
      BY <1>1, <1>2 DEF Validate
    <2>2. TypeOK'
      BY <1>1, <1>2, <2>1, CountTypes DEF TypeOK
    <2>3. CountInv'
      BY <1>1, <2>1 DEF CountInv
    <2>4. /\ Refused' = Refused \cup {attempt} /\ \A a \in Refused : a \in Nat /\ a < attempt
          /\ \A a \in raised' : a < attempt'
      BY <1>1, <2>1 DEF HarnessInv, FeedbackInv, Refused, TypeOK
    <2>5. LatestRefused' = attempt
      <3>1. attempt \in Refused' /\ \A b \in Refused' : b <= attempt
        BY <1>1, <2>4
      <3>2. \A a \in Refused' : (\A b \in Refused' : b <= a) => a = attempt
        BY <1>1, <2>4
      <3> QED
        BY <3>1, <3>2 DEF LatestRefused
    <2>6. FeedbackInv' /\ RecordInv' /\ TriedInv'
      BY <1>1, <2>1, <2>4, <2>5, UnsetIsHonestNext
         DEF HarnessInv, FeedbackInv, RecordInv, TriedInv, Unset
    <2> QED
      BY <1>1, <2>2, <2>3, <2>6 DEF HarnessInv
  <1>3. CASE ~(~valid /\ attempt < maxRetries)
    <2>1. pc' = "evaluate" /\ attempt' = attempt
      BY <1>3 DEF Validate
    <2>2. TypeOK'
      BY <1>1, <2>1, CountTypes DEF TypeOK
    <2>3. CountInv' /\ FeedbackInv' /\ TriedInv'
      BY <1>1, <2>1 DEF CountInv, FeedbackInv, TriedInv
    <2>4. RecordInv'
      BY <1>1, <2>1, UnsetIsHonestNext DEF HarnessInv, RecordInv, Unset
    <2> QED
      BY <1>1, <2>2, <2>3, <2>4 DEF HarnessInv
  <1> QED
    BY <1>2, <1>3
\* The end: the record names the producer, and a judge that is the run's own
\* model is flagged and had none before it.
LEMMA FinishedKeeps ==
  ASSUME HarnessInv, NEW judge, NEW grader, NEW flag, Finished(judge, grader, flag),
         grader = <<provider, effective>> =>
           /\ flag
           /\ provider \in Providers =>
                \/ judge = <<provider, None>> /\ effective = ModelOf(provider, None)
                \/ \A m \in ToSet(Catalog[provider]) : m = effective
  PROVE  HarnessInv'
  <1>1. /\ PayloadOK /\ TypeOK /\ PayloadOK'
        /\ UNCHANGED <<PerChain, PerAttempt, maxRetries, kind, provider, effective, candidates, current>>
        /\ UNCHANGED <<attempt, step, try, tried, producers, kickoffs, raised, reason, previous>>
        /\ pc = "evaluate" /\ pc' = "done" /\ current \in Models /\ effective \in Models
    BY SamePayload, CurrentIsAModel, EffectiveIsAModel DEF HarnessInv, Finished, chain, TypeOK
  <1>2. record'.served = Served /\ record'.judge = judge /\ record'.grader = grader /\ record'.flagged = flag
    BY DEF Finished
  <1>3. Served \in Models /\ (kind # "pipeline" => Served = current)
    BY <1>1 DEF Served
  <1>4. TypeOK'
    BY <1>1, <1>2, <1>3 DEF TypeOK
  <1>5. CountInv' /\ FeedbackInv' /\ TriedInv'
    BY <1>1 DEF HarnessInv, CountInv, FeedbackInv, TriedInv
  <1>6. ServedIsProducer'
    BY <1>1, <1>2, <1>3 DEF HarnessInv, RecordInv, ServedIsProducer
  <1>7. SelfGradeIsFlagged' /\ SelfGradeIsLastResort'
    BY <1>1, <1>2 DEF SelfGradeIsFlagged, SelfGradeIsLastResort, HiddenSelf
  <1>8. RecordInv'
    BY <1>1, <1>6, <1>7 DEF RecordInv, RecordIsHonest
  <1> QED
    BY <1>1, <1>4, <1>5, <1>8 DEF HarnessInv

LEMMA HarnessStep == HarnessInv /\ [Next]_vars => HarnessInv'
  <1> SUFFICES ASSUME HarnessInv, [Next]_vars PROVE HarnessInv'
    OBVIOUS
  <1>1. CASE AttemptBegins
    BY <1>1, BeginsKeeps
  <1>2. CASE KickoffSucceeds
    BY <1>2, SucceedsKeeps
  <1>3. CASE KickoffUnavailable
    BY <1>3, UnavailableKeeps
  <1>4. CASE KickoffRaises
    BY <1>4, RaisesKeeps
  <1>5. CASE \E valid \in BOOLEAN : Validate(valid)
    BY <1>5, ValidateKeeps
  <1>6. ASSUME NEW judge \in Judges, NEW keyed \in SUBSET Providers, Judged(judge, keyed)
        PROVE  HarnessInv'
    <2>1. Usable(judge, keyed) # {} /\ Finished(judge, Grader(judge, keyed), Flagged(Grader(judge, keyed)))
      BY <1>6 DEF Judged
    <2>2. PayloadOK
      BY DEF HarnessInv
    <2> DEFINE grader == Grader(judge, keyed)
    <2>3. grader = <<provider, effective>> => Flagged(grader)
      BY DEF Flagged
    <2>4. grader = <<provider, effective>> /\ provider \in Providers =>
            \/ judge = <<provider, None>> /\ effective = ModelOf(provider, None)
            \/ \A m \in ToSet(Catalog[provider]) : m = effective
      BY <2>1, <2>2, GradedFairly
    <2> HIDE DEF grader
    <2> QED
      BY <2>1, <2>3, <2>4, FinishedKeeps DEF grader
  <1>7. CASE Unjudged
    <2>1. PayloadOK /\ None # <<provider, effective>>
      BY HarnessAssumption, EffectiveIsAModel DEF HarnessInv, PayloadOK
    <2> QED
      BY <1>7, <2>1, FinishedKeeps DEF Unjudged
  <1>8. CASE UNCHANGED vars
    <2>1. UNCHANGED payload
      BY <1>8 DEF vars
    <2>2. /\ UNCHANGED <<kind, provider, named, maxRetries, effective, candidates, current>>
          /\ UNCHANGED <<PerChain, PerAttempt>> /\ PayloadOK'
      BY <1>8, <2>1, SamePayload DEF vars, chain, HarnessInv
    <2>3. UNCHANGED <<pc, attempt, step, try, tried, producers, kickoffs, reason, raised, previous, record>>
      BY <1>8 DEF vars, chain
    <2>4. TypeOK' /\ CountInv' /\ FeedbackInv' /\ TriedInv'
      BY <2>2, <2>3 DEF HarnessInv, TypeOK, CountInv, FeedbackInv, LatestRefused, Refused, TriedInv
    <2>5. RecordInv'
      BY <2>2, <2>3 DEF HarnessInv, RecordInv, RecordIsHonest, ServedIsProducer,
                        SelfGradeIsFlagged, SelfGradeIsLastResort, HiddenSelf
    <2> QED
      BY <2>2, <2>4, <2>5 DEF HarnessInv
  <1> QED
    BY <1>1, <1>2, <1>3, <1>4, <1>5, <1>6, <1>7, <1>8 DEF Next

LEMMA HarnessAlways == Spec => []HarnessInv
  BY HarnessInit, HarnessStep, PTL DEF Spec

\* execute_run, _run_flow and execute_pipeline: however attempts, steps and
\* models fail, a run is kicked off a bounded number of times, and a retry is
\* told the reason of the latest result that was refused.
THEOREM RetriesAreSoundAlways == Spec => []RetriesAreSound
  <1>1. HarnessInv => RetriesAreSound
    BY CountBounds, FeedbackShows DEF HarnessInv, RetriesAreSound
  <1> QED
    BY <1>1, HarnessAlways, PTL

\* execute_run and evaluator.py: the model stored for a run has produced its
\* result, and a run graded by its own model says so and had no other judge
\* with a key to go to.
THEOREM RecordIsHonestAlways == Spec => []RecordIsHonest
  <1>1. HarnessInv => RecordIsHonest
    BY DEF HarnessInv, RecordInv
  <1> QED
    BY <1>1, HarnessAlways, PTL

-----------------------------------------------------------------------------
(* The chain of models.                                                      *)

\* A chain that is about to make its last attempt will have tried every
\* candidate, or one less than its attempts.
LEMMA FullChainTries ==
  ASSUME HarnessInv, pc = "kickoff", kind # "custom", try = MaxLlmAttempts
  PROVE  Cardinality(tried \cup {current}) >=
           IF Len(candidates) < MaxLlmAttempts - 1 THEN Len(candidates) ELSE MaxLlmAttempts - 1
  <1> DEFINE n == IF Len(candidates) < MaxLlmAttempts - 1 THEN Len(candidates) ELSE MaxLlmAttempts - 1
             T == tried \cup {current}
  <1>1. /\ PayloadOK /\ MaxLlmAttempts \in Nat \ {0} /\ try \in Nat \ {0}
        /\ Len(candidates) \in Nat \ {0} /\ n \in Nat /\ IsInjective(candidates)
        /\ DOMAIN candidates = 1..Len(candidates)
    <2>1. PayloadOK /\ TypeOK
      BY DEF HarnessInv
    <2>2. MaxLlmAttempts \in Nat \ {0} /\ try \in Nat \ {0}
      BY <2>1, CountTypes
    <2>3. /\ candidates \in Seq(Models) /\ Len(candidates) \in Nat \ {0}
          /\ IsInjective(candidates)
      BY <2>1, CandidatesAreModels
    <2>4. n \in Nat /\ DOMAIN candidates = 1..Len(candidates)
      BY <2>2, <2>3
    <2> QED
      BY <2>1, <2>2, <2>3, <2>4
  <1>2. tried = {ModelAt(candidates, k) : k \in 1..try - 1} /\ current = ModelAt(candidates, try)
    BY DEF HarnessInv, TriedInv, current
  <1>3. IsFiniteSet(T)
    <2> DEFINE f == [k \in 1..try - 1 |-> ModelAt(candidates, k)]
    <2>1. f \in Surjection(1..try - 1, tried)
      BY <1>2 DEF Surjection
    <2>2. IsFiniteSet(1..try - 1)
      BY <1>1, FS_Interval
    <2> HIDE DEF f
    <2> QED
      BY <2>1, <2>2, FS_Surjection, FS_AddElement
  <1>4. \A k \in 1..try : ModelAt(candidates, k) \in T
    BY <1>1, <1>2
  <1>5. ASSUME NEW i \in 1..n PROVE candidates[i] \in T
    <2>1. CASE i = 1
      <3>1. ModelAt(candidates, 1) = candidates[1] /\ 1 \in 1..try
        BY <1>1 DEF ModelAt
      <3> QED
        BY <1>4, <2>1, <3>1
    <2>2. CASE i # 1
      <3>1. i + 1 \in 1..try /\ ~(i + 1 <= 2) /\ (i + 1) - 1 = i /\ i <= Len(candidates)
        BY <1>1, <2>2
      <3>2. ModelAt(candidates, i + 1) = candidates[i]
        BY <1>1, <3>1 DEF ModelAt
      <3> QED
        BY <1>4, <3>1, <3>2
    <2> QED
      BY <2>1, <2>2
  <1> DEFINE g == [i \in 1..n |-> candidates[i]]
  <1>6. g \in Injection(1..n, T)
    <2>1. 1..n \subseteq 1..Len(candidates)
      BY <1>1
    <2>2. IsInjective(g)
      BY <1>1, <2>1 DEF IsInjective
    <2> HIDE DEF T, n
    <2> QED
      BY <1>5, <2>2 DEF Injection
  <1> HIDE DEF g, n, T
  <1>7. Cardinality(1..n) <= Cardinality(T) /\ Cardinality(1..n) = n
    <2>1. Cardinality(1..n) <= Cardinality(T)
      BY <1>3, <1>6, FS_Injection
    <2>2. Cardinality(1..n) = n
      BY <1>1, FS_Interval
    <2> QED
      BY <2>1, <2>2
  <1>8. Cardinality(T) \in Nat
    BY <1>3, FS_CardinalityType
  <1> QED
    BY <1>1, <1>7, <1>8 DEF n, T

\* A model met again is the last candidate, or the first at its second attempt.
LEMMA MetAgain ==
  ASSUME HarnessInv, pc = "kickoff", kind # "custom", current \in tried
  PROVE  current = candidates[Len(candidates)] \/ (try = 2 /\ current = effective)
  <1>1. /\ PayloadOK /\ try \in Nat \ {0} /\ candidates[1] = effective
        /\ Len(candidates) \in Nat \ {0} /\ IsInjective(candidates)
        /\ DOMAIN candidates = 1..Len(candidates)
    <2>1. PayloadOK /\ TypeOK
      BY DEF HarnessInv
    <2>2. try \in Nat \ {0}
      BY <2>1, CountTypes
    <2>3. candidates \in Seq(Models)
      BY <2>1, CandidatesAreModels
    <2> QED
      BY <2>1, <2>2, <2>3, CandidatesAreModels
  <1>2. tried = {ModelAt(candidates, k) : k \in 1..try - 1} /\ current = ModelAt(candidates, try)
    BY DEF HarnessInv, TriedInv, current
  <1>3. PICK k \in 1..try - 1 : current = ModelAt(candidates, k)
    BY <1>2
  <1> DEFINE At(j) == IF j <= 2 THEN 1 ELSE IF j - 1 < Len(candidates) THEN j - 1 ELSE Len(candidates)
  <1>4. candidates[At(try)] = candidates[At(k)] /\ current = candidates[At(try)]
    BY <1>2, <1>3 DEF ModelAt
  <1>5. At(try) \in DOMAIN candidates /\ At(k) \in DOMAIN candidates
    BY <1>1, <1>3
  <1>6. At(try) = At(k)
    <2> HIDE DEF At
    <2> QED
      BY <1>1, <1>4, <1>5 DEF IsInjective
  <1>7. At(try) = Len(candidates) \/ try = 2
    BY <1>1, <1>3, <1>6
  <1> QED
    BY <1>1, <1>4, <1>7

\* Every candidate is of the provider of the payload, or named in it.
LEMMA NoneIsForeign ==
  ASSUME HarnessInv, provider \in Providers \/ named # None
  PROVE  current = named \/ (provider \in Providers /\ current \in ToSet(Catalog[provider]))
  <1>1. /\ PayloadOK /\ try \in Nat \ {0} /\ Len(candidates) \in Nat \ {0}
        /\ candidates[1] = effective
        /\ \A i \in 2..Len(candidates) :
             provider \in Providers /\ candidates[i] \in ToSet(Catalog[provider])
    <2>1. PayloadOK /\ TypeOK
      BY DEF HarnessInv
    <2>2. try \in Nat \ {0}
      BY <2>1, CountTypes
    <2> QED
      BY <2>1, <2>2, CandidatesAreModels
  <1>2. effective = named \/ (provider \in Providers /\ effective \in ToSet(Catalog[provider]))
    BY <1>1, EffectiveIsAModel
  <1>3. \E i \in 1..Len(candidates) : ModelAt(candidates, try) = candidates[i]
    BY <1>1 DEF ModelAt
  <1> QED
    BY <1>1, <1>2, <1>3 DEF current

\* _run_flow and fallback_sequence: a chain gives up only when it has tried
\* every fallback its attempts allow, meets a model again only where it must,
\* and never uses a model of another provider.
THEOREM ChainIsCompleteAlways == Spec => ChainIsComplete
  <1>1. HarnessInv /\ [Next]_vars =>
          [pc = "kickoff" /\ kind # "custom" /\ try = MaxLlmAttempts =>
             \/ kickoffs' = kickoffs
             \/ Cardinality(tried \cup {current}) >= IF Len(candidates) < MaxLlmAttempts - 1
                                 THEN Len(candidates) ELSE MaxLlmAttempts - 1]_vars
    BY FullChainTries
  <1>2. HarnessInv /\ [Next]_vars =>
          [pc = "kickoff" /\ kickoffs' # kickoffs /\ kind # "custom" /\ current \in tried =>
             current = candidates[Len(candidates)] \/ (try = 2 /\ current = effective)]_vars
    BY MetAgain
  <1>3. HarnessInv /\ [Next]_vars =>
          [kickoffs' # kickoffs /\ (provider \in Providers \/ named # None) =>
             \/ current = named
             \/ provider \in Providers /\ current \in ToSet(Catalog[provider])]_vars
    BY NoneIsForeign
  <1> QED
    BY <1>1, <1>2, <1>3, HarnessAlways, PTL
       DEF Spec, ChainIsComplete, TriesEveryFallback, OneModelPerAttempt, NoForeignModel

=============================================================================
