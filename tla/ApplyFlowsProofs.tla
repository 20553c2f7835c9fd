-------------------------- MODULE ApplyFlowsProofs --------------------------
(* Proofs about ApplyFlows: the ledger of the Greenhouse tool, what the      *)
(* scans of the listings send and list, the flows around them, and the form  *)
(* at LinkedIn, for any number of boards, jobs, pages, questions and fields. *)
EXTENDS ApplyFlows, FiniteSetTheorems, SequenceTheorems, WellFoundedInduction, TLAPS

-----------------------------------------------------------------------------
(* Order in finite sets.                                                     *)

\* In a finite set whose elements come one after another, every place is taken:
\* B[p] is what comes up to p.
LEMMA PlacesAreTaken ==
  ASSUME NEW S, IsFiniteSet(S), NEW B \in [S -> SUBSET S],
         \A p \in S : p \in B[p],
         \A p, q \in S : p # q => B[p] # B[q] /\ (B[p] \subseteq B[q] \/ B[q] \subseteq B[p])
  PROVE  /\ Cardinality(S) \in Nat
         /\ \A k \in 1..Cardinality(S) : \E p \in S : Cardinality(B[p]) = k
         /\ \A p \in S : Cardinality(B[p]) \in 1..Cardinality(S)
         /\ \A p, q \in S : Cardinality(B[p]) = Cardinality(B[q]) => p = q
  <1> DEFINE n == Cardinality(S)
             f == [p \in S |-> Cardinality(B[p])]
  <1>1. n \in Nat
    BY FS_CardinalityType
  <1>2. ASSUME NEW p \in S PROVE IsFiniteSet(B[p]) /\ Cardinality(B[p]) \in 1..n
    <2>1. B[p] \in SUBSET S
      OBVIOUS
    <2>2. IsFiniteSet(B[p]) /\ Cardinality(B[p]) <= n
      BY <2>1, FS_Subset
    <2>3. Cardinality(B[p]) \in Nat /\ Cardinality(B[p]) # 0
      BY <2>2, FS_CardinalityType, FS_EmptySet
    <2> QED
      BY <1>1, <2>2, <2>3
  <1>3. ASSUME NEW p \in S, NEW q \in S, Cardinality(B[p]) = Cardinality(B[q]) PROVE p = q
    <2>1. B[p] \subseteq B[q] => B[p] = B[q]
      BY <1>2, <1>3, FS_Subset
    <2>2. B[q] \subseteq B[p] => B[p] = B[q]
      BY <1>2, <1>3, FS_Subset
    <2> QED
      BY <2>1, <2>2
  <1>4. f \in Injection(S, 1..n)
    <2>1. f \in [S -> 1..n]
      BY <1>2
    <2>2. \A p, q \in S : f[p] = f[q] => p = q
      BY <1>3
    <2> QED
      BY <2>1, <2>2 DEF Injection, IsInjective
  <1>5. IsFiniteSet(1..n) /\ Cardinality(1..n) = n
    BY <1>1, FS_Interval
  <1>6. f \in Surjection(S, 1..n)
    BY <1>4, <1>5, FS_Injection
  <1>7. \A k \in 1..n : \E p \in S : f[p] = k
    BY <1>6 DEF Surjection
  <1> QED
    BY <1>1, <1>2, <1>3, <1>7

\* The set of the jobs to be taken is finite, and each has a turn of its own.
LEMMA PicksAreFinite ==
  ASSUME NEW groups \in Seq(Seq(Jobs))
  PROVE  IsFiniteSet(Picks(groups))
  <1> DEFINE Of(g) == {<<i, g>> : i \in DOMAIN groups[g]}
             all == {Of(g) : g \in DOMAIN groups}
  <1>1. ASSUME NEW g \in DOMAIN groups PROVE IsFiniteSet(Of(g))
    <2> DEFINE D == DOMAIN groups[g]
               f == [i \in D |-> <<i, g>>]
    <2>1. IsFiniteSet(D)
      <3>1. groups[g] \in Seq(Jobs)
        OBVIOUS
      <3>2. Len(groups[g]) \in Int /\ D = 1..Len(groups[g])
        BY <3>1
      <3>3. IsFiniteSet(1..Len(groups[g]))
        BY <3>2, FS_Interval
      <3> QED
        BY <3>2, <3>3
    <2>2. f \in Surjection(D, Of(g))
      BY DEF Surjection
    <2> QED
      BY <2>1, <2>2, FS_Surjection
  <1>2. IsFiniteSet(all)
    <2> DEFINE f == [g \in DOMAIN groups |-> Of(g)]
    <2>1. IsFiniteSet(DOMAIN groups)
      <3>1. Len(groups) \in Nat /\ DOMAIN groups = 1..Len(groups)
        OBVIOUS
      <3> QED
        BY <3>1, FS_Interval
    <2>2. f \in Surjection(DOMAIN groups, all)
      BY DEF Surjection
    <2> QED
      BY <2>1, <2>2, FS_Surjection
  <1>3. \A T \in all : IsFiniteSet(T)
    BY <1>1
  <1>4. IsFiniteSet(UNION all)
    <2> HIDE DEF all
    <2> QED
      BY <1>2, <1>3, FS_UNION
  <1> QED
    BY <1>4 DEF Picks

LEMMA TurnsAreTaken ==
  ASSUME NEW groups \in Seq(Seq(Jobs))
  PROVE  /\ Cardinality(Picks(groups)) \in Nat
         /\ \A k \in 1..Cardinality(Picks(groups)) : \E p \in Picks(groups) : Turn(groups, p) = k
         /\ \A p \in Picks(groups) : Turn(groups, p) \in 1..Cardinality(Picks(groups))
         /\ \A p, q \in Picks(groups) : Turn(groups, p) = Turn(groups, q) => p = q
  <1> DEFINE S == Picks(groups)
             Before(p) == {q \in S : Earlier(q, p)}
             B == [p \in S |-> Before(p) \cup {p}]
  <1>1. IsFiniteSet(S)
    BY PicksAreFinite
  <1>2. \A p \in S : p \in (Nat \ {0}) \X (Nat \ {0})
    BY DEF Picks
  <1>3. ASSUME NEW p \in S, NEW q \in S, NEW r \in S
        PROVE  /\ ~Earlier(p, p) /\ (p # q => Earlier(p, q) \/ Earlier(q, p))
               /\ Earlier(p, q) /\ Earlier(q, r) => Earlier(p, r)
    <2>1. PICK pi \in Nat, pg \in Nat : p = <<pi, pg>>
      BY <1>2
    <2>2. PICK qi \in Nat, qg \in Nat : q = <<qi, qg>>
      BY <1>2
    <2>3. PICK ri \in Nat, rg \in Nat : r = <<ri, rg>>
      BY <1>2
    <2> QED
      BY <2>1, <2>2, <2>3 DEF Earlier
  <1>4. B \in [S -> SUBSET S] /\ \A p \in S : p \in B[p]
    OBVIOUS
  <1>5. ASSUME NEW p \in S, NEW q \in S, Earlier(p, q) PROVE B[p] \subseteq B[q] /\ q \notin B[p]
    BY <1>3, <1>5
  <1>6. \A p, q \in S : p # q => B[p] # B[q] /\ (B[p] \subseteq B[q] \/ B[q] \subseteq B[p])
    BY <1>3, <1>4, <1>5
  <1>7. \A p \in S : Cardinality(B[p]) = Turn(groups, p)
    <2> SUFFICES ASSUME NEW p \in S PROVE Cardinality(B[p]) = Turn(groups, p)
      OBVIOUS
    <2>1. Before(p) \in SUBSET S /\ p \notin Before(p) /\ B[p] = Before(p) \cup {p}
      BY <1>3
    <2>2. IsFiniteSet(Before(p)) /\ Cardinality(Before(p)) \in Nat
      BY <1>1, <2>1, FS_Subset, FS_CardinalityType
    <2>3. Cardinality(Before(p) \cup {p}) = Cardinality(Before(p)) + 1
      BY <2>1, <2>2, FS_AddElement
    <2>4. Turn(groups, p) = 1 + Cardinality(Before(p))
      BY DEF Turn
    <2> HIDE DEF Before
    <2> QED
      BY <2>1, <2>2, <2>3, <2>4
  <1> HIDE DEF S, B
  <1>8. /\ Cardinality(S) \in Nat
        /\ \A k \in 1..Cardinality(S) : \E p \in S : Cardinality(B[p]) = k
        /\ \A p \in S : Cardinality(B[p]) \in 1..Cardinality(S)
        /\ \A p, q \in S : Cardinality(B[p]) = Cardinality(B[q]) => p = q
    BY <1>1, <1>4, <1>6, PlacesAreTaken
  <1> QED
    BY <1>7, <1>8 DEF S

\* What is taken at a turn.
Pick(groups, k) == CHOOSE p \in Picks(groups) : Turn(groups, p) = k

LEMMA QueueIsOfJobs ==
  ASSUME NEW groups \in Seq(Seq(Jobs))
  PROVE  InterleaveBoards(groups) \in Seq(Jobs)
  <1> DEFINE n == Cardinality(Picks(groups))
  <1>1. n \in Nat /\ \A k \in 1..n : Pick(groups, k) \in Picks(groups)
    BY TurnsAreTaken DEF Pick
  <1>2. \A p \in Picks(groups) : groups[p[2]][p[1]] \in Jobs
    <2> SUFFICES ASSUME NEW g \in DOMAIN groups, NEW i \in DOMAIN groups[g]
                 PROVE  groups[g][i] \in Jobs
      BY DEF Picks
    <2>1. groups[g] \in Seq(Jobs)
      OBVIOUS
    <2> QED
      BY <2>1
  <1>3. InterleaveBoards(groups) = [k \in 1..n |-> groups[Pick(groups, k)[2]][Pick(groups, k)[1]]]
    BY DEF InterleaveBoards, Pick
  <1>4. InterleaveBoards(groups) \in [1..n -> Jobs]
    BY <1>1, <1>2, <1>3
  <1> QED
    BY <1>1, <1>4, SeqDef

-----------------------------------------------------------------------------
(* The Greenhouse tool: types.                                               *)

Local == [stage : Stages, input : Inputs \cup {Idle.input}, queue : Seq(Jobs),
          known : SUBSET Jobs, job : Jobs \cup {NoJob}, accepted : BOOLEAN,
          base : SUBSET Jobs, scanned : Seq(Jobs), applied : Seq(Jobs),
          skipped : Seq(Jobs)]

Formed == Stages \ (Over \cup {"discovered", "scan"})

LEMMA IdleIsLocal == Idle \in Local
  BY DEF Idle, Local, Stages, Over

LEMMA LocalTypes ==
  ASSUME TypeOK, NEW r \in Runs
  PROVE  /\ run \in [Runs -> Local] /\ run[r] \in Local
         /\ run[r].stage \in Formed => run[r].job \in Jobs
  BY DEF TypeOK, Local, Formed

\* A run that has gone on to s keeps the types.
LEMMA TypesKept ==
  ASSUME TypeOK, NEW r \in Runs, NEW s \in Local, s.stage \in Formed => s.job \in Jobs,
         run' = [run EXCEPT ![r] = s]
  PROVE  /\ run' \in [Runs -> Local]
         /\ \A o \in Runs : run'[o].stage \in Formed => run'[o].job \in Jobs
         /\ run'[r] = s /\ \A o \in Runs \ {r} : run'[o] = run[o]
  BY LocalTypes

LEMMA HeadOfQueue ==
  ASSUME TypeOK, NEW r \in Runs, Scanning(r)
  PROVE  /\ run[r].stage = "scan" /\ Head(run[r].queue) \in Jobs /\ Tail(run[r].queue) \in Seq(Jobs)
  BY LocalTypes DEF Scanning, Local

LEMMA Appended == \A q \in Seq(Jobs), j \in Jobs : Append(q, j) \in Seq(Jobs)
  OBVIOUS

LEMMA FormedHasJob ==
  ASSUME TypeOK, NEW r \in Runs, run[r].stage \in {"form", "submitted", "recording", "writing", "truncated", "pause"}
  PROVE  run[r].job \in Jobs
  BY LocalTypes DEF Formed, Stages, Over

\* What the next step of a run makes of its variables.
Moved(r, s) ==
  /\ s \in Local /\ (s.stage \in Formed => s.job \in Jobs)
  /\ run' = [run EXCEPT ![r] = s]

LEMMA AdvanceMoves ==
  ASSUME TypeOK, NEW r \in Runs, Advance(r)
  PROVE  \E s \in Local : Moved(r, s)
  <1>0. run \in [Runs -> Local] /\ run[r] \in Local /\ (run[r].stage \in Formed => run[r].job \in Jobs)
        /\ Readable \subseteq Jobs
    BY LocalTypes DEF TypeOK, Readable
  <1>1. ASSUME LoadLedger(r) PROVE \E s \in Local : Moved(r, s)
    <2> DEFINE s == [run[r] EXCEPT !.stage = "scan", !.known = Readable]
    <2>1. s \in Local /\ (s.stage \in Formed => s.job \in Jobs)
      BY <1>0, <1>1 DEF LoadLedger, Local, Stages, Formed, Over
    <2>2. run' = [run EXCEPT ![r] = s]
      BY <1>0, <1>1 DEF LoadLedger
    <2> QED
      BY <2>1, <2>2 DEF Moved
  <1>2. ASSUME PassOver(r) PROVE \E s \in Local : Moved(r, s)
    <2> DEFINE s == [run[r] EXCEPT !.queue = Tail(@)]
    <2>1. s \in Local /\ (s.stage \in Formed => s.job \in Jobs)
      BY <1>0, <1>2, HeadOfQueue DEF PassOver, Local, Stages, Formed, Over
    <2>2. run' = [run EXCEPT ![r] = s]
      BY <1>0, <1>2 DEF PassOver
    <2> QED
      BY <2>1, <2>2 DEF Moved
  <1>3. ASSUME SkipJob(r) PROVE \E s \in Local : Moved(r, s)
    <2> DEFINE s == [run[r] EXCEPT !.queue = Tail(@), !.scanned = Append(@, Head(run[r].queue)),
                            !.skipped = Append(@, Head(run[r].queue))]
    <2>1. s \in Local /\ (s.stage \in Formed => s.job \in Jobs)
      BY <1>0, <1>3, HeadOfQueue, Appended DEF SkipJob, Local, Stages, Formed, Over
    <2>2. run' = [run EXCEPT ![r] = s]
      BY <1>0, <1>3 DEF SkipJob
    <2> QED
      BY <2>1, <2>2 DEF Moved
  <1>4. ASSUME OpenForm(r) PROVE \E s \in Local : Moved(r, s)
    <2> DEFINE s == [run[r] EXCEPT !.queue = Tail(@), !.scanned = Append(@, Head(run[r].queue)),
                            !.job = Head(run[r].queue), !.stage = "form"]
    <2>1. s \in Local /\ (s.stage \in Formed => s.job \in Jobs)
      BY <1>0, <1>4, HeadOfQueue, Appended DEF OpenForm, Local, Stages, Formed, Over
    <2>2. run' = [run EXCEPT ![r] = s]
      BY <1>0, <1>4 DEF OpenForm
    <2> QED
      BY <2>1, <2>2 DEF Moved
  <1>5. ASSUME FormFails(r) PROVE \E s \in Local : Moved(r, s)
    <2> DEFINE s == [run[r] EXCEPT !.skipped = Append(@, run[r].job), !.stage = "pause"]
    <2>1. s \in Local /\ (s.stage \in Formed => s.job \in Jobs)
      BY <1>0, <1>5, FormedHasJob, Appended DEF FormFails, Local, Stages, Formed, Over
    <2>2. run' = [run EXCEPT ![r] = s]
      BY <1>0, <1>5 DEF FormFails
    <2> QED
      BY <2>1, <2>2 DEF Moved
  <1>6. ASSUME Prepare(r) PROVE \E s \in Local : Moved(r, s)
    <2> DEFINE s == [run[r] EXCEPT !.applied = Append(@, run[r].job), !.stage = "pause"]
    <2>1. s \in Local /\ (s.stage \in Formed => s.job \in Jobs)
      BY <1>0, <1>6, FormedHasJob, Appended DEF Prepare, Local, Stages, Formed, Over
    <2>2. run' = [run EXCEPT ![r] = s]
      BY <1>0, <1>6 DEF Prepare
    <2> QED
      BY <2>1, <2>2 DEF Moved
  <1>7. ASSUME Submit(r) PROVE \E s \in Local : Moved(r, s)
    <2>1. PICK accepted \in BOOLEAN : run' = [run EXCEPT ![r].stage = "submitted", ![r].accepted = accepted]
      BY <1>7 DEF Submit
    <2> DEFINE s == [run[r] EXCEPT !.stage = "submitted", !.accepted = accepted]
    <2>2. s \in Local /\ (s.stage \in Formed => s.job \in Jobs)
      BY <1>0, <1>7 DEF Submit, Local, Stages, Formed, Over
    <2>3. run' = [run EXCEPT ![r] = s]
      BY <1>0, <2>1
    <2> QED
      BY <2>2, <2>3 DEF Moved
  <1>8. ASSUME Confirmed(r) PROVE \E s \in Local : Moved(r, s)
    <2> DEFINE s == [run[r] EXCEPT !.stage = "recording", !.applied = Append(@, run[r].job)]
    <2>1. s \in Local /\ (s.stage \in Formed => s.job \in Jobs)
      BY <1>0, <1>8, FormedHasJob, Appended DEF Confirmed, Local, Stages, Formed, Over
    <2>2. run' = [run EXCEPT ![r] = s]
      BY <1>0, <1>8 DEF Confirmed
    <2> QED
      BY <2>1, <2>2 DEF Moved
  <1>9. ASSUME Unconfirmed(r) PROVE \E s \in Local : Moved(r, s)
    <2> DEFINE s == [run[r] EXCEPT !.stage = "pause", !.skipped = Append(@, run[r].job)]
    <2>1. s \in Local /\ (s.stage \in Formed => s.job \in Jobs)
      BY <1>0, <1>9, FormedHasJob, Appended DEF Unconfirmed, Local, Stages, Formed, Over
    <2>2. run' = [run EXCEPT ![r] = s]
      BY <1>0, <1>9 DEF Unconfirmed
    <2> QED
      BY <2>1, <2>2 DEF Moved
  <1>10. ASSUME RecordRead(r) PROVE \E s \in Local : Moved(r, s)
    <2> DEFINE s == [run[r] EXCEPT !.stage = "writing", !.base = Readable]
    <2>1. s \in Local /\ (s.stage \in Formed => s.job \in Jobs)
      BY <1>0, <1>10 DEF RecordRead, Local, Stages, Formed, Over
    <2>2. run' = [run EXCEPT ![r] = s]
      BY <1>0, <1>10 DEF RecordRead
    <2> QED
      BY <2>1, <2>2 DEF Moved
  <1>11. ASSUME RecordTruncate(r) PROVE \E s \in Local : Moved(r, s)
    <2> DEFINE s == [run[r] EXCEPT !.stage = "truncated"]
    <2>1. s \in Local /\ (s.stage \in Formed => s.job \in Jobs)
      BY <1>0, <1>11 DEF RecordTruncate, Local, Stages, Formed, Over
    <2>2. run' = [run EXCEPT ![r] = s]
      BY <1>0, <1>11 DEF RecordTruncate
    <2> QED
      BY <2>1, <2>2 DEF Moved
  <1>12. ASSUME RecordWrite(r) PROVE \E s \in Local : Moved(r, s)
    <2> DEFINE s == [run[r] EXCEPT !.stage = "pause", !.known = @ \cup {run[r].job}, !.base = {}]
    <2>1. s \in Local /\ (s.stage \in Formed => s.job \in Jobs)
      BY <1>0, <1>12 DEF RecordWrite, Local, Stages, Formed, Over
    <2>2. run' = [run EXCEPT ![r] = s]
      BY <1>0, <1>12 DEF RecordWrite
    <2> QED
      BY <2>1, <2>2 DEF Moved
  <1>13. ASSUME LateFailure(r) PROVE \E s \in Local : Moved(r, s)
    <2> DEFINE s == [run[r] EXCEPT !.stage = "scan", !.skipped = Append(@, run[r].job),
                            !.job = NoJob, !.accepted = FALSE, !.base = {}]
    <2>1. s \in Local /\ (s.stage \in Formed => s.job \in Jobs)
      BY <1>0, <1>13, FormedHasJob, Appended DEF LateFailure, Local, Stages, Formed, Over, Recording
    <2>2. run' = [run EXCEPT ![r] = s]
      BY <1>0, <1>13 DEF LateFailure
    <2> QED
      BY <2>1, <2>2 DEF Moved
  <1>14. ASSUME Pause(r) PROVE \E s \in Local : Moved(r, s)
    <2> DEFINE s == [run[r] EXCEPT !.stage = "scan", !.job = NoJob, !.accepted = FALSE]
    <2>1. s \in Local /\ (s.stage \in Formed => s.job \in Jobs)
      BY <1>0, <1>14 DEF Pause, Local, Stages, Formed, Over
    <2>2. run' = [run EXCEPT ![r] = s]
      BY <1>0, <1>14 DEF Pause
    <2> QED
      BY <2>1, <2>2 DEF Moved
  <1>15. ASSUME Finish(r) PROVE \E s \in Local : Moved(r, s)
    <2> DEFINE s == [run[r] EXCEPT !.stage = "done"]
    <2>1. s \in Local /\ (s.stage \in Formed => s.job \in Jobs)
      BY <1>0, <1>15 DEF Finish, Local, Stages, Formed, Over
    <2>2. run' = [run EXCEPT ![r] = s]
      BY <1>0, <1>15 DEF Finish
    <2> QED
      BY <2>1, <2>2 DEF Moved
  <1> QED
    BY <1>1, <1>2, <1>3, <1>4, <1>5, <1>6, <1>7, <1>8, <1>9, <1>10, <1>11, <1>12, <1>13, <1>14, <1>15 DEF Advance

LEMMA DiscoverMoves ==
  ASSUME TypeOK, NEW r \in Runs, NEW input \in Inputs, Discover(r, input)
  PROVE  \E s \in Local :
           /\ Moved(r, s) /\ s.stage \in {"discovered", "done"}
           /\ s.applied = <<>> /\ s.base = {} /\ s.known = {} /\ s.scanned = <<>> /\ s.skipped = <<>>
           /\ s.input = input /\ s.queue = InterleaveBoards(input.groups)
  <1> DEFINE found == InterleaveBoards(input.groups)
             stage == IF found = <<>> THEN "done" ELSE "discovered"
             s == [Idle EXCEPT !.input = input, !.queue = found, !.stage = stage]
  <1>1. input.groups \in Seq(Seq(Jobs))
    BY ApplyAssumption DEF Input
  <1>2. found \in Seq(Jobs)
    BY <1>1, QueueIsOfJobs
  <1>3. run' = [run EXCEPT ![r] = s]
    BY DEF Discover
  <1> HIDE DEF found
  <1>4. /\ s \in Local /\ s.stage \in {"discovered", "done"}
        /\ s.applied = <<>> /\ s.base = {} /\ s.known = {} /\ s.scanned = <<>> /\ s.skipped = <<>>
        /\ s.input = input /\ s.queue = found
    <2>0. stage \in {"discovered", "done"} /\ stage \in Stages
      BY DEF Stages, Over
    <2> HIDE DEF stage
    <2>1. Idle.applied = <<>> /\ Idle.base = {} /\ Idle.known = {} /\ Idle.scanned = <<>> /\ Idle.skipped = <<>>
      BY DEF Idle
    <2>2. s \in Local
      BY <1>2, <2>0, IdleIsLocal DEF Local
    <2>3. /\ s.stage = stage /\ s.applied = Idle.applied /\ s.base = Idle.base /\ s.known = Idle.known
          /\ s.scanned = Idle.scanned /\ s.skipped = Idle.skipped /\ s.input = input /\ s.queue = found
      BY IdleIsLocal DEF Local
    <2> QED
      BY <2>0, <2>1, <2>2, <2>3
  <1> QED
    BY <1>3, <1>4 DEF Moved, Formed, Over, found

LEMMA CrashMoves ==
  ASSUME TypeOK, Crash
  PROVE  /\ run' \in [Runs -> Local]
         /\ \A r \in Runs : ~UnderWay(r) => run'[r] = run[r]
         /\ \A r \in Runs : UnderWay(r) => run'[r] = [run[r] EXCEPT !.stage = "lost"]
  <1>1. \A r \in Runs : run[r] \in Local
    BY LocalTypes
  <1>2. \A r \in Runs : [run[r] EXCEPT !.stage = "lost"] \in Local
    BY <1>1 DEF Local, Stages, Over
  <1> QED
    BY <1>1, <1>2 DEF Crash

LEMMA ConfirmedTypes ==
  TypeOK => AllConfirmed \subseteq Jobs /\ Readable \subseteq Jobs /\ (\A r \in Runs : confirmed[r] \subseteq AllConfirmed)
  BY DEF TypeOK, AllConfirmed, Readable

LEMMA ApplyTypes == TypeOK /\ [Next]_vars => TypeOK'
  <1> SUFFICES ASSUME TypeOK, [Next]_vars PROVE TypeOK'
    OBVIOUS
  <1> USE DEF Local, Formed
  <1>0. /\ run \in [Runs -> Local] /\ ledger \in [whole : BOOLEAN, jobs : SUBSET Jobs]
        /\ received \in [Jobs -> Nat] /\ confirmed \in [Runs -> SUBSET Jobs]
        /\ crashes \in 0..MaxCrashes /\ faults \in 0..MaxFaults /\ spoilt \in BOOLEAN
    BY DEF TypeOK
  <1>1. ASSUME NEW r \in Runs, NEW input \in Inputs, Discover(r, input) PROVE TypeOK'
    <2>1. PICK s \in Local : Moved(r, s)
      BY <1>1, DiscoverMoves
    <2>2. run' \in [Runs -> Local] /\ \A o \in Runs : run'[o].stage \in Formed => run'[o].job \in Jobs
      BY <2>1, TypesKept DEF Moved
    <2> QED
      BY <1>0, <1>1, <2>2 DEF Discover, TypeOK
  <1>2. ASSUME NEW r \in Runs, Advance(r) PROVE TypeOK'
    <2>1. PICK s \in Local : Moved(r, s)
      BY <1>2, AdvanceMoves
    <2>2. run' \in [Runs -> Local] /\ \A o \in Runs : run'[o].stage \in Formed => run'[o].job \in Jobs
      BY <2>1, TypesKept DEF Moved
    <2>3. CASE LoadLedger(r) \/ PassOver(r) \/ SkipJob(r) \/ OpenForm(r) \/ FormFails(r) \/ Prepare(r)
               \/ Unconfirmed(r) \/ RecordRead(r) \/ Pause(r) \/ Finish(r)
      <3>1. UNCHANGED <<ledger, received, confirmed, crashes, faults, spoilt>>
        BY <2>3 DEF LoadLedger, PassOver, SkipJob, OpenForm, FormFails, Prepare, Unconfirmed, RecordRead, Pause, Finish
      <3> QED
        BY <1>0, <2>2, <3>1 DEF TypeOK
    <2>4. CASE Submit(r)
      <3>1. run[r].job \in Jobs
        BY <2>4, FormedHasJob DEF Submit
      <3>2. received' \in [Jobs -> Nat]
        BY <1>0, <2>4, <3>1 DEF Submit
      <3> QED
        BY <1>0, <2>2, <2>4, <3>2 DEF Submit, TypeOK
    <2>5. CASE Confirmed(r)
      <3>1. run[r].job \in Jobs
        BY <2>5, FormedHasJob DEF Confirmed
      <3>2. confirmed' \in [Runs -> SUBSET Jobs]
        BY <1>0, <2>5, <3>1 DEF Confirmed
      <3> QED
        BY <1>0, <2>2, <2>5, <3>2 DEF Confirmed, TypeOK
    <2>6. CASE RecordTruncate(r)
      BY <1>0, <2>2, <2>6 DEF RecordTruncate, Torn, TypeOK
    <2>7. CASE RecordWrite(r)
      <3>1. run[r].job \in Jobs /\ run[r].base \subseteq Jobs
        BY <1>0, <2>7, FormedHasJob DEF RecordWrite
      <3>2. ledger' \in [whole : BOOLEAN, jobs : SUBSET Jobs]
        <4>1. ledger' = File(Content(run[r])) \/ ledger' = Torn
          BY <2>7 DEF RecordWrite
        <4>2. Content(run[r]) \subseteq Jobs
          BY <3>1 DEF Content
        <4>3. File(Content(run[r])) \in [whole : BOOLEAN, jobs : SUBSET Jobs]
          <5> HIDE DEF Content
          <5> QED
            BY <4>2 DEF File
        <4>4. Torn \in [whole : BOOLEAN, jobs : SUBSET Jobs]
          BY DEF Torn
        <4> QED
          BY <4>1, <4>3, <4>4
      <3> QED
        BY <1>0, <2>2, <2>7, <3>2 DEF RecordWrite, TypeOK
    <2>8. CASE LateFailure(r)
      <3>1. faults' \in 0..MaxFaults
        BY <1>0, <2>8, ApplyAssumption DEF LateFailure
      <3>2. spoilt' \in BOOLEAN
        BY <2>8 DEF LateFailure
      <3> QED
        BY <1>0, <2>2, <2>8, <3>1, <3>2 DEF LateFailure, TypeOK
    <2> QED
      BY <1>2, <2>3, <2>4, <2>5, <2>6, <2>7, <2>8 DEF Advance
  <1>3. CASE Crash
    <2>1. run' \in [Runs -> Local]
      BY <1>3, CrashMoves
    <2>2. \A r \in Runs : run'[r].stage \in Formed => run'[r].job \in Jobs
      <3> SUFFICES ASSUME NEW r \in Runs, run'[r].stage \in Formed PROVE run'[r].job \in Jobs
        OBVIOUS
      <3>1. ~UnderWay(r)
        BY <1>0, <1>3, CrashMoves DEF Over
      <3> QED
        BY <1>3, <3>1, CrashMoves, LocalTypes
    <2>3. crashes' \in 0..MaxCrashes
      BY <1>0, <1>3, ApplyAssumption DEF Crash
    <2>4. spoilt' \in BOOLEAN
      BY <1>3 DEF Crash
    <2> QED
      BY <1>0, <1>3, <2>1, <2>2, <2>3, <2>4 DEF Crash, TypeOK
  <1>4. CASE UNCHANGED vars
    BY <1>4 DEF vars, TypeOK
  <1> QED
    BY <1>1, <1>2, <1>3, <1>4 DEF Next
-----------------------------------------------------------------------------
(* The Greenhouse tool: the ledger and what a run says.                      *)

Rec == {"recording", "writing", "truncated"}

\* What a run knows and has read was confirmed, by whichever run, and the run
\* reports what it saw confirmed: of a run whose variables are s and which has
\* seen own confirmed, all being confirmed.
RunHonest(s, own, all) ==
  /\ s.known \subseteq all /\ s.base \subseteq all
  /\ s.stage \in Rec => s.job \in own
  /\ s.stage = "idle" => own = {}
  /\ own \subseteq ToSet(s.applied)

Honest ==
  /\ Readable \subseteq AllConfirmed
  /\ \A r \in Runs : RunHonest(run[r], confirmed[r], AllConfirmed)

\* As long as runs follow one another and none is cut short while it records,
\* a run past its start knows all that was confirmed,
Knows(s, all) ==
  /\ s.stage \in {"scan", "form", "submitted", "pause"} => s.known = all
  /\ s.stage \in {"form", "submitted"} => s.job \notin all

\* and the ledger lacks at most the job that is being recorded.
Follows(s, file, all) ==
  /\ all = s.known \cup {s.job}
  /\ file = IF s.stage = "truncated" THEN Torn ELSE File(s.known)
  /\ s.stage # "recording" => s.base = s.known

OneAtATime == \A r, o \in Runs : UnderWay(r) /\ UnderWay(o) => r = o

Orderly ==
  /\ OneAtATime
  /\ \A r \in Runs : Knows(run[r], AllConfirmed)
  /\ (\A r \in Runs : ~Recording(r)) => ledger = File(AllConfirmed)
  /\ \A r \in Runs : Recording(r) => Follows(run[r], ledger, AllConfirmed)

LedgerInv == TypeOK /\ Honest /\ (spoilt \/ Orderly)

LEMMA SetOfAppended ==
  ASSUME NEW q \in Seq(Jobs), NEW j \in Jobs
  PROVE  ToSet(Append(q, j)) = ToSet(q) \cup {j}
  <1> DEFINE a == Append(q, j)
  <1>1. Len(q) \in Nat /\ DOMAIN q = 1..Len(q) /\ DOMAIN a = 1..Len(q) + 1
    OBVIOUS
  <1>2. a[Len(q) + 1] = j /\ \A i \in 1..Len(q) : a[i] = q[i]
    OBVIOUS
  <1> HIDE DEF a
  <1>3. 1..Len(q) + 1 = 1..Len(q) \cup {Len(q) + 1}
    BY <1>1
  <1>4. ToSet(a) = ToSet(q) \cup {j}
    BY <1>1, <1>2, <1>3 DEF ToSet
  <1> QED
    BY <1>4 DEF a

\* Between the start of a run and a confirmation, and after what was confirmed
\* is recorded, neither the ledger nor what a run knows changes.
Quiet(r) ==
  /\ ledger' = ledger /\ confirmed' = confirmed /\ spoilt' = spoilt
  /\ run' \in [Runs -> Local] /\ \A o \in Runs \ {r} : run'[o] = run[o]
  /\ run'[r].known = run[r].known /\ run'[r].base \subseteq run[r].base
  /\ ToSet(run[r].applied) \subseteq ToSet(run'[r].applied)
  /\ run[r].stage \in {"scan", "form", "submitted", "pause"}
  /\ run'[r].stage \in {"scan", "form", "submitted", "pause", "done"}
  /\ run'[r].stage \in {"form", "submitted"} =>
       \/ run'[r].job \notin run[r].known
       \/ run[r].stage \in {"form", "submitted"} /\ run'[r].job = run[r].job

LEMMA QuietSteps ==
  ASSUME TypeOK, NEW r \in Runs,
         \/ PassOver(r) \/ SkipJob(r) \/ OpenForm(r) \/ FormFails(r) \/ Prepare(r) \/ Submit(r)
         \/ Unconfirmed(r) \/ Pause(r) \/ Finish(r)
         \/ LateFailure(r) /\ run[r].stage = "pause"
  PROVE  Quiet(r)
  <1>0. run \in [Runs -> Local] /\ run[r] \in Local
    BY LocalTypes
  <1>1. run' \in [Runs -> Local]
    <2>1. Advance(r)
      BY DEF Advance
    <2> QED
      BY <2>1, AdvanceMoves, TypesKept DEF Moved
  <1> USE DEF Local
  <1>2. CASE PassOver(r)
    BY <1>0, <1>1, <1>2 DEF PassOver, Scanning, Quiet
  <1>3. CASE SkipJob(r)
    BY <1>0, <1>1, <1>3 DEF SkipJob, Scanning, Quiet
  <1>4. CASE OpenForm(r)
    BY <1>0, <1>1, <1>4 DEF OpenForm, Scanning, Quiet, InKnown
  <1>5. CASE FormFails(r)
    BY <1>0, <1>1, <1>5 DEF FormFails, Quiet
  <1>6. CASE Prepare(r)
    <2>1. run[r].job \in Jobs /\ run[r].applied \in Seq(Jobs)
      BY <1>0, <1>6, FormedHasJob DEF Prepare
    <2>2. run'[r].applied = Append(run[r].applied, run[r].job)
      BY <1>0, <1>6 DEF Prepare
    <2>3. ToSet(run[r].applied) \subseteq ToSet(run'[r].applied)
      BY <2>1, <2>2, SetOfAppended
    <2> QED
      BY <1>0, <1>1, <1>6, <2>3 DEF Prepare, Quiet
  <1>7. CASE Submit(r)
    <2>1. PICK accepted \in BOOLEAN : run' = [run EXCEPT ![r].stage = "submitted", ![r].accepted = accepted]
      BY <1>7 DEF Submit
    <2> QED
      BY <1>0, <1>1, <1>7, <2>1 DEF Submit, Quiet
  <1>8. CASE Unconfirmed(r)
    BY <1>0, <1>1, <1>8 DEF Unconfirmed, Quiet
  <1>9. CASE Pause(r)
    BY <1>0, <1>1, <1>9 DEF Pause, Quiet
  <1>10. CASE Finish(r)
    BY <1>0, <1>1, <1>10 DEF Finish, Quiet
  <1>11. CASE LateFailure(r) /\ run[r].stage = "pause"
    <2>1. spoilt' = spoilt
      BY <1>11 DEF LateFailure, Recording, TypeOK
    <2> QED
      BY <1>0, <1>1, <1>11, <2>1 DEF LateFailure, Quiet
  <1> QED
    BY <1>2, <1>3, <1>4, <1>5, <1>6, <1>7, <1>8, <1>9, <1>10, <1>11

\* What of the invariant does not depend on the run that moves.
LEMMA HonestKept ==
  ASSUME TypeOK, Honest, NEW r \in Runs,
         \A o \in Runs \ {r} : run'[o] = run[o] /\ confirmed'[o] = confirmed[o],
         AllConfirmed \subseteq AllConfirmed', Readable' \subseteq AllConfirmed',
         RunHonest(run'[r], confirmed'[r], AllConfirmed')
  PROVE  Honest'
  <1>1. ASSUME NEW o \in Runs PROVE RunHonest(run'[o], confirmed'[o], AllConfirmed')
    <2>1. CASE o = r
      BY <2>1
    <2>2. CASE o # r
      <3>1. RunHonest(run[o], confirmed[o], AllConfirmed) /\ run'[o] = run[o] /\ confirmed'[o] = confirmed[o]
        BY <2>2 DEF Honest
      <3> QED
        BY <3>1 DEF RunHonest
    <2> QED
      BY <2>1, <2>2
  <1> QED
    BY <1>1 DEF Honest

LEMMA OrderKept ==
  ASSUME TypeOK, Orderly, NEW r \in Runs, UnderWay(r),
         \A o \in Runs \ {r} : run'[o] = run[o],
         Knows(run'[r], AllConfirmed'),
         run'[r].stage \notin Rec => ledger' = File(AllConfirmed'),
         run'[r].stage \in Rec => Follows(run'[r], ledger', AllConfirmed')
  PROVE  Orderly'
  <1>1. \A o \in Runs \ {r} : run'[o].stage \in Over
    BY DEF Orderly, OneAtATime, UnderWay
  <1>2. OneAtATime'
    BY <1>1 DEF OneAtATime, UnderWay
  <1>3. \A o \in Runs \ {r} : Knows(run'[o], AllConfirmed') /\ run'[o].stage \notin Rec
    BY <1>1 DEF Knows, Over, Rec
  <1> QED
    BY <1>2, <1>3 DEF Orderly, Recording, Rec

LEMMA LedgerMoves ==
  ASSUME TypeOK, Honest, spoilt \/ Orderly, NEW r \in Runs, Advance(r)
  PROVE  Honest' /\ (spoilt' \/ Orderly')
  <1> USE DEF Local
  <1>0. /\ run \in [Runs -> Local] /\ run[r] \in Local /\ UnderWay(r)
        /\ RunHonest(run[r], confirmed[r], AllConfirmed) /\ Readable \subseteq AllConfirmed
        /\ confirmed \in [Runs -> SUBSET Jobs] /\ confirmed[r] \subseteq AllConfirmed
    <2>1. UnderWay(r)
      BY DEF Advance, LoadLedger, PassOver, SkipJob, OpenForm, Scanning, FormFails, Prepare, Submit, Confirmed,
             Unconfirmed, RecordRead, RecordTruncate, RecordWrite, LateFailure, Recording, Pause, Finish, UnderWay, Over
    <2> QED
      BY <2>1, LocalTypes, ConfirmedTypes DEF Honest, TypeOK
  <1>1. CASE Quiet(r)
    <2>1. AllConfirmed' = AllConfirmed /\ Readable' = Readable
      BY <1>1 DEF Quiet, AllConfirmed, Readable
    <2>2. RunHonest(run'[r], confirmed'[r], AllConfirmed')
      BY <1>0, <1>1, <2>1 DEF Quiet, RunHonest, Rec
    <2>3. Honest'
      BY <1>0, <1>1, <2>1, <2>2, HonestKept DEF Quiet
    <2>4. ASSUME Orderly PROVE Orderly'
      <3>1. Knows(run[r], AllConfirmed) /\ ~Recording(r)
        BY <1>1, <2>4 DEF Orderly, Quiet, Recording
      <3>2. \A o \in Runs : ~Recording(o)
        BY <1>0, <2>4, <3>1 DEF Orderly, OneAtATime, Recording, UnderWay, Over
      <3>3. ledger' = File(AllConfirmed')
        BY <1>1, <2>1, <2>4, <3>2 DEF Orderly, Quiet
      <3>4. Knows(run'[r], AllConfirmed')
        BY <1>1, <2>1, <3>1 DEF Quiet, Knows
      <3>5. run'[r].stage \notin Rec
        BY <1>1 DEF Quiet, Rec
      <3> QED
        BY <1>0, <1>1, <2>4, <3>3, <3>4, <3>5, OrderKept DEF Quiet
    <2> QED
      BY <1>1, <2>3, <2>4 DEF Quiet
  <1>2. CASE LoadLedger(r)
    <2>1. /\ run'[r].stage = "scan" /\ run'[r].known = Readable /\ run'[r].base = run[r].base
          /\ run'[r].applied = run[r].applied /\ \A o \in Runs \ {r} : run'[o] = run[o]
          /\ ledger' = ledger /\ confirmed' = confirmed /\ spoilt' = spoilt /\ run[r].stage = "discovered"
      BY <1>0, <1>2 DEF LoadLedger
    <2>2. AllConfirmed' = AllConfirmed /\ Readable' = Readable
      BY <2>1 DEF AllConfirmed, Readable
    <2>3. RunHonest(run'[r], confirmed'[r], AllConfirmed')
      BY <1>0, <2>1, <2>2 DEF RunHonest, Rec
    <2>4. Honest'
      BY <1>0, <2>1, <2>2, <2>3, HonestKept
    <2>5. ASSUME Orderly PROVE Orderly'
      <3>1. \A o \in Runs : ~Recording(o)
        BY <1>0, <2>1, <2>5 DEF Orderly, OneAtATime, Recording, UnderWay, Over
      <3>2. ledger = File(AllConfirmed) /\ Readable = AllConfirmed
        BY <2>5, <3>1 DEF Orderly, Readable, File
      <3>3. Knows(run'[r], AllConfirmed') /\ run'[r].stage \notin Rec
        BY <2>1, <2>2, <3>2 DEF Knows, Rec
      <3> QED
        BY <1>0, <2>1, <2>2, <2>5, <3>2, <3>3, OrderKept
    <2> QED
      BY <2>1, <2>4, <2>5
  <1>3. CASE Confirmed(r)
    <2>0. run[r].job \in Jobs /\ run[r].applied \in Seq(Jobs)
      BY <1>0, <1>3, FormedHasJob DEF Confirmed
    <2>1. /\ run'[r].stage = "recording" /\ run'[r].known = run[r].known /\ run'[r].base = run[r].base
          /\ run'[r].applied = Append(run[r].applied, run[r].job) /\ run'[r].job = run[r].job
          /\ \A o \in Runs \ {r} : run'[o] = run[o] /\ confirmed'[o] = confirmed[o]
          /\ ledger' = ledger /\ spoilt' = spoilt /\ run[r].stage = "submitted"
          /\ confirmed'[r] = confirmed[r] \cup {run[r].job}
      BY <1>0, <1>3 DEF Confirmed
    <2>2. AllConfirmed' = AllConfirmed \cup {run[r].job} /\ Readable' = Readable
      BY <2>1 DEF AllConfirmed, Readable
    <2>3. RunHonest(run'[r], confirmed'[r], AllConfirmed')
      <3>1. confirmed'[r] \subseteq ToSet(run'[r].applied)
        BY <1>0, <2>0, <2>1, SetOfAppended DEF RunHonest
      <3> QED
        BY <1>0, <2>1, <2>2, <3>1 DEF RunHonest
    <2>4. Honest'
      BY <1>0, <2>1, <2>2, <2>3, HonestKept
    <2>5. ASSUME Orderly PROVE Orderly'
      <3>1. \A o \in Runs : ~Recording(o)
        BY <1>0, <2>1, <2>5 DEF Orderly, OneAtATime, Recording, UnderWay, Over
      <3>2. ledger = File(AllConfirmed) /\ run[r].known = AllConfirmed
        BY <2>1, <2>5, <3>1 DEF Orderly, Knows
      <3>3. Knows(run'[r], AllConfirmed') /\ run'[r].stage \in Rec /\ Follows(run'[r], ledger', AllConfirmed')
        BY <2>1, <2>2, <3>2 DEF Knows, Rec, Follows
      <3> QED
        BY <1>0, <2>1, <2>5, <3>3, OrderKept
    <2> QED
      BY <2>1, <2>4, <2>5
  <1>4. CASE RecordRead(r)
    <2>1. /\ run'[r].stage = "writing" /\ run'[r].known = run[r].known /\ run'[r].base = Readable
          /\ run'[r].applied = run[r].applied /\ run'[r].job = run[r].job /\ \A o \in Runs \ {r} : run'[o] = run[o]
          /\ ledger' = ledger /\ confirmed' = confirmed /\ spoilt' = spoilt /\ run[r].stage = "recording"
      BY <1>0, <1>4 DEF RecordRead
    <2>2. AllConfirmed' = AllConfirmed /\ Readable' = Readable
      BY <2>1 DEF AllConfirmed, Readable
    <2>3. RunHonest(run'[r], confirmed'[r], AllConfirmed')
      BY <1>0, <2>1, <2>2 DEF RunHonest, Rec
    <2>4. Honest'
      BY <1>0, <2>1, <2>2, <2>3, HonestKept
    <2>5. ASSUME Orderly PROVE Orderly'
      <3>1. Follows(run[r], ledger, AllConfirmed)
        BY <2>1, <2>5 DEF Orderly, Recording
      <3>2. ledger = File(run[r].known) /\ Readable = run[r].known
        BY <2>1, <3>1 DEF Follows, Readable, File
      <3>3. Knows(run'[r], AllConfirmed') /\ run'[r].stage \in Rec /\ Follows(run'[r], ledger', AllConfirmed')
        BY <2>1, <2>2, <3>1, <3>2 DEF Knows, Rec, Follows
      <3> QED
        BY <1>0, <2>1, <2>5, <3>3, OrderKept
    <2> QED
      BY <2>1, <2>4, <2>5
  <1>5. CASE RecordTruncate(r)
    <2>1. /\ run'[r].stage = "truncated" /\ run'[r].known = run[r].known /\ run'[r].base = run[r].base
          /\ run'[r].applied = run[r].applied /\ run'[r].job = run[r].job /\ \A o \in Runs \ {r} : run'[o] = run[o]
          /\ ledger' = Torn /\ confirmed' = confirmed /\ spoilt' = spoilt /\ run[r].stage = "writing"
      BY <1>0, <1>5 DEF RecordTruncate
    <2>2. AllConfirmed' = AllConfirmed /\ Readable' = {}
      BY <2>1 DEF AllConfirmed, Readable, Torn
    <2>3. RunHonest(run'[r], confirmed'[r], AllConfirmed')
      BY <1>0, <2>1, <2>2 DEF RunHonest, Rec
    <2>4. Honest'
      BY <1>0, <2>1, <2>2, <2>3, HonestKept
    <2>5. ASSUME Orderly PROVE Orderly'
      <3>1. Follows(run[r], ledger, AllConfirmed)
        BY <2>1, <2>5 DEF Orderly, Recording
      <3>2. Knows(run'[r], AllConfirmed') /\ run'[r].stage \in Rec /\ Follows(run'[r], ledger', AllConfirmed')
        BY <2>1, <2>2, <3>1 DEF Knows, Rec, Follows
      <3> QED
        BY <1>0, <2>1, <2>5, <3>2, OrderKept
    <2> QED
      BY <2>1, <2>4, <2>5
  <1>6. CASE RecordWrite(r)
    <2>1. /\ run'[r].stage = "pause" /\ run'[r].known = run[r].known \cup {run[r].job} /\ run'[r].base = {}
          /\ run'[r].applied = run[r].applied /\ run'[r].job = run[r].job /\ \A o \in Runs \ {r} : run'[o] = run[o]
          /\ confirmed' = confirmed /\ spoilt' = spoilt /\ run[r].stage = "truncated"
          /\ ledger' = File(run[r].base \cup {run[r].job}) \/ (ledger.whole /\ ledger' = Torn)
      BY <1>0, <1>6 DEF RecordWrite, Content
    <2>2. AllConfirmed' = AllConfirmed /\ Readable' \subseteq run[r].base \cup {run[r].job}
      BY <2>1 DEF AllConfirmed, Readable, Torn, File
    <2>3. run[r].job \in AllConfirmed
      BY <1>0, <2>1 DEF RunHonest, Rec
    <2>4. RunHonest(run'[r], confirmed'[r], AllConfirmed')
      BY <1>0, <2>1, <2>2, <2>3 DEF RunHonest, Rec
    <2>5. Readable' \subseteq AllConfirmed'
      BY <1>0, <2>2, <2>3 DEF RunHonest
    <2>6. Honest'
      BY <1>0, <2>1, <2>2, <2>4, <2>5, HonestKept
    <2>7. ASSUME Orderly PROVE Orderly'
      <3>1. Follows(run[r], ledger, AllConfirmed)
        BY <2>1, <2>7 DEF Orderly, Recording
      <3>2. ledger' = File(AllConfirmed')
        BY <2>1, <2>2, <3>1 DEF Follows, Torn
      <3>3. Knows(run'[r], AllConfirmed') /\ run'[r].stage \notin Rec
        BY <2>1, <2>2, <3>1 DEF Knows, Rec, Follows
      <3> QED
        BY <1>0, <2>1, <2>7, <3>2, <3>3, OrderKept
    <2> QED
      BY <2>1, <2>6, <2>7
  <1>7. CASE LateFailure(r) /\ Recording(r)
    <2>1. /\ run'[r].stage = "scan" /\ run'[r].known = run[r].known /\ run'[r].base = {}
          /\ run'[r].applied = run[r].applied /\ \A o \in Runs \ {r} : run'[o] = run[o]
          /\ ledger' = ledger /\ confirmed' = confirmed
      BY <1>0, <1>7 DEF LateFailure
    <2>2. spoilt'
      BY <1>7 DEF LateFailure
    <2>3. AllConfirmed' = AllConfirmed /\ Readable' = Readable
      BY <2>1 DEF AllConfirmed, Readable
    <2>4. RunHonest(run'[r], confirmed'[r], AllConfirmed')
      BY <1>0, <2>1, <2>3 DEF RunHonest, Rec
    <2> QED
      BY <1>0, <2>1, <2>2, <2>3, <2>4, HonestKept
  <1>8. LateFailure(r) => Recording(r) \/ run[r].stage = "pause"
    BY DEF LateFailure
  <1>9. \/ Quiet(r) \/ LoadLedger(r) \/ Confirmed(r) \/ RecordRead(r) \/ RecordTruncate(r) \/ RecordWrite(r)
        \/ LateFailure(r) /\ Recording(r)
    BY <1>8, QuietSteps DEF Advance
  <1> QED
    BY <1>1, <1>2, <1>3, <1>4, <1>5, <1>6, <1>7, <1>9

LEMMA LedgerStep == LedgerInv /\ [Next]_vars => LedgerInv'
  <1> SUFFICES ASSUME LedgerInv, [Next]_vars PROVE LedgerInv'
    OBVIOUS
  <1>0. TypeOK /\ TypeOK' /\ Honest /\ (spoilt \/ Orderly)
    BY ApplyTypes DEF LedgerInv
  <1>1. ASSUME NEW r \in Runs, NEW input \in Inputs, Discover(r, input) PROVE LedgerInv'
    <2>1. PICK s \in Local : Moved(r, s) /\ s.stage \in {"discovered", "done"} /\ s.applied = <<>> /\ s.base = {} /\ s.known = {}
      BY <1>0, <1>1, DiscoverMoves
    <2>2. /\ run'[r] = s /\ (\A o \in Runs \ {r} : run'[o] = run[o])
          /\ ledger' = ledger /\ confirmed' = confirmed /\ run[r].stage = "idle"
      BY <1>0, <1>1, <2>1, TypesKept DEF Moved, Discover
    <2>3. AllConfirmed' = AllConfirmed /\ Readable' = Readable
      BY <2>2 DEF AllConfirmed, Readable
    <2>4. RunHonest(run'[r], confirmed'[r], AllConfirmed')
      BY <1>0, <2>1, <2>2 DEF RunHonest, Rec, Honest
    <2>5. Honest'
      BY <1>0, <2>2, <2>3, <2>4, HonestKept DEF Honest
    <2>6. spoilt' \/ Orderly'
      <3> SUFFICES ASSUME ~spoilt' PROVE Orderly'
        OBVIOUS
      <3>1. (\A o \in Runs : ~UnderWay(o)) /\ Orderly
        BY <1>0, <1>1 DEF Discover
      <3>2. (\A o \in Runs : ~Recording(o)) /\ ledger = File(AllConfirmed)
        BY <3>1 DEF Orderly, Recording, UnderWay, Over
      <3>3. \A o \in Runs \ {r} : run'[o].stage \in Over
        BY <2>2, <3>1 DEF UnderWay
      <3>4. OneAtATime'
        BY <3>3 DEF OneAtATime, UnderWay
      <3>5. \A o \in Runs : Knows(run'[o], AllConfirmed') /\ run'[o].stage \notin Rec
        BY <2>1, <2>2, <3>3 DEF Knows, Over, Rec
      <3> QED
        BY <2>2, <2>3, <3>2, <3>4, <3>5 DEF Orderly, Recording, Rec
    <2> QED
      BY <1>0, <2>5, <2>6 DEF LedgerInv
  <1>2. ASSUME NEW r \in Runs, Advance(r) PROVE LedgerInv'
    BY <1>0, <1>2, LedgerMoves DEF LedgerInv
  <1>3. CASE Crash
    <2>1. AllConfirmed' = AllConfirmed /\ Readable' = Readable /\ ledger' = ledger /\ confirmed' = confirmed
      BY <1>3 DEF Crash, AllConfirmed, Readable
    <2>2. ASSUME NEW r \in Runs PROVE RunHonest(run'[r], confirmed'[r], AllConfirmed')
      <3>1. RunHonest(run[r], confirmed[r], AllConfirmed) /\ run[r] \in Local
        BY <1>0, LocalTypes DEF Honest
      <3>2. CASE UnderWay(r)
        <4>1. /\ run'[r].stage = "lost" /\ run'[r].known = run[r].known /\ run'[r].base = run[r].base
              /\ run'[r].applied = run[r].applied
          BY <1>0, <1>3, <3>1, <3>2, CrashMoves DEF Local
        <4> QED
          BY <2>1, <3>1, <4>1 DEF RunHonest, Rec
      <3>3. CASE ~UnderWay(r)
        BY <1>0, <1>3, <2>1, <3>1, <3>3, CrashMoves
      <3> QED
        BY <3>2, <3>3
    <2>3. Honest'
      BY <1>0, <2>1, <2>2 DEF Honest
    <2>4. \A r \in Runs : run'[r].stage \in Over
      <3> SUFFICES ASSUME NEW r \in Runs PROVE run'[r].stage \in Over
        OBVIOUS
      <3>1. run[r] \in Local
        BY <1>0, LocalTypes
      <3> QED
        BY <1>0, <1>3, <3>1, CrashMoves DEF Local, UnderWay, Over
    <2>5. spoilt' \/ Orderly'
      <3> SUFFICES ASSUME ~spoilt' PROVE Orderly'
        OBVIOUS
      <3>1. (\A r \in Runs : ~Recording(r)) /\ Orderly
        BY <1>0, <1>3 DEF Crash
      <3>2. ledger' = File(AllConfirmed')
        BY <2>1, <3>1 DEF Orderly
      <3>3. OneAtATime'
        BY <2>4 DEF OneAtATime, UnderWay
      <3>4. \A r \in Runs : Knows(run'[r], AllConfirmed') /\ run'[r].stage \notin Rec
        BY <2>4 DEF Knows, Over, Rec
      <3> QED
        BY <3>2, <3>3, <3>4 DEF Orderly, Recording, Rec
    <2> QED
      BY <1>0, <2>3, <2>5 DEF LedgerInv
  <1>4. CASE UNCHANGED vars
    BY <1>0, <1>4 DEF vars, LedgerInv, Honest, RunHonest, Readable, AllConfirmed, Orderly, OneAtATime, UnderWay,
                      Knows, Recording, Follows
  <1> QED
    BY <1>1, <1>2, <1>3, <1>4 DEF Next

LEMMA LedgerStart == Init => LedgerInv
  <1> SUFFICES ASSUME Init PROVE LedgerInv
    OBVIOUS
  <1>1. \A r \in Runs : run[r] = Idle /\ confirmed[r] = {}
    BY DEF Init
  <1>2. /\ Idle.stage = "idle" /\ Idle.known = {} /\ Idle.base = {} /\ Idle.applied = <<>>
    BY DEF Idle
  <1>3. AllConfirmed = {} /\ Readable = {} /\ ledger = File({})
    BY <1>1 DEF AllConfirmed, Readable, Init, File
  <1>4. TypeOK
    <2>1. run \in [Runs -> Local]
      BY IdleIsLocal DEF Init
    <2>2. \A r \in Runs : run[r].stage \notin Formed
      BY <1>1, <1>2 DEF Formed, Over
    <2>3. ledger \in [whole : BOOLEAN, jobs : SUBSET Jobs]
      BY <1>3 DEF File
    <2>4. received \in [Jobs -> Nat] /\ confirmed \in [Runs -> SUBSET Jobs]
      BY DEF Init
    <2>5. crashes \in 0..MaxCrashes /\ faults \in 0..MaxFaults /\ spoilt \in BOOLEAN
      <3>1. MaxCrashes \in Nat /\ MaxFaults \in Nat
        BY ApplyAssumption
      <3>2. crashes = 0 /\ faults = 0
        BY DEF Init
      <3>3. spoilt \in BOOLEAN
        BY DEF Init
      <3> QED
        BY <3>1, <3>2, <3>3
    <2> QED
      BY <2>1, <2>2, <2>3, <2>4, <2>5 DEF TypeOK, Local, Formed
  <1>5. Honest
    BY <1>1, <1>2, <1>3 DEF Honest, RunHonest, Rec
  <1>6. Orderly
    BY <1>1, <1>2, <1>3 DEF Orderly, OneAtATime, UnderWay, Over, Knows, Recording
  <1> QED
    BY <1>4, <1>5, <1>6 DEF LedgerInv

LEMMA FlowsAreApplied == FlowsInit => Init
  BY DEF FlowsInit

LEMMA ApplyActs == [FlowsNext]_allVars => [Next]_vars
  BY DEF FlowsNext, allVars, OfGreenhouse, OfListing, OfFlow, OfForm

LEMMA LedgerAlways == FlowsSpec => []LedgerInv
  <1>1. FlowsInit => LedgerInv
    BY FlowsAreApplied, LedgerStart
  <1>2. LedgerInv /\ [FlowsNext]_allVars => LedgerInv'
    BY ApplyActs, LedgerStep
  <1> QED
    BY <1>1, <1>2, PTL DEF FlowsSpec

\* Whatever runs of the tool have overlapped or were cut short, only what was
\* confirmed is taken for applied and a finished run reports it; as long as none
\* was, the ledger has every job that was ever confirmed.
THEOREM LedgerIsKeptAlways == FlowsSpec => []LedgerIsKept
  <1>1. LedgerInv => LedgerIsKept
    <2> SUFFICES ASSUME LedgerInv PROVE LedgerIsKept
      OBVIOUS
    <2>1. LedgerIsHonest
      BY DEF LedgerInv, Honest, RunHonest, LedgerIsHonest
    <2>2. LedgerRemembers
      BY DEF LedgerInv, Orderly, LedgerRemembers
    <2>3. ASSUME NEW r \in Runs, NEW j \in confirmed[r] PROVE Contains(run[r].applied, j)
      <3>1. j \in ToSet(run[r].applied) /\ run[r].applied \in Seq(Jobs)
        BY <2>3, LocalTypes DEF LedgerInv, Honest, RunHonest, Local
      <3>2. DOMAIN run[r].applied = 1..Len(run[r].applied)
        BY <3>1
      <3> QED
        BY <3>1, <3>2 DEF ToSet, Contains
    <2> QED
      BY <2>1, <2>2, <2>3 DEF ConfirmedIsReported, LedgerIsKept
  <1> QED
    BY <1>1, LedgerAlways, PTL

\* Of runs that follow one another and are left to record, none sends an
\* employer an application that an earlier one saw confirmed.
THEOREM ConfirmedNotResentAlways == FlowsSpec => ConfirmedNotResent
  <1>1. LedgerInv /\ [Next]_vars => [spoilt \/ \A j \in AllConfirmed : received'[j] = received[j]]_vars
    <2> SUFFICES ASSUME LedgerInv, Next, ~spoilt, NEW j \in AllConfirmed PROVE received'[j] = received[j]
      OBVIOUS
    <2>0. TypeOK /\ Orderly /\ j \in Jobs
      BY ConfirmedTypes DEF LedgerInv
    <2>1. ASSUME NEW r \in Runs, Submit(r) PROVE received'[j] = received[j]
      <3>1. run[r].job \notin AllConfirmed
        BY <2>0, <2>1 DEF Submit, Orderly, Knows
      <3>2. received' = received \/ received' = [received EXCEPT ![run[r].job] = @ + 1]
        BY <2>1 DEF Submit
      <3> QED
        BY <2>0, <3>1, <3>2 DEF TypeOK
    <2>2. (\E r \in Runs : Submit(r)) \/ received' = received
      BY DEF Next, Discover, Advance, LoadLedger, PassOver, SkipJob, OpenForm, FormFails, Prepare, Confirmed,
             Unconfirmed, RecordRead, RecordTruncate, RecordWrite, LateFailure, Pause, Finish, Crash
    <2> QED
      BY <2>1, <2>2
  <1> QED
    BY <1>1, ApplyActs, LedgerAlways, PTL DEF FlowsSpec, ConfirmedNotResent

-----------------------------------------------------------------------------
(* The Greenhouse tool: quotas, and an entry for every scan.                 *)

Times(j, jobs) == Cardinality({i \in DOMAIN jobs : jobs[i] = j})

CountIn(P, jobs) == Cardinality({i \in DOMAIN jobs : jobs[i] \in P})

LEMMA CountAppended ==
  ASSUME NEW q \in Seq(Jobs), NEW j \in Jobs, NEW P
  PROVE  /\ CountIn(P, q) \in Nat
         /\ CountIn(P, Append(q, j)) = CountIn(P, q) + (IF j \in P THEN 1 ELSE 0)
  <1> DEFINE a == Append(q, j)
             Q == {i \in DOMAIN q : q[i] \in P}
             A == {i \in DOMAIN a : a[i] \in P}
             n == Len(q)
  <1>1. n \in Nat /\ DOMAIN q = 1..n /\ DOMAIN a = 1..n + 1 /\ a[n + 1] = j /\ \A i \in 1..n : a[i] = q[i]
    OBVIOUS
  <1>2. IsFiniteSet(Q) /\ Cardinality(Q) \in Nat
    <2>1. Q \in SUBSET (1..n) /\ IsFiniteSet(1..n)
      BY <1>1, FS_Interval
    <2> HIDE DEF Q, n
    <2> QED
      BY <2>1, FS_Subset, FS_CardinalityType
  <1> HIDE DEF a, n
  <1>3. n + 1 \notin Q
    BY <1>1
  <1>4. A = IF j \in P THEN Q \cup {n + 1} ELSE Q
    <2>1. 1..n + 1 = 1..n \cup {n + 1}
      BY <1>1
    <2> QED
      BY <1>1, <2>1
  <1>5. CountIn(P, q) = Cardinality(Q) /\ CountIn(P, a) = Cardinality(A)
    BY DEF CountIn
  <1> HIDE DEF Q, A
  <1>6. Cardinality(A) = Cardinality(Q) + (IF j \in P THEN 1 ELSE 0)
    <2>1. Cardinality(Q \cup {n + 1}) = Cardinality(Q) + 1
      BY <1>2, <1>3, FS_AddElement
    <2> QED
      BY <1>2, <1>4, <2>1
  <1> QED
    BY <1>2, <1>5, <1>6 DEF a

LEMMA BoardCounts ==
  \A q \in Seq(Jobs), j \in Jobs : \A b :
    OnBoard(b, Append(q, j)) = OnBoard(b, q) + (IF Board[j] = b THEN 1 ELSE 0)
  <1> SUFFICES ASSUME NEW q \in Seq(Jobs), NEW j \in Jobs, NEW b
               PROVE  OnBoard(b, Append(q, j)) = OnBoard(b, q) + (IF Board[j] = b THEN 1 ELSE 0)
    OBVIOUS
  <1> DEFINE P == {x \in Jobs : Board[x] = b}
  <1>1. ASSUME NEW s \in Seq(Jobs) PROVE OnBoard(b, s) = CountIn(P, s)
    <2>1. \A k \in DOMAIN s : s[k] \in Jobs
      BY <1>1
    <2>2. {k \in DOMAIN s : Board[s[k]] = b} = {k \in DOMAIN s : s[k] \in P}
      BY <2>1
    <2> QED
      BY <2>2 DEF OnBoard, CountIn
  <1>2. Append(q, j) \in Seq(Jobs)
    OBVIOUS
  <1>3. j \in P <=> Board[j] = b
    OBVIOUS
  <1> HIDE DEF P
  <1>4. CountIn(P, Append(q, j)) = CountIn(P, q) + (IF j \in P THEN 1 ELSE 0)
    BY CountAppended
  <1>5. OnBoard(b, Append(q, j)) = CountIn(P, Append(q, j)) /\ OnBoard(b, q) = CountIn(P, q)
    BY <1>1, <1>2
  <1> QED
    BY <1>3, <1>4, <1>5

LEMMA EntryCounts ==
  \A q \in Seq(Jobs), j \in Jobs : \A i :
    Times(i, Append(q, j)) = Times(i, q) + (IF j = i THEN 1 ELSE 0)
  <1> SUFFICES ASSUME NEW q \in Seq(Jobs), NEW j \in Jobs, NEW i
               PROVE  Times(i, Append(q, j)) = Times(i, q) + (IF j = i THEN 1 ELSE 0)
    OBVIOUS
  <1>1. ASSUME NEW s \in Seq(Jobs) PROVE Times(i, s) = CountIn({i}, s)
    BY DEF Times, CountIn
  <1>2. Append(q, j) \in Seq(Jobs)
    OBVIOUS
  <1>3. CountIn({i}, Append(q, j)) = CountIn({i}, q) + (IF j \in {i} THEN 1 ELSE 0)
    BY CountAppended
  <1>4. Times(i, Append(q, j)) = CountIn({i}, Append(q, j)) /\ Times(i, q) = CountIn({i}, q)
    BY <1>1, <1>2
  <1> QED
    BY <1>3, <1>4

LEMMA Counted == \A q \in Seq(Jobs) : \A i : OnBoard(i, q) \in Nat /\ Times(i, q) \in Nat
  <1> SUFFICES ASSUME NEW q \in Seq(Jobs), NEW i PROVE OnBoard(i, q) \in Nat /\ Times(i, q) \in Nat
    OBVIOUS
  <1>1. IsFiniteSet(DOMAIN q)
    <2>1. Len(q) \in Int /\ DOMAIN q = 1..Len(q)
      OBVIOUS
    <2> QED
      BY <2>1, FS_Interval
  <1> DEFINE A == {k \in DOMAIN q : Board[q[k]] = i}
             B == {k \in DOMAIN q : q[k] = i}
  <1>2. A \in SUBSET DOMAIN q /\ B \in SUBSET DOMAIN q
    OBVIOUS
  <1>3. Cardinality(A) \in Nat /\ Cardinality(B) \in Nat
    <2> HIDE DEF A, B
    <2> QED
      BY <1>1, <1>2, FS_Subset, FS_CardinalityType
  <1> QED
    BY <1>3 DEF OnBoard, Times

\* A run of variables s is within its limits, with room left for the job of an
\* open form; a run that has yet to start serves the boards by their turns.
WithinLimits(s) ==
  /\ s.stage = "discovered" => s.input \in Inputs /\ s.queue = InterleaveBoards(s.input.groups)
  /\ Len(s.applied) <= s.input.limit
  /\ \A j \in Jobs :
       /\ s.input.perBoard > 0 => OnBoard(Board[j], s.applied) <= s.input.perBoard
       /\ s.input.scans > 0 => OnBoard(Board[j], s.scanned) <= s.input.scans
  /\ s.stage \in {"form", "submitted"} =>
       /\ Len(s.applied) < s.input.limit
       /\ s.input.perBoard > 0 => OnBoard(Board[s.job], s.applied) < s.input.perBoard

\* What was scanned has an entry, except for the job of an open form.
Awaiting(s, j) == IF s.stage \in {"form", "submitted"} /\ s.job = j THEN 1 ELSE 0
Accounted(s) ==
  s.stage # "lost" =>
    \A j \in Jobs : Times(j, s.applied) + Times(j, s.skipped) + Awaiting(s, j) = Times(j, s.scanned)

ScanInv ==
  /\ \A r \in Runs : WithinLimits(run[r])
  /\ faults = 0 => \A r \in Runs : Accounted(run[r])

\* The limits are numbers, so are the counts.
LEMMA LimitTypes ==
  ASSUME TypeOK, NEW r \in Runs
  PROVE  /\ run[r].input.limit \in Nat \ {0} /\ run[r].input.perBoard \in Nat /\ run[r].input.scans \in Nat
         /\ run[r].applied \in Seq(Jobs) /\ run[r].skipped \in Seq(Jobs) /\ run[r].scanned \in Seq(Jobs)
  <1>1. run[r] \in Local
    BY LocalTypes
  <1>2. /\ Idle.input.limit = 1 /\ Idle.input.perBoard = 0 /\ Idle.input.scans = 0
    BY DEF Idle
  <1>3. \A i \in Inputs : i.limit \in Nat \ {0} /\ i.perBoard \in Nat /\ i.scans \in Nat
    BY ApplyAssumption DEF Input
  <1>4. run[r].input \in Inputs \/ run[r].input = Idle.input
    BY <1>1 DEF Local
  <1> QED
    BY <1>1, <1>2, <1>3, <1>4 DEF Local

\* What a run has listed stays as it is.
SameLists(r) ==
  /\ run'[r].input = run[r].input /\ run'[r].applied = run[r].applied
  /\ run'[r].skipped = run[r].skipped /\ run'[r].scanned = run[r].scanned

LEMMA ListsKept ==
  ASSUME NEW r \in Runs, WithinLimits(run[r]), SameLists(r),
         run[r].stage # "lost", run'[r].stage \notin {"discovered", "lost"},
         run'[r].stage \in {"form", "submitted"} <=> run[r].stage \in {"form", "submitted"},
         run'[r].stage \in {"form", "submitted"} => run'[r].job = run[r].job
  PROVE  WithinLimits(run'[r]) /\ (Accounted(run[r]) => Accounted(run'[r]))
  BY DEF WithinLimits, SameLists, Accounted, Awaiting

\* One list grows by the job that was scanned, or scanned itself grows with it.
LEMMA ScanMoves ==
  ASSUME TypeOK, NEW r \in Runs, WithinLimits(run[r]), Advance(r)
  PROVE  /\ WithinLimits(run'[r])
         /\ faults' = 0 => faults = 0 /\ (Accounted(run[r]) => Accounted(run'[r]))
  <1> USE DEF Local
  <1>0. run \in [Runs -> Local] /\ run[r] \in Local
    BY LocalTypes
  <1> DEFINE s == run[r]
             t == run'[r]
  <1>t. /\ s.input.limit \in Nat \ {0} /\ s.input.perBoard \in Nat /\ s.input.scans \in Nat
        /\ s.applied \in Seq(Jobs) /\ s.skipped \in Seq(Jobs) /\ s.scanned \in Seq(Jobs)
    BY LimitTypes
  <1>w. WithinLimits(s)
    OBVIOUS
  <1> HIDE DEF s, t
  <1>1. CASE LoadLedger(r) \/ PassOver(r) \/ RecordRead(r) \/ RecordTruncate(r) \/ Pause(r) \/ Finish(r)
    <2>1. SameLists(r) /\ s.stage \notin {"lost", "form", "submitted"}
          /\ t.stage \notin {"discovered", "lost", "form", "submitted"} /\ faults' = faults
      BY <1>0, <1>1 DEF LoadLedger, PassOver, Scanning, RecordRead, RecordTruncate, Pause, Finish, SameLists, s, t
    <2> QED
      BY <2>1, ListsKept DEF s, t
  <1>2. CASE RecordWrite(r)
    <2>1. SameLists(r) /\ s.stage \notin {"lost", "form", "submitted"}
          /\ t.stage \notin {"discovered", "lost", "form", "submitted"} /\ faults' = faults
      BY <1>0, <1>2 DEF RecordWrite, SameLists, s, t
    <2> QED
      BY <2>1, ListsKept DEF s, t
  <1>3. CASE Submit(r)
    <2>0. PICK accepted \in BOOLEAN : run' = [run EXCEPT ![r].stage = "submitted", ![r].accepted = accepted]
      BY <1>3 DEF Submit
    <2>1. SameLists(r) /\ s.stage = "form" /\ t.stage = "submitted" /\ t.job = s.job /\ faults' = faults
      BY <1>0, <1>3, <2>0 DEF Submit, SameLists, s, t
    <2> QED
      BY <2>1, ListsKept DEF s, t
  <1>4. CASE LateFailure(r)
    <2>1. /\ t.input = s.input /\ t.applied = s.applied /\ t.scanned = s.scanned /\ t.stage = "scan"
          /\ faults' = faults + 1
      BY <1>0, <1>4 DEF LateFailure, s, t
    <2>2. WithinLimits(t)
      BY <1>w, <2>1 DEF WithinLimits
    <2>3. faults' # 0
      BY <2>1 DEF TypeOK
    <2> QED
      BY <2>2, <2>3 DEF t
  <1>5. CASE SkipJob(r)
    <2> DEFINE j == Head(s.queue)
    <2>1. /\ t.input = s.input /\ t.applied = s.applied /\ t.scanned = Append(s.scanned, j)
          /\ t.skipped = Append(s.skipped, j) /\ t.stage = "scan" /\ s.stage = "scan" /\ faults' = faults
          /\ ~OverQuota(s, Board[j])
      BY <1>0, <1>5 DEF SkipJob, Scanning, s, t
    <2>2. j \in Jobs
      BY <1>5, HeadOfQueue DEF SkipJob, s
    <2> HIDE DEF j
    <2>3. WithinLimits(t)
      <3> SUFFICES ASSUME NEW i \in Jobs, s.input.scans > 0 PROVE OnBoard(Board[i], t.scanned) <= s.input.scans
        BY <1>w, <2>1 DEF WithinLimits
      <3>1. /\ OnBoard(Board[i], t.scanned) = OnBoard(Board[i], s.scanned) + (IF Board[j] = Board[i] THEN 1 ELSE 0)
            /\ OnBoard(Board[i], s.scanned) \in Nat
        BY <1>t, <2>1, <2>2, BoardCounts, Counted
      <3>2. OnBoard(Board[i], s.scanned) <= s.input.scans
        BY <1>w DEF WithinLimits
      <3>3. ~(OnBoard(Board[j], s.scanned) >= s.input.scans)
        BY <2>1 DEF OverQuota
      <3> QED
        BY <1>t, <3>1, <3>2, <3>3
    <2>4. ASSUME Accounted(s), NEW i \in Jobs
          PROVE  Times(i, t.applied) + Times(i, t.skipped) + Awaiting(t, i) = Times(i, t.scanned)
      <3>0. Times(i, s.scanned) \in Nat /\ Times(i, s.skipped) \in Nat /\ Times(i, s.applied) \in Nat
        BY <1>t, Counted
      <3>1. Times(i, t.scanned) = Times(i, s.scanned) + (IF j = i THEN 1 ELSE 0)
        BY <1>t, <2>1, <2>2, EntryCounts
      <3>3. Times(i, t.skipped) = Times(i, s.skipped) + (IF j = i THEN 1 ELSE 0)
        BY <1>t, <2>1, <2>2, EntryCounts
      <3>2. Times(i, s.applied) + Times(i, s.skipped) + 0 = Times(i, s.scanned)
        BY <2>1, <2>4 DEF Accounted, Awaiting
      <3> QED
        BY <2>1, <3>0, <3>1, <3>2, <3>3 DEF Awaiting
    <2> QED
      BY <2>1, <2>3, <2>4 DEF Accounted, s, t
  <1>6. CASE OpenForm(r)
    <2> DEFINE j == Head(s.queue)
    <2>1. /\ t.input = s.input /\ t.applied = s.applied /\ t.scanned = Append(s.scanned, j)
          /\ t.skipped = s.skipped /\ t.job = j /\ t.stage = "form" /\ s.stage = "scan" /\ faults' = faults
          /\ ~OverQuota(s, Board[j]) /\ ~(Len(s.applied) >= s.input.limit)
      BY <1>0, <1>6 DEF OpenForm, Scanning, Full, s, t
    <2>2. j \in Jobs
      BY <1>6, HeadOfQueue DEF OpenForm, s
    <2> HIDE DEF j
    <2>3. WithinLimits(t)
      <3>1. ASSUME NEW i \in Jobs, s.input.scans > 0 PROVE OnBoard(Board[i], t.scanned) <= s.input.scans
        <4>1. /\ OnBoard(Board[i], t.scanned) = OnBoard(Board[i], s.scanned) + (IF Board[j] = Board[i] THEN 1 ELSE 0)
              /\ OnBoard(Board[i], s.scanned) \in Nat
          BY <1>t, <2>1, <2>2, BoardCounts, Counted
        <4>2. OnBoard(Board[i], s.scanned) <= s.input.scans
          BY <1>w, <3>1 DEF WithinLimits
        <4>3. ~(OnBoard(Board[j], s.scanned) >= s.input.scans)
          BY <2>1, <3>1 DEF OverQuota
        <4> QED
          BY <1>t, <4>1, <4>2, <4>3
      <3>2. Len(s.applied) < s.input.limit
        BY <1>t, <2>1
      <3>3. s.input.perBoard > 0 => OnBoard(Board[j], s.applied) < s.input.perBoard
        <4>1. OnBoard(Board[j], s.applied) \in Nat
          BY <1>t, <2>2, Counted
        <4> QED
          BY <1>t, <2>1, <4>1 DEF OverQuota
      <3> QED
        BY <1>w, <2>1, <3>1, <3>2, <3>3 DEF WithinLimits
    <2>4. ASSUME Accounted(s), NEW i \in Jobs
          PROVE  Times(i, t.applied) + Times(i, t.skipped) + Awaiting(t, i) = Times(i, t.scanned)
      <3>0. Times(i, s.scanned) \in Nat /\ Times(i, s.skipped) \in Nat /\ Times(i, s.applied) \in Nat
        BY <1>t, Counted
      <3>1. Times(i, t.scanned) = Times(i, s.scanned) + (IF j = i THEN 1 ELSE 0)
        BY <1>t, <2>1, <2>2, EntryCounts
      <3>2. Times(i, s.applied) + Times(i, s.skipped) + 0 = Times(i, s.scanned)
        BY <2>1, <2>4 DEF Accounted, Awaiting
      <3> QED
        BY <2>1, <3>0, <3>1, <3>2 DEF Awaiting
    <2> QED
      BY <2>1, <2>3, <2>4 DEF Accounted, s, t
  <1>7. CASE FormFails(r) \/ Unconfirmed(r)
    <2>1. /\ t.input = s.input /\ t.applied = s.applied /\ t.scanned = s.scanned
          /\ t.skipped = Append(s.skipped, s.job) /\ t.stage = "pause" /\ s.stage \in {"form", "submitted"}
          /\ faults' = faults
      BY <1>0, <1>7 DEF FormFails, Unconfirmed, s, t
    <2>2. s.job \in Jobs
      BY <2>1, FormedHasJob DEF s
    <2>3. WithinLimits(t)
      BY <1>w, <2>1 DEF WithinLimits
    <2>4. ASSUME Accounted(s), NEW i \in Jobs
          PROVE  Times(i, t.applied) + Times(i, t.skipped) + Awaiting(t, i) = Times(i, t.scanned)
      <3>0. Times(i, s.scanned) \in Nat /\ Times(i, s.skipped) \in Nat /\ Times(i, s.applied) \in Nat
        BY <1>t, Counted
      <3>1. Times(i, t.skipped) = Times(i, s.skipped) + (IF s.job = i THEN 1 ELSE 0)
        BY <1>t, <2>1, <2>2, EntryCounts
      <3>2. Times(i, s.applied) + Times(i, s.skipped) + (IF s.job = i THEN 1 ELSE 0) = Times(i, s.scanned)
        BY <2>1, <2>4 DEF Accounted, Awaiting
      <3> QED
        BY <2>1, <3>0, <3>1, <3>2 DEF Awaiting
    <2> QED
      BY <2>1, <2>3, <2>4 DEF Accounted, s, t
  <1>8. CASE Prepare(r) \/ Confirmed(r)
    <2>1. /\ t.input = s.input /\ t.applied = Append(s.applied, s.job) /\ t.scanned = s.scanned
          /\ t.skipped = s.skipped /\ t.stage \in {"pause", "recording"} /\ s.stage \in {"form", "submitted"}
          /\ faults' = faults
      BY <1>0, <1>8 DEF Prepare, Confirmed, s, t
    <2>2. s.job \in Jobs
      BY <2>1, FormedHasJob DEF s
    <2>3. WithinLimits(t)
      <3>1. Len(t.applied) = Len(s.applied) + 1 /\ Len(s.applied) \in Nat
        BY <1>t, <2>1, <2>2
      <3>2. Len(t.applied) <= s.input.limit
        BY <1>w, <1>t, <2>1, <3>1 DEF WithinLimits
      <3>3. ASSUME NEW i \in Jobs, s.input.perBoard > 0 PROVE OnBoard(Board[i], t.applied) <= s.input.perBoard
        <4>1. /\ OnBoard(Board[i], t.applied) = OnBoard(Board[i], s.applied) + (IF Board[s.job] = Board[i] THEN 1 ELSE 0)
              /\ OnBoard(Board[i], s.applied) \in Nat
          BY <1>t, <2>1, <2>2, BoardCounts, Counted
        <4>2. OnBoard(Board[i], s.applied) <= s.input.perBoard
          BY <1>w, <3>3 DEF WithinLimits
        <4>3. OnBoard(Board[s.job], s.applied) < s.input.perBoard
          BY <1>w, <2>1, <3>3 DEF WithinLimits
        <4> QED
          BY <1>t, <4>1, <4>2, <4>3
      <3> QED
        BY <1>w, <2>1, <3>2, <3>3 DEF WithinLimits
    <2>4. ASSUME Accounted(s), NEW i \in Jobs
          PROVE  Times(i, t.applied) + Times(i, t.skipped) + Awaiting(t, i) = Times(i, t.scanned)
      <3>0. Times(i, s.scanned) \in Nat /\ Times(i, s.skipped) \in Nat /\ Times(i, s.applied) \in Nat
        BY <1>t, Counted
      <3>1. Times(i, t.applied) = Times(i, s.applied) + (IF s.job = i THEN 1 ELSE 0)
        BY <1>t, <2>1, <2>2, EntryCounts
      <3>2. Times(i, s.applied) + Times(i, s.skipped) + (IF s.job = i THEN 1 ELSE 0) = Times(i, s.scanned)
        BY <2>1, <2>4 DEF Accounted, Awaiting
      <3> QED
        BY <2>1, <3>0, <3>1, <3>2 DEF Awaiting
    <2> QED
      BY <2>1, <2>3, <2>4 DEF Accounted, s, t
  <1> QED
    BY <1>1, <1>2, <1>3, <1>4, <1>5, <1>6, <1>7, <1>8 DEF Advance, s, t

LEMMA ScanStep == TypeOK /\ ScanInv /\ [Next]_vars => ScanInv'
  <1> SUFFICES ASSUME TypeOK, ScanInv, [Next]_vars PROVE ScanInv'
    OBVIOUS
  <1>1. ASSUME NEW r \in Runs, NEW input \in Inputs, Discover(r, input) PROVE ScanInv'
    <2>1. PICK s \in Local :
            /\ Moved(r, s) /\ s.stage \in {"discovered", "done"} /\ s.applied = <<>> /\ s.scanned = <<>>
            /\ s.skipped = <<>> /\ s.input = input /\ s.queue = InterleaveBoards(input.groups)
      BY <1>1, DiscoverMoves
    <2>2. run'[r] = s /\ (\A o \in Runs \ {r} : run'[o] = run[o]) /\ faults' = faults
      BY <1>1, <2>1, TypesKept DEF Moved, Discover
    <2>3. input.limit \in Nat \ {0} /\ input.perBoard \in Nat /\ input.scans \in Nat
      BY ApplyAssumption DEF Input
    <2>4. \A b : OnBoard(b, <<>>) = 0 /\ Times(b, <<>>) = 0
      BY FS_EmptySet DEF OnBoard, Times
    <2>5. WithinLimits(s)
      BY <2>1, <2>3, <2>4 DEF WithinLimits
    <2>6. Accounted(s)
      BY <2>1, <2>4 DEF Accounted, Awaiting
    <2> QED
      BY <2>2, <2>5, <2>6 DEF ScanInv
  <1>2. ASSUME NEW r \in Runs, Advance(r) PROVE ScanInv'
    <2>1. PICK s \in Local : Moved(r, s)
      BY <1>2, AdvanceMoves
    <2>2. \A o \in Runs \ {r} : run'[o] = run[o]
      BY <2>1, TypesKept DEF Moved
    <2>3. WithinLimits(run'[r]) /\ (faults' = 0 => faults = 0 /\ (Accounted(run[r]) => Accounted(run'[r])))
      BY <1>2, ScanMoves DEF ScanInv
    <2> QED
      BY <2>2, <2>3 DEF ScanInv
  <1>3. CASE Crash
    <2>1. ASSUME NEW r \in Runs PROVE WithinLimits(run'[r]) /\ (Accounted(run[r]) => Accounted(run'[r]))
      <3>1. WithinLimits(run[r]) /\ run[r] \in Local
        BY LocalTypes DEF ScanInv
      <3>2. CASE ~UnderWay(r)
        BY <1>3, <3>1, <3>2, CrashMoves
      <3>3. CASE UnderWay(r)
        <4>1. SameLists(r) /\ run'[r].stage = "lost"
          BY <1>3, <3>1, <3>3, CrashMoves DEF Local, SameLists
        <4> QED
          BY <3>1, <4>1 DEF SameLists, WithinLimits, Accounted
      <3> QED
        BY <3>2, <3>3
    <2>2. faults' = faults
      BY <1>3 DEF Crash
    <2> QED
      BY <2>1, <2>2 DEF ScanInv
  <1>4. CASE UNCHANGED vars
    BY <1>4 DEF vars, ScanInv
  <1> QED
    BY <1>1, <1>2, <1>3, <1>4 DEF Next

LEMMA ScanStart == Init => ScanInv
  <1> SUFFICES ASSUME Init, NEW r \in Runs PROVE WithinLimits(run[r]) /\ Accounted(run[r])
    BY DEF ScanInv
  <1>1. run[r] = Idle
    BY DEF Init
  <1>2. /\ Idle.stage = "idle" /\ Idle.applied = <<>> /\ Idle.scanned = <<>> /\ Idle.skipped = <<>>
        /\ Idle.input.limit = 1 /\ Idle.input.perBoard = 0 /\ Idle.input.scans = 0
    BY DEF Idle
  <1>3. \A b : OnBoard(b, <<>>) = 0 /\ Times(b, <<>>) = 0
    BY FS_EmptySet DEF OnBoard, Times
  <1> QED
    BY <1>1, <1>2, <1>3 DEF WithinLimits, Accounted, Awaiting

LEMMA ScanAlways == FlowsSpec => []ScanInv
  <1>1. FlowsInit => ScanInv
    BY FlowsAreApplied, ScanStart
  <1>2. LedgerInv /\ ScanInv /\ [FlowsNext]_allVars => ScanInv'
    BY ApplyActs, ScanStep DEF LedgerInv
  <1> QED
    BY <1>1, <1>2, LedgerAlways, PTL DEF FlowsSpec

-----------------------------------------------------------------------------
(* The Greenhouse tool: the boards take turns.                               *)

LEMMA LeastOf ==
  ASSUME NEW S \in SUBSET Nat, S # {}
  PROVE  \E m \in S : \A n \in S : m <= n
  <1> DEFINE R == OpToRel(<, Nat)
  <1>1. PICK m \in S : \A n \in S : ~(<<n, m>> \in R)
    <2>1. IsWellFoundedOn(R, Nat)
      BY NatLessThanWellFounded
    <2> HIDE DEF R
    <2> QED
      BY <2>1, WFMin
  <1>2. \A n \in Nat : n < m => <<n, m>> \in R
    BY DEF OpToRel
  <1> HIDE DEF R
  <1>3. \A n \in S : ~(n < m)
    BY <1>1, <1>2, Zenon
  <1> QED
    BY <1>3

LEMMA EarlierComesFirst ==
  ASSUME NEW groups \in Seq(Seq(Jobs)), NEW p \in Picks(groups), NEW q \in Picks(groups), Earlier(p, q)
  PROVE  Turn(groups, p) < Turn(groups, q)
  <1> DEFINE S == Picks(groups)
             Before(x) == {y \in S : Earlier(y, x)}
  <1>1. IsFiniteSet(S)
    BY PicksAreFinite
  <1>2. \A x \in S : x \in (Nat \ {0}) \X (Nat \ {0})
    BY DEF Picks
  <1>3. ASSUME NEW y \in S, Earlier(y, p) PROVE Earlier(y, q) /\ y # p
    <2>1. PICK pi \in Nat, pg \in Nat : p = <<pi, pg>>
      BY <1>2
    <2>2. PICK qi \in Nat, qg \in Nat : q = <<qi, qg>>
      BY <1>2
    <2>3. PICK yi \in Nat, yg \in Nat : y = <<yi, yg>>
      BY <1>2
    <2> QED
      BY <1>3, <2>1, <2>2, <2>3 DEF Earlier
  <1>4. Before(p) \in SUBSET S /\ Before(q) \in SUBSET S /\ p \notin Before(p) /\ Before(p) \cup {p} \in SUBSET Before(q)
    BY <1>3
  <1>5. Turn(groups, p) = 1 + Cardinality(Before(p)) /\ Turn(groups, q) = 1 + Cardinality(Before(q))
    BY DEF Turn
  <1> HIDE DEF Before, S
  <1>6. /\ IsFiniteSet(Before(p)) /\ Cardinality(Before(p)) \in Nat
        /\ IsFiniteSet(Before(q)) /\ Cardinality(Before(q)) \in Nat
    BY <1>1, <1>4, FS_Subset, FS_CardinalityType
  <1>7. Cardinality(Before(p) \cup {p}) = Cardinality(Before(p)) + 1
    BY <1>4, <1>6, FS_AddElement
  <1>8. Cardinality(Before(p) \cup {p}) <= Cardinality(Before(q))
    BY <1>4, <1>6, FS_Subset
  <1> QED
    BY <1>5, <1>6, <1>7, <1>8

\* The jobs of group g that are taken in the first n turns,
UpTo(groups, g, n) == {i \in DOMAIN groups[g] : Turn(groups, <<i, g>>) <= n}

\* are as many as the first n entries of the queue have of that group.
LEMMA TakenByTurns ==
  ASSUME NEW groups \in Seq(Seq(Jobs)),
         \A g, h \in DOMAIN groups : g # h => ToSet(groups[g]) \cap ToSet(groups[h]) = {},
         NEW n \in 0..Cardinality(Picks(groups)), NEW g \in DOMAIN groups
  PROVE  /\ IsFiniteSet(UpTo(groups, g, n))
         /\ Cardinality({k \in 1..n : Contains(groups[g], InterleaveBoards(groups)[k])}) = Cardinality(UpTo(groups, g, n))
  <1> DEFINE N == Cardinality(Picks(groups))
             K == {k \in 1..n : Contains(groups[g], InterleaveBoards(groups)[k])}
             A == UpTo(groups, g, n)
             f == [i \in A |-> Turn(groups, <<i, g>>)]
  <1>1. /\ N \in Nat
        /\ \A k \in 1..N : Pick(groups, k) \in Picks(groups) /\ Turn(groups, Pick(groups, k)) = k
        /\ \A p \in Picks(groups) : Turn(groups, p) \in 1..N
        /\ \A p, q \in Picks(groups) : Turn(groups, p) = Turn(groups, q) => p = q
    BY TurnsAreTaken DEF Pick
  <1>2. \A h \in DOMAIN groups : groups[h] \in Seq(Jobs) /\ DOMAIN groups[h] = 1..Len(groups[h]) /\ Len(groups[h]) \in Nat
    OBVIOUS
  <1>3. \A h \in DOMAIN groups : \A i \in DOMAIN groups[h] : <<i, h>> \in Picks(groups)
    BY DEF Picks
  <1>4. \A k \in 1..N : InterleaveBoards(groups)[k] = groups[Pick(groups, k)[2]][Pick(groups, k)[1]]
    BY DEF InterleaveBoards, Pick
  <1>5. \A e : Contains(groups[g], e) <=> e \in ToSet(groups[g])
    BY <1>2 DEF Contains, ToSet
  <1>6. 1..n \subseteq 1..N
    BY <1>1
  <1>7. ASSUME NEW i \in A
        PROVE  /\ <<i, g>> \in Picks(groups) /\ f[i] \in K /\ i \in DOMAIN groups[g]
    <2>1. i \in DOMAIN groups[g] /\ <<i, g>> \in Picks(groups) /\ Turn(groups, <<i, g>>) <= n
      BY <1>3 DEF UpTo
    <2>2. f[i] = Turn(groups, <<i, g>>) /\ f[i] \in 1..N /\ f[i] \in 1..n
      BY <1>1, <2>1
    <2>3. Pick(groups, f[i]) = <<i, g>>
      BY <1>1, <2>1, <2>2
    <2>4. InterleaveBoards(groups)[f[i]] = groups[g][i]
      BY <1>4, <2>2, <2>3
    <2> QED
      BY <1>5, <2>1, <2>2, <2>4 DEF ToSet
  <1>8. ASSUME NEW k \in K PROVE \E i \in A : f[i] = k
    <2>1. k \in 1..N /\ k <= n
      BY <1>6
    <2>2. PICK h \in DOMAIN groups : \E i \in DOMAIN groups[h] : Pick(groups, k) = <<i, h>>
      BY <1>1, <2>1 DEF Picks
    <2>3. PICK i \in DOMAIN groups[h] : Pick(groups, k) = <<i, h>>
      BY <2>2
    <2>4. InterleaveBoards(groups)[k] = groups[h][i]
      BY <1>4, <2>1, <2>3
    <2>5. groups[h][i] \in ToSet(groups[g]) /\ groups[h][i] \in ToSet(groups[h])
      BY <1>5, <2>4 DEF ToSet
    <2>6. h = g
      BY <2>5
    <2>7. Turn(groups, <<i, g>>) = k
      BY <1>1, <2>1, <2>3, <2>6
    <2>8. i \in A
      BY <2>1, <2>2, <2>6, <2>7 DEF UpTo
    <2> QED
      BY <2>7, <2>8
  <1>9. ASSUME NEW i \in A, NEW j \in A, f[i] = f[j] PROVE i = j
    <2>1. Turn(groups, <<i, g>>) = Turn(groups, <<j, g>>)
      BY <1>9
    <2>2. <<i, g>> = <<j, g>>
      BY <1>1, <1>7, <2>1
    <2> QED
      BY <2>2
  <1>10. IsFiniteSet(A)
    <2>1. Len(groups[g]) \in Int /\ DOMAIN groups[g] = 1..Len(groups[g])
      BY <1>2
    <2>2. IsFiniteSet(DOMAIN groups[g])
      BY <2>1, FS_Interval
    <2>3. A \in SUBSET DOMAIN groups[g]
      BY DEF UpTo
    <2> HIDE DEF A
    <2> QED
      BY <2>2, <2>3, FS_Subset
  <1>11. DOMAIN f = A
    OBVIOUS
  <1> HIDE DEF f, A, K
  <1>12. f \in [A -> K]
    <2>1. f = [i \in A |-> f[i]]
      BY DEF f
    <2> QED
      BY <1>7, <2>1
  <1>13. f \in Surjection(A, K) /\ f \in Injection(A, K)
    BY <1>8, <1>9, <1>11, <1>12 DEF Surjection, Injection, IsInjective
  <1>14. Cardinality(K) = Cardinality(A)
    BY <1>10, <1>13, FS_Surjection
  <1> QED
    BY <1>10, <1>14 DEF A, K

\* Before the first job of h that has yet to be taken, group g has had at most
\* one turn more.
LEMMA TurnsAreEven ==
  ASSUME NEW groups \in Seq(Seq(Jobs)), NEW n \in Nat, NEW g \in DOMAIN groups, NEW h \in DOMAIN groups,
         IsFiniteSet(UpTo(groups, g, n)), IsFiniteSet(UpTo(groups, h, n)),
         Cardinality(UpTo(groups, h, n)) # Len(groups[h])
  PROVE  Cardinality(UpTo(groups, g, n)) <= Cardinality(UpTo(groups, h, n)) + 1
  <1> DEFINE Ag == UpTo(groups, g, n)
             Ah == UpTo(groups, h, n)
             L == Len(groups[h])
  <1>1. /\ groups[h] \in Seq(Jobs) /\ L \in Nat /\ DOMAIN groups[h] = 1..L
        /\ groups[g] \in Seq(Jobs) /\ Len(groups[g]) \in Nat /\ DOMAIN groups[g] = 1..Len(groups[g])
    OBVIOUS
  <1>2. Ah \subseteq 1..L /\ Ah # 1..L
    <2>1. Cardinality(1..L) = L
      <3> HIDE DEF L
      <3> QED
        BY <1>1, FS_Interval
    <2> QED
      BY <1>1, <2>1 DEF UpTo
  <1>3. PICK m \in (1..L) \ Ah : \A i \in (1..L) \ Ah : m <= i
    <2> HIDE DEF L, Ah
    <2> DEFINE I == 1..L
    <2>1. \A i \in I : i \in Nat
      BY <1>1
    <2>2. Ah \subseteq I /\ Ah # I
      BY <1>2
    <2> HIDE DEF I
    <2>3. I \ Ah \in SUBSET Nat /\ I \ Ah # {}
      BY <2>1, <2>2
    <2>4. \E m \in I \ Ah : \A i \in I \ Ah : m <= i
      BY <2>3, LeastOf
    <2> QED
      BY <2>4 DEF I
  <1>4. 1..m - 1 \in SUBSET Ah
    BY <1>1, <1>3
  <1>5. Ag \in SUBSET (1..m)
    <2> SUFFICES ASSUME NEW i \in Ag, ~(i <= m) PROVE FALSE
      BY <1>1 DEF UpTo
    <2>1. /\ i \in DOMAIN groups[g] /\ i \in Nat /\ m \in Nat /\ m < i /\ m \in DOMAIN groups[h]
          /\ Turn(groups, <<i, g>>) <= n /\ ~(Turn(groups, <<m, h>>) <= n)
      BY <1>1, <1>3 DEF UpTo
    <2>2. <<i, g>> \in Picks(groups) /\ <<m, h>> \in Picks(groups) /\ Earlier(<<m, h>>, <<i, g>>)
      BY <2>1 DEF Picks, Earlier
    <2>3. Turn(groups, <<m, h>>) < Turn(groups, <<i, g>>)
      BY <2>2, EarlierComesFirst
    <2>4. Turn(groups, <<m, h>>) \in Nat /\ Turn(groups, <<i, g>>) \in Nat
      BY <2>2, TurnsAreTaken
    <2> QED
      BY <2>1, <2>3, <2>4
  <1>6. m \in Nat \ {0}
    BY <1>1, <1>3
  <1> HIDE DEF Ag, Ah, L
  <1>7. IsFiniteSet(Ag) /\ IsFiniteSet(Ah) /\ Cardinality(Ag) \in Nat /\ Cardinality(Ah) \in Nat
    BY FS_CardinalityType DEF Ag, Ah
  <1>8. IsFiniteSet(1..m) /\ Cardinality(1..m) = m /\ Cardinality(1..m - 1) = m - 1
    BY <1>6, FS_Interval
  <1>9. m - 1 <= Cardinality(Ah)
    BY <1>4, <1>7, <1>8, FS_Subset
  <1>10. Cardinality(Ag) <= m
    BY <1>5, <1>8, FS_Subset
  <1>11. Cardinality(Ag) <= Cardinality(Ah) + 1
    BY <1>6, <1>7, <1>9, <1>10
  <1> QED
    BY <1>11 DEF Ag, Ah

\* However many boards and jobs there are, a run keeps to its limits, serves the
\* boards in turns, and has an entry for every job it has scanned.
THEOREM ScanIsFairAlways == FlowsSpec => []ScanIsFair
  <1>1. TypeOK /\ ScanInv => ScanIsFair
    <2> SUFFICES ASSUME TypeOK, ScanInv PROVE ScanIsFair
      OBVIOUS
    <2>1. QuotasHold
      BY DEF ScanInv, WithinLimits, QuotasHold
    <2>2. OneEntryPerScan
      <3> SUFFICES ASSUME NEW r \in Runs, faults = 0, run[r].stage = "done", NEW j \in Jobs
                   PROVE  Times(j, run[r].applied) + Times(j, run[r].skipped) = Times(j, run[r].scanned)
        BY DEF OneEntryPerScan, Times
      <3>1. Times(j, run[r].applied) + Times(j, run[r].skipped) + 0 = Times(j, run[r].scanned)
        BY DEF ScanInv, Accounted, Awaiting
      <3>2. Times(j, run[r].applied) \in Nat /\ Times(j, run[r].skipped) \in Nat
        BY LimitTypes, Counted
      <3> QED
        BY <3>1, <3>2
    <2>3. BoardsTakeTurns
      <3> SUFFICES ASSUME NEW r \in Runs, run[r].stage = "discovered"
                   PROVE  LET groups == run[r].input.groups
                              Taken(g, n) == Cardinality({k \in 1..n : Contains(groups[g], run[r].queue[k])})
                          IN  (\A g, h \in DOMAIN groups : g # h => ToSet(groups[g]) \cap ToSet(groups[h]) = {}) =>
                                \A n \in 0..Len(run[r].queue) : \A g, h \in DOMAIN groups :
                                  Taken(g, n) <= Taken(h, n) + 1 \/ Taken(h, n) = Len(groups[h])
        BY DEF BoardsTakeTurns
      <3> DEFINE groups == run[r].input.groups
                 found == run[r].queue
                 Taken(g, n) == Cardinality({k \in 1..n : Contains(groups[g], found[k])})
      <3>1. groups \in Seq(Seq(Jobs)) /\ found = InterleaveBoards(groups)
        BY ApplyAssumption DEF ScanInv, WithinLimits, Input
      <3> HIDE DEF groups, found
      <3>2. Cardinality(Picks(groups)) \in Nat /\ Len(found) = Cardinality(Picks(groups))
        <4>1. Cardinality(Picks(groups)) \in Nat /\ found \in Seq(Jobs)
          BY <3>1, TurnsAreTaken, QueueIsOfJobs
        <4>2. DOMAIN found = 1..Cardinality(Picks(groups))
          BY <3>1 DEF InterleaveBoards
        <4> QED
          BY <4>1, <4>2
      <3>3. ASSUME \A g, h \in DOMAIN groups : g # h => ToSet(groups[g]) \cap ToSet(groups[h]) = {},
                   NEW n \in 0..Len(found), NEW g \in DOMAIN groups, NEW h \in DOMAIN groups,
                   Taken(h, n) # Len(groups[h])
            PROVE  Taken(g, n) <= Taken(h, n) + 1
        <4>1. n \in 0..Cardinality(Picks(groups)) /\ n \in Nat
          BY <3>2
        <4>2. /\ IsFiniteSet(UpTo(groups, g, n)) /\ Taken(g, n) = Cardinality(UpTo(groups, g, n))
              /\ IsFiniteSet(UpTo(groups, h, n)) /\ Taken(h, n) = Cardinality(UpTo(groups, h, n))
          BY <3>1, <3>3, <4>1, TakenByTurns
        <4> HIDE DEF Taken
        <4> QED
          BY <3>1, <3>3, <4>1, <4>2, TurnsAreEven
      <3> QED
        BY <3>3 DEF groups, found
    <2> QED
      BY <2>1, <2>2, <2>3 DEF ScanIsFair
  <1> QED
    BY <1>1, LedgerAlways, ScanAlways, PTL DEF LedgerInv

-----------------------------------------------------------------------------
(* Sequences without repetitions.                                            *)

LEMMA GluedOnce ==
  ASSUME NEW a \in Seq(Jobs), NEW b \in Seq(Jobs), IsInjective(a), IsInjective(b),
         ToSet(a) \cap ToSet(b) = {}
  PROVE  a \o b \in Seq(Jobs) /\ IsInjective(a \o b)
  <1> DEFINE g == a \o b
  <1>1. /\ g \in Seq(Jobs) /\ DOMAIN g = 1..Len(a) + Len(b)
        /\ DOMAIN a = 1..Len(a) /\ DOMAIN b = 1..Len(b) /\ Len(a) \in Nat /\ Len(b) \in Nat
        /\ \A i \in 1..Len(a) + Len(b) : g[i] = IF i <= Len(a) THEN a[i] ELSE b[i - Len(a)]
    OBVIOUS
  <1> HIDE DEF g
  <1>2. ASSUME NEW i \in DOMAIN g, NEW k \in DOMAIN g, g[i] = g[k] PROVE i = k
    <2>1. CASE i <= Len(a) /\ k <= Len(a)
      BY <1>1, <1>2, <2>1 DEF IsInjective
    <2>2. CASE ~(i <= Len(a)) /\ ~(k <= Len(a))
      <3>1. i - Len(a) \in DOMAIN b /\ k - Len(a) \in DOMAIN b /\ b[i - Len(a)] = b[k - Len(a)]
        BY <1>1, <1>2, <2>2
      <3>2. i - Len(a) = k - Len(a)
        BY <3>1 DEF IsInjective
      <3> QED
        BY <1>1, <3>2
    <2>3. CASE i <= Len(a) /\ ~(k <= Len(a))
      <3>1. i \in DOMAIN a /\ k - Len(a) \in DOMAIN b /\ a[i] = b[k - Len(a)]
        BY <1>1, <1>2, <2>3
      <3> QED
        BY <3>1 DEF ToSet
    <2>4. CASE ~(i <= Len(a)) /\ k <= Len(a)
      <3>1. k \in DOMAIN a /\ i - Len(a) \in DOMAIN b /\ a[k] = b[i - Len(a)]
        BY <1>1, <1>2, <2>4
      <3> QED
        BY <3>1 DEF ToSet
    <2> QED
      BY <2>1, <2>2, <2>3, <2>4
  <1> QED
    BY <1>1, <1>2 DEF g, IsInjective

\* A part of such a sequence.
LEMMA PartOnce ==
  ASSUME NEW s \in Seq(Jobs), IsInjective(s), NEW m \in Nat \ {0}, NEW n \in Int, n <= Len(s)
  PROVE  /\ SubSeq(s, m, n) \in Seq(Jobs) /\ IsInjective(SubSeq(s, m, n))
         /\ ToSet(SubSeq(s, m, n)) = {s[i] : i \in m..n}
  <1> DEFINE p == SubSeq(s, m, n)
  <1>1. DOMAIN s = 1..Len(s) /\ Len(s) \in Nat /\ \A i \in m..n : i \in DOMAIN s /\ s[i] \in Jobs
    OBVIOUS
  <1>2. /\ p \in Seq(Jobs) /\ Len(p) = IF m <= n THEN n - m + 1 ELSE 0
        /\ \A i \in 1..n - m + 1 : p[i] = s[m + i - 1]
    BY <1>1, SubSeqProperties
  <1> HIDE DEF p
  <1>3. DOMAIN p = 1..n - m + 1
    BY <1>2
  <1>4. ASSUME NEW i \in DOMAIN p, NEW k \in DOMAIN p, p[i] = p[k] PROVE i = k
    <2>1. i \in 1..n - m + 1 /\ k \in 1..n - m + 1 /\ i \in Int /\ k \in Int
      BY <1>3, <1>4
    <2>2. m + i - 1 \in m..n /\ m + k - 1 \in m..n
      BY <2>1
    <2>3. m + i - 1 \in DOMAIN s /\ m + k - 1 \in DOMAIN s
      BY <1>1, <2>2, Zenon
    <2>4. p[i] = s[m + i - 1] /\ p[k] = s[m + k - 1]
      BY <1>2, <2>1, Zenon
    <2>5. m + i - 1 = m + k - 1
      BY <1>4, <2>3, <2>4, Zenon DEF IsInjective
    <2> QED
      BY <2>1, <2>5
  <1>5. ASSUME NEW j \in ToSet(p) PROVE j \in {s[i] : i \in m..n}
    <2>1. PICK i \in 1..n - m + 1 : p[i] = j
      BY <1>3 DEF ToSet
    <2>2. m + i - 1 \in m..n /\ s[m + i - 1] = j
      BY <1>2, <2>1
    <2> QED
      BY <2>2
  <1>6. ASSUME NEW i \in m..n PROVE s[i] \in ToSet(p)
    <2>1. i - m + 1 \in DOMAIN p /\ p[i - m + 1] = s[m + (i - m + 1) - 1] /\ m + (i - m + 1) - 1 = i
      BY <1>2, <1>3
    <2> QED
      BY <2>1 DEF ToSet
  <1>7. IsInjective(p)
    BY <1>4 DEF IsInjective
  <1>8. ToSet(p) = {s[i] : i \in m..n}
    BY <1>5, <1>6
  <1> QED
    BY <1>2, <1>7, <1>8 DEF p

\* One of its elements less,
LEMMA OneLess ==
  ASSUME NEW s \in Seq(Jobs), IsInjective(s), NEW i \in DOMAIN s
  PROVE  RemoveAt(s, i) \in Seq(Jobs) /\ IsInjective(RemoveAt(s, i))
  <1> DEFINE a == SubSeq(s, 1, i - 1)
             b == SubSeq(s, i + 1, Len(s))
  <1>1. DOMAIN s = 1..Len(s) /\ Len(s) \in Nat /\ i \in Nat
    OBVIOUS
  <1>2. a \in Seq(Jobs) /\ IsInjective(a) /\ ToSet(a) = {s[k] : k \in 1..i - 1}
    BY <1>1, PartOnce
  <1>3. b \in Seq(Jobs) /\ IsInjective(b) /\ ToSet(b) = {s[k] : k \in i + 1..Len(s)}
    BY <1>1, PartOnce
  <1>4. ToSet(a) \cap ToSet(b) = {}
    <2>1. ASSUME NEW k \in 1..i - 1, NEW l \in i + 1..Len(s) PROVE s[k] # s[l]
      BY <1>1 DEF IsInjective
    <2> HIDE DEF a, b
    <2> QED
      BY <1>2, <1>3, <2>1
  <1> HIDE DEF a, b
  <1>5. RemoveAt(s, i) = a \o b
    BY DEF RemoveAt, a, b
  <1> QED
    BY <1>2, <1>3, <1>4, <1>5, GluedOnce

\* and its first one less.
LEMMA FirstLess ==
  ASSUME NEW s \in Seq(Jobs), IsInjective(s), s # <<>>
  PROVE  /\ Head(s) \in Jobs /\ Tail(s) \in Seq(Jobs) /\ IsInjective(Tail(s))
         /\ Head(s) \in ToSet(s) /\ ToSet(Tail(s)) = ToSet(s) \ {Head(s)}
  <1>1. DOMAIN s = 1..Len(s) /\ Len(s) \in Nat \ {0} /\ Head(s) = s[1] /\ Head(s) \in Jobs
    OBVIOUS
  <1>2. Tail(s) = SubSeq(s, 2, Len(s))
    BY TailIsSubSeq
  <1>3. /\ Tail(s) \in Seq(Jobs) /\ IsInjective(Tail(s))
        /\ ToSet(Tail(s)) = {s[i] : i \in 2..Len(s)}
    <2>1. 2 \in Nat \ {0} /\ Len(s) \in Int /\ Len(s) <= Len(s)
      BY <1>1
    <2>2. /\ SubSeq(s, 2, Len(s)) \in Seq(Jobs) /\ IsInjective(SubSeq(s, 2, Len(s)))
          /\ ToSet(SubSeq(s, 2, Len(s))) = {s[i] : i \in 2..Len(s)}
      BY <2>1, PartOnce
    <2> QED
      BY <1>2, <2>2, Zenon
  <1>4. \A i \in 2..Len(s) : s[i] # s[1]
    BY <1>1 DEF IsInjective
  <1>5. 1..Len(s) = {1} \cup 2..Len(s)
    BY <1>1
  <1> QED
    BY <1>1, <1>3, <1>4, <1>5 DEF ToSet

-----------------------------------------------------------------------------
(* The listings.                                                             *)

\* The listing has no entry twice, so neither has a page or what is left of it;
\* an application has gone out for nothing but what was taken off a page.
ListingInv ==
  /\ listing \in Seq(Jobs) /\ IsInjective(listing)
  /\ queue \in Seq(Jobs) /\ IsInjective(queue) /\ ToSet(queue) \subseteq seen
  /\ page \in Nat \ {0}
  /\ sends \in [Jobs -> {0, 1}]
  /\ \A j \in Jobs : sends[j] = 1 => j \in seen \ ToSet(queue)
  /\ pc = "form" => job \in Jobs /\ sends[job] = 0 /\ job \in seen \ ToSet(queue)
  /\ blocked => pc \in {"scan", "ended"} /\ queue = <<>>

\* The place of the k-th entry of a page that has not been seen.
NewAt(jobs, k) ==
  CHOOSE i \in {i \in DOMAIN jobs : jobs[i] \notin seen} :
    Cardinality({h \in {i_1 \in DOMAIN jobs : jobs[i_1] \notin seen} : h <= i}) = k

\* The instance's operators on sequences are those of this module.
LEMMA SameSets == \A s : Listings!ToSet(s) = ToSet(s)
  BY Zenon DEF Listings!ToSet, ToSet

LEMMA SameRemoval == \A s, i : Listings!RemoveAt(s, i) = RemoveAt(s, i)
  BY Zenon DEF Listings!RemoveAt, RemoveAt

\* What is new on a page is what has not been seen, in its order.
LEMMA NewOnPage ==
  ASSUME NEW jobs \in Seq(Jobs), IsInjective(jobs)
  PROVE  /\ Listings!New(jobs) \in Seq(Jobs) /\ IsInjective(Listings!New(jobs))
         /\ ToSet(Listings!New(jobs)) = ToSet(jobs) \ seen
  <1> DEFINE S == {i \in DOMAIN jobs : jobs[i] \notin seen}
             B == [p \in S |-> {h \in S : h <= p}]
             n == Cardinality(S)
             new == Listings!New(jobs)
  <1>1. DOMAIN jobs = 1..Len(jobs) /\ Len(jobs) \in Nat /\ S \in SUBSET (1..Len(jobs))
    OBVIOUS
  <1>2. IsFiniteSet(S)
    <2>1. IsFiniteSet(1..Len(jobs))
      BY <1>1, FS_Interval
    <2> HIDE DEF S
    <2> QED
      BY <1>1, <2>1, FS_Subset
  <1>3. \A p \in S : p \in Nat
    BY <1>1
  <1>4. B \in [S -> SUBSET S] /\ (\A p \in S : p \in B[p])
    BY <1>3
  <1>5. \A p, q \in S : p # q => B[p] # B[q] /\ (B[p] \subseteq B[q] \/ B[q] \subseteq B[p])
    <2> SUFFICES ASSUME NEW p \in S, NEW q \in S, p # q
                 PROVE  B[p] # B[q] /\ (B[p] \subseteq B[q] \/ B[q] \subseteq B[p])
      OBVIOUS
    <2>1. CASE p < q
      <3>1. q \in B[q] /\ q \notin B[p] /\ B[p] \subseteq B[q]
        BY <1>3, <2>1
      <3> QED
        BY <3>1
    <2>2. CASE q < p
      <3>1. p \in B[p] /\ p \notin B[q] /\ B[q] \subseteq B[p]
        BY <1>3, <2>2
      <3> QED
        BY <3>1
    <2> QED
      BY <1>3, <2>1, <2>2
  <1>6. \A p \in S : B[p] = {h \in S : h <= p}
    OBVIOUS
  <1>7. new = [k \in 1..n |-> jobs[NewAt(jobs, k)]]
    BY Zenon DEF Listings!New, NewAt, Listings!Cardinality, Cardinality
  <1> HIDE DEF S, B, new
  <1>8. /\ n \in Nat /\ (\A k \in 1..n : \E p \in S : Cardinality(B[p]) = k)
        /\ (\A p \in S : Cardinality(B[p]) \in 1..n)
        /\ (\A p, q \in S : Cardinality(B[p]) = Cardinality(B[q]) => p = q)
    BY <1>2, <1>4, <1>5, PlacesAreTaken
  <1>9. \A k \in 1..n : NewAt(jobs, k) \in S /\ Cardinality(B[NewAt(jobs, k)]) = k
    <2>1. \A k \in 1..n : \E p \in S : Cardinality({h \in S : h <= p}) = k
      BY <1>6, <1>8
    <2>2. \A k : NewAt(jobs, k) = CHOOSE i \in S : Cardinality({h \in S : h <= i}) = k
      BY DEF NewAt, S
    <2> QED
      BY <1>6, <2>1, <2>2
  <1> HIDE DEF n
  <1>10. \A i \in S : i \in DOMAIN jobs /\ jobs[i] \in Jobs /\ jobs[i] \notin seen
    BY <1>1 DEF S
  <1>11. new \in [1..n -> Jobs]
    BY <1>7, <1>9, <1>10
  <1>12. ASSUME NEW k \in 1..n, NEW l \in 1..n, new[k] = new[l] PROVE k = l
    <2>1. NewAt(jobs, k) = NewAt(jobs, l)
      BY <1>7, <1>9, <1>10, <1>12 DEF IsInjective
    <2> QED
      BY <1>9, <2>1
  <1>13. \A k \in 1..n : new[k] \in ToSet(jobs) \ seen
    BY <1>7, <1>9, <1>10 DEF ToSet
  <1>14. new \in Seq(Jobs)
    BY <1>8, <1>11, SeqDef
  <1>15. ASSUME NEW j \in ToSet(jobs) \ seen PROVE \E k \in 1..n : new[k] = j
    <2>1. PICK i \in S : jobs[i] = j
      BY <1>15 DEF ToSet, S
    <2>2. Cardinality(B[i]) \in 1..n /\ NewAt(jobs, Cardinality(B[i])) = i
      BY <1>8, <1>9
    <2> QED
      BY <1>7, <2>1, <2>2
  <1>16. ToSet(new) = ToSet(jobs) \ seen
    BY <1>11, <1>13, <1>15 DEF ToSet
  <1> QED
    BY <1>11, <1>12, <1>14, <1>16 DEF new, IsInjective

LEMMA SizesAreRight ==
  /\ PageSize \in Nat \ {0} /\ Listed \in Seq(Jobs) /\ IsInjective(Listed)
  BY ListingsAssumption DEF Listings!ListingAssumption, Listings!IsInjective, IsInjective

LEMMA PageOnce ==
  ASSUME ListingInv
  PROVE  Listings!PageOf(page) \in Seq(Jobs) /\ IsInjective(Listings!PageOf(page))
  <1> DEFINE last == page * PageSize
             m == last - PageSize + 1
             n == IF last < Len(listing) THEN last ELSE Len(listing)
  <1>1. page \in Nat \ {0} /\ PageSize \in Nat \ {0} /\ listing \in Seq(Jobs) /\ IsInjective(listing)
    BY SizesAreRight DEF ListingInv
  <1>2. page * PageSize \in Nat /\ page * PageSize >= PageSize
    BY <1>1
  <1> HIDE DEF last
  <1>3. m \in Nat \ {0} /\ n \in Int /\ n <= Len(listing)
    BY <1>1, <1>2 DEF last
  <1>4. Listings!PageOf(page) = SubSeq(listing, m, n)
    BY DEF Listings!PageOf, last
  <1> HIDE DEF m, n
  <1>5. SubSeq(listing, m, n) \in Seq(Jobs) /\ IsInjective(SubSeq(listing, m, n))
    BY <1>1, <1>3, PartOnce
  <1> QED
    BY <1>4, <1>5

LEMMA ReadKeeps ==
  ASSUME ListingInv, NEW jobs \in Seq(Jobs), IsInjective(jobs), Listings!Read(jobs)
  PROVE  ListingInv'
  <1> DEFINE new == Listings!New(jobs)
  <1>1. /\ new \in Seq(Jobs) /\ IsInjective(new) /\ ToSet(new) \subseteq ToSet(jobs) \ seen
    BY NewOnPage
  <1>2. /\ queue' = new /\ seen' = seen \cup ToSet(jobs) /\ pc = "page" /\ pc' \in {"ended", "scan"}
        /\ page' = page /\ blocked' = blocked /\ listing' = listing /\ sends' = sends
    BY SameSets DEF Listings!Read, Listings!site
  <1> HIDE DEF new
  <1>3. IsInjective(queue') /\ IsInjective(listing')
    BY <1>1, <1>2 DEF ListingInv
  <1>4. ToSet(queue') \subseteq seen' /\ ToSet(queue') \cap seen = {} /\ seen \subseteq seen'
    BY <1>1, <1>2
  <1>5. ~blocked
    BY <1>2 DEF ListingInv
  <1> QED
    BY <1>1, <1>2, <1>3, <1>4, <1>5 DEF ListingInv

LEMMA EmptyPage == <<>> \in Seq(Jobs) /\ IsInjective(<<>>) /\ ToSet(<<>>) = {}
  BY DEF IsInjective, ToSet

LEMMA PagesKeep ==
  ASSUME ListingInv,
         \/ Listings!LoadPage \/ Listings!BlankPage \/ Listings!FailPage
         \/ Listings!TurnPage \/ Listings!EndScan
  PROVE  ListingInv'
  <1>1. CASE Listings!LoadPage
    BY <1>1, PageOnce, ReadKeeps DEF Listings!LoadPage
  <1>2. CASE Listings!BlankPage
    BY <1>2, EmptyPage, ReadKeeps DEF Listings!BlankPage
  <1>3. CASE Listings!FailPage
    <2>1. CASE Listings!Read(<<>>)
      BY <2>1, EmptyPage, ReadKeeps
    <2>2. CASE ~Listings!Read(<<>>)
      <3>1. /\ page' = page + 1 /\ UNCHANGED <<pc, queue, seen, job, blocked, listing, sends>>
        BY <1>3, <2>2 DEF Listings!FailPage, Listings!site
      <3> QED
        BY <3>1 DEF ListingInv, IsInjective
    <2> QED
      BY <2>1, <2>2
  <1>4. CASE Listings!TurnPage
    <2>1. /\ queue' = <<>> /\ page' = page + 1 /\ UNCHANGED <<seen, job, blocked, listing, sends>>
          /\ pc' = (IF blocked THEN "ended" ELSE "page")
      BY <1>4 DEF Listings!TurnPage, Listings!site, Listings!ProceedsUnlessBlocked
    <2>2. queue' \in Seq(Jobs) /\ IsInjective(queue') /\ ToSet(queue') = {} /\ IsInjective(listing')
      BY <2>1, EmptyPage DEF ListingInv
    <2> QED
      BY <2>1, <2>2 DEF ListingInv
  <1>5. CASE Listings!EndScan
    <2>1. pc = "page" /\ pc' = "ended" /\ UNCHANGED <<page, queue, seen, job, blocked, listing, sends>>
      BY <1>5 DEF Listings!EndScan, Listings!site
    <2> QED
      BY <2>1 DEF ListingInv, IsInjective
  <1> QED
    BY <1>1, <1>2, <1>3, <1>4, <1>5

\* An entry is taken off the page: it is not among what is left of it.
LEMMA EntriesKeep ==
  ASSUME ListingInv, Listings!Skip \/ Listings!OpenForm
  PROVE  ListingInv'
  <1>1. PICK j \in Jobs : Listings!Scan(j) /\ (pc' = "form" => job' = j) /\ (pc' = "form" \/ pc' = pc)
    <2>1. CASE Listings!Skip
      BY <2>1 DEF Listings!Skip, Listings!Scan
    <2>2. CASE Listings!OpenForm
      <3>1. PICK j \in Jobs : Listings!Scan(j) /\ job' = j
        BY <2>2 DEF Listings!OpenForm
      <3>2. pc' = "form"
        BY <2>2 DEF Listings!OpenForm
      <3> QED
        BY <3>1, <3>2
    <2> QED
      BY <2>1, <2>2
  <1>2. /\ pc = "scan" /\ queue # <<>> /\ j = Head(queue) /\ queue' = Tail(queue)
        /\ UNCHANGED <<page, seen, blocked, listing, sends>>
    BY <1>1 DEF Listings!Scan, Listings!LeavesPage, Listings!site
  <1>3. queue \in Seq(Jobs) /\ IsInjective(queue)
    BY DEF ListingInv
  <1>4. /\ queue' \in Seq(Jobs) /\ IsInjective(queue') /\ j \in ToSet(queue)
        /\ ToSet(queue') = ToSet(queue) \ {j}
    BY <1>2, <1>3, FirstLess
  <1>5. IsInjective(listing')
    BY <1>2 DEF ListingInv
  <1>6. sends[j] = 0
    BY <1>4 DEF ListingInv
  <1>7. ~blocked /\ ~blocked'
    BY <1>2 DEF ListingInv
  <1> QED
    BY <1>1, <1>2, <1>4, <1>5, <1>6, <1>7 DEF ListingInv

\* An application goes out for the job of the form, and the form is left.
LEMMA SentKeeps ==
  ASSUME ListingInv, pc = "form", pc' # "form", sends' = [sends EXCEPT ![job] = @ + 1],
         UNCHANGED <<page, seen, listing>>, queue' = queue \/ queue' = <<>>,
         blocked' => pc' = "scan" /\ queue' = <<>>
  PROVE  ListingInv'
  <1>1. job \in Jobs /\ sends[job] = 0 /\ job \in seen \ ToSet(queue) /\ sends \in [Jobs -> {0, 1}]
    BY DEF ListingInv
  <1>2. sends' \in [Jobs -> {0, 1}] /\ \A j \in Jobs : sends'[j] = 1 => sends[j] = 1 \/ j = job
    BY <1>1
  <1>3. queue' \in Seq(Jobs) /\ IsInjective(queue') /\ ToSet(queue') \subseteq ToSet(queue)
    BY EmptyPage DEF ListingInv
  <1>4. IsInjective(listing')
    BY DEF ListingInv
  <1> QED
    BY <1>1, <1>2, <1>3, <1>4 DEF ListingInv

LEMMA FormsKeep ==
  ASSUME ListingInv,
         \/ Listings!Prepare \/ Listings!GiveUp \/ Listings!Send \/ Listings!SendFails \/ Listings!SendBlocked
         \/ Listings!Confirmed \/ Listings!Unconfirmed \/ Listings!PauseFails
  PROVE  ListingInv'
  <1>1. CASE Listings!Send \/ Listings!SendFails
    <2>1. /\ pc = "form" /\ pc' \in {"sent", "scan"} /\ sends' = [sends EXCEPT ![job] = @ + 1]
          /\ UNCHANGED <<page, seen, listing, queue, blocked>>
      BY <1>1 DEF Listings!Send, Listings!SendFails, Listings!IsSent, Listings!Finish
    <2>2. ~blocked'
      BY <2>1 DEF ListingInv
    <2> QED
      BY <2>1, <2>2, SentKeeps
  <1>2. CASE Listings!SendBlocked
    <2>1. /\ pc = "form" /\ pc' = "scan" /\ sends' = [sends EXCEPT ![job] = @ + 1] /\ queue' = <<>>
          /\ UNCHANGED <<page, seen, listing>>
      BY <1>2 DEF Listings!SendBlocked, Listings!IsSent, Listings!Finish
    <2> QED
      BY <2>1, SentKeeps
  <1>3. CASE Listings!Prepare \/ Listings!GiveUp \/ Listings!Confirmed \/ Listings!Unconfirmed
    <2>1. /\ pc \in {"form", "sent"} /\ pc' = "scan" /\ UNCHANGED <<page, seen, listing, queue, blocked, sends>>
      BY <1>3 DEF Listings!Prepare, Listings!GiveUp, Listings!Confirmed, Listings!Unconfirmed, Listings!Finish,
                  Listings!site
    <2> QED
      BY <2>1 DEF ListingInv, IsInjective
  <1>4. CASE Listings!PauseFails
    <2>1. UNCHANGED <<pc, page, queue, seen, job, blocked, listing, sends>>
      BY <1>4 DEF Listings!PauseFails, Listings!site
    <2> QED
      BY <2>1 DEF ListingInv, IsInjective
  <1> QED
    BY <1>1, <1>2, <1>3, <1>4

LEMMA SiteKeeps ==
  ASSUME ListingInv, Listings!SiteChanges
  PROVE  ListingInv'
  <1>1. UNCHANGED <<pc, page, queue, seen, job, blocked, sends>>
    BY DEF Listings!SiteChanges, Listings!Publish, Listings!Close
  <1>2. listing \in Seq(Jobs) /\ IsInjective(listing)
    BY DEF ListingInv
  <1>3. listing' \in Seq(Jobs) /\ IsInjective(listing')
    <2>1. CASE Listings!Publish
      <3>1. PICK j \in Jobs \ ToSet(listing) : listing' = <<j>> \o listing
        BY <2>1, SameSets DEF Listings!Publish
      <3> DEFINE one == <<j>>
      <3>2. one \in Seq(Jobs) /\ IsInjective(one) /\ ToSet(one) = {j}
        BY DEF IsInjective, ToSet
      <3> HIDE DEF one
      <3>3. one \o listing \in Seq(Jobs) /\ IsInjective(one \o listing)
        BY <1>2, <3>1, <3>2, GluedOnce
      <3> QED
        BY <3>1, <3>3 DEF one
    <2>2. CASE Listings!Close
      <3>1. PICK i \in DOMAIN listing : listing' = RemoveAt(listing, i)
        BY <2>2, SameRemoval DEF Listings!Close
      <3> QED
        BY <1>2, <3>1, OneLess
    <2> QED
      BY <2>1, <2>2 DEF Listings!SiteChanges
  <1> QED
    BY <1>1, <1>3 DEF ListingInv, IsInjective

LEMMA ListingStep == ListingInv /\ [Listings!Next]_(Listings!vars) => ListingInv'
  <1> SUFFICES ASSUME ListingInv, [Listings!Next]_(Listings!vars) PROVE ListingInv'
    OBVIOUS
  <1>1. CASE Listings!Run
    BY <1>1, PagesKeep, EntriesKeep, FormsKeep DEF Listings!Run
  <1>2. CASE Listings!SiteChanges
    BY <1>2, SiteKeeps
  <1>3. CASE UNCHANGED Listings!vars
    BY <1>3 DEF Listings!vars, Listings!site, ListingInv, IsInjective
  <1> QED
    BY <1>1, <1>2, <1>3 DEF Listings!Next

LEMMA ListingStart == Listings!Init => ListingInv
  <1> SUFFICES ASSUME Listings!Init PROVE ListingInv
    OBVIOUS
  <1>1. /\ pc = "page" /\ page = 1 /\ queue = <<>> /\ seen = {} /\ listing = Listed
        /\ sends = [j \in Jobs |-> 0]
    BY DEF Listings!Init
  <1>2. blocked = FALSE
    BY DEF Listings!Init
  <1> QED
    BY <1>1, <1>2, EmptyPage, SizesAreRight DEF ListingInv

LEMMA ListingActs == [FlowsNext]_allVars => [Listings!Next]_(Listings!vars)
  BY DEF FlowsNext, allVars, listingVars, OfGreenhouse, OfListing, OfFlow, OfForm, Listings!vars, Listings!input,
         Listings!lists, Listings!site

LEMMA ListingAlways == FlowsSpec => []ListingInv
  <1>1. FlowsInit => ListingInv
    BY ListingStart DEF FlowsInit
  <1>2. ListingInv /\ [FlowsNext]_allVars => ListingInv'
    BY ListingActs, ListingStep
  <1> QED
    BY <1>1, <1>2, PTL DEF FlowsSpec

\* However the listing moves between two pages, however many pages there are,
\* no job is applied to twice in a run.
THEOREM SentOnceAlways == FlowsSpec => []SentOnce
  <1>1. ListingInv => SentOnce
    BY DEF ListingInv, SentOnce, Listings!SentOnce
  <1> QED
    BY <1>1, ListingAlways, PTL

\* After the account was blocked nothing goes out: the rest of the page is left,
\* and no further page is loaded.
THEOREM NoSendAfterBlockAlways == FlowsSpec => NoSendAfterBlock
  <1>1. ListingInv /\ [Listings!Next]_(Listings!vars) => [blocked => UNCHANGED sends]_(Listings!vars)
    <2> SUFFICES ASSUME ListingInv, Listings!Next, blocked PROVE UNCHANGED sends
      OBVIOUS
    <2>1. pc # "form"
      BY DEF ListingInv
    <2> QED
      BY <2>1 DEF Listings!Next, Listings!Run, Listings!LoadPage, Listings!BlankPage, Listings!FailPage,
        Listings!Read, Listings!TurnPage, Listings!EndScan, Listings!Skip, Listings!OpenForm, Listings!Scan,
        Listings!Prepare, Listings!GiveUp, Listings!Send, Listings!SendFails, Listings!SendBlocked,
        Listings!Confirmed, Listings!Unconfirmed, Listings!Finish, Listings!PauseFails, Listings!SiteChanges,
        Listings!Publish, Listings!Close, Listings!site
  <1> QED
    BY <1>1, ListingActs, ListingAlways, PTL DEF FlowsSpec, NoSendAfterBlock, Listings!NoSendAfterBlock

-----------------------------------------------------------------------------
(* What the scan of a listing has on its lists.                              *)

\* All of the instance's variables; on a page; and what is applied to right now.
InPage == {"scan", "form", "sent"}
Awaited == IF pc \in {"form", "sent"} THEN {job} ELSE {}

\* A page is only scanned if it may be loaded, and a form is that of a job.
ListsInv ==
  /\ Listings!TypeOK
  /\ pc \in InPage => page <= MaxPages
  /\ pc \in {"form", "sent"} => job \in Jobs

\* What was scanned is on a list, or its form is open.
ListsAgree ==
  /\ ToSet(scanned) = ToSet(applied) \cup ToSet(skipped) \cup Awaited
  /\ tool # "linkedin_apply" =>
       Len(scanned) = Len(applied) + Len(skipped) + IF pc \in {"form", "sent"} THEN 1 ELSE 0

LEMMA BoundsAreRight ==
  /\ PageSize \in Nat \ {0} /\ MaxPages \in Nat \ {0} /\ MaxLimit \in Nat \ {0} /\ NoJob \notin Jobs
  /\ MaxChanges \in Nat /\ MaxOutages \in Nat
  BY ListingsAssumption DEF Listings!ListingAssumption

\* Whatever is read from a page.
LEMMA ReadKeepsTypes ==
  ASSUME ListsInv, NEW jobs \in Seq(Jobs), IsInjective(jobs), Listings!Read(jobs),
         outages' \subseteq [page : 1..MaxPages, way : {"failed", "blank"}]
  PROVE  ListsInv'
  <1>1. Listings!New(jobs) \in Seq(Jobs) /\ ToSet(jobs) \subseteq Jobs
    BY NewOnPage DEF ToSet
  <1>2. /\ queue' \in Seq(Jobs) /\ seen' = seen \cup ToSet(jobs) /\ pc' \in {"ended", "scan"}
        /\ page <= MaxPages /\ known' \in SUBSET Jobs
        /\ UNCHANGED <<tool, dry, limit, page, job, scanned, applied, skipped, blocked, listing, closed, recorded, sends, changes>>
    BY <1>1, SameSets DEF Listings!Read, Listings!site, Listings!input, Listings!lists, Listings!MayTurn,
       ListsInv, Listings!TypeOK
  <1> QED
    BY <1>1, <1>2 DEF ListsInv, Listings!TypeOK, InPage

LEMMA OutageIsTyped ==
  ASSUME ListsInv, page <= MaxPages, NEW way \in {"failed", "blank"}, Listings!IsOut(way)
  PROVE  outages' \subseteq [page : 1..MaxPages, way : {"failed", "blank"}]
  BY BoundsAreRight DEF Listings!IsOut, ListsInv, Listings!TypeOK

LEMMA PagesKeepTypes ==
  ASSUME ListsInv, ListingInv,
         \/ Listings!LoadPage \/ Listings!BlankPage \/ Listings!FailPage
         \/ Listings!TurnPage \/ Listings!EndScan
  PROVE  ListsInv'
  <1>0. \A jobs : Listings!Read(jobs) => page <= MaxPages
    BY DEF Listings!Read, Listings!MayTurn
  <1>1. CASE Listings!LoadPage
    <2>1. outages' = outages
      BY <1>1 DEF Listings!LoadPage
    <2>2. outages' \subseteq [page : 1..MaxPages, way : {"failed", "blank"}]
      BY <2>1 DEF ListsInv, Listings!TypeOK
    <2> QED
      BY <1>1, <2>2, PageOnce, ReadKeepsTypes DEF Listings!LoadPage
  <1>2. CASE Listings!BlankPage
    BY <1>0, <1>2, EmptyPage, OutageIsTyped, ReadKeepsTypes DEF Listings!BlankPage
  <1>3. CASE Listings!FailPage
    <2>1. CASE Listings!Read(<<>>)
      <3>1. outages' \subseteq [page : 1..MaxPages, way : {"failed", "blank"}]
        BY <1>0, <1>3, <2>1, OutageIsTyped DEF Listings!FailPage
      <3> QED
        BY <2>1, <3>1, EmptyPage, ReadKeepsTypes
    <2>2. CASE ~Listings!Read(<<>>)
      <3>1. /\ page <= MaxPages /\ pc = "page" /\ page' = page + 1
            /\ UNCHANGED <<tool, dry, limit, pc, queue, seen, job, scanned, applied, skipped, blocked, known,
                           listing, closed, recorded, sends, changes>>
        BY <1>3, <2>2 DEF Listings!FailPage, Listings!site, Listings!input, Listings!lists, Listings!MayTurn
      <3>2. outages' \subseteq [page : 1..MaxPages, way : {"failed", "blank"}]
        BY <1>3, <3>1, OutageIsTyped DEF Listings!FailPage
      <3> QED
        BY <3>1, <3>2, BoundsAreRight DEF ListsInv, Listings!TypeOK, InPage
    <2> QED
      BY <2>1, <2>2
  <1>4. CASE Listings!TurnPage
    <2>1. /\ pc = "scan" /\ queue' = <<>> /\ page' = page + 1 /\ pc' \in {"ended", "page"}
          /\ UNCHANGED <<tool, dry, limit, seen, job, scanned, applied, skipped, blocked, known,
                         listing, closed, recorded, sends, changes, outages>>
      BY <1>4 DEF Listings!TurnPage, Listings!site, Listings!input, Listings!lists, Listings!ProceedsUnlessBlocked
    <2> QED
      BY <2>1, BoundsAreRight, EmptyPage DEF ListsInv, Listings!TypeOK, InPage
  <1>5. CASE Listings!EndScan
    <2>1. /\ pc' = "ended"
          /\ UNCHANGED <<tool, dry, limit, page, queue, seen, job, scanned, applied, skipped, blocked, known,
                         listing, closed, recorded, sends, changes, outages>>
      BY <1>5 DEF Listings!EndScan, Listings!site, Listings!input, Listings!lists
    <2> QED
      BY <2>1 DEF ListsInv, Listings!TypeOK, InPage
  <1> QED
    BY <1>1, <1>2, <1>3, <1>4, <1>5

\* What taking an entry off the page does.
LEMMA EntryTaken ==
  ASSUME ListsInv, ListingInv, Listings!Skip \/ Listings!OpenForm
  PROVE  \E j \in Jobs :
    /\ pc = "scan" /\ ~Listings!Target /\ j \in ToSet(queue)
    /\ queue' \in Seq(Jobs) /\ ToSet(queue') = ToSet(queue) \ {j}
    /\ scanned' = Append(scanned, j) /\ applied' = applied
    /\ \/ pc' = "scan" /\ skipped' = Append(skipped, j) /\ job' = job
       \/ pc' = "form" /\ skipped' = skipped /\ job' = j
    /\ UNCHANGED <<tool, dry, limit, page, seen, blocked, known,
                   listing, closed, recorded, sends, changes, outages>>
  <1>1. PICK j \in Jobs : Listings!Scan(j) /\ applied' = applied
          /\ (\/ pc' = "scan" /\ skipped' = Append(skipped, j) /\ job' = job
              \/ pc' = "form" /\ skipped' = skipped /\ job' = j)
    <2>1. CASE Listings!Skip
      BY <2>1 DEF Listings!Skip, Listings!Scan, Listings!SkippedWith
    <2>2. CASE Listings!OpenForm
      <3>1. PICK j \in Jobs : Listings!Scan(j) /\ job' = j
        BY <2>2 DEF Listings!OpenForm
      <3>2. pc' = "form" /\ skipped' = skipped /\ applied' = applied
        BY <2>2 DEF Listings!OpenForm
      <3> QED
        BY <3>1, <3>2
    <2> QED
      BY <2>1, <2>2
  <1>2. /\ pc = "scan" /\ queue # <<>> /\ ~Listings!Target /\ j = Head(queue) /\ queue' = Tail(queue)
        /\ scanned' = Append(scanned, j)
        /\ UNCHANGED <<tool, dry, limit, page, seen, blocked, known,
                       listing, closed, recorded, sends, changes, outages>>
    BY <1>1 DEF Listings!Scan, Listings!LeavesPage, Listings!site, Listings!input
  <1>3. queue \in Seq(Jobs) /\ IsInjective(queue)
    BY DEF ListingInv
  <1>4. queue' \in Seq(Jobs) /\ j \in ToSet(queue) /\ ToSet(queue') = ToSet(queue) \ {j}
    BY <1>2, <1>3, FirstLess
  <1> QED
    BY <1>1, <1>2, <1>4

\* What leaving a form does: the job is listed once, as applied only if nothing is sent or
\* the site confirms it.
LEMMA FormLeft ==
  ASSUME ListsInv, ListingInv,
         \/ Listings!Prepare \/ Listings!GiveUp \/ Listings!SendFails \/ Listings!SendBlocked
         \/ Listings!Confirmed \/ Listings!Unconfirmed
  PROVE  /\ pc \in {"form", "sent"} /\ pc' = "scan" /\ job' = NoJob /\ job \in Jobs
         /\ \/ applied' = Append(applied, job) /\ skipped' = skipped
               /\ (dry \/ Listings!Confirms(job)) /\ recorded' = recorded
            \/ applied' = applied /\ skipped' = Append(skipped, job)
               /\ (recorded' = recorded \/ recorded' = recorded \cup {job})
         /\ (queue' = queue /\ blocked' = blocked) \/ (queue' = <<>> /\ blocked' = TRUE)
         /\ UNCHANGED <<tool, dry, limit, page, seen, scanned, known, listing, closed, changes, outages>>
  <1>0. pc \in {"form", "sent"} => job \in Jobs
    BY DEF ListsInv
  <1>1. CASE Listings!Prepare
    BY <1>0, <1>1 DEF Listings!Prepare, Listings!Finish, Listings!site, Listings!input
  <1>2. CASE Listings!GiveUp
    BY <1>0, <1>2 DEF Listings!GiveUp, Listings!Finish, Listings!site, Listings!input
  <1>3. CASE Listings!SendFails
    BY <1>0, <1>3 DEF Listings!SendFails, Listings!Finish, Listings!IsRecorded, Listings!input
  <1>4. CASE Listings!SendBlocked
    BY <1>0, <1>4 DEF Listings!SendBlocked, Listings!Finish, Listings!input
  <1>5. CASE Listings!Confirmed
    BY <1>0, <1>5 DEF Listings!Confirmed, Listings!Finish, Listings!site, Listings!input
  <1>6. CASE Listings!Unconfirmed
    BY <1>0, <1>6 DEF Listings!Unconfirmed, Listings!Finish, Listings!site, Listings!input
  <1> QED
    BY <1>1, <1>2, <1>3, <1>4, <1>5, <1>6

LEMMA FormSent ==
  ASSUME Listings!Send
  PROVE  /\ pc = "form" /\ pc' = "sent" /\ (recorded' = recorded \/ recorded' = recorded \cup {job})
         /\ UNCHANGED <<tool, dry, limit, page, queue, seen, job, scanned, applied, skipped, blocked, known,
                        listing, closed, changes, outages>>
  BY DEF Listings!Send, Listings!IsRecorded, Listings!input, Listings!lists

LEMMA LateEntry ==
  ASSUME ListsInv, Listings!PauseFails
  PROVE  /\ tool = "linkedin_apply" /\ pc = "scan" /\ Last(scanned) \in Jobs
         /\ Last(scanned) \in ToSet(scanned) /\ skipped' = Append(skipped, Last(scanned))
         /\ UNCHANGED <<tool, dry, limit, pc, page, queue, seen, job, scanned, applied, blocked, known,
                        listing, closed, recorded, sends, changes, outages>>
  <1>1. /\ tool = "linkedin_apply" /\ pc = "scan" /\ scanned # <<>>
        /\ skipped' = Append(skipped, Listings!Last(scanned))
        /\ UNCHANGED <<tool, dry, limit, pc, page, queue, seen, job, scanned, applied, blocked, known,
                       listing, closed, recorded, sends, changes, outages>>
    BY DEF Listings!PauseFails, Listings!input, Listings!site
  <1>2. Listings!Last(scanned) = Last(scanned)
    BY Zenon DEF Listings!Last, Last
  <1>3. scanned \in Seq(Jobs)
    BY DEF ListsInv, Listings!TypeOK
  <1>4. Len(scanned) \in DOMAIN scanned /\ Last(scanned) = scanned[Len(scanned)] /\ Last(scanned) \in Jobs
    BY <1>1, <1>3 DEF Last
  <1> QED
    BY <1>1, <1>2, <1>4 DEF ToSet

\* What the site does by itself.
LEMMA SiteMoves ==
  ASSUME ListsInv, ListingInv, Listings!SiteChanges
  PROVE  /\ pc # "ended" /\ changes' = changes + 1 /\ changes' \in 0..MaxChanges
         /\ listing' \in Seq(Jobs) /\ closed \subseteq closed' /\ closed' \in SUBSET Jobs
         /\ UNCHANGED <<tool, dry, limit, pc, page, queue, seen, job, scanned, applied, skipped, blocked, known,
                        recorded, sends, outages>>
  <1>1. /\ pc # "ended" /\ changes < MaxChanges /\ changes' = changes + 1
        /\ UNCHANGED <<tool, dry, limit, pc, page, queue, seen, job, scanned, applied, skipped, blocked, known,
                       recorded, sends, outages>>
    BY DEF Listings!SiteChanges, Listings!Publish, Listings!Close, Listings!input, Listings!lists
  <1>2. listing' \in Seq(Jobs)
    BY SiteKeeps DEF ListingInv
  <1>3. closed \subseteq closed' /\ closed' \in SUBSET Jobs
    <2>1. closed \in SUBSET Jobs /\ listing \in Seq(Jobs)
      BY DEF ListsInv, Listings!TypeOK
    <2>2. CASE Listings!Publish
      BY <2>1, <2>2 DEF Listings!Publish
    <2>3. CASE Listings!Close
      <3>1. PICK i \in DOMAIN listing : closed' = closed \cup {listing[i]}
        BY <2>3 DEF Listings!Close
      <3>2. listing[i] \in Jobs
        BY <2>1, <3>1
      <3> QED
        BY <2>1, <3>1, <3>2
    <2> QED
      BY <2>2, <2>3 DEF Listings!SiteChanges
  <1>4. changes' \in 0..MaxChanges
    BY <1>1, BoundsAreRight DEF ListsInv, Listings!TypeOK
  <1> QED
    BY <1>1, <1>2, <1>3, <1>4

LEMMA ListsTyped ==
  ASSUME ListsInv, ListingInv, [Listings!Next]_(Listings!vars)
  PROVE  ListsInv'
  <1>0. sends' \in [Jobs -> Nat] /\ listing' \in Seq(Jobs)
    BY ListingStep DEF ListingInv
  <1>1. CASE Listings!LoadPage \/ Listings!BlankPage \/ Listings!FailPage \/ Listings!TurnPage \/ Listings!EndScan
    BY <1>1, PagesKeepTypes
  <1>2. CASE Listings!Skip \/ Listings!OpenForm
    <2>1. PICK j \in Jobs :
            /\ pc = "scan" /\ queue' \in Seq(Jobs) /\ scanned' = Append(scanned, j) /\ applied' = applied
            /\ \/ pc' = "scan" /\ skipped' = Append(skipped, j) /\ job' = job
               \/ pc' = "form" /\ skipped' = skipped /\ job' = j
            /\ UNCHANGED <<tool, dry, limit, page, seen, blocked, known,
                           listing, closed, recorded, sends, changes, outages>>
      BY <1>2, EntryTaken
    <2>2. scanned' \in Seq(Jobs) /\ applied' \in Seq(Jobs) /\ skipped' \in Seq(Jobs)
      BY <2>1, Appended DEF ListsInv, Listings!TypeOK
    <2> QED
      BY <2>1, <2>2 DEF ListsInv, Listings!TypeOK, InPage
  <1>3. CASE \/ Listings!Prepare \/ Listings!GiveUp \/ Listings!SendFails \/ Listings!SendBlocked
             \/ Listings!Confirmed \/ Listings!Unconfirmed
    <2>1. applied' \in Seq(Jobs) /\ skipped' \in Seq(Jobs) /\ queue' \in Seq(Jobs) /\ recorded' \in SUBSET Jobs
      BY <1>3, FormLeft, Appended, EmptyPage DEF ListsInv, Listings!TypeOK
    <2> QED
      BY <1>0, <1>3, <2>1, FormLeft DEF ListsInv, Listings!TypeOK, InPage
  <1>4. CASE Listings!Send
    BY <1>0, <1>4, FormSent DEF ListsInv, Listings!TypeOK, InPage
  <1>5. CASE Listings!PauseFails
    <2>1. skipped' \in Seq(Jobs)
      BY <1>5, LateEntry, Appended DEF ListsInv, Listings!TypeOK
    <2> QED
      BY <1>5, <2>1, LateEntry DEF ListsInv, Listings!TypeOK, InPage
  <1>6. CASE Listings!SiteChanges
    BY <1>6, SiteMoves DEF ListsInv, Listings!TypeOK, InPage
  <1>7. CASE UNCHANGED Listings!vars
    BY <1>7 DEF Listings!vars, Listings!input, Listings!lists, Listings!site, ListsInv, Listings!TypeOK, InPage
  <1> QED
    BY <1>1, <1>2, <1>3, <1>4, <1>5, <1>6, <1>7 DEF Listings!Next, Listings!Run

LEMMA AppendedSet ==
  ASSUME NEW s \in Seq(Jobs), NEW j \in Jobs
  PROVE  ToSet(Append(s, j)) = ToSet(s) \cup {j} /\ Len(Append(s, j)) = Len(s) + 1 /\ Len(s) \in Nat
  BY SetOfAppended

LEMMA ListsAgreeKept ==
  ASSUME ListsInv, ListingInv, ListsAgree, [Listings!Next]_(Listings!vars)
  PROVE  ListsAgree'
  <1>0. scanned \in Seq(Jobs) /\ applied \in Seq(Jobs) /\ skipped \in Seq(Jobs)
    BY DEF ListsInv, Listings!TypeOK
  <1>1. CASE Listings!LoadPage \/ Listings!BlankPage \/ Listings!FailPage \/ Listings!TurnPage \/ Listings!EndScan
    <2>1. /\ pc \notin {"form", "sent"} /\ pc' \notin {"form", "sent"}
          /\ UNCHANGED <<tool, job, scanned, applied, skipped>>
      BY <1>1 DEF Listings!LoadPage, Listings!BlankPage, Listings!FailPage, Listings!TurnPage, Listings!EndScan,
         Listings!Read, Listings!ProceedsUnlessBlocked, Listings!input, Listings!lists
    <2>2. Awaited = {} /\ Awaited' = {}
      BY <2>1 DEF Awaited
    <2> QED
      BY <2>1, <2>2, Zenon DEF ListsAgree
  <1>2. CASE Listings!Skip \/ Listings!OpenForm
    <2>1. PICK j \in Jobs :
            /\ pc = "scan" /\ scanned' = Append(scanned, j) /\ applied' = applied /\ tool' = tool
            /\ \/ pc' = "scan" /\ skipped' = Append(skipped, j) /\ job' = job
               \/ pc' = "form" /\ skipped' = skipped /\ job' = j
      BY <1>2, EntryTaken
    <2>2. CASE pc' = "scan" /\ skipped' = Append(skipped, j)
      <3>1. /\ ToSet(scanned)' = ToSet(scanned) \cup {j} /\ ToSet(skipped)' = ToSet(skipped) \cup {j}
            /\ ToSet(applied)' = ToSet(applied)
            /\ Len(scanned') = Len(scanned) + 1 /\ Len(skipped') = Len(skipped) + 1 /\ Len(applied') = Len(applied)
            /\ Len(scanned) \in Nat /\ Len(skipped) \in Nat /\ Len(applied) \in Nat
        BY <1>0, <2>1, <2>2, AppendedSet
      <3> QED
        BY <2>1, <2>2, <3>1 DEF ListsAgree, Awaited
    <2>3. CASE pc' = "form" /\ skipped' = skipped /\ job' = j
      BY <1>0, <2>1, <2>3, AppendedSet DEF ListsAgree, Awaited
    <2> QED
      BY <2>1, <2>2, <2>3
  <1>3. CASE \/ Listings!Prepare \/ Listings!GiveUp \/ Listings!SendFails \/ Listings!SendBlocked
             \/ Listings!Confirmed \/ Listings!Unconfirmed
    <2>1. /\ pc \in {"form", "sent"} /\ pc' = "scan" /\ job \in Jobs /\ tool' = tool /\ scanned' = scanned
          /\ \/ applied' = Append(applied, job) /\ skipped' = skipped
             \/ applied' = applied /\ skipped' = Append(skipped, job)
      BY <1>3, FormLeft
    <2>2. CASE applied' = Append(applied, job) /\ skipped' = skipped
      BY <1>0, <2>1, <2>2, AppendedSet DEF ListsAgree, Awaited
    <2>3. CASE applied' = applied /\ skipped' = Append(skipped, job)
      BY <1>0, <2>1, <2>3, AppendedSet DEF ListsAgree, Awaited
    <2> QED
      BY <2>1, <2>2, <2>3
  <1>4. CASE Listings!Send
    BY <1>4, FormSent DEF ListsAgree, Awaited, ToSet
  <1>5. CASE Listings!PauseFails
    <2>1. /\ tool = "linkedin_apply" /\ UNCHANGED <<tool, pc, job, scanned, applied>>
          /\ Last(scanned) \in ToSet(scanned) /\ ToSet(skipped') = ToSet(skipped) \cup {Last(scanned)}
      BY <1>0, <1>5, LateEntry, AppendedSet
    <2>2. Awaited = {} /\ Awaited' = {}
      BY <1>5, LateEntry DEF Awaited
    <2> QED
      BY <2>1, <2>2, Zenon DEF ListsAgree
  <1>6. CASE Listings!SiteChanges
    BY <1>6, SiteMoves DEF ListsAgree, Awaited, ToSet
  <1>7. CASE UNCHANGED Listings!vars
    BY <1>7 DEF Listings!vars, Listings!input, Listings!lists, Listings!site, ListsAgree, Awaited, ToSet
  <1> QED
    BY <1>1, <1>2, <1>3, <1>4, <1>5, <1>6, <1>7 DEF Listings!Next, Listings!Run

\* Nothing a site has recorded or closed is taken back.
LEMMA RecordedKept ==
  ASSUME ListsInv, ListingInv, Listings!AppliedIsRecorded, [Listings!Next]_(Listings!vars)
  PROVE  Listings!AppliedIsRecorded'
  <1> DEFINE held == recorded \cup IF tool = "tasker_apply" THEN closed ELSE {}
  <1>0. applied \in Seq(Jobs) /\ (~dry => ToSet(applied) \subseteq held)
    BY SameSets DEF ListsInv, Listings!TypeOK, Listings!AppliedIsRecorded
  <1>1. dry' = dry /\ tool' = tool /\ closed \subseteq closed' /\ recorded \subseteq recorded'
        /\ (applied' = applied \/ (applied' = Append(applied, job) /\ job \in Jobs /\ (dry \/ Listings!Confirms(job))))
    <2>1. CASE Listings!LoadPage \/ Listings!BlankPage \/ Listings!FailPage \/ Listings!TurnPage \/ Listings!EndScan
      BY <2>1 DEF Listings!LoadPage, Listings!BlankPage, Listings!FailPage, Listings!TurnPage, Listings!EndScan,
         Listings!Read, Listings!input, Listings!lists, Listings!site
    <2>2. CASE Listings!Skip \/ Listings!OpenForm
      BY <2>2, EntryTaken
    <2>3. CASE \/ Listings!Prepare \/ Listings!GiveUp \/ Listings!SendFails \/ Listings!SendBlocked
               \/ Listings!Confirmed \/ Listings!Unconfirmed
      BY <2>3, FormLeft
    <2>4. CASE Listings!Send \/ Listings!PauseFails \/ Listings!SiteChanges
      BY <2>4, FormSent, LateEntry, SiteMoves
    <2>5. CASE UNCHANGED Listings!vars
      BY <2>5 DEF Listings!vars, Listings!input, Listings!lists, Listings!site
    <2> QED
      BY <2>1, <2>2, <2>3, <2>4, <2>5 DEF Listings!Next, Listings!Run
  <1>2. Listings!Confirms(job) => job \in held
    BY DEF Listings!Confirms
  <1>3. held \subseteq held'
    BY <1>1
  <1>4. ~dry' => ToSet(applied') \subseteq held'
    <2> HIDE DEF held
    <2>1. CASE applied' = applied
      BY <1>0, <1>1, <1>3, <2>1
    <2>2. CASE applied' = Append(applied, job) /\ job \in Jobs /\ (dry \/ Listings!Confirms(job))
      BY <1>0, <1>1, <1>2, <1>3, <2>2, AppendedSet
    <2> QED
      BY <1>1, <2>1, <2>2
  <1> QED
    BY <1>4, SameSets DEF Listings!AppliedIsRecorded

\* The places of a page, and those up to its end.
PlacesUpTo(p) == {i \in DOMAIN listing : i <= p * PageSize}
PlacesOn(p) == {i \in DOMAIN listing : i > (p - 1) * PageSize /\ i <= p * PageSize}
UpToPage(p) == {listing[i] : i \in PlacesUpTo(p)}
Entries(p) == {listing[i] : i \in PlacesOn(p)}

LEMMA LaterPages ==
  ASSUME NEW p \in Nat, NEW q \in Nat, p <= q
  PROVE  p * PageSize \in Nat /\ q * PageSize \in Nat /\ p * PageSize <= q * PageSize
         /\ (p + 1) * PageSize = p * PageSize + PageSize
  <1>1. PageSize \in Nat
    BY BoundsAreRight
  <1>2. PICK d \in Nat : q = p + d
    <2>1. q - p \in Nat /\ q = p + (q - p)
      OBVIOUS
    <2> QED
      BY <2>1
  <1>3. (p + d) * PageSize = p * PageSize + d * PageSize
    BY <1>1
  <1>4. p * PageSize \in Nat /\ d * PageSize \in Nat
    BY <1>1
  <1> QED
    BY <1>1, <1>2, <1>3, <1>4

LEMMA PageHasEntries ==
  ASSUME ListingInv, NEW p \in Nat \ {0}
  PROVE  ToSet(Listings!PageOf(p)) = Entries(p)
  <1> DEFINE last == p * PageSize
             m == last - PageSize + 1
             n == IF last < Len(listing) THEN last ELSE Len(listing)
  <1>1. /\ PageSize \in Nat \ {0} /\ listing \in Seq(Jobs) /\ IsInjective(listing)
        /\ Len(listing) \in Nat /\ DOMAIN listing = 1..Len(listing)
    BY SizesAreRight DEF ListingInv
  <1>2. last \in Nat /\ (p - 1) * PageSize \in Nat /\ last = (p - 1) * PageSize + PageSize
    <2>1. p - 1 \in Nat /\ (p - 1) + 1 = p
      OBVIOUS
    <2> QED
      BY <2>1, LaterPages
  <1>3. Listings!PageOf(p) = SubSeq(listing, m, n)
    BY DEF Listings!PageOf
  <1> HIDE DEF last
  <1>4. m \in Nat \ {0} /\ n \in Int /\ n <= Len(listing)
    BY <1>1, <1>2
  <1>5. m..n = {i \in DOMAIN listing : i > (p - 1) * PageSize /\ i <= last}
    BY <1>1, <1>2
  <1> HIDE DEF m, n
  <1>6. ToSet(SubSeq(listing, m, n)) = {listing[i] : i \in m..n}
    BY <1>1, <1>4, PartOnce
  <1> QED
    BY <1>3, <1>5, <1>6, Zenon DEF Entries, PlacesOn, last

LEMMA PagesInOrder ==
  ASSUME ListingInv, NEW p \in Nat \ {0}
  PROVE  /\ UpToPage(p) = UpToPage(p - 1) \cup Entries(p) /\ Entries(p) \cap UpToPage(p - 1) = {}
         /\ \A q \in Nat \ {0} : p <= q /\ Entries(p) = {} => Entries(q) = {}
  <1>1. /\ PageSize \in Nat \ {0} /\ listing \in Seq(Jobs) /\ IsInjective(listing)
        /\ Len(listing) \in Nat /\ DOMAIN listing = 1..Len(listing)
    BY SizesAreRight DEF ListingInv
  <1>2. p - 1 \in Nat /\ (p - 1) * PageSize \in Nat /\ p * PageSize \in Nat
        /\ (p - 1) * PageSize <= p * PageSize /\ p * PageSize = (p - 1) * PageSize + PageSize
    <2>1. p - 1 \in Nat /\ (p - 1) + 1 = p /\ p - 1 <= p
      OBVIOUS
    <2> QED
      BY <2>1, LaterPages
  <1>3. PlacesUpTo(p) = PlacesUpTo(p - 1) \cup PlacesOn(p)
    BY <1>1, <1>2 DEF PlacesUpTo, PlacesOn
  <1>4. UpToPage(p) = UpToPage(p - 1) \cup Entries(p)
    BY <1>3 DEF UpToPage, Entries
  <1>5. \A i \in PlacesOn(p), k \in PlacesUpTo(p - 1) : listing[i] # listing[k]
    <2> SUFFICES ASSUME NEW i \in PlacesOn(p), NEW k \in PlacesUpTo(p - 1) PROVE listing[i] # listing[k]
      OBVIOUS
    <2>1. i \in DOMAIN listing /\ k \in DOMAIN listing /\ i # k
      BY <1>1, <1>2 DEF PlacesOn, PlacesUpTo
    <2> QED
      BY <1>1, <2>1 DEF IsInjective
  <1>6. Entries(p) \cap UpToPage(p - 1) = {}
    BY <1>5 DEF Entries, UpToPage
  <1>7. ASSUME NEW q \in Nat \ {0}, p <= q, Entries(p) = {} PROVE Entries(q) = {}
    <2> SUFFICES ASSUME NEW i \in PlacesOn(q) PROVE FALSE
      BY DEF Entries
    <2>1. (p - 1) * PageSize <= (q - 1) * PageSize /\ (q - 1) * PageSize \in Nat
      <3>1. p - 1 \in Nat /\ q - 1 \in Nat /\ p - 1 <= q - 1
        BY <1>7
      <3> QED
        BY <3>1, LaterPages
    <2>2. i \in 1..Len(listing) /\ i > (q - 1) * PageSize
      BY <1>1 DEF PlacesOn
    <2> DEFINE k == (p - 1) * PageSize + 1
    <2>3. k \in 1..Len(listing) /\ k > (p - 1) * PageSize /\ k <= p * PageSize
      BY <1>1, <1>2, <2>1, <2>2
    <2>4. k \in PlacesOn(p)
      BY <1>1, <2>3 DEF PlacesOn
    <2> QED
      BY <1>7, <2>4 DEF Entries
  <1> QED
    BY <1>4, <1>6, <1>7

\* Nothing has moved on the listing and no page could be taken for its end; and a page failed.
Undisturbed == changes = 0 /\ \A o \in outages : ~Listings!LooksEmpty(o)
Failed(p) == \E o \in outages : o.page = p

\* Whatever has been seen is scanned or still to be scanned, unless the scan may stop.
SeenIsScanned ==
  /\ pc \in {"page", "ended"} => queue = <<>>
  /\ ~Listings!Target /\ ~blocked => seen \subseteq ToSet(scanned) \cup ToSet(queue)

\* The pages behind have been seen, if they loaded, those ahead have not; the scan ends where
\* there is nothing left.
PagesAreSeen ==
  Undisturbed =>
    /\ pc = "page" => seen \subseteq UpToPage(page - 1)
    /\ seen \subseteq UpToPage(page)
    /\ \A p \in 1..MaxPages :
         ~Failed(p) /\ (p < page \/ (p = page /\ pc \in InPage)) => Entries(p) \subseteq seen
    /\ pc = "ended" /\ ~Listings!Target /\ ~blocked =>
         \A p \in 1..MaxPages : p < page \/ Entries(p) = {}

LEMMA TargetStays ==
  ASSUME ListsInv, NEW j \in Jobs, limit' = limit, applied' = applied \/ applied' = Append(applied, j)
  PROVE  ~Listings!Target' => ~Listings!Target
  <1>1. applied \in Seq(Jobs) /\ limit \in Nat
    BY BoundsAreRight DEF ListsInv, Listings!TypeOK
  <1>2. Len(applied) \in Nat /\ (Len(applied') = Len(applied) \/ Len(applied') = Len(applied) + 1)
    BY <1>1, AppendedSet
  <1> QED
    BY <1>1, <1>2 DEF Listings!Target

LEMMA SeenKept ==
  ASSUME ListsInv, ListingInv, SeenIsScanned, [Listings!Next]_(Listings!vars)
  PROVE  SeenIsScanned'
  <1>0. scanned \in Seq(Jobs) /\ seen \in SUBSET Jobs
    BY DEF ListsInv, Listings!TypeOK
  <1>1. ASSUME NEW jobs \in Seq(Jobs), IsInjective(jobs), Listings!Read(jobs) PROVE SeenIsScanned'
    <2>1. /\ queue' = Listings!New(jobs) /\ seen' = seen \cup ToSet(jobs) /\ pc = "page"
          /\ pc' = (IF Listings!New(jobs) = <<>> THEN "ended" ELSE "scan")
          /\ UNCHANGED <<limit, scanned, applied, blocked>>
      BY <1>1, SameSets DEF Listings!Read, Listings!input, Listings!lists
    <2>2. ToSet(queue') = ToSet(jobs) \ seen
      BY <1>1, <2>1, NewOnPage
    <2>3. ToSet(queue) = {}
      BY <2>1, EmptyPage DEF SeenIsScanned
    <2>4. Listings!Target' = Listings!Target
      BY <2>1 DEF Listings!Target
    <2>5. ToSet(scanned)' = ToSet(scanned)
      BY <2>1
    <2>6. pc' \in {"page", "ended"} => queue' = <<>>
      BY <2>1
    <2>7. ~Listings!Target' /\ ~blocked' => seen' \subseteq ToSet(scanned') \cup ToSet(queue')
      BY <2>1, <2>2, <2>3, <2>4, <2>5 DEF SeenIsScanned
    <2> QED
      BY <2>6, <2>7 DEF SeenIsScanned
  <1>2. CASE Listings!LoadPage
    BY <1>1, <1>2, PageOnce DEF Listings!LoadPage
  <1>3. CASE Listings!BlankPage
    BY <1>1, <1>3, EmptyPage DEF Listings!BlankPage
  <1>4. CASE Listings!FailPage
    <2>1. CASE Listings!Read(<<>>)
      BY <1>1, <2>1, EmptyPage
    <2>2. CASE ~Listings!Read(<<>>)
      <3>1. UNCHANGED <<pc, queue, seen, limit, scanned, applied, blocked>>
        BY <1>4, <2>2 DEF Listings!FailPage, Listings!input, Listings!lists
      <3> QED
        BY <3>1 DEF SeenIsScanned, Listings!Target, ToSet
    <2> QED
      BY <2>1, <2>2
  <1>5. CASE Listings!TurnPage
    <2>1. /\ queue' = <<>> /\ UNCHANGED <<seen, limit, scanned, applied, blocked>>
          /\ queue = <<>> \/ Listings!Target
      BY <1>5 DEF Listings!TurnPage, Listings!LeavesPage, Listings!input, Listings!lists
    <2>2. Listings!Target' = Listings!Target
      BY <2>1 DEF Listings!Target
    <2> QED
      BY <2>1, <2>2 DEF SeenIsScanned, ToSet
  <1>6. CASE Listings!EndScan
    <2>1. /\ pc = "page" /\ UNCHANGED <<queue, seen, limit, scanned, applied, blocked>>
      BY <1>6 DEF Listings!EndScan, Listings!input, Listings!lists
    <2>2. Listings!Target' = Listings!Target
      BY <2>1 DEF Listings!Target
    <2> QED
      BY <2>1, <2>2 DEF SeenIsScanned, ToSet
  <1>7. CASE Listings!Skip \/ Listings!OpenForm
    <2>1. PICK j \in Jobs :
            /\ j \in ToSet(queue) /\ ToSet(queue') = ToSet(queue) \ {j}
            /\ scanned' = Append(scanned, j) /\ applied' = applied /\ pc' \in {"scan", "form"}
            /\ UNCHANGED <<limit, seen, blocked>>
      BY <1>7, EntryTaken
    <2>2. Listings!Target' = Listings!Target
      BY <2>1 DEF Listings!Target
    <2>3. ToSet(scanned') = ToSet(scanned) \cup {j}
      BY <1>0, <2>1, AppendedSet
    <2>4. ~Listings!Target' /\ ~blocked' => seen' \subseteq ToSet(scanned') \cup ToSet(queue')
      BY <2>1, <2>2, <2>3 DEF SeenIsScanned
    <2> QED
      BY <2>1, <2>4 DEF SeenIsScanned
  <1>8. CASE \/ Listings!Prepare \/ Listings!GiveUp \/ Listings!SendFails \/ Listings!SendBlocked
             \/ Listings!Confirmed \/ Listings!Unconfirmed
    <2>1. /\ pc' = "scan" /\ job \in Jobs /\ limit' = limit /\ seen' = seen /\ scanned' = scanned
          /\ applied' = applied \/ applied' = Append(applied, job)
          /\ (queue' = queue /\ blocked' = blocked) \/ blocked'
      BY <1>8, FormLeft
    <2>2. ~Listings!Target' => ~Listings!Target
      BY <2>1, TargetStays
    <2> QED
      BY <2>1, <2>2 DEF SeenIsScanned, ToSet
  <1>9. CASE Listings!Send \/ Listings!PauseFails \/ Listings!SiteChanges \/ UNCHANGED Listings!vars
    <2>1. /\ UNCHANGED <<queue, seen, limit, scanned, applied, blocked>>
          /\ pc' = pc \/ pc' = "sent"
      BY <1>9, FormSent, LateEntry, SiteMoves DEF Listings!vars, Listings!input, Listings!lists
    <2>2. Listings!Target' = Listings!Target
      BY <2>1 DEF Listings!Target
    <2> QED
      BY <2>1, <2>2 DEF SeenIsScanned, ToSet
  <1> QED
    BY <1>2, <1>3, <1>4, <1>5, <1>6, <1>7, <1>8, <1>9 DEF Listings!Next, Listings!Run

LEMMA PagesSeenKept ==
  ASSUME ListsInv, ListingInv, PagesAreSeen, [Listings!Next]_(Listings!vars)
  PROVE  PagesAreSeen'
  <1>0. page \in Nat \ {0} /\ changes \in Nat /\ MaxPages \in Nat /\ (pc \in InPage => page <= MaxPages)
    BY BoundsAreRight DEF ListsInv, ListingInv, Listings!TypeOK
  <1>a. listing' = listing => \A p : Entries(p)' = Entries(p) /\ UpToPage(p)' = UpToPage(p)
    BY DEF Entries, UpToPage, PlacesOn, PlacesUpTo
  <1>b. page + 1 \in Nat \ {0} /\ (page + 1) - 1 = page
        /\ UpToPage(page - 1) \subseteq UpToPage(page) /\ UpToPage(page) \subseteq UpToPage(page + 1)
    BY <1>0, PagesInOrder
  <1>1. CASE Listings!LoadPage
    <2>1. /\ pc = "page" /\ page <= MaxPages /\ seen' = seen \cup ToSet(Listings!PageOf(page))
          /\ pc' = (IF Listings!New(Listings!PageOf(page)) = <<>> THEN "ended" ELSE "scan")
          /\ UNCHANGED <<tool, page, listing, changes, outages>>
      BY <1>1, SameSets DEF Listings!LoadPage, Listings!Read, Listings!MayTurn, Listings!input, Listings!site
    <2>2. seen' = seen \cup Entries(page)
      BY <1>0, <2>1, PageHasEntries
    <2>3. SUFFICES ASSUME Undisturbed' PROVE
            /\ seen' \subseteq UpToPage(page)
            /\ \A p \in 1..MaxPages : ~Failed(p) /\ p <= page => Entries(p) \subseteq seen'
            /\ pc' = "ended" => \A p \in 1..MaxPages : p < page \/ Entries(p) = {}
      BY <1>0, <1>a, <2>1 DEF PagesAreSeen, Failed, InPage
    <2>4. Undisturbed
      BY <2>1, <2>3 DEF Undisturbed, Listings!LooksEmpty
    <2>5. seen \subseteq UpToPage(page - 1) /\ UpToPage(page) = UpToPage(page - 1) \cup Entries(page)
          /\ Entries(page) \cap UpToPage(page - 1) = {}
      BY <1>0, <2>1, <2>4, PagesInOrder DEF PagesAreSeen
    <2>6. \A p \in 1..MaxPages : ~Failed(p) /\ p <= page => Entries(p) \subseteq seen'
      <3> SUFFICES ASSUME NEW p \in 1..MaxPages, ~Failed(p), p <= page PROVE Entries(p) \subseteq seen'
        OBVIOUS
      <3>1. CASE p = page
        BY <2>2, <3>1
      <3>2. CASE p < page
        BY <2>2, <2>4, <3>2 DEF PagesAreSeen
      <3> QED
        BY <1>0, <3>1, <3>2
    <2>7. ASSUME pc' = "ended", NEW p \in 1..MaxPages, ~(p < page) PROVE Entries(p) = {}
      <3>1. Listings!New(Listings!PageOf(page)) = <<>>
        BY <2>1, <2>7
      <3>2. Entries(page) \subseteq seen
        BY <1>0, <3>1, PageOnce, NewOnPage, EmptyPage, PageHasEntries
      <3>3. Entries(page) = {}
        BY <2>5, <3>2
      <3>4. p \in Nat \ {0} /\ page <= p
        BY <1>0, <2>7
      <3> QED
        BY <1>0, <3>3, <3>4, PagesInOrder
    <2> QED
      BY <2>2, <2>5, <2>6, <2>7
  <1>2. CASE Listings!BlankPage
    <2>1. [page |-> page, way |-> "blank"] \in outages'
      BY <1>2 DEF Listings!BlankPage, Listings!IsOut
    <2>2. ~Undisturbed'
      BY <2>1 DEF Undisturbed, Listings!LooksEmpty
    <2> QED
      BY <2>2 DEF PagesAreSeen
  <1>3. CASE Listings!FailPage
    <2>1. outages' = outages \cup {[page |-> page, way |-> "failed"]}
      BY <1>3 DEF Listings!FailPage, Listings!IsOut
    <2>2. CASE tool = "tasker_apply"
      <3>1. tool' = tool
        BY <1>3 DEF Listings!FailPage, Listings!Read, Listings!input
      <3>2. ~Undisturbed'
        BY <2>1, <2>2, <3>1 DEF Undisturbed, Listings!LooksEmpty
      <3> QED
        BY <3>2 DEF PagesAreSeen
    <2>3. CASE tool # "tasker_apply"
      <3>1. /\ pc = "page" /\ pc' = "page" /\ page' = page + 1 /\ UNCHANGED <<tool, seen, listing, changes>>
        BY <1>3, <2>3 DEF Listings!FailPage, Listings!EmptyOnFailure, Listings!input, Listings!site
      <3>2. ASSUME NEW p, p = page \/ Failed(p) PROVE Failed(p)'
        <4>1. CASE p = page
          <5>1. PICK o \in outages' : o = [page |-> page, way |-> "failed"]
            BY <2>1
          <5>2. o.page = p
            BY <4>1, <5>1
          <5> QED
            BY <5>2 DEF Failed
        <4>2. CASE Failed(p)
          BY <2>1, <4>2, Zenon DEF Failed
        <4> QED
          BY <3>2, <4>1, <4>2
      <3>3. Undisturbed' => Undisturbed
        BY <2>1, <3>1 DEF Undisturbed, Listings!LooksEmpty
      <3>4. \A p \in 1..MaxPages : p < page + 1 => p < page \/ p = page
        BY <1>0
      <3> SUFFICES ASSUME Undisturbed' PROVE
              /\ seen \subseteq UpToPage(page) /\ UpToPage(page) \subseteq UpToPage(page + 1)
              /\ \A p \in 1..MaxPages : ~Failed(p)' /\ p < page + 1 => Entries(p) \subseteq seen
        BY <1>a, <1>b, <3>1 DEF PagesAreSeen, InPage
      <3> QED
        BY <1>b, <3>1, <3>2, <3>3, <3>4 DEF PagesAreSeen
    <2> QED
      BY <2>2, <2>3
  <1>4. CASE Listings!TurnPage
    <2>1. /\ pc = "scan" /\ page' = page + 1 /\ (pc' = IF blocked THEN "ended" ELSE "page")
          /\ UNCHANGED <<tool, blocked, seen, listing, changes, outages>>
      BY <1>4 DEF Listings!TurnPage, Listings!ProceedsUnlessBlocked, Listings!input, Listings!site
    <2>2. Undisturbed' => Undisturbed
      BY <2>1 DEF Undisturbed, Listings!LooksEmpty
    <2>3. \A p : Failed(p)' = Failed(p)
      BY <2>1 DEF Failed
    <2>4. \A p \in 1..MaxPages : p < page + 1 => p < page \/ p = page
      BY <1>0
    <2> QED
      BY <1>a, <1>b, <2>1, <2>2, <2>3, <2>4 DEF PagesAreSeen, InPage
  <1>5. CASE Listings!EndScan
    <2>1. /\ pc = "page" /\ pc' = "ended" /\ ~Listings!MayTurn
          /\ UNCHANGED <<tool, limit, applied, page, blocked, seen, listing, changes, outages>>
      BY <1>5 DEF Listings!EndScan, Listings!input, Listings!site, Listings!lists
    <2>2. Undisturbed' => Undisturbed
      BY <2>1 DEF Undisturbed, Listings!LooksEmpty
    <2>3. \A p : Failed(p)' = Failed(p)
      BY <2>1 DEF Failed
    <2>4. Listings!Target' = Listings!Target
      BY <2>1 DEF Listings!Target
    <2>5. ~Listings!Target => \A p \in 1..MaxPages : p < page
      BY <1>0, <2>1 DEF Listings!MayTurn
    <2> QED
      BY <1>a, <1>b, <2>1, <2>2, <2>3, <2>4, <2>5 DEF PagesAreSeen, InPage
  <1>6. ASSUME pc \in InPage, pc' \in InPage, UNCHANGED <<tool, page, seen, listing, changes, outages>>
        PROVE  PagesAreSeen'
    <2>1. Undisturbed' => Undisturbed
      BY <1>6 DEF Undisturbed, Listings!LooksEmpty
    <2>2. \A p : Failed(p)' = Failed(p)
      BY <1>6 DEF Failed
    <2> QED
      BY <1>a, <1>6, <2>1, <2>2 DEF PagesAreSeen, InPage
  <1>7. CASE Listings!Skip \/ Listings!OpenForm
    BY <1>6, <1>7, EntryTaken DEF InPage
  <1>8. CASE \/ Listings!Prepare \/ Listings!GiveUp \/ Listings!SendFails \/ Listings!SendBlocked
             \/ Listings!Confirmed \/ Listings!Unconfirmed
    BY <1>6, <1>8, FormLeft DEF InPage
  <1>9. CASE Listings!Send \/ Listings!PauseFails
    BY <1>6, <1>9, FormSent, LateEntry DEF InPage
  <1>10. CASE Listings!SiteChanges
    <2>1. changes' # 0
      BY <1>0, <1>10, SiteMoves
    <2> QED
      BY <2>1 DEF PagesAreSeen, Undisturbed
  <1>11. CASE UNCHANGED Listings!vars
    <2>1. UNCHANGED <<tool, limit, applied, pc, page, blocked, seen, listing, changes, outages>>
      BY <1>11 DEF Listings!vars, Listings!input, Listings!lists, Listings!site
    <2>2. Undisturbed' => Undisturbed
      BY <2>1 DEF Undisturbed, Listings!LooksEmpty
    <2>3. \A p : Failed(p)' = Failed(p)
      BY <2>1 DEF Failed
    <2>4. Listings!Target' = Listings!Target
      BY <2>1 DEF Listings!Target
    <2> QED
      BY <1>a, <2>1, <2>2, <2>3, <2>4 DEF PagesAreSeen, InPage
  <1> QED
    BY <1>1, <1>2, <1>3, <1>4, <1>5, <1>7, <1>8, <1>9, <1>10, <1>11 DEF Listings!Next, Listings!Run

LEMMA ListsStart == Listings!Init => ListsInv /\ ListsAgree /\ Listings!AppliedIsRecorded /\ SeenIsScanned /\ PagesAreSeen
  <1> SUFFICES ASSUME Listings!Init
               PROVE  ListsInv /\ ListsAgree /\ Listings!AppliedIsRecorded /\ SeenIsScanned /\ PagesAreSeen
    OBVIOUS
  <1>1. /\ tool \in Tools /\ dry \in BOOLEAN /\ limit \in 1..MaxLimit /\ pc = "page" /\ page = 1
        /\ queue = <<>> /\ seen = {} /\ job = NoJob /\ scanned = <<>> /\ applied = <<>> /\ skipped = <<>>
        /\ blocked = FALSE /\ listing = Listed /\ closed = {} /\ changes = 0 /\ outages = {}
        /\ sends = [j \in Jobs |-> 0]
    BY DEF Listings!Init
  <1>2. recorded \in SUBSET Jobs /\ known \in SUBSET Jobs
    <2>1. recorded \in {{}} \cup {{Listed[i]} : i \in DOMAIN Listed \cap {1}}
          /\ known = IF tool = "tasker_apply" THEN recorded ELSE {}
      BY DEF Listings!Init
    <2>2. \A i \in DOMAIN Listed \cap {1} : Listed[i] \in Jobs
      BY SizesAreRight
    <2> QED
      BY <2>1, <2>2
  <1>3. ToSet(<<>>) = {} /\ Len(<<>>) = 0
    BY EmptyPage
  <1>4. ListsInv
    <2>1. /\ page \in 1..MaxPages + 1 /\ changes \in 0..MaxChanges /\ sends \in [Jobs -> Nat]
          /\ queue \in Seq(Jobs) /\ listing \in Seq(Jobs) /\ scanned \in Seq(Jobs) /\ applied \in Seq(Jobs)
          /\ skipped \in Seq(Jobs)
      BY <1>1, EmptyPage, BoundsAreRight, SizesAreRight
    <2>2. outages \subseteq [page : 1..MaxPages, way : {"failed", "blank"}]
      BY <1>1
    <2> QED
      BY <1>1, <1>2, <2>1, <2>2 DEF ListsInv, Listings!TypeOK, InPage
  <1>5. ListsAgree
    BY <1>1, <1>3 DEF ListsAgree, Awaited
  <1>6. Listings!AppliedIsRecorded
    BY <1>1, <1>3, SameSets DEF Listings!AppliedIsRecorded
  <1>7. SeenIsScanned
    BY <1>1 DEF SeenIsScanned
  <1>8. PagesAreSeen
    BY <1>1 DEF PagesAreSeen, InPage
  <1> QED
    BY <1>4, <1>5, <1>6, <1>7, <1>8

\* What holds of the lists all along.
ListsHold == ListsInv /\ ListsAgree /\ Listings!AppliedIsRecorded /\ SeenIsScanned /\ PagesAreSeen

LEMMA ListsAlways == FlowsSpec => []ListsHold
  <1>1. FlowsInit => ListsHold
    BY ListsStart DEF FlowsInit, ListsHold
  <1>2. ListingInv /\ ListsHold /\ [FlowsNext]_allVars => ListsHold'
    BY ListingActs, ListsTyped, ListsAgreeKept, RecordedKept, SeenKept, PagesSeenKept DEF ListsHold
  <1> QED
    BY <1>1, <1>2, ListingAlways, PTL DEF FlowsSpec

\* What holds all along is what a reader of the lists may rely on.
LEMMA ListsTell ==
  ASSUME ListingInv, ListsHold
  PROVE  Listings!EachListedOnce /\ Listings!AppliedIsRecorded /\ Listings!LoadedIsScanned
  <1>1. Listings!EachListedOnce
    <2> SUFFICES ASSUME pc # "form", pc # "sent"
                 PROVE  /\ ToSet(scanned) = ToSet(applied) \cup ToSet(skipped)
                        /\ tool # "linkedin_apply" => Len(scanned) = Len(applied) + Len(skipped)
      BY SameSets DEF Listings!EachListedOnce
    <2>1. Len(applied) + Len(skipped) \in Nat
      BY DEF ListsHold, ListsInv, Listings!TypeOK
    <2> QED
      BY <2>1 DEF ListsHold, ListsAgree, Awaited
  <1>2. Listings!LoadedIsScanned
    <2> SUFFICES ASSUME pc = "ended", ~Listings!Target, ~blocked, changes = 0,
                        ~(\E o \in outages : Listings!LooksEmpty(o)),
                        NEW p \in 1..MaxPages, \A o \in outages : o.page # p
                 PROVE  ToSet(Listings!PageOf(p)) \subseteq ToSet(scanned)
      BY SameSets DEF Listings!LoadedIsScanned
    <2>1. ToSet(Listings!PageOf(p)) = Entries(p)
      BY PageHasEntries
    <2>2. Undisturbed /\ ~Failed(p)
      BY DEF Undisturbed, Failed
    <2>3. Entries(p) \subseteq seen
      BY <2>2 DEF ListsHold, PagesAreSeen
    <2>4. seen \subseteq ToSet(scanned)
      BY EmptyPage DEF ListsHold, SeenIsScanned
    <2> QED
      BY <2>1, <2>3, <2>4
  <1> QED
    BY <1>1, <1>2 DEF ListsHold

-----------------------------------------------------------------------------
(* The answers to a form.                                                    *)

\* The instance's operators on sets and sequences.
LEMMA SameGateSets ==
  /\ \A s : Gate!ToSet(s) = ToSet(s)
  /\ \A S : Gate!Cardinality(S) = Cardinality(S) /\ Gate!IsFiniteSet(S) = IsFiniteSet(S)
  BY Zenon DEF Gate!ToSet, ToSet, Gate!Cardinality, Cardinality, Gate!IsFiniteSet, IsFiniteSet

Labels == DOMAIN Means

\* What the questions of a form are like.
LEMMA QuestionFacts ==
  ASSUME NEW id \in DOMAIN Questions, NEW q, q = Questions[id]
  PROVE  /\ q.part \in {"question", "block", "survey"} /\ q.options \in Seq(Labels)
         /\ q.part = "block" => q.options = <<>>
         /\ q.part = "question" /\ Gate!Supported(q) =>
              /\ q.options # <<>> => Gate!FieldOf(q).name \in Gate!Custom /\ Gate!FieldOf(q).kind = "select"
              /\ q.topic \in Gate!RightTopics => Gate!FieldOf(q).name \in Gate!Custom
         /\ \A m \in {"Yes", "No"} \cap DOMAIN Means : Means[m] = m
         /\ Profile.authorized \in BOOLEAN /\ Profile.sponsorship \in BOOLEAN
  BY QuestionsAssumption DEF Gate!GateAssumption, Gate!FormAssumption, Labels

LEMMA SequenceFacts ==
  ASSUME NEW S, NEW s \in Seq(S)
  PROVE  Len(s) \in Nat /\ DOMAIN s = 1..Len(s) /\ \A i \in DOMAIN s : s[i] \in S
  OBVIOUS

\* The option that is picked is an option and means what was looked for.
LEMMA PickedOption ==
  ASSUME NEW options \in Seq(Labels), NEW meaning, Gate!ToOption(meaning, options) # Gate!Blank
  PROVE  /\ Gate!ToOption(meaning, options) \in ToSet(options)
         /\ Gate!ToOption(meaning, options) \in Labels
         /\ Means[Gate!ToOption(meaning, options)] = meaning /\ meaning # Gate!Blank
  <1> DEFINE hits == {i \in DOMAIN options : Means[options[i]] = meaning}
             first == CHOOSE i \in hits : \A k \in hits : i <= k
  <1>1. /\ DOMAIN options = 1..Len(options) /\ Len(options) \in Nat
        /\ \A i \in DOMAIN options : options[i] \in Labels
    BY SequenceFacts
  <1>2. meaning # Gate!Blank /\ hits # {} /\ Gate!ToOption(meaning, options) = options[first]
    BY DEF Gate!ToOption
  <1>3. hits \in SUBSET Nat
    BY <1>1
  <1> HIDE DEF hits
  <1>4. \E i \in hits : \A k \in hits : i <= k
    BY <1>2, <1>3, LeastOf
  <1>5. first \in hits
    BY <1>4
  <1>6. first \in DOMAIN options /\ Means[options[first]] = meaning
    BY <1>5 DEF hits
  <1> HIDE DEF first
  <1>7. options[first] \in Labels
    BY <1>1, <1>6
  <1> QED
    BY <1>2, <1>6, <1>7 DEF ToSet

LEMMA OnlyOption ==
  ASSUME NEW options \in Seq(Labels), Len(options) = 1
  PROVE  options[1] \in ToSet(options)
  BY DEF ToSet

\* A select is answered with one of its options, and where the model says nothing and there is
\* more than one option, with what the rule says.
LEMMA SelectsAnOption ==
  ASSUME NEW q, q.options \in Seq(Labels), NEW rule, NEW reply,
         Gate!SelectAnswer(q, rule, reply) # Gate!Blank
  PROVE  /\ Gate!SelectAnswer(q, rule, reply) \in ToSet(q.options)
         /\ reply = Gate!Blank /\ Len(q.options) # 1 /\ q.topic # "identity" =>
              /\ Gate!SelectAnswer(q, rule, reply) \in Labels
              /\ Means[Gate!SelectAnswer(q, rule, reply)] = rule
  <1> DEFINE said == Gate!ToOption(rule, q.options)
             heeded == Gate!ToOption(reply, q.options)
             declined == Gate!ToOption("decline", q.options)
  <1>1. /\ said # Gate!Blank => said \in ToSet(q.options) /\ said \in Labels /\ Means[said] = rule
        /\ heeded # Gate!Blank => heeded \in ToSet(q.options) /\ reply # Gate!Blank
        /\ declined # Gate!Blank => declined \in ToSet(q.options)
    BY PickedOption
  <1>2. Len(q.options) = 1 => q.options[1] \in ToSet(q.options)
    BY OnlyOption
  <1>3. Gate!SelectAnswer(q, rule, reply) =
          IF said # Gate!Blank THEN said
          ELSE IF q.required /\ Len(q.options) = 1 /\ q.options[1] # Gate!Blank THEN q.options[1]
          ELSE IF q.required /\ heeded # Gate!Blank THEN heeded
          ELSE IF q.topic = "identity" /\ q.required THEN declined ELSE Gate!Blank
    <2> HIDE DEF said, heeded, declined
    <2> QED
      BY DEF Gate!SelectAnswer, Gate!RuleOption, Gate!OrElse, said, heeded, declined
  <1> HIDE DEF said, heeded, declined
  <1> QED
    BY <1>1, <1>2, <1>3

\* What is answered to a question about the right to work: yes or no, and nothing that claims
\* a country that is not on the list.
LEMMA RightIsClaimed ==
  ASSUME NEW q, NEW theJob, q.topic \in Gate!RightTopics, Profile.allowed # {},
         q.countries # {} \/ Place[theJob].located,
         Profile.authorized \in BOOLEAN, Profile.sponsorship \in BOOLEAN,
         NEW asked, asked = (IF q.countries # {} THEN q.countries ELSE Place[theJob].countries),
         Gate!RightToWork(q, theJob) # "skip"
  PROVE  /\ Gate!RightToWork(q, theJob) \in {"Yes", "No"}
         /\ Gate!RightToWork(q, theJob) = (IF q.topic = "sponsorship" THEN "No" ELSE "Yes") =>
              asked # {} /\ (asked \subseteq Profile.allowed \/ (q.countries = {} /\ "*" \in asked))
  <1> DEFINE ok == Gate!AuthorizedFor(q, theJob)
             covers == (q.countries = {} /\ "*" \in asked) \/ asked \subseteq Profile.allowed
  <1>1. ok = IF asked = {} THEN "unknown" ELSE IF covers THEN "Yes" ELSE "No"
    BY DEF Gate!AuthorizedFor, Gate!YesNo
  <1> HIDE DEF ok, covers
  <1>2. ok # "unknown"
    BY DEF Gate!RightToWork, ok
  <1>3. CASE q.topic = "sponsorship"
    <2>1. Gate!RightToWork(q, theJob) = IF ok = "No" \/ Profile.sponsorship THEN "Yes" ELSE "No"
      BY <1>2, <1>3 DEF Gate!RightToWork, Gate!YesNo, ok
    <2> QED
      BY <1>1, <1>2, <1>3, <2>1 DEF covers
  <1>4. CASE q.topic = "authorized"
    <2>1. Gate!RightToWork(q, theJob) = IF ok = "Yes" THEN "Yes" ELSE "No"
      BY <1>1, <1>2, <1>4 DEF Gate!RightToWork, Gate!YesNo, ok
    <2> QED
      BY <1>1, <1>2, <1>4, <2>1 DEF covers
  <1>5. CASE q.topic = "unsponsored"
    <2>1. Gate!RightToWork(q, theJob) =
            IF ok = "Yes" /\ ~(ok = "No" \/ Profile.sponsorship) THEN "Yes" ELSE "No"
      BY <1>1, <1>2, <1>5 DEF Gate!RightToWork, Gate!YesNo, ok
    <2> QED
      BY <1>1, <1>2, <1>5, <2>1 DEF covers
  <1> QED
    BY <1>3, <1>4, <1>5 DEF Gate!RightTopics

\* What is answered to a question that a rule or a profile cannot answer comes from the model.
LEMMA RepliesOnlyIfConsulted ==
  ASSUME NEW q, NEW theJob, NEW reply, reply # Gate!Blank => Gate!Consulted(q, theJob)
  PROVE  Gate!Answer(q, theJob, reply) # Gate!Answer(q, theJob, Gate!Blank) =>
           q.required /\ reply # Gate!Blank /\ Gate!Consulted(q, theJob)
  <1>1. CASE reply = Gate!Blank
    BY <1>1
  <1>2. CASE reply # Gate!Blank
    BY <1>2 DEF Gate!Consulted
  <1> QED
    BY <1>1, <1>2

\* Whatever is answered to a question with options is one of them.
LEMMA AnswerIsAnOption ==
  ASSUME NEW id \in DOMAIN Questions, NEW q, q = Questions[id], NEW theJob, NEW reply,
         Gate!Answer(q, theJob, reply) # Gate!Blank
  PROVE  /\ q.options # <<>> => Gate!Answer(q, theJob, reply) \in ToSet(q.options)
         /\ q.part = "survey" => Means[Gate!Answer(q, theJob, reply)] = "decline"
  <1>0. /\ q.part \in {"question", "block", "survey"} /\ q.options \in Seq(Labels)
        /\ q.part = "block" => q.options = <<>>
        /\ q.part = "question" /\ Gate!Supported(q) =>
             (q.options # <<>> => Gate!FieldOf(q).name \in Gate!Custom /\ Gate!FieldOf(q).kind = "select")
    BY QuestionFacts
  <1>1. CASE q.part = "block"
    BY <1>0, <1>1
  <1>2. CASE q.part = "survey"
    <2>1. Gate!Answer(q, theJob, reply) = Gate!ToOption("decline", q.options)
      BY <1>2 DEF Gate!Answer, Gate!Declined
    <2>2. q.options \in Seq(Labels) /\ Gate!ToOption("decline", q.options) # Gate!Blank
      BY <1>0, <2>1
    <2>3. /\ Gate!ToOption("decline", q.options) \in ToSet(q.options)
          /\ Means[Gate!ToOption("decline", q.options)] = "decline"
      BY <2>2, PickedOption, Zenon
    <2> QED
      BY <1>2, <2>1, <2>3
  <1>3. CASE q.part = "question" /\ q.options # <<>>
    <2>1. Gate!Answer(q, theJob, reply) = Gate!AnswerTo(q, theJob, reply)
      BY <1>3 DEF Gate!Answer
    <2>2. Gate!IsOpen(q, theJob) /\ Gate!FieldOf(q).kind = "select"
      BY <1>0, <1>3, <2>1 DEF Gate!AnswerTo, Gate!IsOpen
    <2>3. Gate!Answer(q, theJob, reply) = Gate!SelectAnswer(q, Gate!RuleAnswer(q, theJob), reply)
      BY <2>1, <2>2 DEF Gate!AnswerTo, Gate!IsOpen
    <2>4. q.options \in Seq(Labels) /\ Gate!SelectAnswer(q, Gate!RuleAnswer(q, theJob), reply) # Gate!Blank
      BY <1>0, <2>3
    <2>5. Gate!SelectAnswer(q, Gate!RuleAnswer(q, theJob), reply) \in ToSet(q.options)
      BY <2>4, SelectsAnOption, Zenon
    <2> QED
      BY <1>3, <2>3, <2>5
  <1> QED
    BY <1>0, <1>1, <1>2, <1>3

\* Without a word of the model nothing is claimed of a country that is not on the list.
LEMMA AnswerClaimsNoOther ==
  ASSUME NEW id \in DOMAIN Questions, NEW q, q = Questions[id], q.part = "question", NEW theJob, NEW reply,
         Gate!Answer(q, theJob, reply) # Gate!Blank
  PROVE  Gate!ClaimsNoOther(q, theJob, Gate!Answer(q, theJob, reply), reply)
  <1> DEFINE asked == IF q.countries # {} THEN q.countries ELSE Place[theJob].countries
             answer == Gate!Answer(q, theJob, reply)
             rule == Gate!RightToWork(q, theJob)
             claim == IF answer \in DOMAIN Means THEN Means[answer] ELSE answer
  <1> SUFFICES ASSUME q.topic \in Gate!RightTopics \ DOMAIN Profile.extra, Profile.allowed # {},
                      q.countries # {} \/ Place[theJob].located,
                      claim = IF q.topic = "sponsorship" THEN "No" ELSE "Yes",
                      reply = Gate!Blank, Len(q.options) # 1
               PROVE  asked # {} /\ (asked \subseteq Profile.allowed \/ (q.countries = {} /\ "*" \in asked))
    BY DEF Gate!ClaimsNoOther
  <1>0. /\ q.options \in Seq(Labels)
        /\ Gate!Supported(q) => Gate!FieldOf(q).name \in Gate!Custom
        /\ \A m \in {"Yes", "No"} \cap DOMAIN Means : Means[m] = m
        /\ Profile.authorized \in BOOLEAN /\ Profile.sponsorship \in BOOLEAN
    BY QuestionFacts
  <1>1. Gate!RuleAnswer(q, theJob) = rule
    BY DEF Gate!RuleAnswer
  <1>2. answer = Gate!AnswerTo(q, theJob, reply)
    BY DEF Gate!Answer
  <1> HIDE DEF answer, rule, asked
  <1>3. Gate!IsOpen(q, theJob)
    BY <1>0, <1>2 DEF Gate!AnswerTo, answer
  <1>4. rule # "skip"
    BY <1>1, <1>3 DEF Gate!IsOpen
  <1>5. /\ rule \in {"Yes", "No"}
        /\ rule = (IF q.topic = "sponsorship" THEN "No" ELSE "Yes") =>
             asked # {} /\ (asked \subseteq Profile.allowed \/ (q.countries = {} /\ "*" \in asked))
    <2>1. q.topic \in Gate!RightTopics
      OBVIOUS
    <2> QED
      BY <1>0, <1>4, <2>1, RightIsClaimed DEF rule, asked
  <1>6. claim = rule
    <2>1. CASE Gate!FieldOf(q).kind = "select"
      <3>1. answer = Gate!SelectAnswer(q, rule, reply)
        BY <1>0, <1>1, <1>2, <1>3, <2>1 DEF Gate!AnswerTo, Gate!IsOpen
      <3>2. q.topic # "identity"
        BY DEF Gate!RightTopics
      <3>3. answer # Gate!Blank
        BY DEF answer
      <3>4. q.options \in Seq(Labels) /\ Gate!SelectAnswer(q, rule, reply) # Gate!Blank
        BY <1>0, <3>1, <3>3
      <3>5. reply = Gate!Blank /\ Len(q.options) # 1
        OBVIOUS
      <3>6. /\ Gate!SelectAnswer(q, rule, reply) \in Labels
            /\ Means[Gate!SelectAnswer(q, rule, reply)] = rule
        BY <3>2, <3>4, <3>5, SelectsAnOption
      <3>7. answer \in Labels /\ Means[answer] = rule
        BY <3>1, <3>6
      <3> QED
        BY <3>7 DEF Labels
    <2>2. CASE Gate!FieldOf(q).kind # "select"
      <3>1. answer = Gate!TextAnswer(q, rule, reply)
        BY <1>0, <1>1, <1>2, <1>3, <2>2 DEF Gate!AnswerTo, Gate!IsOpen
      <3>2. answer = rule
        BY <1>5, <3>1 DEF Gate!TextAnswer, Gate!RuleText, Gate!OrElse
      <3> QED
        BY <1>0, <1>5, <3>2
    <2> QED
      BY <2>1, <2>2
  <1> QED
    BY <1>5, <1>6

LEMMA AnswerIsHonest ==
  ASSUME NEW id \in DOMAIN Questions, NEW theJob, NEW reply,
         reply # Gate!Blank => Gate!Consulted(Questions[id], theJob),
         Gate!Answer(Questions[id], theJob, reply) # Gate!Blank
  PROVE  Gate!IsHonest(id, theJob, Gate!Answer(Questions[id], theJob, reply), reply)
  <1> DEFINE q == Questions[id]
             answer == Gate!Answer(q, theJob, reply)
  <1>1. /\ q.options # <<>> => answer \in ToSet(q.options)
        /\ q.part = "survey" => Means[answer] = "decline"
    BY AnswerIsAnOption
  <1>2. q.part = "question" => Gate!ClaimsNoOther(q, theJob, answer, reply)
    BY AnswerClaimsNoOther
  <1>3. answer # Gate!Answer(q, theJob, Gate!Blank) => q.required /\ reply # Gate!Blank /\ Gate!Consulted(q, theJob)
    BY RepliesOnlyIfConsulted
  <1> QED
    BY <1>1, <1>2, <1>3, SameGateSets DEF Gate!IsHonest

\* What a plan holds: the answers there are, and when none is missing, all that are required.
Needed(id) ==
  Questions[id].required /\ (Questions[id].part = "question" => Gate!Supported(Questions[id]))

LEMMA PlanFacts ==
  ASSUME NEW form, NEW theJob, NEW replies, NEW planned, planned = Gate!PlanAnswers(form, theJob, replies)
  PROVE  /\ \A id \in DOMAIN planned.answers :
              /\ id \in form /\ planned.answers[id] = Gate!Answer(Questions[id], theJob, replies[id])
              /\ planned.answers[id] # Gate!Blank
         /\ planned.unanswered = {} => \A id \in form : Needed(id) => id \in DOMAIN planned.answers
  <1> DEFINE answer == [id \in form |-> Gate!Answer(Questions[id], theJob, replies[id])]
             given == {i \in form : answer[i] # Gate!Blank}
  <1>1. /\ planned.answers = [id \in given |-> answer[id]]
        /\ planned.unanswered = {id \in form : Gate!IsUnanswered(Questions[id], answer[id])}
    BY DEF Gate!PlanAnswers
  <1>2. DOMAIN planned.answers = given /\ \A id \in given : planned.answers[id] = answer[id]
    BY <1>1
  <1>3. \A id \in form : answer[id] = Gate!Answer(Questions[id], theJob, replies[id])
    OBVIOUS
  <1>4. ASSUME planned.unanswered = {}, NEW id \in form, Needed(id) PROVE id \in given
    <2>1. ~Gate!IsUnanswered(Questions[id], answer[id])
      BY <1>1, <1>4
    <2> HIDE DEF answer
    <2>2. answer[id] # Gate!Blank
      BY <1>4, <2>1 DEF Gate!IsUnanswered, Needed
    <2> QED
      BY <2>2
  <1>5. \A id \in given : id \in form /\ answer[id] # Gate!Blank
    OBVIOUS
  <1> HIDE DEF answer, given
  <1> QED
    BY <1>2, <1>3, <1>4, <1>5

-----------------------------------------------------------------------------
(* The flows.                                                                *)

\* A job that is applied to was not judged off topic; only the Greenhouse flow fills in a
\* plan, and the plan lacks nothing that is needed.
GateInv ==
  /\ Gate!GateTypeOK /\ left \in Seq(DOMAIN Form)
  /\ step \in {"apply", "fill", "send"} =>
       left # <<>> /\ verdict \notin {"irrelevant", "odd"} /\ outcome # "dropped"
  /\ step = "area" => payload.flow = "tw104_apply"
  /\ step = "fill" => payload.flow = "greenhouse_apply"
  /\ step \in {"fill", "send"} /\ payload.flow = "greenhouse_apply" =>
       \A id \in Form[Gate!Job] : Needed(id) => id \in DOMAIN plan.answers
  /\ Gate!GateFailsOpen /\ Gate!LlmIsLazy /\ Gate!AreaIsKept
  /\ Gate!NothingIsGuessed /\ Gate!SentIsComplete

LEMMA JobAtHand ==
  ASSUME GateInv, left # <<>>
  PROVE  /\ Gate!Job \in DOMAIN Form /\ Form[Gate!Job] \subseteq DOMAIN Questions /\ IsFiniteSet(Form[Gate!Job])
         /\ Tail(left) \in Seq(DOMAIN Form)
  <1> DEFINE Named == DOMAIN Form
  <1>1. left \in Seq(Named)
    BY DEF GateInv
  <1>2. /\ \A j \in DOMAIN Form : Form[j] \subseteq DOMAIN Questions /\ IsFiniteSet(Form[j])
    BY QuestionsAssumption, SameGateSets DEF Gate!GateAssumption
  <1> HIDE DEF Named
  <1>3. Head(left) \in Named /\ Tail(left) \in Seq(Named)
    BY <1>1
  <1> QED
    BY <1>2, <1>3 DEF Gate!Job, Named

\* Once the area has been resolved, the flow neither changes it nor asks for a model again.
LEMMA ScanKeepsRest ==
  ASSUME GateInv, step \in {"scan", "apply", "fill", "send"},
         step' \in {"scan", "apply", "fill", "send", "done", "failed"},
         UNCHANGED <<payload, llm, gate, answerer, area>>
  PROVE  Gate!LlmIsLazy' /\ Gate!AreaIsKept'
  <1>1. Gate!LlmIsLazy'
    BY DEF GateInv, Gate!LlmIsLazy, Gate!Wanted
  <1>2. Gate!AreaIsKept'
    BY DEF GateInv, Gate!AreaIsKept
  <1> QED
    BY <1>1, <1>2

\* A job is left behind.
LEMMA EndKeeps ==
  ASSUME GateInv, step \in {"scan", "apply", "fill", "send"}, left # <<>>, NEW result, Gate!Ends(result),
         result = "dropped" => verdict' \in {"irrelevant", "odd"}, verdict' = "irrelevant" => result = "dropped",
         usage' \in Nat, UNCHANGED <<payload, llm, gate, answerer, area, reported>>
  PROVE  GateInv'
  <1>1. step' = "scan" /\ left' = Tail(left) /\ outcome' = result
    BY DEF Gate!Ends
  <1>2. Gate!LlmIsLazy' /\ Gate!AreaIsKept'
    BY <1>1, ScanKeepsRest
  <1>3. Gate!GateTypeOK' /\ left' \in Seq(DOMAIN Form)
    BY <1>1, JobAtHand DEF GateInv, Gate!GateTypeOK
  <1>4. Gate!GateFailsOpen' /\ Gate!NothingIsGuessed' /\ Gate!SentIsComplete'
    BY <1>1 DEF Gate!GateFailsOpen, Gate!NothingIsGuessed, Gate!SentIsComplete
  <1> QED
    BY <1>1, <1>2, <1>3, <1>4 DEF GateInv

LEMMA PlanKeeps ==
  ASSUME GateInv, Gate!Plan
  PROVE  GateInv'
  <1>0. /\ step = "apply" /\ payload.flow = "greenhouse_apply" /\ left # <<>>
        /\ verdict \notin {"irrelevant", "odd"} /\ outcome # "dropped" /\ usage \in Nat
        /\ UNCHANGED <<payload, llm, gate, answerer, area, verdict, proposal, reported>>
    BY DEF Gate!Plan, GateInv, Gate!GateTypeOK
  <1>1. Gate!Job \in DOMAIN Form /\ Form[Gate!Job] \subseteq DOMAIN Questions /\ IsFiniteSet(Form[Gate!Job])
    BY <1>0, JobAtHand
  <1>2. CASE Gate!Counted(0) /\ Gate!Ends("failed")
    <2>1. usage' \in Nat
      BY <1>0, <1>2 DEF Gate!Counted
    <2> QED
      BY <1>0, <1>2, <2>1, EndKeeps
  <1>3. CASE ~(Gate!Counted(0) /\ Gate!Ends("failed"))
    <2>1. PICK said, replies, planned :
            /\ replies = [id \in Form[Gate!Job] |->
                            IF id \in Gate!Shown /\ said[id] # "failed" THEN said[id] ELSE Gate!Blank]
            /\ planned = Gate!PlanAnswers(Form[Gate!Job], Gate!Job, replies)
            /\ Gate!Counted(Gate!Cardinality({id \in Gate!Shown : said[id] # "failed"}))
            /\ IF planned.unanswered # {} THEN Gate!Ends("unanswered")
               ELSE /\ Gate!GoesTo("fill") /\ plan' = planned /\ heard' = replies
                    /\ UNCHANGED <<unset, outcome>>
      BY <1>3 DEF Gate!Plan
    <2>2. usage' \in Nat
      <3> DEFINE told == {id \in Gate!Shown : said[id] # "failed"}
      <3>1. told \in SUBSET Form[Gate!Job]
        BY DEF Gate!Shown, Gate!Asked
      <3> HIDE DEF told
      <3>2. Cardinality(told) \in Nat
        BY <1>1, <3>1, FS_Subset, FS_CardinalityType
      <3>3. usage' = usage + Cardinality(told)
        BY <2>1, SameGateSets DEF Gate!Counted, told
      <3> QED
        BY <1>0, <3>2, <3>3
    <2>3. CASE planned.unanswered # {}
      BY <1>0, <2>1, <2>2, <2>3, EndKeeps
    <2>4. CASE planned.unanswered = {}
      <3>1. step' = "fill" /\ left' = left /\ plan' = planned /\ heard' = replies /\ outcome' = outcome
        BY <2>1, <2>4 DEF Gate!GoesTo
      <3>2. Gate!Job' = Gate!Job
        BY <3>1 DEF Gate!Job
      <3>3. /\ \A id \in DOMAIN planned.answers :
                 /\ id \in Form[Gate!Job]
                 /\ planned.answers[id] = Gate!Answer(Questions[id], Gate!Job, replies[id])
                 /\ planned.answers[id] # Gate!Blank
            /\ \A id \in Form[Gate!Job] : Needed(id) => id \in DOMAIN planned.answers
        BY <2>1, <2>4, PlanFacts
      <3>4. ASSUME NEW id \in Form[Gate!Job], replies[id] # Gate!Blank
            PROVE  answerer /\ id \notin Unmentioned /\ Gate!Consulted(Questions[id], Gate!Job)
        <4>1. id \in Gate!Shown
          BY <2>1, <3>4
        <4> QED
          BY <4>1, Zenon DEF Gate!Shown, Gate!Asked
      <3>5. \A id \in DOMAIN planned.answers :
              /\ Gate!IsHonest(id, Gate!Job, planned.answers[id], replies[id])
              /\ replies[id] # Gate!Blank => answerer /\ id \notin Unmentioned
        <4> SUFFICES ASSUME NEW id \in DOMAIN planned.answers
                     PROVE  /\ Gate!IsHonest(id, Gate!Job, planned.answers[id], replies[id])
                            /\ replies[id] # Gate!Blank => answerer /\ id \notin Unmentioned
          OBVIOUS
        <4>1. /\ id \in Form[Gate!Job] /\ id \in DOMAIN Questions
              /\ planned.answers[id] = Gate!Answer(Questions[id], Gate!Job, replies[id])
              /\ Gate!Answer(Questions[id], Gate!Job, replies[id]) # Gate!Blank
          BY <1>1, <3>3
        <4>2. replies[id] # Gate!Blank => Gate!Consulted(Questions[id], Gate!Job)
          BY <3>4, <4>1
        <4>3. Gate!IsHonest(id, Gate!Job, Gate!Answer(Questions[id], Gate!Job, replies[id]), replies[id])
          BY <4>1, <4>2, AnswerIsHonest
        <4> QED
          BY <3>4, <4>1, <4>3
      <3>6. Gate!LlmIsLazy' /\ Gate!AreaIsKept'
        BY <1>0, <3>1, ScanKeepsRest
      <3>7. Gate!GateTypeOK' /\ left' \in Seq(DOMAIN Form)
        BY <1>0, <2>2, <3>1 DEF GateInv, Gate!GateTypeOK
      <3>8. Gate!NothingIsGuessed'
        <4>1. \A j : j = Gate!Job => \A id \in DOMAIN planned.answers :
                /\ Gate!IsHonest(id, j, planned.answers[id], replies[id])
                /\ replies[id] # Gate!Blank => answerer /\ id \notin Unmentioned
          BY <3>5
        <4> QED
          BY <1>0, <3>1, <3>2, <4>1 DEF Gate!NothingIsGuessed
      <3>9. Gate!GateFailsOpen' /\ Gate!SentIsComplete'
        BY <1>0, <3>1 DEF GateInv, Gate!GateFailsOpen, Gate!SentIsComplete
      <3>10. \A id \in Form[Gate!Job'] : Needed(id) => id \in DOMAIN plan'.answers
        BY <3>1, <3>2, <3>3
      <3> QED
        BY <1>0, <3>1, <3>6, <3>7, <3>8, <3>9, <3>10 DEF GateInv, Needed
    <2> QED
      BY <2>3, <2>4
  <1> QED
    BY <1>2, <1>3

LEMMA JudgeKeeps ==
  ASSUME GateInv, Gate!Judge
  PROVE  GateInv'
  <1>0. /\ step = "scan" /\ left # <<>> /\ proposal' = "none"
        /\ UNCHANGED <<payload, llm, gate, answerer, area, reported>>
    BY DEF Gate!Judge
  <1>1. usage' \in Nat
    BY DEF Gate!Judge, Gate!Counted, GateInv, Gate!GateTypeOK
  <1>2. CASE Gate!Keeps(verdict')
    <2>1. step' = "apply" /\ left' = left /\ outcome' = "none" /\ verdict' \notin {"irrelevant", "odd"}
      BY <1>2 DEF Gate!Judge, Gate!GoesTo, Gate!Keeps
    <2>2. Gate!LlmIsLazy' /\ Gate!AreaIsKept'
      BY <1>0, <2>1, ScanKeepsRest
    <2>3. Gate!GateTypeOK' /\ left' \in Seq(DOMAIN Form)
      BY <1>0, <1>1, <2>1 DEF GateInv, Gate!GateTypeOK
    <2>4. Gate!GateFailsOpen' /\ Gate!NothingIsGuessed' /\ Gate!SentIsComplete'
      BY <2>1 DEF Gate!GateFailsOpen, Gate!NothingIsGuessed, Gate!SentIsComplete
    <2> QED
      BY <1>0, <2>1, <2>2, <2>3, <2>4 DEF GateInv
  <1>3. CASE ~Gate!Keeps(verdict')
    <2>1. Gate!Ends("dropped") /\ verdict' \in {"irrelevant", "odd"}
      BY <1>3 DEF Gate!Judge, Gate!Keeps
    <2> QED
      BY <1>0, <1>1, <2>1, EndKeeps
  <1> QED
    BY <1>2, <1>3

LEMMA ProposeKeeps ==
  ASSUME GateInv, Gate!Propose
  PROVE  GateInv'
  <1>0. /\ step = "apply" /\ step' = "send" /\ payload.flow # "greenhouse_apply"
        /\ UNCHANGED <<payload, llm, gate, answerer, area, left, verdict, plan, unset, outcome, reported, heard>>
    BY DEF Gate!Propose
  <1>1. usage' \in Nat
    BY DEF Gate!Propose, Gate!Counted, GateInv, Gate!GateTypeOK
  <1>2. Gate!LlmIsLazy' /\ Gate!AreaIsKept'
    BY <1>0, ScanKeepsRest
  <1>3. Gate!GateTypeOK' /\ left' \in Seq(DOMAIN Form)
    BY <1>0, <1>1 DEF GateInv, Gate!GateTypeOK
  <1>4. Gate!GateFailsOpen' /\ Gate!NothingIsGuessed' /\ Gate!SentIsComplete'
    BY <1>0 DEF GateInv, Gate!GateFailsOpen, Gate!NothingIsGuessed, Gate!SentIsComplete
  <1> QED
    BY <1>0, <1>2, <1>3, <1>4 DEF GateInv

LEMMA FillKeeps ==
  ASSUME GateInv, Gate!Fill
  PROVE  GateInv'
  <1>0. /\ step = "fill" /\ left # <<>> /\ payload.flow = "greenhouse_apply" /\ usage \in Nat
        /\ verdict \notin {"irrelevant", "odd"} /\ outcome # "dropped"
        /\ UNCHANGED <<payload, llm, gate, answerer, area, verdict, proposal, usage, reported>>
    BY DEF Gate!Fill, GateInv, Gate!GateTypeOK
  <1>1. PICK failing :
          IF Gate!UnsetIsFatal(failing) THEN Gate!Ends("failed")
          ELSE Gate!GoesTo("send") /\ unset' = failing /\ UNCHANGED <<plan, heard, outcome>>
    BY DEF Gate!Fill
  <1>2. CASE Gate!UnsetIsFatal(failing)
    BY <1>0, <1>1, <1>2, EndKeeps
  <1>3. CASE ~Gate!UnsetIsFatal(failing)
    <2>1. step' = "send" /\ left' = left /\ unset' = failing /\ UNCHANGED <<plan, heard, outcome>>
      BY <1>1, <1>3 DEF Gate!GoesTo
    <2>2. Gate!Job' = Gate!Job
      BY <2>1 DEF Gate!Job
    <2>3. Gate!LlmIsLazy' /\ Gate!AreaIsKept'
      BY <1>0, <2>1, ScanKeepsRest
    <2>4. Gate!GateTypeOK' /\ left' \in Seq(DOMAIN Form)
      BY <1>0, <2>1 DEF GateInv, Gate!GateTypeOK
    <2>5. Gate!GateFailsOpen' /\ Gate!NothingIsGuessed'
      BY <1>0, <2>1 DEF GateInv, Gate!GateFailsOpen, Gate!NothingIsGuessed
    <2>6. \A id \in failing : Questions[id].topic = "location"
      BY <1>3 DEF Gate!UnsetIsFatal
    <2>7. \A id \in Form[Gate!Job] : Needed(id) => id \in DOMAIN plan.answers
      BY <1>0 DEF GateInv
    <2>8. Gate!SentIsComplete'
      BY <2>1, <2>2, <2>6, <2>7 DEF Gate!SentIsComplete, Needed
    <2> QED
      BY <1>0, <2>1, <2>2, <2>3, <2>4, <2>5, <2>7, <2>8 DEF GateInv, Needed
  <1> QED
    BY <1>2, <1>3

LEMMA SendKeeps ==
  ASSUME GateInv, Gate!Send
  PROVE  GateInv'
  <1>1. PICK result \in {"failed", "prepared", "submitted", "unconfirmed"} : Gate!Ends(result)
    <2>1. PICK result \in {"failed"} \cup (IF payload.dry THEN {"prepared"} ELSE {"submitted", "unconfirmed"}) :
            Gate!Ends(result)
      BY DEF Gate!Send
    <2> QED
      BY <2>1
  <1>2. /\ step = "send" /\ left # <<>> /\ verdict \notin {"irrelevant", "odd"} /\ usage \in Nat
        /\ UNCHANGED <<payload, llm, gate, answerer, area, verdict, proposal, usage, reported>>
    BY DEF Gate!Send, GateInv, Gate!GateTypeOK
  <1> QED
    BY <1>1, <1>2, EndKeeps

\* The steps before the scan and those after it.
LEMMA OuterStepsKeep ==
  ASSUME GateInv,
         \/ Gate!ValidatePayload \/ Gate!ResolveArea \/ Gate!Prepare \/ Gate!ToolReturns \/ Gate!ToolRaises
  PROVE  GateInv'
  <1>1. CASE Gate!ValidatePayload
    <2>1. /\ step = "validate" /\ step' \in {"failed", "area", "prepare"}
          /\ step' = "area" => payload.flow = "tw104_apply"
          /\ step' = "prepare" => payload.flow # "tw104_apply"
          /\ UNCHANGED <<payload, llm, gate, answerer, area, left, verdict, proposal, plan, unset, outcome,
                         usage, reported, heard>>
      BY <1>1 DEF Gate!ValidatePayload
    <2>2. Gate!GateTypeOK' /\ Gate!GateFailsOpen' /\ Gate!LlmIsLazy'
      BY <2>1 DEF GateInv, Gate!GateTypeOK, Gate!GateFailsOpen, Gate!LlmIsLazy, Gate!Wanted
    <2>3. Gate!AreaIsKept' /\ Gate!NothingIsGuessed' /\ Gate!SentIsComplete'
      BY <2>1 DEF Gate!AreaIsKept, Gate!NothingIsGuessed, Gate!SentIsComplete
    <2> QED
      BY <2>1, <2>2, <2>3 DEF GateInv
  <1>2. CASE Gate!ResolveArea
    <2>1. /\ step = "area" /\ step' = "prepare" /\ payload.flow = "tw104_apply"
          /\ UNCHANGED <<payload, gate, answerer, left, verdict, proposal, plan, unset, outcome, reported, heard>>
          /\ Gate!Resolved(~(payload.area \subseteq Areas))
      BY <1>2 DEF Gate!ResolveArea, GateInv
    <2>2. usage' \in Nat
      BY <1>2 DEF Gate!ResolveArea, Gate!Counted, GateInv, Gate!GateTypeOK
    <2>3. /\ payload.area \cap Areas \subseteq area'
          /\ payload.area \subseteq Areas => area' = payload.area
      BY <1>2 DEF Gate!ResolveArea
    <2>4. llm' \in {"unasked", "none", "ready"} /\ (llm' # llm => ~(payload.area \subseteq Areas))
      BY <2>1 DEF Gate!Resolved, GateInv, Gate!GateTypeOK
    <2>5. Gate!LlmIsLazy'
      BY <2>1, <2>4 DEF GateInv, Gate!LlmIsLazy, Gate!Wanted
    <2>6. Gate!GateTypeOK' /\ Gate!GateFailsOpen'
      BY <2>1, <2>2, <2>4 DEF GateInv, Gate!GateTypeOK, Gate!GateFailsOpen
    <2>7. Gate!AreaIsKept' /\ Gate!NothingIsGuessed' /\ Gate!SentIsComplete'
      BY <2>1, <2>3 DEF Gate!AreaIsKept, Gate!NothingIsGuessed, Gate!SentIsComplete
    <2> QED
      BY <2>1, <2>5, <2>6, <2>7 DEF GateInv
  <1>3. CASE Gate!Prepare
    <2>1. /\ step = "prepare" /\ step' = "scan" /\ gate' \in BOOLEAN /\ answerer' \in BOOLEAN
          /\ Gate!Resolved(Gate!Wanted)
          /\ UNCHANGED <<payload, area, left, verdict, proposal, plan, unset, outcome, usage, reported, heard>>
      BY <1>3 DEF Gate!Prepare
    <2>2. llm' \in {"unasked", "none", "ready"} /\ (llm' # llm => Gate!Wanted)
      BY <2>1 DEF Gate!Resolved, GateInv, Gate!GateTypeOK
    <2>3. Gate!Wanted' = Gate!Wanted
      BY <2>1 DEF Gate!Wanted
    <2>4. Gate!LlmIsLazy'
      BY <2>1, <2>2, <2>3 DEF GateInv, Gate!LlmIsLazy
    <2>5. Gate!GateTypeOK' /\ Gate!GateFailsOpen'
      BY <2>1, <2>2 DEF GateInv, Gate!GateTypeOK, Gate!GateFailsOpen
    <2>6. Gate!AreaIsKept' /\ Gate!NothingIsGuessed' /\ Gate!SentIsComplete'
      BY <2>1 DEF GateInv, Gate!AreaIsKept, Gate!NothingIsGuessed, Gate!SentIsComplete
    <2> QED
      BY <2>1, <2>4, <2>5, <2>6 DEF GateInv
  <1>4. CASE Gate!ToolReturns \/ Gate!ToolRaises
    <2>1. /\ step = "scan" /\ step' \in {"done", "failed"} /\ reported' \in {usage, reported}
          /\ UNCHANGED <<payload, llm, gate, answerer, area, left, verdict, proposal, plan, unset, outcome,
                         usage, heard>>
      BY <1>4 DEF Gate!ToolReturns, Gate!ToolRaises
    <2>2. Gate!LlmIsLazy' /\ Gate!AreaIsKept'
      BY <2>1, ScanKeepsRest
    <2>3. Gate!GateTypeOK' /\ Gate!GateFailsOpen'
      BY <2>1 DEF GateInv, Gate!GateTypeOK, Gate!GateFailsOpen
    <2>4. Gate!NothingIsGuessed' /\ Gate!SentIsComplete'
      BY <2>1 DEF Gate!NothingIsGuessed, Gate!SentIsComplete
    <2> QED
      BY <2>1, <2>2, <2>3, <2>4 DEF GateInv
  <1> QED
    BY <1>1, <1>2, <1>3, <1>4

LEMMA GateActs == [FlowsNext]_allVars => Gate!Next \/ UNCHANGED flowVars
  BY DEF FlowsNext, allVars, OfGreenhouse, OfListing, OfForm

LEMMA GateAlways == FlowsSpec => []GateInv
  <1>1. FlowsInit => GateInv
    <2> SUFFICES ASSUME FlowsInit PROVE GateInv
      OBVIOUS
    <2>1. /\ step = "validate" /\ llm = "unasked" /\ gate = FALSE /\ answerer = FALSE /\ left = Openings
          /\ verdict = "unasked" /\ outcome = "none" /\ usage = 0 /\ reported = 0
      BY DEF FlowsInit, Gate!Init
    <2>2. Openings \in Seq(DOMAIN Form)
      BY QuestionsAssumption DEF Gate!GateAssumption
    <2>3. Gate!GateTypeOK /\ Gate!GateFailsOpen /\ Gate!LlmIsLazy
      BY <2>1 DEF Gate!GateTypeOK, Gate!GateFailsOpen, Gate!LlmIsLazy
    <2>4. Gate!AreaIsKept /\ Gate!NothingIsGuessed /\ Gate!SentIsComplete
      BY <2>1 DEF Gate!AreaIsKept, Gate!NothingIsGuessed, Gate!SentIsComplete
    <2> QED
      BY <2>1, <2>2, <2>3, <2>4 DEF GateInv
  <1>2. GateInv /\ [FlowsNext]_allVars => GateInv'
    <2> SUFFICES ASSUME GateInv, [FlowsNext]_allVars PROVE GateInv'
      OBVIOUS
    <2>1. CASE Gate!Next
      BY <2>1, OuterStepsKeep, JudgeKeeps, ProposeKeeps, PlanKeeps, FillKeeps, SendKeeps DEF Gate!Next
    <2>2. CASE UNCHANGED flowVars
      BY <2>2 DEF flowVars, GateInv, Needed, Gate!GateTypeOK, Gate!GateFailsOpen, Gate!LlmIsLazy, Gate!Wanted,
         Gate!AreaIsKept, Gate!NothingIsGuessed, Gate!SentIsComplete, Gate!Job
    <2> QED
      BY <2>1, <2>2, GateActs
  <1> QED
    BY <1>1, <1>2, PTL DEF FlowsSpec

-----------------------------------------------------------------------------
(* The fields of a form at LinkedIn.                                         *)

LEMMA SameModalSets == \A s : Modal!ToSet(s) = ToSet(s)
  BY Zenon DEF Modal!ToSet, ToSet

Options == {"yes", "no", "own", "abroad"}

\* What the script writes by itself, and all that a field can hold.
Written == Options \cup {"years", "0", "1", "see my profile", "checked"}
Values == STRING \cup Written \cup {Modal!Blank, Modal!Placeholder}
Data == Values \ {Modal!Placeholder}

Fields ==
  [kind : {"text", "number", "select", "radio", "textarea", "checkbox"}, topic : STRING,
   required : BOOLEAN, value : Values, invalid : BOOLEAN, fussy : BOOLEAN, options : Seq(Options)]

\* What a profile gives is never the placeholder.
People == [phone : Data, nationality : Data, place : Data]

LEMMA SpecialValues ==
  Modal!Blank \in Values /\ Modal!Placeholder \in Values /\ Modal!Blank \in Data
  <1>1. Modal!Blank # Modal!Placeholder
    BY Zenon DEF Modal!Blank, Modal!Placeholder
  <1> QED
    BY <1>1 DEF Values, Data

\* Nothing that it writes is empty or the placeholder.
LEMMA WrittenIsGood == Written \subseteq Data \ {Modal!Blank}
  <1>1. \A v \in Written : v # Modal!Placeholder
    BY DEF Written, Options, Modal!Placeholder
  <1>2. \A v \in Written : v # Modal!Blank
    BY Zenon DEF Written, Options, Modal!Blank
  <1> QED
    BY <1>1, <1>2 DEF Values, Data

LEMMA FieldFacts ==
  ASSUME NEW f \in Fields
  PROVE  /\ f.kind \in {"text", "number", "select", "radio", "textarea", "checkbox"} /\ f.topic \in STRING
         /\ f.required \in BOOLEAN /\ f.value \in Values /\ f.invalid \in BOOLEAN /\ f.fussy \in BOOLEAN
         /\ f.options \in Seq(Options)
  BY DEF Fields

\* A field with another value, or marked anew.
SameQuestion(f, g) ==
  /\ g.kind = f.kind /\ g.topic = f.topic /\ g.required = f.required /\ g.fussy = f.fussy
  /\ g.options = f.options

LEMMA FieldRefilled ==
  ASSUME NEW f \in Fields, NEW v \in Values, NEW g, g = [f EXCEPT !.value = v]
  PROVE  g \in Fields /\ g.value = v /\ g.invalid = f.invalid /\ SameQuestion(f, g)
  BY DEF Fields, SameQuestion

LEMMA FieldMarked ==
  ASSUME NEW f \in Fields, NEW b \in BOOLEAN, NEW g, g = [f EXCEPT !.invalid = b]
  PROVE  g \in Fields /\ g.value = f.value /\ g.invalid = b /\ SameQuestion(f, g)
  BY DEF Fields, SameQuestion

LEMMA YesOrNoIsAnOption ==
  ASSUME NEW f \in Fields, f.options # <<>>
  PROVE  /\ Modal!YesOrNo(f) \in Options
         /\ f.topic = "sponsorship" /\ "no" \in ToSet(f.options) => Modal!YesOrNo(f) = "no"
  <1>1. f.options \in Seq(Options)
    BY FieldFacts
  <1>2. f.options[1] \in Options
    BY <1>1
  <1>3. "no" \in Options /\ "yes" \in Options
    BY DEF Options
  <1> QED
    BY <1>2, <1>3, SameModalSets DEF Modal!YesOrNo

\* What the script would write into a text field, and when it has something to write.
LEMMA TextForFacts ==
  ASSUME NEW f \in Fields, NEW p \in People
  PROVE  /\ Modal!TextFor(f, p) \in Data
         /\ (/\ f.topic # "email"
             /\ f.required \/ f.topic \in {"phone", "nationality", "salary", "place", "years"}
             /\ f.topic = "phone" => p.phone # Modal!Blank
             /\ f.topic = "nationality" => p.nationality # Modal!Blank
             /\ f.topic = "place" => p.place # Modal!Blank) => Modal!TextFor(f, p) # Modal!Blank
  <1>1. "0" \in Data \ {Modal!Blank} /\ "years" \in Data \ {Modal!Blank} /\ Modal!Blank \in Data
    BY WrittenIsGood, SpecialValues DEF Written
  <1>2. p.phone \in Data /\ p.nationality \in Data /\ p.place \in Data
    BY DEF People
  <1>3. CASE f.topic = "phone"
    BY <1>2, <1>3 DEF Modal!TextFor
  <1>4. CASE f.topic = "email"
    BY <1>1, <1>4 DEF Modal!TextFor
  <1>5. CASE f.topic = "nationality"
    BY <1>2, <1>5 DEF Modal!TextFor
  <1>6. CASE f.topic = "salary"
    BY <1>1, <1>6 DEF Modal!TextFor
  <1>7. CASE f.topic = "place"
    BY <1>2, <1>7 DEF Modal!TextFor
  <1>8. CASE f.topic \notin {"phone", "email", "nationality", "salary", "place"}
    <2>1. Modal!TextFor(f, p) = IF f.topic = "years" \/ f.required THEN "years" ELSE Modal!Blank
      BY <1>8 DEF Modal!TextFor
    <2> QED
      BY <1>1, <1>8, <2>1
  <1> QED
    BY <1>3, <1>4, <1>5, <1>6, <1>7, <1>8

\* What a field may hold, given what it was: what was accepted is kept and not marked, nothing is
\* claimed, and neither a blank nor a placeholder comes up anew.
Holds(was, is, p) ==
  /\ SameQuestion(was, is)
  /\ was.value # Modal!Blank /\ Modal!IsValid(was) /\ was.kind # "checkbox" => is.value = was.value /\ ~is.invalid
  /\ Modal!ClaimsNothing(was, is, p)
  /\ is.value = Modal!Placeholder => was.value = Modal!Placeholder
  /\ is.value = Modal!Blank => was.value = Modal!Blank

\* What the script may put in place of what a field holds.
Enters(was, f, v, p) ==
  /\ v \in Values
  /\ v = Modal!Placeholder => f.value = Modal!Placeholder
  /\ v = Modal!Blank => f.value = Modal!Blank
  /\ f.value \notin {Modal!Blank, Modal!Placeholder} /\ ~f.invalid /\ f.kind # "checkbox" => v = f.value
  /\ f.kind = "select" /\ Modal!IsCountry(f, p) => v \in {f.value, "own"}
  /\ f.kind \in {"select", "radio"} /\ f.topic = "sponsorship" /\ "no" \in ToSet(f.options) => v \in {f.value, "no"}
  /\ Modal!HasAnswer(was, p) => v # Modal!Placeholder /\ (f.required => v # Modal!Blank)

\* When a question has an answer, and the field holds none.
LEMMA Missing ==
  ASSUME NEW was \in Fields, NEW f \in Fields, NEW p, Holds(was, f, p), Modal!HasAnswer(was, p)
  PROVE  /\ f.value = Modal!Placeholder => f.kind = "text"
         /\ f.value = Modal!Placeholder \/ (f.required /\ f.value = Modal!Blank) =>
              /\ f.kind = "text" => /\ f.topic # "email"
                                    /\ f.required \/ f.topic \in {"phone", "nationality", "salary", "place", "years"}
                                    /\ f.topic = "phone" => p.phone # Modal!Blank
                                    /\ f.topic = "nationality" => p.nationality # Modal!Blank
                                    /\ f.topic = "place" => p.place # Modal!Blank
              /\ f.kind = "select" => f.options # <<>> /\ (Modal!IsCountry(f, p) => "own" \in ToSet(f.options))
  <1>1. /\ f.kind = was.kind /\ f.topic = was.topic /\ f.required = was.required /\ f.fussy = was.fussy
        /\ f.options = was.options
        /\ f.value = Modal!Placeholder => was.value = Modal!Placeholder
        /\ f.value = Modal!Blank => was.value = Modal!Blank
    BY DEF Holds, SameQuestion
  <1>2. Modal!IsCountry(f, p) = Modal!IsCountry(was, p)
    BY <1>1 DEF Modal!IsCountry
  <1> QED
    BY <1>1, <1>2, SameModalSets DEF Modal!HasAnswer

LEMMA TextEntered ==
  ASSUME NEW was \in Fields, NEW f \in Fields, NEW p \in People, Holds(was, f, p), f.kind = "text"
  PROVE  Enters(was, f, Modal!TextAnswer(f, p), p)
  <1> DEFINE t == Modal!TextFor(f, p)
             v == Modal!TextAnswer(f, p)
  <1>1. v = IF (f.value \notin {Modal!Blank, Modal!Placeholder} /\ ~f.invalid) \/ t = Modal!Blank THEN f.value ELSE t
    BY DEF Modal!TextAnswer
  <1>2. t \in Values /\ t # Modal!Placeholder /\ f.value \in Values
    BY TextForFacts, FieldFacts DEF Data
  <1>3. Modal!HasAnswer(was, p) /\ (f.value = Modal!Placeholder \/ (f.required /\ f.value = Modal!Blank)) =>
          t # Modal!Blank
    BY Missing, TextForFacts
  <1>4. Modal!Blank # Modal!Placeholder
    BY SpecialValues DEF Data
  <1> HIDE DEF t, v
  <1>5. v \in Values /\ (v = Modal!Placeholder => f.value = Modal!Placeholder) /\ (v = Modal!Blank => f.value = Modal!Blank)
    BY <1>1, <1>2
  <1>6. f.value \notin {Modal!Blank, Modal!Placeholder} /\ ~f.invalid => v = f.value
    BY <1>1
  <1>7. Modal!HasAnswer(was, p) => v # Modal!Placeholder /\ (f.required => v # Modal!Blank)
    BY <1>1, <1>2, <1>3, <1>4
  <1> QED
    BY <1>5, <1>6, <1>7 DEF Enters, v

LEMMA SelectEntered ==
  ASSUME NEW was \in Fields, NEW f \in Fields, NEW p \in People, Holds(was, f, p), f.kind = "select"
  PROVE  Enters(was, f, Modal!SelectAnswer(f, p), p)
  <1> DEFINE v == Modal!SelectAnswer(f, p)
             choice == Modal!YesOrNo(f)
             country == Modal!IsCountry(f, p)
  <1>1. v = IF f.value # Modal!Blank \/ f.options = <<>> THEN f.value
            ELSE IF ~country THEN choice
            ELSE IF "own" \in ToSet(f.options) THEN "own" ELSE f.value
    BY SameModalSets DEF Modal!SelectAnswer
  <1>2. /\ f.options # <<>> => choice \in Options
        /\ f.options # <<>> /\ f.topic = "sponsorship" /\ "no" \in ToSet(f.options) => choice = "no"
    BY YesOrNoIsAnOption
  <1>3. /\ Options \subseteq Values \ {Modal!Placeholder, Modal!Blank} /\ "own" \in Options /\ f.value \in Values
        /\ Modal!Blank # Modal!Placeholder
    BY WrittenIsGood, FieldFacts, SpecialValues DEF Written, Options, Data
  <1>4. Modal!HasAnswer(was, p) /\ (f.value = Modal!Placeholder \/ (f.required /\ f.value = Modal!Blank)) =>
          /\ f.options # <<>> /\ (country => "own" \in ToSet(f.options))
          /\ f.value # Modal!Placeholder
    BY Missing
  <1>5. f.topic = "sponsorship" => ~country
    BY DEF Modal!IsCountry
  <1> HIDE DEF v, choice, country
  <1>6. v \in Values /\ (v = Modal!Placeholder => f.value = Modal!Placeholder) /\ (v = Modal!Blank => f.value = Modal!Blank)
    BY <1>1, <1>2, <1>3
  <1>7. (f.value # Modal!Blank => v = f.value) /\ (country => v \in {f.value, "own"})
    BY <1>1
  <1>8. f.topic = "sponsorship" /\ "no" \in ToSet(f.options) => v \in {f.value, "no"}
    BY <1>1, <1>2, <1>5
  <1>9. Modal!HasAnswer(was, p) => v # Modal!Placeholder /\ (f.required => v # Modal!Blank)
    BY <1>1, <1>2, <1>3, <1>4
  <1> QED
    BY <1>6, <1>7, <1>8, <1>9 DEF Enters, v, country

LEMMA RadioEntered ==
  ASSUME NEW was \in Fields, NEW f \in Fields, NEW p \in People, Holds(was, f, p), f.kind = "radio",
         f.options # <<>>
  PROVE  Enters(was, f, IF f.value = Modal!Blank THEN Modal!YesOrNo(f) ELSE f.value, p)
  <1> DEFINE choice == Modal!YesOrNo(f)
             v == IF f.value = Modal!Blank THEN choice ELSE f.value
  <1>1. choice \in Options /\ (f.topic = "sponsorship" /\ "no" \in ToSet(f.options) => choice = "no")
    BY YesOrNoIsAnOption
  <1>2. /\ Options \subseteq Values \ {Modal!Placeholder, Modal!Blank} /\ f.value \in Values
        /\ Modal!Blank # Modal!Placeholder
    BY WrittenIsGood, FieldFacts, SpecialValues DEF Written, Data
  <1>3. Modal!HasAnswer(was, p) => f.value # Modal!Placeholder
    BY Missing
  <1> HIDE DEF choice
  <1>4. v \in Values /\ (v = Modal!Placeholder => f.value = Modal!Placeholder) /\ v # Modal!Blank
        /\ (v = Modal!Placeholder => f.value = Modal!Placeholder)
    BY <1>1, <1>2
  <1>5. (f.value # Modal!Blank => v = f.value)
    OBVIOUS
  <1>6. f.topic = "sponsorship" /\ "no" \in ToSet(f.options) => v \in {f.value, "no"}
    BY <1>1
  <1> HIDE DEF v
  <1>7. Enters(was, f, v, p)
    BY <1>3, <1>4, <1>5, <1>6 DEF Enters
  <1> QED
    BY <1>7 DEF v, choice

LEMMA OthersEntered ==
  ASSUME NEW was \in Fields, NEW f \in Fields, NEW p \in People, Holds(was, f, p)
  PROVE  /\ f.kind = "number" => Enters(was, f, Modal!NumberAnswer(f), p)
         /\ f.kind = "textarea" =>
              Enters(was, f, IF f.value = Modal!Blank /\ f.required THEN "see my profile" ELSE f.value, p)
         /\ f.kind = "checkbox" => Enters(was, f, IF f.required THEN "checked" ELSE f.value, p)
  <1>1. /\ f.value \in Values /\ Modal!Blank # Modal!Placeholder
        /\ {"years", "0", "1", "see my profile", "checked"} \subseteq Values \ {Modal!Placeholder, Modal!Blank}
    BY WrittenIsGood, FieldFacts, SpecialValues DEF Written, Data
  <1>2. Modal!HasAnswer(was, p) /\ f.kind # "text" => f.value # Modal!Placeholder
    BY Missing
  <1>3. ASSUME f.kind = "number" PROVE Enters(was, f, Modal!NumberAnswer(f), p)
    <2> DEFINE v == Modal!NumberAnswer(f)
    <2>1. v = f.value \/ v \in {"years", "0", "1"}
      BY DEF Modal!NumberAnswer
    <2>2. f.value # Modal!Blank /\ ~f.invalid => v = f.value
      BY DEF Modal!NumberAnswer
    <2>3. f.value = Modal!Blank => v \in {"years", "0", "1"}
      BY DEF Modal!NumberAnswer
    <2> HIDE DEF v
    <2>4. v \in Values /\ (v = Modal!Placeholder => f.value = Modal!Placeholder) /\ v # Modal!Blank
      BY <1>1, <2>1, <2>3
    <2> QED
      BY <1>2, <1>3, <2>2, <2>4 DEF Enters, v
  <1>4. ASSUME f.kind = "textarea"
        PROVE  Enters(was, f, IF f.value = Modal!Blank /\ f.required THEN "see my profile" ELSE f.value, p)
    BY <1>1, <1>2, <1>4 DEF Enters
  <1>5. ASSUME f.kind = "checkbox" PROVE Enters(was, f, IF f.required THEN "checked" ELSE f.value, p)
    BY <1>1, <1>2, <1>5 DEF Enters
  <1> QED
    BY <1>3, <1>4, <1>5

-----------------------------------------------------------------------------
(* All the lists together, with the types of all modules.                    *)

\* What a run was dispatched to stays what it is.
LEMMA DispatchAlways == FlowsSpec => [](jobType \in JobTypes /\ level \in {"tool", "flow", "form"})
  <1>1. FlowsInit => jobType \in JobTypes /\ level \in {"tool", "flow", "form"}
    BY DEF FlowsInit
  <1>2. /\ jobType \in JobTypes /\ level \in {"tool", "flow", "form"} /\ [FlowsNext]_allVars
        => (jobType \in JobTypes /\ level \in {"tool", "flow", "form"})'
    BY DEF FlowsNext, allVars, OfGreenhouse, OfListing, OfFlow, OfForm, JobTypes
  <1> QED
    BY <1>1, <1>2, PTL DEF FlowsSpec

\* However the listing moves and whatever pages fail to load, what a run has scanned is listed
\* once, as applied or skipped, what it lists as applied is recorded at the site, and a page
\* that fails costs the jobs on it and no others.
THEOREM ListsAreHonestAlways == FlowsSpec => []ListsAreHonest
  <1>1. LedgerInv /\ ListingInv /\ ListsHold /\ GateInv /\ jobType \in JobTypes /\ level \in {"tool", "flow", "form"}
        => ListsAreHonest
    <2> SUFFICES ASSUME LedgerInv, ListingInv, ListsHold, GateInv, jobType \in JobTypes,
                        level \in {"tool", "flow", "form"}
                 PROVE  ListsAreHonest
      OBVIOUS
    <2>1. TypeOK
      BY DEF LedgerInv
    <2>2. Listings!TypeOK
      BY DEF ListsHold, ListsInv
    <2>3. Gate!GateTypeOK
      BY DEF GateInv
    <2>4. FlowsTypeOK
      BY <2>1, <2>2, <2>3 DEF FlowsTypeOK
    <2> QED
      BY <2>4, ListsTell DEF ListsAreHonest
  <1> QED
    BY <1>1, LedgerAlways, ListingAlways, ListsAlways, GateAlways, DispatchAlways, PTL

-----------------------------------------------------------------------------
(* The pages of a form at LinkedIn.                                          *)

\* Whatever may be entered leaves the field as it should be.
LEMMA EnteredHolds ==
  ASSUME NEW was \in Fields, NEW f \in Fields, NEW p \in People, Holds(was, f, p),
         NEW v, Enters(was, f, v, p), NEW g, g = [f EXCEPT !.value = v]
  PROVE  g \in Fields /\ Holds(was, g, p) /\ (Modal!HasAnswer(was, p) => Modal!IsValid(g))
  <1>1. v \in Values
    BY DEF Enters
  <1>2. g \in Fields /\ g.value = v /\ g.invalid = f.invalid /\ SameQuestion(f, g)
    BY <1>1, FieldRefilled
  <1>3. SameQuestion(was, f)
    BY DEF Holds
  <1>4. SameQuestion(was, g)
    BY <1>2, <1>3 DEF SameQuestion
  <1>5. Modal!IsCountry(g, p) = Modal!IsCountry(f, p)
    BY <1>2 DEF SameQuestion, Modal!IsCountry
  <1>6. Modal!ClaimsNothing(was, g, p)
    BY <1>2, <1>5, SameModalSets DEF Holds, Enters, SameQuestion, Modal!ClaimsNothing
  <1>7. was.value # Modal!Blank /\ Modal!IsValid(was) /\ was.kind # "checkbox" => g.value = was.value /\ ~g.invalid
    <2> SUFFICES ASSUME was.value # Modal!Blank, Modal!IsValid(was), was.kind # "checkbox"
                 PROVE  g.value = was.value /\ ~g.invalid
      OBVIOUS
    <2>1. was.value # Modal!Placeholder
      BY DEF Modal!IsValid
    <2>2. f.value = was.value /\ ~f.invalid /\ f.kind # "checkbox"
      BY <1>3 DEF Holds, SameQuestion
    <2> QED
      BY <1>2, <2>1, <2>2 DEF Enters
  <1>8. /\ g.value = Modal!Placeholder => was.value = Modal!Placeholder
        /\ g.value = Modal!Blank => was.value = Modal!Blank
    BY <1>2 DEF Holds, Enters
  <1>9. Modal!HasAnswer(was, p) => Modal!IsValid(g)
    <2> SUFFICES ASSUME Modal!HasAnswer(was, p) PROVE Modal!IsValid(g)
      OBVIOUS
    <2>1. ~was.fussy
      BY DEF Modal!HasAnswer
    <2>2. v # Modal!Placeholder /\ (f.required => v # Modal!Blank)
      BY DEF Enters
    <2> QED
      BY <1>2, <1>3, <2>1, <2>2 DEF SameQuestion, Modal!IsValid
  <1> QED
    BY <1>2, <1>4, <1>6, <1>7, <1>8, <1>9 DEF Holds

LEMMA FilledHolds ==
  ASSUME NEW was \in Fields, NEW f \in Fields, NEW p \in People, Holds(was, f, p),
         f.kind = "radio" => f.options # <<>>
  PROVE  /\ Modal!Filled(f, p) \in Fields /\ Holds(was, Modal!Filled(f, p), p)
         /\ Modal!HasAnswer(was, p) => Modal!IsValid(Modal!Filled(f, p))
  <1>1. f.kind \in {"text", "number", "select", "radio", "textarea", "checkbox"}
    BY FieldFacts
  <1>2. PICK v : Enters(was, f, v, p) /\ Modal!Filled(f, p) = [f EXCEPT !.value = v]
    <2>1. CASE f.kind = "text"
      BY <2>1, TextEntered DEF Modal!Filled
    <2>2. CASE f.kind = "number"
      BY <2>2, OthersEntered DEF Modal!Filled
    <2>3. CASE f.kind = "select"
      BY <2>3, SelectEntered DEF Modal!Filled
    <2>4. CASE f.kind = "radio"
      BY <2>4, RadioEntered DEF Modal!Filled
    <2>5. CASE f.kind = "textarea"
      BY <2>5, OthersEntered DEF Modal!Filled
    <2>6. CASE f.kind = "checkbox"
      BY <2>6, OthersEntered DEF Modal!Filled
    <2> QED
      BY <1>1, <2>1, <2>2, <2>3, <2>4, <2>5, <2>6
  <1> QED
    BY <1>2, EnteredHolds

LEMMA MarkedHolds ==
  ASSUME NEW was \in Fields, NEW f \in Fields, NEW p \in People, Holds(was, f, p),
         NEW g, g = [f EXCEPT !.invalid = ~Modal!IsValid(f)]
  PROVE  g \in Fields /\ Holds(was, g, p)
  <1>1. Modal!IsValid(f) \in BOOLEAN
    BY DEF Modal!IsValid
  <1>2. g \in Fields /\ g.value = f.value /\ g.invalid = ~Modal!IsValid(f) /\ SameQuestion(f, g)
    BY <1>1, FieldMarked
  <1>3. SameQuestion(was, f)
    BY DEF Holds
  <1>4. SameQuestion(was, g)
    BY <1>2, <1>3 DEF SameQuestion
  <1>5. Modal!IsCountry(g, p) = Modal!IsCountry(f, p)
    BY <1>2 DEF SameQuestion, Modal!IsCountry
  <1>6. Modal!ClaimsNothing(was, g, p)
    BY <1>2, <1>5 DEF Holds, SameQuestion, Modal!ClaimsNothing
  <1>7. was.value # Modal!Blank /\ Modal!IsValid(was) /\ was.kind # "checkbox" => g.value = was.value /\ ~g.invalid
    BY <1>2, <1>3 DEF Holds, SameQuestion, Modal!IsValid
  <1> QED
    BY <1>2, <1>4, <1>6, <1>7 DEF Holds

Sheets == Seq(Fields)

\* A page as it was shown and as it is now, and a form of them.
PageFits(was, is, p) ==
  /\ was \in Sheets /\ is \in Sheets /\ Len(is) = Len(was)
  /\ \A i \in 1..Len(is) :
       Holds(was[i], is[i], p) /\ (was[i].kind = "radio" => was[i].options # <<>>)

FormFits(shown, form, p) ==
  /\ shown \in Seq(Sheets) /\ form \in Seq(Sheets) /\ Len(form) = Len(shown)
  /\ \A n \in 1..Len(form) : PageFits(shown[n], form[n], p)

\* The site takes all that has an answer.
Answered(was, is, p) == \A i \in 1..Len(is) : Modal!HasAnswer(was[i], p) => Modal!IsValid(is[i])

LEMMA FieldsOfPage ==
  ASSUME NEW was, NEW is, NEW p, PageFits(was, is, p)
  PROVE  /\ DOMAIN is = 1..Len(is) /\ DOMAIN was = 1..Len(is) /\ Len(is) \in Nat
         /\ \A i \in 1..Len(is) : was[i] \in Fields /\ is[i] \in Fields
  BY DEF PageFits, Sheets

\* A page field by field.
LEMMA PageMade ==
  ASSUME NEW was, NEW is, NEW p, PageFits(was, is, p), NEW new \in [1..Len(is) -> Fields],
         \A i \in 1..Len(is) : Holds(was[i], new[i], p)
  PROVE  new \in Sheets /\ Len(new) = Len(is) /\ PageFits(was, new, p)
  <1>1. DOMAIN is = 1..Len(is) /\ Len(is) \in Nat
    BY FieldsOfPage
  <1>2. new \in Seq(Fields)
    BY <1>1, SeqDef
  <1>3. Len(new) = Len(is)
    BY <1>1, <1>2
  <1> QED
    BY <1>2, <1>3 DEF PageFits, Sheets

LEMMA PageFilled ==
  ASSUME NEW was, NEW is, NEW p \in People, PageFits(was, is, p),
         NEW new, new = [i \in DOMAIN is |-> Modal!Filled(is[i], p)]
  PROVE  new \in Sheets /\ PageFits(was, new, p) /\ Answered(was, new, p)
  <1>1. DOMAIN is = 1..Len(is)
    BY FieldsOfPage
  <1>2. \A i \in 1..Len(is) : new[i] = Modal!Filled(is[i], p)
    BY <1>1
  <1>3. ASSUME NEW i \in 1..Len(is)
        PROVE  /\ new[i] \in Fields /\ Holds(was[i], new[i], p)
               /\ Modal!HasAnswer(was[i], p) => Modal!IsValid(new[i])
    <2>1. was[i] \in Fields /\ is[i] \in Fields
      BY FieldsOfPage
    <2>2. Holds(was[i], is[i], p) /\ (was[i].kind = "radio" => was[i].options # <<>>)
      BY DEF PageFits
    <2>3. is[i].kind = "radio" => is[i].options # <<>>
      BY <2>2 DEF Holds, SameQuestion
    <2> QED
      BY <1>2, <2>1, <2>2, <2>3, FilledHolds
  <1>4. new \in [1..Len(is) -> Fields]
    BY <1>1, <1>3
  <1>5. \A i \in 1..Len(is) : Holds(was[i], new[i], p)
    BY <1>3
  <1>6. new \in Sheets /\ Len(new) = Len(is) /\ PageFits(was, new, p)
    BY <1>4, <1>5, PageMade
  <1> QED
    BY <1>3, <1>6 DEF Answered

LEMMA PageMarked ==
  ASSUME NEW was, NEW is, NEW p \in People, PageFits(was, is, p),
         NEW new, new = [i \in DOMAIN is |-> [is[i] EXCEPT !.invalid = ~Modal!IsValid(is[i])]]
  PROVE  new \in Sheets /\ PageFits(was, new, p)
  <1>1. DOMAIN is = 1..Len(is)
    BY FieldsOfPage
  <1>2. \A i \in 1..Len(is) : new[i] = [is[i] EXCEPT !.invalid = ~Modal!IsValid(is[i])]
    BY <1>1
  <1>3. ASSUME NEW i \in 1..Len(is) PROVE new[i] \in Fields /\ Holds(was[i], new[i], p)
    <2>1. was[i] \in Fields /\ is[i] \in Fields
      BY FieldsOfPage
    <2>2. Holds(was[i], is[i], p)
      BY DEF PageFits
    <2> QED
      BY <1>2, <2>1, <2>2, MarkedHolds
  <1>4. new \in [1..Len(is) -> Fields]
    BY <1>1, <1>3
  <1>5. \A i \in 1..Len(is) : Holds(was[i], new[i], p)
    BY <1>3
  <1> QED
    BY <1>4, <1>5, PageMade

\* A form with one page put in anew.
LEMMA FormMade ==
  ASSUME NEW shown, NEW form, NEW p, FormFits(shown, form, p), NEW n \in 1..Len(form),
         NEW new \in Sheets, PageFits(shown[n], new, p)
  PROVE  LET g == [form EXCEPT ![n] = new]
         IN  g \in Seq(Sheets) /\ Len(g) = Len(form) /\ g[n] = new /\ FormFits(shown, g, p)
  <1> DEFINE g == [form EXCEPT ![n] = new]
  <1>1. form \in Seq(Sheets)
    BY DEF FormFits
  <1>2. g \in Seq(Sheets) /\ Len(g) = Len(form) /\ \A j \in 1..Len(form) : g[j] = IF j = n THEN new ELSE form[j]
    BY <1>1, ExceptSeq
  <1> QED
    BY <1>2 DEF FormFits

-----------------------------------------------------------------------------
(* The funnel of a form at LinkedIn.                                         *)

Ended == {"skipped", "failed", "prepared", "unconfirmed", "submitted", "unanswered"}

Funnel ==
  [stage : {"job", "page", "fill", "press", "sent", "ended"}, shown : Seq(Sheets), form : Seq(Sheets),
   at : Nat, steps : Nat, errors : Nat, profile : People, dry : BOOLEAN, result : {"none"} \cup Ended,
   sends : Nat, recorded : BOOLEAN, broken : BOOLEAN]

\* Nothing goes out before the last page, and one that was filled in lacks no answer there is.
ModalInv ==
  /\ modal \in Funnel
  /\ modal.at \in 1..Len(modal.form)
  /\ FormFits(modal.shown, modal.form, modal.profile)
  /\ modal.stage = "press" /\ ~modal.broken =>
       Answered(modal.shown[modal.at], modal.form[modal.at], modal.profile)
  /\ modal.stage \in {"job", "page", "fill", "press"} => modal.sends = 0 /\ modal.result = "none"
  /\ modal.stage = "sent" => modal.sends = 1 /\ ~modal.dry /\ modal.result = "none"
  /\ Modal!SentForReal /\ Modal!GivenUpForReason

\* The page at hand.
LEMMA PageAtHand ==
  ASSUME ModalInv
  PROVE  /\ modal.form \in Seq(Sheets) /\ modal.profile \in People
         /\ PageFits(modal.shown[modal.at], modal.form[modal.at], modal.profile)
         /\ modal.form[modal.at] \in Sheets
         /\ DOMAIN modal.form[modal.at] = 1..Len(modal.form[modal.at])
         /\ DOMAIN modal.shown[modal.at] = 1..Len(modal.form[modal.at])
  <1>1. modal.profile \in People
    BY DEF ModalInv, Funnel
  <1>2. modal.form \in Seq(Sheets) /\ PageFits(modal.shown[modal.at], modal.form[modal.at], modal.profile)
    BY DEF ModalInv, FormFits
  <1> QED
    BY <1>1, <1>2, FieldsOfPage DEF PageFits

\* What the invariant says of a state with the same form.
LEMMA SameForm ==
  ASSUME ModalInv, modal' \in Funnel, modal'.form = modal.form, modal'.shown = modal.shown,
         modal'.profile = modal.profile, modal'.at \in 1..Len(modal.form)
  PROVE  modal'.at \in 1..Len(modal'.form) /\ FormFits(modal'.shown, modal'.form, modal'.profile)
  BY DEF ModalInv

LEMMA FormStays ==
  ASSUME ModalInv, modal' \in Funnel,
         modal'.form = modal.form, modal'.shown = modal.shown, modal'.profile = modal.profile,
         modal'.at \in 1..Len(modal.form),
         modal'.stage # "press",
         modal'.stage \in {"job", "page", "fill"} => modal'.sends = 0 /\ modal'.result = "none",
         modal'.stage = "sent" => modal'.sends = 1 /\ ~modal'.dry /\ modal'.result = "none",
         modal'.sends <= IF modal'.dry THEN 0 ELSE 1,
         modal'.result = "submitted" => modal'.recorded,
         modal'.result # "unanswered"
  PROVE  ModalInv'
  <1>1. modal'.at \in 1..Len(modal'.form) /\ FormFits(modal'.shown, modal'.form, modal'.profile)
    BY SameForm
  <1>2. (modal.at \in 1..Len(modal.form))' /\ FormFits(modal.shown, modal.form, modal.profile)'
    BY <1>1
  <1> QED
    BY <1>2 DEF ModalInv, Modal!SentForReal, Modal!GivenUpForReason

LEMMA FunnelMoves ==
  ASSUME ModalInv, Modal!OpenModal \/ Modal!WaitForStep \/ Modal!ClickRaises \/ Modal!Submit \/ Modal!Confirm
  PROVE  ModalInv'
  <1>1. /\ modal \in Funnel /\ modal.at \in 1..Len(modal.form)
        /\ modal.stage \in {"job", "page", "fill", "press"} => modal.sends = 0 /\ modal.result = "none"
        /\ modal.stage = "sent" => modal.sends = 1 /\ ~modal.dry /\ modal.result = "none"
    BY DEF ModalInv
  <1>2. modal.sends \in Nat /\ modal.steps \in Nat
    BY <1>1 DEF Funnel
  <1>3. ASSUME NEW r \in Ended \ {"submitted", "unanswered"}, Modal!Ends(modal, r), modal.stage # "sent", modal.stage # "ended"
        PROVE  ModalInv'
    <2>1. modal' = [modal EXCEPT !.stage = "ended", !.result = r]
      BY <1>3 DEF Modal!Ends
    <2>2. modal' \in Funnel
      BY <1>1, <2>1 DEF Funnel
    <2>3. /\ modal'.form = modal.form /\ modal'.shown = modal.shown /\ modal'.profile = modal.profile
          /\ modal'.at = modal.at /\ modal'.stage = "ended" /\ modal'.sends = modal.sends
          /\ modal'.result = r
      BY <1>1, <2>1 DEF Funnel
    <2>4. modal.sends = 0
      BY <1>1, <1>3 DEF Funnel
    <2>5. modal'.sends <= IF modal'.dry THEN 0 ELSE 1
      BY <2>3, <2>4
    <2> QED
      BY <1>1, <1>3, <2>2, <2>3, <2>5, FormStays
  <1>4. ASSUME Modal!OpenModal PROVE ModalInv'
    <2>1. modal.stage = "job"
      BY <1>4 DEF Modal!OpenModal, Modal!At
    <2>2. CASE Modal!Ends(modal, "skipped") \/ Modal!Ends(modal, "failed")
      BY <1>3, <2>1, <2>2 DEF Ended
    <2>3. CASE Modal!To(modal, "page")
      <3>1. modal' = [modal EXCEPT !.stage = "page"]
        BY <2>3 DEF Modal!To
      <3>2. modal' \in Funnel
        BY <1>1, <3>1 DEF Funnel
      <3>3. /\ modal'.form = modal.form /\ modal'.shown = modal.shown /\ modal'.profile = modal.profile
            /\ modal'.at = modal.at /\ modal'.stage = "page" /\ modal'.sends = 0 /\ modal'.result = "none"
        BY <1>1, <2>1, <3>1 DEF Funnel
      <3> QED
        BY <1>1, <3>2, <3>3, FormStays
    <2> QED
      BY <1>4, <2>2, <2>3 DEF Modal!OpenModal
  <1>5. ASSUME Modal!WaitForStep PROVE ModalInv'
    <2>1. modal.stage = "page"
      BY <1>5 DEF Modal!WaitForStep, Modal!At
    <2>2. CASE Modal!Ends(modal, "failed")
      BY <1>3, <2>1, <2>2 DEF Ended
    <2>3. CASE Modal!To([modal EXCEPT !.steps = @ + 1], "fill")
      <3> DEFINE m == [modal EXCEPT !.steps = @ + 1]
      <3>0. modal' = [m EXCEPT !.stage = "fill"]
        BY <2>3 DEF Modal!To
      <3>m. m \in Funnel
        BY <1>1, <1>2 DEF Funnel
      <3>1. modal' = [[modal EXCEPT !.steps = modal.steps + 1] EXCEPT !.stage = "fill"]
        BY <3>0
      <3> HIDE DEF m
      <3>2. modal' \in Funnel
        BY <3>0, <3>m DEF Funnel
      <3>3. /\ modal'.form = modal.form /\ modal'.shown = modal.shown /\ modal'.profile = modal.profile
            /\ modal'.at = modal.at /\ modal'.stage = "fill" /\ modal'.sends = 0 /\ modal'.result = "none"
        BY <1>1, <2>1, <3>1 DEF Funnel
      <3> QED
        BY <1>1, <3>2, <3>3, FormStays
    <2> QED
      BY <1>5, <2>2, <2>3 DEF Modal!WaitForStep
  <1>6. ASSUME Modal!ClickRaises PROVE ModalInv'
    BY <1>3, <1>6 DEF Modal!ClickRaises, Modal!At, Ended
  <1>7. ASSUME Modal!Submit PROVE ModalInv'
    <2>1. modal.stage = "press"
      BY <1>7 DEF Modal!Submit, Modal!At
    <2>2. CASE modal.dry
      BY <1>3, <1>7, <2>1, <2>2 DEF Modal!Submit, Ended
    <2>3. CASE ~modal.dry
      <3>1. PICK taken \in {FALSE, Modal!PageIsValid} :
              Modal!To([modal EXCEPT !.sends = @ + 1, !.recorded = taken], "sent")
        BY <1>7, <2>3 DEF Modal!Submit
      <3>2. taken \in BOOLEAN
        BY <3>1 DEF Modal!PageIsValid
      <3> DEFINE m == [modal EXCEPT !.sends = @ + 1, !.recorded = taken]
      <3>0. modal' = [m EXCEPT !.stage = "sent"]
        BY <3>1 DEF Modal!To
      <3>j. modal \in Funnel /\ modal.sends + 1 \in Nat
        BY <1>1, <1>2
      <3>k. [modal EXCEPT !.sends = @ + 1] \in Funnel
        BY <3>j DEF Funnel
      <3>l. m = [[modal EXCEPT !.sends = @ + 1] EXCEPT !.recorded = taken]
        BY <1>1 DEF Funnel
      <3>m. m \in Funnel
        BY <3>2, <3>k, <3>l DEF Funnel
      <3>3. modal' = [[modal EXCEPT !.sends = modal.sends + 1, !.recorded = taken] EXCEPT !.stage = "sent"]
        BY <3>0
      <3> HIDE DEF m
      <3>4. modal' \in Funnel
        BY <3>0, <3>m DEF Funnel
      <3>5. /\ modal'.form = modal.form /\ modal'.shown = modal.shown /\ modal'.profile = modal.profile
            /\ modal'.at = modal.at /\ modal'.stage = "sent" /\ modal'.sends = 1 /\ modal'.result = "none"
            /\ modal'.dry = modal.dry
        BY <1>1, <2>1, <3>3 DEF Funnel
      <3> QED
        BY <1>1, <2>3, <3>4, <3>5, FormStays
    <2> QED
      BY <2>2, <2>3
  <1>8. ASSUME Modal!Confirm PROVE ModalInv'
    <2>1. modal.stage = "sent"
      BY <1>8 DEF Modal!Confirm, Modal!At
    <2>2. PICK r \in {"unconfirmed", "submitted"} : Modal!Ends(modal, r) /\ (r = "submitted" => modal.recorded)
      BY <1>8 DEF Modal!Confirm
    <2>3. modal' = [modal EXCEPT !.stage = "ended", !.result = r]
      BY <2>2 DEF Modal!Ends
    <2>4. modal' \in Funnel
      BY <1>1, <2>3 DEF Funnel, Ended
    <2>5. /\ modal'.form = modal.form /\ modal'.shown = modal.shown /\ modal'.profile = modal.profile
          /\ modal'.at = modal.at /\ modal'.stage = "ended" /\ modal'.sends = 1 /\ ~modal'.dry
          /\ modal'.result = r /\ modal'.recorded = modal.recorded
      BY <1>1, <2>1, <2>3 DEF Funnel
    <2> QED
      BY <1>1, <2>2, <2>4, <2>5, FormStays
  <1> QED
    BY <1>4, <1>5, <1>6, <1>7, <1>8

LEMMA PageGetsFilled ==
  ASSUME ModalInv, Modal!FillPage
  PROVE  ModalInv'
  <1> DEFINE p == modal.profile
             n == modal.at
             sheet == modal.form[n]
             new == [i \in DOMAIN sheet |-> Modal!Filled(sheet[i], p)]
             g == [modal.form EXCEPT ![n] = new]
  <1>1. /\ modal \in Funnel /\ n \in 1..Len(modal.form) /\ FormFits(modal.shown, modal.form, p)
        /\ modal.stage = "fill" /\ modal.sends = 0 /\ modal.result = "none"
    BY DEF ModalInv, Modal!FillPage, Modal!At
  <1>2. p \in People /\ PageFits(modal.shown[n], sheet, p)
    BY PageAtHand
  <1>3. new \in Sheets /\ PageFits(modal.shown[n], new, p) /\ Answered(modal.shown[n], new, p)
    BY <1>2, PageFilled
  <1>4. CASE Modal!To([modal EXCEPT !.form[modal.at] = new], "press")
    <2> DEFINE m == [modal EXCEPT !.form = g]
    <2>1. modal' = [m EXCEPT !.stage = "press"]
      BY <1>4 DEF Modal!To
    <2> HIDE DEF new
    <2>2. g \in Seq(Sheets) /\ Len(g) = Len(modal.form) /\ g[n] = new /\ FormFits(modal.shown, g, p)
      BY <1>1, <1>3, FormMade
    <2> HIDE DEF g, n, p
    <2>3. m \in Funnel /\ m.form = g
      BY <1>1, <2>2 DEF Funnel
    <2>4. /\ m.shown = modal.shown /\ m.profile = modal.profile /\ m.at = modal.at /\ m.sends = modal.sends
          /\ m.result = modal.result /\ m.dry = modal.dry
      BY <1>1 DEF Funnel
    <2> HIDE DEF m
    <2>5. modal' \in Funnel
      BY <2>1, <2>3 DEF Funnel
    <2>6. /\ modal'.shown = m.shown /\ modal'.profile = m.profile /\ modal'.at = m.at /\ modal'.sends = m.sends
          /\ modal'.result = m.result /\ modal'.dry = m.dry /\ modal'.form = m.form /\ modal'.stage = "press"
      BY <2>1, <2>3 DEF Funnel
    <2>7. modal'.form = g /\ modal'.shown = modal.shown /\ modal'.profile = p /\ modal'.at = n
      BY <2>3, <2>4, <2>6 DEF p, n
    <2>8. modal'.sends = 0 /\ modal'.result = "none" /\ modal'.stage = "press"
      BY <1>1, <2>4, <2>6
    <2>9. /\ (modal.at \in 1..Len(modal.form))'
          /\ FormFits(modal.shown, modal.form, modal.profile)'
          /\ Answered(modal.shown[modal.at], modal.form[modal.at], modal.profile)'
      BY <1>1, <1>3, <2>2, <2>7
    <2> QED
      BY <2>5, <2>8, <2>9 DEF ModalInv, Modal!SentForReal, Modal!GivenUpForReason
  <1>5. CASE Modal!To([modal EXCEPT !.broken = TRUE], "press")
    <2>1. modal' = [[modal EXCEPT !.broken = TRUE] EXCEPT !.stage = "press"]
      BY <1>5 DEF Modal!To
    <2>2. modal' \in Funnel
      BY <1>1, <2>1 DEF Funnel
    <2>3. /\ modal'.form = modal.form /\ modal'.shown = modal.shown /\ modal'.profile = modal.profile
          /\ modal'.at = modal.at /\ modal'.sends = 0 /\ modal'.result = "none" /\ modal'.broken
          /\ modal'.stage = "press"
      BY <1>1, <2>1 DEF Funnel
    <2>4. modal'.at \in 1..Len(modal'.form) /\ FormFits(modal'.shown, modal'.form, modal'.profile)
      BY <1>1, <2>2, <2>3, SameForm
    <2>5. (modal.at \in 1..Len(modal.form))' /\ FormFits(modal.shown, modal.form, modal.profile)'
      BY <2>4
    <2> QED
      BY <2>2, <2>3, <2>5 DEF ModalInv, Modal!SentForReal, Modal!GivenUpForReason
  <1> QED
    BY <1>4, <1>5 DEF Modal!FillPage

LEMMA PageIsTried ==
  ASSUME ModalInv, Modal!Advance
  PROVE  ModalInv'
  <1> DEFINE p == modal.profile
             n == modal.at
             sheet == modal.form[n]
             new == [i \in DOMAIN sheet |-> [sheet[i] EXCEPT !.invalid = ~Modal!IsValid(sheet[i])]]
             g == [modal.form EXCEPT ![n] = new]
             m == [modal EXCEPT !.form = g]
  <1>1. /\ modal \in Funnel /\ n \in 1..Len(modal.form) /\ FormFits(modal.shown, modal.form, p)
        /\ modal.stage = "press" /\ modal.sends = 0 /\ modal.result = "none" /\ n # Len(modal.form)
    BY DEF ModalInv, Modal!Advance, Modal!At, Modal!OnSubmitPage
  <1>2. p \in People /\ PageFits(modal.shown[n], sheet, p) /\ modal.form \in Seq(Sheets)
        /\ DOMAIN sheet = 1..Len(sheet) /\ DOMAIN modal.shown[n] = 1..Len(sheet)
    BY PageAtHand
  <1>3. new \in Sheets /\ PageFits(modal.shown[n], new, p)
    BY <1>2, PageMarked
  <1>4. Modal!Flagged = m
    BY <1>1 DEF Modal!Flagged, Funnel
  <1>5. n \in Nat /\ modal.errors \in Nat /\ Len(modal.form) \in Nat
    BY <1>1, <1>2 DEF Funnel
  <1>6. ~Modal!PageIsValid /\ ~modal.broken =>
          \E i \in DOMAIN modal.shown[n] : ~Modal!HasAnswer(modal.shown[n][i], p)
    BY <1>1, <1>2 DEF ModalInv, Answered, Modal!PageIsValid
  <1> HIDE DEF new
  <1>7. g \in Seq(Sheets) /\ Len(g) = Len(modal.form) /\ FormFits(modal.shown, g, p)
    BY <1>1, <1>3, FormMade
  <1> HIDE DEF g
  <1>8. /\ m \in Funnel /\ m.form = g /\ m.shown = modal.shown /\ m.profile = p /\ m.at = n /\ m.sends = 0
        /\ m.result = "none" /\ m.dry = modal.dry /\ m.errors = modal.errors /\ m.broken = modal.broken
    BY <1>1, <1>7 DEF Funnel
  <1> HIDE DEF m
  <1>9. ASSUME modal' \in Funnel, modal'.form = g, modal'.shown = modal.shown, modal'.profile = p, modal'.at = n,
               modal'.sends = 0, modal'.stage \in {"page", "ended"}, modal'.stage = "page" => modal'.result = "none",
               modal'.result \in {"none", "unanswered"}, modal'.broken = modal.broken,
               ~Modal!PageIsValid
        PROVE  ModalInv'
    <2>1. (modal.at \in 1..Len(modal.form))' /\ FormFits(modal.shown, modal.form, modal.profile)'
      BY <1>1, <1>7, <1>9
    <2>2. Modal!SentForReal'
      BY <1>9 DEF Modal!SentForReal
    <2>3. Modal!GivenUpForReason'
      BY <1>6, <1>9 DEF Modal!GivenUpForReason
    <2> QED
      BY <1>9, <2>1, <2>2, <2>3 DEF ModalInv
  <1>10. CASE Modal!PageIsValid /\ Modal!To([modal EXCEPT !.at = @ + 1], "page")
    <2> DEFINE k == [modal EXCEPT !.at = n + 1]
    <2>1. modal' = [k EXCEPT !.stage = "page"]
      BY <1>10 DEF Modal!To
    <2>2. n + 1 \in Nat /\ n + 1 \in 1..Len(modal.form)
      BY <1>1, <1>5
    <2>3. modal \in Funnel /\ n + 1 \in Nat
      BY <1>1, <2>2
    <2>4. k \in Funnel
      BY <2>3 DEF Funnel
    <2>5. /\ k.form = modal.form /\ k.shown = modal.shown /\ k.profile = modal.profile /\ k.at = n + 1
          /\ k.sends = 0 /\ k.result = "none"
      BY <1>1 DEF Funnel
    <2> HIDE DEF k
    <2>6. modal' \in Funnel
      BY <2>1, <2>4 DEF Funnel
    <2>7. /\ modal'.form = k.form /\ modal'.shown = k.shown /\ modal'.profile = k.profile /\ modal'.at = k.at
          /\ modal'.sends = k.sends /\ modal'.result = k.result /\ modal'.stage = "page"
      BY <2>1, <2>4 DEF Funnel
    <2> QED
      BY <2>2, <2>5, <2>6, <2>7, FormStays
  <1>11. CASE ~Modal!PageIsValid /\ Modal!To(Modal!Flagged, "page")
    <2>1. modal' = [m EXCEPT !.stage = "page"]
      BY <1>4, <1>11 DEF Modal!To
    <2>2. modal' \in Funnel
      BY <1>8, <2>1 DEF Funnel
    <2>3. /\ modal'.form = g /\ modal'.shown = modal.shown /\ modal'.profile = p /\ modal'.at = n
          /\ modal'.sends = 0 /\ modal'.stage = "page" /\ modal'.result = "none" /\ modal'.broken = modal.broken
      BY <1>8, <2>1 DEF Funnel
    <2> QED
      BY <1>9, <1>11, <2>2, <2>3
  <1>12. CASE ~Modal!PageIsValid /\ Modal!Ends(Modal!Flagged, "unanswered")
    <2>1. modal' = [m EXCEPT !.stage = "ended", !.result = "unanswered"]
      BY <1>4, <1>12 DEF Modal!Ends
    <2>2. modal' \in Funnel
      BY <1>8, <2>1 DEF Funnel, Ended
    <2>3. /\ modal'.form = g /\ modal'.shown = modal.shown /\ modal'.profile = p /\ modal'.at = n
          /\ modal'.sends = 0 /\ modal'.stage = "ended" /\ modal'.result = "unanswered" /\ modal'.broken = modal.broken
      BY <1>8, <2>1 DEF Funnel
    <2> QED
      BY <1>9, <1>12, <2>2, <2>3
  <1>13. CASE ~Modal!PageIsValid /\ Modal!To([Modal!Flagged EXCEPT !.errors = @ + 1], "page")
    <2> DEFINE k == [m EXCEPT !.errors = modal.errors + 1]
    <2>1. modal' = [k EXCEPT !.stage = "page"]
      BY <1>4, <1>8, <1>13 DEF Modal!To
    <2>2. m \in Funnel /\ modal.errors + 1 \in Nat
      BY <1>5, <1>8
    <2>3. k \in Funnel
      BY <2>2 DEF Funnel
    <2>4. /\ k.form = g /\ k.shown = modal.shown /\ k.profile = p /\ k.at = n
          /\ k.sends = 0 /\ k.result = "none" /\ k.broken = modal.broken
      BY <1>8 DEF Funnel
    <2> HIDE DEF k
    <2>5. modal' \in Funnel
      BY <2>1, <2>3 DEF Funnel
    <2>6. /\ modal'.form = k.form /\ modal'.shown = k.shown /\ modal'.profile = k.profile /\ modal'.at = k.at
          /\ modal'.sends = k.sends /\ modal'.result = k.result /\ modal'.broken = k.broken /\ modal'.stage = "page"
      BY <2>1, <2>3 DEF Funnel
    <2> QED
      BY <1>9, <1>13, <2>4, <2>5, <2>6
  <1> QED
    BY <1>10, <1>11, <1>12, <1>13 DEF Modal!Advance

\* A form as it was opened fits itself.
LEMMA FormFitsItself ==
  ASSUME NEW form \in Forms, NEW p
  PROVE  form # <<>> /\ FormFits(form, form, p)
  <1>1. /\ form \in Seq(Seq(Modal!Field)) /\ form # <<>>
        /\ \A n \in DOMAIN form : \A i \in DOMAIN form[n] :
             ~form[n][i].invalid /\ (form[n][i].kind = "radio" => form[n][i].options # <<>>)
    BY FormsAssumption DEF Modal!ModalAssumption
  <1>2. Modal!Field \subseteq Fields
    BY DEF Modal!Field, Fields, Values, Options
  <1> DEFINE Raw == Seq(Modal!Field)
  <1>3. form \in Seq(Raw) /\ DOMAIN form = 1..Len(form) /\ Len(form) \in Nat
    BY <1>1
  <1>4. ASSUME NEW n \in 1..Len(form) PROVE PageFits(form[n], form[n], p)
    <2>1. form[n] \in Seq(Modal!Field)
      BY <1>3
    <2>2. /\ DOMAIN form[n] = 1..Len(form[n]) /\ Len(form[n]) \in Nat
          /\ \A i \in 1..Len(form[n]) : form[n][i] \in Modal!Field
      BY <2>1
    <2>3. form[n] \in Sheets
      BY <1>2, <2>2, SeqDef, <2>1 DEF Sheets
    <2>4. ASSUME NEW i \in 1..Len(form[n])
          PROVE  Holds(form[n][i], form[n][i], p) /\ (form[n][i].kind = "radio" => form[n][i].options # <<>>)
      <3>1. ~form[n][i].invalid /\ (form[n][i].kind = "radio" => form[n][i].options # <<>>)
        BY <1>1, <1>3, <2>2
      <3>2. ASSUME NEW f, ~f.invalid PROVE Holds(f, f, p)
        BY <3>2 DEF Holds, SameQuestion, Modal!ClaimsNothing
      <3> QED
        BY <3>1, <3>2
    <2> QED
      BY <2>3, <2>4 DEF PageFits
  <1>5. form \in Seq(Sheets)
    <2>1. \A n \in 1..Len(form) : form[n] \in Sheets
      BY <1>4 DEF PageFits
    <2> QED
      BY <1>3, <2>1, SeqDef
  <1> QED
    BY <1>1, <1>4, <1>5 DEF FormFits

LEMMA ModalStart == Modal!ModalInit => ModalInv
  <1> SUFFICES ASSUME Modal!ModalInit PROVE ModalInv
    OBVIOUS
  <1>1. PICK f \in Forms, p \in Profiles, d \in BOOLEAN :
          modal = [stage |-> "job", shown |-> f, form |-> f, at |-> 1, steps |-> 0, errors |-> 0,
                   profile |-> p, dry |-> d, result |-> "none", sends |-> 0, recorded |-> FALSE, broken |-> FALSE]
    BY DEF Modal!ModalInit
  <1>2. p \in People
    BY FormsAssumption, SpecialValues DEF Modal!ModalAssumption, People, Data, Values, Modal!Placeholder
  <1>3. f # <<>> /\ FormFits(f, f, p)
    BY FormFitsItself
  <1>4. f \in Seq(Sheets)
    BY <1>3 DEF FormFits
  <1>5. 1 \in 1..Len(f)
    BY <1>3, <1>4
  <1>6. modal \in Funnel
    BY <1>1, <1>2, <1>4 DEF Funnel
  <1>7. /\ modal.stage = "job" /\ modal.shown = f /\ modal.form = f /\ modal.at = 1 /\ modal.profile = p
        /\ modal.result = "none" /\ modal.sends = 0
    BY <1>1
  <1> QED
    BY <1>3, <1>5, <1>6, <1>7 DEF ModalInv, Modal!SentForReal, Modal!GivenUpForReason

LEMMA ModalActs == [FlowsNext]_allVars => Modal!ModalNext \/ UNCHANGED modal
  BY DEF FlowsNext, allVars, OfGreenhouse, OfListing, OfFlow

LEMMA ModalAlways == FlowsSpec => []ModalInv
  <1>1. FlowsInit => ModalInv
    BY ModalStart DEF FlowsInit
  <1>2. ModalInv /\ [FlowsNext]_allVars => ModalInv'
    <2> SUFFICES ASSUME ModalInv, [FlowsNext]_allVars PROVE ModalInv'
      OBVIOUS
    <2>1. CASE Modal!ModalNext
      BY <2>1, FunnelMoves, PageGetsFilled, PageIsTried DEF Modal!ModalNext
    <2>2. CASE UNCHANGED modal
      BY <2>2 DEF ModalInv, Modal!SentForReal, Modal!GivenUpForReason
    <2> QED
      BY <2>1, <2>2, ModalActs
  <1> QED
    BY <1>1, <1>2, PTL DEF FlowsSpec

\* What holds of every field is what the site's applicant may rely on.
LEMMA ModalTells ==
  ASSUME ModalInv
  PROVE  Modal!EasyIsHonest
  <1>1. \A n \in DOMAIN modal.form : PageFits(modal.shown[n], modal.form[n], modal.profile)
    BY DEF ModalInv, FormFits
  <1>2. ASSUME NEW n \in DOMAIN modal.form, NEW i \in DOMAIN modal.form[n]
        PROVE  Holds(modal.shown[n][i], modal.form[n][i], modal.profile)
    <2>1. PageFits(modal.shown[n], modal.form[n], modal.profile)
      BY <1>1
    <2>2. i \in 1..Len(modal.form[n])
      BY <2>1, FieldsOfPage
    <2> QED
      BY <2>1, <2>2 DEF PageFits
  <1>3. Modal!PrefilledIsKept
    BY <1>2 DEF Holds, Modal!PrefilledIsKept, Modal!IsKept
  <1>4. Modal!NothingIsClaimed
    BY <1>2 DEF Holds, Modal!NothingIsClaimed
  <1> QED
    BY <1>3, <1>4 DEF ModalInv, Modal!EasyIsHonest

\* Nothing in a form is guessed and no job is dropped for want of a model; no form goes out with
\* a required answer missing; the area asked for is the one searched; and of a form at LinkedIn,
\* whatever its pages, what the site had filled in stays, nothing is claimed that is not so, at
\* most one application goes out and none of a dry run, and it is given up only for a reason.
THEOREM FlowIsHonestAlways == FlowsSpec => []FlowIsHonest
  <1>1. GateInv /\ ModalInv => FlowIsHonest
    BY ModalTells DEF GateInv, FlowIsHonest
  <1> QED
    BY <1>1, GateAlways, ModalAlways, PTL

=============================================================================
