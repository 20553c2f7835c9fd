--------------------------- MODULE RunPagesProofs ---------------------------
(* Proofs about RunPages: the stream of a run, the inputs of the steps of a  *)
(* pipeline, what is read of the steps out of the log, and the listings and  *)
(* figures over the tables, for logs, runs of an id, steps, retries and rows *)
(* of any number.                                                            *)
EXTENDS RunPages, SequenceTheorems, FiniteSetTheorems, WellFoundedInduction, TLAPS

-----------------------------------------------------------------------------
(* The stream of a run.                                                      *)

Line == [run : Nat, no : Nat]
Status == {"pending", "running", "success", "failed"}
Order(s) == CASE s = "pending" -> 1 [] s = "running" -> 2 [] OTHER -> 3

RowOK ==
  row # NoRun => /\ row \in [status : Status, log : Seq(Line)]
                 /\ Len(row.log) <= MaxLog
                 /\ row.status \in Terminal => settled <= Len(row.log)

StreamOK ==
  stream \in [stage : {"closed", "polling", "ended", "gone", "left"}, of : 0..born,
              lastStatus : Status \cup {NoStatus}, lastCount : 0..MaxLog,
              got : Seq(Line), statuses : Seq(Status)]

\* While the id is the stream's: the client has as many entries as the generator
\* has counted, and what it has is what the log begins with.
GotOK ==
  stream.of = born =>
    /\ Len(stream.got) = stream.lastCount
    /\ row # NoRun => /\ stream.lastCount <= Len(row.log)
                      /\ \A i \in 1..Len(stream.got) : stream.got[i] = row.log[i]

\* The status told last is the latest of those told, and none of them is ahead
\* of the run; a stream that goes on has told no end.
ToldOK ==
  stream.of = born =>
    /\ \A i, j \in 1..Len(stream.statuses) :
         i < j => Order(stream.statuses[i]) < Order(stream.statuses[j])
    /\ \A i \in 1..Len(stream.statuses) :
         /\ Order(stream.statuses[i]) <= Order(stream.lastStatus)
         /\ row # NoRun => Order(stream.lastStatus) <= Order(row.status)
    /\ stream.statuses # <<>> => stream.lastStatus # NoStatus
    /\ stream.statuses = <<>> => stream.lastStatus = NoStatus
    /\ stream.stage = "polling" => stream.lastStatus \notin Terminal

\* A stream that has ended had the end of its run before it.
EndedOK ==
  stream.stage = "ended" /\ stream.of = born =>
    /\ row # NoRun => row.status \in Terminal
    /\ settled <= Len(stream.got)

StreamInv ==
  /\ born \in 0..MaxRuns /\ settled \in 0..MaxLog
  /\ RowOK /\ StreamOK /\ GotOK /\ ToldOK /\ EndedOK

LEMMA Bounds == MaxLog \in Nat /\ MaxRuns \in Nat /\ NoStatus \notin Status
  BY StreamAssumption DEF Status

LEMMA StreamInit == Init => StreamInv
  <1> SUFFICES ASSUME Init PROVE StreamInv
    OBVIOUS
  <1>1. 0 \in 0..MaxRuns /\ 0 \in 0..MaxLog
    BY Bounds
  <1>2. <<>> \in Seq(Line) /\ <<>> \in Seq(Status) /\ Len(<<>>) = 0
    OBVIOUS
  <1>3. StreamOK
    BY <1>1, <1>2 DEF Init, Closed, StreamOK
  <1> QED
    BY <1>1, <1>2, <1>3 DEF Init, Closed, StreamInv, RowOK, GotOK, ToldOK, EndedOK

\* A row that comes to have the id is none the stream knows.
LEMMA CreateKeeps == StreamInv /\ Create => StreamInv'
  <1> SUFFICES ASSUME StreamInv, Create PROVE StreamInv'
    OBVIOUS
  <1>1. born \in Nat /\ born' = born + 1 /\ born' \in 0..MaxRuns /\ settled' = 0 /\ 0 \in 0..MaxLog
    BY Bounds DEF StreamInv, Create
  <1>2. row' = [status |-> "pending", log |-> <<>>] /\ stream' = stream
    BY DEF Create
  <1>3. RowOK'
    BY <1>1, <1>2, Bounds DEF RowOK, Status, Terminal
  <1>4. stream.of \in 0..born
    BY DEF StreamInv, StreamOK
  <1>5. stream'.of # born' /\ 0..born \subseteq 0..born'
    BY <1>1, <1>2, <1>4
  <1>6. StreamOK'
    BY <1>2, <1>5 DEF StreamInv, StreamOK
  <1> QED
    BY <1>1, <1>3, <1>5, <1>6 DEF StreamInv, GotOK, ToldOK, EndedOK

\* The row goes on: its log only grows, its status only advances, and a status
\* that ends it stays.
LEMMA RowGoesOn ==
  ASSUME StreamInv, row # NoRun, UNCHANGED <<born, stream>>, settled' \in 0..MaxLog,
         row' \in [status : Status, log : Seq(Line)],
         Len(row.log) <= Len(row'.log), Len(row'.log) <= MaxLog,
         \A i \in 1..Len(row.log) : row'.log[i] = row.log[i],
         Order(row.status) <= Order(row'.status),
         row.status \in Terminal => row'.status \in Terminal /\ settled' = settled,
         row'.status \in Terminal => settled' <= Len(row'.log)
  PROVE  StreamInv'
  <1>1. /\ stream.lastCount \in Nat /\ stream.got \in Seq(Line) /\ stream.statuses \in Seq(Status)
        /\ row.status \in Status /\ row.log \in Seq(Line)
    BY Bounds DEF StreamInv, RowOK, StreamOK
  <1>2. GotOK'
    BY <1>1 DEF StreamInv, GotOK
  <1>3. ToldOK'
    <2>1. \A s : Order(s) \in Nat
      BY DEF Order
    <2> QED
      BY <1>1, <2>1 DEF StreamInv, ToldOK
  <1>4. EndedOK'
    BY DEF StreamInv, EndedOK
  <1> QED
    BY <1>2, <1>3, <1>4 DEF StreamInv, RowOK, StreamOK

LEMMA RowKeeps == StreamInv /\ (Start \/ AppendLog \/ Settle) => StreamInv'
  <1> SUFFICES ASSUME StreamInv, Start \/ AppendLog \/ Settle PROVE StreamInv'
    OBVIOUS
  <1>1. row # NoRun
    BY DEF Start, AppendLog, Settle
  <1>2. /\ row \in [status : Status, log : Seq(Line)] /\ row.log \in Seq(Line) /\ Len(row.log) \in Nat
        /\ Len(row.log) <= MaxLog /\ (row.status \in Terminal => settled <= Len(row.log))
        /\ settled \in 0..MaxLog /\ born \in Nat
    BY <1>1, Bounds DEF StreamInv, RowOK
  <1>3. CASE Start
    <2>1. row' = [row EXCEPT !.status = "running"] /\ row.status = "pending"
          /\ UNCHANGED <<born, settled, stream>>
      BY <1>3 DEF Start
    <2>2. row' \in [status : Status, log : Seq(Line)] /\ row'.log = row.log /\ row'.status = "running"
      BY <1>2, <2>1 DEF Status
    <2> QED
      BY <1>1, <1>2, <2>1, <2>2, RowGoesOn DEF Order, Terminal
  <1>4. CASE AppendLog
    <2> DEFINE line == [run |-> born, no |-> Len(row.log) + 1]
               lines == Append(row.log, line)
    <2>1. row' = [row EXCEPT !.log = lines] /\ Len(row.log) < MaxLog /\ UNCHANGED <<born, settled, stream>>
      BY <1>4 DEF AppendLog
    <2>2. line \in Line
      BY <1>2 DEF Line
    <2> HIDE DEF line
    <2>3. /\ lines \in Seq(Line) /\ Len(lines) = Len(row.log) + 1
          /\ \A i \in 1..Len(row.log) : lines[i] = row.log[i]
      BY <1>2, <2>2
    <2> HIDE DEF lines
    <2>4. row' \in [status : Status, log : Seq(Line)] /\ row'.log = lines /\ row'.status = row.status
      BY <1>2, <2>1, <2>3
    <2>5. Len(row.log) <= Len(row'.log) /\ Len(row'.log) <= MaxLog
      BY <1>2, <2>1, <2>3, <2>4, Bounds
    <2>6. Order(row.status) <= Order(row'.status)
      BY <2>4 DEF Order
    <2>7. \A i \in 1..Len(row.log) : row'.log[i] = row.log[i]
      BY <2>3, <2>4
    <2>8. row'.status \in Terminal => settled' <= Len(row'.log)
      BY <1>2, <2>1, <2>4, <2>5, Bounds
    <2> QED
      BY <1>1, <1>2, <2>1, <2>4, <2>5, <2>6, <2>7, <2>8, RowGoesOn
  <1>5. CASE Settle
    <2>1. PICK s \in Terminal : row' = [row EXCEPT !.status = s]
      BY <1>5 DEF Settle
    <2>2. row.status \notin Terminal /\ settled' = Len(row.log) /\ UNCHANGED <<born, stream>>
      BY <1>5 DEF Settle
    <2>3. row' \in [status : Status, log : Seq(Line)] /\ row'.log = row.log /\ row'.status = s
      BY <1>2, <2>1 DEF Status, Terminal
    <2>4. settled' \in 0..MaxLog
      BY <1>2, <2>2, Bounds
    <2>5. Order(row.status) <= Order(row'.status)
      BY <2>3 DEF Order, Terminal
    <2> QED
      BY <1>1, <1>2, <2>2, <2>3, <2>4, <2>5, RowGoesOn
  <1> QED
    BY <1>3, <1>4, <1>5

LEMMA DeleteKeeps == StreamInv /\ Delete => StreamInv'
  BY DEF StreamInv, Delete, RowOK, StreamOK, GotOK, ToldOK, EndedOK

LEMMA OpenKeeps == StreamInv /\ Open => StreamInv'
  <1> SUFFICES ASSUME StreamInv, Open PROVE StreamInv'
    OBVIOUS
  <1>1. row # NoRun /\ UNCHANGED <<row, born, settled>> /\ born \in Nat /\ 0 \in 0..MaxLog
        /\ row.log \in Seq(Line)
    BY Bounds DEF StreamInv, Open, RowOK
  <1>2. stream' = [stage |-> "polling", of |-> born, lastStatus |-> NoStatus, lastCount |-> 0,
                   got |-> <<>>, statuses |-> <<>>]
    BY DEF Open, Closed
  <1>3. <<>> \in Seq(Line) /\ <<>> \in Seq(Status) /\ Len(<<>>) = 0
    OBVIOUS
  <1>4. StreamOK'
    BY <1>1, <1>2, <1>3 DEF StreamOK
  <1>5. NoStatus \notin Terminal
    BY Bounds DEF Status, Terminal
  <1> QED
    BY <1>1, <1>2, <1>3, <1>4, <1>5 DEF StreamInv, RowOK, GotOK, ToldOK, EndedOK

\* The entries an event brings are those behind the ones counted.
LEMMA NewOnes ==
  ASSUME StreamInv, row # NoRun
  PROVE  LET new == NewEntries(row, stream.lastCount) IN
         /\ new \in Seq(Line)
         /\ stream.lastCount <= Len(row.log) =>
              /\ Len(new) = Len(row.log) - stream.lastCount
              /\ \A i \in 1..Len(new) : new[i] = row.log[stream.lastCount + i]
  <1> DEFINE n == stream.lastCount
             lines == row.log
  <1>1. n \in Nat /\ lines \in Seq(Line) /\ Len(lines) \in Nat
    BY Bounds DEF StreamInv, RowOK, StreamOK
  <1> HIDE DEF n, lines
  <1>2. \A i \in n + 1 .. Len(lines) : lines[i] \in Line
    BY <1>1
  <1>3. /\ SubSeq(lines, n + 1, Len(lines)) \in Seq(Line)
        /\ Len(SubSeq(lines, n + 1, Len(lines))) = IF n + 1 <= Len(lines) THEN Len(lines) - (n + 1) + 1 ELSE 0
        /\ \A i \in 1..Len(lines) - (n + 1) + 1 : SubSeq(lines, n + 1, Len(lines))[i] = lines[n + 1 + i - 1]
    BY <1>1, <1>2, SubSeqProperties
  <1> DEFINE new == SubSeq(lines, n + 1, Len(lines))
  <1>4. new \in Seq(Line)
    BY <1>3
  <1>5. n <= Len(lines) => Len(new) = Len(lines) - n /\ \A i \in 1..Len(new) : new[i] = lines[n + i]
    BY <1>1, <1>3
  <1> QED
    BY <1>4, <1>5 DEF NewEntries, n, lines

\* What a turn of the loop leaves: everything in the log and the status told,
\* each status once.
LEMMA SentIsAll ==
  ASSUME StreamInv, row # NoRun, stream.stage = "polling"
  PROVE  /\ Sent(row) \in [stage : {"polling"}, of : {stream.of}, lastStatus : Status,
                           lastCount : 0..MaxLog, got : Seq(Line), statuses : Seq(Status)]
         /\ Sent(row).lastStatus = row.status
         /\ stream.of = born =>
              /\ Sent(row).lastCount = Len(row.log) /\ Len(Sent(row).got) = Len(row.log)
              /\ \A i \in 1..Len(row.log) : Sent(row).got[i] = row.log[i]
              /\ \A i, j \in 1..Len(Sent(row).statuses) :
                   i < j => Order(Sent(row).statuses[i]) < Order(Sent(row).statuses[j])
              /\ \A i \in 1..Len(Sent(row).statuses) : Order(Sent(row).statuses[i]) <= Order(row.status)
              /\ Sent(row).statuses # <<>>
  <1> DEFINE new == NewEntries(row, stream.lastCount)
             got == stream.got \o new
             told == IF row.status = stream.lastStatus THEN stream.statuses
                     ELSE Append(stream.statuses, row.status)
  <1>1. /\ stream.lastCount \in 0..MaxLog /\ stream.lastCount \in Nat
        /\ stream.got \in Seq(Line) /\ stream.statuses \in Seq(Status)
        /\ stream.lastStatus \in Status \cup {NoStatus} /\ stream.of \in Nat
        /\ row.status \in Status /\ row.log \in Seq(Line) /\ Len(row.log) \in Nat /\ Len(row.log) <= MaxLog
        /\ DOMAIN stream = {"stage", "of", "lastStatus", "lastCount", "got", "statuses"}
    BY Bounds DEF StreamInv, RowOK, StreamOK
  <1>2. new \in Seq(Line) /\ (stream.lastCount <= Len(row.log) =>
              /\ Len(new) = Len(row.log) - stream.lastCount
              /\ \A i \in 1..Len(new) : new[i] = row.log[stream.lastCount + i])
    BY NewOnes
  <1> HIDE DEF new
  <1>3. got \in Seq(Line) /\ Len(got) = Len(stream.got) + Len(new)
        /\ \A i \in 1..Len(stream.got) + Len(new) :
             got[i] = IF i <= Len(stream.got) THEN stream.got[i] ELSE new[i - Len(stream.got)]
    BY <1>1, <1>2, ConcatProperties
  <1>4. /\ told \in Seq(Status)
        /\ row.status # stream.lastStatus =>
             /\ Len(told) = Len(stream.statuses) + 1 /\ told[Len(told)] = row.status
             /\ \A i \in 1..Len(stream.statuses) : told[i] = stream.statuses[i]
    BY <1>1, AppendProperties
  <1> HIDE DEF got
  <1>5. stream.of = born =>
          /\ Len(stream.got) = stream.lastCount /\ stream.lastCount <= Len(row.log)
          /\ \A i \in 1..Len(stream.got) : stream.got[i] = row.log[i]
    BY DEF StreamInv, GotOK
  <1>6. stream.of = born => Len(got) = Len(row.log) /\ \A i \in 1..Len(row.log) : got[i] = row.log[i]
    <2> SUFFICES ASSUME stream.of = born
                 PROVE  Len(got) = Len(row.log) /\ \A i \in 1..Len(row.log) : got[i] = row.log[i]
      OBVIOUS
    <2> DEFINE old == stream.got
               lines == row.log
    <2>0. /\ old \in Seq(Line) /\ new \in Seq(Line) /\ Len(old) <= Len(lines) /\ Len(lines) \in Nat
          /\ Len(new) = Len(lines) - Len(old) /\ Len(got) = Len(old) + Len(new)
          /\ \A i \in 1..Len(new) : new[i] = lines[Len(old) + i]
          /\ \A i \in 1..Len(old) : old[i] = lines[i]
          /\ \A i \in 1..Len(old) + Len(new) :
               got[i] = IF i <= Len(old) THEN old[i] ELSE new[i - Len(old)]
      BY <1>1, <1>2, <1>3, <1>5
    <2> HIDE DEF old, lines
    <2>1. Len(got) = Len(lines) /\ Len(old) \in Nat /\ Len(new) \in Nat
      BY <2>0
    <2>2. ASSUME NEW i \in 1..Len(lines) PROVE got[i] = lines[i]
      <3>1. CASE i <= Len(old)
        BY <2>0, <2>1, <3>1
      <3>2. CASE ~(i <= Len(old))
        <4>1. i - Len(old) \in 1..Len(new) /\ Len(old) + (i - Len(old)) = i
          BY <2>0, <2>1, <3>2
        <4> QED
          BY <2>0, <2>1, <3>2, <4>1
      <3> QED
        BY <3>1, <3>2
    <2> QED
      BY <2>1, <2>2 DEF lines
  <1>7. stream.of = born =>
          /\ \A i, j \in 1..Len(told) : i < j => Order(told[i]) < Order(told[j])
          /\ \A i \in 1..Len(told) : Order(told[i]) <= Order(row.status)
          /\ told # <<>>
    <2> SUFFICES ASSUME stream.of = born
                 PROVE  /\ \A i, j \in 1..Len(told) : i < j => Order(told[i]) < Order(told[j])
                        /\ \A i \in 1..Len(told) : Order(told[i]) <= Order(row.status)
                        /\ told # <<>>
      OBVIOUS
    <2>1. /\ \A i, j \in 1..Len(stream.statuses) :
               i < j => Order(stream.statuses[i]) < Order(stream.statuses[j])
          /\ \A i \in 1..Len(stream.statuses) :
               /\ Order(stream.statuses[i]) <= Order(stream.lastStatus)
               /\ Order(stream.lastStatus) <= Order(row.status)
          /\ stream.statuses # <<>> => stream.lastStatus # NoStatus
          /\ stream.statuses = <<>> => stream.lastStatus = NoStatus
          /\ stream.lastStatus \notin Terminal
      BY DEF StreamInv, ToldOK
    <2>2. \A s : Order(s) \in Nat
      BY DEF Order
    <2>3. CASE row.status = stream.lastStatus
      BY <1>1, <2>1, <2>2, <2>3, Bounds DEF told
    <2>4. CASE row.status # stream.lastStatus
      <3>1. ASSUME stream.statuses # <<>> PROVE Order(stream.lastStatus) < Order(row.status)
        <4>1. stream.lastStatus \in {"pending", "running"} /\ 1 \in 1..Len(stream.statuses)
          BY <1>1, <2>1, <3>1 DEF Status, Terminal
        <4>2. Order(stream.lastStatus) <= Order(row.status)
          BY <2>1, <4>1
        <4> QED
          BY <1>1, <2>4, <4>1, <4>2 DEF Order, Status
      <3> HIDE DEF told
      <3>2. ASSUME NEW i \in 1..Len(stream.statuses)
            PROVE  told[i] = stream.statuses[i] /\ Order(stream.statuses[i]) < Order(row.status)
        <4>1. stream.statuses # <<>>
          BY <1>1
        <4> QED
          BY <1>1, <1>4, <2>1, <2>2, <2>4, <3>1, <4>1
      <3>3. \A i \in 1..Len(told) : i \in 1..Len(stream.statuses) \/ i = Len(stream.statuses) + 1
        BY <1>1, <1>4, <2>4
      <3>4. Len(stream.statuses) \in Nat /\ Len(told) = Len(stream.statuses) + 1
            /\ told[Len(stream.statuses) + 1] = row.status
        BY <1>1, <1>4, <2>4
      <3>5. \A i, j \in 1..Len(told) : i < j => Order(told[i]) < Order(told[j])
        BY <2>1, <3>2, <3>3, <3>4
      <3>6. \A i \in 1..Len(told) : Order(told[i]) <= Order(row.status)
        BY <2>2, <3>2, <3>3, <3>4
      <3> QED
        BY <3>4, <3>5, <3>6
    <2> QED
      BY <2>3, <2>4
  <1> HIDE DEF told
  <1>8. CASE row.status # stream.lastStatus \/ new # <<>>
    <2>1. Sent(row) = [stream EXCEPT !.lastStatus = row.status, !.lastCount = Len(row.log),
                         !.got = got, !.statuses = told]
      BY <1>8 DEF Sent, Event, new, got, told
    <2>2. /\ Sent(row) \in [stage : {"polling"}, of : {stream.of}, lastStatus : Status,
                            lastCount : 0..MaxLog, got : Seq(Line), statuses : Seq(Status)]
          /\ Sent(row).lastStatus = row.status /\ Sent(row).lastCount = Len(row.log)
          /\ Sent(row).got = got /\ Sent(row).statuses = told
      <3>1. Len(row.log) \in 0..MaxLog
        BY <1>1, Bounds
      <3>2. stream \in [stage : {"polling"}, of : {stream.of}, lastStatus : Status \cup {NoStatus},
                        lastCount : 0..MaxLog, got : Seq(Line), statuses : Seq(Status)]
        BY <1>1 DEF StreamInv, StreamOK
      <3> QED
        BY <1>1, <1>3, <1>4, <2>1, <3>1, <3>2
    <2> QED
      BY <1>6, <1>7, <2>2
  <1>9. CASE row.status = stream.lastStatus /\ new = <<>>
    <2>1. Sent(row) = stream
      BY <1>9 DEF Sent, new
    <2>2. stream \in [stage : {"polling"}, of : {stream.of}, lastStatus : Status,
                      lastCount : 0..MaxLog, got : Seq(Line), statuses : Seq(Status)]
      BY <1>1, <1>9 DEF StreamInv, StreamOK
    <2>3. stream.of = born => stream.lastCount = Len(row.log) /\ Len(stream.got) = Len(row.log)
      BY <1>1, <1>2, <1>5, <1>9
    <2>4. told = stream.statuses
      BY <1>9 DEF told
    <2> QED
      BY <1>5, <1>7, <1>9, <2>1, <2>2, <2>3, <2>4
  <1> QED
    BY <1>8, <1>9

LEMMA PollKeeps == StreamInv /\ Poll => StreamInv'
  <1> SUFFICES ASSUME StreamInv, Poll PROVE StreamInv'
    OBVIOUS
  <1>1. stream.stage = "polling" /\ UNCHANGED <<row, born, settled>>
    BY DEF Poll
  <1>2. CASE row = NoRun
    <2>1. stream' = [stream EXCEPT !.stage = "gone"]
      BY <1>2 DEF Poll
    <2> QED
      BY <1>1, <1>2, <2>1 DEF StreamInv, RowOK, StreamOK, GotOK, ToldOK, EndedOK
  <1>3. CASE row # NoRun
    <2> DEFINE sent == Sent(row)
               Sents == [stage : {"polling"}, of : {stream.of}, lastStatus : Status,
                         lastCount : 0..MaxLog, got : Seq(Line), statuses : Seq(Status)]
    <2>1. /\ sent \in Sents /\ sent.lastStatus = row.status
          /\ stream.of = born =>
              /\ sent.lastCount = Len(row.log) /\ Len(sent.got) = Len(row.log)
              /\ \A i \in 1..Len(row.log) : sent.got[i] = row.log[i]
              /\ \A i, j \in 1..Len(sent.statuses) :
                   i < j => Order(sent.statuses[i]) < Order(sent.statuses[j])
              /\ \A i \in 1..Len(sent.statuses) : Order(sent.statuses[i]) <= Order(row.status)
              /\ sent.statuses # <<>>
      BY <1>1, <1>3, SentIsAll
    <2>2. stream' = IF Ends(row) THEN [sent EXCEPT !.stage = "ended"] ELSE sent
      BY <1>3 DEF Poll, LastTurn
    <2> HIDE DEF sent
    <2>3. /\ stream' \in [stage : {"polling", "ended"}, of : {stream.of}, lastStatus : Status,
                          lastCount : 0..MaxLog, got : Seq(Line), statuses : Seq(Status)]
          /\ stream'.stage = IF Ends(row) THEN "ended" ELSE "polling"
          /\ stream'.of = stream.of /\ stream'.lastStatus = sent.lastStatus
          /\ stream'.lastCount = sent.lastCount /\ stream'.got = sent.got
          /\ stream'.statuses = sent.statuses
      BY <2>1, <2>2
    <2>4. /\ row.log \in Seq(Line) /\ Len(row.log) \in Nat /\ row.status \in Status
          /\ (row.status \in Terminal => settled <= Len(row.log))
      BY <1>3 DEF StreamInv, RowOK
    <2>5. row.status # NoStatus
      BY <2>4, Bounds
    <2>6. StreamOK'
      BY <1>1, <2>3 DEF StreamInv, StreamOK
    <2>7. GotOK'
      BY <1>1, <2>1, <2>3, <2>4 DEF GotOK
    <2>8. ToldOK'
      <3>1. \A s : Order(s) \in Nat
        BY DEF Order
      <3> QED
        <4>1. stream'.lastStatus = row.status /\ stream'.statuses = sent.statuses
          BY <2>1, <2>3
        <4>2. stream'.stage = "polling" => stream'.lastStatus \notin Terminal
          BY <2>3, <4>1 DEF Ends
        <4>3. Order(row.status) <= Order(row.status)
          BY <3>1
        <4> QED
          BY <1>1, <2>1, <2>3, <2>5, <4>1, <4>2, <4>3 DEF ToldOK
    <2>9. EndedOK'
      BY <1>1, <2>1, <2>3, <2>4 DEF EndedOK, Ends
    <2> QED
      BY <1>1, <2>6, <2>7, <2>8, <2>9 DEF StreamInv, RowOK
  <1> QED
    BY <1>2, <1>3

LEMMA StreamStep == StreamInv /\ [Next]_vars => StreamInv'
  <1>1. StreamInv /\ Disconnect => StreamInv'
    BY DEF StreamInv, Disconnect, RowOK, StreamOK, GotOK, ToldOK, EndedOK
  <1>2. StreamInv /\ UNCHANGED vars => StreamInv'
    BY DEF StreamInv, vars, RowOK, StreamOK, GotOK, ToldOK, EndedOK
  <1> QED
    BY <1>1, <1>2, CreateKeeps, RowKeeps, DeleteKeeps, OpenKeeps, PollKeeps DEF Next

\* What the invariant says of the client.
LEMMA StreamShows == StreamInv => StreamIsFaithful
  <1> SUFFICES ASSUME StreamInv PROVE StreamIsFaithful
    OBVIOUS
  <1>1. /\ row # NoRun => row.status \in Status /\ row.log \in Seq(Line) /\ Len(row.log) <= MaxLog
        /\ stream.got \in Seq(Line) /\ stream.statuses \in Seq(Status) /\ stream.of \in 0..born
        /\ stream.lastCount \in 0..MaxLog /\ stream.lastStatus \in Status \cup {NoStatus}
        /\ stream.stage \in {"closed", "polling", "ended", "gone", "left"}
        /\ settled \in Nat
    BY Bounds DEF StreamInv, RowOK, StreamOK
  <1>2. ToSet(Statuses) \cup Terminal = Status
    <2>1. DOMAIN Statuses = {1, 2} /\ Statuses[1] = "pending" /\ Statuses[2] = "running"
      BY DEF Statuses
    <2>2. ToSet(Statuses) = {"pending", "running"}
      BY <2>1 DEF ToSet
    <2> QED
      BY <2>2 DEF Terminal, Status
  <1>3. TypeOK
    BY <1>1, <1>2 DEF TypeOK, StreamInv, GotOK
  <1>4. GotIsPrefix
    <2> SUFFICES ASSUME row # NoRun, stream.of = born
                 PROVE  IsPrefix(stream.got, row.log)
      BY DEF GotIsPrefix
    <2> DEFINE got == stream.got
               lines == row.log
               n == Len(stream.got)
    <2>1. /\ got \in Seq(Line) /\ lines \in Seq(Line) /\ n = Len(got) /\ n \in Nat /\ n <= Len(lines)
          /\ \A i \in 1..n : got[i] = lines[i]
      BY <1>1 DEF StreamInv, GotOK
    <2> HIDE DEF got, lines, n
    <2>2. (\A i \in 1..n : got[i] \in Line) /\ (\A i \in 1..n : lines[i] \in Line)
      BY <2>1
    <2>3. /\ SubSeq(got, 1, n) \in Seq(Line) /\ Len(SubSeq(got, 1, n)) = IF 1 <= n THEN n - 1 + 1 ELSE 0
          /\ \A i \in 1..n - 1 + 1 : SubSeq(got, 1, n)[i] = got[1 + i - 1]
      BY <2>1, <2>2, SubSeqProperties
    <2>4. /\ SubSeq(lines, 1, n) \in Seq(Line) /\ Len(SubSeq(lines, 1, n)) = IF 1 <= n THEN n - 1 + 1 ELSE 0
          /\ \A i \in 1..n - 1 + 1 : SubSeq(lines, 1, n)[i] = lines[1 + i - 1]
      BY <2>1, <2>2, SubSeqProperties
    <2> DEFINE a == SubSeq(got, 1, n)
               b == SubSeq(lines, 1, n)
    <2>5. a \in Seq(Line) /\ b \in Seq(Line) /\ Len(a) = n /\ Len(b) = n
      BY <2>1, <2>3, <2>4
    <2>6. \A i \in 1..n : a[i] = b[i]
      BY <2>1, <2>3, <2>4
    <2> HIDE DEF a, b
    <2>7. a = b
      BY <2>5, <2>6, SeqEqual
    <2> QED
      BY <2>1, <2>7 DEF IsPrefix, a, b, got, lines, n
  <1>5. StatusesInOrder
    BY <1>1 DEF StreamInv, ToldOK, Order, StatusesInOrder
  <1>6. EndIsComplete
    BY <1>1 DEF StreamInv, EndedOK, EndIsComplete
  <1> QED
    BY <1>3, <1>4, <1>5, <1>6 DEF StreamIsFaithful

\* stream_run beside everything that writes the row, for a log of any length:
\* while the id is that of its run, the client gets the log from its beginning,
\* no entry twice and none left out, each status once and in order, and at the
\* end of the run all there was.
THEOREM StreamIsFaithfulAlways == PagesSpec => []StreamIsFaithful
  <1>1. PagesInit => StreamInv
    BY StreamInit DEF PagesInit
  <1>2. [PagesNext]_pageVars => [Next]_vars
    BY DEF PagesNext, OfSteps, OfViews, pageVars
  <1> QED
    BY <1>1, <1>2, StreamStep, StreamShows, PTL DEF PagesSpec

-----------------------------------------------------------------------------
(* The steps of a run and what they are given.                               *)

\* A pipeline holds the results of the attempt at hand, and the step at work is
\* the one behind them; a flow at work is in one of its own steps.
StepsInv ==
  /\ Steps!InputsAreFresh
  /\ kind = "flow" => results = <<>> /\ pc # "step" /\ (pc = "inside" => step \in 1..NFlow - 3)
  /\ kind = "pipeline" =>
       /\ \A i \in DOMAIN results : results[i] = attempt
       /\ pc = "inside" => step = Len(results) + 1 /\ step <= NPipeline /\ inputs[step] \subseteq {attempt}

LEMMA StepCount ==
  ASSUME Steps!TypeOK
  PROVE  /\ Steps!N \in Nat /\ NFlow \in Nat /\ NPipeline \in Nat /\ NFlow >= 5 /\ NPipeline >= 2
         /\ kind \in {"flow", "pipeline"}
         /\ kind = "flow" => Steps!N = NFlow
         /\ kind = "pipeline" => Steps!N = NPipeline
         /\ Steps!Step = 1..Steps!N /\ Steps!Verify = Steps!N - 2 /\ Steps!Evaluate = Steps!N - 1
         /\ Steps!Done = Steps!N
         /\ MaxRetries \in Nat /\ MaxLost \in Nat
  BY StepsOfPages DEF Steps!StepsAssumption, Steps!TypeOK, Steps!N, Steps!Step, Steps!Verify, Steps!Evaluate, Steps!Done

LEMMA NotesAreEntries ==
  ASSUME NEW mark \in {"trigger", "start", "completed", "none"}, NEW s \in 0..Steps!N, NEW by \in 0..Steps!N,
         Steps!N \in Nat
  PROVE  Steps!Entry(mark, s, by) \in Steps!Entries /\ Steps!Note(by) \in Steps!Entries
  BY DEF Steps!Entry, Steps!Note, Steps!Entries

\* Short lists of entries.
LEMMA Listed ==
  ASSUME NEW S, NEW a \in S, NEW b \in S
  PROVE  /\ <<>> \in Seq(S) /\ <<a>> \in Seq(S) /\ <<a, b>> \in Seq(S)
         /\ <<a>> \o <<>> \in Seq(S) /\ <<a>> \o <<b>> \in Seq(S) /\ <<>> \o <<a>> \in Seq(S)
  OBVIOUS

\* append_log keeps the log a log, also when a write of several is lost.
LEMMA WritesType ==
  ASSUME Steps!TypeOK, NEW entries \in Seq(Steps!Entries), Steps!Writes(entries)
  PROVE  log' \in Seq(Steps!Entries) /\ lost' \in 0..MaxLost
  <1> DEFINE E == Steps!Entries
  <1>1. log \in Seq(E) /\ lost \in 0..MaxLost /\ MaxLost \in Nat /\ entries \in Seq(E)
    BY StepCount DEF Steps!TypeOK
  <1> HIDE DEF E
  <1>2. CASE log' = log \o entries /\ UNCHANGED lost
    BY <1>1, <1>2, ConcatProperties DEF E
  <1>3. CASE /\ lost < MaxLost /\ lost' = lost + 1
             /\ \E i \in DOMAIN entries : log' = log \o Steps!RemoveAt(entries, i)
    <2>0. PICK i \in DOMAIN entries : log' = log \o Steps!RemoveAt(entries, i)
      BY <1>3
    <2>1. i \in 1..Len(entries) /\ log' = log \o Steps!RemoveAt(entries, i)
      BY <1>1, <2>0
    <2>2. Len(entries) \in Nat /\ \A k \in 1..Len(entries) : entries[k] \in E
      BY <1>1
    <2>3. SubSeq(entries, 1, i - 1) \in Seq(E)
      BY <2>2, SubSeqProperties
    <2>4. SubSeq(entries, i + 1, Len(entries)) \in Seq(E)
      BY <2>2, SubSeqProperties
    <2>5. Steps!RemoveAt(entries, i) \in Seq(E)
      BY <2>3, <2>4, ConcatProperties DEF Steps!RemoveAt
    <2>6. log' \in Seq(E)
      BY <1>1, <2>1, <2>5, ConcatProperties
    <2> QED
      BY <1>1, <1>3, <2>6 DEF E
  <1> QED
    BY <1>2, <1>3 DEF Steps!Writes

LEMMA StepsInit == Steps!Init => StepsInv
  <1> SUFFICES ASSUME Steps!Init PROVE StepsInv
    OBVIOUS
  <1>1. /\ NFlow \in Nat /\ NPipeline \in Nat /\ NFlow >= 5 /\ NPipeline >= 2 /\ MaxRetries \in Nat /\ MaxLost \in Nat
        /\ Kinds \subseteq {"flow", "pipeline"}
    BY StepsOfPages DEF Steps!StepsAssumption
  <1>2. Steps!N \in Nat
    BY <1>1 DEF Steps!N
  <1>3. /\ kind \in Kinds /\ maxRetries \in 0..MaxRetries /\ log = <<>> /\ lost = 0
        /\ status = "running" /\ pc = "begin" /\ attempt = 1 /\ step = 0
        /\ results = <<>> /\ inputs = [s \in Steps!Step |-> {}] /\ finished = {} /\ failedAt = 0
    BY DEF Steps!Init
  <1>4. /\ log \in Seq(Steps!Entries) /\ results \in Seq(1..(MaxRetries + 1)) /\ Len(results) = 0
        /\ inputs \in [Steps!Step -> SUBSET (1..(MaxRetries + 1))]
    BY <1>3
  <1>5. lost \in 0..MaxLost /\ attempt \in 1..(maxRetries + 1) /\ step \in 0..Steps!N /\ failedAt \in 0..Steps!N
        /\ Len(results) <= Steps!N
    BY <1>1, <1>2, <1>3, <1>4
  <1>6. Steps!TypeOK
    BY <1>3, <1>4, <1>5 DEF Steps!TypeOK
  <1>7. DOMAIN results = {}
    BY <1>3
  <1> QED
    BY <1>3, <1>6, <1>7 DEF StepsInv, Steps!InputsAreFresh

\* A step of the run that leaves the inputs of the step at work alone.
LEMMA StepsKept ==
  ASSUME StepsInv, UNCHANGED <<kind, maxRetries, inputs>>,
         log' \in Seq(Steps!Entries), lost' \in 0..MaxLost, status' \in {"running", "success", "failed"},
         pc' \in {"step", "inside", "validate", "evaluate", "ended"},
         attempt' \in 1..(maxRetries + 1), step' \in 0..Steps!N,
         results' \in Seq(1..(MaxRetries + 1)), Len(results') <= Steps!N,
         finished' \subseteq 0..Steps!N, failedAt' \in 0..Steps!N,
         kind = "flow" => results' = <<>> /\ pc' # "step" /\ (pc' = "inside" => step' \in 1..NFlow - 3),
         kind = "pipeline" => pc' # "inside" /\ \A i \in DOMAIN results' : results'[i] = attempt'
  PROVE  StepsInv'
  <1>1. Steps!TypeOK
    BY DEF StepsInv, Steps!InputsAreFresh
  <1>2. Steps!N' = Steps!N /\ Steps!Step' = Steps!Step /\ Steps!Entries' = Steps!Entries
    BY DEF Steps!N, Steps!Step, Steps!Entries
  <1>3. Steps!TypeOK'
    BY <1>1, <1>2 DEF Steps!TypeOK
  <1> QED
    BY <1>3 DEF StepsInv, Steps!InputsAreFresh

\* The types, piece by piece, and the bounds of the attempts.
LEMMA StepTypes ==
  ASSUME StepsInv
  PROVE  /\ Steps!TypeOK
         /\ log \in Seq(Steps!Entries) /\ lost \in 0..MaxLost /\ status \in {"running", "success", "failed"}
         /\ pc \in {"begin", "step", "inside", "validate", "evaluate", "ended"}
         /\ attempt \in 1..(maxRetries + 1) /\ maxRetries \in 0..MaxRetries /\ step \in 0..Steps!N
         /\ attempt \in 1..(MaxRetries + 1) /\ attempt \in Nat
         /\ results \in Seq(1..(MaxRetries + 1)) /\ Len(results) <= Steps!N /\ Len(results) \in Nat
         /\ inputs \in [Steps!Step -> SUBSET (1..(MaxRetries + 1))]
         /\ finished \subseteq 0..Steps!N /\ failedAt \in 0..Steps!N
  <1>1. Steps!TypeOK
    BY DEF StepsInv, Steps!InputsAreFresh
  <1>2. MaxRetries \in Nat
    BY <1>1, StepCount
  <1>3. maxRetries \in 0..MaxRetries /\ attempt \in 1..(maxRetries + 1)
    BY <1>1 DEF Steps!TypeOK
  <1>4. attempt \in 1..(MaxRetries + 1) /\ attempt \in Nat
    BY <1>2, <1>3
  <1>5. Len(results) \in Nat
    BY <1>1 DEF Steps!TypeOK
  <1> QED
    BY <1>1, <1>3, <1>4, <1>5 DEF Steps!TypeOK

LEMMA FlowMoves ==
  ASSUME StepsInv, Steps!BeginFlow \/ Steps!FlowStep \/ Steps!FlowReturns
  PROVE  StepsInv'
  <1> DEFINE n == Steps!N
  <1>1. Steps!TypeOK
    BY StepTypes
  <1>2. /\ n \in Nat /\ n = NFlow /\ NFlow >= 5 /\ kind = "flow" /\ Steps!Verify = n - 2
        /\ results = <<>> /\ (pc = "inside" => step \in 1..NFlow - 3)
        /\ UNCHANGED <<kind, maxRetries, status, attempt, results, inputs, failedAt>>
    BY <1>1, StepCount DEF StepsInv, Steps!BeginFlow, Steps!FlowStep, Steps!FlowReturns, Steps!run, Steps!history
  <1>3. CASE Steps!BeginFlow
    <2> DEFINE e == Steps!Entry("trigger", 1, 1)
    <2>1. e \in Steps!Entries
      BY <1>2, NotesAreEntries
    <2>2. Steps!Writes(<<e>>) /\ pc' = "inside" /\ step' = 1 /\ finished' = finished
      BY <1>3 DEF Steps!BeginFlow, Steps!history
    <2> HIDE DEF e
    <2>3. log' \in Seq(Steps!Entries) /\ lost' \in 0..MaxLost
      <3>1. <<e>> \in Seq(Steps!Entries)
        BY <2>1, Listed
      <3> QED
        BY <1>1, <2>2, <3>1, WritesType
    <2>4. step' \in 0..Steps!N /\ step' \in 1..NFlow - 3
      BY <1>2, <2>2
    <2> QED
      BY <1>2, <2>2, <2>3, <2>4, StepTypes, StepsKept
  <1>4. CASE Steps!FlowStep
    <2> DEFINE e == Steps!Entry("trigger", step', step')
               f == Steps!Note(step')
    <2>1. /\ pc = "inside" /\ pc' = pc /\ step + 1 < n - 2 /\ step' = step + 1
          /\ finished' = finished \cup {step}
      BY <1>2, <1>4 DEF Steps!FlowStep
    <2>2. step' \in 0..n /\ step' \in 1..NFlow - 3
      BY <1>2, <2>1
    <2>3. e \in Steps!Entries /\ f \in Steps!Entries
      BY <1>2, <2>2, NotesAreEntries
    <2>4. PICK notes \in {<<>>, <<f>>} : Steps!Writes(<<e>> \o notes)
      BY <1>4 DEF Steps!FlowStep
    <2> HIDE DEF e, f
    <2>5. <<e>> \o notes \in Seq(Steps!Entries)
      <3>1. <<e>> \o <<>> \in Seq(Steps!Entries) /\ <<e>> \o <<f>> \in Seq(Steps!Entries)
        BY <2>3, Listed
      <3> QED
        BY <2>4, <3>1
    <2>6. log' \in Seq(Steps!Entries) /\ lost' \in 0..MaxLost
      BY <1>1, <2>4, <2>5, WritesType
    <2>7. finished' \subseteq 0..Steps!N
      BY <2>1, StepTypes
    <2> QED
      BY <1>2, <2>1, <2>2, <2>6, <2>7, StepTypes, StepsKept
  <1>5. CASE Steps!FlowReturns
    <2> DEFINE e == Steps!Entry("trigger", n - 2, n - 2)
    <2>1. /\ pc' = "validate" /\ step' = n - 2 /\ finished' = finished \cup {step}
          /\ Steps!Writes(<<e>>)
      BY <1>2, <1>5 DEF Steps!FlowReturns
    <2>2. step' \in 0..n /\ n - 2 \in 0..n
      BY <1>2, <2>1
    <2>3. e \in Steps!Entries
      BY <1>2, <2>2, NotesAreEntries
    <2> HIDE DEF e
    <2>4. log' \in Seq(Steps!Entries) /\ lost' \in 0..MaxLost
      <3>1. <<e>> \in Seq(Steps!Entries)
        BY <2>3, Listed
      <3> QED
        BY <1>1, <2>1, <3>1, WritesType
    <2>5. finished' \subseteq 0..Steps!N
      BY <2>1, StepTypes
    <2> QED
      BY <1>2, <2>1, <2>2, <2>4, <2>5, StepTypes, StepsKept
  <1> QED
    BY <1>3, <1>4, <1>5

LEMMA StartStepKeeps ==
  ASSUME StepsInv, Steps!StartStep
  PROVE  StepsInv'
  <1> DEFINE n == Steps!N
             e == Steps!Entry("start", Len(results) + 1, Len(results) + 1)
  <1>1. Steps!TypeOK
    BY StepTypes
  <1>2. /\ n \in Nat /\ kind = "pipeline" /\ n = NPipeline /\ Steps!Step = 1..n
        /\ \A i \in DOMAIN results : results[i] = attempt
    BY <1>1, StepCount DEF StepsInv, Steps!StartStep
  <1>3. /\ step' = Len(results) + 1 /\ step' <= n /\ pc' = "inside" /\ Steps!Writes(<<e>>)
        /\ inputs' = [inputs EXCEPT ![step'] = Steps!ToSet(results)]
        /\ UNCHANGED <<kind, maxRetries, status, attempt, results, finished, failedAt>>
    BY DEF Steps!StartStep, Steps!run
  <1>4. step' \in 1..n /\ step' \in 0..n
    BY <1>2, <1>3, StepTypes
  <1>5. e \in Steps!Entries
    BY <1>2, <1>3, <1>4, NotesAreEntries
  <1> HIDE DEF e
  <1>6. log' \in Seq(Steps!Entries) /\ lost' \in 0..MaxLost
    <2>1. <<e>> \in Seq(Steps!Entries)
      BY <1>5, Listed
    <2> QED
      BY <1>1, <1>3, <2>1, WritesType
  <1>7. Steps!ToSet(results) \subseteq {attempt}
    BY <1>2 DEF Steps!ToSet
  <1>8. /\ inputs' \in [1..n -> SUBSET (1..(MaxRetries + 1))]
        /\ inputs'[step'] \subseteq {attempt}
    BY <1>2, <1>3, <1>4, <1>7, StepTypes
  <1>9. Steps!N' = Steps!N /\ Steps!Step' = Steps!Step /\ Steps!Entries' = Steps!Entries
    BY <1>3 DEF Steps!N, Steps!Step, Steps!Entries
  <1>10. Steps!TypeOK'
    BY <1>1, <1>2, <1>3, <1>4, <1>6, <1>8, <1>9 DEF Steps!TypeOK
  <1> QED
    BY <1>2, <1>3, <1>8, <1>10 DEF StepsInv, Steps!InputsAreFresh

LEMMA PipelineMoves ==
  ASSUME StepsInv, Steps!BeginPipeline \/ Steps!CompleteStep \/ Steps!PipelineReturns
  PROVE  StepsInv'
  <1> DEFINE n == Steps!N
             note == Steps!Note(0)
  <1>1. Steps!TypeOK
    BY StepTypes
  <1>2. n \in Nat /\ kind \in {"flow", "pipeline"} /\ (kind = "pipeline" => n = NPipeline)
    BY <1>1, StepCount
  <1>3. note \in Steps!Entries /\ 0 \in 0..n
    <2>1. 0 \in 0..n
      BY <1>2
    <2> QED
      BY <1>2, <2>1, NotesAreEntries
  <1> HIDE DEF note
  <1>4. kind = "flow" => results = <<>> /\ pc \notin {"step"}
    BY DEF StepsInv
  <1>5. CASE Steps!BeginPipeline
    <2>1. /\ kind = "pipeline" /\ pc' = "step" /\ Steps!Writes(<<note>>)
          /\ UNCHANGED <<kind, maxRetries, status, attempt, step, results, inputs, finished, failedAt>>
      BY <1>5 DEF Steps!BeginPipeline, Steps!run, Steps!history, note
    <2>2. log' \in Seq(Steps!Entries) /\ lost' \in 0..MaxLost
      <3>1. <<note>> \in Seq(Steps!Entries)
        BY <1>3, Listed
      <3> QED
        BY <1>1, <2>1, <3>1, WritesType
    <2>3. \A i \in DOMAIN results' : results'[i] = attempt'
      BY <2>1 DEF StepsInv
    <2> QED
      BY <2>1, <2>2, <2>3, StepTypes, StepsKept
  <1>6. CASE Steps!CompleteStep
    <2> DEFINE e == Steps!Entry("completed", step, step)
               f == Steps!Note(step)
    <2>1. /\ pc = "inside" /\ kind = "pipeline" /\ results' = Append(results, attempt)
          /\ finished' = finished \cup {step} /\ step' = 0 /\ pc' = "step"
          /\ UNCHANGED <<kind, maxRetries, status, attempt, inputs, failedAt>>
      BY <1>6 DEF Steps!CompleteStep, Steps!run
    <2>2. e \in Steps!Entries /\ f \in Steps!Entries
      BY <1>2, StepTypes, NotesAreEntries
    <2>3. PICK notes \in {<<>>, <<f>>} : Steps!Writes(notes \o <<e>>)
      BY <1>6 DEF Steps!CompleteStep
    <2> HIDE DEF e, f
    <2>4. notes \o <<e>> \in Seq(Steps!Entries)
      <3>1. <<>> \o <<e>> \in Seq(Steps!Entries) /\ <<f>> \o <<e>> \in Seq(Steps!Entries)
        BY <2>2, Listed
      <3> QED
        BY <2>3, <3>1
    <2>5. log' \in Seq(Steps!Entries) /\ lost' \in 0..MaxLost
      BY <1>1, <2>3, <2>4, WritesType
    <2>6. step = Len(results) + 1 /\ step <= n /\ \A i \in DOMAIN results : results[i] = attempt
      BY <1>2, <2>1 DEF StepsInv
    <2>7. /\ results' \in Seq(1..(MaxRetries + 1)) /\ Len(results') = Len(results) + 1
          /\ \A i \in DOMAIN results' : results'[i] = attempt
      BY <2>1, <2>6, StepTypes
    <2>8. Len(results') <= n /\ finished' \subseteq 0..n /\ step' \in 0..n
      BY <1>2, <2>1, <2>6, <2>7, StepTypes
    <2> QED
      BY <2>1, <2>5, <2>7, <2>8, StepTypes, StepsKept
  <1>7. CASE Steps!PipelineReturns
    <2>1. /\ pc = "step" /\ pc' = "validate" /\ Steps!Writes(<<note>>)
          /\ UNCHANGED <<kind, maxRetries, status, attempt, step, results, inputs, finished, failedAt>>
      BY <1>7 DEF Steps!PipelineReturns, Steps!run, Steps!history, note
    <2>2. log' \in Seq(Steps!Entries) /\ lost' \in 0..MaxLost
      <3>1. <<note>> \in Seq(Steps!Entries)
        BY <1>3, Listed
      <3> QED
        BY <1>1, <2>1, <3>1, WritesType
    <2>3. kind = "pipeline" => \A i \in DOMAIN results' : results'[i] = attempt'
      BY <2>1 DEF StepsInv
    <2> QED
      BY <1>4, <2>1, <2>2, <2>3, StepTypes, StepsKept
  <1> QED
    BY <1>5, <1>6, <1>7

\* The next attempt starts without results.
LEMMA AgainKeeps ==
  ASSUME StepsInv, Steps!Again, Steps!MoreAttempts, failedAt' \in 0..Steps!N,
         log' \in Seq(Steps!Entries), lost' \in 0..MaxLost
  PROVE  StepsInv'
  <1>1. Steps!TypeOK
    BY StepTypes
  <1>2. /\ attempt' = attempt + 1 /\ attempt <= maxRetries /\ results' = <<>> /\ finished' = {}
        /\ step' = (IF kind = "flow" THEN 1 ELSE 0)
        /\ pc' = (IF kind = "flow" THEN "inside" ELSE "step")
        /\ UNCHANGED <<kind, maxRetries, status, inputs>>
    BY DEF Steps!Again, Steps!MoreAttempts, Steps!ResultsAfresh, Steps!run
  <1>3. attempt' \in 1..(maxRetries + 1)
    BY <1>2, StepTypes
  <1>4. /\ step' \in 0..Steps!N /\ (kind = "flow" => step' \in 1..NFlow - 3) /\ (kind = "pipeline" => pc' = "step")
        /\ kind \in {"flow", "pipeline"}
    <2>1. /\ Steps!N \in Nat /\ NFlow \in Nat /\ NFlow >= 5 /\ kind \in {"flow", "pipeline"}
          /\ kind = "flow" => Steps!N = NFlow
      BY <1>1, StepCount
    <2> HIDE DEF Steps!N
    <2>2. CASE kind = "flow"
      BY <1>2, <2>1, <2>2
    <2>3. CASE kind = "pipeline"
      BY <1>2, <2>1, <2>3
    <2> QED
      BY <2>1, <2>2, <2>3
  <1>5. /\ results' \in Seq(1..(MaxRetries + 1)) /\ Len(results') = 0 /\ DOMAIN results' = {}
    BY <1>2
  <1>6. Len(results') <= Steps!N
    BY <1>1, <1>5, StepCount
  <1>7. kind = "flow" => pc' = "inside"
    BY <1>2
  <1>8. pc' \in {"step", "inside"}
    BY <1>2
  <1> QED
    BY <1>2, <1>3, <1>4, <1>5, <1>6, <1>7, <1>8, StepTypes, StepsKept

LEMMA RaiseKeeps ==
  ASSUME StepsInv, Steps!Raises \/ Steps!Refuses
  PROVE  StepsInv'
  <1> DEFINE n == Steps!N
             by == IF kind = "flow" THEN 1 ELSE step
             e == Steps!Note(step)
             f == Steps!Note(by)
  <1>1. Steps!TypeOK
    BY StepTypes
  <1>2. n \in Nat /\ n >= 2 /\ kind \in {"flow", "pipeline"} /\ step \in 0..n /\ 1 \in 0..n
    BY <1>1, StepCount, StepTypes
  <1>3. e \in Steps!Entries /\ f \in Steps!Entries
    <2>1. by \in 0..n
      BY <1>2
    <2> HIDE DEF by
    <2> QED
      BY <1>2, <2>1, NotesAreEntries
  <1>4. CASE Steps!Raises /\ Steps!MoreAttempts
    <2>1. /\ Steps!Again /\ Steps!Writes(<<e, f>>)
          /\ pc = "inside" \/ (pc = "step" /\ Len(results) < n)
          /\ failedAt' = IF pc = "inside" THEN step ELSE Len(results) + 1
      BY <1>4 DEF Steps!Raises
    <2> HIDE DEF e, f
    <2>2. log' \in Seq(Steps!Entries) /\ lost' \in 0..MaxLost
      <3>1. <<e, f>> \in Seq(Steps!Entries)
        BY <1>3, Listed
      <3> QED
        BY <1>1, <2>1, <3>1, WritesType
    <2>3. failedAt' \in 0..n
      BY <1>2, <2>1, StepTypes
    <2> QED
      BY <1>4, <2>1, <2>2, <2>3, AgainKeeps
  <1>5. CASE Steps!Raises /\ ~Steps!MoreAttempts
    <2>1. /\ Steps!Writes(<<e>>) /\ pc' = "ended" /\ status' = "failed"
          /\ pc = "inside" \/ (pc = "step" /\ Len(results) < n)
          /\ failedAt' = IF pc = "inside" THEN step ELSE Len(results) + 1
          /\ UNCHANGED <<kind, maxRetries, attempt, step, results, inputs, finished>>
      BY <1>5 DEF Steps!Raises, Steps!run
    <2> HIDE DEF e, f
    <2>2. log' \in Seq(Steps!Entries) /\ lost' \in 0..MaxLost
      <3>1. <<e>> \in Seq(Steps!Entries)
        BY <1>3, Listed
      <3> QED
        BY <1>1, <2>1, <3>1, WritesType
    <2>3. failedAt' \in 0..n
      BY <1>2, <2>1, StepTypes
    <2>4. /\ kind = "flow" => results' = <<>>
          /\ kind = "pipeline" => \A i \in DOMAIN results' : results'[i] = attempt'
      BY <2>1 DEF StepsInv
    <2> QED
      BY <2>1, <2>2, <2>3, <2>4, StepTypes, StepsKept
  <1>6. CASE Steps!Refuses
    <2> DEFINE g == Steps!Note(1)
    <2>1. Steps!Again /\ Steps!MoreAttempts /\ Steps!Writes(<<e, g>>) /\ failedAt' = failedAt
      BY <1>6 DEF Steps!Refuses
    <2>2. g \in Steps!Entries
      BY <1>2, NotesAreEntries
    <2> HIDE DEF e, g
    <2>3. log' \in Seq(Steps!Entries) /\ lost' \in 0..MaxLost
      <3>1. <<e, g>> \in Seq(Steps!Entries)
        BY <1>3, <2>2, Listed
      <3> QED
        BY <1>1, <2>1, <3>1, WritesType
    <2> QED
      BY <2>1, <2>3, StepTypes, AgainKeeps
  <1> QED
    BY <1>4, <1>5, <1>6

LEMMA LastKeeps ==
  ASSUME StepsInv, Steps!Validates \/ Steps!Ends
  PROVE  StepsInv'
  <1> DEFINE n == Steps!N
             none == Steps!Note(0)
             check == Steps!Note(n - 2)
             judge == Steps!Note(n - 1)
             judged == Steps!Entry("trigger", n - 1, n - 1)
             done == Steps!Entry("trigger", n, n)
  <1>1. Steps!TypeOK
    BY StepTypes
  <1>2. /\ n \in Nat /\ n >= 2 /\ kind \in {"flow", "pipeline"} /\ step \in 0..n
        /\ Steps!Verify = n - 2 /\ Steps!Evaluate = n - 1 /\ Steps!Done = n
    BY <1>1, StepCount, StepTypes
  <1>3. 0 \in 0..n /\ n - 2 \in 0..n /\ n - 1 \in 0..n /\ n \in 0..n
    BY <1>2
  <1>4. {none, check, judge, judged, done} \subseteq Steps!Entries
    <2>1. none \in Steps!Entries /\ check \in Steps!Entries
      BY <1>2, <1>3, NotesAreEntries
    <2>2. judge \in Steps!Entries /\ judged \in Steps!Entries /\ done \in Steps!Entries
      BY <1>2, <1>3, NotesAreEntries
    <2> QED
      BY <2>1, <2>2
  <1>5. /\ kind = "flow" => results = <<>>
        /\ kind = "pipeline" => \A i \in DOMAIN results : results[i] = attempt
    BY DEF StepsInv
  <1>6. CASE Steps!Validates
    <2>1. /\ pc' = "evaluate" /\ finished' = finished \cup {step}
          /\ UNCHANGED <<kind, maxRetries, status, attempt, results, inputs, failedAt>>
          /\ \/ kind = "flow" /\ step' = n - 1 /\ Steps!Writes(<<check, check, judged>>)
             \/ kind # "flow" /\ step' = step /\ Steps!Writes(<<none, none, none>>)
      BY <1>2, <1>6 DEF Steps!Validates, Steps!run
    <2> HIDE DEF none, check, judge, judged, done
    <2>2. log' \in Seq(Steps!Entries) /\ lost' \in 0..MaxLost
      <3>1. <<check, check, judged>> \in Seq(Steps!Entries) /\ <<none, none, none>> \in Seq(Steps!Entries)
        BY <1>4
      <3> QED
        BY <1>1, <2>1, <3>1, WritesType
    <2>3. step' \in 0..n /\ finished' \subseteq 0..n
      BY <1>2, <1>3, <2>1, StepTypes
    <2> QED
      BY <1>5, <2>1, <2>2, <2>3, StepTypes, StepsKept
  <1>7. CASE Steps!Ends
    <2>1. /\ pc' = "ended"
          /\ UNCHANGED <<kind, maxRetries, attempt, step, results, inputs>>
          /\ \/ /\ status' = "success" /\ finished' = finished \cup {step, n} /\ failedAt' = failedAt
                /\ Steps!Writes(<<done>>) \/ Steps!Writes(<<none>>)
             \/ /\ status' = "failed" /\ finished' = finished /\ failedAt' = n - 1
                /\ Steps!Writes(<<judge>>)
      BY <1>2, <1>7 DEF Steps!Ends, Steps!run
    <2> HIDE DEF none, check, judge, judged, done
    <2>2. log' \in Seq(Steps!Entries) /\ lost' \in 0..MaxLost
      <3>1. /\ <<done>> \in Seq(Steps!Entries) /\ <<none>> \in Seq(Steps!Entries)
            /\ <<judge>> \in Seq(Steps!Entries)
        BY <1>4
      <3> QED
        BY <1>1, <2>1, <3>1, WritesType
    <2>3. failedAt' \in 0..n /\ finished' \subseteq 0..n /\ status' \in {"success", "failed"}
      BY <1>2, <1>3, <2>1, StepTypes
    <2> QED
      BY <1>5, <2>1, <2>2, <2>3, StepTypes, StepsKept
  <1> QED
    BY <1>6, <1>7

LEMMA StepsStep == StepsInv /\ [Steps!Next]_Steps!vars => StepsInv'
  <1> SUFFICES ASSUME StepsInv, [Steps!Next]_Steps!vars PROVE StepsInv'
    OBVIOUS
  <1>1. CASE UNCHANGED Steps!vars
    BY <1>1 DEF StepsInv, Steps!vars, Steps!run, Steps!history, Steps!InputsAreFresh, Steps!TypeOK,
       Steps!N, Steps!Step, Steps!Entries
  <1>2. CASE Steps!Next
    BY <1>2, FlowMoves, StartStepKeeps, PipelineMoves, RaiseKeeps, LastKeeps DEF Steps!Next
  <1> QED
    BY <1>1, <1>2

\* execute_pipeline in the retry loop of execute_run, for any number of steps
\* and attempts: a template variable brings in results of the same attempt only.
THEOREM InputsAreFreshAlways == PagesSpec => []InputsAreFresh
  <1>1. PagesInit => StepsInv
    BY StepsInit DEF PagesInit
  <1>2. [PagesNext]_pageVars => [Steps!Next]_Steps!vars
    BY DEF PagesNext, OfStream, OfViews, pageVars, stepVars, Steps!vars, Steps!run, Steps!history
  <1>3. StepsInv => InputsAreFresh
    BY DEF StepsInv, InputsAreFresh
  <1> QED
    BY <1>1, <1>2, <1>3, StepsStep, PTL DEF PagesSpec

-----------------------------------------------------------------------------
(* What is read out of a log that grows entry by entry.                      *)

LogEntry == [mark : {"trigger", "start", "completed", "none"}, step : Nat, by : Nat]

Has(l, mark, s) == \E i \in 1..Len(l) : l[i].mark = mark /\ l[i].step = s

\* The step an entry is filed under, for a flow and for a pipeline.
FlowBucket(l, i) == Steps!Largest({1} \cup {l[j].step : j \in {h \in 1..i : l[h].mark = "trigger"}})
MarkedUpTo(l, i) == {j \in 1..i : l[j].mark \in {"start", "completed"}}
PipeBucket(l, i) == IF MarkedUpTo(l, i) = {} THEN 1 ELSE l[Steps!Largest(MarkedUpTo(l, i))].step

FlowFiled(l) == \A i \in 1..Len(l) : l[i].by # 0 => FlowBucket(l, i) = l[i].by
PipeFiled(l) == \A i \in 1..Len(l) : l[i].by # 0 => PipeBucket(l, i) = l[i].by

\* The furthest trigger, and the latest marker.
Furthest(l, s) == Has(l, "trigger", s) /\ \A t : Has(l, "trigger", t) => t <= s
LatestMark(l, s) ==
  \E j \in 1..Len(l) : /\ l[j].mark \in {"start", "completed"} /\ l[j].step = s
                       /\ \A k \in 1..Len(l) : l[k].mark \in {"start", "completed"} => k <= j

LEMMA LeastOf ==
  ASSUME NEW S \in SUBSET Nat, S # {}
  PROVE  \E m \in S : \A n \in S : m <= n
  <1> DEFINE R == OpToRel(<, Nat)
  <1>1. PICK m \in S : \A n \in S : ~(<<n, m>> \in R)
    <2>1. IsWellFoundedOn(R, Nat)
      BY NatLessThanWellFounded
    <2> HIDE DEF R
    <2> QED
      BY <2>1, WFMin
  <1>2. \A n \in Nat : n < m => <<n, m>> \in R
    BY DEF OpToRel
  <1> HIDE DEF R
  <1>3. \A n \in S : ~(n < m)
    BY <1>1, <1>2, Zenon
  <1> QED
    BY <1>3

LEMMA GreatestOf ==
  ASSUME NEW i \in Nat, NEW S \in SUBSET (0..i), S # {}
  PROVE  Steps!Largest(S) \in S /\ \A t \in S : t <= Steps!Largest(S)
  <1> DEFINE T == {i - s : s \in S}
  <1>0. \A s \in S : s \in 0..i
    OBVIOUS
  <1>a. \A s \in S : s \in Nat /\ s <= i
    BY <1>0
  <1>b. \A s \in S : i - s \in Nat
    BY <1>a
  <1>1. T \subseteq Nat /\ T # {}
    BY <1>b
  <1>2. PICK u \in T : \A v \in T : u <= v
    BY <1>1, LeastOf
  <1>3. PICK s \in S : u = i - s
    BY <1>2
  <1>4. \A t \in S : t <= s
    <2> SUFFICES ASSUME NEW t \in S PROVE t <= s
      OBVIOUS
    <2>1. i - t \in T
      OBVIOUS
    <2>2. i - s <= i - t
      BY <1>2, <1>3, <2>1
    <2>3. s \in Nat /\ t \in Nat
      BY <1>a
    <2> QED
      BY <2>2, <2>3
  <1> QED
    BY <1>4 DEF Steps!Largest

LEMMA LargestIs ==
  ASSUME NEW S \in SUBSET Nat, NEW s \in S, \A t \in S : t <= s
  PROVE  Steps!Largest(S) = s
  <1>1. \A u \in S : (\A t \in S : t <= u) => u = s
    OBVIOUS
  <1> QED
    BY <1>1 DEF Steps!Largest

LEMMA OneMore ==
  ASSUME NEW l \in Seq(LogEntry), NEW e \in LogEntry, NEW m, m = Append(l, e)
  PROVE  /\ m \in Seq(LogEntry) /\ Len(l) \in Nat /\ Len(m) = Len(l) + 1 /\ m[Len(l) + 1] = e
         /\ 1..Len(m) = 1..Len(l) \cup {Len(l) + 1}
         /\ \A i \in 1..Len(l) : m[i] = l[i] /\ l[i] \in LogEntry
         /\ e.mark \in {"trigger", "start", "completed", "none"} /\ e.step \in Nat /\ e.by \in Nat
         /\ \A i \in 1..Len(l) : l[i].step \in Nat /\ l[i].by \in Nat
  <1>1. m \in Seq(LogEntry) /\ Len(l) \in Nat /\ Len(m) = Len(l) + 1 /\ m[Len(l) + 1] = e
        /\ \A i \in 1..Len(l) : m[i] = l[i] /\ l[i] \in LogEntry
    OBVIOUS
  <1>2. \A f \in LogEntry : f.mark \in {"trigger", "start", "completed", "none"} /\ f.step \in Nat /\ f.by \in Nat
    BY DEF LogEntry
  <1>3. 1..Len(m) = 1..Len(l) \cup {Len(l) + 1}
    BY <1>1
  <1> QED
    BY <1>1, <1>2, <1>3

LEMMA HasMore ==
  ASSUME NEW l \in Seq(LogEntry), NEW e \in LogEntry, NEW m, m = Append(l, e), NEW mark, NEW s
  PROVE  Has(m, mark, s) <=> Has(l, mark, s) \/ (e.mark = mark /\ e.step = s)
  <1>1. /\ Len(l) \in Nat /\ Len(m) = Len(l) + 1 /\ m[Len(l) + 1] = e /\ 1..Len(m) = 1..Len(l) \cup {Len(l) + 1}
        /\ \A i \in 1..Len(l) : m[i] = l[i]
    BY OneMore
  <1> QED
    BY <1>1 DEF Has

\* A step that is done stays done, and one that was started is done once it completes.
LEMMA DoneMore ==
  ASSUME NEW l \in Seq(LogEntry), NEW e \in LogEntry, NEW m, m = Append(l, e), NEW s
  PROVE  /\ Steps!IsDone(l, s) => Steps!IsDone(m, s) /\ Has(l, "start", s) /\ Has(l, "completed", s)
         /\ Has(l, "start", s) /\ e.mark = "completed" /\ e.step = s => Steps!IsDone(m, s)
  <1>1. /\ Len(l) \in Nat /\ Len(m) = Len(l) + 1 /\ m[Len(l) + 1] = e
        /\ \A i \in 1..Len(l) : m[i] = l[i]
    BY OneMore
  <1>2. DOMAIN l = 1..Len(l) /\ DOMAIN m = 1..Len(m)
    BY OneMore
  <1>3. ASSUME Steps!IsDone(l, s) PROVE Steps!IsDone(m, s) /\ Has(l, "start", s) /\ Has(l, "completed", s)
    <2>1. PICK i \in 1..Len(l), j \in 1..Len(l) :
            i < j /\ l[i].step = s /\ l[j].step = s /\ l[i].mark = "start" /\ l[j].mark = "completed"
      BY <1>2, <1>3 DEF Steps!IsDone
    <2>2. i \in 1..Len(m) /\ j \in 1..Len(m) /\ m[i] = l[i] /\ m[j] = l[j]
      BY <1>1
    <2> QED
      BY <1>2, <2>1, <2>2 DEF Steps!IsDone, Has
  <1>4. ASSUME Has(l, "start", s), e.mark = "completed", e.step = s PROVE Steps!IsDone(m, s)
    <2>1. PICK i \in 1..Len(l) : l[i].mark = "start" /\ l[i].step = s
      BY <1>4 DEF Has
    <2>2. i \in 1..Len(m) /\ Len(l) + 1 \in 1..Len(m) /\ i < Len(l) + 1 /\ m[i] = l[i]
      BY <1>1
    <2> QED
      BY <1>1, <1>2, <1>4, <2>1, <2>2 DEF Steps!IsDone
  <1> QED
    BY <1>3, <1>4

\* Where an entry is filed does not depend on what comes later.
LEMMA BucketKept ==
  ASSUME NEW l \in Seq(LogEntry), NEW e \in LogEntry, NEW m, m = Append(l, e), NEW i \in 1..Len(l)
  PROVE  FlowBucket(m, i) = FlowBucket(l, i) /\ PipeBucket(m, i) = PipeBucket(l, i)
  <1>1. Len(l) \in Nat /\ \A j \in 1..i : m[j] = l[j]
    <2>1. Len(l) \in Nat /\ \A j \in 1..Len(l) : m[j] = l[j]
      BY OneMore
    <2> QED
      BY <2>1
  <1>2. {m[j].step : j \in {h \in 1..i : m[h].mark = "trigger"}} = {l[j].step : j \in {h \in 1..i : l[h].mark = "trigger"}}
    BY <1>1
  <1>3. MarkedUpTo(m, i) = MarkedUpTo(l, i)
    BY <1>1 DEF MarkedUpTo
  <1>4. MarkedUpTo(l, i) # {} => Steps!Largest(MarkedUpTo(l, i)) \in 1..i
    <2> DEFINE S == MarkedUpTo(l, i)
    <2> SUFFICES ASSUME S # {} PROVE Steps!Largest(S) \in 1..i
      OBVIOUS
    <2>1. S \subseteq 1..i /\ i \in Nat
      BY <1>1 DEF MarkedUpTo
    <2>2. S \subseteq 0..i
      BY <2>1
    <2> HIDE DEF S
    <2>3. Steps!Largest(S) \in S
      BY <2>1, <2>2, GreatestOf
    <2> QED
      BY <2>1, <2>3
  <1> QED
    BY <1>1, <1>2, <1>3, <1>4 DEF FlowBucket, PipeBucket

LEMMA FlowBucketIs ==
  ASSUME NEW l \in Seq(LogEntry), NEW s \in Nat, s >= 1, Furthest(l, s)
  PROVE  FlowBucket(l, Len(l)) = s
  <1> DEFINE S == {1} \cup {l[j].step : j \in {h \in 1..Len(l) : l[h].mark = "trigger"}}
  <1>0. \A j \in 1..Len(l) : l[j] \in LogEntry
    OBVIOUS
  <1>1. \A j \in 1..Len(l) : l[j].step \in Nat
    BY <1>0 DEF LogEntry
  <1>2. S \subseteq Nat
    BY <1>1
  <1>3. s \in S
    BY DEF Furthest, Has
  <1>4. \A t \in S : t <= s
    BY <1>1 DEF Furthest, Has
  <1> HIDE DEF S
  <1>5. Steps!Largest(S) = s
    BY <1>2, <1>3, <1>4, LargestIs
  <1> QED
    BY <1>5 DEF FlowBucket, S

LEMMA PipeBucketIs ==
  ASSUME NEW l \in Seq(LogEntry), NEW s, LatestMark(l, s)
  PROVE  PipeBucket(l, Len(l)) = s
  <1>1. PICK j \in 1..Len(l) :
          /\ l[j].mark \in {"start", "completed"} /\ l[j].step = s
          /\ \A k \in 1..Len(l) : l[k].mark \in {"start", "completed"} => k <= j
    BY DEF LatestMark
  <1>2. MarkedUpTo(l, Len(l)) \in SUBSET Nat /\ j \in MarkedUpTo(l, Len(l)) /\ \A t \in MarkedUpTo(l, Len(l)) : t <= j
    BY <1>1 DEF MarkedUpTo
  <1>3. Steps!Largest(MarkedUpTo(l, Len(l))) = j
    BY <1>2, LargestIs
  <1> QED
    BY <1>1, <1>2, <1>3 DEF PipeBucket

\* An entry of a flow that is filed under the furthest step, as it should be.
LEMMA FlowFiledMore ==
  ASSUME NEW l \in Seq(LogEntry), NEW e \in LogEntry, NEW m, m = Append(l, e), FlowFiled(l),
         NEW s \in Nat, s >= 1, e.by \in {0, s}, Furthest(m, s)
  PROVE  FlowFiled(m)
  <1>1. m \in Seq(LogEntry) /\ Len(m) = Len(l) + 1 /\ m[Len(l) + 1] = e /\ 1..Len(m) = 1..Len(l) \cup {Len(l) + 1}
        /\ \A i \in 1..Len(l) : m[i] = l[i]
    BY OneMore
  <1>2. FlowBucket(m, Len(m)) = s
    BY <1>1, FlowBucketIs
  <1>3. \A i \in 1..Len(l) : FlowBucket(m, i) = FlowBucket(l, i)
    BY BucketKept
  <1> QED
    BY <1>1, <1>2, <1>3 DEF FlowFiled

LEMMA NoteOfFlow ==
  ASSUME NEW l \in Seq(LogEntry), NEW e \in LogEntry, NEW m, m = Append(l, e), FlowFiled(l),
         NEW s \in Nat, s >= 1, Furthest(l, s), e.mark = "none", e.by \in {0, s}
  PROVE  m \in Seq(LogEntry) /\ Furthest(m, s) /\ FlowFiled(m)
  <1>1. Furthest(m, s)
    BY HasMore DEF Furthest
  <1> QED
    BY <1>1, FlowFiledMore, OneMore

LEMMA TriggerOfFlow ==
  ASSUME NEW l \in Seq(LogEntry), NEW e \in LogEntry, NEW m, m = Append(l, e), FlowFiled(l),
         NEW s \in Nat, s >= 1, \A t : Has(l, "trigger", t) => t <= s,
         e.mark = "trigger", e.step = s, e.by = s
  PROVE  m \in Seq(LogEntry) /\ Furthest(m, s) /\ FlowFiled(m)
  <1>1. \A mark, t : Has(m, mark, t) <=> Has(l, mark, t) \/ (mark = "trigger" /\ t = s)
    <2>1. \A mark, t : Has(m, mark, t) <=> Has(l, mark, t) \/ (e.mark = mark /\ e.step = t)
      BY HasMore
    <2> QED
      BY <2>1
  <1>2. Furthest(m, s)
    BY <1>1 DEF Furthest
  <1>3. e.by \in {0, s} /\ m \in Seq(LogEntry)
    BY OneMore
  <1>4. FlowFiled(m)
    BY <1>2, <1>3, FlowFiledMore
  <1> QED
    BY <1>2, <1>3, <1>4

\* The same for a pipeline.
LEMMA PipeFiledMore ==
  ASSUME NEW l \in Seq(LogEntry), NEW e \in LogEntry, NEW m, m = Append(l, e), PipeFiled(l),
         NEW s \in Nat, e.by \in {0, s}, LatestMark(m, s)
  PROVE  PipeFiled(m)
  <1>1. m \in Seq(LogEntry) /\ Len(m) = Len(l) + 1 /\ m[Len(l) + 1] = e /\ 1..Len(m) = 1..Len(l) \cup {Len(l) + 1}
        /\ \A i \in 1..Len(l) : m[i] = l[i]
    BY OneMore
  <1>2. PipeBucket(m, Len(m)) = s
    BY <1>1, PipeBucketIs
  <1>3. \A i \in 1..Len(l) : PipeBucket(m, i) = PipeBucket(l, i)
    BY BucketKept
  <1> QED
    BY <1>1, <1>2, <1>3 DEF PipeFiled

LEMMA NoteOfStep ==
  ASSUME NEW l \in Seq(LogEntry), NEW e \in LogEntry, NEW m, m = Append(l, e), PipeFiled(l),
         NEW s \in Nat, LatestMark(l, s), e.mark = "none", e.by \in {0, s}
  PROVE  m \in Seq(LogEntry) /\ LatestMark(m, s) /\ PipeFiled(m)
  <1>1. m \in Seq(LogEntry) /\ Len(l) \in Nat /\ m[Len(l) + 1] = e /\ 1..Len(m) = 1..Len(l) \cup {Len(l) + 1}
        /\ \A i \in 1..Len(l) : m[i] = l[i]
    BY OneMore
  <1>2. PICK j \in 1..Len(l) :
          /\ l[j].mark \in {"start", "completed"} /\ l[j].step = s
          /\ \A k \in 1..Len(l) : l[k].mark \in {"start", "completed"} => k <= j
    BY DEF LatestMark
  <1>3. j \in 1..Len(m) /\ m[j] = l[j]
    BY <1>1
  <1>4. \A k \in 1..Len(m) : m[k].mark \in {"start", "completed"} => k <= j
    BY <1>1, <1>2
  <1>5. LatestMark(m, s)
    BY <1>2, <1>3, <1>4 DEF LatestMark
  <1>6. PipeFiled(m)
    BY <1>5, PipeFiledMore
  <1> QED
    BY <1>1, <1>5, <1>6

LEMMA MarkOfStep ==
  ASSUME NEW l \in Seq(LogEntry), NEW e \in LogEntry, NEW m, m = Append(l, e), PipeFiled(l),
         e.mark \in {"start", "completed"}, e.by \in {0, e.step}
  PROVE  m \in Seq(LogEntry) /\ LatestMark(m, e.step) /\ PipeFiled(m)
  <1>1. m \in Seq(LogEntry) /\ Len(l) \in Nat /\ Len(m) = Len(l) + 1 /\ m[Len(l) + 1] = e
        /\ 1..Len(m) = 1..Len(l) \cup {Len(l) + 1}
    BY OneMore
  <1>2. Len(l) + 1 \in 1..Len(m) /\ \A k \in 1..Len(m) : k <= Len(l) + 1
    BY <1>1
  <1>3. LatestMark(m, e.step)
    BY <1>1, <1>2 DEF LatestMark
  <1>4. PipeFiled(m)
    <2> DEFINE s == e.step
    <2>1. s \in Nat /\ e.by \in {0, s} /\ LatestMark(m, s)
      BY <1>3, OneMore
    <2> HIDE DEF s
    <2> QED
      BY <2>1, PipeFiledMore
  <1> QED
    BY <1>1, <1>3, <1>4

\* What belongs to no step may be written at any time.
LEMMA NoteOfNone ==
  ASSUME NEW l \in Seq(LogEntry), NEW e \in LogEntry, NEW m, m = Append(l, e), e.mark = "none", e.by = 0
  PROVE  m \in Seq(LogEntry) /\ (FlowFiled(l) => FlowFiled(m)) /\ (PipeFiled(l) => PipeFiled(m))
  <1>1. m \in Seq(LogEntry) /\ m[Len(l) + 1] = e /\ 1..Len(m) = 1..Len(l) \cup {Len(l) + 1}
        /\ \A i \in 1..Len(l) : m[i] = l[i]
    BY OneMore
  <1>2. \A i \in 1..Len(l) : FlowBucket(m, i) = FlowBucket(l, i) /\ PipeBucket(m, i) = PipeBucket(l, i)
    BY BucketKept
  <1> QED
    BY <1>1, <1>2 DEF FlowFiled, PipeFiled

-----------------------------------------------------------------------------
(* What a run has written, and how far it is.                                *)

LEMMA LogIsOfEntries ==
  ASSUME StepsInv
  PROVE  log \in Seq(LogEntry)
  <1>1. log \in Seq(Steps!Entries) /\ Steps!N \in Nat
    BY StepTypes, StepCount
  <1>2. Steps!Entries \subseteq LogEntry
    BY <1>1 DEF Steps!Entries, LogEntry
  <1> QED
    BY <1>1, <1>2

\* append_log adds no entry of its own, and all of them unless one is lost.
LEMMA LogGrows ==
  ASSUME StepsInv, NEW entries \in Seq(LogEntry), Steps!Writes(entries)
  PROVE  /\ \A mark, s : Has(log', mark, s) => Has(log, mark, s) \/ Has(entries, mark, s)
         /\ lost' = 0 => lost = 0 /\ log' = log \o entries
  <1> DEFINE E == LogEntry
             a == log
  <1>1. a \in Seq(E) /\ lost \in Nat /\ Len(a) \in Nat /\ Len(entries) \in Nat /\ entries \in Seq(E)
        /\ DOMAIN entries = 1..Len(entries)
    <2>1. lost \in 0..MaxLost /\ MaxLost \in Nat
      BY StepTypes, StepCount
    <2>2. log \in Seq(LogEntry)
      BY LogIsOfEntries
    <2> QED
      BY <2>1, <2>2
  <1>2. ASSUME NEW w \in Seq(E), \A i \in 1..Len(w) : \E k \in 1..Len(entries) : w[i] = entries[k], log' = a \o w,
               NEW mark, NEW s, Has(log', mark, s)
        PROVE  Has(a, mark, s) \/ Has(entries, mark, s)
    <2>1. PICK i \in 1..Len(log') : log'[i].mark = mark /\ log'[i].step = s
      BY <1>2 DEF Has
    <2> HIDE DEF a, E
    <2>2. Len(log') = Len(a) + Len(w) /\ Len(w) \in Nat
          /\ \A j \in 1..Len(a) + Len(w) : log'[j] = IF j <= Len(a) THEN a[j] ELSE w[j - Len(a)]
      BY <1>1, <1>2, ConcatProperties
    <2>3. CASE i <= Len(a)
      <3>1. i \in 1..Len(a) /\ log'[i] = a[i]
        BY <1>1, <2>1, <2>2, <2>3
      <3> QED
        BY <2>1, <3>1 DEF Has
    <2>4. CASE i > Len(a)
      <3>1. i - Len(a) \in 1..Len(w) /\ i \in 1..Len(a) + Len(w) /\ ~(i <= Len(a))
        BY <1>1, <2>1, <2>2, <2>4
      <3>2. log'[i] = w[i - Len(a)]
        BY <2>2, <3>1
      <3>3. PICK k \in 1..Len(entries) : log'[i] = entries[k]
        BY <1>2, <3>1, <3>2
      <3> QED
        BY <2>1, <3>3 DEF Has
    <2> QED
      BY <1>1, <2>1, <2>2, <2>3, <2>4
  <1>3. CASE log' = log \o entries /\ UNCHANGED lost
    <2>1. \A mark, s : Has(log', mark, s) => Has(log, mark, s) \/ Has(entries, mark, s)
      BY <1>1, <1>2, <1>3
    <2> QED
      BY <1>3, <2>1
  <1>4. CASE lost < MaxLost /\ lost' = lost + 1 /\ \E k \in DOMAIN entries : log' = log \o Steps!RemoveAt(entries, k)
    <2>1. PICK k \in 1..Len(entries) : log' = log \o Steps!RemoveAt(entries, k)
      BY <1>1, <1>4
    <2> DEFINE w == Steps!RemoveAt(entries, k)
               f == SubSeq(entries, 1, k - 1)
               g == SubSeq(entries, k + 1, Len(entries))
    <2>2. f \in Seq(E) /\ Len(f) = k - 1 /\ \A i \in 1..(k - 1) : f[i] = entries[i]
      <3>1. \A i \in 1..(k - 1) : entries[i] \in E
        BY <1>1
      <3>2. 1 \in Int /\ k - 1 \in Int /\ k - 1 \in Nat
        BY <1>1
      <3> QED
        BY <1>1, <3>1, <3>2, SubSeqProperties
    <2>3. g \in Seq(E) /\ Len(g) = Len(entries) - k /\ \A i \in 1..(Len(entries) - k) : g[i] = entries[k + i]
      <3> DEFINE n == Len(entries)
      <3>1. \A i \in (k + 1)..n : entries[i] \in E
        BY <1>1
      <3>2. k + 1 \in Int /\ n \in Int /\ k \in Nat /\ n \in Nat /\ k <= n
        BY <1>1
      <3> HIDE DEF n
      <3>3. /\ SubSeq(entries, k + 1, n) \in Seq(E)
            /\ Len(SubSeq(entries, k + 1, n)) = IF k + 1 <= n THEN n - (k + 1) + 1 ELSE 0
            /\ \A i \in 1..n - (k + 1) + 1 : SubSeq(entries, k + 1, n)[i] = entries[(k + 1) + i - 1]
        BY <3>1, <3>2, SubSeqProperties
      <3>4. n - (k + 1) + 1 = n - k /\ (~(k + 1 <= n) => n - k = 0) /\ \A i \in 1..(n - k) : (k + 1) + i - 1 = k + i
        BY <3>2
      <3>5. g = SubSeq(entries, k + 1, n)
        BY DEF n
      <3> HIDE DEF g
      <3>6. g \in Seq(E) /\ Len(g) = n - k /\ \A i \in 1..(n - k) : g[i] = entries[k + i]
        BY <3>3, <3>4, <3>5
      <3> QED
        BY <3>6 DEF n
    <2>4. w = f \o g
      BY DEF Steps!RemoveAt
    <2> HIDE DEF f, g, w, E
    <2>5. w \in Seq(E) /\ Len(w) = (k - 1) + (Len(entries) - k)
          /\ \A i \in 1..(k - 1) + (Len(entries) - k) : w[i] = IF i <= k - 1 THEN f[i] ELSE g[i - (k - 1)]
      <3>1. /\ w \in Seq(E) /\ Len(w) = Len(f) + Len(g)
            /\ \A i \in 1..Len(f) + Len(g) : w[i] = IF i <= Len(f) THEN f[i] ELSE g[i - Len(f)]
        <4>1. f \in Seq(E) /\ g \in Seq(E)
          BY <2>2, <2>3
        <4> QED
          BY <2>4, <4>1, ConcatProperties
      <3>2. Len(f) = k - 1 /\ Len(g) = Len(entries) - k
        BY <2>2, <2>3
      <3> QED
        BY <3>1, <3>2
    <2>6. \A i \in 1..Len(w) : \E h \in 1..Len(entries) : w[i] = entries[h]
      <3> SUFFICES ASSUME NEW i \in 1..Len(w) PROVE \E h \in 1..Len(entries) : w[i] = entries[h]
        OBVIOUS
      <3>1. k \in Nat /\ k >= 1 /\ k <= Len(entries) /\ i \in Nat /\ i >= 1 /\ i <= Len(entries) - 1
        BY <1>1, <2>5
      <3>2. CASE i <= k - 1
        <4>1. i \in 1..(k - 1) /\ i \in 1..Len(entries) /\ i \in 1..(k - 1) + (Len(entries) - k)
          BY <1>1, <3>1, <3>2
        <4> QED
          BY <2>2, <2>5, <3>2, <4>1
      <3>3. CASE i > k - 1
        <4>1. i - (k - 1) \in 1..(Len(entries) - k) /\ i \in 1..(k - 1) + (Len(entries) - k)
              /\ k + (i - (k - 1)) \in 1..Len(entries) /\ ~(i <= k - 1)
          BY <1>1, <3>1, <3>3
        <4>2. w[i] = g[i - (k - 1)]
          BY <2>5, <4>1
        <4> QED
          BY <2>3, <4>1, <4>2
      <3> QED
        BY <3>1, <3>2, <3>3
    <2>7. log' = a \o w
      BY <2>1 DEF w
    <2>8. \A mark, s : Has(log', mark, s) => Has(log, mark, s) \/ Has(entries, mark, s)
      BY <1>2, <2>5, <2>6, <2>7
    <2>9. lost' # 0
      BY <1>1, <1>4
    <2> QED
      BY <2>8, <2>9
  <1> QED
    BY <1>3, <1>4 DEF Steps!Writes

LEMMA HasListed ==
  ASSUME NEW a \in LogEntry, NEW b \in LogEntry, NEW c \in LogEntry, NEW mark, NEW s
  PROVE  /\ Has(<<a>>, mark, s) => a.mark = mark /\ a.step = s
         /\ Has(<<a, b>>, mark, s) => (a.mark = mark /\ a.step = s) \/ (b.mark = mark /\ b.step = s)
         /\ Has(<<a, b, c>>, mark, s) =>
              (a.mark = mark /\ a.step = s) \/ (b.mark = mark /\ b.step = s) \/ (c.mark = mark /\ c.step = s)
  BY DEF Has

LEMMA Glued ==
  ASSUME NEW E, NEW l \in Seq(E), NEW a \in E, NEW b \in E, NEW c \in E
  PROVE  /\ l \o <<a>> = Append(l, a) /\ l \o <<a, b>> = Append(Append(l, a), b)
         /\ l \o <<a, b, c>> = Append(Append(Append(l, a), b), c)
         /\ <<>> \o <<a>> = <<a>> /\ <<a>> \o <<>> = <<a>> /\ <<a>> \o <<b>> = <<a, b>>
  <1>1. l \o <<a>> = Append(l, a)
    OBVIOUS
  <1>2. l \o <<a, b>> = Append(Append(l, a), b)
    OBVIOUS
  <1>3. l \o <<a, b, c>> = Append(Append(Append(l, a), b), c)
    <2> DEFINE v == l \o <<a, b, c>>
               w == Append(Append(l, a), b)
               n == Len(l)
    <2>1. /\ v \in Seq(E) /\ Len(v) = n + 3 /\ n \in Nat
          /\ (\A i \in 1..n : v[i] = l[i]) /\ v[n + 1] = a /\ v[n + 2] = b /\ v[n + 3] = c
      <3>1. <<a, b, c>> \in Seq(E) /\ Len(<<a, b, c>>) = 3 /\ n \in Nat
        OBVIOUS
      <3>2. v \in Seq(E) /\ Len(v) = n + 3
            /\ \A i \in 1..n + 3 : v[i] = IF i <= n THEN l[i] ELSE <<a, b, c>>[i - n]
        BY <3>1, ConcatProperties
      <3>3. v[n + 1] = <<a, b, c>>[1] /\ v[n + 2] = <<a, b, c>>[2] /\ v[n + 3] = <<a, b, c>>[3]
        <4> HIDE DEF v
        <4>1. /\ n + 1 \in 1..n + 3 /\ ~(n + 1 <= n) /\ (n + 1) - n = 1
              /\ n + 2 \in 1..n + 3 /\ ~(n + 2 <= n) /\ (n + 2) - n = 2
              /\ n + 3 \in 1..n + 3 /\ ~(n + 3 <= n) /\ (n + 3) - n = 3
          BY <3>1
        <4> HIDE DEF n
        <4> QED
          BY <3>2, <4>1
      <3>4. \A i \in 1..n : i \in 1..n + 3 /\ i <= n
        BY <3>1
      <3> HIDE DEF v
      <3> QED
        BY <3>1, <3>2, <3>3, <3>4
    <2>2. /\ w \in Seq(E) /\ Len(w) = n + 2
          /\ (\A i \in 1..n : w[i] = l[i]) /\ w[n + 1] = a /\ w[n + 2] = b
      OBVIOUS
    <2> HIDE DEF v, w
    <2>3. /\ Append(w, c) \in Seq(E) /\ Len(Append(w, c)) = n + 3
          /\ (\A i \in 1..n + 2 : Append(w, c)[i] = w[i]) /\ Append(w, c)[n + 3] = c
      BY <2>1, <2>2
    <2>4. \A i \in 1..n + 3 : i \in 1..n \/ i = n + 1 \/ i = n + 2 \/ i = n + 3
      BY <2>1
    <2>5. n + 1 \in 1..n + 2 /\ n + 2 \in 1..n + 2 /\ \A i \in 1..n : i \in 1..n + 2
      BY <2>1
    <2> HIDE DEF n
    <2>6. \A i \in 1..Len(v) : v[i] = Append(w, c)[i]
      BY <2>1, <2>2, <2>3, <2>4, <2>5
    <2>7. v = Append(w, c)
      BY <2>1, <2>3, <2>6, SeqEqual
    <2> QED
      BY <2>7 DEF v, w
  <1>4. <<>> \o <<a>> = <<a>>
    OBVIOUS
  <1>5. <<a>> \o <<>> = <<a>>
    OBVIOUS
  <1>6. <<a>> \o <<b>> = <<a, b>>
    <2> DEFINE v == <<a>> \o <<b>>
               w == <<a, b>>
    <2>1. v \in Seq(E) /\ Len(v) = 2 /\ v[1] = a /\ v[2] = b
      OBVIOUS
    <2>2. w \in Seq(E) /\ Len(w) = 2 /\ w[1] = a /\ w[2] = b
      OBVIOUS
    <2> HIDE DEF v, w
    <2>3. \A i \in 1..Len(v) : v[i] = w[i]
      BY <2>1, <2>2
    <2>4. v = w
      BY <2>1, <2>2, <2>3, SeqEqual
    <2> QED
      BY <2>4 DEF v, w
  <1> QED
    BY <1>1, <1>2, <1>3, <1>4, <1>5, <1>6

LEMMA WritesOne ==
  ASSUME StepsInv, NEW a \in LogEntry, Steps!Writes(<<a>>)
  PROVE  /\ \A mark, s : Has(log', mark, s) => Has(log, mark, s) \/ (a.mark = mark /\ a.step = s)
         /\ lost' = 0 => lost = 0 /\ log' = Append(log, a)
  <1>1. <<a>> \in Seq(LogEntry) /\ log \in Seq(LogEntry)
    BY LogIsOfEntries, Listed
  <1>2. log \o <<a>> = Append(log, a)
    BY <1>1, Glued
  <1>3. \A mark, s : Has(<<a>>, mark, s) => a.mark = mark /\ a.step = s
    BY HasListed
  <1> QED
    BY <1>1, <1>2, <1>3, LogGrows

LEMMA WritesTwo ==
  ASSUME StepsInv, NEW a \in LogEntry, NEW b \in LogEntry, Steps!Writes(<<a, b>>)
  PROVE  /\ \A mark, s : Has(log', mark, s) =>
              Has(log, mark, s) \/ (a.mark = mark /\ a.step = s) \/ (b.mark = mark /\ b.step = s)
         /\ lost' = 0 => lost = 0 /\ log' = Append(Append(log, a), b)
  <1>1. <<a, b>> \in Seq(LogEntry) /\ log \in Seq(LogEntry)
    BY LogIsOfEntries, Listed
  <1>2. log \o <<a, b>> = Append(Append(log, a), b)
    BY <1>1, Glued
  <1>3. \A mark, s : Has(<<a, b>>, mark, s) => (a.mark = mark /\ a.step = s) \/ (b.mark = mark /\ b.step = s)
    BY HasListed
  <1> QED
    BY <1>1, <1>2, <1>3, LogGrows

LEMMA WritesThree ==
  ASSUME StepsInv, NEW a \in LogEntry, NEW b \in LogEntry, NEW c \in LogEntry, Steps!Writes(<<a, b, c>>)
  PROVE  /\ \A mark, s : Has(log', mark, s) =>
              \/ Has(log, mark, s)
              \/ (a.mark = mark /\ a.step = s) \/ (b.mark = mark /\ b.step = s) \/ (c.mark = mark /\ c.step = s)
         /\ lost' = 0 => lost = 0 /\ log' = Append(Append(Append(log, a), b), c)
  <1>1. <<a, b, c>> \in Seq(LogEntry) /\ log \in Seq(LogEntry)
    BY LogIsOfEntries
  <1>2. log \o <<a, b, c>> = Append(Append(Append(log, a), b), c)
    BY <1>1, Glued
  <1>3. \A mark, s : Has(<<a, b, c>>, mark, s) =>
          (a.mark = mark /\ a.step = s) \/ (b.mark = mark /\ b.step = s) \/ (c.mark = mark /\ c.step = s)
    <2> TAKE mark, s
    <2> QED
      BY DEF Has
  <1> QED
    BY <1>1, <1>2, <1>3, LogGrows

\* The fields of an entry that is written.
LEMMA EntryIs ==
  ASSUME NEW mark \in {"trigger", "start", "completed", "none"}, NEW s \in Nat, NEW by \in Nat
  PROVE  LET e == Steps!Entry(mark, s, by)
             f == Steps!Note(by)
         IN  /\ e \in LogEntry /\ e.mark = mark /\ e.step = s /\ e.by = by
             /\ f \in LogEntry /\ f.mark = "none" /\ f.step = 0 /\ f.by = by
  BY DEF Steps!Entry, Steps!Note, LogEntry

LEMMA StepIsNat ==
  ASSUME NEW l \in Seq(LogEntry), NEW mark, NEW s, Has(l, mark, s)
  PROVE  s \in Nat
  <1>1. PICK i \in 1..Len(l) : l[i].step = s
    BY DEF Has
  <1>2. l[i] \in LogEntry
    OBVIOUS
  <1>3. l[i].step \in Nat
    BY <1>2 DEF LogEntry
  <1> QED
    BY <1>1, <1>3

\* A flow: the step at work is the furthest that has a trigger, until an attempt
\* is taken again, and every entry is filed under the step at work.
FlowFirst ==
  /\ \A s \in 1..NFlow : s < step => s \in finished
  /\ status = "success" => 1..NFlow \subseteq finished
  /\ status = "failed" => failedAt = step
  /\ status # "success" => \A s : Has(log, "trigger", s) => s <= step
  /\ lost = 0 => FlowFiled(log)
  /\ lost = 0 /\ status # "success" /\ pc # "begin" => Has(log, "trigger", step)

FlowLog ==
  kind = "flow" =>
    /\ pc = "begin" => log = <<>> /\ step = 0 /\ attempt = 1
    /\ pc # "begin" => step \in 1..NFlow
    /\ pc = "validate" => step = NFlow - 2
    /\ pc = "evaluate" => step = NFlow - 1
    /\ pc # "ended" => status = "running"
    /\ lost = 0 /\ status = "success" => Has(log, "trigger", NFlow)
    /\ attempt = 1 => FlowFirst

\* A pipeline: its results are those of the steps whose completion is logged.
PipeReads(l, n) ==
  /\ \A s \in 1..n : Steps!IsDone(l, s)
  /\ \A s : Has(l, "completed", s) => Has(l, "start", s)
  /\ PipeFiled(l)

PipeWhole ==
  /\ PipeReads(log, Len(results))
  /\ pc = "inside" => LatestMark(log, step) /\ Has(log, "start", step)

PipeLog ==
  kind = "pipeline" =>
    /\ pc = "begin" => log = <<>> /\ results = <<>>
    /\ pc # "inside" /\ pc # "ended" => step = 0
    /\ pc \in {"validate", "evaluate"} \/ status = "success" => Len(results) = NPipeline
    /\ pc # "ended" => status = "running"
    /\ status = "failed" => Len(results) < NPipeline /\ failedAt = Len(results) + 1
    /\ Has(log, "completed", NPipeline) => Len(results) = NPipeline
    /\ attempt = 1 =>
         (\A s : Has(log, "completed", s) => s \in finished) /\ 1..Len(results) \subseteq finished
    /\ lost = 0 => PipeWhole

LogInv == StepsInv /\ FlowLog /\ PipeLog

\* What a write leaves behind for a flow that is at step t.
FlowWritten(t) ==
  /\ \A s : Has(log', "trigger", s) => s <= t
  /\ lost' = 0 => lost = 0 /\ (FlowFiled(log) => FlowFiled(log') /\ Has(log', "trigger", t))

LEMMA TriggerWritten ==
  ASSUME StepsInv, NEW t \in Nat, t >= 1, \A s : Has(log, "trigger", s) => s <= t,
         \/ Steps!Writes(<<Steps!Entry("trigger", t, t)>>)
         \/ Steps!Writes(<<Steps!Entry("trigger", t, t), Steps!Note(t)>>)
  PROVE  FlowWritten(t)
  <1> DEFINE a == Steps!Entry("trigger", t, t)
             b == Steps!Note(t)
             l == Append(log, a)
             m == Append(l, b)
  <1>1. /\ a \in LogEntry /\ a.mark = "trigger" /\ a.step = t /\ a.by = t
        /\ b \in LogEntry /\ b.mark = "none" /\ b.step = 0 /\ b.by = t
    BY EntryIs
  <1>2. Steps!Writes(<<a>>) \/ Steps!Writes(<<a, b>>)
    OBVIOUS
  <1> HIDE DEF a, b
  <1>3. log \in Seq(LogEntry)
    BY LogIsOfEntries
  <1>4. ASSUME FlowFiled(log)
        PROVE  l \in Seq(LogEntry) /\ FlowFiled(l) /\ Furthest(l, t) /\ FlowFiled(m) /\ Furthest(m, t)
    <2>1. l \in Seq(LogEntry) /\ FlowFiled(l) /\ Furthest(l, t)
      BY <1>1, <1>3, <1>4, TriggerOfFlow
    <2>2. b.by \in {0, t}
      BY <1>1
    <2> HIDE DEF l
    <2>3. FlowFiled(m) /\ Furthest(m, t)
      BY <1>1, <2>1, <2>2, NoteOfFlow
    <2> QED
      BY <2>1, <2>3
  <1>5. CASE Steps!Writes(<<a>>)
    <2>1. /\ \A mark, s : Has(log', mark, s) => Has(log, mark, s) \/ (a.mark = mark /\ a.step = s)
          /\ lost' = 0 => lost = 0 /\ log' = l
      BY <1>1, <1>5, WritesOne
    <2> HIDE DEF l, m
    <2> QED
      BY <1>1, <1>4, <2>1 DEF FlowWritten, Furthest
  <1>6. CASE Steps!Writes(<<a, b>>)
    <2>1. /\ \A mark, s : Has(log', mark, s) =>
               Has(log, mark, s) \/ (a.mark = mark /\ a.step = s) \/ (b.mark = mark /\ b.step = s)
          /\ lost' = 0 => lost = 0 /\ log' = m
      BY <1>1, <1>6, WritesTwo
    <2> HIDE DEF l, m
    <2> QED
      BY <1>1, <1>4, <2>1 DEF FlowWritten, Furthest
  <1> QED
    BY <1>2, <1>5, <1>6

LEMMA NoteWritten ==
  ASSUME StepsInv, NEW t \in Nat, t >= 1, \A s : Has(log, "trigger", s) => s <= t,
         lost = 0 => Has(log, "trigger", t), Steps!Writes(<<Steps!Note(t)>>)
  PROVE  FlowWritten(t)
  <1> DEFINE b == Steps!Note(t)
             m == Append(log, b)
  <1>1. b \in LogEntry /\ b.mark = "none" /\ b.step = 0 /\ b.by = t /\ b.by \in {0, t}
    BY EntryIs
  <1>2. Steps!Writes(<<b>>)
    OBVIOUS
  <1> HIDE DEF b
  <1>3. log \in Seq(LogEntry)
    BY LogIsOfEntries
  <1>4. ASSUME FlowFiled(log), lost = 0 PROVE FlowFiled(m) /\ Furthest(m, t)
    <2>1. Furthest(log, t)
      BY <1>4 DEF Furthest
    <2> QED
      BY <1>1, <1>3, <1>4, <2>1, NoteOfFlow
  <1>5. /\ \A mark, s : Has(log', mark, s) => Has(log, mark, s) \/ (b.mark = mark /\ b.step = s)
        /\ lost' = 0 => lost = 0 /\ log' = m
    BY <1>1, <1>2, WritesOne
  <1> HIDE DEF m
  <1> QED
    BY <1>1, <1>4, <1>5 DEF FlowWritten, Furthest

LEMMA ValidatedWritten ==
  ASSUME StepsInv, NEW t \in Nat, NEW u \in Nat, t >= 1, t <= u, \A s : Has(log, "trigger", s) => s <= t,
         lost = 0 => Has(log, "trigger", t),
         Steps!Writes(<<Steps!Note(t), Steps!Note(t), Steps!Entry("trigger", u, u)>>)
  PROVE  FlowWritten(u)
  <1> DEFINE b == Steps!Note(t)
             a == Steps!Entry("trigger", u, u)
             l == Append(log, b)
             m == Append(l, b)
             n == Append(m, a)
  <1>1. /\ b \in LogEntry /\ b.mark = "none" /\ b.step = 0 /\ b.by = t /\ b.by \in {0, t}
        /\ a \in LogEntry /\ a.mark = "trigger" /\ a.step = u /\ a.by = u
    BY EntryIs
  <1>2. Steps!Writes(<<b, b, a>>)
    OBVIOUS
  <1> HIDE DEF a, b
  <1>3. log \in Seq(LogEntry)
    BY LogIsOfEntries
  <1>4. ASSUME FlowFiled(log), lost = 0 PROVE FlowFiled(n) /\ Furthest(n, u)
    <2>1. Furthest(log, t)
      BY <1>4 DEF Furthest
    <2>2. l \in Seq(LogEntry) /\ FlowFiled(l) /\ Furthest(l, t)
      BY <1>1, <1>3, <1>4, <2>1, NoteOfFlow
    <2> HIDE DEF l
    <2>3. m \in Seq(LogEntry) /\ FlowFiled(m) /\ Furthest(m, t)
      BY <1>1, <2>2, NoteOfFlow
    <2>4. \A s : Has(m, "trigger", s) => s <= u
      <3>1. t \in Nat /\ u \in Nat /\ m \in Seq(LogEntry)
        BY <2>3
      <3>2. \A s : Has(m, "trigger", s) => s \in Nat
        BY <3>1, StepIsNat
      <3> HIDE DEF m
      <3> QED
        BY <2>3, <3>1, <3>2 DEF Furthest
    <2>5. u >= 1
      OBVIOUS
    <2> HIDE DEF m
    <2> QED
      BY <1>1, <2>3, <2>4, <2>5, TriggerOfFlow
  <1>5. /\ \A mark, s : Has(log', mark, s) =>
             \/ Has(log, mark, s)
             \/ (b.mark = mark /\ b.step = s) \/ (b.mark = mark /\ b.step = s) \/ (a.mark = mark /\ a.step = s)
        /\ lost' = 0 => lost = 0 /\ log' = n
    BY <1>1, <1>2, WritesThree
  <1>6. \A s : Has(log, "trigger", s) => s \in Nat
    BY <1>3, StepIsNat
  <1>7. \A s : Has(log, "trigger", s) => s <= u
    BY <1>6
  <1> HIDE DEF n
  <1> QED
    BY <1>1, <1>4, <1>5, <1>7 DEF FlowWritten, Furthest

LEMMA FlowGoesOn ==
  ASSUME LogInv, Steps!BeginFlow \/ Steps!FlowStep \/ Steps!FlowReturns
  PROVE  FlowLog' /\ PipeLog'
  <1> DEFINE n == Steps!N
             a == Steps!Entry("trigger", step', step')
             b == Steps!Note(step')
  <1>1. StepsInv /\ FlowLog /\ Steps!TypeOK
    BY StepTypes DEF LogInv
  <1>2. /\ n \in Nat /\ n = NFlow /\ NFlow >= 5 /\ kind = "flow" /\ Steps!Verify = n - 2
        /\ pc = "inside" => step \in 1..NFlow - 3
        /\ UNCHANGED <<kind, status, attempt, failedAt>>
    BY <1>1, StepCount DEF StepsInv, Steps!BeginFlow, Steps!FlowStep, Steps!FlowReturns, Steps!run, Steps!history
  <1>3. /\ \/ pc = "begin" /\ step' = 1 /\ pc' = "inside" /\ finished' = finished
           \/ pc = "inside" /\ step' = step + 1 /\ pc' = "inside" /\ finished' = finished \cup {step} /\ step' < n - 2
           \/ pc = "inside" /\ step' = step + 1 /\ pc' = "validate" /\ finished' = finished \cup {step} /\ step' = n - 2
        /\ Steps!Writes(<<a>>) \/ Steps!Writes(<<a, b>>)
    <2>1. CASE Steps!BeginFlow
      BY <2>1 DEF Steps!BeginFlow, Steps!history
    <2>2. CASE Steps!FlowStep
      <3>1. n \in Nat /\ step \in 0..n
        BY <1>1, <1>2, StepTypes
      <3>2. pc = "inside" /\ step + 1 < n - 2 /\ step' = step + 1 /\ pc' = pc /\ finished' = finished \cup {step}
        BY <1>2, <2>2 DEF Steps!FlowStep
      <3>3. PICK notes \in {<<>>, <<b>>} : Steps!Writes(<<a>> \o notes)
        BY <2>2 DEF Steps!FlowStep
      <3>4. step' \in Nat
        BY <3>1, <3>2
      <3>5. a \in LogEntry /\ b \in LogEntry
        BY <3>4, EntryIs
      <3> HIDE DEF a, b
      <3>6. <<a>> \o <<>> = <<a>> /\ <<a>> \o <<b>> = <<a, b>>
        <4>1. <<>> \in Seq(LogEntry)
          BY <3>5, Listed
        <4> QED
          BY <3>5, <4>1, Glued
      <3>7. Steps!Writes(<<a>>) \/ Steps!Writes(<<a, b>>)
        BY <3>3, <3>6
      <3> QED
        BY <3>2, <3>7
    <2>3. CASE Steps!FlowReturns
      BY <1>2, <2>3 DEF Steps!FlowReturns
    <2> QED
      BY <2>1, <2>2, <2>3
  <1>4. step' \in 1..NFlow /\ (pc = "begin" => step = 0 /\ log = <<>> /\ attempt = 1) /\ step \in 0..NFlow /\ step <= step'
        /\ status = "running"
    BY <1>1, <1>2, <1>3, StepTypes DEF FlowLog
  <1>5. ASSUME attempt = 1 PROVE FlowWritten(step')
    <2>1. \A s : Has(log, "trigger", s) => s <= step /\ s \in Nat
      <3>1. log \in Seq(LogEntry)
        BY <1>1, LogIsOfEntries
      <3> QED
        BY <1>1, <1>2, <1>4, <1>5, <3>1, StepIsNat DEF FlowLog, FlowFirst
    <2>2. step' \in Nat /\ step' >= 1 /\ \A s : Has(log, "trigger", s) => s <= step'
      BY <1>2, <1>4, <2>1
    <2> QED
      BY <1>1, <1>3, <2>2, TriggerWritten
  <1>6. ASSUME attempt = 1 PROVE FlowFirst'
    <2>1. /\ \A s \in 1..NFlow : s < step => s \in finished
          /\ lost = 0 => FlowFiled(log)
      BY <1>1, <1>2, <1>6 DEF FlowLog, FlowFirst
    <2>2. \A s \in 1..NFlow : s < step' => s \in finished'
      BY <1>2, <1>3, <1>4, <2>1
    <2>3. /\ \A s : Has(log', "trigger", s) => s <= step'
          /\ lost' = 0 => FlowFiled(log') /\ Has(log', "trigger", step')
      BY <1>5, <1>6, <2>1 DEF FlowWritten
    <2>4. status' = "running"
      BY <1>2, <1>4
    <2> QED
      BY <2>2, <2>3, <2>4 DEF FlowFirst
  <1> QED
    BY <1>2, <1>3, <1>4, <1>6 DEF FlowLog, PipeLog

LEMMA PipeNote ==
  ASSUME NEW l \in Seq(LogEntry), NEW e \in LogEntry, NEW m, m = Append(l, e), NEW n \in Nat, PipeReads(l, n),
         e.mark = "none", NEW s \in Nat, e.by = 0 \/ (e.by = s /\ LatestMark(l, s))
  PROVE  m \in Seq(LogEntry) /\ PipeReads(m, n) /\ (LatestMark(l, s) => LatestMark(m, s))
  <1>1. m \in Seq(LogEntry) /\ PipeFiled(l)
    BY OneMore DEF PipeReads
  <1>2. \A mark, t : mark # "none" => (Has(m, mark, t) <=> Has(l, mark, t))
    BY HasMore
  <1>3. \A t : Steps!IsDone(l, t) => Steps!IsDone(m, t)
    BY DoneMore
  <1>4. ASSUME LatestMark(l, s) PROVE LatestMark(m, s) /\ PipeFiled(m)
    <2>1. e.by \in {0, s}
      OBVIOUS
    <2> QED
      BY <1>1, <1>4, <2>1, NoteOfStep
  <1>5. PipeFiled(m)
    <2>1. CASE e.by = 0
      BY <1>1, <2>1, NoteOfNone
    <2> QED
      BY <1>4, <2>1
  <1> QED
    BY <1>1, <1>2, <1>3, <1>4, <1>5 DEF PipeReads

LEMMA PipeStart ==
  ASSUME NEW l \in Seq(LogEntry), NEW e \in LogEntry, NEW m, m = Append(l, e), NEW n \in Nat, PipeReads(l, n),
         e.mark = "start", e.by = e.step
  PROVE  PipeReads(m, n) /\ LatestMark(m, e.step) /\ Has(m, "start", e.step)
  <1>1. PipeFiled(l) /\ e.mark \in {"start", "completed"} /\ e.by \in {0, e.step}
    BY DEF PipeReads
  <1>2. LatestMark(m, e.step) /\ PipeFiled(m)
    BY <1>1, MarkOfStep
  <1>3. \A mark, t : Has(m, mark, t) <=> Has(l, mark, t) \/ (mark = "start" /\ t = e.step)
    <2>1. \A mark, t : Has(m, mark, t) <=> Has(l, mark, t) \/ (e.mark = mark /\ e.step = t)
      BY HasMore
    <2> QED
      BY <2>1
  <1>4. \A t : Steps!IsDone(l, t) => Steps!IsDone(m, t)
    BY DoneMore
  <1> QED
    BY <1>2, <1>3, <1>4 DEF PipeReads

LEMMA PipeComplete ==
  ASSUME NEW l \in Seq(LogEntry), NEW e \in LogEntry, NEW m, m = Append(l, e), NEW n \in Nat, PipeReads(l, n),
         e.mark = "completed", e.step = n + 1, e.by = n + 1, Has(l, "start", n + 1)
  PROVE  PipeReads(m, n + 1)
  <1>1. PipeFiled(l) /\ e.mark \in {"start", "completed"} /\ e.by \in {0, e.step}
    BY DEF PipeReads
  <1>2. PipeFiled(m)
    BY <1>1, MarkOfStep
  <1>3. \A mark, t : Has(m, mark, t) <=> Has(l, mark, t) \/ (mark = "completed" /\ t = n + 1)
    <2>1. \A mark, t : Has(m, mark, t) <=> Has(l, mark, t) \/ (e.mark = mark /\ e.step = t)
      BY HasMore
    <2> QED
      BY <2>1
  <1>4. \A t : Steps!IsDone(l, t) => Steps!IsDone(m, t)
    BY DoneMore
  <1>5. Steps!IsDone(m, n + 1)
    BY DoneMore
  <1>6. \A t \in 1..(n + 1) : t \in 1..n \/ t = n + 1
    OBVIOUS
  <1> QED
    BY <1>2, <1>3, <1>4, <1>5, <1>6 DEF PipeReads

\* Notes that belong to the step at work, or to none.
LEMMA NotesWritten ==
  ASSUME StepsInv, NEW s \in Nat, NEW n \in Nat, s # 0 /\ lost = 0 => LatestMark(log, s),
         LET b == Steps!Note(s)
         IN  Steps!Writes(<<b>>) \/ Steps!Writes(<<b, b>>) \/ Steps!Writes(<<b, b, b>>)
  PROVE  /\ \A mark, t : mark # "none" /\ Has(log', mark, t) => Has(log, mark, t)
         /\ lost' = 0 => lost = 0 /\ (PipeReads(log, n) => PipeReads(log', n))
  <1> DEFINE b == Steps!Note(s)
             l == Append(log, b)
             m == Append(l, b)
             k == Append(m, b)
  <1>1. b \in LogEntry /\ b.mark = "none" /\ b.by = s
    BY EntryIs
  <1>2. Steps!Writes(<<b>>) \/ Steps!Writes(<<b, b>>) \/ Steps!Writes(<<b, b, b>>)
    OBVIOUS
  <1> HIDE DEF b
  <1>3. /\ \A mark, t : mark # "none" /\ Has(log', mark, t) => Has(log, mark, t)
        /\ lost' = 0 => lost = 0 /\ log' \in {l, m, k}
    <2>1. CASE Steps!Writes(<<b>>)
      <3>1. /\ \A mark, t : Has(log', mark, t) => Has(log, mark, t) \/ (b.mark = mark /\ b.step = t)
            /\ lost' = 0 => lost = 0 /\ log' = l
        BY <1>1, <2>1, WritesOne
      <3> HIDE DEF l, m, k
      <3> QED
        BY <1>1, <3>1
    <2>2. CASE Steps!Writes(<<b, b>>)
      <3>1. /\ \A mark, t : Has(log', mark, t) =>
                 Has(log, mark, t) \/ (b.mark = mark /\ b.step = t) \/ (b.mark = mark /\ b.step = t)
            /\ lost' = 0 => lost = 0 /\ log' = m
        BY <1>1, <2>2, WritesTwo
      <3> HIDE DEF l, m, k
      <3> QED
        BY <1>1, <3>1
    <2>3. CASE Steps!Writes(<<b, b, b>>)
      <3>1. /\ \A mark, t : Has(log', mark, t) =>
                 \/ Has(log, mark, t)
                 \/ (b.mark = mark /\ b.step = t) \/ (b.mark = mark /\ b.step = t) \/ (b.mark = mark /\ b.step = t)
            /\ lost' = 0 => lost = 0 /\ log' = k
        BY <1>1, <2>3, WritesThree
      <3> HIDE DEF l, m, k
      <3> QED
        BY <1>1, <3>1
    <2> QED
      BY <1>2, <2>1, <2>2, <2>3
  <1>4. ASSUME PipeReads(log, n), lost = 0 PROVE PipeReads(l, n) /\ PipeReads(m, n) /\ PipeReads(k, n)
    <2>0. log \in Seq(LogEntry) /\ (s = 0 \/ LatestMark(log, s))
      BY <1>4, LogIsOfEntries
    <2>1. l \in Seq(LogEntry) /\ PipeReads(l, n) /\ (LatestMark(log, s) => LatestMark(l, s))
      BY <1>1, <1>4, <2>0, PipeNote
    <2> HIDE DEF l
    <2>2. m \in Seq(LogEntry) /\ PipeReads(m, n) /\ (LatestMark(l, s) => LatestMark(m, s))
      BY <1>1, <2>0, <2>1, PipeNote
    <2> HIDE DEF m
    <2>3. PipeReads(k, n)
      BY <1>1, <2>0, <2>1, <2>2, PipeNote
    <2> QED
      BY <2>1, <2>2, <2>3
  <1> HIDE DEF l, m, k
  <1> QED
    BY <1>3, <1>4

\* The state of a pipeline that nothing but its log disturbs.
LEMMA PipelineBeginsAndReturns ==
  ASSUME LogInv, Steps!BeginPipeline \/ Steps!PipelineReturns
  PROVE  FlowLog' /\ PipeLog'
  <1>1. StepsInv /\ PipeLog /\ Steps!TypeOK
    BY StepTypes DEF LogInv
  <1>2. /\ Steps!Writes(<<Steps!Note(0)>>) /\ kind = "pipeline" /\ Steps!N = NPipeline /\ Len(results) \in Nat
        /\ UNCHANGED <<kind, status, attempt, step, results, finished, failedAt>>
        /\ \/ pc = "begin" /\ pc' = "step"
           \/ pc = "step" /\ pc' = "validate" /\ Len(results) = NPipeline
    <2>1. /\ kind \in {"flow", "pipeline"} /\ (kind = "pipeline" => Steps!N = NPipeline) /\ Len(results) \in Nat
          /\ kind = "flow" => pc # "step"
      BY <1>1, StepCount, StepTypes DEF StepsInv
    <2>2. CASE Steps!BeginPipeline
      BY <2>1, <2>2 DEF Steps!BeginPipeline, Steps!run, Steps!history
    <2>3. CASE Steps!PipelineReturns
      BY <2>1, <2>3 DEF Steps!PipelineReturns, Steps!run, Steps!history
    <2> QED
      BY <2>2, <2>3
  <1>3. /\ \A mark, t : mark # "none" /\ Has(log', mark, t) => Has(log, mark, t)
        /\ lost' = 0 => lost = 0 /\ (PipeReads(log, Len(results)) => PipeReads(log', Len(results)))
    <2> DEFINE n == Len(results)
    <2>1. n \in Nat /\ 0 \in Nat
      BY <1>2
    <2> HIDE DEF n
    <2>2. /\ \A mark, t : mark # "none" /\ Has(log', mark, t) => Has(log, mark, t)
          /\ lost' = 0 => lost = 0 /\ (PipeReads(log, n) => PipeReads(log', n))
      BY <1>1, <1>2, <2>1, NotesWritten
    <2> QED
      BY <2>2 DEF n
  <1> QED
    BY <1>1, <1>2, <1>3 DEF PipeLog, FlowLog, PipeWhole

LEMMA PipelineStarts ==
  ASSUME LogInv, Steps!StartStep
  PROVE  FlowLog' /\ PipeLog'
  <1> DEFINE n == Len(results)
             a == Steps!Entry("start", n + 1, n + 1)
  <1>1. StepsInv /\ PipeLog /\ Steps!TypeOK
    BY StepTypes DEF LogInv
  <1>2. n \in Nat /\ kind = "pipeline"
    BY <1>1, StepCount, StepTypes DEF StepsInv, Steps!StartStep
  <1>3. /\ Steps!Writes(<<a>>) /\ pc = "step" /\ pc' = "inside" /\ step' = n + 1
        /\ UNCHANGED <<kind, status, attempt, results, finished, failedAt>>
    BY DEF Steps!StartStep, Steps!run
  <1>4. a \in LogEntry /\ a.mark = "start" /\ a.step = n + 1 /\ a.by = n + 1
    <2>1. n + 1 \in Nat
      BY <1>2
    <2> HIDE DEF n
    <2> QED
      BY <2>1, EntryIs
  <1> HIDE DEF a
  <1>5. /\ \A mark, s : Has(log', mark, s) => Has(log, mark, s) \/ (a.mark = mark /\ a.step = s)
        /\ lost' = 0 => lost = 0 /\ log' = Append(log, a)
    BY <1>1, <1>3, <1>4, WritesOne
  <1>6. ASSUME lost' = 0
        PROVE  PipeReads(log', n) /\ LatestMark(log', n + 1) /\ Has(log', "start", n + 1)
    <2>1. log \in Seq(LogEntry) /\ lost = 0 /\ log' = Append(log, a)
      BY <1>1, <1>5, <1>6, LogIsOfEntries
    <2>2. PipeReads(log, n)
      BY <1>1, <1>2, <2>1 DEF PipeLog, PipeWhole
    <2>3. a.by = a.step
      BY <1>4
    <2> HIDE DEF n
    <2>4. PipeReads(log', n) /\ LatestMark(log', a.step) /\ Has(log', "start", a.step)
      BY <1>2, <1>4, <2>1, <2>2, <2>3, PipeStart
    <2> QED
      BY <1>4, <2>4
  <1>7. \A s : Has(log', "completed", s) => Has(log, "completed", s)
    BY <1>4, <1>5
  <1> QED
    BY <1>1, <1>2, <1>3, <1>6, <1>7 DEF PipeLog, FlowLog, PipeWhole

LEMMA PipelineCompletes ==
  ASSUME LogInv, Steps!CompleteStep
  PROVE  FlowLog' /\ PipeLog'
  <1> DEFINE n == Len(results)
             a == Steps!Entry("completed", step, step)
             b == Steps!Note(step)
             l == Append(log, b)
  <1>1. StepsInv /\ PipeLog /\ Steps!TypeOK
    BY StepTypes DEF LogInv
  <1>2. /\ n \in Nat /\ kind = "pipeline" /\ pc = "inside" /\ step = n + 1 /\ step <= NPipeline /\ status = "running"
        /\ NPipeline \in Nat
    BY <1>1, StepCount, StepTypes DEF StepsInv, PipeLog, Steps!CompleteStep
  <1>3. /\ results' = Append(results, attempt) /\ finished' = finished \cup {step}
        /\ step' = 0 /\ pc' = "step" /\ UNCHANGED <<kind, status, attempt, failedAt>>
    BY DEF Steps!CompleteStep, Steps!run
  <1>4. Len(results') = n + 1
    BY <1>3, StepTypes, <1>1
  <1>5. /\ a \in LogEntry /\ a.mark = "completed" /\ a.step = n + 1 /\ a.by = n + 1
        /\ b \in LogEntry /\ b.mark = "none" /\ b.by = n + 1
    <2>1. step \in Nat /\ step = n + 1
      BY <1>2
    <2> HIDE DEF n
    <2> QED
      BY <2>1, EntryIs
  <1>6. Steps!Writes(<<a>>) \/ Steps!Writes(<<b, a>>)
    <2>1. PICK notes \in {<<>>, <<b>>} : Steps!Writes(notes \o <<a>>)
      BY DEF Steps!CompleteStep
    <2> HIDE DEF a, b
    <2>2. <<>> \o <<a>> = <<a>> /\ <<b>> \o <<a>> = <<b, a>>
      <3>1. <<>> \in Seq(LogEntry)
        BY <1>5, Listed
      <3> QED
        BY <1>5, <3>1, Glued
    <2> QED
      BY <2>1, <2>2
  <1> HIDE DEF a, b
  <1>7. /\ \A mark, s : mark # "none" /\ Has(log', mark, s) => Has(log, mark, s) \/ (a.mark = mark /\ a.step = s)
        /\ lost' = 0 => lost = 0 /\ (log' = Append(log, a) \/ log' = Append(l, a))
    <2>1. CASE Steps!Writes(<<a>>)
      <3>1. /\ \A mark, s : Has(log', mark, s) => Has(log, mark, s) \/ (a.mark = mark /\ a.step = s)
            /\ lost' = 0 => lost = 0 /\ log' = Append(log, a)
        BY <1>1, <1>5, <2>1, WritesOne
      <3> QED
        BY <3>1
    <2>2. CASE Steps!Writes(<<b, a>>)
      <3>1. /\ \A mark, s : Has(log', mark, s) =>
                 Has(log, mark, s) \/ (b.mark = mark /\ b.step = s) \/ (a.mark = mark /\ a.step = s)
            /\ lost' = 0 => lost = 0 /\ log' = Append(l, a)
        BY <1>1, <1>5, <2>2, WritesTwo
      <3> HIDE DEF l
      <3> QED
        BY <1>5, <3>1
    <2> QED
      BY <1>6, <2>1, <2>2
  <1>8. ASSUME lost' = 0 PROVE PipeReads(log', n + 1)
    <2>1. /\ log \in Seq(LogEntry) /\ PipeReads(log, n) /\ LatestMark(log, n + 1) /\ Has(log, "start", n + 1)
      <3>1. log \in Seq(LogEntry) /\ lost = 0
        BY <1>1, <1>7, <1>8, LogIsOfEntries
      <3> QED
        BY <1>1, <1>2, <3>1 DEF PipeLog, PipeWhole
    <2>2. n \in Nat /\ n + 1 \in Nat
      BY <1>2
    <2> HIDE DEF n
    <2>3. l \in Seq(LogEntry) /\ PipeReads(l, n)
      BY <1>5, <2>1, <2>2, PipeNote
    <2>4. Has(l, "start", n + 1)
      BY <1>5, <2>1, HasMore
    <2>5. PipeReads(Append(log, a), n + 1)
      BY <1>5, <2>1, <2>2, PipeComplete
    <2> HIDE DEF l
    <2>6. PipeReads(Append(l, a), n + 1)
      BY <1>5, <2>2, <2>3, <2>4, PipeComplete
    <2> QED
      BY <1>7, <1>8, <2>5, <2>6
  <1>9. \A s : Has(log', "completed", s) => Has(log, "completed", s) \/ s = n + 1
    BY <1>5, <1>7
  <1>10. Has(log', "completed", NPipeline) => Len(results') = NPipeline
    <2>1. Has(log, "completed", NPipeline) => n = NPipeline
      BY <1>1, <1>2 DEF PipeLog
    <2> HIDE DEF n
    <2> QED
      BY <1>2, <1>4, <1>9, <2>1
  <1>11. ASSUME attempt = 1
         PROVE  (\A s : Has(log', "completed", s) => s \in finished') /\ 1..Len(results') \subseteq finished'
    <2>1. (\A s : Has(log, "completed", s) => s \in finished) /\ 1..n \subseteq finished
      BY <1>1, <1>2, <1>11 DEF PipeLog
    <2> HIDE DEF n
    <2> QED
      BY <1>2, <1>3, <1>4, <1>9, <2>1
  <1>12. lost' = 0 => PipeReads(log', Len(results'))
    BY <1>4, <1>8
  <1> QED
    BY <1>2, <1>3, <1>10, <1>11, <1>12 DEF PipeLog, FlowLog, PipeWhole

\* An attempt that is taken again leaves a log that is read in part only.
LEMMA FlowAgain ==
  ASSUME LogInv, kind = "flow", Steps!Again, pc \in {"inside", "validate"}
  PROVE  FlowLog' /\ PipeLog'
  <1>1. StepsInv /\ FlowLog /\ Steps!TypeOK /\ attempt \in Nat /\ attempt >= 1
    BY StepTypes DEF LogInv
  <1>2. /\ attempt' = attempt + 1 /\ step' = 1 /\ pc' = "inside" /\ UNCHANGED <<kind, status>>
    BY DEF Steps!Again, Steps!run
  <1>3. NFlow \in Nat /\ NFlow >= 5 /\ status = "running"
    BY <1>1, StepCount DEF FlowLog
  <1>4. attempt' # 1 /\ step' \in 1..NFlow
    BY <1>1, <1>2, <1>3
  <1> QED
    BY <1>2, <1>3, <1>4 DEF FlowLog, PipeLog

LEMMA FlowFails ==
  ASSUME LogInv, kind = "flow", kind' = kind, pc \in {"inside", "evaluate"}, Steps!Writes(<<Steps!Note(step)>>),
         pc' = "ended", status' = "failed", failedAt' = step, UNCHANGED <<attempt, step, finished>>
  PROVE  FlowLog' /\ PipeLog'
  <1>1. StepsInv /\ FlowLog /\ status = "running" /\ step \in 1..NFlow /\ NFlow \in Nat
    <2>1. Steps!TypeOK
      BY StepTypes DEF LogInv
    <2> QED
      BY <2>1, StepCount DEF LogInv, FlowLog
  <1>2. ASSUME attempt = 1 PROVE FlowFirst'
    <2>1. /\ \A s \in 1..NFlow : s < step => s \in finished
          /\ \A s : Has(log, "trigger", s) => s <= step
          /\ lost = 0 => FlowFiled(log) /\ Has(log, "trigger", step)
      BY <1>1, <1>2 DEF FlowLog, FlowFirst
    <2>2. step \in Nat /\ step >= 1
      BY <1>1
    <2>3. FlowWritten(step)
      BY <1>1, <2>1, <2>2, NoteWritten
    <2> QED
      BY <2>1, <2>3 DEF FlowFirst, FlowWritten
  <1> QED
    BY <1>1, <1>2 DEF FlowLog, PipeLog

LEMMA PipelineFails ==
  ASSUME LogInv, Steps!Raises, kind = "pipeline"
  PROVE  FlowLog' /\ PipeLog'
  <1> DEFINE n == Len(results)
             b == Steps!Note(step)
  <1>1. StepsInv /\ PipeLog /\ Steps!TypeOK /\ attempt \in Nat /\ attempt >= 1
    BY StepTypes DEF LogInv
  <1>2. n \in Nat /\ step \in Nat /\ Steps!N = NPipeline /\ NPipeline \in Nat /\ n < NPipeline /\ status = "running"
        /\ pc \in {"inside", "step"} /\ (pc = "inside" => step = n + 1) /\ (pc = "step" => step = 0)
    <2>1. n \in Nat /\ step \in 0..NPipeline /\ Steps!N = NPipeline /\ NPipeline \in Nat
      BY <1>1, StepCount, StepTypes
    <2>2. pc = "inside" \/ (pc = "step" /\ n < NPipeline)
      BY <2>1 DEF Steps!Raises
    <2>3. (pc = "inside" => step = n + 1 /\ step <= NPipeline) /\ (pc = "step" => step = 0) /\ status = "running"
      BY <1>1, <2>2 DEF StepsInv, PipeLog
    <2> HIDE DEF n
    <2> QED
      BY <2>1, <2>2, <2>3
  <1>3. /\ failedAt' = n + 1
        /\ \/ Steps!Again /\ Steps!Writes(<<b, b>>)
           \/ /\ Steps!Writes(<<b>>) /\ pc' = "ended" /\ status' = "failed"
              /\ UNCHANGED <<kind, attempt, step, results, finished>>
    <2>1. failedAt' = IF pc = "inside" THEN step ELSE n + 1
      BY DEF Steps!Raises
    <2>2. \/ Steps!Again /\ Steps!Writes(<<b, b>>)
          \/ /\ Steps!Writes(<<b>>) /\ pc' = "ended" /\ status' = "failed"
             /\ UNCHANGED <<kind, attempt, step, results, finished>>
      BY DEF Steps!Raises, Steps!run
    <2> HIDE DEF n
    <2> QED
      BY <1>2, <2>1, <2>2
  <1>4. /\ \A mark, t : mark # "none" /\ Has(log', mark, t) => Has(log, mark, t)
        /\ lost' = 0 => lost = 0 /\ (PipeReads(log, n) => PipeReads(log', n))
    <2>1. step # 0 /\ lost = 0 => LatestMark(log, step)
      BY <1>1, <1>2 DEF PipeLog, PipeWhole
    <2>2. Steps!Writes(<<b>>) \/ Steps!Writes(<<b, b>>)
      BY <1>3
    <2> HIDE DEF n
    <2> QED
      BY <1>1, <1>2, <2>1, <2>2, NotesWritten
  <1>5. ~Has(log', "completed", NPipeline)
    <2>1. ~Has(log, "completed", NPipeline)
      BY <1>1, <1>2 DEF PipeLog
    <2> QED
      BY <1>4, <2>1
  <1>6. lost' = 0 => PipeReads(log', n) /\ PipeReads(log', 0)
    <2>1. lost = 0 => PipeReads(log, n)
      BY <1>1 DEF PipeLog, PipeWhole
    <2>2. \A s \in 1..0 : FALSE
      OBVIOUS
    <2> HIDE DEF n
    <2> QED
      BY <1>4, <2>1, <2>2 DEF PipeReads
  <1>7. CASE Steps!Again
    <2>1. /\ attempt' = attempt + 1 /\ results' = <<>> /\ step' = 0 /\ pc' = "step" /\ UNCHANGED <<kind, status>>
      BY <1>7 DEF Steps!Again, Steps!ResultsAfresh, Steps!run
    <2>2. attempt' # 1 /\ Len(results') = 0
      BY <1>1, <2>1
    <2>3. lost' = 0 => PipeReads(log', Len(results'))
      BY <1>6, <2>2
    <2> HIDE DEF n
    <2> QED
      BY <1>2, <1>5, <2>1, <2>2, <2>3 DEF PipeLog, FlowLog, PipeWhole
  <1>8. CASE /\ Steps!Writes(<<b>>) /\ pc' = "ended" /\ status' = "failed"
             /\ UNCHANGED <<kind, attempt, step, results, finished>>
    <2>1. attempt = 1 => (\A s : Has(log', "completed", s) => s \in finished) /\ 1..n \subseteq finished
      BY <1>1, <1>4 DEF PipeLog
    <2>2. Len(results') = n
      BY <1>8
    <2> QED
      BY <1>2, <1>3, <1>5, <1>6, <1>8, <2>1, <2>2 DEF PipeLog, FlowLog, PipeWhole
  <1> QED
    BY <1>3, <1>7, <1>8

LEMMA AttemptsEnd ==
  ASSUME LogInv, Steps!Raises \/ Steps!Refuses
  PROVE  FlowLog' /\ PipeLog'
  <1>1. kind \in {"flow", "pipeline"} /\ (kind = "flow" => pc # "step")
    <2>1. Steps!TypeOK
      BY StepTypes DEF LogInv
    <2> QED
      BY <2>1, StepCount DEF LogInv, StepsInv
  <1>2. CASE Steps!Refuses
    <2>1. kind = "flow" /\ Steps!Again /\ pc \in {"inside", "validate"}
      BY <1>2 DEF Steps!Refuses
    <2> QED
      BY <2>1, FlowAgain
  <1>3. CASE Steps!Raises /\ kind = "flow"
    <2>1. pc = "inside"
      BY <1>1, <1>3 DEF Steps!Raises
    <2>2. CASE Steps!Again
      BY <1>3, <2>1, <2>2, FlowAgain
    <2>3. CASE ~Steps!MoreAttempts
      <3>1. /\ Steps!Writes(<<Steps!Note(step)>>) /\ pc' = "ended" /\ status' = "failed" /\ failedAt' = step
            /\ UNCHANGED <<kind, attempt, step, finished>>
        BY <1>3, <2>1, <2>3 DEF Steps!Raises, Steps!run
      <3> QED
        BY <1>3, <2>1, <3>1, FlowFails
    <2> QED
      BY <1>3, <2>2, <2>3 DEF Steps!Raises
  <1>4. CASE Steps!Raises /\ kind = "pipeline"
    BY <1>4, PipelineFails
  <1> QED
    BY <1>1, <1>2, <1>3, <1>4

LEMMA Validated ==
  ASSUME LogInv, Steps!Validates
  PROVE  FlowLog' /\ PipeLog'
  <1>1. StepsInv /\ FlowLog /\ PipeLog /\ Steps!TypeOK
    BY StepTypes DEF LogInv
  <1>2. /\ kind \in {"flow", "pipeline"} /\ NFlow \in Nat /\ NFlow >= 5 /\ Len(results) \in Nat
        /\ kind = "flow" => Steps!Verify = NFlow - 2 /\ Steps!Evaluate = NFlow - 1
    BY <1>1, StepCount, StepTypes
  <1>3. /\ pc = "validate" /\ pc' = "evaluate" /\ finished' = finished \cup {step}
        /\ UNCHANGED <<kind, status, attempt, results, failedAt>>
    BY DEF Steps!Validates, Steps!run
  <1>4. CASE kind = "flow"
    <2>1. /\ step = NFlow - 2 /\ step' = NFlow - 1 /\ status = "running"
          /\ Steps!Writes(<<Steps!Note(step), Steps!Note(step), Steps!Entry("trigger", step', step')>>)
      BY <1>1, <1>2, <1>3, <1>4 DEF FlowLog, Steps!Validates
    <2>2. step \in Nat /\ step' \in Nat /\ step >= 1 /\ step <= step' /\ step' \in 1..NFlow /\ step' = step + 1
      BY <1>2, <2>1
    <2>3. ASSUME attempt = 1 PROVE FlowFirst'
      <3>1. /\ \A s \in 1..NFlow : s < step => s \in finished
            /\ \A s : Has(log, "trigger", s) => s <= step
            /\ lost = 0 => FlowFiled(log) /\ Has(log, "trigger", step)
        BY <1>1, <1>3, <1>4, <2>1, <2>3 DEF FlowLog, FlowFirst
      <3>2. FlowWritten(step')
        BY <1>1, <2>1, <2>2, <3>1, ValidatedWritten
      <3>3. \A s \in 1..NFlow : s < step' => s \in finished'
        BY <1>2, <1>3, <2>2, <3>1
      <3>4. status' = "running"
        BY <1>3, <2>1
      <3> QED
        BY <3>1, <3>2, <3>3, <3>4 DEF FlowFirst, FlowWritten
    <2> QED
      BY <1>3, <1>4, <2>1, <2>2, <2>3 DEF FlowLog, PipeLog
  <1>5. CASE kind = "pipeline"
    <2> DEFINE b == Steps!Note(0)
               n == Len(results)
    <2>1. Steps!Writes(<<b, b, b>>) /\ step' = step /\ step = 0 /\ status = "running" /\ n = NPipeline
      BY <1>1, <1>3, <1>5 DEF PipeLog, Steps!Validates
    <2>2. /\ \A mark, t : mark # "none" /\ Has(log', mark, t) => Has(log, mark, t)
          /\ lost' = 0 => lost = 0 /\ (PipeReads(log, n) => PipeReads(log', n))
      <3>1. 0 \in Nat /\ n \in Nat
        BY <1>2
      <3> HIDE DEF n
      <3> QED
        BY <1>1, <2>1, <3>1, NotesWritten
    <2>3. attempt = 1 =>
            (\A s : Has(log', "completed", s) => s \in finished') /\ 1..n \subseteq finished'
      BY <1>1, <1>3, <1>5, <2>2 DEF PipeLog
    <2> QED
      BY <1>1, <1>3, <1>5, <2>1, <2>2, <2>3 DEF FlowLog, PipeLog, PipeWhole
  <1> QED
    BY <1>2, <1>4, <1>5

LEMMA Ended ==
  ASSUME LogInv, Steps!Ends
  PROVE  FlowLog' /\ PipeLog'
  <1>1. StepsInv /\ FlowLog /\ PipeLog /\ Steps!TypeOK
    BY StepTypes DEF LogInv
  <1>2. /\ kind \in {"flow", "pipeline"} /\ NFlow \in Nat /\ NFlow >= 5 /\ Len(results) \in Nat
        /\ kind = "flow" => Steps!Done = NFlow /\ Steps!Evaluate = NFlow - 1
    BY <1>1, StepCount, StepTypes
  <1>3. /\ pc = "evaluate" /\ pc' = "ended"
        /\ UNCHANGED <<kind, attempt, step, results>>
    BY DEF Steps!Ends, Steps!run
  <1>4. CASE kind = "flow" /\ status' = "success"
    <2> DEFINE a == Steps!Entry("trigger", NFlow, NFlow)
    <2>1. step = NFlow - 1 /\ finished' = finished \cup {step, NFlow} /\ Steps!Writes(<<a>>)
      BY <1>1, <1>2, <1>3, <1>4 DEF FlowLog, Steps!Ends
    <2>2. step \in Nat /\ step \in 1..NFlow /\ NFlow >= 1 /\ \A s \in 1..NFlow : s < step \/ s = step \/ s = NFlow
      BY <1>2, <2>1
    <2>3. lost' = 0 => Has(log', "trigger", NFlow)
      <3>1. a \in LogEntry /\ a.mark = "trigger" /\ a.step = NFlow
        BY <1>2, EntryIs
      <3> HIDE DEF a
      <3>2. lost' = 0 => log' = Append(log, a)
        BY <1>1, <2>1, <3>1, WritesOne
      <3>3. log \in Seq(LogEntry)
        BY <1>1, LogIsOfEntries
      <3> QED
        BY <3>1, <3>2, <3>3, HasMore
    <2>4. ASSUME attempt = 1 PROVE FlowFirst'
      <3>1. /\ \A s \in 1..NFlow : s < step => s \in finished
            /\ \A s : Has(log, "trigger", s) => s <= step
            /\ lost = 0 => FlowFiled(log)
        BY <1>1, <1>3, <1>4, <2>4 DEF FlowLog, FlowFirst
      <3>2. \A s : Has(log, "trigger", s) => s <= NFlow
        <4>1. log \in Seq(LogEntry)
          BY <1>1, LogIsOfEntries
        <4>2. \A s : Has(log, "trigger", s) => s \in Nat
          BY <4>1, StepIsNat
        <4> QED
          BY <1>2, <2>1, <3>1, <4>2
      <3>3. FlowWritten(NFlow)
        BY <1>1, <1>2, <2>1, <2>2, <3>2, TriggerWritten
      <3>4. 1..NFlow \subseteq finished'
        BY <2>1, <2>2, <3>1
      <3>5. lost' = 0 => FlowFiled(log')
        BY <3>1, <3>3 DEF FlowWritten
      <3>6. \A s \in 1..NFlow : s < step' => s \in finished'
        BY <3>4
      <3> QED
        BY <1>4, <3>4, <3>5, <3>6 DEF FlowFirst
    <2> QED
      BY <1>3, <1>4, <2>2, <2>3, <2>4 DEF FlowLog, PipeLog
  <1>5. CASE kind = "flow" /\ status' = "failed"
    <2>1. /\ step = NFlow - 1 /\ finished' = finished /\ failedAt' = step
          /\ Steps!Writes(<<Steps!Note(step)>>)
      BY <1>1, <1>2, <1>3, <1>5 DEF FlowLog, Steps!Ends
    <2> QED
      BY <1>3, <1>5, <2>1, FlowFails
  <1>6. CASE kind = "pipeline"
    <2> DEFINE b == Steps!Note(0)
               n == Len(results)
    <2>1. Steps!Writes(<<b>>) /\ status' = "success" /\ finished' = finished \cup {step, Steps!Done} /\ n = NPipeline
      BY <1>1, <1>3, <1>6 DEF PipeLog, Steps!Ends
    <2>2. /\ \A mark, t : mark # "none" /\ Has(log', mark, t) => Has(log, mark, t)
          /\ lost' = 0 => lost = 0 /\ (PipeReads(log, n) => PipeReads(log', n))
      <3>1. 0 \in Nat /\ n \in Nat
        BY <1>2
      <3> HIDE DEF n
      <3> QED
        BY <1>1, <2>1, <3>1, NotesWritten
    <2>3. attempt = 1 =>
            (\A s : Has(log', "completed", s) => s \in finished') /\ 1..n \subseteq finished'
      BY <1>1, <1>6, <2>1, <2>2 DEF PipeLog
    <2> QED
      BY <1>1, <1>3, <1>6, <2>1, <2>2, <2>3 DEF FlowLog, PipeLog, PipeWhole
  <1>7. kind = "flow" => status' \in {"success", "failed"}
    BY DEF Steps!Ends
  <1> QED
    BY <1>2, <1>4, <1>5, <1>6, <1>7

LEMMA LogInit == Steps!Init => LogInv
  <1> SUFFICES ASSUME Steps!Init PROVE LogInv
    OBVIOUS
  <1>1. StepsInv
    BY StepsInit
  <1>2. /\ log = <<>> /\ lost = 0 /\ status = "running" /\ pc = "begin" /\ attempt = 1 /\ step = 0
        /\ results = <<>> /\ Len(log) = 0 /\ Len(results) = 0
    BY DEF Steps!Init
  <1>3. (\A mark, s : ~Has(log, mark, s)) /\ FlowFiled(log) /\ PipeFiled(log) /\ \A s \in 1..0 : FALSE
    BY <1>2 DEF Has, FlowFiled, PipeFiled
  <1>4. Steps!TypeOK
    BY <1>1, StepTypes
  <1>5. NFlow \in Nat /\ NPipeline \in Nat /\ NPipeline >= 2
    BY <1>4, StepCount
  <1>6. FlowLog
    BY <1>2, <1>3, <1>5 DEF FlowLog, FlowFirst
  <1>7. PipeLog
    BY <1>2, <1>3, <1>5 DEF PipeLog, PipeWhole, PipeReads
  <1> QED
    BY <1>1, <1>6, <1>7 DEF LogInv

LEMMA LogStep == LogInv /\ [Steps!Next]_Steps!vars => LogInv'
  <1> SUFFICES ASSUME LogInv, [Steps!Next]_Steps!vars PROVE LogInv'
    OBVIOUS
  <1>1. StepsInv'
    BY StepsStep DEF LogInv
  <1>2. FlowLog' /\ PipeLog'
    <2>1. CASE UNCHANGED Steps!vars
      BY <2>1 DEF LogInv, FlowLog, FlowFirst, PipeLog, PipeWhole, PipeReads, Steps!vars, Steps!run, Steps!history
    <2>2. CASE Steps!Next
      BY <2>2, FlowGoesOn, PipelineBeginsAndReturns, PipelineStarts, PipelineCompletes, AttemptsEnd, Validated, Ended
         DEF Steps!Next
    <2> QED
      BY <2>1, <2>2
  <1> QED
    BY <1>1, <1>2 DEF LogInv

\* The readings of flow_steps.py in terms of the entries of the log.
LEMMA ReadingIs ==
  ASSUME LogInv
  PROVE  /\ log \in Seq(LogEntry) /\ DOMAIN log = 1..Len(log) /\ Steps!TypeOK
         /\ \A mark : Steps!MarkedSteps(log, mark) = {s \in 1..Steps!N : Has(log, mark, s)}
         /\ \A mark, s : Has(log, mark, s) => s \in 0..Steps!N
         /\ Steps!Reached(log) \in 0..Steps!N
         /\ Steps!Reached(log) # 0 => Has(log, "trigger", Steps!Reached(log))
         /\ \A s : Has(log, "trigger", s) => s <= Steps!Reached(log)
  <1> DEFINE n == Steps!N
             S == Steps!MarkedSteps(log, "trigger") \cup {0}
  <1>1. StepsInv /\ Steps!TypeOK /\ n \in Nat /\ Steps!Step = 1..n /\ log \in Seq(Steps!Entries)
    <2>1. Steps!TypeOK
      BY StepTypes DEF LogInv
    <2> QED
      BY <2>1, StepCount, StepTypes DEF LogInv
  <1>2. log \in Seq(LogEntry)
    BY <1>1, LogIsOfEntries
  <1>3. DOMAIN log = 1..Len(log)
    BY <1>2
  <1>4. \A mark : Steps!MarkedSteps(log, mark) = {s \in 1..n : Has(log, mark, s)}
    BY <1>1, <1>3 DEF Steps!MarkedSteps, Has
  <1>5. \A mark, s : Has(log, mark, s) => s \in 0..n
    <2> SUFFICES ASSUME NEW mark, NEW s, Has(log, mark, s) PROVE s \in 0..n
      OBVIOUS
    <2>1. PICK i \in 1..Len(log) : log[i].step = s
      BY DEF Has
    <2>2. log[i] \in Steps!Entries
      BY <1>1
    <2> QED
      BY <2>1, <2>2 DEF Steps!Entries
  <1>6. S \in SUBSET (0..n) /\ S # {} /\ 0 \in S
    BY <1>1, <1>4
  <1>7. Steps!Largest(S) \in S /\ \A t \in S : t <= Steps!Largest(S)
    <2> HIDE DEF S, n
    <2> QED
      BY <1>1, <1>6, GreatestOf
  <1>8. Steps!Reached(log) = Steps!Largest(S)
    BY DEF Steps!Reached
  <1>9. \A s : s \in S <=> s = 0 \/ (s \in 1..n /\ Has(log, "trigger", s))
    BY <1>4
  <1> HIDE DEF S
  <1>10. \A s : Has(log, "trigger", s) => s \in S
    BY <1>1, <1>5, <1>9
  <1> QED
    BY <1>1, <1>2, <1>3, <1>4, <1>5, <1>6, <1>7, <1>8, <1>9, <1>10

LEMMA FlowTells ==
  ASSUME LogInv, kind = "flow"
  PROVE  StepsAreRight
  <1> DEFINE n == Steps!N
             r == Steps!Reached(log)
             st == Steps!States(log, status)
  <1>1. /\ FlowLog /\ n \in Nat /\ n = NFlow /\ Steps!Step = 1..n /\ n >= 5
        /\ status \in {"running", "success", "failed"} /\ Steps!TypeOK
    <2>1. Steps!TypeOK /\ status \in {"running", "success", "failed"}
      BY StepTypes DEF LogInv
    <2> QED
      BY <2>1, StepCount DEF LogInv
  <1>2. /\ log \in Seq(LogEntry) /\ DOMAIN log = 1..Len(log) /\ r \in 0..n
        /\ r # 0 => Has(log, "trigger", r)
        /\ \A s : Has(log, "trigger", s) => s <= r /\ s \in 0..n
    BY ReadingIs
  <1>3. st = [s \in 1..n |-> CASE s < r -> "done" [] s = r -> Steps!Terminal(status, "running") [] OTHER -> "pending"]
    BY <1>1 DEF Steps!States, Steps!infer_step_states
  <1>4. /\ DOMAIN st = 1..n
        /\ \A s \in 1..n : /\ s < r => st[s] = "done"
                           /\ s = r => st[s] = Steps!Terminal(status, "running")
                           /\ r < s => st[s] = "pending"
    <2> HIDE DEF st, n
    <2>1. \A s \in 1..n : s \in Nat /\ r \in Nat
      BY <1>1, <1>2
    <2> HIDE DEF r
    <2>2. DOMAIN st = 1..n
      BY <1>3
    <2>3. \A s \in 1..n : st[s] = CASE s < r -> "done" [] s = r -> Steps!Terminal(status, "running") [] OTHER -> "pending"
      BY <1>3
    <2>4. ASSUME NEW s \in 1..n
          PROVE  /\ s < r => st[s] = "done"
                 /\ s = r => st[s] = Steps!Terminal(status, "running")
                 /\ r < s => st[s] = "pending"
      <3>1. CASE s < r
        BY <2>1, <2>3, <3>1
      <3>2. CASE s = r
        BY <2>1, <2>3, <3>2
      <3>3. CASE r < s
        BY <2>1, <2>3, <3>3
      <3> QED
        BY <2>1, <3>1, <3>2, <3>3
    <2> QED
      BY <2>2, <2>4
  <1>5. /\ Steps!Terminal("success", "running") = "done" /\ Steps!Terminal("failed", "running") = "failed"
        /\ Steps!Terminal("running", "running") = "running"
    BY DEF Steps!Terminal
  <1> HIDE DEF n, r, st
  <1>6. Steps!SuccessShowsAllDone
    <2> SUFFICES ASSUME lost = 0, status = "success", NEW s \in 1..n PROVE st[s] = "done"
      BY <1>1 DEF Steps!SuccessShowsAllDone, st
    <2>1. Has(log, "trigger", n)
      BY <1>1 DEF FlowLog
    <2>2. r = n
      BY <1>1, <1>2, <2>1
    <2> QED
      BY <1>1, <1>4, <1>5, <2>2
  <1>7. ASSUME attempt = 1, status # "success" PROVE r <= step /\ step \in 0..n
    <2>1. \A s : Has(log, "trigger", s) => s <= step
      BY <1>1, <1>7 DEF FlowLog, FlowFirst
    <2>2. step \in 0..n
      BY <1>1, StepTypes DEF LogInv, n
    <2> QED
      BY <1>1, <1>2, <2>1, <2>2
  <1>8. Steps!DoneIsCompleted
    <2> SUFFICES ASSUME attempt = 1, NEW s \in 1..n, st[s] = "done" PROVE s \in finished
      BY <1>4 DEF Steps!DoneIsCompleted, st
    <2>1. CASE status = "success"
      BY <1>1, <2>1 DEF FlowLog, FlowFirst
    <2>2. CASE status # "success"
      <3>1. ~(s = r) /\ ~(r < s)
        BY <1>1, <1>4, <1>5, <2>2
      <3>2. s < r
        BY <1>1, <1>2, <3>1
      <3>3. s < step
        BY <1>1, <1>2, <1>7, <2>2, <3>2
      <3> QED
        BY <1>1, <3>3 DEF FlowLog, FlowFirst
    <2> QED
      BY <2>1, <2>2
  <1>9. Steps!FailureIsShown
    <2> SUFFICES ASSUME lost = 0, status = "failed", attempt = 1, NEW s \in 1..n
                 PROVE  st[s] = (CASE s < failedAt -> "done" [] s = failedAt -> "failed" [] OTHER -> "pending")
      BY <1>4 DEF Steps!FailureIsShown, st
    <2>1. failedAt = step /\ Has(log, "trigger", step) /\ r <= step /\ step \in 0..n
      <3>1. pc # "begin"
        BY <1>1 DEF FlowLog
      <3> QED
        BY <1>1, <1>7, <3>1 DEF FlowLog, FlowFirst
    <2>2. failedAt = r
      BY <1>1, <1>2, <2>1
    <2>3. s \in Nat /\ r \in Nat
      BY <1>1, <1>2
    <2>4. CASE s < r
      BY <1>4, <2>2, <2>4
    <2>5. CASE s = r
      BY <1>4, <1>5, <2>2, <2>3, <2>5
    <2>6. CASE r < s
      BY <1>4, <2>2, <2>3, <2>6
    <2> QED
      BY <2>3, <2>4, <2>5, <2>6
  <1>10. Steps!PageAgrees
    BY DEF Steps!PageAgrees
  <1>11. \A i \in 1..Len(log) : Steps!Bucket(log, i) = FlowBucket(log, i)
    BY DEF Steps!Bucket, FlowBucket
  <1>12. Steps!EntriesUnderTheirStep
    <2> SUFFICES ASSUME lost = 0, attempt = 1, NEW i \in 1..Len(log), log[i].by # 0 PROVE FlowBucket(log, i) = log[i].by
      BY <1>2, <1>11 DEF Steps!EntriesUnderTheirStep
    <2> QED
      BY <1>1 DEF FlowLog, FlowFirst, FlowFiled
  <1>13. Steps!LastBucketIsReached
    <2> SUFFICES ASSUME r # 0 PROVE Steps!Bucket(log, Len(log)) = r
      BY DEF Steps!LastBucketIsReached, r
    <2>1. r \in Nat /\ r >= 1 /\ Furthest(log, r)
      BY <1>1, <1>2 DEF Furthest
    <2>2. FlowBucket(log, Len(log)) = r
      BY <1>2, <2>1, FlowBucketIs
    <2> QED
      BY <2>2 DEF Steps!Bucket, FlowBucket
  <1> QED
    BY <1>6, <1>8, <1>9, <1>10, <1>12, <1>13 DEF StepsAreRight, Steps!StatesAreRight, Steps!EntriesAreFiled

LEMMA PipelineTells ==
  ASSUME LogInv, kind = "pipeline"
  PROVE  StepsAreRight
  <1> DEFINE n == Steps!N
             total == Steps!Total(log)
             st == Steps!States(log, status)
             started == Steps!MarkedSteps(log, "start")
             completed == Steps!MarkedSteps(log, "completed")
             done(s) == Steps!IsDone(log, s)
  <1>1. /\ PipeLog /\ n \in Nat /\ n = NPipeline /\ Steps!Step = 1..n /\ n >= 2 /\ Len(results) \in Nat
        /\ status \in {"running", "success", "failed"} /\ Steps!TypeOK
    <2>1. Steps!TypeOK /\ status \in {"running", "success", "failed"} /\ Len(results) \in Nat
      BY StepTypes DEF LogInv
    <2> QED
      BY <2>1, StepCount DEF LogInv
  <1>2. /\ log \in Seq(LogEntry) /\ DOMAIN log = 1..Len(log)
        /\ started = {s \in 1..n : Has(log, "start", s)} /\ completed = {s \in 1..n : Has(log, "completed", s)}
    BY ReadingIs
  <1>3. total = IF started \cup completed = {} THEN 1 ELSE n
    BY DEF Steps!Total
  <1>4. \A s : done(s) => Has(log, "start", s) /\ Has(log, "completed", s)
    BY <1>2 DEF Steps!IsDone, Has
  <1>5. /\ st = [s \in 1..total |->
                  IF done(s) THEN "done"
                  ELSE IF s = total /\ status \in {"success", "failed"} THEN Steps!Terminal(status, "running")
                  ELSE IF s \in started THEN "running" ELSE "pending"]
        /\ Steps!Terminal("success", "running") = "done" /\ Steps!Terminal("failed", "running") = "failed"
    BY <1>1 DEF Steps!States, Steps!pipeline_step_states, Steps!FromMarkers, Steps!Terminal
  <1> HIDE DEF n, total, st, started, completed, done
  <1>6. /\ DOMAIN st = 1..total
        /\ \A s \in 1..total :
             /\ done(s) => st[s] = "done"
             /\ ~done(s) /\ s = total /\ status = "failed" => st[s] = "failed"
             /\ ~done(s) /\ st[s] = "done" => s = total /\ status = "success"
             /\ ~done(s) /\ s # total /\ s \notin started => st[s] = "pending"
    BY <1>1, <1>5
  <1>7. ASSUME lost = 0
        PROVE  /\ \A s \in 1..Len(results) : done(s)
               /\ \A s : Has(log, "completed", s) => Has(log, "start", s)
               /\ PipeFiled(log)
    BY <1>1, <1>7 DEF PipeLog, PipeWhole, PipeReads, done
  <1>8. Steps!SuccessShowsAllDone
    <2> SUFFICES ASSUME lost = 0, status = "success", NEW s \in 1..n PROVE st[s] = "done"
      BY <1>1 DEF Steps!SuccessShowsAllDone, st
    <2>1. Len(results) = n
      BY <1>1 DEF PipeLog
    <2>2. \A t \in 1..n : done(t)
      BY <1>7, <2>1
    <2>3. n \in completed
      BY <1>1, <1>2, <1>4, <2>2
    <2>4. total = n
      BY <1>3, <2>3
    <2> QED
      BY <1>6, <2>2, <2>4
  <1>9. Steps!DoneIsCompleted
    <2> SUFFICES ASSUME attempt = 1, NEW s \in 1..total, st[s] = "done" PROVE s \in finished
      BY <1>6 DEF Steps!DoneIsCompleted, st
    <2>1. /\ \A t : Has(log, "completed", t) => t \in finished
          /\ 1..Len(results) \subseteq finished
      BY <1>1 DEF PipeLog
    <2>2. CASE done(s)
      BY <1>4, <2>1, <2>2
    <2>3. CASE ~done(s)
      <3>1. s = total /\ status = "success"
        BY <1>6, <2>3
      <3>2. Len(results) = n
        BY <1>1, <3>1 DEF PipeLog
      <3>3. s \in 1..n
        BY <1>1, <1>3, <3>1
      <3> QED
        BY <2>1, <3>2, <3>3
    <2> QED
      BY <2>2, <2>3
  <1>10. Steps!FailureIsShown
    <2> SUFFICES ASSUME lost = 0, status = "failed", failedAt = n, NEW s \in 1..total
                 PROVE  st[s] = (CASE s < failedAt -> "done" [] s = failedAt -> "failed" [] OTHER -> "pending")
      BY <1>6 DEF Steps!FailureIsShown, st, n
    <2>1. Len(results) = n - 1 /\ ~Has(log, "completed", n)
      BY <1>1 DEF PipeLog
    <2>2. (\A t \in 1..n - 1 : done(t)) /\ ~done(n)
      BY <1>4, <1>7, <2>1
    <2>3. 1 \in completed
      BY <1>1, <1>2, <1>4, <2>2
    <2>4. total = n
      BY <1>3, <2>3
    <2>5. CASE s < n
      <3>1. s \in 1..n - 1
        BY <1>1, <2>4, <2>5
      <3> QED
        BY <1>6, <2>2, <2>5, <3>1
    <2>6. CASE s = n
      <3>1. st[s] = "failed" /\ ~(s < n)
        BY <1>1, <1>6, <2>2, <2>4, <2>6
      <3> QED
        BY <2>6, <3>1
    <2> QED
      BY <1>1, <2>4, <2>5, <2>6
  <1>11. Steps!PageAgrees
    <2> SUFFICES ASSUME lost = 0 PROVE Steps!PageTotal(log) = Steps!Total(log)
      BY DEF Steps!PageAgrees, Steps!PageStates, Steps!pipeline_step_states
    <2>1. completed \subseteq started
      BY <1>2, <1>7
    <2>2. started = {} <=> started \cup completed = {}
      BY <2>1
    <2> QED
      BY <1>3, <2>2 DEF Steps!PageTotal, started, total, n
  <1>12. Steps!EntriesUnderTheirStep
    <2> SUFFICES ASSUME lost = 0, NEW i \in 1..Len(log), log[i].by # 0 PROVE Steps!Bucket(log, i) = log[i].by
      BY <1>2 DEF Steps!EntriesUnderTheirStep
    <2>1. PipeBucket(log, i) = log[i].by
      BY <1>7 DEF PipeFiled
    <2> QED
      BY <2>1 DEF Steps!Bucket, PipeBucket, MarkedUpTo
  <1>13. Steps!LastBucketIsReached
    BY DEF Steps!LastBucketIsReached
  <1> QED
    BY <1>8, <1>9, <1>10, <1>11, <1>12, <1>13 DEF StepsAreRight, Steps!StatesAreRight, Steps!EntriesAreFiled

\* What the overview grid and the run page read out of the log is what the run did,
\* for flows and pipelines of any length, any number of attempts and of log writes lost.
THEOREM StepsAreRightAlways == PagesSpec => []StepsAreRight
  <1>1. PagesInit => LogInv
    BY LogInit DEF PagesInit
  <1>2. [PagesNext]_pageVars => [Steps!Next]_Steps!vars
    BY DEF PagesNext, OfStream, OfViews, pageVars, stepVars, Steps!vars, Steps!run, Steps!history
  <1>3. LogInv => StepsAreRight
    <2> SUFFICES ASSUME LogInv PROVE StepsAreRight
      OBVIOUS
    <2>1. kind \in {"flow", "pipeline"}
      <3>1. Steps!TypeOK
        BY StepTypes DEF LogInv
      <3> QED
        BY <3>1, StepCount
    <2> QED
      BY <2>1, FlowTells, PipelineTells
  <1> QED
    BY <1>1, <1>2, <1>3, LogStep, PTL DEF PagesSpec

-----------------------------------------------------------------------------
(* The views of the tables: numbers and orders.                              *)

LEMMA SameSize == \A S : Views!Cardinality(S) = Cardinality(S)
  BY Zenon DEF Views!Cardinality, Cardinality

LEMMA MaxIs ==
  ASSUME NEW i \in Nat, NEW S \in SUBSET (0..i), S # {}
  PROVE  Views!Max(S) \in S /\ Views!Max(S) \in Nat /\ \A t \in S : t <= Views!Max(S)
  <1>1. PICK m \in S : \A t \in S : t <= m
    BY GreatestOf
  <1>2. \A t \in S : t \in Nat
    OBVIOUS
  <1>3. \A t \in S : m >= t
    BY <1>1, <1>2
  <1>4. Views!Max(S) = CHOOSE x \in S : \A y \in S : x >= y
    BY Zenon DEF Views!Max
  <1>5. Views!Max(S) \in S /\ \A t \in S : Views!Max(S) >= t
    BY <1>3, <1>4
  <1> QED
    BY <1>2, <1>5

LEMMA MaxAndMinOf ==
  ASSUME NEW a \in Int, NEW b \in Int
  PROVE  Views!Max({a, b}) = (IF a >= b THEN a ELSE b) /\ Views!Min({a, b}) = (IF a <= b THEN a ELSE b)
  <1> DEFINE S == {a, b}
  <1>1. Views!Max(S) = CHOOSE x \in S : \A y \in S : x >= y
    BY Zenon DEF Views!Max
  <1>2. Views!Min(S) = CHOOSE x \in S : \A y \in S : x =< y
    BY Zenon DEF Views!Min
  <1> QED
    BY <1>1, <1>2

\* Rows that come one before another can be put in order.
LEMMA OrderIs ==
  ASSUME NEW S, IsFiniteSet(S), NEW R,
         \A i \in S : <<i, i>> \notin R,
         \A i, j, k \in S : <<i, j>> \in R /\ <<j, k>> \in R => <<i, k>> \in R,
         \A i, j \in S : i # j => <<i, j>> \in R \/ <<j, i>> \in R
  PROVE  LET o == Views!Ordered(S, R)
             n == Cardinality(S)
         IN  /\ n \in Nat /\ o \in [1..n -> S] /\ o \in Seq(S) /\ Len(o) = n
             /\ \A a, b \in 1..n : a < b => <<o[a], o[b]>> \in R
             /\ \A a, b \in 1..n : o[a] = o[b] => a = b
             /\ \A i \in S : \E a \in 1..n : o[a] = i
  <1> DEFINE n == Cardinality(S)
             B(i) == {k \in S : <<k, i>> \in R}
             f == [i \in S |-> Cardinality(B(i)) + 1]
             o == Views!Ordered(S, R)
  <1>1. n \in Nat
    BY FS_CardinalityType
  <1>2. ASSUME NEW i \in S
        PROVE  IsFiniteSet(B(i)) /\ Cardinality(B(i)) \in Nat /\ Cardinality(B(i)) < n
    <2>1. B(i) \in SUBSET S /\ B(i) # S
      OBVIOUS
    <2>2. IsFiniteSet(B(i)) /\ Cardinality(B(i)) <= n /\ Cardinality(B(i)) # n
      BY <2>1, FS_Subset
    <2>3. Cardinality(B(i)) \in Nat
      BY <2>2, FS_CardinalityType
    <2> HIDE DEF B, n
    <2> QED
      BY <1>1, <2>2, <2>3
  <1>3. ASSUME NEW i \in S, NEW j \in S, <<i, j>> \in R
        PROVE  Cardinality(B(i)) < Cardinality(B(j))
    <2>1. B(i) \in SUBSET B(j) /\ B(i) # B(j)
      <3>1. i \in B(j) /\ i \notin B(i)
        BY <1>3
      <3>2. \A k \in B(i) : k \in B(j)
        BY <1>3
      <3> HIDE DEF B
      <3> QED
        BY <3>1, <3>2
    <2>2. IsFiniteSet(B(j)) /\ Cardinality(B(i)) \in Nat /\ Cardinality(B(j)) \in Nat
      BY <1>2
    <2>3. Cardinality(B(i)) <= Cardinality(B(j)) /\ Cardinality(B(i)) # Cardinality(B(j))
      BY <2>1, <2>2, FS_Subset
    <2> HIDE DEF B
    <2> QED
      BY <2>2, <2>3
  <1>4. f \in Injection(S, 1..n)
    <2>1. \A i \in S : Cardinality(B(i)) + 1 \in 1..n
      <3> HIDE DEF B, n
      <3> QED
        BY <1>1, <1>2
    <2>2. f \in [S -> 1..n]
      BY <2>1
    <2>3. ASSUME NEW i \in S, NEW j \in S, i # j PROVE f[i] # f[j]
      <3>1. Cardinality(B(i)) # Cardinality(B(j))
        <4>1. Cardinality(B(i)) \in Nat /\ Cardinality(B(j)) \in Nat
          BY <1>2
        <4>2. Cardinality(B(i)) < Cardinality(B(j)) \/ Cardinality(B(j)) < Cardinality(B(i))
          BY <1>3, <2>3
        <4> HIDE DEF B
        <4> QED
          BY <4>1, <4>2
      <3>2. f[i] = Cardinality(B(i)) + 1 /\ f[j] = Cardinality(B(j)) + 1
        OBVIOUS
      <3> HIDE DEF B, f
      <3> QED
        BY <1>2, <3>1, <3>2
    <2> HIDE DEF f
    <2> QED
      BY <2>2, <2>3 DEF Injection, IsInjective
  <1>5. IsFiniteSet(1..n) /\ Cardinality(1..n) = n
    BY <1>1, FS_Interval
  <1>6. f \in Surjection(S, 1..n)
    BY <1>4, <1>5, FS_Injection
  <1>7. o = [a \in 1..n |-> CHOOSE i \in S : Cardinality(B(i)) = a - 1]
    BY Zenon DEF Views!Ordered, Views!Cardinality, Cardinality
  <1>8. ASSUME NEW a \in 1..n PROVE o[a] \in S /\ Cardinality(B(o[a])) = a - 1
    <2>1. PICK i \in S : f[i] = a
      BY <1>6 DEF Surjection
    <2>2. Cardinality(B(i)) = a - 1
      <3>1. f[i] = Cardinality(B(i)) + 1
        OBVIOUS
      <3> HIDE DEF B, f
      <3> QED
        BY <1>2, <2>1, <3>1
    <2>3. o[a] = CHOOSE j \in S : Cardinality(B(j)) = a - 1
      BY <1>7
    <2> HIDE DEF B, o
    <2> QED
      BY <2>2, <2>3
  <1>9. o \in [1..n -> S]
    <2> HIDE DEF n, B
    <2>1. o = [a \in 1..n |-> o[a]]
      BY <1>7
    <2> QED
      BY <1>7, <1>8
  <1> HIDE DEF n, o
  <1>10. o \in Seq(S) /\ Len(o) = n
    BY <1>1, <1>9, SeqDef
  <1>11. \A a, b \in 1..n : o[a] = o[b] => a = b
    <2> SUFFICES ASSUME NEW a \in 1..n, NEW b \in 1..n, o[a] = o[b] PROVE a = b
      OBVIOUS
    <2>1. a - 1 = b - 1
      BY <1>8
    <2> QED
      BY <1>1, <2>1
  <1>12. ASSUME NEW a \in 1..n, NEW b \in 1..n, a < b PROVE <<o[a], o[b]>> \in R
    <2>1. o[a] \in S /\ o[b] \in S /\ Cardinality(B(o[a])) = a - 1 /\ Cardinality(B(o[b])) = b - 1
      BY <1>8
    <2>2. o[a] # o[b]
      BY <1>1, <1>11, <1>12
    <2>3. ~(b - 1 < a - 1)
      BY <1>1, <1>12
    <2> HIDE DEF B
    <2>4. <<o[b], o[a]>> \notin R
      BY <1>3, <2>1, <2>3
    <2> QED
      BY <2>1, <2>2, <2>4
  <1>13. \A i \in S : \E a \in 1..n : o[a] = i
    <2> SUFFICES ASSUME NEW i \in S PROVE \E a \in 1..n : o[a] = i
      OBVIOUS
    <2> DEFINE a == f[i]
    <2>1. a \in 1..n /\ Cardinality(B(i)) = a - 1
      <3>1. f[i] = Cardinality(B(i)) + 1
        OBVIOUS
      <3>2. f[i] \in 1..n
        <4> HIDE DEF f
        <4> QED
          BY <1>4 DEF Injection
      <3> HIDE DEF B, f
      <3> QED
        BY <1>2, <3>1, <3>2
    <2> HIDE DEF a
    <2>2. o[a] \in S /\ Cardinality(B(o[a])) = a - 1
      BY <1>8, <2>1
    <2> HIDE DEF B
    <2>3. ~(Cardinality(B(i)) < Cardinality(B(o[a]))) /\ ~(Cardinality(B(o[a])) < Cardinality(B(i)))
      BY <1>1, <2>1, <2>2
    <2>4. o[a] = i
      BY <1>3, <2>2, <2>3
    <2> QED
      BY <2>1, <2>4
  <1> QED
    BY <1>1, <1>9, <1>10, <1>11, <1>12, <1>13 DEF n, o

-----------------------------------------------------------------------------
(* The views: what the tables, the request that is open and the answer are   *)
(* like.                                                                     *)

RowStates == {"active", "success", "failed"}
RowIds == 1..MaxRows
JobIds == 1..MaxJobs
RunRow == [job: JobIds, owner: Users, status: RowStates, retried: BOOLEAN, seconds: Nat, born: RowIds]
PageRow == [born: RowIds, owner: Users, status: RowStates, job: JobIds, type: Types \cup {"unknown"}]

\* An id that is larger was given out later.
TablesOK ==
  /\ made \in [jobs: 0..MaxJobs, runs: 0..MaxRows]
  /\ jobs \in [DOMAIN jobs -> [type: Types]] /\ DOMAIN jobs \subseteq 1..made.jobs
  /\ runs \in [DOMAIN runs -> RunRow] /\ DOMAIN runs \subseteq 1..made.runs
  /\ \A id \in DOMAIN runs : runs[id].born <= made.runs
  /\ \A i, k \in DOMAIN runs : i < k => runs[i].born < runs[k].born

ListAsked ==
  [kind: {"list"}, stage: {"page", "jobs"}, moved: Nat, query: Queries, total: Nat, page: Seq(PageRow)]
DeleteAsked ==
  [kind: {"delete"}, stage: {"delete"}, moved: Nat, user: Users,
   chosen: UNION {[D -> RowIds] : D \in SUBSET RowIds}]
SchedulesAsked ==
  [kind: {"schedules"}, stage: {"counts", "last"}, moved: Nat, jobs: SUBSET JobIds,
   counts: {<<>>} \cup UNION {[D -> Nat] : D \in SUBSET JobIds}, last: {<<>>}, latest: {<<>>}]
StatsAsked ==
  [kind: {"stats"}, stage: {"counts", "trust", "durations", "types"}, moved: Nat, total: Nat,
   success: Nat, failed: Nat, active: Nat, retried: Nat,
   durations: Seq(Nat), p50: Nat, p95: Nat, byType: {<<>>}, rows: {0}]
AskedOK ==
  asked \in {[kind |-> "none"]} \cup ListAsked \cup DeleteAsked \cup SchedulesAsked \cup StatsAsked

\* The rows read for a listing, when r is its request or its answer.
PageOK(r) ==
  /\ Len(r.page) <= r.query.limit
  /\ \A i \in DOMAIN r.page : r.query.user \in {Admin, r.page[i].owner} /\ r.query.status \in {"any", r.page[i].status}
  /\ \A i \in DOMAIN r.page : \A k \in 1..(i - 1) : r.page[k].born > r.page[i].born
  /\ r.moved = 0 => Len(r.page) = Views!Max({0, Views!Min({r.query.limit, r.total - r.query.offset})})
\* The figures of the durations.
PercentilesOK(r) ==
  /\ r.p50 <= r.p95
  /\ r.durations # <<>> =>
       /\ \E i \in DOMAIN r.durations : r.durations[i] = r.p50
       /\ \E i \in DOMAIN r.durations : r.durations[i] = r.p95
       /\ 2 * Cardinality({i \in DOMAIN r.durations : r.durations[i] <= r.p50}) >= Len(r.durations)

ListFits ==
  asked.kind = "list" =>
    /\ asked.stage = "page" => asked.page = <<>>
    /\ asked.stage = "page" /\ asked.moved = 0 => asked.total = Cardinality(Views!Matching(asked.query))
    /\ asked.stage = "jobs" => PageOK(asked)
    /\ asked.stage = "jobs" /\ asked.moved = 0 =>
         \A i \in DOMAIN asked.page : asked.query.type \in {"any", Views!JobType(asked.page[i].job)}
\* A row chosen is settled and the user's own for as long as it is that row.
DeleteFits ==
  asked.kind = "delete" =>
    \A id \in DOMAIN asked.chosen :
      /\ asked.chosen[id] <= made.runs
      /\ id \in DOMAIN runs /\ asked.chosen[id] = runs[id].born =>
           runs[id].status # "active" /\ asked.user \in {Admin, runs[id].owner}
SchedulesFit ==
  asked.kind = "schedules" /\ asked.stage = "last" =>
    /\ asked.counts \in [asked.jobs -> Nat]
    /\ asked.moved = 0 => \A j \in asked.jobs : asked.counts[j] = Cardinality(Views!RunsOf(j))
StatsFit ==
  asked.kind = "stats" =>
    /\ asked.moved = 0 => asked.total = Cardinality(DOMAIN runs)
    /\ asked.moved = 0 /\ asked.stage # "counts" => asked.success + asked.failed + asked.active = asked.total
    /\ asked.moved = 0 /\ asked.stage \in {"durations", "types"} => asked.retried <= asked.total
    /\ asked.moved = 0 /\ asked.stage = "types" => Len(asked.durations) <= asked.total
    /\ asked.stage = "types" => PercentilesOK(asked)
AskedFits == ListFits /\ DeleteFits /\ SchedulesFit /\ StatsFit

AnswerFits ==
  /\ Views!ListIsOwn /\ Views!PageFitsTotal /\ Views!OnlySettledGo
  /\ Views!LastIsLatest /\ Views!StatsAddUp

ViewsInv == TablesOK /\ AskedOK /\ AskedFits /\ AnswerFits

LEMMA PageIs ==
  ASSUME NEW S, NEW rows \in Seq(S), NEW off \in Nat, NEW lim \in Nat
  PROVE  LET p == Views!Page(rows, off, lim)
         IN  /\ p \in Seq(S) /\ Len(p) \in Nat /\ Len(p) <= lim
             /\ Len(p) = Views!Max({0, Views!Min({lim, Len(rows) - off})})
             /\ \A i \in 1..Len(p) : off + i \in 1..Len(rows) /\ p[i] = rows[off + i]
  <1> DEFINE n == Len(rows)
             last == IF off + lim <= n THEN off + lim ELSE n
  <1>1. n \in Nat /\ \A i \in 1..n : rows[i] \in S
    BY LenProperties, ElementOfSeq
  <1>2. Views!Page(rows, off, lim) = SubSeq(rows, off + 1, Views!Min({off + lim, n}))
    BY Zenon DEF Views!Page
  <1> HIDE DEF n
  <1>3. Views!Min({off + lim, n}) = last
    <2> DEFINE e == off + lim
    <2>1. e \in Int /\ n \in Int
      BY <1>1
    <2> HIDE DEF e
    <2>2. Views!Min({e, n}) = IF e <= n THEN e ELSE n
      BY <2>1, MaxAndMinOf
    <2> QED
      BY <2>2 DEF e
  <1>4. Views!Min({lim, n - off}) = IF lim <= n - off THEN lim ELSE n - off
    <2> DEFINE e == n - off
    <2>1. e \in Int /\ lim \in Int
      BY <1>1
    <2> HIDE DEF e
    <2>2. Views!Min({lim, e}) = IF lim <= e THEN lim ELSE e
      BY Zenon, <2>1, MaxAndMinOf
    <2> QED
      BY <2>2 DEF e
  <1> DEFINE least == IF lim <= n - off THEN lim ELSE n - off
  <1>5. Views!Max({0, least}) = IF 0 >= least THEN 0 ELSE least
    BY <1>1, MaxAndMinOf
  <1>6. last \in Nat /\ \A i \in (off + 1)..last : i \in 1..n
    BY <1>1
  <1>7. \A i \in (off + 1)..last : rows[i] \in S
    BY <1>1, <1>6
  <1> DEFINE p == SubSeq(rows, off + 1, last)
  <1>8. /\ p \in Seq(S)
        /\ Len(p) = IF off + 1 <= last THEN last - (off + 1) + 1 ELSE 0
        /\ \A i \in 1..(last - (off + 1) + 1) : p[i] = rows[off + 1 + i - 1]
    <2> HIDE DEF last
    <2>1. off + 1 \in Int /\ last \in Int
      BY <1>6
    <2> QED
      BY <1>7, <2>1, SubSeqProperties
  <1> HIDE DEF p
  <1>9. Len(p) = (IF 0 >= least THEN 0 ELSE least) /\ Len(p) \in Nat /\ Len(p) <= lim
    BY <1>1, <1>8
  <1>10. ASSUME NEW i \in 1..Len(p) PROVE off + i \in 1..n /\ p[i] = rows[off + i]
    <2>1. i \in 1..(last - (off + 1) + 1) /\ off + 1 + i - 1 = off + i /\ off + i \in 1..n
      BY <1>1, <1>8, <1>9
    <2> QED
      BY <1>8, <2>1
  <1>11. Views!Page(rows, off, lim) = p
    BY <1>2, <1>3 DEF p
  <1>12. Views!Max({0, Views!Min({lim, Len(rows) - off})}) = Views!Max({0, least})
    BY <1>4 DEF n
  <1> QED
    BY <1>5, <1>8, <1>9, <1>10, <1>11, <1>12 DEF n

LEMMA ThreeParts ==
  ASSUME NEW X, IsFiniteSet(X), NEW f, \A i \in X : f[i].status \in RowStates
  PROVE  LET C(s) == Cardinality({i \in X : f[i].status = s})
         IN  /\ Cardinality(X) \in Nat
             /\ C("success") \in Nat /\ C("failed") \in Nat /\ C("active") \in Nat
             /\ C("success") + C("failed") + C("active") = Cardinality(X)
             /\ Cardinality({i \in X : f[i].status # "active"}) <= Cardinality(X)
  <1> DEFINE P(s) == {i \in X : f[i].status = s}
             Q == {i \in X : f[i].status # "active"}
  <1>1. \A s : IsFiniteSet(P(s)) /\ Cardinality(P(s)) \in Nat
    <2> SUFFICES ASSUME NEW s PROVE IsFiniteSet(P(s)) /\ Cardinality(P(s)) \in Nat
      OBVIOUS
    <2>1. P(s) \in SUBSET X
      OBVIOUS
    <2> HIDE DEF P
    <2> QED
      BY <2>1, FS_Subset, FS_CardinalityType
  <1>2. IsFiniteSet(Q) /\ Cardinality(Q) <= Cardinality(X) /\ Cardinality(X) \in Nat
    <2>1. Q \in SUBSET X
      OBVIOUS
    <2> HIDE DEF Q
    <2> QED
      BY <2>1, FS_Subset, FS_CardinalityType
  <1>3. Q = P("success") \cup P("failed") /\ P("success") \cap P("failed") = {}
    BY DEF RowStates
  <1>4. X = Q \cup P("active") /\ Q \cap P("active") = {}
    OBVIOUS
  <1> HIDE DEF P, Q
  <1>5. Cardinality(Q) = Cardinality(P("success")) + Cardinality(P("failed")) - Cardinality({})
    BY <1>1, <1>3, FS_Union
  <1>6. Cardinality(X) = Cardinality(Q) + Cardinality(P("active")) - Cardinality({})
    BY <1>1, <1>2, <1>4, FS_Union
  <1>7. Cardinality({}) = 0
    BY FS_EmptySet
  <1>8. Cardinality(X) = Cardinality(P("success")) + Cardinality(P("failed")) + Cardinality(P("active"))
    BY <1>1, <1>2, <1>5, <1>6, <1>7
  <1> QED
    BY <1>1, <1>2, <1>8 DEF P, Q

\* D counted by what F says each is of, one by one.
CountedBy(D, F, T, n, U) ==
  /\ \A i \in D : F[i] \in T
  /\ \A t \in T : n[t] = Cardinality({i \in D : F[i] = t})
  /\ \A p : p \in U <=> \E t \in T : \E a \in 1..n[t] : p = <<t, a>>

LEMMA SplitCount ==
  ASSUME NEW D \in SUBSET Nat, IsFiniteSet(D), NEW F, NEW T, NEW n, NEW U, CountedBy(D, F, T, n, U)
  PROVE  Cardinality(U) = Cardinality(D)
  <1> DEFINE G(t) == {i \in D : F[i] = t}
             R == {p \in D \X D : p[1] < p[2]}
             o(t) == Views!Ordered(G(t), R)
             h == [p \in U |-> o(p[1])[p[2]]]
  <1>1. ASSUME NEW t
        PROVE  /\ o(t) \in [1..Cardinality(G(t)) -> G(t)]
               /\ \A a, b \in 1..Cardinality(G(t)) : o(t)[a] = o(t)[b] => a = b
               /\ \A i \in G(t) : \E a \in 1..Cardinality(G(t)) : o(t)[a] = i
    <2>1. G(t) \in SUBSET D
      OBVIOUS
    <2>2. /\ \A i \in D : <<i, i>> \notin R
          /\ \A i, j, k \in D : <<i, j>> \in R /\ <<j, k>> \in R => <<i, k>> \in R
          /\ \A i, j \in D : i # j => <<i, j>> \in R \/ <<j, i>> \in R
      OBVIOUS
    <2> HIDE DEF G, R
    <2>3. /\ \A i \in G(t) : <<i, i>> \notin R
          /\ \A i, j, k \in G(t) : <<i, j>> \in R /\ <<j, k>> \in R => <<i, k>> \in R
          /\ \A i, j \in G(t) : i # j => <<i, j>> \in R \/ <<j, i>> \in R
      BY <2>1, <2>2
    <2>4. IsFiniteSet(G(t))
      BY <2>1, FS_Subset
    <2> QED
      BY <2>3, <2>4, OrderIs
  <1> HIDE DEF R, o
  <1>2. \A p : p \in U <=> \E t \in T : \E a \in 1..Cardinality(G(t)) : p = <<t, a>>
    <2>1. \A t \in T : n[t] = Cardinality(G(t))
      BY DEF CountedBy
    <2> HIDE DEF G
    <2> QED
      BY <2>1 DEF CountedBy
  <1>3. \A t, i : i \in G(t) <=> i \in D /\ F[i] = t
    OBVIOUS
  <1> HIDE DEF G
  <1>5. ASSUME NEW p \in U PROVE h[p] \in D /\ F[h[p]] = p[1]
    <2>0. PICK t \in T : \E a \in 1..Cardinality(G(t)) : p = <<t, a>>
      BY <1>2
    <2>1. PICK a \in 1..Cardinality(G(t)) : p = <<t, a>>
      BY <2>0
    <2>2. h[p] = o(t)[a]
      BY <2>1
    <2> HIDE DEF h
    <2>3. h[p] \in G(t)
      <3>1. o(t) \in [1..Cardinality(G(t)) -> G(t)]
        BY <1>1
      <3> QED
        BY <2>1, <2>2, <3>1
    <2> QED
      BY <1>3, <2>1, <2>3
  <1>6. ASSUME NEW p \in U, NEW q \in U, h[p] = h[q] PROVE p = q
    <2>0. PICK t \in T : \E a \in 1..Cardinality(G(t)) : p = <<t, a>>
      BY <1>2
    <2>1. PICK a \in 1..Cardinality(G(t)) : p = <<t, a>>
      BY <2>0
    <2>a. PICK s \in T : \E b \in 1..Cardinality(G(s)) : q = <<s, b>>
      BY <1>2
    <2>2. PICK b \in 1..Cardinality(G(s)) : q = <<s, b>>
      BY <2>a
    <2>b. p[1] = t /\ p[2] = a /\ q[1] = s /\ q[2] = b
      BY <2>1, <2>2
    <2>3. h[p] = o(t)[a] /\ h[q] = o(s)[b]
      BY <2>b
    <2>4. t = s
      BY <1>5, <1>6, <2>1, <2>2
    <2> HIDE DEF h
    <2> QED
      BY <1>1, <1>6, <2>1, <2>2, <2>3, <2>4
  <1>7. ASSUME NEW i \in D PROVE \E p \in U : h[p] = i
    <2> DEFINE t == F[i]
    <2>1. i \in G(t) /\ t \in T
      BY <1>3 DEF CountedBy
    <2> HIDE DEF t
    <2>2. PICK a \in 1..Cardinality(G(t)) : o(t)[a] = i
      BY <1>1, <2>1
    <2>3. <<t, a>> \in U
      BY <1>2, <2>1
    <2>4. h[<<t, a>>] = i
      BY <2>2, <2>3
    <2> QED
      BY <2>3, <2>4
  <1>8. h \in [U -> D]
    BY <1>5
  <1> HIDE DEF h
  <1>9. h \in Injection(U, D) /\ h \in Surjection(U, D)
    BY <1>6, <1>7, <1>8 DEF Injection, IsInjective, Surjection
  <1>10. Cardinality(U) = Cardinality(D)
    BY <1>9, FS_Injection
  <1> QED
    BY <1>10

\* The median and the 95th percentile of durations in order.
LEMMA PercentileIs ==
  ASSUME NEW d \in Seq(Nat), \A a, b \in 1..Len(d) : a < b => d[a] <= d[b]
  PROVE  LET p50 == Views!Percentile(d, 50)
             p95 == Views!Percentile(d, 95)
         IN  /\ p50 \in Nat /\ p95 \in Nat /\ p50 <= p95
             /\ d # <<>> =>
                  /\ \E i \in DOMAIN d : d[i] = p50
                  /\ \E i \in DOMAIN d : d[i] = p95
                  /\ 2 * Cardinality({i \in DOMAIN d : d[i] <= p50}) >= Len(d)
  <1> DEFINE n == Len(d)
             At(c) == 1 + ((c * n) \div 100)
  <1>1. n \in Nat /\ DOMAIN d = 1..n /\ \A i \in 1..n : d[i] \in Nat
    BY LenProperties, ElementOfSeq
  <1>2. CASE n = 0
    <2>1. d = <<>>
      BY <1>2, EmptySeq
    <2>2. Views!Percentile(d, 50) = 0 /\ Views!Percentile(d, 95) = 0
      BY <1>2 DEF Views!Percentile
    <2> QED
      BY <2>1, <2>2
  <1>3. CASE n # 0
    <2> HIDE DEF n
    <2>1. (50 * n) \div 100 \in Nat /\ (95 * n) \div 100 \in Nat
      BY <1>1
    <2>2. /\ (50 * n) \div 100 <= n - 1 /\ (95 * n) \div 100 <= n - 1
          /\ (50 * n) \div 100 <= (95 * n) \div 100
          /\ 2 * (1 + ((50 * n) \div 100)) >= n
      BY <1>1, <1>3
    <2>3. \A c : Views!Percentile(d, c) = d[1 + Views!Min({(c * n) \div 100, n - 1})]
      BY <1>3 DEF Views!Percentile, n
    <2>b. ASSUME NEW c \in Nat, c <= n - 1 PROVE Views!Min({c, n - 1}) = c
      <3> DEFINE e == n - 1
      <3>1. e \in Int /\ c \in Int /\ c <= e
        BY <1>1, <2>b
      <3> HIDE DEF e
      <3>2. Views!Min({c, e}) = IF c <= e THEN c ELSE e
        BY Zenon, <3>1, MaxAndMinOf
      <3> QED
        BY <3>1, <3>2 DEF e
    <2>4. Views!Min({(50 * n) \div 100, n - 1}) = (50 * n) \div 100
      BY <2>1, <2>2, <2>b
    <2>5. Views!Min({(95 * n) \div 100, n - 1}) = (95 * n) \div 100
      BY <2>1, <2>2, <2>b
    <2>6. Views!Percentile(d, 50) = d[At(50)] /\ Views!Percentile(d, 95) = d[At(95)]
      BY <2>3, <2>4, <2>5
    <2>7. At(50) \in 1..n /\ At(95) \in 1..n /\ At(50) <= At(95) /\ 2 * At(50) >= n
      BY <1>1, <2>1, <2>2
    <2> HIDE DEF At
    <2> DEFINE m == At(50)
               x == At(95)
               B == {i \in DOMAIN d : d[i] <= d[m]}
    <2>8. m \in 1..n /\ x \in 1..n /\ m <= x /\ 2 * m >= n
      BY <2>7
    <2>9. Views!Percentile(d, 50) = d[m] /\ Views!Percentile(d, 95) = d[x]
      BY <2>6
    <2> HIDE DEF m, x
    <2>a. \A a, b \in 1..n : a < b => d[a] <= d[b]
      BY DEF n
    <2>10. d[m] \in Nat /\ d[x] \in Nat /\ d[m] <= d[x]
      BY <1>1, <2>8, <2>a
    <2>11. 1..m \in SUBSET B
      <3> SUFFICES ASSUME NEW i \in 1..m PROVE i \in B
        OBVIOUS
      <3>1. i \in 1..n /\ (i = m \/ i < m)
        BY <1>1, <2>8
      <3> QED
        BY <1>1, <2>8, <2>a, <2>10, <3>1
    <2>12. B \in SUBSET (1..n)
      BY <1>1
    <2> HIDE DEF B
    <2>13. IsFiniteSet(1..n) /\ IsFiniteSet(B) /\ Cardinality(B) \in Nat
      <3>1. IsFiniteSet(1..n)
        BY <1>1, FS_Interval
      <3> QED
        BY <2>12, <3>1, FS_Subset, FS_CardinalityType
    <2>14. Cardinality(1..m) = m
      BY <1>1, <2>8, FS_Interval
    <2>15. m <= Cardinality(B) /\ Cardinality(B) \in Nat
      <3>1. Cardinality(1..m) <= Cardinality(B)
        BY <2>11, <2>13, FS_Subset
      <3> QED
        BY <2>13, <2>14, <3>1
    <2>16. 2 * Cardinality(B) >= n
      BY <1>1, <2>8, <2>15
    <2> QED
      BY <1>1, <2>8, <2>9, <2>10, <2>16 DEF B, n
  <1> QED
    BY <1>2, <1>3

-----------------------------------------------------------------------------
(* The tables.                                                               *)

LEMMA NextIdIs ==
  ASSUME NEW i \in Nat, NEW rows, DOMAIN rows \subseteq 1..i
  PROVE  Views!NextId(rows) \in 1..(i + 1) /\ \A k \in DOMAIN rows : k < Views!NextId(rows)
  <1> DEFINE S == {0} \cup DOMAIN rows
  <1>1. S \in SUBSET (0..i) /\ S # {}
    OBVIOUS
  <1>2. Views!NextId(rows) = 1 + Views!Max(S)
    BY DEF Views!NextId
  <1>3. \A k \in DOMAIN rows : k \in S /\ k \in Nat
    BY <1>1
  <1> HIDE DEF S
  <1>4. Views!Max(S) \in S /\ Views!Max(S) \in Nat /\ \A t \in S : t <= Views!Max(S)
    BY <1>1, MaxIs
  <1>5. Views!Max(S) \in 0..i
    BY <1>1, <1>4
  <1> QED
    BY <1>2, <1>3, <1>4, <1>5

\* What a change may do to a row: end the run, which keeps its "born", or be a row made later.
RowsKept ==
  /\ made'.runs >= made.runs
  /\ \A id \in DOMAIN runs' :
       \/ id \in DOMAIN runs /\ runs'[id] = runs[id]
       \/ id \in DOMAIN runs /\ runs'[id].born = runs[id].born /\ runs[id].status = "active"
       \/ runs'[id].born > made.runs

LEMMA RunsGo ==
  ASSUME TablesOK, NEW ids, runs' = Views!Without(runs, ids), UNCHANGED <<jobs, made>>
  PROVE  TablesOK' /\ RowsKept
  <1>1. /\ runs' \in [DOMAIN runs' -> RunRow] /\ DOMAIN runs' = DOMAIN runs \ ids
        /\ \A i \in DOMAIN runs' : runs'[i] = runs[i]
    <2>1. \A i \in DOMAIN runs : runs[i] \in RunRow
      BY DEF TablesOK
    <2>2. runs' = [i \in DOMAIN runs \ ids |-> runs[i]]
      BY DEF Views!Without
    <2> QED
      BY <2>1, <2>2
  <1>2. TablesOK'
    BY <1>1 DEF TablesOK
  <1>3. made'.runs >= made.runs
    BY DEF TablesOK
  <1> QED
    BY <1>1, <1>2, <1>3 DEF RowsKept

LEMMA JobMade ==
  ASSUME TablesOK, Views!CreateJob
  PROVE  TablesOK' /\ RowsKept
  <1>1. PICK type \in Types : jobs' = Views!With(jobs, Views!NextId(jobs), [type |-> type])
    BY DEF Views!CreateJob
  <1> DEFINE r == [type |-> type]
             id == Views!NextId(jobs)
  <1>2. made.jobs \in 0..MaxJobs /\ made.runs \in 0..MaxRows /\ MaxJobs \in Nat /\ MaxRows \in Nat
    BY ViewsOfPages DEF TablesOK, Views!ViewsAssumption
  <1>3. made' \in [jobs: 0..MaxJobs, runs: 0..MaxRows] /\ made'.runs = made.runs /\ made'.jobs = made.jobs + 1
    <2>1. made' = [made EXCEPT !.jobs = @ + 1] /\ made.jobs < MaxJobs
      BY DEF Views!CreateJob
    <2>2. made \in [jobs: 0..MaxJobs, runs: 0..MaxRows] /\ made.jobs + 1 \in 0..MaxJobs
      BY <1>2, <2>1 DEF TablesOK
    <2> QED
      BY <2>1, <2>2
  <1>4. id \in 1..(made.jobs + 1)
    BY <1>2, NextIdIs DEF TablesOK
  <1>5. r \in [type: Types]
    OBVIOUS
  <1> HIDE DEF r, id
  <1>6. jobs' \in [DOMAIN jobs' -> [type: Types]] /\ DOMAIN jobs' = DOMAIN jobs \cup {id}
    <2>1. \A i \in DOMAIN jobs : jobs[i] \in [type: Types]
      BY DEF TablesOK
    <2>2. jobs' = [i \in DOMAIN jobs \cup {id} |-> IF i = id THEN r ELSE jobs[i]]
      BY <1>1 DEF Views!With, r, id
    <2> QED
      BY <1>5, <2>1, <2>2
  <1>7. DOMAIN jobs' \subseteq 1..made'.jobs
    BY <1>2, <1>3, <1>4, <1>6 DEF TablesOK
  <1>8. runs' = runs
    BY DEF Views!CreateJob
  <1> QED
    BY <1>2, <1>3, <1>6, <1>7, <1>8 DEF TablesOK, RowsKept

LEMMA JobGoes ==
  ASSUME TablesOK, NEW id, Views!DeleteJob(id)
  PROVE  TablesOK' /\ RowsKept
  <1>1. jobs' = Views!Without(jobs, {id}) /\ runs' = runs /\ made' = made
    BY DEF Views!DeleteJob
  <1>2. jobs' \in [DOMAIN jobs' -> [type: Types]] /\ DOMAIN jobs' = DOMAIN jobs \ {id}
    <2>1. \A i \in DOMAIN jobs : jobs[i] \in [type: Types]
      BY DEF TablesOK
    <2>2. jobs' = [i \in DOMAIN jobs \ {id} |-> jobs[i]]
      BY <1>1 DEF Views!Without
    <2> QED
      BY <2>1, <2>2
  <1>3. made.runs \in Nat
    BY ViewsOfPages DEF TablesOK, Views!ViewsAssumption
  <1>4. DOMAIN jobs' \subseteq 1..made'.jobs
    BY <1>1, <1>2 DEF TablesOK
  <1>5. TablesOK'
    BY <1>1, <1>2, <1>4 DEF TablesOK
  <1>6. RowsKept
    BY <1>1, <1>3 DEF RowsKept
  <1> QED
    BY <1>5, <1>6

LEMMA RunMade ==
  ASSUME TablesOK, NEW job \in DOMAIN jobs, NEW user \in Users, Views!Launch(job, user)
  PROVE  TablesOK' /\ RowsKept
  <1> DEFINE r == [job |-> job, owner |-> user, status |-> "active", retried |-> FALSE, seconds |-> 0,
                   born |-> made.runs + 1]
             id == Views!NextId(runs)
  <1>1. runs' = Views!With(runs, id, r)
    BY DEF Views!Launch
  <1>2. made.jobs \in 0..MaxJobs /\ made.runs \in 0..MaxRows /\ MaxJobs \in Nat /\ MaxRows \in Nat
    BY ViewsOfPages DEF TablesOK, Views!ViewsAssumption
  <1>3. made' \in [jobs: 0..MaxJobs, runs: 0..MaxRows] /\ made'.runs = made.runs + 1 /\ made'.jobs = made.jobs
    <2>1. made' = [made EXCEPT !.runs = @ + 1] /\ made.runs < MaxRows
      BY DEF Views!Launch
    <2>2. made \in [jobs: 0..MaxJobs, runs: 0..MaxRows] /\ made.runs + 1 \in 0..MaxRows
      BY <1>2, <2>1 DEF TablesOK
    <2> QED
      BY <2>1, <2>2
  <1>4. id \in 1..(made.runs + 1) /\ \A k \in DOMAIN runs : k < id
    BY <1>2, NextIdIs DEF TablesOK
  <1>5. r \in RunRow
    <2>1. job \in JobIds
      BY <1>2 DEF TablesOK, JobIds
    <2>2. made.runs + 1 \in RowIds
      BY <1>2 DEF Views!Launch, RowIds
    <2> QED
      BY <2>1, <2>2 DEF RunRow, RowStates
  <1>6. r.born = made.runs + 1
    OBVIOUS
  <1> HIDE DEF r, id
  <1>7. /\ runs' \in [DOMAIN runs' -> RunRow] /\ DOMAIN runs' = DOMAIN runs \cup {id}
        /\ runs'[id] = r /\ \A i \in DOMAIN runs : i # id => runs'[i] = runs[i]
    <2>1. \A i \in DOMAIN runs : runs[i] \in RunRow
      BY DEF TablesOK
    <2>2. runs' = [i \in DOMAIN runs \cup {id} |-> IF i = id THEN r ELSE runs[i]]
      BY <1>1 DEF Views!With
    <2> QED
      BY <1>5, <2>1, <2>2
  <1>8. \A i \in DOMAIN runs : i \in Nat /\ runs[i].born \in Nat /\ runs[i].born <= made.runs /\ runs'[i] = runs[i]
    <2>1. \A i \in DOMAIN runs : i \in Nat /\ i # id
      BY <1>2, <1>4 DEF TablesOK
    <2>2. \A i \in DOMAIN runs : runs[i].born \in RowIds /\ runs[i].born <= made.runs
      BY DEF TablesOK, RunRow
    <2> QED
      BY <1>2, <1>7, <2>1, <2>2 DEF RowIds
  <1>9. id \in Nat
    BY <1>4, <1>2
  <1>10. DOMAIN runs' \subseteq 1..made'.runs
    BY <1>2, <1>3, <1>4, <1>7 DEF TablesOK
  <1>11. \A i \in DOMAIN runs' : runs'[i].born <= made'.runs
    BY <1>2, <1>3, <1>6, <1>7, <1>8
  <1>12. \A i, k \in DOMAIN runs' : i < k => runs'[i].born < runs'[k].born
    <2> SUFFICES ASSUME NEW i \in DOMAIN runs', NEW k \in DOMAIN runs', i < k
                 PROVE  runs'[i].born < runs'[k].born
      OBVIOUS
    <2>1. i \in DOMAIN runs
      BY <1>4, <1>7, <1>8, <1>9
    <2>2. CASE k = id
      BY <1>2, <1>6, <1>7, <1>8, <2>1, <2>2
    <2>3. CASE k \in DOMAIN runs
      BY <1>8, <2>1, <2>3 DEF TablesOK
    <2> QED
      BY <1>7, <2>2, <2>3
  <1>13. jobs' = jobs
    BY DEF Views!Launch
  <1>14. RowsKept
    BY <1>2, <1>3, <1>6, <1>7, <1>8 DEF RowsKept
  <1> QED
    BY <1>3, <1>7, <1>10, <1>11, <1>12, <1>13, <1>14 DEF TablesOK

LEMMA RunEnds ==
  ASSUME TablesOK, NEW id \in DOMAIN runs, Views!Finish(id)
  PROVE  TablesOK' /\ RowsKept
  <1>1. PICK o \in Outcomes :
          runs' = [runs EXCEPT ![id].status = o.status, ![id].retried = o.retried, ![id].seconds = o.seconds]
    BY DEF Views!Finish
  <1>2. o.status \in RowStates /\ o.retried \in BOOLEAN /\ o.seconds \in Nat
    BY ViewsOfPages DEF Views!ViewsAssumption, RowStates
  <1>3. jobs' = jobs /\ made' = made /\ runs[id].status = "active"
    BY DEF Views!Finish
  <1>4. /\ runs' \in [DOMAIN runs' -> RunRow] /\ DOMAIN runs' = DOMAIN runs
        /\ runs'[id].born = runs[id].born
        /\ \A i \in DOMAIN runs : i # id => runs'[i] = runs[i]
    <2> DEFINE r == [runs[id] EXCEPT !.status = o.status, !.retried = o.retried, !.seconds = o.seconds]
    <2>1. \A i \in DOMAIN runs : runs[i] \in RunRow
      BY DEF TablesOK
    <2>2. r \in RunRow /\ r.born = runs[id].born
      BY <1>2, <2>1 DEF RunRow
    <2>3. runs' = [runs EXCEPT ![id] = r]
      BY <1>1
    <2> HIDE DEF r
    <2>4. runs \in [DOMAIN runs -> RunRow]
      BY DEF TablesOK
    <2> QED
      BY <2>1, <2>2, <2>3, <2>4
  <1>5. \A i \in DOMAIN runs : runs'[i].born = runs[i].born
    BY <1>4
  <1>6. made.runs \in Nat
    BY ViewsOfPages DEF TablesOK, Views!ViewsAssumption
  <1>7. RowsKept
    BY <1>3, <1>4, <1>6 DEF RowsKept
  <1> QED
    BY <1>3, <1>4, <1>5, <1>7 DEF TablesOK

LEMMA TablesChange ==
  ASSUME TablesOK, Views!Changes
  PROVE  TablesOK' /\ RowsKept /\ Views!Noted
  <1>1. CASE Views!CreateJob
    BY <1>1, JobMade DEF Views!CreateJob
  <1>2. CASE \E id \in DOMAIN jobs : Views!DeleteJob(id)
    BY <1>2, JobGoes DEF Views!DeleteJob
  <1>3. CASE \E id \in DOMAIN jobs : \E u \in Users : Views!Launch(id, u)
    BY <1>3, RunMade DEF Views!Launch
  <1>4. CASE \E id \in DOMAIN runs : Views!Finish(id)
    BY <1>4, RunEnds DEF Views!Finish
  <1>5. CASE \E id \in DOMAIN runs : Views!DeleteRun(id)
    BY <1>5, RunsGo DEF Views!DeleteRun
  <1> QED
    BY <1>1, <1>2, <1>3, <1>4, <1>5 DEF Views!Changes

-----------------------------------------------------------------------------
(* The requests.                                                             *)

LEMMA NoAnswerFits ==
  ASSUME answer' = Views!NoAnswer
  PROVE  AnswerFits'
  <1>1. answer'.kind = "none"
    BY DEF Views!NoAnswer
  <1> QED
    BY <1>1 DEF AnswerFits, Views!ListIsOwn, Views!PageFitsTotal, Views!OnlySettledGo, Views!LastIsLatest,
                Views!StatsAddUp

LEMMA AnswerStays ==
  ASSUME AnswerFits, answer' = answer
  PROVE  AnswerFits'
  BY DEF AnswerFits, Views!ListIsOwn, Views!PageFitsTotal, Views!OnlySettledGo, Views!LastIsLatest,
         Views!StatsAddUp

LEMMA NothingAskedFits ==
  ASSUME asked' = [kind |-> "none"]
  PROVE  AskedOK' /\ AskedFits'
  BY DEF AskedOK, AskedFits, ListFits, DeleteFits, SchedulesFit, StatsFit

LEMMA AskedIs ==
  ASSUME AskedOK
  PROVE  /\ asked.kind = "none" => asked = [kind |-> "none"]
         /\ asked.kind = "list" => asked \in ListAsked
         /\ asked.kind = "delete" => asked \in DeleteAsked
         /\ asked.kind = "schedules" => asked \in SchedulesAsked
         /\ asked.kind = "stats" => asked \in StatsAsked
         /\ asked.kind \in {"none", "list", "delete", "schedules", "stats"}
  BY DEF AskedOK, ListAsked, DeleteAsked, SchedulesAsked, StatsAsked

\* A change while a request is open.
LEMMA RequestSurvives ==
  ASSUME TablesOK, AskedOK, AskedFits, TablesOK', RowsKept, Views!Noted
  PROVE  AskedOK' /\ AskedFits' /\ AnswerFits'
  <1>1. AnswerFits'
    BY NoAnswerFits DEF Views!Noted
  <1>2. CASE asked = Views!NoRequest /\ asked' = asked
    BY <1>1, <1>2, NothingAskedFits DEF Views!NoRequest
  <1>3. CASE asked # Views!NoRequest /\ asked' = [asked EXCEPT !.moved = @ + 1]
    <2> DEFINE m == asked.moved + 1
    <2>1. asked' = [asked EXCEPT !.moved = m]
      BY <1>3
    <2>2. CASE asked.kind = "list"
      <3>1. asked \in ListAsked
        BY <2>2, AskedIs
      <3>2. m \in Nat /\ m # 0
        BY <3>1 DEF ListAsked
      <3> HIDE DEF m
      <3>3. /\ asked' \in ListAsked /\ asked'.moved = m /\ asked'.kind = "list" /\ asked'.stage = asked.stage
            /\ asked'.query = asked.query /\ asked'.page = asked.page
        BY <2>1, <2>2, <3>1, <3>2 DEF ListAsked
      <3>4. asked.stage = "jobs" => PageOK(asked)'
        BY <2>2, <3>2, <3>3 DEF AskedFits, ListFits, PageOK
      <3>5. asked'.stage = "page" => asked'.page = <<>>
        BY <2>2, <3>3 DEF AskedFits, ListFits
      <3>6. ListFits'
        BY <3>2, <3>3, <3>4, <3>5 DEF ListFits
      <3> QED
        BY <1>1, <3>3, <3>6 DEF AskedOK, AskedFits, DeleteFits, SchedulesFit, StatsFit
    <2>3. CASE asked.kind = "delete"
      <3>1. asked \in DeleteAsked
        BY <2>3, AskedIs
      <3>2. m \in Nat
        BY <3>1 DEF DeleteAsked
      <3> HIDE DEF m
      <3>3. /\ asked' \in DeleteAsked /\ asked'.kind = "delete"
            /\ asked'.user = asked.user /\ asked'.chosen = asked.chosen
        BY <2>1, <2>3, <3>1, <3>2 DEF DeleteAsked
      <3>4. DeleteFits'
        <4> SUFFICES ASSUME NEW id \in DOMAIN asked.chosen
                     PROVE  /\ asked.chosen[id] <= made'.runs
                            /\ id \in DOMAIN runs' /\ asked.chosen[id] = runs'[id].born =>
                                 runs'[id].status # "active" /\ asked.user \in {Admin, runs'[id].owner}
          BY <3>3 DEF DeleteFits
        <4>1. /\ asked.chosen[id] <= made.runs
              /\ id \in DOMAIN runs /\ asked.chosen[id] = runs[id].born =>
                   runs[id].status # "active" /\ asked.user \in {Admin, runs[id].owner}
          BY <2>3 DEF AskedFits, DeleteFits
        <4>2. made.runs \in Nat /\ made'.runs \in Nat /\ made'.runs >= made.runs
          BY ViewsOfPages DEF TablesOK, Views!ViewsAssumption, RowsKept
        <4>3. asked.chosen[id] \in Nat
          <5>1. PICK D \in SUBSET RowIds : asked.chosen \in [D -> RowIds]
            BY <3>1 DEF DeleteAsked
          <5>2. asked.chosen[id] \in RowIds
            BY <5>1
          <5>3. \A b \in RowIds : b \in Nat
            BY DEF RowIds
          <5> QED
            BY Zenon, <5>2, <5>3
        <4>4. ASSUME id \in DOMAIN runs', asked.chosen[id] = runs'[id].born
              PROVE  runs'[id].status # "active" /\ asked.user \in {Admin, runs'[id].owner}
          <5>1. ~(runs'[id].born > made.runs)
            BY <4>1, <4>2, <4>3, <4>4
          <5> QED
            BY <4>1, <4>4, <5>1 DEF RowsKept
        <4> QED
          BY <4>1, <4>2, <4>3, <4>4
      <3> QED
        BY <1>1, <3>3, <3>4 DEF AskedOK, AskedFits, ListFits, SchedulesFit, StatsFit
    <2>4. CASE asked.kind = "schedules"
      <3>1. asked \in SchedulesAsked
        BY <2>4, AskedIs
      <3>2. m \in Nat /\ m # 0
        BY <3>1 DEF SchedulesAsked
      <3> HIDE DEF m
      <3>3. /\ asked' \in SchedulesAsked /\ asked'.moved = m /\ asked'.kind = "schedules" /\ asked'.stage = asked.stage
            /\ asked'.jobs = asked.jobs /\ asked'.counts = asked.counts
        BY <2>1, <2>4, <3>1, <3>2 DEF SchedulesAsked
      <3>4. SchedulesFit'
        BY <2>4, <3>2, <3>3 DEF AskedFits, SchedulesFit
      <3> QED
        BY <1>1, <3>3, <3>4 DEF AskedOK, AskedFits, ListFits, DeleteFits, StatsFit
    <2>5. CASE asked.kind = "stats"
      <3>1. asked \in StatsAsked
        BY <2>5, AskedIs
      <3>2. m \in Nat /\ m # 0
        BY <3>1 DEF StatsAsked
      <3> HIDE DEF m
      <3>3. /\ asked' \in StatsAsked /\ asked'.moved = m /\ asked'.kind = "stats" /\ asked'.stage = asked.stage
            /\ asked'.durations = asked.durations /\ asked'.p50 = asked.p50 /\ asked'.p95 = asked.p95
        BY <2>1, <2>5, <3>1, <3>2 DEF StatsAsked
      <3>4. asked.stage = "types" => PercentilesOK(asked)'
        BY <2>5, <3>3 DEF AskedFits, StatsFit, PercentilesOK
      <3>5. StatsFit'
        BY <3>2, <3>3, <3>4 DEF StatsFit
      <3> QED
        BY <1>1, <3>3, <3>5 DEF AskedOK, AskedFits, ListFits, DeleteFits, SchedulesFit
    <2>6. asked.kind # "none"
      BY <1>3, AskedIs DEF Views!NoRequest
    <2> QED
      BY <2>2, <2>3, <2>4, <2>5, <2>6, AskedIs
  <1> QED
    BY <1>2, <1>3 DEF Views!Noted

LEMMA RunsFinite ==
  ASSUME TablesOK
  PROVE  /\ IsFiniteSet(DOMAIN runs) /\ DOMAIN runs \in SUBSET Nat /\ Cardinality(DOMAIN runs) \in Nat
         /\ \A S \in SUBSET DOMAIN runs : IsFiniteSet(S) /\ Cardinality(S) \in Nat /\ Cardinality(S) <= Cardinality(DOMAIN runs)
  <1>1. made.runs \in Nat
    BY ViewsOfPages DEF TablesOK, Views!ViewsAssumption
  <1>2. DOMAIN runs \in SUBSET (1..made.runs)
    BY DEF TablesOK
  <1>3. IsFiniteSet(1..made.runs)
    BY <1>1, FS_Interval
  <1>4. IsFiniteSet(DOMAIN runs)
    BY <1>2, <1>3, FS_Subset
  <1>5. DOMAIN runs \in SUBSET Nat
    BY <1>1, <1>2
  <1> QED
    BY <1>4, <1>5, FS_Subset, FS_CardinalityType

\* Opening a request.
LEMMA OpenIs ==
  ASSUME AnswerFits, TablesOK, NEW r, Views!Open(r)
  PROVE  TablesOK' /\ AnswerFits' /\ asked' = r
  BY NoAnswerFits DEF Views!Open, TablesOK

LEMMA ReadsIs ==
  ASSUME AnswerFits, TablesOK, NEW r, Views!Reads(r)
  PROVE  TablesOK' /\ AnswerFits' /\ asked' = r /\ runs' = runs /\ jobs' = jobs
  BY AnswerStays DEF Views!Reads, TablesOK

\* With an answer nothing is left to fit.
LEMMA AnswersIs ==
  ASSUME TablesOK, NEW r, Views!Answers(r)
  PROVE  TablesOK' /\ AskedOK' /\ AskedFits' /\ answer' = r
  BY NothingAskedFits DEF Views!Answers, TablesOK, Views!NoRequest

-----------------------------------------------------------------------------
(* get_stats.                                                                *)

LEMMA TotalsStep ==
  ASSUME ViewsInv, Views!Totals
  PROVE  ViewsInv'
  <1> DEFINE r == [kind |-> "stats", stage |-> "counts", moved |-> 0, total |-> Cardinality(DOMAIN runs),
                   success |-> 0, failed |-> 0, active |-> 0, retried |-> 0,
                   durations |-> <<>>, p50 |-> 0, p95 |-> 0, byType |-> <<>>, rows |-> 0]
  <1>1. Views!Open(r)
    BY SameSize DEF Views!Totals
  <1>2. r \in StatsAsked
    BY RunsFinite DEF ViewsInv, StatsAsked
  <1>3. r.kind = "stats" /\ r.stage = "counts" /\ r.total = Cardinality(DOMAIN runs)
    OBVIOUS
  <1> HIDE DEF r
  <1>4. TablesOK' /\ AnswerFits' /\ asked' = r
    BY <1>1, OpenIs DEF ViewsInv
  <1>5. runs' = runs
    BY <1>1 DEF Views!Open
  <1>6. AskedOK'
    BY <1>2, <1>4 DEF AskedOK
  <1>7. AskedFits'
    BY <1>3, <1>4, <1>5 DEF AskedFits, ListFits, DeleteFits, SchedulesFit, StatsFit
  <1> QED
    BY <1>4, <1>6, <1>7 DEF ViewsInv

LEMMA StatusesStep ==
  ASSUME ViewsInv, Views!Statuses
  PROVE  ViewsInv'
  <1> DEFINE C(s) == Cardinality({id \in DOMAIN runs : runs[id].status = s})
             s1 == C("success")
             s2 == C("failed")
             s3 == C("active")
             r == [asked EXCEPT !.stage = "trust", !.success = s1, !.failed = s2, !.active = s3]
  <1>1. Views!Reads(r)
    BY SameSize DEF Views!Statuses, Views!InStatus
  <1>2. s1 \in Nat /\ s2 \in Nat /\ s3 \in Nat /\ s1 + s2 + s3 = Cardinality(DOMAIN runs)
    <2>1. \A i \in DOMAIN runs : runs[i].status \in RowStates
      BY DEF ViewsInv, TablesOK, RunRow
    <2> QED
      BY <2>1, RunsFinite, ThreeParts DEF ViewsInv
  <1> HIDE DEF s1, s2, s3
  <1>3. asked \in StatsAsked /\ asked.stage = "counts" /\ asked.kind = "stats"
    BY AskedIs DEF Views!Statuses, Views!At, ViewsInv
  <1>4. /\ r \in StatsAsked /\ r.kind = "stats" /\ r.stage = "trust" /\ r.total = asked.total /\ r.moved = asked.moved
        /\ r.success = s1 /\ r.failed = s2 /\ r.active = s3
    BY <1>2, <1>3 DEF StatsAsked
  <1> HIDE DEF r
  <1>5. TablesOK' /\ AnswerFits' /\ asked' = r /\ runs' = runs
    BY <1>1, ReadsIs DEF ViewsInv
  <1>6. asked.moved = 0 => asked.total = Cardinality(DOMAIN runs)
    BY <1>3 DEF ViewsInv, AskedFits, StatsFit
  <1>7. AskedOK'
    BY <1>4, <1>5 DEF AskedOK
  <1>8. AskedFits'
    BY <1>2, <1>4, <1>5, <1>6 DEF AskedFits, ListFits, DeleteFits, SchedulesFit, StatsFit
  <1> QED
    BY <1>5, <1>7, <1>8 DEF ViewsInv

LEMMA RetriesStep ==
  ASSUME ViewsInv, Views!Retries
  PROVE  ViewsInv'
  <1> DEFINE n == Cardinality({id \in DOMAIN runs : runs[id].retried})
             r == [asked EXCEPT !.stage = "durations", !.retried = n]
  <1>1. Views!Reads(r)
    BY SameSize DEF Views!Retries
  <1>2. n \in Nat /\ n <= Cardinality(DOMAIN runs)
    BY RunsFinite DEF ViewsInv
  <1> HIDE DEF n
  <1>3. asked \in StatsAsked /\ asked.stage = "trust" /\ asked.kind = "stats"
    BY AskedIs DEF Views!Retries, Views!At, ViewsInv
  <1>4. /\ r \in StatsAsked /\ r.kind = "stats" /\ r.stage = "durations" /\ r.total = asked.total /\ r.moved = asked.moved
        /\ r.success = asked.success /\ r.failed = asked.failed /\ r.active = asked.active /\ r.retried = n
    BY <1>2, <1>3 DEF StatsAsked
  <1> HIDE DEF r
  <1>5. TablesOK' /\ AnswerFits' /\ asked' = r /\ runs' = runs
    BY <1>1, ReadsIs DEF ViewsInv
  <1>6. asked.moved = 0 => /\ asked.total = Cardinality(DOMAIN runs)
                           /\ asked.success + asked.failed + asked.active = asked.total
    BY <1>3 DEF ViewsInv, AskedFits, StatsFit
  <1>7. AskedOK'
    BY <1>4, <1>5 DEF AskedOK
  <1>8. AskedFits'
    BY <1>2, <1>4, <1>5, <1>6 DEF AskedFits, ListFits, DeleteFits, SchedulesFit, StatsFit
  <1> QED
    BY <1>5, <1>7, <1>8 DEF ViewsInv

\* The durations are in order.
LEMMA DurationsStep ==
  ASSUME ViewsInv, Views!Durations
  PROVE  ViewsInv'
  <1> DEFINE E == {id \in DOMAIN runs : runs[id].status # "active"}
             o == Views!Ordered(E, Views!Shorter)
             d == [i \in DOMAIN o |-> runs[o[i]].seconds]
             p == Views!Percentile(d, 50)
             q == Views!Percentile(d, 95)
             r == [asked EXCEPT !.stage = "types", !.durations = d, !.p50 = p, !.p95 = q]
             n == Cardinality(E)
  <1>1. Views!Reads(r)
    BY Zenon DEF Views!Durations
  <1>2. \A i \in DOMAIN runs : runs[i].seconds \in Nat /\ i \in Nat
    BY RunsFinite DEF ViewsInv, TablesOK, RunRow
  <1>3. IsFiniteSet(E) /\ n \in Nat /\ n <= Cardinality(DOMAIN runs) /\ E \in SUBSET DOMAIN runs
    BY RunsFinite DEF ViewsInv
  <1>4. /\ \A i \in E : <<i, i>> \notin Views!Shorter
        /\ \A i, j, k \in E : <<i, j>> \in Views!Shorter /\ <<j, k>> \in Views!Shorter => <<i, k>> \in Views!Shorter
        /\ \A i, j \in E : i # j => <<i, j>> \in Views!Shorter \/ <<j, i>> \in Views!Shorter
        /\ \A i, j \in E : <<i, j>> \in Views!Shorter => runs[i].seconds <= runs[j].seconds
    <2>1. \A i, j \in E : <<i, j>> \in Views!Shorter <=>
            \/ runs[i].seconds < runs[j].seconds
            \/ runs[i].seconds = runs[j].seconds /\ i < j
      BY DEF Views!Shorter
    <2> HIDE DEF E
    <2> QED
      BY <1>2, <1>3, <2>1
  <1> HIDE DEF E
  <1>5. /\ o \in [1..n -> E]
        /\ \A a, b \in 1..n : a < b => <<o[a], o[b]>> \in Views!Shorter
    BY <1>3, <1>4, OrderIs
  <1> HIDE DEF o, n
  <1>6. d \in [1..n -> Nat] /\ \A i \in 1..n : d[i] = runs[o[i]].seconds /\ o[i] \in E
    BY <1>2, <1>3, <1>5
  <1> HIDE DEF d
  <1>7. d \in Seq(Nat) /\ Len(d) = n
    BY <1>3, <1>6, SeqDef
  <1>8. \A a, b \in 1..Len(d) : a < b => d[a] <= d[b]
    <2> SUFFICES ASSUME NEW a \in 1..n, NEW b \in 1..n, a < b PROVE d[a] <= d[b]
      BY <1>7
    <2>1. o[a] \in E /\ o[b] \in E /\ d[a] = runs[o[a]].seconds /\ d[b] = runs[o[b]].seconds
      BY <1>6
    <2>2. <<o[a], o[b]>> \in Views!Shorter
      BY <1>5
    <2>3. runs[o[a]].seconds <= runs[o[b]].seconds
      BY <1>4, <2>1, <2>2
    <2> QED
      BY <2>1, <2>3
  <1>9. /\ p \in Nat /\ q \in Nat /\ p <= q
        /\ d # <<>> =>
             /\ \E i \in DOMAIN d : d[i] = p
             /\ \E i \in DOMAIN d : d[i] = q
             /\ 2 * Cardinality({i \in DOMAIN d : d[i] <= p}) >= Len(d)
    BY <1>7, <1>8, PercentileIs
  <1> HIDE DEF p, q
  <1>10. asked \in StatsAsked /\ asked.stage = "durations" /\ asked.kind = "stats"
    BY AskedIs DEF Views!Durations, Views!At, ViewsInv
  <1>11. /\ r \in StatsAsked /\ r.kind = "stats" /\ r.stage = "types" /\ r.total = asked.total /\ r.moved = asked.moved
         /\ r.success = asked.success /\ r.failed = asked.failed /\ r.active = asked.active /\ r.retried = asked.retried
         /\ r.durations = d /\ r.p50 = p /\ r.p95 = q
    BY <1>7, <1>9, <1>10 DEF StatsAsked
  <1> HIDE DEF r
  <1>12. TablesOK' /\ AnswerFits' /\ asked' = r /\ runs' = runs
    BY <1>1, ReadsIs DEF ViewsInv
  <1>13. asked.moved = 0 => /\ asked.total = Cardinality(DOMAIN runs) /\ asked.retried <= asked.total
                            /\ asked.success + asked.failed + asked.active = asked.total
    BY <1>10 DEF ViewsInv, AskedFits, StatsFit
  <1>14. AskedOK'
    BY <1>11, <1>12 DEF AskedOK
  <1>15. PercentilesOK(r)
    BY <1>9, <1>11 DEF PercentilesOK
  <1>16. AskedFits'
    BY <1>3, <1>7, <1>11, <1>12, <1>13, <1>15 DEF AskedFits, ListFits, DeleteFits, SchedulesFit, StatsFit
  <1> QED
    BY <1>12, <1>14, <1>16 DEF ViewsInv

\* Each run is counted once, in the row of its type.
LEMMA ByTypeStep ==
  ASSUME ViewsInv, Views!ByType
  PROVE  ViewsInv'
  <1> DEFINE D == DOMAIN runs
             F == [id \in D |-> Views!TypeOf(id)]
             G(t) == {id \in D : F[id] = t}
             T == {F[id] : id \in D}
             n == Cardinality(D)
             Row(t) == [total |-> Views!Grouped(t, "success") + Views!Grouped(t, "failed") + Views!Grouped(t, "active"),
                        active |-> Views!Grouped(t, "active")]
             rows == [t \in T |-> Row(t)]
             r == [asked EXCEPT !.rows = n, !.byType = rows]
  <1>1. Views!Answers(r)
    <2>1. Views!Answers([asked EXCEPT !.rows = Views!Cardinality(D),
            !.byType = [t \in {Views!TypeOf(id) : id \in D} |-> Row(t)]])
      BY Zenon DEF Views!ByType
    <2>2. T = {Views!TypeOf(id) : id \in D}
      OBVIOUS
    <2>3. Views!Cardinality(D) = n
      BY SameSize
    <2> HIDE DEF T, n
    <2> QED
      BY Zenon, <2>1, <2>2, <2>3
  <1>2. IsFiniteSet(D) /\ D \in SUBSET Nat
    BY RunsFinite DEF ViewsInv
  <1>3. \A i \in D : runs[i].status \in RowStates
    BY DEF ViewsInv, TablesOK, RunRow
  <1>4. ASSUME NEW t PROVE Row(t).total = Cardinality(G(t))
    <2> DEFINE X == G(t)
               C(s) == Cardinality({i \in X : runs[i].status = s})
    <2>1. \A s : Views!Grouped(t, s) = C(s)
      <3> SUFFICES ASSUME NEW s PROVE Views!Grouped(t, s) = C(s)
        OBVIOUS
      <3>1. {id \in D : Views!TypeOf(id) = t /\ runs[id].status = s} = {i \in X : runs[i].status = s}
        OBVIOUS
      <3>2. Views!Grouped(t, s) = Cardinality({id \in D : Views!TypeOf(id) = t /\ runs[id].status = s})
        BY SameSize DEF Views!Grouped
      <3> QED
        BY <3>1, <3>2
    <2>2. X \in SUBSET D
      OBVIOUS
    <2> HIDE DEF X
    <2>3. IsFiniteSet(X) /\ \A i \in X : runs[i].status \in RowStates
      BY <1>2, <1>3, <2>2, FS_Subset
    <2>4. C("success") + C("failed") + C("active") = Cardinality(X)
      BY <2>3, ThreeParts
    <2> HIDE DEF C
    <2> QED
      BY <2>1, <2>4 DEF X
  <1>5. DOMAIN rows = T /\ \A t \in T : rows[t].total = Cardinality(G(t))
    <2> HIDE DEF G
    <2>1. DOMAIN rows = T /\ \A t \in T : rows[t] = Row(t)
      OBVIOUS
    <2> HIDE DEF rows, Row, T
    <2> QED
      BY <1>4, <2>1
  <1>6. \A i \in D : F[i] \in T
    OBVIOUS
  <1> HIDE DEF rows, T
  <1> DEFINE U == UNION {{t} \X (1..rows[t].total) : t \in DOMAIN rows}
  <1>7. Cardinality(U) = n
    <2>1. \A p : p \in U <=> \E t \in T : p \in {t} \X (1..rows[t].total)
      BY Zenon, <1>5
    <2> DEFINE size == [t \in T |-> rows[t].total]
    <2>2. \A t \in T : size[t] = rows[t].total
      OBVIOUS
    <2> HIDE DEF size, U
    <2>3. \A p, t : p \in {t} \X (1..rows[t].total) <=> \E a \in 1..rows[t].total : p = <<t, a>>
      OBVIOUS
    <2>4. \A p : p \in U <=> \E t \in T : \E a \in 1..size[t] : p = <<t, a>>
      BY <2>1, <2>2, <2>3
    <2>5. \A t \in T : size[t] = Cardinality({i \in D : F[i] = t})
      BY <1>5, <2>2
    <2> HIDE DEF F, D
    <2>6. CountedBy(D, F, T, size, U)
      BY <1>6, <2>4, <2>5 DEF CountedBy
    <2> QED
      BY <1>2, <2>6, SplitCount
  <1> HIDE DEF F, G, n, U
  <1>8. asked \in StatsAsked /\ asked.stage = "types" /\ asked.kind = "stats"
    BY AskedIs DEF Views!ByType, Views!At, ViewsInv
  <1>9. /\ r.kind = "stats" /\ r.stage = "types" /\ r.total = asked.total /\ r.moved = asked.moved
        /\ r.success = asked.success /\ r.failed = asked.failed /\ r.active = asked.active /\ r.retried = asked.retried
        /\ r.durations = asked.durations /\ r.p50 = asked.p50 /\ r.p95 = asked.p95
        /\ r.rows = n /\ r.byType = rows
    BY <1>8 DEF StatsAsked
  <1> HIDE DEF r
  <1>10. TablesOK' /\ AskedOK' /\ AskedFits' /\ answer' = r
    BY <1>1, AnswersIs DEF ViewsInv
  <1>11. r.moved = 0 => /\ r.success + r.failed + r.active = r.total
                        /\ r.retried <= r.total /\ Len(r.durations) <= r.total
    BY <1>8, <1>9 DEF ViewsInv, AskedFits, StatsFit
  <1>12. PercentilesOK(r)
    BY <1>8, <1>9 DEF ViewsInv, AskedFits, StatsFit, PercentilesOK
  <1>13. r.rows = Cardinality(UNION {{t} \X (1..r.byType[t].total) : t \in DOMAIN r.byType})
    BY <1>7, <1>9 DEF U
  <1>14. r.durations \in Seq(Nat)
    BY <1>8, <1>9 DEF StatsAsked
  <1>15. Views!StatsAddUp'
    <2>1. r.rows = Views!Cardinality(UNION {{t} \X (1..r.byType[t].total) : t \in DOMAIN r.byType})
      BY <1>13, SameSize
    <2>2. r.durations # <<>> =>
            /\ r.p50 \in Views!ToSet(r.durations) /\ r.p95 \in Views!ToSet(r.durations)
            /\ 2 * Views!Cardinality({i \in DOMAIN r.durations : r.durations[i] <= r.p50}) >= Len(r.durations)
      <3>1. Views!ToSet(r.durations) = {r.durations[i] : i \in DOMAIN r.durations}
        BY Zenon DEF Views!ToSet
      <3> QED
        BY <1>12, <3>1, SameSize DEF PercentilesOK
    <2>3. r.p50 <= r.p95
      BY <1>12 DEF PercentilesOK
    <2> QED
      BY <1>10, <1>11, <2>1, <2>2, <2>3 DEF Views!StatsAddUp
  <1>16. AnswerFits'
    BY <1>9, <1>10, <1>15 DEF AnswerFits, Views!ListIsOwn, Views!PageFitsTotal, Views!OnlySettledGo, Views!LastIsLatest
  <1> QED
    BY <1>10, <1>16 DEF ViewsInv

-----------------------------------------------------------------------------
(* list_schedules.                                                           *)

LEMMA ReadJobsStep ==
  ASSUME ViewsInv, Views!ReadJobs
  PROVE  ViewsInv'
  <1> DEFINE r == [kind |-> "schedules", stage |-> "counts", moved |-> 0, jobs |-> DOMAIN jobs,
                   counts |-> <<>>, last |-> <<>>, latest |-> <<>>]
  <1>1. Views!Open(r)
    BY DEF Views!ReadJobs
  <1>2. DOMAIN jobs \in SUBSET JobIds
    BY ViewsOfPages DEF ViewsInv, TablesOK, JobIds, Views!ViewsAssumption
  <1>3. r \in SchedulesAsked /\ r.kind = "schedules" /\ r.stage = "counts"
    BY <1>2 DEF SchedulesAsked
  <1> HIDE DEF r
  <1>4. TablesOK' /\ AnswerFits' /\ asked' = r
    BY <1>1, OpenIs DEF ViewsInv
  <1>5. AskedOK'
    BY <1>3, <1>4 DEF AskedOK
  <1>6. AskedFits'
    BY <1>3, <1>4 DEF AskedFits, ListFits, DeleteFits, SchedulesFit, StatsFit
  <1> QED
    BY <1>4, <1>5, <1>6 DEF ViewsInv

LEMMA CountRunsStep ==
  ASSUME ViewsInv, Views!CountRuns
  PROVE  ViewsInv'
  <1> DEFINE c == [j \in asked.jobs |-> Cardinality(Views!RunsOf(j))]
             r == [asked EXCEPT !.stage = "last", !.counts = c]
  <1>1. Views!Reads(r)
    <2>1. Views!Reads([asked EXCEPT !.stage = "last", !.counts = [j \in asked.jobs |-> Views!Cardinality(Views!RunsOf(j))]])
      BY Zenon DEF Views!CountRuns
    <2>2. c = [j \in asked.jobs |-> Views!Cardinality(Views!RunsOf(j))]
      BY SameSize
    <2> HIDE DEF c
    <2> QED
      BY Zenon, <2>1, <2>2
  <1>2. c \in [asked.jobs -> Nat] /\ \A j \in asked.jobs : c[j] = Cardinality(Views!RunsOf(j))
    <2>1. \A j : Views!RunsOf(j) \in SUBSET DOMAIN runs
      BY DEF Views!RunsOf
    <2> QED
      BY <2>1, RunsFinite DEF ViewsInv
  <1> HIDE DEF c
  <1>3. asked \in SchedulesAsked /\ asked.stage = "counts" /\ asked.kind = "schedules"
    BY AskedIs DEF Views!CountRuns, Views!At, ViewsInv
  <1>4. c \in {<<>>} \cup UNION {[D -> Nat] : D \in SUBSET JobIds}
    <2>1. asked.jobs \in SUBSET JobIds
      BY <1>3 DEF SchedulesAsked
    <2> QED
      BY <1>2, <2>1
  <1>5. /\ r \in SchedulesAsked /\ r.kind = "schedules" /\ r.stage = "last" /\ r.moved = asked.moved
        /\ r.jobs = asked.jobs /\ r.counts = c
    BY <1>3, <1>4 DEF SchedulesAsked
  <1> HIDE DEF r
  <1>6. TablesOK' /\ AnswerFits' /\ asked' = r /\ runs' = runs
    BY <1>1, ReadsIs DEF ViewsInv
  <1>7. AskedOK'
    BY <1>5, <1>6 DEF AskedOK
  <1>8. \A j : Views!RunsOf(j)' = Views!RunsOf(j)
    BY <1>6 DEF Views!RunsOf
  <1>9. AskedFits'
    BY <1>2, <1>5, <1>6, <1>8 DEF AskedFits, ListFits, DeleteFits, SchedulesFit, StatsFit
  <1> QED
    BY <1>6, <1>7, <1>9 DEF ViewsInv

\* An id that is larger was given out later, so the run with the largest is the latest.
LEMMA LastRunsStep ==
  ASSUME ViewsInv, Views!LastRuns
  PROVE  ViewsInv'
  <1> DEFINE S(j) == Views!RunsOf(j)
             B(j) == {runs[id].born : id \in S(j)}
             seen == {j \in asked.jobs : S(j) # {}}
             last == [j \in seen |-> runs[Views!Max(S(j))].born]
             latest == [j \in seen |-> Views!Max(B(j))]
             r == [asked EXCEPT !.last = last, !.latest = latest]
  <1>1. Views!Answers(r)
    BY Zenon DEF Views!LastRuns
  <1>2. ASSUME NEW j \in seen PROVE runs[Views!Max(S(j))].born = Views!Max(B(j))
    <2>1. made.runs \in Nat /\ DOMAIN runs \subseteq 1..made.runs
      BY ViewsOfPages DEF ViewsInv, TablesOK, Views!ViewsAssumption
    <2>2. S(j) \in SUBSET DOMAIN runs /\ S(j) # {}
      BY DEF Views!RunsOf
    <2>3. \A id \in DOMAIN runs : runs[id].born \in 0..made.runs
      <3>1. \A b \in RowIds : b \in Nat
        BY DEF RowIds
      <3>2. \A id \in DOMAIN runs : runs[id].born \in RowIds /\ runs[id].born <= made.runs
        BY DEF ViewsInv, TablesOK, RunRow
      <3> QED
        BY <2>1, <3>1, <3>2
    <2> DEFINE X == S(j)
               Y == {runs[id].born : id \in X}
               m == Views!Max(X)
    <2>4. X \in SUBSET (0..made.runs) /\ X # {} /\ X \in SUBSET DOMAIN runs
      BY <2>1, <2>2
    <2> HIDE DEF X
    <2>5. Y \in SUBSET (0..made.runs) /\ Y # {}
      BY <2>3, <2>4
    <2>6. m \in X /\ m \in Nat /\ \A t \in X : t <= m
      BY <2>1, <2>4, MaxIs
    <2> HIDE DEF m, Y
    <2>7. Views!Max(Y) \in Y /\ Views!Max(Y) \in Nat /\ \A t \in Y : t <= Views!Max(Y)
      BY <2>1, <2>5, MaxIs
    <2>8. \A id \in X : runs[id].born <= runs[m].born
      <3> SUFFICES ASSUME NEW id \in X PROVE runs[id].born <= runs[m].born
        OBVIOUS
      <3>1. id \in DOMAIN runs /\ m \in DOMAIN runs /\ id \in Nat /\ id <= m
        BY <2>1, <2>4, <2>6
      <3>2. runs[id].born \in Nat /\ runs[m].born \in Nat
        BY <2>1, <2>3, <3>1
      <3>3. id = m \/ id < m
        BY <2>6, <3>1
      <3>4. id < m => runs[id].born < runs[m].born
        BY <3>1 DEF ViewsInv, TablesOK
      <3> QED
        BY <3>2, <3>3, <3>4
    <2>9. runs[m].born \in Y /\ runs[m].born \in Nat
      BY <2>1, <2>3, <2>4, <2>6 DEF Y
    <2>10. Views!Max(Y) <= runs[m].born
      BY <2>7, <2>8 DEF Y
    <2>11. runs[m].born <= Views!Max(Y)
      BY <2>7, <2>9
    <2> QED
      BY <2>7, <2>9, <2>10, <2>11 DEF X, Y, m
  <1>3. last = latest
    <2> HIDE DEF seen, S, B
    <2> QED
      BY <1>2
  <1>4. asked \in SchedulesAsked /\ asked.stage = "last" /\ asked.kind = "schedules"
    BY AskedIs DEF Views!LastRuns, Views!At, ViewsInv
  <1>5. DOMAIN last = seen
    OBVIOUS
  <1> HIDE DEF last, latest
  <1>6. /\ r.kind = "schedules" /\ r.moved = asked.moved /\ r.counts = asked.counts
        /\ r.last = last /\ r.latest = latest
    BY <1>4 DEF SchedulesAsked
  <1> HIDE DEF r
  <1>7. TablesOK' /\ AskedOK' /\ AskedFits' /\ answer' = r
    BY <1>1, AnswersIs DEF ViewsInv
  <1>8. asked.moved = 0 => \A j \in DOMAIN asked.counts : (asked.counts[j] > 0) = (j \in seen)
    <2>1. ASSUME asked.moved = 0, NEW j \in DOMAIN asked.counts
          PROVE  (asked.counts[j] > 0) = (j \in seen)
      <3>1. j \in asked.jobs /\ asked.counts[j] = Cardinality(S(j))
        BY <1>4, <2>1 DEF ViewsInv, AskedFits, SchedulesFit
      <3>2. IsFiniteSet(S(j)) /\ Cardinality(S(j)) \in Nat
        <4>1. S(j) \in SUBSET DOMAIN runs
          BY DEF Views!RunsOf
        <4> HIDE DEF S
        <4> QED
          BY <4>1, RunsFinite DEF ViewsInv
      <3>3. S(j) = {} <=> Cardinality(S(j)) = 0
        <4> HIDE DEF S
        <4> QED
          BY <3>2, FS_EmptySet
      <3>4. j \in seen <=> S(j) # {}
        BY <3>1
      <3> HIDE DEF S, seen
      <3> QED
        BY <3>1, <3>2, <3>3, <3>4
    <2> QED
      BY <2>1
  <1>9. Views!LastIsLatest'
    BY <1>3, <1>5, <1>6, <1>7, <1>8 DEF Views!LastIsLatest
  <1>10. AnswerFits'
    BY <1>6, <1>7, <1>9 DEF AnswerFits, Views!ListIsOwn, Views!PageFitsTotal, Views!OnlySettledGo, Views!StatsAddUp
  <1> QED
    BY <1>7, <1>10 DEF ViewsInv

-----------------------------------------------------------------------------
(* list_runs.                                                                *)

LEMMA CountRowsStep ==
  ASSUME ViewsInv, Views!CountRows
  PROVE  ViewsInv'
  <1>1. PICK q \in Queries :
          Views!Open([kind |-> "list", stage |-> "page", moved |-> 0, query |-> q,
                      total |-> Views!Cardinality(Views!Matching(q)), page |-> <<>>])
    BY Zenon DEF Views!CountRows
  <1> DEFINE t == Cardinality(Views!Matching(q))
             r == [kind |-> "list", stage |-> "page", moved |-> 0, query |-> q, total |-> t, page |-> <<>>]
  <1>2. Views!Open(r)
    BY <1>1, SameSize
  <1>3. t \in Nat
    <2>1. Views!Matching(q) \in SUBSET DOMAIN runs
      BY DEF Views!Matching
    <2> QED
      BY <2>1, RunsFinite DEF ViewsInv
  <1> HIDE DEF t
  <1>4. <<>> \in Seq(PageRow)
    BY EmptySeq
  <1>5. /\ r \in ListAsked /\ r.kind = "list" /\ r.stage = "page" /\ r.query = q /\ r.total = t /\ r.page = <<>>
    BY <1>3, <1>4 DEF ListAsked
  <1> HIDE DEF r
  <1>6. TablesOK' /\ AnswerFits' /\ asked' = r
    BY <1>2, OpenIs DEF ViewsInv
  <1>7. runs' = runs /\ jobs' = jobs
    BY <1>2 DEF Views!Open
  <1>8. AskedOK'
    BY <1>5, <1>6 DEF AskedOK
  <1>9. Views!Matching(asked.query)' = Views!Matching(q)
    BY <1>5, <1>6, <1>7 DEF Views!Matching, Views!IsOwn, Views!TypeOf, Views!JobType
  <1>10. ListFits'
    BY <1>5, <1>6, <1>9 DEF ListFits, t
  <1>11. AskedFits'
    BY <1>5, <1>6, <1>10 DEF AskedFits, DeleteFits, SchedulesFit, StatsFit
  <1> QED
    BY <1>6, <1>8, <1>11 DEF ViewsInv

\* The rows are those that match, each once, newest first, from the offset on.
LEMMA PageRowsStep ==
  ASSUME ViewsInv, Views!PageRows
  PROVE  ViewsInv'
  <1> DEFINE q == asked.query
             M == Views!Matching(q)
             o == Views!Ordered(M, Views!Newer)
             ids == Views!Page(o, q.offset, q.limit)
             Row(id) == [born |-> runs[id].born, owner |-> runs[id].owner,
                         status |-> runs[id].status, job |-> runs[id].job, type |-> "unknown"]
             page == [i \in DOMAIN ids |-> Row(ids[i])]
             r == [asked EXCEPT !.stage = "jobs", !.page = page]
             m == Cardinality(M)
  <1>1. IF page = <<>> THEN Views!Answers(asked) ELSE Views!Reads(r)
    BY Zenon DEF Views!PageRows
  <1>2. asked \in ListAsked /\ asked.stage = "page" /\ asked.kind = "list"
    BY AskedIs DEF Views!PageRows, Views!At, ViewsInv
  <1>3. q \in Queries /\ q.offset \in Nat /\ q.limit \in Nat
    BY <1>2, ViewsOfPages DEF ListAsked, Views!ViewsAssumption
  <1>4. M \in SUBSET DOMAIN runs
    BY DEF Views!Matching
  <1>5. \A id \in DOMAIN runs : runs[id] \in RunRow /\ runs[id].born \in Nat /\ id \in Nat
    <2>1. \A b \in RowIds : b \in Nat
      BY DEF RowIds
    <2>2. \A id \in DOMAIN runs : runs[id] \in RunRow /\ id \in Nat
      BY RunsFinite DEF ViewsInv, TablesOK
    <2>3. \A x \in RunRow : x.born \in RowIds
      BY DEF RunRow
    <2> QED
      BY <2>1, <2>2, <2>3
  <1>6. /\ \A i \in M : <<i, i>> \notin Views!Newer
        /\ \A i, j, k \in M : <<i, j>> \in Views!Newer /\ <<j, k>> \in Views!Newer => <<i, k>> \in Views!Newer
        /\ \A i, j \in M : i # j => <<i, j>> \in Views!Newer \/ <<j, i>> \in Views!Newer
        /\ \A i, j \in M : <<i, j>> \in Views!Newer => runs[i].born > runs[j].born
    <2>1. \A i, j \in DOMAIN runs : <<i, j>> \in Views!Newer <=> runs[i].born > runs[j].born
      BY DEF Views!Newer
    <2>2. \A i, j \in DOMAIN runs : i < j => runs[i].born < runs[j].born
      BY DEF ViewsInv, TablesOK
    <2> HIDE DEF M
    <2>3. \A i, j \in M : i # j => runs[i].born > runs[j].born \/ runs[j].born > runs[i].born
      <3> SUFFICES ASSUME NEW i \in M, NEW j \in M, i # j
                   PROVE  runs[i].born > runs[j].born \/ runs[j].born > runs[i].born
        OBVIOUS
      <3>1. i \in DOMAIN runs /\ j \in DOMAIN runs /\ i \in Nat /\ j \in Nat
        BY <1>4, <1>5
      <3>2. i < j \/ j < i
        BY <3>1
      <3> QED
        BY <1>5, <2>2, <3>1, <3>2
    <2> QED
      BY <1>4, <1>5, <2>1, <2>3
  <1>7. IsFiniteSet(M) /\ m \in Nat
    BY <1>4, RunsFinite DEF ViewsInv
  <1>8. \A i \in M : /\ q.user \in {Admin, runs[i].owner} /\ q.status \in {"any", runs[i].status}
                     /\ q.type \in {"any", Views!JobType(runs[i].job)}
    BY DEF Views!Matching, Views!IsOwn, Views!TypeOf
  <1>9. asked.moved = 0 => asked.total = m
    BY <1>2 DEF ViewsInv, AskedFits, ListFits
  <1> HIDE DEF q, M
  <1>10. /\ o \in Seq(M) /\ Len(o) = m /\ o \in [1..m -> M]
         /\ \A a, b \in 1..m : a < b => <<o[a], o[b]>> \in Views!Newer
    BY <1>6, <1>7, OrderIs
  <1> HIDE DEF o, m
  <1>11. /\ ids \in Seq(M) /\ Len(ids) \in Nat /\ Len(ids) <= q.limit
         /\ Len(ids) = Views!Max({0, Views!Min({q.limit, Len(o) - q.offset})})
         /\ \A i \in 1..Len(ids) : q.offset + i \in 1..Len(o) /\ ids[i] = o[q.offset + i]
    <2> DEFINE off == q.offset
               lim == q.limit
    <2>1. off \in Nat /\ lim \in Nat /\ o \in Seq(M)
      BY <1>3, <1>10
    <2> HIDE DEF off, lim
    <2>2. LET p == Views!Page(o, off, lim)
          IN  /\ p \in Seq(M) /\ Len(p) \in Nat /\ Len(p) <= lim
              /\ Len(p) = Views!Max({0, Views!Min({lim, Len(o) - off})})
              /\ \A i \in 1..Len(p) : off + i \in 1..Len(o) /\ p[i] = o[off + i]
      BY <2>1, PageIs
    <2> QED
      BY Zenon, <2>2 DEF off, lim
  <1> HIDE DEF ids
  <1> DEFINE n == Len(ids)
  <1>12. DOMAIN ids = 1..n /\ \A i \in 1..n : ids[i] \in M /\ ids[i] \in DOMAIN runs
    BY <1>4, <1>11, LenProperties, ElementOfSeq
  <1>13. \A id \in DOMAIN runs : Row(id) \in PageRow
    BY <1>5 DEF RunRow, PageRow
  <1>14. DOMAIN page = 1..n /\ \A i \in 1..n : page[i] = Row(ids[i])
    BY <1>12
  <1>15. page \in Seq(PageRow) /\ Len(page) = n
    <2> HIDE DEF Row
    <2>1. page \in [1..n -> PageRow]
      BY <1>12, <1>13
    <2>2. n \in Nat
      BY <1>11
    <2> HIDE DEF page, n
    <2> QED
      BY <2>1, <2>2, SeqDef
  <1>16. \A i \in 1..n : /\ page[i].born = runs[ids[i]].born /\ page[i].owner = runs[ids[i]].owner
                         /\ page[i].status = runs[ids[i]].status /\ page[i].job = runs[ids[i]].job
    <2> HIDE DEF page
    <2> QED
      BY <1>14
  <1> HIDE DEF page, Row
  <1>17. \A i \in DOMAIN page : /\ q.user \in {Admin, page[i].owner} /\ q.status \in {"any", page[i].status}
                                /\ q.type \in {"any", Views!JobType(page[i].job)}
    BY <1>8, <1>12, <1>14, <1>16
  <1>18. \A i \in DOMAIN page : \A k \in 1..(i - 1) : page[k].born > page[i].born
    <2> SUFFICES ASSUME NEW i \in 1..n, NEW k \in 1..(i - 1) PROVE page[k].born > page[i].born
      BY <1>14
    <2>1. k \in 1..n /\ k < i
      BY <1>11
    <2>2. /\ ids[k] = o[q.offset + k] /\ ids[i] = o[q.offset + i]
          /\ q.offset + k \in 1..m /\ q.offset + i \in 1..m
      BY <1>10, <1>11, <2>1
    <2>3. q.offset + k < q.offset + i
      BY <1>3, <1>11, <2>1
    <2>4. <<ids[k], ids[i]>> \in Views!Newer
      BY <1>10, <2>2, <2>3
    <2> QED
      BY <1>6, <1>12, <1>16, <2>1, <2>4
  <1>19. asked.moved = 0 => n = Views!Max({0, Views!Min({q.limit, asked.total - q.offset})})
    BY <1>9, <1>10, <1>11
  <1>20. CASE page = <<>>
    <2>1. n = 0 /\ asked.page = <<>>
      BY <1>2, <1>15, <1>20, EmptySeq DEF ViewsInv, AskedFits, ListFits
    <2>2. TablesOK' /\ AskedOK' /\ AskedFits' /\ answer' = asked
      BY <1>1, <1>20, AnswersIs DEF ViewsInv
    <2>3. Len(asked.page) = 0 /\ DOMAIN asked.page = {}
      BY <2>1
    <2>4. Views!ListIsOwn'
      BY <1>3, <2>2, <2>3 DEF Views!ListIsOwn, q
    <2>5. Views!PageFitsTotal'
      BY <1>19, <2>1, <2>2, <2>3 DEF Views!PageFitsTotal, q
    <2>6. AnswerFits'
      BY <1>2, <2>2, <2>4, <2>5 DEF AnswerFits, Views!OnlySettledGo, Views!LastIsLatest, Views!StatsAddUp
    <2> QED
      BY <2>2, <2>6 DEF ViewsInv
  <1>21. CASE page # <<>>
    <2>1. /\ r \in ListAsked /\ r.kind = "list" /\ r.stage = "jobs" /\ r.query = q /\ r.total = asked.total
          /\ r.moved = asked.moved /\ r.page = page
      BY <1>2, <1>15 DEF ListAsked, q
    <2> HIDE DEF r
    <2>2. TablesOK' /\ AnswerFits' /\ asked' = r /\ runs' = runs /\ jobs' = jobs
      BY <1>1, <1>21, ReadsIs DEF ViewsInv
    <2>3. AskedOK'
      BY <2>1, <2>2 DEF AskedOK
    <2>4. PageOK(r)
      BY <1>11, <1>15, <1>17, <1>18, <1>19, <2>1 DEF PageOK
    <2>5. \A j : Views!JobType(j)' = Views!JobType(j)
      BY <2>2 DEF Views!JobType
    <2>6. ListFits'
      BY <1>17, <2>1, <2>2, <2>4, <2>5 DEF ListFits, PageOK
    <2>7. AskedFits'
      BY <2>1, <2>2, <2>6 DEF AskedFits, DeleteFits, SchedulesFit, StatsFit
    <2> QED
      BY <2>2, <2>3, <2>7 DEF ViewsInv
  <1> QED
    BY <1>20, <1>21

LEMMA NameJobsStep ==
  ASSUME ViewsInv, Views!NameJobs
  PROVE  ViewsInv'
  <1> DEFINE D == DOMAIN asked.page
             page == [i \in D |-> [asked.page[i] EXCEPT !.type = Views!JobType(asked.page[i].job)]]
             r == [asked EXCEPT !.page = page]
  <1>1. Views!Answers(r)
    BY DEF Views!NameJobs
  <1>2. asked \in ListAsked /\ asked.stage = "jobs" /\ asked.kind = "list"
    BY AskedIs DEF Views!NameJobs, Views!At, ViewsInv
  <1>3. PageOK(asked) /\ (asked.moved = 0 => \A i \in D : asked.query.type \in {"any", Views!JobType(asked.page[i].job)})
    BY <1>2 DEF ViewsInv, AskedFits, ListFits
  <1>4. asked.page \in Seq(PageRow)
    BY <1>2 DEF ListAsked
  <1>5. D = 1..Len(asked.page) /\ Len(asked.page) \in Nat /\ \A i \in D : asked.page[i] \in PageRow
    BY <1>4, LenProperties, ElementOfSeq
  <1> HIDE DEF D
  <1>6. \A i \in D : /\ page[i].born = asked.page[i].born /\ page[i].owner = asked.page[i].owner
                     /\ page[i].status = asked.page[i].status /\ page[i].type = Views!JobType(asked.page[i].job)
    BY <1>5 DEF PageRow
  <1>7. DOMAIN page = D /\ page = [i \in D |-> page[i]]
    BY Zenon
  <1> HIDE DEF page
  <1>8. Len(page) = Len(asked.page)
    <2>1. page \in [1..Len(asked.page) -> {page[i] : i \in D}]
      BY <1>5, <1>7
    <2>2. page \in Seq({page[i] : i \in D})
      BY <1>5, <2>1, SeqDef
    <2> QED
      BY <1>5, <1>7, <2>2, LenProperties
  <1>9. r.kind = "list" /\ r.query = asked.query /\ r.moved = asked.moved /\ r.total = asked.total /\ r.page = page
    BY <1>2 DEF ListAsked
  <1> HIDE DEF r
  <1>10. TablesOK' /\ AskedOK' /\ AskedFits' /\ answer' = r
    BY <1>1, AnswersIs DEF ViewsInv
  <1>11. Views!ListIsOwn'
    <2>1. Len(page) <= asked.query.limit
      BY <1>3, <1>8 DEF PageOK
    <2>2. \A i \in D : /\ asked.query.user \in {Admin, page[i].owner} /\ asked.query.status \in {"any", page[i].status}
                       /\ asked.moved = 0 => asked.query.type \in {"any", page[i].type}
      BY <1>3, <1>6 DEF PageOK, D
    <2>3. \A i \in D : \A k \in 1..(i - 1) : page[k].born > page[i].born
      <3> SUFFICES ASSUME NEW i \in D, NEW k \in 1..(i - 1) PROVE page[k].born > page[i].born
        OBVIOUS
      <3>1. asked.page[k].born > asked.page[i].born
        BY <1>3 DEF PageOK, D
      <3>2. k \in D
        BY <1>5
      <3> QED
        BY <1>6, <3>1, <3>2
    <2>4. /\ Len(r.page) <= r.query.limit
          /\ \A i \in DOMAIN r.page :
               /\ r.query.user \in {Admin, r.page[i].owner}
               /\ r.query.status \in {"any", r.page[i].status}
               /\ r.moved = 0 => r.query.type \in {"any", r.page[i].type}
               /\ \A k \in 1..(i - 1) : r.page[k].born > r.page[i].born
      <3>1. DOMAIN r.page = D
        BY <1>7, <1>9
      <3>2. Len(r.page) <= r.query.limit
        BY <1>9, <2>1
      <3>3. \A i \in D : /\ r.query.user \in {Admin, r.page[i].owner} /\ r.query.status \in {"any", r.page[i].status}
                         /\ r.moved = 0 => r.query.type \in {"any", r.page[i].type}
        BY <1>9, <2>2
      <3>4. \A i \in D : \A k \in 1..(i - 1) : r.page[k].born > r.page[i].born
        BY <1>9, <2>3
      <3> QED
        BY <3>1, <3>2, <3>3, <3>4
    <2> QED
      BY <1>10, <2>4 DEF Views!ListIsOwn
  <1>12. Views!PageFitsTotal'
    BY <1>3, <1>8, <1>9, <1>10 DEF Views!PageFitsTotal, PageOK
  <1>13. AnswerFits'
    BY <1>9, <1>10, <1>11, <1>12 DEF AnswerFits, Views!OnlySettledGo, Views!LastIsLatest, Views!StatsAddUp
  <1> QED
    BY <1>10, <1>13 DEF ViewsInv

-----------------------------------------------------------------------------
(* bulk_delete_runs, and get_run_report.                                     *)

LEMMA ChooseRowsStep ==
  ASSUME ViewsInv, Views!ChooseRows
  PROVE  ViewsInv'
  <1>1. PICK u \in Users : \E ids \in {DOMAIN runs} \cup {{id} : id \in DOMAIN runs} :
          Views!Open([kind |-> "delete", stage |-> "delete", moved |-> 0, user |-> u,
                      chosen |-> [id \in Views!Deletable(u, ids) |-> runs[id].born]])
    BY DEF Views!ChooseRows
  <1>2. PICK ids :
          Views!Open([kind |-> "delete", stage |-> "delete", moved |-> 0, user |-> u,
                      chosen |-> [id \in Views!Deletable(u, ids) |-> runs[id].born]])
    BY <1>1
  <1> DEFINE C == Views!Deletable(u, ids)
             c == [id \in C |-> runs[id].born]
             r == [kind |-> "delete", stage |-> "delete", moved |-> 0, user |-> u, chosen |-> c]
  <1>3. \A id \in C : id \in DOMAIN runs /\ runs[id].status # "active" /\ u \in {Admin, runs[id].owner}
    BY DEF Views!Deletable, Views!IsOwn
  <1>4. \A id \in DOMAIN runs : runs[id].born \in RowIds /\ id \in RowIds /\ runs[id].born <= made.runs
    <2>1. DOMAIN runs \in SUBSET RowIds
      BY ViewsOfPages DEF ViewsInv, TablesOK, RowIds, Views!ViewsAssumption
    <2> QED
      BY <2>1 DEF ViewsInv, TablesOK, RunRow
  <1> HIDE DEF C
  <1>5. c \in [C -> RowIds] /\ C \in SUBSET RowIds
    BY <1>3, <1>4
  <1>6. DOMAIN c = C /\ \A id \in C : c[id] = runs[id].born
    OBVIOUS
  <1> HIDE DEF c
  <1>7. c \in UNION {[D -> RowIds] : D \in SUBSET RowIds}
    BY <1>5
  <1>8. r \in DeleteAsked /\ r.kind = "delete" /\ r.user = u /\ r.chosen = c
    BY <1>7 DEF DeleteAsked
  <1>9. Views!Open(r)
    BY <1>2 DEF c, C
  <1> HIDE DEF r
  <1>10. TablesOK' /\ AnswerFits' /\ asked' = r
    BY <1>9, OpenIs DEF ViewsInv
  <1>11. runs' = runs /\ made' = made
    BY <1>9 DEF Views!Open
  <1>12. AskedOK'
    BY <1>8, <1>10 DEF AskedOK
  <1>13. DeleteFits'
    BY <1>3, <1>4, <1>6, <1>8, <1>10, <1>11 DEF DeleteFits
  <1>14. AskedFits'
    BY <1>8, <1>10, <1>13 DEF AskedFits, ListFits, SchedulesFit, StatsFit
  <1> QED
    BY <1>10, <1>12, <1>14 DEF ViewsInv

\* A row that is still the one chosen has not gone back to work, nor to another user.
LEMMA DeleteChosenStep ==
  ASSUME ViewsInv, Views!DeleteChosen
  PROVE  ViewsInv'
  <1> DEFINE c == asked.chosen
             C == DOMAIN c
             X == C \cap DOMAIN runs
             g == [id \in X |-> [row |-> runs[id], seen |-> c[id] = runs[id].born]]
             gone == {g[id] : id \in X}
             r == [kind |-> "delete", user |-> asked.user, deleted |-> Cardinality(C), gone |-> gone]
  <1>1. asked \in DeleteAsked /\ asked.kind = "delete"
    BY AskedIs DEF Views!DeleteChosen, Views!At, ViewsInv
  <1>2. C \in SUBSET RowIds
    <2>1. PICK D \in SUBSET RowIds : c \in [D -> RowIds]
      BY <1>1 DEF DeleteAsked
    <2> QED
      BY <2>1
  <1>3. IsFiniteSet(C)
    <2>1. IsFiniteSet(RowIds)
      BY ViewsOfPages, FS_Interval DEF RowIds, Views!ViewsAssumption
    <2> HIDE DEF C
    <2> QED
      BY <1>2, <2>1, FS_Subset
  <1>4. asked' = [kind |-> "none"] /\ runs' = Views!Without(runs, C) /\ UNCHANGED <<jobs, made>>
    BY DEF Views!DeleteChosen, Views!NoRequest
  <1>5. TablesOK'
    BY <1>4, RunsGo DEF ViewsInv
  <1>6. AskedOK' /\ AskedFits'
    BY <1>4, NothingAskedFits
  <1>7. \A id \in X : c[id] = runs[id].born => runs[id].status # "active" /\ asked.user \in {Admin, runs[id].owner}
    BY <1>1 DEF ViewsInv, AskedFits, DeleteFits
  <1>8. \A h \in gone : h.seen => h.row.status # "active" /\ asked.user \in {Admin, h.row.owner}
    <2> SUFFICES ASSUME NEW h \in gone, h.seen
                 PROVE  h.row.status # "active" /\ asked.user \in {Admin, h.row.owner}
      OBVIOUS
    <2>1. PICK id \in X : h = [row |-> runs[id], seen |-> c[id] = runs[id].born]
      OBVIOUS
    <2>2. h.row = runs[id] /\ h.seen = (c[id] = runs[id].born)
      BY <2>1
    <2> HIDE DEF gone, X
    <2>3. c[id] = runs[id].born
      BY Zenon, <2>2
    <2> QED
      BY <1>7, <2>2, <2>3
  <1>9. answer' = r
    <2>1. answer' = [kind |-> "delete", user |-> asked.user, deleted |-> Views!Cardinality(C),
                     gone |-> {[row |-> runs[id], seen |-> c[id] = runs[id].born] : id \in X}]
      BY Zenon DEF Views!DeleteChosen
    <2>2. Views!Cardinality(C) = Cardinality(C)
      BY SameSize
    <2>3. gone = {[row |-> runs[id], seen |-> c[id] = runs[id].born] : id \in X}
      OBVIOUS
    <2> QED
      BY Zenon, <2>1, <2>2, <2>3
  <1>10. Cardinality(gone) <= Cardinality(C)
    <2>1. X \in SUBSET C
      OBVIOUS
    <2>2. g \in [X -> gone] /\ \A h \in gone : \E id \in X : g[id] = h
      OBVIOUS
    <2> HIDE DEF X, g, gone, C
    <2>3. IsFiniteSet(X) /\ Cardinality(X) <= Cardinality(C)
      BY <1>3, <2>1, FS_Subset
    <2>4. g \in Surjection(X, gone)
      BY <2>2 DEF Surjection
    <2>5. IsFiniteSet(gone) /\ Cardinality(gone) <= Cardinality(X)
      BY <2>3, <2>4, FS_Surjection
    <2>6. Cardinality(gone) \in Nat /\ Cardinality(X) \in Nat /\ Cardinality(C) \in Nat
      BY <1>3, <2>3, <2>5, FS_CardinalityType
    <2> QED
      BY <2>3, <2>5, <2>6
  <1> HIDE DEF gone, C
  <1>11. Views!OnlySettledGo'
    <2>1. Views!Cardinality(gone) <= Cardinality(C)
      BY <1>10, SameSize
    <2>2. r.kind = "delete" /\ r.user = asked.user /\ r.deleted = Cardinality(C) /\ r.gone = gone
      OBVIOUS
    <2> HIDE DEF r
    <2> QED
      BY <1>8, <1>9, <2>1, <2>2 DEF Views!OnlySettledGo
  <1>12. AnswerFits'
    BY <1>9, <1>11 DEF AnswerFits, Views!ListIsOwn, Views!PageFitsTotal, Views!LastIsLatest, Views!StatsAddUp
  <1> QED
    BY <1>5, <1>6, <1>12 DEF ViewsInv

LEMMA ServeReportStep ==
  ASSUME ViewsInv, Views!ServeReport
  PROVE  ViewsInv'
  <1>1. UNCHANGED <<jobs, runs, made, asked>> /\ answer'.kind = "report"
    BY DEF Views!ServeReport
  <1>2. asked' = [kind |-> "none"]
    BY <1>1 DEF Views!ServeReport, Views!NoRequest
  <1>3. TablesOK'
    BY <1>1 DEF ViewsInv, TablesOK
  <1>4. AnswerFits'
    BY <1>1 DEF AnswerFits, Views!ListIsOwn, Views!PageFitsTotal, Views!OnlySettledGo, Views!LastIsLatest,
                Views!StatsAddUp
  <1> QED
    BY <1>2, <1>3, <1>4, NothingAskedFits DEF ViewsInv

-----------------------------------------------------------------------------

LEMMA ViewsInit == Views!Init => ViewsInv
  <1> SUFFICES ASSUME Views!Init PROVE ViewsInv
    OBVIOUS
  <1>1. /\ jobs = <<>> /\ runs = <<>> /\ made = [jobs |-> 0, runs |-> 0]
        /\ asked = [kind |-> "none"] /\ answer = [kind |-> "none"]
    BY DEF Views!Init, Views!NoRequest, Views!NoAnswer
  <1>2. AskedOK /\ AskedFits
    BY <1>1 DEF AskedOK, AskedFits, ListFits, DeleteFits, SchedulesFit, StatsFit
  <1>3. AnswerFits
    BY <1>1 DEF AnswerFits, Views!ListIsOwn, Views!PageFitsTotal, Views!OnlySettledGo, Views!LastIsLatest,
                Views!StatsAddUp
  <1>4. TablesOK
    BY <1>1, ViewsOfPages DEF TablesOK, Views!ViewsAssumption
  <1> QED
    BY <1>2, <1>3, <1>4 DEF ViewsInv

LEMMA ViewsStep == ViewsInv /\ [Views!Next]_(Views!viewVars) => ViewsInv'
  <1> SUFFICES ASSUME ViewsInv, [Views!Next]_(Views!viewVars) PROVE ViewsInv'
    OBVIOUS
  <1>1. CASE Views!Changes
    BY <1>1, TablesChange, RequestSurvives DEF ViewsInv
  <1>2. CASE Views!CountRows \/ Views!PageRows \/ Views!NameJobs
    BY <1>2, CountRowsStep, PageRowsStep, NameJobsStep
  <1>3. CASE Views!ChooseRows \/ Views!DeleteChosen \/ Views!ServeReport
    BY <1>3, ChooseRowsStep, DeleteChosenStep, ServeReportStep
  <1>4. CASE Views!ReadJobs \/ Views!CountRuns \/ Views!LastRuns
    BY <1>4, ReadJobsStep, CountRunsStep, LastRunsStep
  <1>5. CASE Views!Totals \/ Views!Statuses \/ Views!Retries \/ Views!Durations \/ Views!ByType
    BY <1>5, TotalsStep, StatusesStep, RetriesStep, DurationsStep, ByTypeStep
  <1>6. CASE UNCHANGED Views!viewVars
    <2>1. jobs' = jobs /\ runs' = runs /\ made' = made /\ asked' = asked /\ answer' = answer
      BY <1>6 DEF Views!viewVars
    <2>2. TablesOK' /\ AskedOK' /\ AnswerFits'
      BY <2>1, AnswerStays DEF ViewsInv, TablesOK, AskedOK
    <2>3. ListFits'
      BY <2>1 DEF ViewsInv, AskedFits, ListFits, PageOK, Views!Matching, Views!IsOwn, Views!TypeOf, Views!JobType
    <2>4. DeleteFits'
      BY <2>1 DEF ViewsInv, AskedFits, DeleteFits
    <2>5. SchedulesFit'
      BY <2>1 DEF ViewsInv, AskedFits, SchedulesFit, Views!RunsOf
    <2>6. StatsFit'
      BY <2>1 DEF ViewsInv, AskedFits, StatsFit, PercentilesOK
    <2>7. AskedFits'
      BY <2>3, <2>4, <2>5, <2>6 DEF AskedFits
    <2> QED
      BY <2>2, <2>7 DEF ViewsInv
  <1> QED
    BY <1>1, <1>2, <1>3, <1>4, <1>5, <1>6 DEF Views!Next

\* Listings, schedules and figures tell what the tables hold, and a deletion takes settled
\* runs of the user only, however the tables change while an answer is put together: for
\* any number of rows, users, queries, offsets, limits and changes.
THEOREM ViewsAreTrueAlways == PagesSpec => []ViewsAreTrue
  <1>1. PagesInit => ViewsInv
    BY ViewsInit DEF PagesInit
  <1>2. [PagesNext]_pageVars => [Views!Next]_(Views!viewVars)
    BY DEF PagesNext, OfStream, OfSteps, pageVars, viewVars, Views!viewVars
  <1>3. ViewsInv => ViewsAreTrue
    <2> SUFFICES ASSUME ViewsInv PROVE ViewsAreTrue
      OBVIOUS
    <2>1. \A id \in DOMAIN runs : runs[id].status \in RowStates /\ runs[id].owner \in Users
      BY DEF ViewsInv, TablesOK, RunRow
    <2>2. \A id \in DOMAIN jobs : jobs[id].type \in Types
      BY DEF ViewsInv, TablesOK
    <2>3. made.jobs \in 0..MaxJobs /\ made.runs \in 0..MaxRows
      BY DEF ViewsInv, TablesOK
    <2>4. asked.kind \in {"none", "list", "delete", "schedules", "stats"}
      BY AskedIs DEF ViewsInv
    <2> QED
      BY <2>1, <2>2, <2>3, <2>4 DEF ViewsAreTrue, Views!ViewsTypeOK, RowStates, ViewsInv, AnswerFits
  <1> QED
    BY <1>1, <1>2, <1>3, ViewsStep, PTL DEF PagesSpec

=============================================================================
