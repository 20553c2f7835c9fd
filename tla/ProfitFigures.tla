--------------------------- MODULE ProfitFigures ---------------------------
(* The profit check of a shop: the upload of its tables (create_upload) and  *)
(* the figures the crew is given for each article (compute_profit).  Amounts *)
(* are whole numbers; a cell that holds no number is 0.  An article (SKU) is *)
(* a number, by the order of the names, and 0 where the cell is empty.       *)
EXTENDS Integers, Lists

CONSTANTS
  Requests,   \* sequences of files [words, kind, rows]: the words of the name that tell
              \* a role, the kind of file, the rows of the table
  TopN, HitUnits, HitMargin, ReturnRate, ReturnCount   \* 3, 3, 10, 20, 2

Roles == {"sales", "cost", "ads", "returns"}

\* A name may hold the words of several roles.
RoleOf(words) ==
  IF "return" \in words THEN "returns" ELSE IF "cost" \in words THEN "cost"
  ELSE IF "ads" \in words THEN "ads" ELSE IF words \cap {"sales", "order"} # {} THEN "sales"
  ELSE "none"

\* The rows of the tables, by their role.
RowsOf ==
  [sales |-> [sku : Nat, status : STRING, paid : Int, units : Int], cost |-> [sku : Nat, unit : Int],
   ads |-> [kind : STRING, block : STRING, sku : Nat, spend : Int],
   returns |-> [sku : Nat, status : STRING, amount : Int]]

HealthAssumption ==
  /\ {TopN, HitUnits, HitMargin, ReturnRate, ReturnCount} \subseteq Nat \ {0} /\ Requests # {}
  /\ \A files \in Requests : files \in Seq(ToSet(files)) /\ \A file \in ToSet(files) :
       RoleOf(file.words) \in Roles => file.rows \in Seq(RowsOf[RoleOf(file.words)])

VARIABLE
  health   \* [stage, files, todo, contents, disk, skus, result]; files: the request, todo:
           \* of it what has not been read; contents and disk: role -> file

NoFiles == [r \in {} |-> r]

Health(files) ==
  [stage |-> "upload", files |-> files, todo |-> files, contents |-> NoFiles, disk |-> NoFiles,
   skus |-> {}, result |-> "none"]

Checks == {Health(files) : files \in Requests}

-----------------------------------------------------------------------------
(* The upload.                                                               *)

AtStage(stage) == health.stage = stage
Fails(result) == health' = [health EXCEPT !.stage = "ended", !.result = result]

NextFile == Head(health.todo)

\* A file without a role is not read.
TakeFile ==
  /\ AtStage("upload") /\ health.todo # <<>>
  /\ LET role == RoleOf(NextFile.words)
         rest == [health EXCEPT !.todo = Tail(@)]
     IN \/ role = "none" /\ health' = rest
        \/ /\ role # "none" /\ NextFile.kind \in {"csv", "bom"}
           /\ health' = [rest EXCEPT !.contents =
                           [r \in {role} \cup DOMAIN @ |-> IF r = role THEN NextFile ELSE @[r]]]

\* No table, one that is too large, or an empty one.
RefuseFile ==
  /\ AtStage("upload") /\ health.todo # <<>>
  /\ RoleOf(NextFile.words) # "none" /\ NextFile.kind \in {"other", "large", "empty"}
  /\ Fails("refused")

AllRead == AtStage("upload") /\ health.todo = <<>>
Required == {"sales", "cost"}

RefuseUpload == AllRead /\ ~(Required \subseteq DOMAIN health.contents) /\ Fails("refused")

WriteFiles ==
  /\ AllRead /\ Required \subseteq DOMAIN health.contents
  /\ health' = [health EXCEPT !.stage = "run", !.disk = health.contents]

\* The disk fails at one of the files: the caller gets no id.
WriteRaises ==
  /\ AllRead /\ Required \subseteq DOMAIN health.contents
  /\ LET First(r) == Min({i \in DOMAIN health.files : RoleOf(health.files[i].words) = r})
     IN \E failed \in DOMAIN health.contents :
          health' = [health EXCEPT !.stage = "ended", !.result = "lost",
            !.disk = [r \in {q \in DOMAIN health.contents : First(q) < First(failed)} |->
                        health.contents[r]]]

-----------------------------------------------------------------------------
(* The figures.                                                              *)

Total(rows, places, column) == SumFunction([i \in places |-> rows[i][column]])
Latest(rows, places, column) == IF places = {} THEN 0 ELSE rows[Max(places)][column]

\* The places under the first header, up to a blank line, a comment or another block.
AdsBlock(lines) ==
  LET IsText(i) == lines[i].kind = "cells"
  IN {i \in DOMAIN lines : \E header \in 1..i - 1 :
        /\ IsText(header) /\ \A j \in 1..header - 1 : ~IsText(j)
        /\ \A j \in header + 1..i : IsText(j) /\ lines[j].block \in {"", "ads"}}

\* The articles with a completed sale.  Of two rows of costs, or of ads, for one article
\* the later one counts.
Its(rows, sku) == {i \in DOMAIN rows : rows[i].sku = sku}

Metrics(tables, sku) ==
  LET sold == {i \in Its(tables.sales, sku) : tables.sales[i].status = "completed"}
      returned == Its(tables.returns, sku)
      refunded == {i \in returned : tables.returns[i].status = "refunded"}
      units == Total(tables.sales, sold, "units")
      revenue == Total(tables.sales, sold, "paid")
      cost == units * Latest(tables.cost, Its(tables.cost, sku), "unit")
      ads == Latest(tables.ads, Its(tables.ads, sku) \cap AdsBlock(tables.ads), "spend")
      refunds == Total(tables.returns, refunded, "amount")
  IN [sku |-> sku, revenue |-> revenue, cost |-> cost, ads |-> ads, refunds |-> refunds,
      net |-> revenue - cost - ads - refunds, units |-> units,
      orders |-> Cardinality(sold), returns |-> Cardinality(returned)]

Sold(tables) == {i \in DOMAIN tables.sales : tables.sales[i].status = "completed" /\ tables.sales[i].sku # 0}
ComputeProfit(tables) == {Metrics(tables, tables.sales[i].sku) : i \in Sold(tables)}

\* Profitable articles, the best first; of a tie the first by name.
MostProfitable(skus) ==
  LET before == {p \in skus \X skus :
                   p[1].net > p[2].net \/ (p[1].net = p[2].net /\ p[1].sku < p[2].sku)}
      order == Ordered({m \in skus : m.net > 0}, before)
  IN {order[i].sku : i \in DOMAIN order \cap 1..TopN}

\* Part and whole in percent; 0 of nothing.
Below(part, whole, percent) ==
  CASE whole > 0 -> part * 100 < percent * whole
    [] whole < 0 -> part * 100 > percent * whole
    [] OTHER -> 0 < percent

FakeHit(m) == m.units >= HitUnits /\ Below(m.net, m.revenue, HitMargin)
AdEatsProfit(m) == m.ads > 0 /\ m.ads > m.net
HighReturns(m) == m.returns >= ReturnCount \/ ~Below(m.returns, m.orders, ReturnRate)

Flags(m, skus) ==
  {f \in {"best", "fake hit", "ads", "returns"} :
     \/ f = "best" /\ m.sku \in MostProfitable(skus)
     \/ f = "fake hit" /\ FakeHit(m)
     \/ f = "ads" /\ AdEatsProfit(m)
     \/ f = "returns" /\ HighReturns(m)}

Table(role) ==
  IF role \in DOMAIN health.disk THEN health.disk[role].rows ELSE <<>>
Tables == [role \in Roles |-> Table(role)]

\* A file that holds nothing but the mark of its encoding is accepted by the upload
\* and found to be missing here.
MissingFile ==
  /\ AtStage("run") /\ \E r \in Required : health.disk[r].kind = "bom"
  /\ Fails("failed")

Report ==
  /\ AtStage("run") /\ \A r \in Required : health.disk[r].kind = "csv"
  /\ LET skus == ComputeProfit(Tables) IN
     health' = [health EXCEPT !.stage = "ended", !.result = "report",
                              !.skus = {[metrics |-> m, flags |-> Flags(m, skus)] : m \in skus}]

HealthNext ==
  \/ TakeFile \/ RefuseFile \/ RefuseUpload \/ WriteFiles \/ WriteRaises \/ MissingFile \/ Report

-----------------------------------------------------------------------------
(* Properties.                                                               *)

OfRole(r) == {i \in DOMAIN health.files : RoleOf(health.files[i].words) = r}

\* In whatever order the files come, and whatever else is among them: what a run reads
\* is, for each role, the last file the caller named so, the sales are no other table of
\* orders, and a request that is refused leaves nothing behind.
UploadIsWhole ==
  /\ health.result = "refused" => health.disk = NoFiles
  /\ health.stage = "run" \/ health.result = "report" =>
       /\ Required \subseteq DOMAIN health.disk
       /\ \A r \in Roles : IF OfRole(r) = {} THEN r \notin DOMAIN health.disk
                         ELSE health.disk[r] = health.files[Max(OfRole(r))]
       /\ health.disk["sales"].words \cap {"return", "cost", "ads"} = {}

Figures == {x.metrics : x \in health.skus}

\* The rows of an article; where ads of others stood, nobody's of no amount.
OfSku(sku) ==
  [r \in Roles |->
     IF r # "ads" THEN Selected(Tables[r], Its(Tables[r], sku))
     ELSE [i \in DOMAIN Tables.ads |->
             LET line == Tables.ads[i]
             IN IF line.sku = sku THEN line ELSE [line EXCEPT !.sku = 0, !.spend = 0]]]

\* The tables without the amounts of discounts, of sales that were not completed and of
\* returns that were not refunded, read from the end.
Realised ==
  [sales |-> Reverse([i \in DOMAIN Tables.sales |->
     LET row == Tables.sales[i] IN
     IF row.status = "completed" THEN row ELSE [row EXCEPT !.paid = 0, !.units = 0]]),
   cost |-> Tables.cost,
   ads |-> [i \in DOMAIN Tables.ads |->
     LET line == Tables.ads[i] IN
     IF line.block = "discount" THEN [line EXCEPT !.spend = 0] ELSE line],
   returns |-> Reverse([i \in DOMAIN Tables.returns |->
     LET row == Tables.returns[i] IN
     IF row.status = "refunded" THEN row ELSE [row EXCEPT !.amount = 0]])]

\* The figures of an article depend on its own rows alone, on no discount, sale that was
\* not completed or return that was not refunded, and not on the order of its sales and
\* returns; nothing that was paid for a completed sale is left out or counted twice.
FiguresAreOwn ==
  health.result = "report" =>
    /\ \A m \in Figures : ComputeProfit(OfSku(m.sku)) = {m}
    /\ Figures = ComputeProfit(Realised)
    /\ SumFunction([m \in Figures |-> m.revenue]) = Total(Tables.sales, Sold(Tables), "paid")

\* The articles that earn most are among the profitable ones, and no other earns more;
\* a loss of an article that sells or is advertised is pointed out.
FlagsAreRight ==
  LET Has(f) == {x.metrics : x \in {y \in health.skus : f \in y.flags}}
  IN /\ Cardinality(Has("best")) <= TopN
     /\ \A b \in Has("best") : b.net > 0
     /\ \A m \in Figures \ Has("best") : m.net > 0 =>
          Cardinality(Has("best")) = TopN /\ \A b \in Has("best") : b.net >= m.net
     /\ \A m \in Figures : m.net < 0 /\ m.revenue >= 0 /\ (m.units >= HitUnits \/ m.ads > 0) =>
          m \in Has("fake hit") \cup Has("ads")

HealthIsRight == UploadIsWhole /\ FiguresAreOwn /\ FlagsAreRight
=============================================================================
