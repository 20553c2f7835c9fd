--------------------------- MODULE CollectionsMC ---------------------------
(* Four companies with two sites of their own and a page on a shared host,  *)
(* known to the sources under one name, one site, or both; three shops and   *)
(* six articles.                                                             *)
EXTENDS Collections

MCSites == {"sA", "sB", "fb", "ig"}
MCSiteDomain == [s \in MCSites \cup {""} |-> CASE s = "sA" -> "dA" [] s = "sB" -> "dB" [] OTHER -> ""]
MCPlatform == [s \in MCSites |-> CASE s = "fb" -> "facebook" [] s = "ig" -> "instagram" [] OTHER -> ""]

\* infoA and infoB are what is guessed; web is somebody else's, tpl a template's.
MCRank == [infoA |-> 1, infoB |-> 2, web |-> 3, annA |-> 4, oddA |-> 5, guild |-> 6, tpl |-> 7]
MCDomain == [infoA |-> "dA", infoB |-> "dB", web |-> "dC", annA |-> "dA", oddA |-> "dA",
             guild |-> "dG", tpl |-> "dJ"]
MCGuess == [dA |-> "infoA", dB |-> "infoB"]
MCCoreOf == [n1 |-> <<"a", "b">>, n2 |-> <<"c", "d">>, n3 |-> <<"e", "f">>,
             n3s |-> <<"g", "e", "f">>, n4 |-> <<"e">>]

MCWeb == [s \in MCSites |->
  IF s = "sA" THEN [home |-> "h", links |-> <<"c", "a">>, paths |-> <<"p", "c">>]
  ELSE [home |-> "h", links |-> <<>>, paths |-> <<"p">>]]
MCStatic ==
  [sA |-> [h |-> {}, c |-> {"annA"}, a |-> {"infoA"}, p |-> {"web", "tpl"}],
   sB |-> [h |-> {"web"}, p |-> {"infoB", "oddA"}],
   fb |-> [h |-> {}, p |-> {}], ig |-> [h |-> {}, p |-> {"tpl"}]]
MCLive ==
  [sA |-> [h |-> {}, c |-> {"infoA"}, a |-> {}, p |-> {}],
   sB |-> [h |-> {}, p |-> {}], fb |-> [h |-> {}, p |-> {}], ig |-> [h |-> {}, p |-> {}]]
MCProfiles ==
  {Dead, [emails |-> <<"web">>, site |-> "", text |-> TRUE],
   [emails |-> <<>>, site |-> "sB", text |-> FALSE],
   [emails |-> <<"infoB">>, site |-> "fb", text |-> FALSE]}

MCPlace == [l1 |-> [name |-> "n1", site |-> "sA"], l2 |-> [name |-> "n2", site |-> "fb"],
            l3 |-> [name |-> "n3", site |-> "sB"], l4 |-> [name |-> "", site |-> "sB"]]
MCFeeds == {<<>>, <<<<"l4">>, <<"l3", "l4">>, <<"l1">>>>, <<<<"l2">>, <<"l2", "l1">>, <<"l1", "l3">>>>,
            <<<<"l2">>, <<"l2">>, <<"l2">>, <<"l1">>>>}
Company(n, here) == [name |-> n, here |-> here]
MCRegistries == {<<>>, <<Company("n2", TRUE), Company("n1", FALSE), Company("n4", TRUE), Company("n3", TRUE)>>}
Found(n, s) == [name |-> n, site |-> s]
MCAnswers == {[panel |-> TRUE, places |-> <<Found("n1", "sB")>>],
              [panel |-> FALSE, places |-> <<Found("n2", ""), Found("n3s", "sB")>>]}

Block(n, s, m) == [name |-> n, site |-> s, member |-> m]
MCListPages ==
  {[links |-> <<Found("n1", "sA")>>, blocks |-> <<>>, details |-> <<"d1">>, next |-> TRUE],
   [links |-> <<Found("n2", "sA")>>, details |-> <<>>, next |-> TRUE,
    blocks |-> <<Block("n1", "", "m1"), Block("n2", "sB", "m2")>>],
   [links |-> <<>>, details |-> <<"d2", "d3">>, next |-> FALSE,
    blocks |-> <<Block("n3", "", "m3"), Block("", "sB", "m3")>>]}
Record(n, s, outs, texts) == [name |-> n, site |-> s, outs |-> outs, texts |-> texts]
MCDetailPages ==
  {Record("n1", "", <<"sA">>, {"guild", "annA"}), Record("n2", "sB", <<>>, {"guild"}),
   Record("", "sB", <<>>, {})}
Member(no, n, s) == [no |-> no, name |-> n, site |-> s]
MCTcaAnswers ==
  {<<<<Member(1, "n1", ""), Member(2, "n2", "sB")>>, Dead>>,
   <<<<Member(1, "n1", ""), Member(2, "n2", "sB")>>, <<Member(3, "n3", "sA")>>>>}

Payload(from, dirs, social_, limit_) ==
  [query |-> from # <<"none">>, sources |-> from, targets |-> dirs, social |-> social_,
   render |-> TRUE, resolve |-> ~social_, enrich |-> ~social_, limit |-> limit_]
MCPayloads ==
  {Payload(<<"maps", "govbiz">>, <<>>, FALSE, 3),
   Payload(<<"association", "maps", "association">>, <<"tca", "url">>, TRUE, 3),
   Payload(<<"association">>, <<"unknown", "url">>, FALSE, 2),
   Payload(<<"none">>, <<>>, FALSE, 1)}

-----------------------------------------------------------------------------

MCShopOf == [a1 |-> "a", a2 |-> "a", b1 |-> "b", b2 |-> "b", c1 |-> "c", odd |-> ""]
MCMarkets ==
  {[offers |-> <<"a1", "a2", "odd", "b1", "a1", "c1", "b2">>,
    pages |-> <<<<<<"a1", "a1">>, <<"a1", "a2">>, <<>>, <<"c1">>>>, <<<<"a2">>, <<"b1">>>>, <<<<"c1">>>>>>],
   [offers |-> <<"a1", "b1", "c1">>, pages |-> <<>>],
   [offers |-> <<>>, pages |-> <<<<<<"b1", "b2">>>>, <<<<"a1">>>>>>]}

-----------------------------------------------------------------------------

Sale(sku, status, paid, units) == [sku |-> sku, status |-> status, paid |-> paid, units |-> units]
Cost(sku, unit) == [sku |-> sku, unit |-> unit]
Line(block, sku, spend) == [kind |-> "cells", block |-> block, sku |-> sku, spend |-> spend]
Header == Line("", 0, 0)
Gap == [kind |-> "gap", block |-> "", sku |-> 0, spend |-> 0]
Returned(sku, status, amount) == [sku |-> sku, status |-> status, amount |-> amount]
File(words, kind, rows_) == [words |-> words, kind |-> kind, rows |-> rows_]

MCSales == <<Sale(1, "completed", 40, 1), Sale(2, "completed", 30, 2), Sale(0, "completed", 9, 1),
             Sale(3, "void", 50, 1), Sale(1, "completed", 20, 2), Sale(2, "void", 10, 1),
             Sale(4, "completed", -5, 3), Sale(5, "completed", 0, 1), Sale(6, "completed", 12, 1)>>
MCCosts == <<Cost(1, 5), Cost(2, 20), Cost(1, 10), Cost(4, 1), Cost(5, 3)>>
MCAds == <<Gap, Header, Line("ads", 2, 4), Line("ads", 1, 50), Line("ads", 1, 6), Gap,
           Header, Line("discount", 2, 90), Line("discount", 6, 90)>>
MCReturns == <<Returned(1, "refunded", 3), Returned(2, "asked", 9), Returned(2, "refunded", 8),
               Returned(3, "refunded", 5)>>
MCFiles ==
  {File({"order"}, "csv", MCSales),
   File({"sales"}, "csv", <<Sale(6, "completed", 50, 1), Sale(1, "completed", 10, 3)>>),
   File({"cost", "order"}, "csv", MCCosts), File({"cost"}, "bom", <<>>),
   File({"ads"}, "csv", MCAds), File({"ads"}, "large", <<>>),
   File({"ads"}, "csv", <<Header, Line("ads", 6, 12), Line("discount", 1, 90), Line("ads", 1, 7),
                         Line("discount", 6, 90)>>),
   File({"order", "return"}, "csv", MCReturns), File({"return"}, "empty", <<>>),
   File({}, "other", <<>>)}
MCRequests == UNION {[1..n -> MCFiles] : n \in 0..4}
=============================================================================
