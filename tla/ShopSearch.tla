----------------------------- MODULE ShopSearch -----------------------------
(* ShopeeSellerScraperTool: the sellers behind the first products of a       *)
(* search, from the API of the shop or else from its pages, which a throttle *)
(* may block at any load.  A product stands for the pair of its ids.         *)
EXTENDS Integers, Lists

CONSTANTS
  Markets,     \* [offers, pages]: what a search lists, and its pages as they are scrolled
  ShopOf,      \* of a product; "" for an entry without ids
  Limits,      \* bound on limit
  PageSize,    \* _SEARCH_PAGE_SIZE, 60
  MinPages, Spread,  \* 3 and 20 of _max_search_pages
  ExtraPages,  \* pages of the fallback beyond that, 4
  MaxScrolls,  \* 12
  MaxFails     \* blocked pages in a row, 3

ShopAssumption ==
  /\ {PageSize, MinPages, Spread, MaxFails} \subseteq Nat \ {0} /\ MaxScrolls \in Nat \ {0, 1}
  /\ ExtraPages \in Nat /\ Limits \subseteq Nat \ {0} /\ Limits # {} /\ Markets # {}
  /\ \A m \in Markets :
       /\ IsList(m.offers) /\ IsList(m.pages)
       /\ \A passes \in ToSet(m.pages) : IsList(passes) /\ \A cards \in ToSet(passes) : IsList(cards)

VARIABLE
  shop  \* [stage, market, limit, session, known, page, passes, products, tried, at, sellers,
        \* result]; session: the file is there; known: there are credentials; passes: over the
        \* page; tried (history): each page of the search that was asked for, how that ended

Searches ==
  [stage : {"session"}, market : Markets, limit : Limits, session : BOOLEAN, known : BOOLEAN, page : {0},
   passes : {0}, products : {<<>>}, tried : {<<>>}, at : {0}, sellers : {<<>>}, result : {"none"}]

ShopsOf(products) == {ShopOf[p] : p \in ToSet(products)}
Enough(products) == Cardinality(ShopsOf(products)) >= shop.limit

MaxSearchPages == LET n == shop.limit \div Spread + 2 IN IF n < MinPages THEN MinPages ELSE n

At(stage) == shop.stage = stage
Ends(s, result) == shop' = [s EXCEPT !.stage = "ended", !.result = result]
To(s, stage) == shop' = [s EXCEPT !.stage = stage]

-----------------------------------------------------------------------------

\* A saved session, or one login with the credentials, saved only when the login page
\* has been left.
OpenSession ==
  /\ At("session")
  /\ IF shop.session THEN To(shop, "api")
     ELSE \/ shop.known /\ To([shop EXCEPT !.session = TRUE], "api")
          \/ Ends(shop, "error")

\* An error of the browser, or a field that is no number: whatever has been found is lost.
ScrapeRaises ==
  shop.stage \in {"api", "dom", "scroll", "sellers"} /\ Ends([shop EXCEPT !.sellers = <<>>], "error")

\* The API has its say as long as it has named any product.
LeaveApi(s) == To([s EXCEPT !.page = 0], IF s.products = <<>> THEN "dom" ELSE "sellers")

Tried(how) == Append(shop.tried, [by |-> shop.stage, page |-> shop.page, how |-> how])

ApiBlocked == At("api") /\ LeaveApi([shop EXCEPT !.tried = Tried("blocked")])

\* What has no ids is passed over.
ApiPage ==
  LET from == shop.page * PageSize
      all == shop.market.offers
      named == {i \in DOMAIN all : from < i /\ i <= from + PageSize /\ ShopOf[all[i]] # ""}
      products == shop.products \o Selected(all, named)
      read == [shop EXCEPT !.products = products, !.tried = Tried("read"), !.page = @ + 1]
  IN /\ At("api")
     /\ IF \/ Enough(products) \/ Len(all) < from + PageSize \/ shop.page + 1 >= MaxSearchPages
        THEN LeaveApi(read) ELSE shop' = read

MayOpen == shop.page <= MaxSearchPages + ExtraPages /\ ~Enough(shop.products)

DomBlock(i) == shop.tried[i].by = "dom" /\ shop.tried[i].how = "blocked"
InARow(n) == Len(shop.tried) >= n /\ \A i \in Len(shop.tried) + 1 - n..Len(shop.tried) : DomBlock(i)

\* A page that stays blocked, after a second try, is passed over.
DomBlocked ==
  /\ At("dom") /\ MayOpen
  /\ To([shop EXCEPT !.page = @ + 1, !.tried = Tried("blocked")],
        IF InARow(MaxFails - 1) THEN "sellers" ELSE "dom")

DomPage ==
  /\ At("dom") /\ MayOpen /\ shop.page < Len(shop.market.pages)
  /\ To([shop EXCEPT !.tried = Tried("read"), !.passes = 0], "scroll")

\* One pass over the page; the first that brings no card that is not known yet is the
\* last, unless it is the very first.
Scroll ==
  LET passes == shop.market.pages[shop.page + 1]
      cards == passes[shop.passes + 1]
      fresh == {i \in DOMAIN cards : /\ cards[i] \notin ToSet(shop.products)
                                     /\ \A j \in 1..i - 1 : cards[j] # cards[i]}
      read == [shop EXCEPT !.products = @ \o Selected(cards, fresh), !.passes = @ + 1]
  IN /\ At("scroll") /\ shop.passes < Len(passes) /\ shop.passes < MaxScrolls
     /\ shop' = IF fresh = {} /\ shop.passes > 0 THEN [read EXCEPT !.page = @ + 1, !.stage = "dom"] ELSE read

LeaveScroll ==
  /\ At("scroll") /\ shop.passes \in {Len(shop.market.pages[shop.page + 1]), MaxScrolls}
  /\ To([shop EXCEPT !.page = @ + 1], "dom")

LeaveDom == At("dom") /\ ~MayOpen /\ To(shop, "sellers")

-----------------------------------------------------------------------------
(* One seller per shop, in the order of the products.                        *)

NewShop(s) == \A i \in DOMAIN shop.sellers : shop.sellers[i].shop # s

NoProducts == At("sellers") /\ shop.products = <<>> /\ Ends(shop, "error")

\* A shop whose details do not come is listed with its id alone.
NextProduct ==
  /\ At("sellers") /\ shop.at < Len(shop.products) /\ Len(shop.sellers) < shop.limit
  /\ LET s == ShopOf[shop.products[shop.at + 1]]
         next == [shop EXCEPT !.at = @ + 1]
     IN IF NewShop(s)
        THEN \E detail \in {"told", "blank"} :
               shop' = [next EXCEPT !.sellers = Append(@, [shop |-> s, detail |-> detail])]
        ELSE shop' = next

Return ==
  /\ At("sellers") /\ shop.products # <<>>
  /\ shop.at = Len(shop.products) \/ Len(shop.sellers) >= shop.limit
  /\ Ends(shop, "sellers")

ShopNext ==
  \/ OpenSession \/ ScrapeRaises \/ ApiBlocked \/ ApiPage \/ DomBlocked \/ DomPage \/ Scroll
  \/ LeaveScroll \/ LeaveDom
  \/ NoProducts \/ NextProduct \/ Return

-----------------------------------------------------------------------------
(* Properties.                                                               *)

Returned == shop.result = "sellers"
Listed == [i \in DOMAIN shop.sellers |-> shop.sellers[i].shop]
By(stage) == \E i \in DOMAIN shop.tried : shop.tried[i].by = stage
Blocked(stage) == \E i \in DOMAIN shop.tried : shop.tried[i].by = stage /\ shop.tried[i].how = "blocked"

\* However the products repeat their shops, a request for some sellers brings that many
\* different ones, or all there are, in the order in which the search first shows them,
\* within its budget of pages, if it is not blocked.
SellersAreFirst ==
  LET all == shop.market.offers
      budget == MaxSearchPages * PageSize
      Shown(n) == {ShopOf[all[i]] : i \in 1..n} \ {""}
  IN Returned =>
       /\ IsInjective(Listed) /\ Len(Listed) <= shop.limit
       /\ ~By("dom") /\ ~Blocked("api") =>
            /\ \A k \in DOMAIN Listed : \E i \in DOMAIN all :
                 /\ i <= budget /\ ShopOf[all[i]] = Listed[k]
                 /\ Shown(i) = {Listed[j] : j \in 1..k}
            /\ Len(Listed) = shop.limit
                 \/ ToSet(Listed) = Shown(IF Len(all) < budget THEN Len(all) ELSE budget)

\* A blocked page of the fallback costs the cards of that page alone; the search is only
\* cut short by blocked pages in a row or by its budget, and after those no further page
\* is asked for.
StopsForReason ==
  /\ Returned /\ By("dom") /\ Len(Listed) < shop.limit =>
       InARow(MaxFails) \/ shop.page = MaxSearchPages + ExtraPages + 1
  /\ \A i \in DOMAIN shop.tried : i + MaxFails <= Len(shop.tried) =>
       \E k \in i..(i + MaxFails - 1) : ~DomBlock(k)

\* All shops that show in the first two passes over a page that loads are listed, however
\* little the first one brings, unless the limit is reached.
LoadedIsListed ==
  Returned /\ Len(Listed) < shop.limit =>
    \A i \in DOMAIN shop.tried : shop.tried[i].by = "dom" /\ shop.tried[i].how = "read" =>
      LET passes == shop.market.pages[shop.tried[i].page + 1] IN
      \A k \in DOMAIN passes \cap 1..2 : \A p \in ToSet(passes[k]) : ShopOf[p] \in ToSet(Listed)

ShopsAreRight == SellersAreFirst /\ StopsForReason /\ LoadedIsListed
=============================================================================
