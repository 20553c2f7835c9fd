----------------------------- MODULE LeadCollect -----------------------------
(* The flow of the e-mail collector (EmailCollectFlow): businesses from      *)
(* several sources, merged into one list, a visit to each of them for        *)
(* addresses, a verification of every address, and the leads sorted,         *)
(* enriched and qualified.  The flow is sequential; what is uncertain are    *)
(* the sources, sites, mail servers, the registry and the model it asks.     *)
EXTENDS DirectoryCrawl

CONSTANTS
  Payloads,     \* [query, sources, targets, social, render, resolve, enrich, limit]
  Feeds, Place, \* of Maps: passes of links, and the place behind a link
  Registries,   \* sequences of rows [name, here]
  Answers,      \* of Maps to a name: [panel, places]
  Web, Static, Live,          \* the urls of a site, and their contents
  Profiles,     \* replies of social networks
  MaxQualify, MaxEnrich       \* 30 and 40 in the code

ASSUME LeadAssumption ==
  /\ {MaxQualify, MaxEnrich} \subseteq Nat \ {0}
  /\ \A p \in Payloads : p.limit \in Nat \ {0}
  /\ \A feed \in Feeds : IsList(feed) /\ \A shown \in ToSet(feed) : IsList(shown)
  /\ \A registry \in Registries : IsList(registry)
  /\ \A answer \in Answers : IsList(answer.places)

Described(sites) == \A s \in sites : Blank(s) \/ s \in DOMAIN Static

\* Web and Static describe every site that something names, with its home page, the
\* pages that are linked there and the usual paths.
ASSUME WebAssumption ==
  /\ \A s \in DOMAIN Static :
       /\ IsList(Web[s].links) /\ IsList(Web[s].paths)
       /\ {Web[s].home} \cup ToSet(Web[s].links) \cup ToSet(Web[s].paths) \subseteq DOMAIN Static[s]
       /\ \A u \in DOMAIN Static[s] :
            Static[s][u] # Dead /\ IsFiniteSet(Static[s][u]) /\ Static[s][u] \subseteq DOMAIN Rank
  /\ Described({Place[l].site : l \in DOMAIN Place})
  /\ \A p \in ListPages : Described({x.site : x \in ToSet(p.links) \cup ToSet(p.blocks)})
  /\ \A d \in DetailPages : Described({d.site} \cup ToSet(d.outs))
  /\ \A answers \in TcaAnswers : \A p \in ToSet(answers) \ {Dead} : Described({m.site : m \in ToSet(p)})
  /\ \A answer \in Answers : Described({p.site : p \in ToSet(answer.places)})

VARIABLES
  stage, payload,
  sources,      \* still to be asked
  targets,      \* directories still to be asked
  gathered,     \* members of the directories asked so far
  arriving,     \* rows of the source asked last that are still to be merged
  index,        \* the merged businesses
  businesses,   \* discovered, each with what the stages add
  at,           \* the last one visited
  todo,         \* addresses to verify
  seen, leads,
  warned,       \* sources and directories a warning names
  merged,       \* what has gone into the index (history)
  returned,     \* what the sources have returned (history)
  visit,        \* the site just visited and what answered there (history)
  sent          \* addresses of the leads the model was asked about (history)

vars ==
  <<crawlVars, stage, payload, sources, targets, gathered, arriving, index, businesses, at,
    todo, seen, leads, warned, merged, returned, visit, sent>>

calls == <<sources, targets, gathered, arriving, index, warned, merged, returned>>

NoVisit == [site |-> ""]

-----------------------------------------------------------------------------
(* Discovery.                                                                *)

\* The known sources of a payload, each once; Maps if there are none.
Sources(chosen) ==
  LET valid == SelectSeq(Distinct(chosen), LAMBDA s : s \in {"maps", "association", "govbiz"})
  IN IF valid = <<>> THEN <<"maps">> ELSE valid

\* A shared host is no key: its pages are told apart by name.
BusinessKeys(row) == Given(<<SiteDomain[row.site], row.name>>)

MergeBusiness(idx, row) == MergeByKeys(idx, row, BusinessKeys(row))

\* A turn for each source, as long as it has list.
InterleaveBySource(list) ==
  LET Turn(i) == Cardinality({j \in 1..i : list[j].from = list[i].from})
      Bucket(i) == Min({j \in 1..i : list[j].from = list[i].from})
      order == Ordered(DOMAIN list, {p \in (DOMAIN list) \X (DOMAIN list) :
                 Turn(p[1]) < Turn(p[2]) \/ (Turn(p[1]) = Turn(p[2]) /\ Bucket(p[1]) < Bucket(p[2]))})
  IN [i \in DOMAIN list |-> list[order[i]]]

Init ==
  /\ payload \in Payloads /\ limit = payload.limit
  /\ CrawlInit
  /\ stage = "validate" /\ sources = <<>> /\ targets = <<>> /\ gathered = <<>> /\ arriving = <<>>
  /\ index = <<>> /\ businesses = <<>> /\ at = 0 /\ todo = <<>> /\ seen = {}
  /\ leads = <<>> /\ warned = {} /\ merged = {} /\ returned = {} /\ visit = NoVisit
  /\ sent = <<>>

ValidatePayload ==
  /\ stage = "validate"
  /\ stage' = IF payload.query THEN "discover" ELSE "failed"
  /\ sources' = Sources(payload.sources) /\ targets' = payload.targets
  /\ UNCHANGED <<crawlVars, payload, gathered, arriving, index, businesses, at, todo, seen, leads,
                 warned, merged, returned, visit, sent>>

\* A source returns rows, to be merged one after the other, and perhaps warnings.
SourceReturns(new, warning) ==
  /\ arriving' = new
  /\ warned' = IF warning THEN warned \cup {Head(sources)} ELSE warned
  /\ sources' = Tail(sources)
  /\ UNCHANGED <<stage, payload, index, businesses, at, todo, seen, leads, merged, visit, sent>>

MergeArrival ==
  /\ stage = "discover" /\ arriving # <<>>
  /\ LET row == Head(arriving) IN
     /\ index' = MergeBusiness(index, row)
     /\ merged' = merged \cup {[item |-> row, keys |-> BusinessKeys(row)]}
  /\ arriving' = Tail(arriving)
  /\ UNCHANGED <<crawlVars, stage, payload, sources, targets, gathered, businesses, at, todo, seen,
                 leads, warned, returned, visit, sent>>

AllMerged == stage = "discover" /\ arriving = <<>>

Asking(source) == AllMerged /\ sources # <<>> /\ Head(sources) = source

AskMaps ==
  /\ Asking("maps")
  /\ \E feed \in Feeds : \E opens \in SUBSET DOMAIN Place :
       LET new == SearchMaps(feed, Place, opens, limit) IN
       /\ SourceReturns(new, feed = <<>>)
       /\ returned' = returned \cup ToSet(new)
  /\ UNCHANGED <<crawlVars, targets, gathered>>

AskRegistry ==
  /\ Asking("govbiz")
  /\ \E registry \in Registries : \E failing \in 0..2 :
       LET scan == SearchCompanies(registry, failing, limit) IN
       /\ SourceReturns(scan.rows, scan.warned)
       /\ returned' = returned \cup ToSet(scan.rows)
  /\ UNCHANGED <<crawlVars, targets, gathered>>

\* A source that raises costs its own rows.
SourceRaises ==
  /\ AllMerged /\ sources # <<>> /\ Head(sources) \in {"maps", "govbiz"}
  /\ SourceReturns(<<>>, TRUE)
  /\ UNCHANGED <<crawlVars, targets, gathered, returned>>

CallDirectory ==
  /\ Asking("association") /\ targets # <<>>
  /\ \/ Head(targets) = "url" /\ Begin
     \/ Head(targets) = "tca" /\ SearchTca
     \/ Head(targets) # "tca" /\ Refuse
     \/ ReadListPage \/ AddMember \/ OpenRecords \/ ReadRecord \/ ReturnMembers
  /\ UNCHANGED <<stage, payload, calls, businesses, at, todo, seen, leads, visit, sent>>

\* The local variables of a call end with it.
LeaveDirectory ==
  /\ targets' = Tail(targets)
  /\ crawl' = "idle" /\ found' = <<>> /\ details' = <<>> /\ next' = FALSE /\ taken' = 0
  /\ adding' = <<>> /\ rows' = <<>> /\ short' = FALSE /\ page' = <<>> /\ added' = {} /\ missed' = FALSE
  /\ UNCHANGED <<limit, stage, payload, sources, arriving, index, businesses, at, todo, seen, leads,
                 merged, visit, sent>>

DirectoryReturns ==
  /\ Asking("association") /\ crawl = "returned"
  /\ LET new == [i \in DOMAIN rows |-> [rows[i] EXCEPT !.from = Head(targets)]] IN
     /\ gathered' = gathered \o new
     /\ returned' = returned \cup ToSet(new)
  /\ warned' = IF rows = <<>> \/ short THEN warned \cup {Head(targets)} ELSE warned
  /\ LeaveDirectory

\* A link or an address that cannot be parsed raises out of the call, which takes
\* nothing of what other directories have returned.
DirectoryRaises ==
  /\ Asking("association") /\ crawl \in {"lists", "details"}
  /\ warned' = warned \cup {Head(targets)}
  /\ UNCHANGED <<gathered, returned>>
  /\ LeaveDirectory

DirectoriesReturn ==
  /\ Asking("association") /\ targets = <<>>
  /\ SourceReturns(gathered, payload.targets = <<>>)
  /\ gathered' = <<>>
  /\ UNCHANGED <<crawlVars, targets, returned>>

Discovered ==
  /\ AllMerged /\ sources = <<>>
  /\ businesses' = Prefix(InterleaveBySource(UniqueRecords(index)), limit)
  /\ stage' = "resolve"
  /\ UNCHANGED <<crawlVars, payload, calls, at, todo, seen, leads, visit, sent>>

\* Web sites for the businesses that have none, looked up by name; the browser may
\* fail as a whole.
ResolveWebsites ==
  /\ stage = "resolve"
  /\ LET missing == {b.name : b \in {c \in ToSet(businesses) : c.site = "" /\ c.name # ""}} IN
     \/ businesses' = businesses
     \/ /\ payload.resolve
        /\ \E answer \in [missing -> Answers] :
             businesses' = [i \in DOMAIN businesses |->
               LET b == businesses[i] IN
               IF b.site = "" /\ b.name # "" THEN [b EXCEPT !.site = ResolveOne(b.name, answer[b.name])]
               ELSE b]
  /\ stage' = "harvest"
  /\ index' = <<>> /\ merged' = {} /\ returned' = {}
  /\ UNCHANGED <<crawlVars, payload, sources, targets, gathered, arriving, warned, at, todo, seen,
                 leads, visit, sent>>

-----------------------------------------------------------------------------
(* A visit to one business after the other.                                  *)

Offer(emails, source, site) ==
  [i \in DOMAIN emails |-> [email |-> emails[i], source |-> source, site |-> site]]

\* Which urls of a site answer to a request, and which in the browser.
Loads(content, site, up) == [u \in DOMAIN content[site] |-> IF u \in up THEN content[site][u] ELSE Dead]

Extract(site, up, liveUp) ==
  LET ext == ExtractEmails(site, Web[site], Loads(Static, site, up), Loads(Live, site, liveUp),
                           payload.render)
  IN Offer(ext.emails, IF ext.guessed THEN "guessed" ELSE "website", site)

Visiting == stage = "harvest" /\ todo = <<>> /\ at < Len(businesses)
Business == businesses[at + 1]
ByDirectory == IF Business.email = "" THEN <<>> ELSE Offer(<<Business.email>>, "directory", Business.site)
Mined == payload.social /\ Platform[Business.site] \in {"facebook", "x", "instagram"}

\* What a directory published comes before what the visit offers.
Visited(offers) ==
  /\ at' = at + 1
  /\ todo' = ByDirectory \o offers
  /\ UNCHANGED <<crawlVars, stage, payload, calls, businesses, seen, leads, sent>>

NoSite == Visiting /\ Business.site = "" /\ Visited(<<>>) /\ visit' = NoVisit

VisitSite ==
  /\ Visiting /\ Business.site # "" /\ ~Mined
  /\ \E up \in SUBSET DOMAIN Static[Business.site] : \E liveUp \in {{}, DOMAIN Live[Business.site]} :
       /\ Visited(Extract(Business.site, up, liveUp))
       /\ visit' = [site |-> Business.site, up |-> up, liveUp |-> liveUp]

\* A social profile, and the site it links unless that is social as well.
MineSocial ==
  /\ Visiting /\ Business.site # "" /\ Mined
  /\ \E plain, live \in Profiles :
       LET prof == FetchProfile(Platform[Business.site], <<plain>>, live)
           own == Offer(prof.emails, Platform[Business.site], Business.site)
       IN IF prof.site = "" \/ Platform[prof.site] # "" THEN Visited(own)
          ELSE \E up \in {{}, DOMAIN Static[prof.site]} : Visited(own \o Extract(prof.site, up, {}))
  /\ visit' = NoVisit

\* A link of the homepage that cannot be parsed raises out of the flow.
VisitRaises ==
  /\ Visiting /\ Business.site # ""
  /\ stage' = "failed"
  /\ UNCHANGED <<crawlVars, payload, calls, businesses, at, todo, seen, leads, visit, sent>>

\* A guess is worth sending to only when the server has accepted it.
Label(confidence, source) ==
  IF source = "guessed" /\ confidence = "medium" THEN "low" ELSE confidence

AlwaysNew(email) == TRUE
NewAddress(email) == email \notin seen

\* One address after the other: verified and made a lead, unless it was seen before.
AppendLead ==
  /\ stage = "harvest" /\ todo # <<>>
  /\ todo' = Tail(todo) /\ visit' = NoVisit
  /\ LET o == Head(todo) IN
     /\ seen' = seen \cup {o.email}
     /\ \/ ~NewAddress(o.email) /\ UNCHANGED leads
        \/ /\ NewAddress(o.email)
           /\ \E answer \in MailAnswers :
                LET confidence == Confidence(o.email, answer)
                    lead == [company |-> businesses[at].name, email |-> o.email, site |-> o.site,
                             source |-> o.source, confidence |-> Label(confidence, o.source),
                             smtp |-> answer.smtp, fact |-> "", hook |-> ""]
                IN leads' = IF confidence = "invalid" THEN leads ELSE Append(leads, lead)
  /\ UNCHANGED <<crawlVars, stage, payload, calls, businesses, at, sent>>

-----------------------------------------------------------------------------
(* The list of leads.                                                        *)

ConfRank(lead) == CASE lead.confidence = "high" -> 0 [] lead.confidence = "medium" -> 1 [] OTHER -> 2

\* The sort is stable.
Better ==
  {p \in (DOMAIN leads) \X (DOMAIN leads) :
     \/ ConfRank(leads[p[1]]) < ConfRank(leads[p[2]])
     \/ ConfRank(leads[p[1]]) = ConfRank(leads[p[2]]) /\ p[1] < p[2]}

SortLeads ==
  /\ stage = "harvest" /\ todo = <<>> /\ at = Len(businesses)
  /\ LET order == Ordered(DOMAIN leads, Better)
     IN leads' = [i \in DOMAIN leads |-> leads[order[i]]]
  /\ stage' = IF leads = <<>> THEN "done" ELSE "enrich"
  /\ visit' = NoVisit
  /\ UNCHANGED <<crawlVars, payload, calls, businesses, at, todo, seen, sent>>

\* One lookup per company; one that fails leaves its leads as they are.
EnrichFromRegistry ==
  /\ stage = "enrich"
  /\ LET companies == Prefix(Distinct(SelectSeq([i \in DOMAIN leads |-> leads[i].company],
                                                LAMBDA c : c # "")), MaxEnrich)
     IN \E up \in IF payload.enrich THEN SUBSET ToSet(companies) ELSE {{}} :
        \E registry \in Registries :
          LET known == {registry[i].name : i \in DOMAIN registry} IN
          leads' = [i \in DOMAIN leads |->
            IF leads[i].company \in up
            THEN [leads[i] EXCEPT !.fact = LookupCompany(leads[i].company, known)] ELSE leads[i]]
  /\ stage' = "qualify"
  /\ UNCHANGED <<crawlVars, payload, calls, businesses, at, todo, seen, visit, sent>>

\* The model counts the leads it is shown from 0.
FromZero(i) == i + 1

\* The model says something about some of the leads it is shown, and perhaps about
\* one it is not shown; or it fails, which costs only that.
Qualify ==
  /\ stage = "qualify"
  /\ LET subset == Prefix(leads, MaxQualify)
         told == [i \in 0..Len(subset) |-> IF i < Len(subset) THEN subset[i + 1].email ELSE "nobody"]
     IN \E said \in SUBSET DOMAIN told :
          /\ leads' = [i \in DOMAIN leads |->
               LET about == {n \in said : n < Len(subset) /\ FromZero(n) = i}
               IN IF about = {} THEN leads[i]
                  ELSE [leads[i] EXCEPT !.hook = told[CHOOSE n \in about : TRUE]]]
          /\ sent' = [i \in DOMAIN subset |-> subset[i].email]
  /\ stage' = "done"
  /\ UNCHANGED <<crawlVars, payload, calls, businesses, at, todo, seen, visit>>

Next ==
  \/ ValidatePayload \/ AskMaps \/ AskRegistry \/ SourceRaises \/ MergeArrival
  \/ CallDirectory \/ DirectoryReturns \/ DirectoryRaises \/ DirectoriesReturn
  \/ Discovered \/ ResolveWebsites
  \/ NoSite \/ VisitSite \/ MineSocial \/ VisitRaises \/ AppendLead
  \/ SortLeads \/ EnrichFromRegistry \/ Qualify

Spec == Init /\ [][Next]_vars

-----------------------------------------------------------------------------
(* Properties.                                                               *)

TypeOK ==
  /\ CrawlTypeOK
  /\ stage \in {"validate", "discover", "resolve", "harvest", "enrich", "qualify", "done", "failed"}
  /\ at \in 0..Len(businesses) /\ Len(businesses) <= limit
  /\ \A i \in DOMAIN leads : leads[i].confidence \in {"high", "medium", "low"}

\* However the sources overlap, and in whatever order they answer, one company is one
\* business of the list and keeps all that any source knew.
CompaniesAreOne == IndexIsPartition(index, merged)

\* A source or a directory that fails takes nothing of what the others have returned.
BrokenSourceIsAlone ==
  stage = "resolve" => \A r \in returned : \E m \in merged : m.item = r

\* In the list cut to the limit no source is short of another one by more than a
\* business, unless it has no more.
SourcesShare ==
  LET Of(list, s) == Cardinality({i \in DOMAIN list : list[i].from = s})
      All == UniqueRecords(index)
      From == {All[i].from : i \in DOMAIN All}
  IN stage = "resolve" => \A s, t \in From :
       Of(businesses, s) + 1 < Of(businesses, t) => Of(businesses, s) = Of(All, s)

\* Businesses: the members of a directory and the companies of all sources.
BusinessesAreOne ==
  /\ TypeOK /\ MembersAreOne /\ CompaniesAreOne
  /\ BrokenSourceIsAlone /\ SourcesShare

\* Of the pages of a site that answer, the homepage and the contact pages it links
\* are within reach, however many other paths there are.
Reach(v) ==
  LET web == Web[v.site]
      urls == {web.home} \cup (IF web.home \in v.up THEN ToSet(Prefix(web.links, MaxLinks)) ELSE {})
  IN UNION {Harvest(Static[v.site], u) : u \in urls \cap v.up}

\* If there is an address of the site's own domain within reach, such addresses are
\* what the visit offers; nothing is guessed when there is any.
PublishedIsOffered ==
  LET offered == {Domain[o.email] : o \in {t \in ToSet(todo) : t.source = "website"}} IN
  visit.site # "" =>
    /\ (\E a \in Reach(visit) : Domain[a] = SiteDomain[visit.site])
       => offered = {SiteDomain[visit.site]}
    /\ Reach(visit) # {} => \A o \in ToSet(todo) : o.source # "guessed"

\* Fewer companies of the registry than asked for, although it has more of the city,
\* are explained by a warning.
ScanIsExplained ==
  \A registry \in Registries : \A failing \in 0..2 :
    LET scan == SearchCompanies(registry, failing, limit)
        names == {scan.rows[i].name : i \in DOMAIN scan.rows}
    IN Len(scan.rows) < limit /\ (\E r \in ToSet(registry) : r.here /\ r.name \notin names)
       => scan.warned

\* No row of a directory mixes two members or has the directory's own address, a
\* short list is explained, and what a site publishes is what it is asked for.
ReadingsAreRight == RowsAreOwn /\ GuildIsNoMember /\ ShortIsExplained /\ ScanIsExplained
                    /\ PublishedIsOffered

\* However many businesses and sources name it, an address is one lead.
OneLeadPerAddress ==
  \A i, j \in DOMAIN leads : leads[i].email = leads[j].email => i = j

\* What its server has rejected is not worth sending to, and a guess is only if its
\* server has accepted it.
GuessIsUntrusted ==
  \A i \in DOMAIN leads : leads[i].confidence \in {"high", "medium"} =>
    /\ leads[i].smtp # "rejected"
    /\ leads[i].source = "guessed" => leads[i].smtp = "accepted"

\* At the end every address that was offered is a lead, unless no server would take
\* it, and the better ones come first.
NothingIsLost ==
  stage \in {"enrich", "qualify", "done"} =>
    /\ \A a \in seen \ Malformed : \E i \in DOMAIN leads : leads[i].email = a
    /\ \A i, j \in DOMAIN leads : i < j => ConfRank(leads[i]) <= ConfRank(leads[j])

\* What the model says about a lead is attached to that lead.
HookIsItsOwn ==
  \A i \in DOMAIN leads : leads[i].hook # "" =>
    leads[i].hook = leads[i].email /\ leads[i].email \in ToSet(sent)

LeadsAreSound == OneLeadPerAddress /\ GuessIsUntrusted /\ NothingIsLost /\ HookIsItsOwn
=============================================================================
