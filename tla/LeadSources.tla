---------------------------- MODULE LeadSources ----------------------------
(* Where the lead collection finds businesses and contacts, as functions of  *)
(* what the outside world answers: the feed of Maps, the company registry    *)
(* with its pages, a member page of a directory, a social profile, and the   *)
(* pages of a web site.  An answer that does not come is Dead.               *)
EXTENDS BusinessIndex

CONSTANTS
  Dead,         \* a page or a call that fails
  MaxPasses, MaxStale,        \* of the feed of Maps (20 and 3 in the code)
  PageRows, MaxScan,          \* of the registry (200 and 2000)
  MaxLinks, MaxScanned,       \* of a web site (5 and 8)
  MaxPerSite,                 \* addresses kept of one site (3)
  MaxRendered,                \* pages loaded in the browser (3)
  MaxCandidates,              \* places read to resolve one name (3)
  Domain,       \* of an address
  Rank,         \* of an address among those of its site, role addresses first
  Role, Malformed,            \* role addresses, and ones no server would take
  Junk,         \* addresses that belong to nobody (templates, widgets)
  Guess,        \* info@ of a domain
  SiteDomain,   \* the registrable domain of a site, "" on a shared host
  Platform,     \* "facebook", "x", "instagram" or "" for a site
  CoreOf        \* the characters left of a name without its legal form

ASSUME SourcesAssumption ==
  /\ {MaxPasses, MaxStale, PageRows, MaxScan, MaxLinks, MaxScanned, MaxPerSite,
      MaxRendered, MaxCandidates} \subseteq Nat \ {0}
  /\ MaxLinks < MaxScanned      \* _discover_contact_links and extract_emails
  /\ \A a, b \in DOMAIN Rank : Rank[a] \in Nat /\ (Rank[a] = Rank[b] => a = b)

Row(name, site, email, source) == [name |-> name, site |-> site, email |-> email, from |-> source]

-----------------------------------------------------------------------------
(* Maps: the links the feed shows, pass by pass, and the places they open.   *)

\* Scroll until there are enough links or the feed has stalled.
CollectPlaces(passes, limit) ==
  LET n == Len(Prefix(passes, MaxPasses))
      Seen(k) == Distinct(Joined(Prefix(passes, k)))
      Done(k) == Len(Seen(k)) >= limit \/ (k >= MaxStale /\ Len(Seen(k)) = Len(Seen(k - MaxStale)))
  IN Seen(Min({n} \cup {k \in 1..n : Done(k)}))

\* The places that open and have a name.
SearchMaps(passes, place, opens, limit) ==
  LET links == Prefix(CollectPlaces(passes, limit), limit)
      read == Selected(links, {i \in DOMAIN links : links[i] \in opens /\ place[links[i]].name # ""})
  IN [i \in DOMAIN read |-> Row(place[read[i]].name, place[read[i]].site, "", "maps")]

\* A place is the company when one core is part of the other; a core of one
\* character has to be the same.
NameMatches(query, found) ==
  LET a == CoreOf[query]
      b == CoreOf[found]
      Within(s, t) == \E i \in 0..(Len(t) - Len(s)) : SubSeq(t, i + 1, i + Len(s)) = s
  IN a # <<>> /\ b # <<>> /\ (a = b \/ (Len(a) > 1 /\ Len(b) > 1 /\ (Within(a, b) \/ Within(b, a))))

\* The web site of a company by its name: of the one place that opens, or of the
\* first of some listed ones, if the name corroborates it.
ResolveOne(name, answer) ==
  LET listed == Prefix(answer.places, IF answer.panel THEN 1 ELSE MaxCandidates)
      hits == Selected(listed, {i \in DOMAIN listed :
                listed[i].site # "" /\ NameMatches(name, listed[i].name)})
  IN IF hits = <<>> THEN "" ELSE hits[1].site

-----------------------------------------------------------------------------
(* The company registry, whose pages are filtered by city on this side.      *)

\* The scan stopped at its cap and not because it had enough.
ScanIsCut(rows, scanned, limit) == Len(rows) < limit /\ scanned >= MaxScan

\* Page until there are enough rows; failing is the page that does not come.
FetchAll(registry, failing, limit) ==
  LET Scanned(k) == Min({k * PageRows, Len(registry)})
      Rows(k) == Selected(registry, {i \in 1..Scanned(k) : registry[i].here})
      Done(k) == k * PageRows > Len(registry) \/ Len(Rows(k)) >= limit \/ Scanned(k) >= MaxScan
      last == Min({k \in 1..MaxScan : Done(k)})
      lost == failing \in 1..last
      pages == IF lost THEN failing - 1 ELSE last
  IN [rows |-> Rows(pages), scanned |-> Scanned(pages), lost |-> lost]

SearchCompanies(registry, failing, limit) ==
  LET scan == FetchAll(registry, failing, limit)
      kept == Prefix(scan.rows, limit)
  IN [rows |-> [i \in DOMAIN kept |-> Row(kept[i].name, "", "", "govbiz")],
      warned |-> scan.lost \/ ScanIsCut(scan.rows, scan.scanned, limit)]

\* The registry's record of exactly this name, never a similar one.
LookupCompany(name, rows) == IF name \in rows THEN name ELSE ""

-----------------------------------------------------------------------------
(* Web sites: page and live are what the urls of a site answer to a plain    *)
(* request and in the browser, Dead or a set of addresses.                   *)

Valid(addresses) == addresses \ Junk

\* The addresses a page has, whichever way it hides them.
Harvest(page, url) == Valid(page[url])

\* Addresses of the site's own domain, others only if there is none.
KeepOwn(found, site) ==
  LET own == {a \in found : Domain[a] = SiteDomain[site]} IN IF own = {} THEN found ELSE own

\* The best few addresses of a site, generic role addresses first.
FinalizeEmails(found, site) ==
  LET kept == KeepOwn(found, site)
  IN Prefix(Ordered(kept, {p \in kept \X kept : Rank[p[1]] < Rank[p[2]]}), MaxPerSite)

VisitPathsFirst(web, page) ==
  Distinct(<<web.home>> \o web.paths \o
           IF page[web.home] = Dead THEN <<>> ELSE Prefix(web.links, MaxLinks))
\* The homepage, the contact pages it links, and then the usual paths.
Visit(web, page) ==
  Distinct(<<web.home>> \o
           (IF page[web.home] = Dead THEN <<>> ELSE Prefix(web.links, MaxLinks)) \o web.paths)

\* The first pages that load, in the order of the visit.
Scan(web, page) ==
  LET urls == Visit(web, page)
      read == Prefix(Selected(urls, {i \in DOMAIN urls : page[urls[i]] # Dead}), MaxScanned)
  IN UNION {Harvest(page, u) : u \in ToSet(read)}

\* In the browser: the homepage and the pages it links, up to the first that
\* has an address.
RenderAndHarvest(web, live) ==
  LET read == Prefix(SelectSeq(<<web.home>> \o Prefix(web.links, MaxLinks),
                               LAMBDA u : live[u] # Dead), MaxRendered)
      telling == SelectSeq(read, LAMBDA u : Harvest(live, u) # {})
  IN IF live[web.home] = Dead \/ telling = <<>> THEN {} ELSE Harvest(live, telling[1])

\* Published addresses; a guess on the site's own domain if there are none.
ExtractEmails(site, web, page, live, render) ==
  LET own == SiteDomain[site] # ""
      static == Scan(web, page)
      found == IF static = {} /\ render /\ own THEN RenderAndHarvest(web, live) ELSE static
      guessed == found = {} /\ own
  IN [emails |-> FinalizeEmails(IF guessed THEN {Guess[SiteDomain[site]]} ELSE found, site),
      guessed |-> guessed]

-----------------------------------------------------------------------------
(* Social profiles: a reply is Dead or has addresses, a site and a text.     *)

NoContact == [emails |-> <<>>, site |-> ""]

Alive(reply) == reply # Dead
Telling(reply) == Alive(reply) /\ (reply.emails # <<>> \/ reply.text)
Contact(reply) == [emails |-> reply.emails, site |-> reply.site]

\* Facebook is only read in the browser.
FacebookContact(live) == IF Alive(live) THEN Contact(live) ELSE NoContact

\* X is read from the first mirror that has the profile, else in the browser.
XContact(mirrors, live) ==
  LET up == SelectSeq(mirrors, Alive)
  IN IF up # <<>> THEN Contact(up[1]) ELSE IF Telling(live) THEN Contact(live) ELSE NoContact

\* Instagram is read in the browser when the plain page says nothing.
InstagramContact(plain, live) ==
  LET Says(reply) == Telling(reply) \/ (Alive(reply) /\ reply.site # "")
  IN IF Says(plain) THEN Contact(plain) ELSE IF Says(live) THEN Contact(live) ELSE NoContact

FetchProfile(platform, plain, live) ==
  CASE platform = "facebook" -> FacebookContact(live)
    [] platform = "x" -> XContact(plain, live)
    [] platform = "instagram" -> InstagramContact(plain[1], live)

-----------------------------------------------------------------------------
(* Verification: what the mail servers of an address say.                    *)

MailAnswers ==
  {[mx |-> FALSE, smtp |-> "skipped"]}
  \cup [mx : {TRUE}, smtp : {"accepted", "rejected", "unknown", "skipped"}]

Confidence(address, answer) ==
  IF address \in Malformed THEN "invalid"
  ELSE IF ~answer.mx \/ answer.smtp = "rejected" THEN "low"
  ELSE IF answer.smtp = "accepted" THEN "high"
  ELSE IF address \in Role THEN "medium" ELSE "low"
=============================================================================
