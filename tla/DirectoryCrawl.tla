--------------------------- MODULE DirectoryCrawl ---------------------------
(* A call of search_association: the crawl of a member directory given by    *)
(* its URL, page by page and then record by record, or the built-in          *)
(* directory of the TCA.  What a page answers is chosen when it is read: the directory*)
(* is anybody's.                                                             *)
EXTENDS LeadSources

CONSTANTS
  ListPages,    \* what a list page may hold: [links, blocks, details, next]
  DetailPages,  \* what a member record may hold: [name, site, outs, texts]
  MaxListPages, MaxDetails,   \* 5 and 40 in the code
  TcaRows,                    \* rows on a page of the TCA (10)
  TcaAnswers,   \* sequences of Dead or of rows [no, name]
  Own,          \* addresses of the directory itself
  Keywords      \* sets of the names a keyword is part of; {} is no keyword

ASSUME CrawlAssumption ==
  /\ {MaxListPages, MaxDetails} \subseteq Nat /\ TcaRows \in Nat \ {0}
  /\ \A p \in ListPages : IsList(p.links) /\ IsList(p.blocks) /\ p.next \in BOOLEAN
  /\ \A d \in DetailPages : IsList(d.outs) /\ d.texts \subseteq DOMAIN Rank
  /\ \A answers \in TcaAnswers : IsList(answers) /\ \A p \in ToSet(answers) \ {Dead} : IsList(p)

ASSUME OwnAssumption == \A a \in Own : ~Blank(a)

\* The TCA fills every page but the last and shows a member once; a page that fails
\* is not an empty one.
ASSUME TcaAssumption ==
  /\ Dead # <<>>
  /\ \A answers \in TcaAnswers :
       LET come == {i \in DOMAIN answers : answers[i] # Dead} IN
       /\ \A i \in come : \A j \in DOMAIN answers : i < j => Len(answers[i]) = TcaRows
       /\ \A i, j \in come : \A a \in DOMAIN answers[i] : \A b \in DOMAIN answers[j] :
            answers[i][a] = answers[j][b] => i = j /\ a = b

VARIABLES
  crawl,    \* "idle", "lists", "details" or "returned"
  limit,    \* of the run
  found,    \* index of the members
  details,  \* urls of member records
  next,     \* whether there is a page to follow
  taken,    \* pages read in this pass
  adding,   \* members of the page read last that are still to be added
  rows,     \* what the call returns
  short,    \* whether a warning says that there was more
  page,     \* the blocks of the page read last (history)
  added,    \* what has been added to the index (history)
  missed    \* a member of the TCA that is not returned below the limit (history)

crawlVars == <<crawl, limit, found, details, next, taken, adding, rows, short, page, added, missed>>

-----------------------------------------------------------------------------
(* Reading a page: a block is one row of it, with the labelled fields it has *)
(* and the member it is about.                                               *)

\* The first value of every label, over the blocks taken together.
LabelledFields(blocks) ==
  LET Has(f) == {i \in DOMAIN blocks : ~Blank(blocks[i][f])}
  IN [f \in {"name", "site", "member"} |-> IF Has(f) = {} THEN "" ELSE blocks[Min(Has(f))][f]]

\* One member down the page, or one in every row: more than one name label tells.
LabelBlocks(blocks) ==
  IF \A i, j \in DOMAIN blocks : blocks[i].name # "" /\ blocks[j].name # "" => i = j THEN <<blocks>>
  ELSE [i \in DOMAIN blocks |-> <<blocks[i]>>]

\* Links out of the directory, then labelled rows that have a name.
MembersFromList(p) ==
  LET parsed == LabelBlocks(p.blocks)
      fields == [i \in DOMAIN parsed |-> LabelledFields(parsed[i])]
      named == Selected(fields, {i \in DOMAIN fields : fields[i].name # ""})
  IN [i \in DOMAIN p.links |-> Row(p.links[i].name, p.links[i].site, "", "association")]
     \o [i \in DOMAIN named |-> Row(named[i].name, named[i].site, "", "association")]

\* The addresses of a record without those of the directory.
MemberEmails(texts) == texts \ Own

\* One address stands for those of the record, the best by rank.
BestEmail(texts) ==
  LET mine == MemberEmails(texts)
  IN IF mine = {} THEN "" ELSE CHOOSE a \in mine : \A b \in mine : Rank[a] <= Rank[b]

\* A record names its site or links to exactly one.
MemberRecord(d) ==
  Row(d.name, IF d.site # "" THEN d.site ELSE IF Len(d.outs) = 1 THEN d.outs[1] ELSE "",
      BestEmail(d.texts), "association")

-----------------------------------------------------------------------------
(* The index of the members.  A shared host is a key here: social links and  *)
(* the like have been left out before.                                       *)

MemberKeys(row) == Given(<<row.site, row.name>>)

AddBusiness(index, row) == MergeByKeys(index, row, MemberKeys(row))

NeedsDetail(index) == \E i \in DOMAIN index : index[i].row.site = ""
Enough(index) == Len(index) >= limit /\ ~NeedsDetail(index)

\* A keyword that no member matches is taken for one this directory does not use.
ByKeyword(members, keyword) ==
  LET matched == Selected(members, {i \in DOMAIN members : members[i].name \in keyword})
  IN IF keyword = {} \/ matched = <<>> THEN members ELSE matched

-----------------------------------------------------------------------------
(* The call.                                                                 *)

CrawlInit ==
  /\ crawl = "idle" /\ found = <<>> /\ details = <<>> /\ next = FALSE /\ taken = 0
  /\ adding = <<>> /\ rows = <<>> /\ short = FALSE /\ page = <<>> /\ added = {}
  /\ missed = FALSE

\* An unknown source, or an address that is not public, returns nothing.
Refuse ==
  /\ crawl = "idle"
  /\ crawl' = "returned" /\ rows' = <<>>
  /\ UNCHANGED <<limit, found, details, next, taken, adding, short, page, added, missed>>

Begin ==
  /\ crawl = "idle"
  /\ crawl' = "lists" /\ next' = TRUE
  /\ UNCHANGED <<limit, found, details, taken, adding, rows, short, page, added, missed>>

\* There is no page to follow, or no need of one.
ListIsRead == adding = <<>> /\ (~next \/ taken = MaxListPages \/ Enough(found))

\* A list page that does not load, or lies at an address that is not public, ends
\* the pass.
ReadListPage ==
  /\ crawl = "lists" /\ adding = <<>> /\ ~ListIsRead
  /\ taken' = taken + 1
  /\ \/ next' = FALSE /\ UNCHANGED <<adding, details, page>>
     \/ \E p \in ListPages :
          /\ adding' = MembersFromList(p)
          /\ details' = Distinct(details \o p.details)
          /\ next' = p.next
          /\ page' = p.blocks
  /\ UNCHANGED <<crawl, limit, found, rows, short, added, missed>>

Add(row) ==
  /\ found' = AddBusiness(found, row)
  /\ added' = added \cup {[item |-> row, keys |-> MemberKeys(row)]}

AddMember ==
  /\ crawl = "lists" /\ adding # <<>>
  /\ Add(Head(adding))
  /\ adding' = Tail(adding)
  /\ UNCHANGED <<crawl, limit, details, next, taken, rows, short, page, missed>>

OpenRecords ==
  /\ crawl = "lists" /\ ListIsRead
  /\ crawl' = "details" /\ taken' = 0 /\ next' = FALSE
  /\ UNCHANGED <<limit, found, details, adding, rows, short, page, added, missed>>

MoreRecords == taken < Len(details) /\ taken < MaxDetails /\ ~Enough(found)

\* A record that does not load or has no name is passed over.
ReadRecord ==
  /\ crawl = "details" /\ MoreRecords
  /\ taken' = taken + 1
  /\ \/ UNCHANGED <<found, added>>
     \/ \E d \in DetailPages : d.name # "" /\ Add(MemberRecord(d))
  /\ UNCHANGED <<crawl, limit, details, next, adding, rows, short, page, missed>>

ReturnMembers ==
  /\ crawl = "details" /\ ~MoreRecords
  /\ \E keyword \in Keywords :
       rows' = Prefix(ByKeyword(UniqueRecords(found), keyword), limit)
  /\ crawl' = "returned"
  /\ UNCHANGED <<limit, found, details, next, taken, adding, short, page, added, missed>>

\* Members of the TCA: as many pages as the limit needs, then a record each, up to
\* the cap of records.
UpToLimit(members) == Len(Prefix(members, limit))
Take(members) == Len(Prefix(Prefix(members, limit), MaxDetails))

\* A record that does not load leaves the member without a site.
TcaMember(member, opens) ==
  Row(member.name, IF member \in opens THEN member.site ELSE "", "", "association")

SearchTca ==
  /\ crawl = "idle"
  /\ \E answers \in TcaAnswers :
       LET pages == Prefix(answers, (limit + TcaRows - 1) \div TcaRows)
           last == SelectInSeq(pages, LAMBDA p : p = Dead \/ p = <<>>)
           good == IF last = 0 THEN pages ELSE SubSeq(pages, 1, last - 1)
           members == Distinct(Joined(good))
           take == Take(members)
       IN /\ \E opens \in SUBSET ToSet(Prefix(members, take)) :
               rows' = [i \in 1..take |-> TcaMember(members[i], opens)]
          /\ short' = ((last # 0 /\ pages[last] = Dead) \/ take < UpToLimit(members))
          /\ missed' = (take < limit /\ \E p \in ToSet(answers) \ {Dead} :
                          \E m \in ToSet(p) : \A i \in DOMAIN rows' : rows'[i].name # m.name)
  /\ crawl' = "returned"
  /\ UNCHANGED <<limit, found, details, next, taken, adding, page, added>>

-----------------------------------------------------------------------------
(* Properties.                                                               *)

CrawlTypeOK ==
  /\ crawl \in {"idle", "lists", "details", "returned"}
  /\ limit \in Nat \ {0} /\ next \in BOOLEAN /\ short \in BOOLEAN
  /\ taken \in 0..(IF MaxListPages > MaxDetails THEN MaxListPages ELSE MaxDetails)
  /\ \A i \in DOMAIN rows : DOMAIN rows[i] = {"name", "site", "email", "from"}

\* The members of a directory are the components of what its pages say, whichever
\* page links to whichever, and never more than asked for.
MembersAreOne ==
  /\ IndexIsPartition(found, added)
  /\ Len(rows) <= limit

\* On a page that labels the name of each of its members no row takes a field of
\* another one: what is parsed together is about one member.
RowsAreOwn ==
  LET Named(m) == \E i \in DOMAIN page : page[i].member = m /\ page[i].name # ""
  IN (\A i \in DOMAIN page : Named(page[i].member))
     => \A i \in DOMAIN LabelBlocks(page) :
          \A b, c \in ToSet(LabelBlocks(page)[i]) : b.member = c.member

\* The address of the directory itself is nobody's.
GuildIsNoMember == \A i \in DOMAIN found : found[i].row.email \notin Own

\* Fewer members of the TCA than asked for, although it has more, are explained
\* by a warning.
ShortIsExplained == missed => short

=============================================================================
