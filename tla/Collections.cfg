SPECIFICATION CollectSpec
CONSTANTS
  Dead = Dead
  MaxPasses = 4
  MaxStale = 2
  PageRows = 1
  MaxScan = 3
  MaxLinks = 1
  MaxScanned = 2
  MaxPerSite = 2
  MaxRendered = 2
  MaxCandidates = 2
  Rank <- MCRank
  Domain <- MCDomain
  Role = {"infoA", "infoB", "web"}
  Malformed = {"oddA"}
  Junk = {"tpl"}
  Guess <- MCGuess
  SiteDomain <- MCSiteDomain
  Platform <- MCPlatform
  CoreOf <- MCCoreOf
  ListPages <- MCListPages
  DetailPages <- MCDetailPages
  MaxListPages = 2
  MaxDetails = 2
  TcaRows = 2
  TcaAnswers <- MCTcaAnswers
  Own = {"guild"}
  Keywords = {{}, {"n1"}}
  Payloads <- MCPayloads
  Feeds <- MCFeeds
  Place <- MCPlace
  Registries <- MCRegistries
  Answers <- MCAnswers
  Web <- MCWeb
  Static <- MCStatic
  Live <- MCLive
  Profiles <- MCProfiles
  MaxQualify = 2
  MaxEnrich = 1
  Markets <- MCMarkets
  ShopOf <- MCShopOf
  Limits = {1, 2, 3}
  PageSize = 2
  MinPages = 3
  Spread = 20
  ExtraPages = 4
  MaxScrolls = 12
  MaxFails = 3
  Requests <- MCRequests
  TopN = 1
  HitUnits = 3
  HitMargin = 10
  ReturnRate = 20
  ReturnCount = 2
  People = {p1, p2}
  MaxRetries = 2
INVARIANTS
  BusinessesAreOne
  
  LeadsAreSound
CHECK_DEADLOCK FALSE
