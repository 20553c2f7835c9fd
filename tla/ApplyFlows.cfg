SPECIFICATION FlowsSpec
CONSTANTS
  Runs = {r1, r2}
  Jobs = {"a", "b", "c", "d"}
  Board <- MCBoard
  Inputs <- MCInputs
  MaxCrashes = 1
  MaxFaults = 1
  NoJob = NoJob
  Tools = {"tasker_apply", "tw104_apply", "linkedin_apply"}
  Listed <- MCListed
  PageSize = 2
  MaxPages = 3
  MaxLimit = 2
  MaxOutages = 2
  MaxChanges = 2
  Means <- MCMeans
  Profile <- MCProfile
  Questions <- MCQuestions
  Place <- MCPlace
  Payloads <- MCPayloads
  MinCharge = 100
  Openings <- MCOpenings
  Form <- MCForm
  Areas = {"taipei", "hsinchu"}
  Unmentioned = {"whyUs"}
  Replies = {"Yes", "other"}
  Forms <- MCForms
  Profiles <- MCProfiles
  MaxSteps = 6
  MaxErrors = 3
INVARIANTS
  LedgerIsKept
  ScanIsFair
  SentOnce
  ListsAreHonest
  
PROPERTIES
  ConfirmedNotResent
  NoSendAfterBlock
CHECK_DEADLOCK FALSE
