SPECIFICATION PagesSpec
CONSTANTS
  MaxLog = 4
  MaxRuns = 2
  NoRun = NoRun
  NoStatus = NoStatus
  Kinds = {"flow", "pipeline"}
  NFlow = 5
  NPipeline = 4
  MaxRetries = 1
  MaxLost = 1
  Users = {"root", "ann"}
  Admin = "root"
  Types = {"profit", "other"}
  Reported = {"profit"}
  Outcomes <- MCOutcomes
  Queries <- MCQueries
  MaxJobs = 1
  MaxRows = 3
  MaxMoves = 1
INVARIANTS
  ReportIsOfRun
CHECK_DEADLOCK FALSE
