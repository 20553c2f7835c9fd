SPECIFICATION Spec
CONSTANTS
  Catalog <- MCCatalog
  Default <- MCDefault
  BaseProvider = "openai"
  OtherProviders = {"other"}
  Kinds = {"flow", "custom", "pipeline"}
  Steps = 2
  MaxRetries = 2
  MaxLlmAttempts = 5
  CodeJudge <- MCJudge
  JudgeModels = {None, "g1"}
  Requests = {None, "g1"}
  None = None
INVARIANTS
  RetriesAreSound
  
PROPERTIES
  ChainIsComplete
CHECK_DEADLOCK FALSE
