SPECIFICATION FairSpec
CONSTANTS
  Tasks = {t1, t2}
  RunIds = {1, 2}
  Deleters = {d1, d2}
  Budgets <- AnyBudget
  MaxFaults = 1
  NoTask = NoTask
INVARIANTS
  TableIsSound
  RowsKeepOwners
  CancelWorks
PROPERTIES
  TerminalIsFinal
  ActiveNeverDeleted
  RerunOnlyAfterRejection
  ImplementsBoard
  RunSettles
