SPECIFICATION ShellSpec
CONSTANTS
  MaxBoots = 4
INVARIANTS
  BackendIsOwned
  ReadyIsShown
CHECK_DEADLOCK FALSE
