SPECIFICATION FairCronSpec
CONSTANTS
  JobIds = {1, 2}
  Schedules = {"often", "rarely", "dead"}
  Slots <- MCSlots
  Edits = {"create", "patch", "delete"}
  ReuseIds = TRUE
  LaunchMayFail = TRUE
  MaxTime = 4
  MaxEdits = 3
  Manual = Manual
  NoJob = NoJob
  Never = Never
INVARIANTS
  SchedulesAreKept
PROPERTIES
  
  DueIsTaken
