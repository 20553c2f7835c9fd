SPECIFICATION FairCronSpec
CONSTANTS
  JobIds = {1, 2}
  Schedules = {"often", "dead"}
  Slots <- MCSlots
  Edits = {"create"}
  ReuseIds = FALSE
  LaunchMayFail = FALSE
  MaxTime = 2
  MaxEdits = 2
  Manual = Manual
  NoJob = NoJob
  Never = Never
PROPERTIES
  DueIsLaunched
