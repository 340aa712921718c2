CONSTANTS
  User = {1, 2}
  MaxJobs = 5
  Patient = TRUE
  Tidy = TRUE
SPECIFICATION FairSpec
INVARIANTS TypeOK FlagIsFile
PROPERTIES FifoRight PromptBack
CHECK_DEADLOCK FALSE
