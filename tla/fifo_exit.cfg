CONSTANTS
  User = {1, 2}
  MaxJobs = 4
  Patient = TRUE
  Tidy = FALSE
SPECIFICATION Spec
PROPERTY FifoRight
CHECK_DEADLOCK FALSE
