CONSTANTS
  Client = {a, b, c}
  Root = Root
  None = None
  MaxLines = 1
  Eof = TRUE
SPECIFICATION FairSpec
INVARIANTS TypeOK OneClient RootServes
PROPERTY Served
CHECK_DEADLOCK FALSE
