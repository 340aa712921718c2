CONSTANTS
  Session = {a, b, c}
  MaxUsers = 2
  MaxOnline = 2
  n1 = n1
  Names = {n1}
  NoName = NoName
  Inputs <- SerialInputs
  None = None
  MaxLines = 2
  Serial = TRUE
  Eof = FALSE
SPECIFICATION Spec
INVARIANTS TypeOK OneOwner HeardRight
PROPERTY Implements
SYMMETRY Sym
CHECK_DEADLOCK FALSE
