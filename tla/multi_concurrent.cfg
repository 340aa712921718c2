CONSTANTS
  Session = {a, b, c}
  MaxUsers = 2
  MaxOnline = 2
  n1 = n1
  Names = {n1}
  NoName = NoName
  Inputs <- TalkInputs
  None = None
  MaxLines = 2
  Serial = FALSE
  Eof = TRUE
SPECIFICATION Spec
PROPERTY Implements
SYMMETRY Sym
CHECK_DEADLOCK FALSE
