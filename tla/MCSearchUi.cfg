SPECIFICATION Spec
CONSTANTS
  A = A
  B = B
  U = U
  Blank = Blank
  NoLine = NoLine
  Text = {A, B, U, Blank}
  RowsOf <- MCRowsOf
  Broken = {4}
  Unprintable = {5}
  BadCount = {4}
  EmptyLine <- MCEmptyLine
  MaxQueue = 2
  default_count = 1
  MaxTyped = 3
  MaxCount = 4
INVARIANTS
  UiTypeOK
  OwnResults
  SettledShowsAnswer
PROPERTIES
  ImplementsService
  Settles
  GoneWithUi
