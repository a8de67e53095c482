SPECIFICATION Spec
CONSTANTS
  R = R
  D = D
  E = E
  F = F
  X = X
  root = root
  A = A
  B = B
  None = None
  Handle = {R, D, E, F, X}
  Name = {root, A, B}
  RootName = root
  Suffix = {"a", "b", "ba"}
  SuffixesOf <- MCSuffixes
  Events <- MCEvents
  InitDb <- MCInitDb
  MaxQueue = 2
  MaxId = 5
  MaxRequests = 1
INVARIANTS
  TypeOK
  RootStays
  NoOrphanRows
  OneRowPerEntry
  IndexMatchesFiles
  LoopEnds
PROPERTIES
  EventReflected
  ImplementsLog
