SPECIFICATION Spec
CONSTANTS
  R = R
  O = O
  D = D
  E = E
  S = S
  F = F
  G = G
  K = K
  L = L
  A = A
  B = B
  C = C
  I = I
  root = root
  None = None
  Handle = {R, O, D, E, F, G, K, L}
  Dirs = {R, O, D, E}
  Symlinks = {L}
  Unopenable = {K}
  Fifos = {F}
  Name = {A, B, C, I}
  TopDirs = {R, O}
  InitTree <- FaultTree
  Syscalls <- FaultSyscalls
  OneThread = {}
  MaxOps = 3
  Root = R
  RootName = root
  Suffix = {A, B, C, I}
  SuffixesOf <- OwnSuffix
  InitDb <- EmptyIndex
  Ignores = {I}
  Foreign = {}
  DirOpenInfo = {"DFID", "DFID_NAME"}
  BufEvents = 1
  DbErrors = TRUE
  MaxCrashes = 1
INVARIANTS
  WatcherTypeOK
  NothingInvented
  IndexIntact
  HintIsComing
