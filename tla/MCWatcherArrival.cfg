SPECIFICATION Spec
CONSTANTS
  R = R
  O = O
  D = D
  E = E
  S = S
  F = F
  G = G
  K = K
  L = L
  A = A
  B = B
  C = C
  I = I
  root = root
  None = None
  Handle = {R, O, D, E, G, K}
  Dirs = {R, O, D, E}
  Symlinks = {}
  Unopenable = {}
  Fifos = {}
  Name = {A, B, C, I}
  TopDirs = {R, O}
  InitTree <- ArrivalTree
  Syscalls <- ArrivalSyscalls
  OneThread = {}
  MaxOps = 3
  Root = R
  RootName = root
  Suffix = {}
  SuffixesOf <- MCSuffixesOf
  InitDb <- EmptyIndex
  Ignores = {I}
  Foreign = {}
  DirOpenInfo = {"DFID"}
  BufEvents = 1
  DbErrors = FALSE
  MaxCrashes = 0
INVARIANTS
  Converged
  DirHandlesUnique
  StackHasParent
PROPERTIES
  NamesMatchOpens
  KnownReported
