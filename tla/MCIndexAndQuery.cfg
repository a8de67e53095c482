SPECIFICATION SystemSpec
CONSTANTS
  R = R
  D = D
  E = E
  F = F
  G = G
  None = None
  Handle = {R, D, E, F, G}
  Dirs = {R, D, E}
  TopDirs = {R}
  Root = R
  RootName <- MCRootName
  Name <- MCName
  Suffix <- MCSuffix
  SuffixesOf <- MCSuffixesOf
  CommitEvery = 3
  MaxRuns = 2
  InitTree <- MCTree
  Syscalls <- MCSyscalls
  MaxOps = 2
  Segment <- MCSegment
  EmptySegment <- MCRootName
  Length <- MCLength
  SuffixRange <- MCSuffixRange
  Like <- MCLike
  Containing <- MCContaining
  Plain <- MCPlain
  Queries <- MCQueries
INVARIANTS
  IndexerTypeOK
  IndexSound
  StableIndexed
  InventedBelowRenamed
  JoinsCover
  FindsAsked
  PathsLead
