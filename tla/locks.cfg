SPECIFICATION Spec
CONSTANTS
  Procs = {p1, p2}
  u1 = u1
  u2 = u2
  Users = {u1, u2}
  NoUser = NoUser
  Paths <- MCPaths
  Files <- MCFiles
  ChangeSets <- MCChangeSets
  Asked <- MCAsked
  MaxLock = 2
  MaxRev = 1
  MaxCrash = 2
  NoProc = NoProc
INVARIANTS
  Listed
  ReadsComplete
PROPERTIES
  CommitsRespectLocks
  LocksKept
SYMMETRY Symmetry
