SPECIFICATION Spec
CONSTANTS
  Procs = {p1, p2, p3}
  Cached = {p1, p2}
  N = 3
  Reads = {3}
  Changes <- MCChanges
  PackSize = 10
  MaxSet = 2
  MaxGen = 5
  MaxCrash = 1
  MaxCalls = 2
  NoProc = NoProc
  NoFile = NoFile
  Error = Error
INVARIANTS
  FreshReads
  CacheCurrent
  ListsKept
  PackSizeKept
PROPERTIES
  NoLostChange
SYMMETRY Symmetry
