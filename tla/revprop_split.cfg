SPECIFICATION Spec
CONSTANTS
  Procs = {p1, p2}
  Cached = {p1, p2}
  N = 3
  Reads = {1, 3}
  Changes <- MCChanges
  PackSize = 10
  MaxSet = 2
  MaxGen = 5
  MaxCrash = 0
  MaxCalls = 2
  NoProc = NoProc
  NoFile = NoFile
  Error = Error
INVARIANT
  ListsReadable
