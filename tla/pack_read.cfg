SPECIFICATION Spec
CONSTANTS
  Procs = {p1, p2}
  N = 2
  MaxRev = 3
  MaxSet = 0
  MaxCrash = 1
  Requests = {"commit", "rep", "cancel"}
  NoFile = NoFile
  NoProc = NoProc
  Error = Error
  Garbage = Garbage
SYMMETRY Symmetry
INVARIANTS
  ReadsRight
  NothingLost
PROPERTIES
  PackedShardsFinal
