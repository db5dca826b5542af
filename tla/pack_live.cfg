SPECIFICATION FairSpec
CONSTANTS
  Procs = {p1, p2}
  N = 2
  MaxRev = 3
  MaxSet = 1
  MaxCrash = 0
  Requests = {"commit", "rep", "txnrep", "props", "set"}
  NoFile = NoFile
  NoProc = NoProc
  Error = Error
  Garbage = Garbage
INVARIANTS
  PropsFresh
PROPERTIES
  PackEnds
  ReadsEnd
