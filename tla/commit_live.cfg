SPECIFICATION FairSpec
CONSTANTS
  Procs = {p1, p2}
  Paths = {x1, x2}
  MaxTxn = 2
  MaxRev = 2
  MaxCrash = 1
  Recommit = FALSE
  Requests = {"write"}
  Absent = Absent
  NoFile = NoFile
  NoTrailer = NoTrailer
  NoProc = NoProc
INVARIANTS
  NoLostUpdate
  RevpropsMatch
PROPERTIES
  CommitTerminates
