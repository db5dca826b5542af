SPECIFICATION Spec
CONSTANTS
  Procs = {p1, p2}
  Paths = {x1}
  MaxTxn = 2
  MaxRev = 2
  MaxCrash = 2
  Recommit = TRUE
  Requests = {"delete", "write", "abort", "recover"}
  Absent = Absent
  NoFile = NoFile
  NoTrailer = NoTrailer
  NoProc = NoProc
SYMMETRY Symmetry
INVARIANTS
  IInv
  RevisionsReadable
  RootsFollow
  TxnKeysUnique
PROPERTIES
  ImplementsLog
