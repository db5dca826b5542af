SPECIFICATION Spec
CONSTANTS
  Procs = {p1, p2}
  Ops = {"init", "sync", "copy"}
  MaxRev = 2
  EmptyRevs = {2}
  Names = {"log", "author"}
  InCommit = {"log"}
  Lists <- MCLists
  First <- MCFirst
  Ranges <- MCRanges
  Retries = 2
  Atomic = TRUE
  Careful = TRUE
  Nobody = Nobody
  Dead = Dead
  MaxSet = 1
  MaxCrash = 1
  MaxMeddle = 1
INVARIANTS
  Mirrored
  NeverStuck
  PropsWhole
PROPERTIES
  MeddlingNoticed
SYMMETRY Symmetry
