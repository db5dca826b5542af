SPECIFICATION Spec
CONSTANTS
  Procs = {p1, p2}
  Files = {f1, f2}
  MaxChange = 3
  MaxCrash = 2
  NoFile = NoFile
INVARIANTS
  SourcesKept
  EditsKept
  StatusTrue
  BaseInstalled
  ConflictTextKept
SYMMETRY Symmetry
