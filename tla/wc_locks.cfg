SPECIFICATION Spec
CONSTANTS
  Procs = {p1, p2}
  Dirs <- MCDirs
  Base <- MCBase
  Levels <- MCLevels
  MaxCrash = 1
  MaxSteal = 2
  Nobody = Nobody
INVARIANTS
  Exclusive
  NoneHigher
  LocksHeld
SYMMETRY Symmetry
