SPECIFICATION Spec
CONSTANTS
  N = 2
  Upto = 2
  MaxElts = 2
  Forks = 1
  Lines <- SortedLines
  Inputs <- AllLists
  Short <- ShortLists
INVARIANT ThreeWay
