SPECIFICATION Spec
CONSTANTS
  N = 5
  Upto = 4
  MaxElts = 3
  Forks = 1
  Lines <- SortedLines
  Inputs <- Further
  Short <- ShortLists
INVARIANTS
  ParseExact
  MergeExact
  SplitExact
  ResultsShortest
  ForkPlain
