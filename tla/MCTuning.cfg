SPECIFICATION Spec
CONSTANTS
  SizeT = 65536
  Problems <- MCProblems
  Tree <- MCTree
  FullToken <- MCFullToken
  Exact = {"row"}
  Configs <- MCConfigs
  Bases <- MCBases
  Times = {1, 2}
  Skipped = 3
  MaxTunes = 2
INVARIANTS
  WinnersAreBest
  PlansUseMerged
CHECK_DEADLOCK FALSE
