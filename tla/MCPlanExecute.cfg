CONSTANTS
  IntBits = 16
  MaxRounds = 2
  Ranks <- MCRanks
  Plans <- MCPlans
SPECIFICATION MCFairSpec
INVARIANTS DataReadyBeforeSent NoConflict NothingRunsAfterReturn NoStuck
PROPERTIES AllReturn
