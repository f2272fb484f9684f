CONSTANTS
  IntBits = 16
  MaxRounds = 2
  Configs <- PlanConfigs
SPECIFICATION MCSpec
INVARIANTS InputIntact OutputCorrect TempsUsable ConflictsOrdered CreateSucceeds
