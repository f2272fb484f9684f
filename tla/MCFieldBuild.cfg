CONSTANTS
  IntBits = 8
  Lengths <- Len22
  AllBricks <- MCAllBricks
  MaxBricks = 3
  Outside = 1
  Inverted = TRUE
  Gaps = {1, 2}
SPECIFICATION MCSpec
INVARIANTS AcceptedIffTiled ContiguousCanBeCopied
