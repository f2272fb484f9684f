CONSTANTS
  P = 20161
  Pow <- MCPow
  Nodes <- MCNodes
  TrtrtFactor <- MCTrtrtFactor
  LargestLength = 12
  NonPow2Lengths = {9, 12}
  CCFactor <- MCCCFactor
  SBCCLengths = {4}
  SBCRLengths = {2}
  TransformsPerBlock <- MCTransformsPerBlock
  MinRows = 8
  Single2D <- MCSingle2D
  FuseLimit = 7
  TryFuseLimit = 5
  SBCRArch = TRUE
  LaunchBoundsR2C = 4
  TileXR2C = 2
  TileXC2R = 4
  TileY = 2
  TileWidth = 4
  TileRows = 2
  DiagonalUnit = 4
  TwdBase = 3
  LaunchBoundsBlue = 4
  ChirpBase = 2
SPECIFICATION Spec
INVARIANT OutputIsTransform
INVARIANT KernelsRaceFree
INVARIANT InsideBuffers
