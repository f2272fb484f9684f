CONSTANTS
  Kernels <- MCKernels
  SBCC <- MCSBCC
  SBRC <- MCSBRC
  SBCR <- MCSBCR
  Single2D <- MCSingle2D
  DivLength1 <- MCDivLength1
  Requests <- MCRequests
SPECIFICATION MCSpec
INVARIANTS PlanCreated ComputesTransform InPlaceSafe InsideBuffers
