SPECIFICATION Spec
CONSTANTS
    NumProcs = 3
    MinIters = 2
    MaxPartitions = 2
    IntBits = 10
    Tests <- MCTests
    DirectLayouts <- MCDirectLayouts
    MaxTests = 3
    Failures <- MCFailures
    EarlyThrow = FALSE
INVARIANTS
    ValidatorMatchesEnumeration
    BuffersHold
    VerdictIsRight
    CacheAgrees
