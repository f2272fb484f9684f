CONSTANTS
  Launches <- MCLaunches
  Primes <- MCPrimes
  BankShiftLength = 8
  LDS_BANK_SHIFT = 4
  LtwdMinBase = 2
  LtwdMaxBase = 6
  LtwdDefaultBase = 3
SPECIFICATION Spec
INVARIANT OutputCorrect
INVARIANT WritesInside
