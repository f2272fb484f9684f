SPECIFICATION Spec
CONSTANTS
  None = None
  Unborn = Unborn
  Threads = {t1, t2, t3}
  Main = t1
  Kinds = {trace}
  Files = {f1, err}
  Stderr = err
  Trace = trace
  MaxSends = 1
  MaxSessions = 2
  MaxErrors = 1
INVARIANTS
  FreedIsUnused
PROPERTIES
  CleanupReturnsNoErrors
  ImplementsLog
  EveryFlushReturns
