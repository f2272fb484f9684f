CONSTANTS
  MaxItems = 4
  MaxAnte = 2
  Stages = {0, 1, 2, 3}
SPECIFICATION Spec
INVARIANTS AntecedentsFirst EachItemOnce
PROPERTY SortTerminates
\* The sort returns and nothing comes after it.
CHECK_DEADLOCK FALSE
