CONSTANTS
  n1 = n1
  n2 = n2
  n3 = n3
  a1 = a1
  a2 = a2
  a3 = a3
  a4 = a4
  None = None
  Nodes <- MCNodes
  Addrs <- MCAddrs
  Tables <- MCTables
  EmptyTables <- MCEmptyTables
  Needs <- MCNeeds
SYMMETRY Symmetry
SPECIFICATION Spec
INVARIANTS TablesAvailable TablesAsAsked NothingLeaks
