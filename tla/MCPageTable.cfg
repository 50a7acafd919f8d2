SPECIFICATION Spec
CONSTANTS
  p1 = p1
  p2 = p2
  Procs <- MCProcs
  FANOUT = 2
  LEVELS = 3
  SetPages <- MCSetPages
  Entries <- MCEntries
  Pattern = 3
CHECK_DEADLOCK FALSE
SYMMETRY Symmetry
INVARIANTS
  TablesOwnedOnce
  BehavesAsMap
