CONSTANTS
  e1 = e1
  e2 = e2
  n1 = n1
  n2 = n2
  c1 = c1
  c2 = c2
  NoOne = NoOne
  Entries <- MCEntries
  Nodes <- MCNodes
  Callers <- MCCallers
  InitialEntries <- MCInitialEntries
  MaxEdits = 2
  MaxFaults = 1
  MaxStarts = 4
SPECIFICATION FairSpec
INVARIANTS
  ChildIsKnown
  Converged
PROPERTIES
  StepsAreClean
  ReconcileReturns
CHECK_DEADLOCK FALSE
