\* Create, Cancel and crashes in two processes; the second row would need the name twice.
CONSTANTS
  Procs <- TwoProcs
  Callers <- ThreeCallers
  Home <- Homes
  Names <- OneName
  MaxRuns <- TwoRuns
  Removals = FALSE
  Deletions = FALSE

SPECIFICATION Spec

INVARIANTS
  TypeOK
  OneRunPerName
  RowsAreOwn
  LiveRunsAreReachable
