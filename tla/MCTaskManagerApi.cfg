\* Every call of the API, Remove and DeleteBatchTask included, on one name.
CONSTANTS
  Procs <- OneProc
  Callers <- TwoCallers
  Home <- OneHome
  Names <- OneName
  MaxRuns <- TwoRuns
  Removals = TRUE
  Deletions = TRUE

SPECIFICATION FairSpec

INVARIANTS
  EntriesAreLive
  RowsEndWithTheirTask

PROPERTY
  PollingEnds
