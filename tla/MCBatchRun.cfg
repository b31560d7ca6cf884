\* One batch task and the command that polls it: four keywords, two permits.
CONSTANTS
  N <- FourKeywords
  Concurrency <- Permits

SPECIFICATION FairSpec

INVARIANTS
  TypeOK
  PermitBound
  ProgressExact
  CompletedIsTotal
  NamedFileIsWhole
  ReportIsFinal

PROPERTIES
  TaskEnds
  CommandEnds
  ImplementsBatchTask
