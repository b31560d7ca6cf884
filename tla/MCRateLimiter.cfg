\* The gate and the two limiters.
CONSTANTS
  Calls <- FiveCalls
  Tool <- Tools
  MaxConcurrent <- Gate
  PerMin <- Quotas
  TicksPerMinute <- TwoTicks
  MaxBacklog <- Backlog

SPECIFICATION FairSpec

INVARIANTS
  TypeOK
  ConcurrencyKept
  QuotaKept
  NobodyWaitsForNothing

PROPERTY
  CallsEnd
