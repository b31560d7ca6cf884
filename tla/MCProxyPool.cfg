\* The cache, the checks and the refresh loop.
CONSTANTS
  Addrs <- TwoAddrs
  Size <- Two
  TTL <- Two
  Checkers <- Two
  MaxLines <- Three

SPECIFICATION FairSpec

INVARIANTS
  TypeOK

PROPERTIES
  RefreshesGoOn
  StopEnds
  SweepingIsHarmless
