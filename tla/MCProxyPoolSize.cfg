\* The number of addresses against the maximum the README gives.
CONSTANTS
  Addrs <- TwoAddrs
  Size <- One
  TTL <- Two
  Checkers <- Two
  MaxLines <- Two

SPECIFICATION Spec

INVARIANT
  PoolSizeKept
