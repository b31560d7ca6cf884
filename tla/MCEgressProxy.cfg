\* The proxy that is picked against the way a request takes.
CONSTANTS
  Queries <- TwoQueries
  Locals <- ThreeLocals
  Files <- SomeFiles
  Environments <- SomeEnvironments
  MaxSpread <- Spread

SPECIFICATION Spec

INVARIANT
  ProxyIsUsed
