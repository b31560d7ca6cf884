\* The settings and the ways out.
CONSTANTS
  Queries <- TwoQueries
  Locals <- ThreeLocals
  Files <- SomeFiles
  Environments <- SomeEnvironments
  MaxSpread <- Spread

SPECIFICATION Spec

INVARIANTS
  TypeOK
  RotationEven
  BoundWithoutProxy
