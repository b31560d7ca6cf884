\* The variables of the top-level keys against the settings in effect.
CONSTANTS
  Queries <- TwoQueries
  Locals <- ThreeLocals
  Files <- SomeFiles
  Environments <- SomeEnvironments
  MaxSpread <- Spread

SPECIFICATION Spec

INVARIANT
  EnvironmentWins
