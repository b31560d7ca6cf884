\* One keyword over the pages and details of its answers, for each of its callers.
CONSTANTS
  Items <- FiveItems
  WithId <- ThreeWithId
  NonObjects <- OneNonObject
  Registers <- SomeRegisters
  Concurrency <- One
  PageSize <- Two
  MaxPage <- Four
  MaxGrowth <- Five

SPECIFICATION FairSpec

INVARIANTS
  TypeOK
  KeywordIsWhole
  GrowthLosesNothing
  CallersDifferOnlyInCodes

PROPERTIES
  AnswersAreFinal
  CallEnds
