\* The credentials and the age of the cached token, and how long a dropped one is used.
CONSTANTS
  Queries <- TwoQueries
  Lifetime <- Two
  MaxDelay <- One

SPECIFICATION FairSpec

INVARIANTS
  TypeOK
  CredentialsMatch
  CachedTokenIsYoung

PROPERTY
  DroppedTokenGoes
