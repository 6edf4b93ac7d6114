CONSTANTS
  Sizes = {1, 2, 3, 5}
  Hashes <- MCHashes
  MaxHalf = 3
  NoValue = NoValue
SPECIFICATION FairSpec
INVARIANTS
  TypeOK
  Bijective
  NoRevisit
PROPERTIES
  Terminates
