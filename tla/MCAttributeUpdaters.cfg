SPECIFICATION Spec
CONSTANTS
  Values = {0, 1}
  Unset = Unset
  Types <- AllTypes
  One = 10
  Tolerance = 1
  MaxRows = 3
  Hashes <- AllHashes
  Shred <- AllShreds
  Configs <- AllConfigs
  Events <- AllEvents
  Missing = Missing
INVARIANTS
  NeverInternal
  RowOfColumn
  DenseIsSparse
  LabelOfChoices
  KeepsFields
PROPERTY MovesTowardGrowth
