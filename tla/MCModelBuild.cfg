CONSTANTS
  m1 = m1
  m2 = m2
  m3 = m3
  m4 = m4
  Configs <- MCConfigs
  Indices = {1, 2}
  NoIndex = NoIndex
  NoNode = NoNode
  MaxDepth = 3
  Models <- MCModels
SPECIFICATION FairSpec
INVARIANTS OwnedOnce AcceptsTrees TreeIsTheModel
PROPERTY Returns
CHECK_DEADLOCK FALSE
