CONSTANTS
  m1 = m1
  m2 = m2
  m3 = m3
  m4 = m4
  Configs <- MCConfigs
  NoIndex = NoIndex
  NoNode = NoNode
  Trees <- MCTrees
  MaxDepth = 3
  MaxCallsAgain = 2
SPECIFICATION RoundTripSpec
INVARIANTS SameTree NothingLost
CHECK_DEADLOCK FALSE
