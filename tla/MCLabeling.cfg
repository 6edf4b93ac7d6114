CONSTANTS
  a = a
  b = b
  c = c
  d = d
  e = e
  f = f
  click = click
  view = view
  Nodes <- MCNodes
  Root = a
  NoNode = NoNode
  Fingerprints <- MCFingerprints
  Default = 1
  Fields <- MCFields
  Failed = Failed
  Collapsible = {0, 1}
  MaxClones = 3
  One = 2
  Seeds = 4
  NotSet = NotSet
  Events = {click}
  NoEvent = NoEvent
  Trees <- MCTrees
  RanksGiven <- MCRanksGiven
  MaxHeight = 3
SPECIFICATION LabelingSpec
INVARIANTS
  LabelerTypeOK
  OutputIsMeaning
