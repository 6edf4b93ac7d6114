CONSTANTS
  a = a
  b = b
  c = c
  d = d
  e = e
  first = first
  second = second
  third = third
  Nodes <- MCNodes
  Root = a
  NoNode = NoNode
  Fingerprints <- MCFingerprints
  Default = 2
  Fields <- MCFields
  Failed = Failed
  Collapsible = {0, 1, 2}
  MaxClones = 2
  Events = {first, second, third}
  NoEvent = NoEvent
  Trees <- MCTrees
  InputOf <- MCInputOf
SPECIFICATION Spec
INVARIANTS
  ZeroCollisions
