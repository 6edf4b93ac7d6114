CONSTANTS
  t1 = t1
  t2 = t2
  t3 = t3
  r1 = r1
  r2 = r2
  i0 = i0
  i1 = i1
  i2 = i2
  Names <- MCNames
  Releases = {r1, r2}
  Ids = {i0, i1, i2}
  EmptyId = i0
  Hash <- MCHash
  HashScale = 4
  TicksPerDay = 4
  TicksPerSecond = 2
  Lines <- MCLines
  NoEnd = NoEnd
  NoId = NoId
  NoEvent = NoEvent
  NoProfile = NoProfile
  NoFreeze = NoFreeze
  NoRelease = NoRelease
  InvalidArgument = InvalidArgument
  Threads <- MCThreads
  NoThread = NoThread
  Inputs <- MCInputs
  NoInput = NoInput
  NoReply = NoReply
  RolloutLists <- MCRolloutLists
  CacheSize = 2
SPECIFICATION Spec
SYMMETRY Symmetry
INVARIANTS TypeOK ComputedOnce CacheCoherent LruExact
PROPERTY Stateless
