CONSTANTS
  r1 = r1
  r2 = r2
  r3 = r3
  Names <- MCNames
  Releases <- MCReleases
  Ids <- MCIds
  EmptyId <- MCEmptyId
  Hash <- MCHash
  HashScale = 4
  TicksPerDay = 1
  NoId = NoId
  NoEvent = NoEvent
  NoProfile = NoProfile
  NoFreeze = NoFreeze
  NoRelease = NoRelease
  InvalidArgument = InvalidArgument
  RolloutLists <- MCRolloutLists
  LastDay = 5
SPECIFICATION Spec
INVARIANTS TypeOK WalkFindsActive GivenIsCurrent
PROPERTY AdoptionIsMonotone
CHECK_DEADLOCK FALSE
