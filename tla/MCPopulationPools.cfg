SPECIFICATION Spec
CONSTANTS
  Word = 64
  IntHalf = 6
  CookieOffset = 40
  CookieSize = 14
  Configs <- AnySize
  Keys <- AllKeys
  NoId = NoId
CHECK_DEADLOCK TRUE
INVARIANTS
  InPoolsUnlessCastFails
  ReservedKept
  EveryPersonOnce
  LibrariesAgree
  UnrankedApart
PROPERTY GrowthMovesLittle
