SPECIFICATION Spec
CONSTANTS
  Word = 64
  IntHalf = 6
  CookieOffset = 40
  CookieSize = 14
  Configs <- Large
  Keys <- AllKeys
  NoId = NoId
CHECK_DEADLOCK TRUE
INVARIANT IdInPools
