SPECIFICATION Spec
CONSTANTS
  Keys = {"a", "b"}
  Typed = "typed"
  NoKey = "none"
  ClassicStart = 2
  ClassicEnd = 8
  Limit = 12
  Extended <- LongRing
  Tools = {"console"}
  CutsInt9 = FALSE
  MaxKeys = 4
  MaxTyped <- TypedUnderAny
INVARIANT
  SentKeysArrive
CHECK_DEADLOCK FALSE
