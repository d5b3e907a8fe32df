SPECIFICATION FairSpec
CONSTANTS
  Keys = {"a", "b"}
  Typed = "typed"
  NoKey = "none"
  ClassicStart = 2
  ClassicEnd = 8
  Limit = 12
  Extended <- LongRing
  Tools = {"type", "console"}
  CutsInt9 = FALSE
  MaxKeys = 4
  MaxTyped <- TypedUnderType
INVARIANTS
  TypeOK
  WritesInRing
  SentKeysArrive
PROPERTIES
  DeliversInOrder
  TypeEnds
  ConsoleDelivers
CHECK_DEADLOCK FALSE
