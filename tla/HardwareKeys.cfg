SPECIFICATION FairSpec
CONSTANTS
  Keys <- SomeKeys
  E0 = "60h"
  None = "none"
  MaxKeys = 3
  MaxScreens = 2
INVARIANTS
  TypeOK
  KeysPressedInTurn
PROPERTIES
  KeysComeUp
  ChangeEndsWait
CHECK_DEADLOCK FALSE
