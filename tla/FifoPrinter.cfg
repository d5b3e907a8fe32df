SPECIFICATION FairSpec
CONSTANTS
  Letters = {"x"}
  Absent = Absent
  Foreign = Foreign
  RowsPerPage = 2
  MaxPage = 5
  MaxOpens = 2
  StatusRoom = 2
  Eager = FALSE
  Setups <- LongAndDisturbed
INVARIANTS
  TypeOK
  PagesMatch
  ShownMatch
  AckedOnDisk
PROPERTIES
  PagesKept
  ByteAnswered
CHECK_DEADLOCK FALSE
