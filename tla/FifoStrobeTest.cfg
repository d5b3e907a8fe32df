SPECIFICATION Spec
CONSTANTS
  Letters = {"x"}
  Absent = Absent
  Foreign = Foreign
  RowsPerPage = 2
  MaxPage = 5
  MaxOpens = 2
  StatusRoom = 2
  Eager = TRUE
  Setups <- LongOnly
INVARIANT
  FirstStatusIsAck
CHECK_DEADLOCK FALSE
