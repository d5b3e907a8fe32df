SPECIFICATION SmokeFairSpec
CONSTANTS
  test = test
  test2 = test2
  VMs = {test, test2}
  Pids = {p1, p2}
  Invocations = {smoke1, user}
  Others = {}
  None = None
  Torn = Torn
  Covers <- ExactCovers
  Outside = {}
  Background = FALSE
  Exclusive = FALSE
  Interrupts = FALSE
  InstantReuse = FALSE
  Tester = smoke1
  Tested = test
  Given <- StartAndStop
INVARIANTS
  StopsOwnLaunch
  LeavesNothing
PROPERTIES
  KillAfterTimeoutStops
  AllReturn
CHECK_DEADLOCK FALSE
