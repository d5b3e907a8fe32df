SPECIFICATION Spec
CONSTANTS
  test = test
  test2 = test2
  VMs = {test, test2}
  Pids = {p1, p2}
  Invocations = {c1, c2}
  Others = {editor}
  None = None
  Torn = Torn
  Covers <- ExactCovers
  Outside = {}
  Background = FALSE
  Exclusive = TRUE
  Interrupts = FALSE
  InstantReuse = FALSE
SYMMETRY Symmetry
VIEW ButTmp
INVARIANTS
  NoneLost
  OnePerVm
  SignalsOwnVm
PROPERTIES
  RecordKeepsLive
