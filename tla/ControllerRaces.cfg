SPECIFICATION Spec
CONSTANTS
  test = test
  test2 = test2
  VMs = {test}
  Pids = {p1, p2}
  Invocations = {c1, c2}
  Others = {editor}
  None = None
  Torn = Torn
  Covers <- ExactCovers
  Outside = {}
  Background = TRUE
  Exclusive = FALSE
  Interrupts = TRUE
  InstantReuse = FALSE
SYMMETRY Symmetry
INVARIANTS
  TypeOK
  SignalTargets
