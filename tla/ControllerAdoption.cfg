SPECIFICATION Spec
CONSTANTS
  test = test
  test2 = test2
  VMs = {test, test2}
  Pids = {p1, p2}
  Invocations = {c1}
  Others = {editor}
  None = None
  Torn = Torn
  Covers <- PrefixCovers
  Outside = {}
  Background = TRUE
  Exclusive = TRUE
  Interrupts = FALSE
  InstantReuse = FALSE
PROPERTIES
  AdoptsOwnVm
