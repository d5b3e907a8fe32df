SPECIFICATION Spec
CONSTANTS
  Preparers = {p1, p2}
  MaxVersion = 2
SYMMETRY Symmetry
INVARIANTS
  TypeOK
  SetSurvives
  ReturnsCurrent
  FailureUndone
PROPERTIES
  ForeignKept
