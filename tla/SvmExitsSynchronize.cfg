SPECIFICATION Spec
CONSTANTS
  Vmcbs = {x1, x2}
  Nodes = {n1, n2}
  Values = {0, 1}
  Start = 4
  None = None
  Nesting = TRUE
CHECK_DEADLOCK FALSE
SYMMETRY Symmetry
CONSTRAINT Focus
INVARIANT EverythingSynchronized
