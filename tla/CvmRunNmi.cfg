CONSTANTS
  Events = {e1, e2}
  None = None
SPECIFICATION Spec
INVARIANTS NmiKept
