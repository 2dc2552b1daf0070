SPECIFICATION Spec
CONSTANTS
  Proc = {p1, p2, p3, p4}
  FailureThreshold = 2
  CoolDown = 2
  Bypass = FALSE
SYMMETRY Symmetry
INVARIANTS OneProbe
