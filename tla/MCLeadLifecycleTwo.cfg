CONSTANTS
  t1 = t1
  t2 = t2
  d1 = d1
  p1 = p1
  p2 = p2
  Turns = {t1}
  Desks = {d1}
  Passes = {p1, p2}
  Messages = 3
  Texts <- NoStop
  MaxTools = 0
  max_attempts = 1
  MAX_ATTEMPTS = 1
  MaxDesk = 1
  MaxFaults = 0
  PassesRaise = FALSE
SPECIFICATION Spec
SYMMETRY SessionSymmetry
INVARIANT HardCap
CHECK_DEADLOCK FALSE
