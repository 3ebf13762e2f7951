CONSTANTS
  t1 = t1
  t2 = t2
  d1 = d1
  p1 = p1
  p2 = p2
  Turns = {t1}
  Desks = {d1}
  Passes = {p1}
  Messages = 2
  Texts <- StopSecond
  MaxTools = 1
  max_attempts = 1
  MAX_ATTEMPTS = 2
  MaxDesk = 1
  MaxFaults = 1
  PassesRaise = TRUE
SPECIFICATION Spec
INVARIANT StopHonoured
CHECK_DEADLOCK FALSE
