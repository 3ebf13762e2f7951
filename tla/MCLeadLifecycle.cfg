CONSTANTS
  t1 = t1
  t2 = t2
  d1 = d1
  p1 = p1
  p2 = p2
  Turns = {t1, t2}
  Desks = {d1}
  Passes = {p1}
  Messages = 2
  Texts <- EitherText
  MaxTools = 1
  max_attempts = 1
  MAX_ATTEMPTS = 1
  MaxDesk = 1
  MaxFaults = 1
  PassesRaise = TRUE
SPECIFICATION Spec
SYMMETRY SessionSymmetry
INVARIANT TypeOK
INVARIANT StopRecorded
INVARIANT CapOrUndone
INVARIANT LateBounded
PROPERTY OptOutIsFinal
CHECK_DEADLOCK FALSE
