CONSTANTS
  c1 = c1
  c3 = c3
  c2 = c2
  Callers = {c1, c2, c3}
  max_events = 2
  window = 2
  MaxPerTick = 3
  MaxCount = 5
  MaxFaults = 2
  MaxResets = 1
SPECIFICATION Spec
INVARIANT TypeOK
INVARIANT RefusalEarned
INVARIANT BurstBound
PROPERTY Readmitted
