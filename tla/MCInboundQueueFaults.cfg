CONSTANTS
  m1 = m1
  m2 = m2
  w1 = w1
  w2 = w2
  Claims = {m1, m2}
  Undecodable = {m2}
  Misconfigured = {}
  Workers = {w1, w2}
  Tokenless = {}
  MAX_ATTEMPTS = 2
  MAX_STREAM_LENGTH = 2
  DEFAULT_BATCH_SIZE = 2
  MIN_IDLE = 1
  RECLAIM_EVERY_PASSES = 1
  TurnMax = 1
  CallMax = 0
  MaxFaults = 2
SPECIFICATION Spec
SYMMETRY WorkerSymmetry
INVARIANT TypeOK
INVARIANT NothingLost
INVARIANT DeadLetterEarned
INVARIANT ReleaseJustified
PROPERTY InboxSafety
