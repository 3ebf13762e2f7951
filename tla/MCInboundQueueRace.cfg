CONSTANTS
  m1 = m1
  m2 = m2
  w1 = w1
  w2 = w2
  Claims = {m1, m2}
  Undecodable = {}
  Misconfigured = {}
  Workers = {w1, w2}
  Tokenless = {}
  MAX_ATTEMPTS = 2
  MAX_STREAM_LENGTH = 20
  DEFAULT_BATCH_SIZE = 2
  MIN_IDLE = 2
  RECLAIM_EVERY_PASSES = 2
  TurnMax = 1
  CallMax = 0
  MaxFaults = 0
SPECIFICATION Spec
SYMMETRY WorkerSymmetry
INVARIANT OneWorkerPerMessage
