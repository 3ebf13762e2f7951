CONSTANTS
  t1 = t1
  t2 = t2
  api = api
  worker = worker
  Turns = {t1, t2}
  Slots = {1}
  Processes = {api, worker}
  Api = api
  ProcessOf <- MCProcessOf
  AccountOf <- MCAccountOf
  MaxAttempts = 2
  MaxRuns = 2
  MaxFaults = 2
  None = None
SPECIFICATION Spec
INVARIANT TypeOK
INVARIANT DoubleBookingRaced
INVARIANT NothingUnseen
INVARIANT OrphansEarned
INVARIANT TokenDropped
PROPERTY ReconnectConverges
CHECK_DEADLOCK FALSE
