CONSTANTS
  m1 = m1
  m2 = m2
  m3 = m3
  m4 = m4
  m5 = m5
  s1 = s1
  s2 = s2
  o1 = o1
  r1 = r1
  r2 = r2
  r3 = r3
  None = None
  Requests = {r1, r2}
  Batches = {"b1", "b2"}
  Messages = {m1, m2, m3, m4, m5}
  Senders = {s1, s2}
  Sent = {o1}
  Contents <- CrossedContents
  SenderOf <- MCSenderOf
  Unroutable = {m5}
  QueueEnabled = TRUE
  MaxFaults = 1
SPECIFICATION Spec
CHECK_DEADLOCK FALSE
SYMMETRY RequestSymmetry
INVARIANT NoneStranded
