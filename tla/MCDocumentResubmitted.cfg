SPECIFICATION RunsSpec
CONSTANTS
  d1 = d1
  d2 = d2
  w1 = w1
  r1 = r1
  NoDocument = NoDocument
  Jobs = {d1, d2}
  Lists = {}
  Programs = {"001"}
  MaxAttempts = 2
  Workers = {w1}
  Requests = {r1}
  MaxRequests = 2
INVARIANTS
  WaitingIsAccepted
CHECK_DEADLOCK FALSE
