SPECIFICATION MCSpec
CONSTANTS
  i1 = i1
  d1 = d1
  w1 = w1
  w2 = w2
  Inquiries = {i1}
  Direct = {d1}
  Workers = {w1, w2}
  None = None
  MaxAttempts = 2
  MaxFaults = 1
  MaxAsks = 1
INVARIANTS
  TypeOK
  EnqueuedIsTold
  SentIsAccepted
  AttemptsBounded
PROPERTIES
  AbandonedNotRetried
  AllSettle
