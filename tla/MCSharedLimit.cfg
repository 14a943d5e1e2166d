SPECIFICATION LimitsSpec
CONSTANTS
  Replicas = {api1, api2}
  LimitKeys = {k1}
  LimitCalls = {c1, c2}
  Limit = 1
  Window = 2
  MaxKeys = 1
  MaxTime = 2
  MaxAsked = 5
  Shared = Shared
INVARIANT PostgresLimits
CHECK_DEADLOCK FALSE
