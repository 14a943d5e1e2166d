SPECIFICATION MCSpec
CONSTANTS
  Accounts = {a1}
  ChatAdmins = {a1}
  Channels = {"lounge"}
  Lounge = "lounge"
  Messages = {m1, m2}
  Platforms = {"discord"}
  Events = {e1}
  Origin <- MCOrigin
  Website = "website"
  None = None
  Workers = {w1}
  MaxAttempts = 1
  Overlap = FALSE
  MaxTexts = 3
  MaxBreaks = 1
  Users = {u1}
  Tickets = {t1}
  Replies = {"discord", "email"}
  Via <- MCVia
  Files = {f1}
  Nobody = Nobody
  SupportWorkers = {v1}
  DiscordAttempts = 1
  ClaimReadsNull = TRUE
  LostCommits = FALSE
  SlowPass = FALSE
  MaxSaid = 3
  MaxSets = 2
  MaxFaults = 1
  api1 = api1
  api2 = api2
  rare = rare
  Replicas = {api1, api2}
  LimitKeys = {k1, rare}
  LimitCalls = {l1, l2}
  Limit = 1
  Window = 2
  MaxKeys = 1
  MaxTime = 3
  MaxAsked = 3
  Shared = Shared
INVARIANTS
  ChatAgrees
PROPERTIES
  TicketsAgree
  ChatInOrder
  LimitsHold
CHECK_DEADLOCK FALSE
