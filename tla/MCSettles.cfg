SPECIFICATION MCSpec
CONSTANTS
  Accounts = {a1}
  ChatAdmins = {a1}
  Channels = {"lounge"}
  Lounge = "lounge"
  Messages = {m1}
  Platforms = {"discord"}
  Events = {e1}
  Origin <- MCOrigin
  Website = "website"
  None = None
  Workers = {w1}
  MaxAttempts = 2
  Overlap = FALSE
  MaxTexts = 3
  MaxBreaks = 1
  Users = {u1}
  Tickets = {t1}
  Replies = {"email"}
  Via <- MCVia
  Files = {f1}
  Nobody = Nobody
  SupportWorkers = {v1}
  DiscordAttempts = 2
  ClaimReadsNull = TRUE
  LostCommits = FALSE
  SlowPass = FALSE
  MaxSaid = 2
  MaxSets = 1
  MaxFaults = 1
  Jobs = {j1}
  Clients = {c1}
  JobWorkers = {w1}
  NamedByHash = {}
  MaxRequeues = 0
  Years = {y1}
  Schools = {s1}
  Agents = {a1}
  Found = {b1}
  Uploads = {b2}
  MaxClaims = 2
  Slow = FALSE
  ReadBack = {TRUE, FALSE}
  quick = quick
  slow = slow
  Subscribers = {quick, slow}
  Readers = {quick}
  Topics <- MCTopics
  TopicOf <- MCTopicOf
  Room = 1
  MaxDrops = 1
INVARIANT StreamsHold
PROPERTIES
  ExtractionsSettle
  
CHECK_DEADLOCK FALSE
