SPECIFICATION MCSpec
CONSTANTS
  y1 = y1
  s1 = s1
  a1 = a1
  a2 = a2
  f1 = f1
  f2 = f2
  u1 = u1
  d1 = d1
  l1 = l1
  w1 = w1
  r1 = r1
  r2 = r2
  Years = {y1}
  Schools = {s1}
  Agents = {a1, a2}
  Found = {f1, f2}
  Uploads = {u1}
  None = None
  MaxClaims = 2
  Slow = TRUE
  ReadBack = {TRUE, FALSE}
  NoDocument = NoDocument
  Jobs = {d1, l1}
  Lists = {l1}
  Programs = {"001", "002"}
  MaxAttempts = 2
  Workers = {w1}
  Requests = {r1, r2}
  MaxRequests = 2
INVARIANTS
  TypeOK
  WaitsOnlyWhileSearching
  UploadedFileKept
  RunsHold
PROPERTIES
  CompletedIsFinal
  SettledBrochureStands
  DecisionsStand
SYMMETRY Symmetry
CHECK_DEADLOCK FALSE
