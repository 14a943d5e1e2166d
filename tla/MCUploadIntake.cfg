SPECIFICATION Spec
CONSTANTS
  j1 = j1
  w1 = w1
  w2 = w2
  c1 = c1
  Jobs = {j1}
  Workers = {w1, w2}
  Clients = {c1}
  NamedByHash = {j1}
  MaxAttempts = 2
  MaxRequeues = 1
INVARIANTS
  TypeOK
  ReviewFollowsSuccess
  PublishedAtMostOnce
  AttemptBudget
PROPERTIES
  ReviewOpensOnce
SYMMETRY Symmetry
