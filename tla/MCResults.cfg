SPECIFICATION MCSpec
CONSTANTS
  b1 = b1
  b2 = b2
  n1 = n1
  n2 = n2
  a1 = a1
  a2 = a2
  Batches = {b1, b2}
  Numbers = {n1, n2}
  Apps = {a1, a2}
  Values = {20, 100}
  Default = 100
  None = None
  MaxPlace = 2
  FromFile = {b2}
  MaxChanges = 2
INVARIANTS
  TypeOK
  
PROPERTIES
  MatchNotTakenOver
SYMMETRY Symmetry
