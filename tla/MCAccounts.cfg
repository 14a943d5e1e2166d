SPECIFICATION MCSpec
CONSTANTS
  AccountIds = {root, ann, bob}
  Root = root
  Member = ann
  Addresses = {m1}
  Nobody = Nobody
  LinkIds = {0, 1}
  SessionIds = {0, 1}
  AuthCallers = {c1, c2}
  MaxPass = 2
  MFACallers = {d1, d2}
  MaxSecrets = 2
  Applications = {p1}
  Applicant <- MCApplicant
  Uploads = {f1}
  Requests = {r1, r2}
  Requester <- MCRequester
  Method <- MCMethod
  Proofs = {g1}
  MaxTries = 2
INVARIANTS
  ApplicationsHold
PROPERTIES
  AccessHolds
  SecondFactorHolds
  
SYMMETRY Symmetry
CHECK_DEADLOCK FALSE
