SPECIFICATION MCSpec
CONSTANTS
  LocalParts = {l1}
  Roles = {o1, o2}
  MailForums = {b1, b2}
  NoMailForum = NoMailForum
  RouteCallers = {c1, c2}
  People = {o1, o2}
  CaseIds = {o1, o2}
  MailIds = {b1, b2}
  ThreadIds = {o1, o2}
  NoCase = NoCase
  NoThread = NoThread
  NoOne = NoOne
  Intakes = {c1, c2}
  Staff = {s1}
  Admins = {s1}
  Moderators = {s1}
  DraftIds = {b1, b2}
  NoDraft = NoDraft
  Pressers = {c1, c2}

  
PROPERTIES
  RoutesAgree
  DeskAgrees
SYMMETRY MCSymmetry
CHECK_DEADLOCK FALSE
