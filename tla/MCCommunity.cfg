SPECIFICATION MCSpec
CONSTANTS
  p1 = p1
  p2 = p2
  q1 = q1
  One = One
  bob = bob
  Programs = {p1, p2}
  YearOf <- MCYearOf
  SeriesOf <- MCSeriesOf
  Years <- MCYears
  Data = {d1, d2}
  NoData = NoData
  Vacant = {d2}
  Queries <- MCQueries
  Editors = {e1}
  Readers = {r1}
  Members = {ann, bob}
  Tickets = {t1}
  NoOne = NoOne
  NoProgramme = NoProgramme
  ThreadIds = {h1}
  PostIds = {x1, x2}
  NoSpace = NoSpace
  NoThread = NoThread
  Chairs = {bob}
  Reports = {k1}
  Versions = {1, 2, 3}
  Holders = {cat}
  Documents = {f1}
  Pictures = {g1, g2}
  NoPicture = NoPicture
  NoHolder = NoHolder
  Uploaders = {u1, u2}
  Participants = {z1}
  Questions = {q1}
  NoQuestion = NoQuestion
  AskedOf <- MCAskedOf
  Responders = {w1, w2}
  ClaimLimit = 1
  MaxAttempts = 3
  tab1 = tab1
  tab2 = tab2
  People = {ann, bob}
  Browsers = {tab1, tab2}
  PersonOf <- MCPersonOf
  Events = {v1, v2}
  NoEventId = NoEventId
  MaxDates = 2
  MaxGrants = 1
INVARIANTS
  CatalogueHolds
  SpacesHold
  FilesHold
  

  
CHECK_DEADLOCK FALSE
