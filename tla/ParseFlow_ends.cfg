SPECIFICATION FairParseSpec
CONSTANTS
  Users = {u1}
  Links = {l1}
  NoLink = NoLink
  Clicks = {c1}
  Workers = {}
  ParseWorkers = {p1}
  MaxSelections = 2
  MaxSpins = 1
  MaxRetries = 0
  QueueCap = 1
  MaxFaults = 1
  RedisMayFail = FALSE
  LiveLockMayLapse = FALSE
PROPERTY ParsingEnds
CHECK_DEADLOCK FALSE
