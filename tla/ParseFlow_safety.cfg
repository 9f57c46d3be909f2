SPECIFICATION ParseSpec
CONSTANTS
  Users = {u1, u2}
  Links = {l1}
  NoLink = NoLink
  Clicks = {c1}
  Workers = {w1}
  ParseWorkers = {p1, p2}
  MaxSelections = 1
  MaxSpins = 1
  MaxRetries = 0
  QueueCap = 1
  MaxFaults = 0
  RedisMayFail = FALSE
  LiveLockMayLapse = FALSE
INVARIANTS
  ParseTypeOK
  GeneratedFromParsed
  ChargedOnlyForPdf
PROPERTIES
  ParsedForGood
  KeepsContract
CHECK_DEADLOCK FALSE
