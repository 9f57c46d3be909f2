SPECIFICATION ParseSpec
CONSTANTS
  Users = {u1}
  Links = {l1}
  NoLink = NoLink
  Clicks = {c1}
  Workers = {w1}
  ParseWorkers = {p1}
  MaxSelections = 2
  MaxSpins = 1
  MaxRetries = 0
  QueueCap = 1
  MaxFaults = 0
  RedisMayFail = FALSE
  LiveLockMayLapse = FALSE
PROPERTY FailedWithItsProduct
CHECK_DEADLOCK FALSE
