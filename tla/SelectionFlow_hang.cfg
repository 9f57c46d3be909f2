SPECIFICATION FairSpec
CONSTANTS
  Users = {u1}
  Links = {l1}
  NoLink = NoLink
  Clicks = {c1}
  Workers = {w1}
  MaxSelections = 1
  MaxSpins = 1
  MaxRetries = 1
  QueueCap = 1
  MaxFaults = 0
  RedisMayFail = FALSE
  LiveLockMayLapse = FALSE
PROPERTY NothingHangs
CHECK_DEADLOCK FALSE
