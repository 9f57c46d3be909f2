SPECIFICATION Spec
CONSTANTS
  Users = {u1}
  Links = {l1}
  NoLink = NoLink
  Clicks = {c1}
  Workers = {w1}
  MaxSelections = 1
  MaxSpins = 1
  MaxRetries = 3
  QueueCap = 1
  MaxFaults = 0
  RedisMayFail = FALSE
  LiveLockMayLapse = FALSE
INVARIANT DoneIsNotFree
CHECK_DEADLOCK FALSE
