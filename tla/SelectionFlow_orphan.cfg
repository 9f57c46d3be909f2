SPECIFICATION Spec
CONSTANTS
  Users = {u1, u2}
  Links = {l1}
  NoLink = NoLink
  Clicks = {c1, c2}
  Workers = {w1}
  MaxSelections = 1
  MaxSpins = 2
  MaxRetries = 3
  QueueCap = 1
  MaxFaults = 0
  RedisMayFail = TRUE
  LiveLockMayLapse = FALSE
INVARIANT ReservedIsOpenWaitings
CHECK_DEADLOCK FALSE
