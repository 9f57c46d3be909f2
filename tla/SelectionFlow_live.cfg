SPECIFICATION FairSpec
CONSTANTS
  Users = {u1}
  Links = {l1}
  NoLink = NoLink
  Clicks = {c1}
  Workers = {w1}
  MaxSelections = 2
  MaxSpins = 1
  MaxRetries = 1
  QueueCap = 1
  MaxFaults = 1
  RedisMayFail = FALSE
  LiveLockMayLapse = FALSE
PROPERTIES
  KeepsContract
  OrdersAreSettled
CHECK_DEADLOCK FALSE
