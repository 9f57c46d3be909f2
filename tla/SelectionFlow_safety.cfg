SPECIFICATION Spec
CONSTANTS
  Users = {u1, u2}
  Links = {l1}
  NoLink = NoLink
  Clicks = {c1, c2}
  Workers = {w1, w2}
  MaxSelections = 1
  MaxSpins = 1
  MaxRetries = 1
  QueueCap = 1
  MaxFaults = 0
  RedisMayFail = FALSE
  LiveLockMayLapse = TRUE
SYMMETRY Symmetric
INVARIANTS
  TypeOK
  DecisionsAreCurrent
  ReservedIsOpenWaitings
  ChargedOncePerSelection
  ChargedOnlyForPdf
PROPERTY KeepsContract
CHECK_DEADLOCK FALSE
