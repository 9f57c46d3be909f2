SPECIFICATION Spec
CONSTANTS
  Emails = {e1}
  Requests = {r1, r2}
  Nobody = Nobody
  Packages = {p1}
  SpinsCount <- MCSpinsCount
  AccessLife = 1
  RefreshLife = 2
  ConfirmLife = 1
  MaxTime = 2
  MaxPurchases = 1
  MaxOutages = 1
  Links <- MCLinks
  Cards <- MCCards
  Hosts = {"goldapple.ru"}
  FileLines <- MCFileLines
  SiteTables <- MCSiteTables
  MaxRefreshes = 2
  MaxParses = 2
SYMMETRY Symmetric
INVARIANTS
  AccountsTypeOK
  RevokedStaysOut
  BannedStaysOut
  OnlyConfirmedServed
  SpinsAreBought
  PageTypeOK
  ThrownStayOut
  PoolIsOfItsList
  OneVariant
  CompositionKept
  DoneIsComplete
PROPERTIES
  RoundsShrinkPool
  StartsWithProxies
  KeepsEarlierData
CHECK_DEADLOCK FALSE
