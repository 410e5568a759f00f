SPECIFICATION Spec
CONSTANTS
  meta = meta
  tiktok = tiktok
  google = google
  c1 = c1
  c2 = c2
  c3 = c3
  c4 = c4
  Account = {meta, tiktok, google}
  Campaign = {c1, c2, c3, c4}
  AccountOf <- MCAccountOf
  Currency <- MCCurrency
  PlatformOf <- MCPlatformOf
  Level = {"campaign"}
  Matching = {c1}
  WithObjective = {c1, c2}
  ActionType = {"purchase", "like"}
  Null = Null
  Spend = {2}
  MonthStart <- MCMonthStart
  FirstDay = 3
  LastDay = 4
  RollingDays = 1
  TopLimit = 1
  Writer = {w1}
  MaxStamp = 2
  MaxEdits = 2
  MaxChanges = 3
SYMMETRY Symmetry
CHECK_DEADLOCK FALSE
INVARIANTS
  TypeOK
  ReportsAgree
  CombinedAgrees
  SpendCountedOnce
  BreakdownCountsOnce
