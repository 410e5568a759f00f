SPECIFICATION SummarySpec
CONSTANTS
  meta = meta
  c1 = c1
  Account = {meta}
  Campaign = {c1}
  AccountOf <- MCAccountOf
  Currency <- MCCurrency
  PlatformOf <- MCPlatformOf
  Level = {"campaign"}
  Matching = {}
  WithObjective = {}
  ActionType = {"purchase"}
  Null = Null
  Spend = {1}
  MonthStart <- MCMonthStart
  FirstDay = 3
  LastDay = 4
  RollingDays = 1
  TopLimit = 1
  Writer = {w1, w2}
  MaxStamp = 2
  MaxEdits = 0
  MaxChanges = 2
  Request = {r1}
  Period <- MCDates
  RequestFilter <- MCFilter
  MaxStores = 1
SYMMETRY Symmetry
INVARIANTS
  NarrativeIsNeverStale
