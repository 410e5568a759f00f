SPECIFICATION ConnectedSpec
CONSTANTS
  Account = {a1}
  Job = {"structure", "insights_daily"}
  Exec = {e1, e2}
  NoTask = NoTask
  Free = Free
  Orphan = Orphan
  Calls = 1
  Quota = 1
  SoftAt = 1
  MaxQueue = 1
  MaxFaults = 0
PROPERTIES
  CampaignsArrive
