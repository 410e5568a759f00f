SPECIFICATION AutomaticSpec
CONSTANTS
  Platform = {"tiktok", "google_ads"}
  Job = {"structure", "insights_daily", "insights_historical"}
  Exec = {e1}
  NoJob = NoJob
  Free = Free
  Orphan = Orphan
  MaxQueue = 1
  MaxFaults = 2
PROPERTIES
  RowsAreSettled
  DailyArrives
  HistoryArrives
