SPECIFICATION Spec
CONSTANTS
  Platform = {"tiktok", "google_ads"}
  Job = {"structure", "insights_historical", "breakdown"}
  Exec = {e1, e2}
  NoJob = NoJob
  Free = Free
  Orphan = Orphan
  MaxQueue = 1
  MaxFaults = 1
SYMMETRY Symmetry
INVARIANTS
  TypeOK
  OneRunPerJob
  HistoryIsNotEmpty
PROPERTIES
  LocksAreSingleFlight
