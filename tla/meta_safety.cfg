SPECIFICATION Spec
CONSTANTS
  Account = {a1}
  Job = {"structure", "breakdown"}
  Exec = {e1, e2}
  NoTask = NoTask
  Free = Free
  Orphan = Orphan
  Calls = 1
  Quota = 2
  SoftAt = 1
  MaxQueue = 1
  MaxFaults = 2
SYMMETRY Symmetry
VIEW WithoutCampaigns
INVARIANTS
  TypeOK
  OneRunPerJob
  PauseBoundsCalls
PROPERTIES
  RowsAreSettled
  LocksAreSingleFlight
