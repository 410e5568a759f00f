SPECIFICATION FairSpec
CONSTANTS
  Job = {j1, j2}
  NoJob = NoJob
  Exec = {e1}
  MaxMessages = 2
  MaxFaults = 1
INVARIANTS
  TypeOK
  UnpollableRowHasSubmit
  RowsFollowReports
PROPERTIES
  ReportsSettle
