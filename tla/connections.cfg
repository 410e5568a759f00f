SPECIFICATION FairSpec
CONSTANTS
  Conn = {c1, c2}
  NoConn = NoConn
  Platform = {"meta", "tiktok", "google_ads"}
  MaxQueue = 1
  MaxFaults = 2
INVARIANTS
  TypeOK
PROPERTIES
  FirstSyncArrives
  ImportRepoints
