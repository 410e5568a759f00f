SPECIFICATION FairSpec
CONSTANTS
  Proc = {p1, p2, p3}
  NoProc = NoProc
INVARIANTS
  TypeOK
  FirstOpeningIsEmailed
PROPERTIES
  FailureOpensAlert
  TransactionsEnd
