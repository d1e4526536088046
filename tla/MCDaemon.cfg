CONSTANTS
  Proc = {d, p1, p2, p3, p4}
  Daemon0 = d
  MaxFail = 3
SPECIFICATION FairSpec
INVARIANTS AtMostOne WaitsForOwnChild
PROPERTY ComesBack
CHECK_DEADLOCK FALSE
