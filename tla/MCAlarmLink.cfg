CONSTANTS
  N = 4
  InqCap = 2
  PipeCap = 2
  MaxTry = 1
SPECIFICATION FairSpec
INVARIANTS NoLostWakeup InFlightIsHead MaxCopies LossAccounted IInv
PROPERTIES InOrder AckEndsItsExchange AlarmsLeave
CHECK_DEADLOCK FALSE
