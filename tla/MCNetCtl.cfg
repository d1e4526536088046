CONSTANTS
  Conn = {c1}
  Val = {v0, v1}
  Val0 = v0
  MaxConf = 2
  MaxCtl = 3
  OutqCap = 2
  PipeCap = 2
SPECIFICATION FairSpec
INVARIANTS StoppedWhileConfiguring NothingStale NoStaleQuit StopIsUnderWay ControlsAnnounced HandledBeforeStop LossAccounted
PROPERTIES DeliveredInOrder StopEnds ModuleRuns
CHECK_DEADLOCK FALSE
