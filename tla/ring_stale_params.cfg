\* run_test(2, ...) with the threshold and interval still computed for 64 slots.
CONSTANTS
  NUM_BUFFERS = 2
  NUM_TRANSFERS = 5
  BACKPRESSURE_THRESHOLD <- StaleBackpressureThreshold
  PROGRESS_UPDATE_INTERVAL <- StaleProgressInterval
  Sentinel = Sentinel
  Garbage = Garbage
  XferCanFail = FALSE
  NotifCanBeLost = FALSE
SPECIFICATION FairSpec
PROPERTY OverrunIsCounted
CHECK_DEADLOCK FALSE
