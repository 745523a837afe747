\* Transfers may fail after being posted; the code's default K = N - 4 on 6 slots.
CONSTANTS
  NUM_BUFFERS = 6
  NUM_TRANSFERS = 8
  BACKPRESSURE_THRESHOLD <- CodeBackpressureThreshold
  PROGRESS_UPDATE_INTERVAL <- CodeProgressInterval
  Sentinel = Sentinel
  Garbage = Garbage
  XferCanFail = TRUE
  NotifCanBeLost = FALSE
SPECIFICATION Spec
PROPERTY FailedTransferNotReposted
CHECK_DEADLOCK FALSE
