\* The code's own parameter formulas on a ring of 8 slots: K = 4, P = 2.
CONSTANTS
  NUM_BUFFERS = 8
  NUM_TRANSFERS = 12
  BACKPRESSURE_THRESHOLD <- CodeBackpressureThreshold
  PROGRESS_UPDATE_INTERVAL <- CodeProgressInterval
  Sentinel = Sentinel
  Garbage = Garbage
  XferCanFail = FALSE
  NotifCanBeLost = FALSE
SPECIFICATION FairSpec
INVARIANT TypeOK
INVARIANT NoBufferOverrun
PROPERTY ProgressMonotonic
PROPERTY AllTransfersDelivered
