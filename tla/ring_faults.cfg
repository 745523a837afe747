\* Safety with failing transfers and lost notifications, K = N, batched progress.
CONSTANTS
  NUM_BUFFERS = 3
  NUM_TRANSFERS = 8
  BACKPRESSURE_THRESHOLD = 3
  PROGRESS_UPDATE_INTERVAL = 2
  Sentinel = Sentinel
  Garbage = Garbage
  XferCanFail = TRUE
  NotifCanBeLost = TRUE
SPECIFICATION Spec
INVARIANT NoBufferOverrun
INVARIANT IInv
PROPERTY ImplementsRingStream
CHECK_DEADLOCK FALSE
