\* Progress notifications may be lost; the transfer engine is reliable.
CONSTANTS
  NUM_BUFFERS = 3
  NUM_TRANSFERS = 6
  BACKPRESSURE_THRESHOLD = 2
  PROGRESS_UPDATE_INTERVAL = 1
  Sentinel = Sentinel
  Garbage = Garbage
  XferCanFail = FALSE
  NotifCanBeLost = TRUE
SPECIFICATION FairSpec
PROPERTY AllTransfersDelivered
