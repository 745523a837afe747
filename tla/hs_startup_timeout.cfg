\* Metadata retrieval and joins may time out; reliable notifications.
CONSTANTS
  READY_EVERY = 5
  DRAINS = 3
  LossyMsgs = {}
  MetadataCanTimeOut = TRUE
  JoinCanTimeOut = TRUE
SPECIFICATION Spec
INVARIANT SuccessMeansStreamed
