\* DESCS may be lost as well: the sender waits for it forever.
CONSTANTS
  READY_EVERY = 5
  DRAINS = 3
  LossyMsgs = {"READY", "DESCS"}
  MetadataCanTimeOut = FALSE
  JoinCanTimeOut = FALSE
SPECIFICATION FairSpec
PROPERTY SuccessReported
