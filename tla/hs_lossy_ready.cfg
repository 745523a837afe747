\* READY may be lost or duplicated and metadata retrieval may time out;
\* join waits for both processes: the DESCS exchange, once started, completes.
CONSTANTS
  READY_EVERY = 5
  DRAINS = 3
  LossyMsgs = {"READY"}
  MetadataCanTimeOut = TRUE
  JoinCanTimeOut = FALSE
SPECIFICATION FairSpec
INVARIANT TypeOK
INVARIANT DescsNotDrainedUnread
PROPERTY HandshakeCompletes
