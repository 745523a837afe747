\* Metadata polls and joins may time out; the descriptor race happens.
CONSTANTS
  MetadataCanTimeOut = TRUE
  JoinCanTimeOut = TRUE
SPECIFICATION Spec
INVARIANT TypeOK
INVARIANT SuccessMeansStreamed
INVARIANT IInv
PROPERTY ImplementsRendezvous
