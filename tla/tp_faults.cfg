\* Metadata timeouts and refused or failed transfers; the descriptor race happens.
\* A run can hang (main's join has no timeout), so deadlock is not checked.
CONSTANTS
  MetadataCanTimeOut = TRUE
  XferCanFail = TRUE
SPECIFICATION FairSpec
INVARIANT SuccessMeansTransferred
PROPERTY InitiatorDoneLeadsToSuccess
PROPERTY ImplementsTransferCompletions
CHECK_DEADLOCK FALSE
