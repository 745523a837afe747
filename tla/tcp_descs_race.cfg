\* No timeouts: the sender's single GET of the descriptors races the receiver's SET.
CONSTANTS
  MetadataCanTimeOut = FALSE
  JoinCanTimeOut = TRUE
SPECIFICATION Spec
INVARIANT DescriptorsBeforeTransfers
