\* No timeouts and no transfer faults: does the example always report?
CONSTANTS
  MetadataCanTimeOut = FALSE
  XferCanFail = FALSE
SPECIFICATION FairSpec
PROPERTY ExampleTerminates
CHECK_DEADLOCK FALSE
