SPECIFICATION FairSpec
CONSTANTS
  None = None
  Questions = {q1}
  DataMode = "managed_durable_write"
PROPERTY
  ExhaustedSearchContinues
