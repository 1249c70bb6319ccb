\* A page of two tiles that stands still, captured whole.
SPECIFICATION CaptureSpec
CONSTANTS
  CaptureTxns = {"t1"}
  CaptureTiles = 2
  CaptureQueueCapacity = 2
  MaxPageVersions = 2
  ProbeCap = 1
INVARIANTS
  DriftIsReal
CHECK_DEADLOCK FALSE
