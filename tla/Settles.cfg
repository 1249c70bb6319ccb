\* Every wait ends, under the fairness of the component that waits.
SPECIFICATION MCFairSpec
CONSTANTS
  a1 = a1  a2 = a2  NoAction = NoAction
  Actions <- TwoActions
  Events = {"journal_error", "payload_error"}
  MaxSurfaces = 1
  MaxPending = 1
  MaxReconciliations = 2
  MaxQueue = 2
  NativeRequests = {"q1", "q2"}
  NativeCapacity = 1
  NativeBatch = 1
  NativeTombstones = 1
  NativeAttempts = 2
  CaptureTxns = {"t1"}
  CaptureTiles = 2
  CaptureQueueCapacity = 2
  MaxPageVersions = 2
  ProbeCap = 1
  StressTexts = {"x1", "x2"}
  StressProfiles = 2
  MaxStressRenders = 2
  MaxStressDocuments = 2
PROPERTIES
  ConfirmedSettles
  ActiveSlotsAreFreed
  PageWorkEnds
CHECK_DEADLOCK FALSE
