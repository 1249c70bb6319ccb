\* Sessions, queues, leases, reservations, captures, faults, stress and searches.
SPECIFICATION MCSpec
CONSTANTS
  NativeRequests = {"q1", "q2", "q3"}
  NativeCapacity = 1
  NativeBatch = 1
  NativeTombstones = 1
  NativeAttempts = 1
  PublicIds = {"p1", "p2", "p3"}
  PublicCapacity = 2
  PublicBatch = 1
  PublicTombstones = 1
  SurfaceLabels = {"preview_window"}
  SurfaceOwners = {"d1", "d2"}
  HiddenBudget = 1
  MaxIncarnations = 2
  MaxBoots = 2
  MaxLeases = 1
  PressureSamples = {FALSE, TRUE}
  GovHolders = {"h1", "h2", "h3", "h4"}
  GovSessions = {"s1", "s2"}
  GovBudget <- SmallBudget
  CaptureTxns = {"t1", "t2"}
  CaptureTiles = 2
  CaptureQueueCapacity = 2
  MaxPageVersions = 2
  ProbeCap = 1
  FrameSize = 6
  PixelSize = 100
  TileSize = 2
  MaxRegions = 2
  PageChanges <- Changes
  TreePaths <- Paths
  ImageBudgets = {0, 1, 3}
  PageHeights = {1, 3, 4, 7, 10}
  TileHeights = {1, 3, 5}
  MaxTiles = 4
  BaselineSessions = {1, 2, 3}
  BaselineContexts = {"c1", "c2"}
  BaselineSizes = {1, 2, 4}
  BaselineBudget = 3
  BaselineEntries = 2
  MaxBaselineTicks = 5
  LocalServers <- Servers
  MaxSessionIds = 2
  MaxSessionBoots = 2
  FaultTokens = {"t1", "t2", "t3"}
  MaxFaultPages = 2
  MaxFaultControls = 3
  StressTexts = {"x1", "x2"}
  StressProfiles = 3
  MaxStressRenders = 3
  MaxStressDocuments = 2
  PageStyles <- Styles
  Fingerprints <- Hashes
  StartWidths = {300, 1000}
  FrameHeights = {1, 3, 4}
  SheetLimit = 60
INVARIANTS
  RuntimeTypesOK
  CancelledStaysCancelled
  CancelledLeavesNoResult
  SurfacesAreAccountedFor
  WorkIsCountedAndBounded
  CapturesAreSound
  VisualEvidenceIsSound
  SessionIdsAreSound
  FaultsAreAccountedFor
  StressIsUndone
  ResponsiveReportIsSound
CHECK_DEADLOCK FALSE
