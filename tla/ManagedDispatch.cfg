\* Two actions on one surface, with everything that can go wrong in a handler;
\* and a person who picks one of two elements, over two requests and two documents.
SPECIFICATION MCSpec
CONSTANTS
  NoAction = NoAction
  Actions = {a1, a2}
  Events = {"journal_error", "payload_error", "plan_expires", "cancelled", "evicted", "request_dropped", "public_drain"}
  MaxSurfaces = 1
  MaxPending = 1
  MaxReconciliations = 2
  MaxQueue = 1
  PointElements = {e1, e2}
  PageReferences <- References
  MaxPointRequests = 2
  MaxPointDocuments = 2
  MaxPointScripts = 2
  PointReports = 2
SYMMETRY Symmetry
INVARIANTS
  TypeOK
  DispatchNeedsPermit
  KnownNotDispatchedIsTrue
  PointTypeOK
  SelectionIsThePersons
