\* A session that is released while its action is handed out.
SPECIFICATION Spec
CONSTANTS
  NoAction = NoAction
  Actions = {a1}
  Events = {"session_removed"}
  MaxSurfaces = 1
  MaxPending = 1
  MaxReconciliations = 1
  MaxQueue = 1
INVARIANTS
  KnownNotDispatchedIsTrue
CHECK_DEADLOCK FALSE
