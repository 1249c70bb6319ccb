\* One action whose surface is replaced, whose session goes, whose record expires;
\* and edits of excerpts and verdicts on fixes.
SPECIFICATION MCSpec
CONSTANTS
  NoAction = NoAction
  Actions = {a1}
  Events = {"surface_changes", "session_removed", "record_expires"}
  MaxSurfaces = 2
  MaxPending = 1
  MaxReconciliations = 1
  MaxQueue = 1
  LineNames = {"a", "long"}
  MaxLines = 5
  ExcerptRadius = 2
  ExcerptBound = 4
  MaxEditSpan = 2
INVARIANTS
  VerifiedOnPlannedSurface
  ConfirmationIsOneShot
  EditStaysInsideTheExcerpt
  VerdictsAreSound
PROPERTIES
  EffectsPrecedeObservation
CHECK_DEADLOCK FALSE
