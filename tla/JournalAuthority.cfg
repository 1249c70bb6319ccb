\* Two actions, two revisions, lineages and contracts, files of old releases.
SPECIFICATION Spec
CONSTANTS
  a1 = a1  a2 = a2  l1 = l1  l2 = l2  r1 = r1  r2 = r2  c1 = c1  c2 = c2
  Envelopes <- PlannedEnvelopes
  Actions <- TwoActions
  Lineages <- BothSides
  Revisions <- BothRevs
  Contracts <- TwoContracts
  LegacyFiles <- OldFiles
  Faults = {}
  MaxRecords = 6
  MaxInstances = 3
  MaxCuts = 2
SYMMETRY Symmetry
INVARIANTS
  DispatchExcludesObservation
  TypeOK
  GrantBackedByDurablePrepared
  PreparedUnderLatestAuthority
  CommittedIsVerified
CHECK_DEADLOCK FALSE
