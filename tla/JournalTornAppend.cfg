\* A write that stops half way, in a process that goes on appending.
SPECIFICATION Spec
CONSTANTS
  a1 = a1  a2 = a2  l1 = l1  l2 = l2  r1 = r1  r2 = r2  c1 = c1  c2 = c2
  Envelopes <- PlannedEnvelopes
  Actions <- OneAction
  Lineages <- OneLineage
  Revisions <- OneRevision
  Contracts <- OneContract
  LegacyFiles <- EmptyFile
  MaxRecords = 5
  MaxInstances = 2
  MaxCuts = 1
CHECK_DEADLOCK FALSE
CONSTANT Faults = {"torn"}
INVARIANT JournalReopens
