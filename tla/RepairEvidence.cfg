\* Repair, perception, headless runs, Windows, postconditions.
SPECIFICATION MCSpec
CONSTANTS
  Fixes = {f1, f2}
  ApplyCalls = {"c1"}
  Edits = {"e1"}
  MaxRepairBoots = 2
  RepairRevisions = 2
  PerceptionBudgets <- Budgets
  MaxPerceptionSteps = 2
  MaxPerceptionPages = 2
  CiRuns = {r1, r2}
  HeadlessPolicies <- Policies
  EvidenceCapacity = 4
  ArtifactCapacity = 1
  MaxCiChanges = 1
  WinActions = {"a1"}
  WinEventCapacity = 1
  WinDrainLimit = 1
  WinPlanCapacity = 1
  MaxWinEvents = 3
  MaxWinCuts = 5
  MaxWinBoots = 2
  PostTrees <- UiTrees
  NodeBudget = 3
  DepthBudget = 2
  PropertyBudget = 4
  ContractRefs <- UiContracts
  EarlierSchemas <- Earlier
  MaxContracts = 2
SYMMETRY Symmetry
INVARIANTS
  EvidenceTypesOK
  RepairIsSafe
  CyclesAreHonest
  RunsAreSound
  PostconditionsFailClosed
PROPERTIES
  EffectsAreConfirmedAndFirst
CHECK_DEADLOCK FALSE
