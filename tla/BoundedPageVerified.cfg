\* A page larger than its snapshot, a Windows tree with an alias.
SPECIFICATION PostSpec
CONSTANTS
  PostTrees <- UiTrees
  NodeBudget = 3
  DepthBudget = 2
  PropertyBudget = 4
  ContractRefs <- UiContracts
  EarlierSchemas <- Earlier
  MaxContracts = 2
INVARIANTS
  IncompleteEvidenceIsNoSuccess
CHECK_DEADLOCK FALSE
