\* A Windows action left dispatched by a daemon that dies.
SPECIFICATION WinSpec
CONSTANTS
  WinActions = {"a1"}
  WinEventCapacity = 1
  WinDrainLimit = 1
  WinPlanCapacity = 1
  MaxWinEvents = 3
  MaxWinCuts = 5
  MaxWinBoots = 2
INVARIANTS
  BootDebtIsReobserved
CHECK_DEADLOCK FALSE
