SPECIFICATION MCSpec
CONSTANTS
  Configs <- MCConfigs
  First = "a"
  Reconciled <- MCReconciled
  Deliverable <- MCDeliverable
  Events = {e1}
  SyncIds = {1, 2, 3, 4, 5, 6, 7, 8, 9, 10}
  BusSize = 1
  WireSize = 1
  MaxEdits = 2
  MaxLosses = 1
  MaxFaults = 1
CHECK_DEADLOCK FALSE
INVARIANTS InSyncIsApplied NoContradiction ProcessedWasPushed
PROPERTIES Converges
