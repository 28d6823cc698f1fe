SPECIFICATION BusFairSpec
CONSTANTS
  Names <- MCNames
  IdParam = "CAN_NODE"
  Batches <- MCBatches
  Ops = {"apply", "write", "save", "changeNodeId", "restart", "fetchAll", "stop", "reset",
         "update", "cancel", "powerCycle"}
  Images <- MCImages
  MaxWalkTries = 1
  MaxWriteTries = 2
  MaxSaveTries = 2
  Overlaps = FALSE
  MaxBegins = 2
  TidMod = 4
  MaxOps = 2
  MaxEvents = 3
  MaxStarts = 1
  MaxWire = 2
CHECK_DEADLOCK FALSE
INVARIANTS SavedBatchInFlash CompleteWalkIsWhole CompletedIsWhole
PROPERTY BusSettles
