SPECIFICATION Spec
CONSTANTS
  Writer = {w1}
  ParamId <- MCParamId
  Mirror <- MCMirror
  Modern <- MCModern
  Answered <- MCAnswered
  Streamed <- MCStreamed
  Value <- MCValue
  FirstStore <- MCFirstStore
  Settles <- MCSettles
  Batch <- MCBatch
  Single <- MCSingle
  None = None
  LateEchoes = FALSE
  MaxCalls = 2
  MaxEvents = 2
CHECK_DEADLOCK FALSE
INVARIANTS TypeOK VerifiedWritesStand RollbackRestores CalibrationExcludesBatch NoOrphanWaiter WritesAreRouted
