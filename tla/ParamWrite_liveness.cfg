SPECIFICATION FairSpec
CONSTANTS
  Writer = {w1, w2}
  ParamId <- MCParamId
  Mirror <- MCMirror
  Modern <- MCModern
  Answered <- MCAnswered
  Streamed <- MCStreamed
  Value <- MCValue
  FirstStore <- MCFirstStore
  Settles <- MCSettles
  Batch <- TwoBatches
  Single <- MCSingle
  None = None
  LateEchoes = TRUE
  MaxCalls = 2
  MaxEvents = 1
CHECK_DEADLOCK FALSE
PROPERTY CallsEnd
