SPECIFICATION Spec
CONSTANTS
    ParamId <- MCParamId
    Alias <- MCAlias
    Image = {"boot", "full", "flash", "plane"}
    TableOf <- MCTableOf
    KeyOf <- MCKeyOf
    LineOf <- MCLineOf
    Grows <- BootGrows
    Reboots <- SameImage
    Swaps <- KeptOrReplaced
    None = None
    MaxGapFill = 2
    MinMissing = 2
    MaxEvents = 2
CHECK_DEADLOCK FALSE
INVARIANTS
    WritesSeeWholeTable
    RetryTimerHasSync
    NoActiveActionAfterSync
    RetainedMatchesVehicle
    NoBlendedTable
PROPERTIES
    CompletionSticks
