SPECIFICATION FairSpec
CONSTANTS
    ParamId <- SmallParamId
    Alias <- SmallAlias
    Image = {"boot1", "full2"}
    TableOf <- MCTableOf
    KeyOf <- MCKeyOf
    LineOf <- MCLineOf
    Grows <- Boot1Grows
    Reboots <- NoPairs
    Swaps <- NoPairs
    None = None
    MaxGapFill = 1
    MinMissing = 2
    MaxEvents = 3
PROPERTIES
    TableEventuallyHeld
CHECK_DEADLOCK FALSE
