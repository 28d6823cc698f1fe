\* Two logs, messages lost and overtaken, sizes reported too small and too large.
SPECIFICATION FairSpec
CHECK_DEADLOCK FALSE
CONSTANTS
    Log = {"one", "two"}
    SizeOf <- MCSizeOf
    Reported = {0, 3, 5}
    Chunk = 2
    MaxRetries = 3
    MaxBytes = 5
    None = None
    MaxCalls = 3
    MaxLosses = 4
    MaxEvents = 1
INVARIANTS DownloadIsWhole ListIsWhole FewLossesAreSurvived
PROPERTY OperationEnds
