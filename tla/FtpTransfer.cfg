\* Two operations in a row on files of exact, unknown and overstated size.
CONSTANTS
  Files = {"log", "sys", "over", "huge"}
  LogLength = 5
  Length <- MCLength
  Declared <- MCDeclared
  Kinds = {"burst", "read", "prefix", "upload", "list", "delete"}
  UploadLength = 2
  PrefixLimit = 2
  MaxSize = 5
  BurstLength = 3
  SeqMod = 16
  MaxRetries = 1
  MaxOps = 2
  Faults = {"loss", "late reply", "abort", "drop"}
  MaxFaults = 2
CHECK_DEADLOCK FALSE
SPECIFICATION FairSpec
INVARIANTS NoForeignBytes TruncatedOnlyByLostTail CleanReadsSucceed UploadIsStored
PROPERTY OperationSettles
