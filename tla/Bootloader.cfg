SPECIFICATION FairSpec
CONSTANTS
  Revisions = {2, 5}
  Pairings = {"same", "large v2", "other"}
  Chunks = 2
  ExtChunks = 1
  FlashChunks = 3
  Faults = {"late", "ack lost", "refused", "cut", "corrupt", "failed", "unplugged"}
  MaxFaults = 2
CHECK_DEADLOCK FALSE
INVARIANTS FlashedIsImage ErasedBeforeWritten SurvivesOneFault
PROPERTY SessionEnds
