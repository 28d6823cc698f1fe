SPECIFICATION FairSpec
CONSTANTS
  Ids = {"accel", "level", "compass", "reboot"}
  Cancellable = {"accel", "compass"}
  Postures = 3
  Compasses = {1, 2}
  CalMask = {1, 2}
  Faults = {"heartbeat gap", "untimely text", "command lost", "ack lost", "mute", "restart", "link drop", "send fails", "no compass"}
  MaxFaults = 1
  MaxRuns = 2
CHECK_DEADLOCK FALSE
INVARIANTS NoHollowSuccess NoMistakenPosture AccelIsWatched
PROPERTY NoActionIsStranded
