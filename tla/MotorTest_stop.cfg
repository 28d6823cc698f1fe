SPECIFICATION FairSpec
CONSTANTS
  Run = {r1, r2}
  Stop = {s1}
  MotorCount = 2
  Mode = {"single", "sweep", "simultaneous"}
  MaxCalls = 4
  MaxEvents = 1
CHECK_DEADLOCK FALSE
INVARIANT ProvenStopStops
PROPERTIES StopEndsSweep TestEnds
