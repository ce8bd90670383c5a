\* Two categories with a frame each.
SPECIFICATION Spec
CONSTANTS
  NumAC = 2
  MaxQ = 2
  LowWater = 1
  AnnounceEvery = 3
  Weight = 1
  Setups <- Rivals
  HiRes = 6
  Threshold = 5
  MaxMsg = 1
INVARIANT NothingStuck
\* Frames are bounded: at the end there is nothing to do.
CHECK_DEADLOCK FALSE
