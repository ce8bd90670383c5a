\* Two categories with queues of two frames, and a management frame.
SPECIFICATION FairSpec
CONSTANTS
  NumAC = 2
  MaxQ = 2
  LowWater = 1
  AnnounceEvery = 3
  Weight = 1
  Setups <- TightSetups
  HiRes = 6
  Threshold = 5
  MaxMsg = 1
INVARIANTS TxInv StuckOnlyUnseen RecoveryComes
PROPERTY FramesLeave
\* Frames are bounded: at the end there is nothing to do.
CHECK_DEADLOCK FALSE
