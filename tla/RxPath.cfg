\* Two rings of two descriptors.
SPECIFICATION FairSpec
CONSTANTS
  NumDesc = 2
  Threshold = 2
  Setups <- Various
INVARIANTS RxInv NothingStuckAwake NoReload RefillComesIfAmple
PROPERTY FramesLeave
\* Frames and power changes are bounded: at the end there is nothing to do.
CHECK_DEADLOCK FALSE
