\* Two TIDs and two buffers; a window of three slots.
SPECIFICATION FairSpec
CONSTANTS
  t1 = t1
  t2 = t2
  TID = {t1, t2}
  Buffer = {b1, b2}
  WinSize = 3
  MaxFrame = 4
  Setups <- SmallSetups
  NoFrame = NoFrame
  NoBuffer = NoBuffer
  NoTid = NoTid
INVARIANTS ReorderInv PendingExact
PROPERTIES FramesKept FramesLeave
\* Every frame has been handed up.
CHECK_DEADLOCK FALSE
