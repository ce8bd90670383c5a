\* Six requests of WDA, three of them with a status callback and two of them
\* indications, and an NV image of two fragments.
SPECIFICATION FairSpec
CONSTANTS
  MaxReq = 7
  Suspend = {4, 6}
  Told = {3, 4, 7}
  Fragments = 2
INVARIANT ControlInv
PROPERTIES SentInOrder RequestsEnd
\* The driver is stopped or shut down.
CHECK_DEADLOCK FALSE
