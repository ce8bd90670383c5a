\* One poster, two wrappers and three queues: two of the control thread and one
\* of the receive thread.  The driver is stopped by a restart or an unload.
SPECIFICATION FairSpec
CONSTANTS
  Wrapper = {w1, w2}
  NoWrapper = NoWrapper
  Poster = {p1}
  Mq <- MqPriority
  ServiceOrder <- OrderPriority
  Ops = {"shutdown", "close"}
INVARIANTS PoolInv WakeupInv NoLostWakeup
PROPERTIES MessageServed ShutdownCompletes
\* The driver stops for good once its threads have left.
CHECK_DEADLOCK FALSE
