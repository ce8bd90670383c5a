\* Up to five crashes: one while the module loads and four restarts.
SPECIFICATION WdFairSpec
CONSTANTS
  MaxCrash = 5
  WdOps = {"unload", "fail"}
INVARIANTS ShutdownOnlyWhenUp OutageCovered ReInitAfterShutdown
PROPERTIES ReInitTakenUp UnloadCompletes
\* The module is unloaded, or the watchdog thread has failed.
CHECK_DEADLOCK FALSE
