SPECIFICATION FairSpec
CONSTANT Setups <- Various
INVARIANTS WdaInv ScanWhileSuspended
PROPERTIES FramesFreed RequestsConfirmed DataResumes
CHECK_DEADLOCK FALSE
