SPECIFICATION FairSpec
CONSTANT Setups <- Various
INVARIANTS PmcInv RequestMatched QueueServed BmpsFlag
PROPERTY FullPowerComesIfSimple
CHECK_DEADLOCK FALSE
