SPECIFICATION FairSpec
CONSTANT Setups <- Sleepy
PROPERTY FullPowerComes
CHECK_DEADLOCK FALSE
