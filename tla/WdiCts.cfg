\* Three crashes, a channel of two messages and six sent, each of which the
\* firmware answers.
SPECIFICATION FairSpec
CONSTANTS
  Room = 2
  MaxMsg = 6
  MaxCrash = 3
  Silent = {}
INVARIANT DeferredWhilePending
PROPERTIES ChannelSpec DeferredIsSent
\* Every message has been sent and answered.
CHECK_DEADLOCK FALSE
