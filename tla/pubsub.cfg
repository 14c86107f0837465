\* Publishers alone, and one publisher with each kind of subscriber.
SPECIFICATION FairSpec
CONSTANTS
  NumSrcs = 2
  NumCtx = 2
  Setups <- MCSetups
INVARIANTS
  PublishedHonest
  ShownNeverOver
  ClientdOwned
  ReceivedNeverOver
  LossNeverOver

  
CHECK_DEADLOCK FALSE
