SPECIFICATION FairSpec
CONSTANTS
  Index = {2, 12}
  BrakeMessages = 3
INVARIANT FramedBySilence CatchesUp
PROPERTY EventuallyAgrees IsMessageLink
