SPECIFICATION FairSpec
CONSTANTS
  Packet <- MCPacket
  Garbage <- MCGarbage
INVARIANT TypeOK
PROPERTY StatusWasDecided BuzzerFollowsDecision AxesAreOfTheirPacket
