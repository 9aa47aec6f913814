SPECIFICATION FairSpec
CONSTANTS
  Peer = {p1, p2}
  Position <- MCPosition
  Garbage <- MCGarbage
  Chunk = {3}
  MaxPackets = 2
  MaxFailures = 2
INVARIANT ServesWhenItCanAnswer LedShowsTheLink
PROPERTY EndsUpServing PairingIsAnswered WholePacketsAreExact
CHECK_DEADLOCK FALSE
