SPECIFICATION HistSpec
CONSTANTS
  EVENTS_ARRAY_SIZE = 8
  COUNT_AUTOBRAKE_FALSE_ALARM = 3
  COUNT_PRECOLLISION_FALSE_ALARM = 2
  COUNT_NORMAL_FALSE_ALARM = 2
INVARIANT DecidesInTime
PROPERTY EvidenceForChange IsSlidingVote
