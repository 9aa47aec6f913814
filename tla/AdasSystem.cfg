SPECIFICATION FairSpec
CONSTANTS
  EVENTS_ARRAY_SIZE = 3
  COUNT_AUTOBRAKE_FALSE_ALARM = 1
  COUNT_PRECOLLISION_FALSE_ALARM = 0
  COUNT_NORMAL_FALSE_ALARM = 0
  BrakeMessages = 3
  Junk = {2, 47}
INVARIANT TypeOK ReactsInTime
PROPERTY RoadIsObeyed StopsWithoutAPhone
