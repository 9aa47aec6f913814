SPECIFICATION HistSpec
CONSTANTS
  EVENTS_ARRAY_SIZE = 20
  COUNT_AUTOBRAKE_FALSE_ALARM = 6
  COUNT_PRECOLLISION_FALSE_ALARM = 4
  COUNT_NORMAL_FALSE_ALARM = 4

PROPERTY ToleratesFalseNormals
