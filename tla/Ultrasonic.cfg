SPECIFICATION SampleSpec
CONSTANTS
  LEAVE_SAMPLE_INTERVAL = 10
  Jitter = 2
  RiseDelay = 2
  EchoLength = {1, 2, 3, 5, 15}
INVARIANT MeasuresItsEcho
PROPERTY InRangeIsNotGivenUp KeepsSampling
