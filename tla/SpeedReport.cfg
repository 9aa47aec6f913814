SPECIFICATION FairSpec
CONSTANTS
  MaxCount = 2
  PULSES_PER_REVOLUTION = 40
  WHEEL_CIRCUMFERENCE = 213628
INVARIANT TypeOK PulsesAreAccountedFor
PROPERTY WholeLinesAreExact StandingIsReported
