SPECIFICATION FairSpec
CONSTANTS
  Distance = {10, 30}
  Speed = {24, 80}
  MaxSamples = 2
INVARIANT EverySampleCounts DiesAtOnceOrNever
PROPERTY EitherSensorBrakes KeepsDeciding
CHECK_DEADLOCK FALSE
