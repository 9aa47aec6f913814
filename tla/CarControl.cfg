SPECIFICATION HistFairSpec
CONSTANTS
  Byte <- MCByte
  Command <- MCCommand
INVARIANT ForwardOnlyByStaleCommand BrakesAsDesigned NotDrivenBothWays OnePulsePerAutobrake
PROPERTY EveryBrakeCutsOff AutobrakeStaysCutOff BuzzerFollowsState
