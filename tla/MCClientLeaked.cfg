SPECIFICATION Spec
CONSTANTS
  Datagrams <- MCDatagrams
  FrameSamples = 2
  Lengths = {1, 2}
  Output = 2
  Unit = 2
  MaxCorrection = 1
  Slew = 1
  Gain = 1
  Deadband = 1
  Interval = 1
  Errors <- MCErrors
  Times <- MCTimes
  MaxSilence = 1
  SessionTimeout = 1
  MaxArrivals = 1
  MaxPings = 2
  Leaks = TRUE
CHECK_DEADLOCK FALSE
PROPERTIES
  LeakedIsReaped
