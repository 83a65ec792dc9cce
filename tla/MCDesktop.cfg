SPECIFICATION Spec
CONSTANTS
  s1 = s1
  s2 = s2
  s3 = s3
  Sessions <- MCSessions
  MaxRuns = 3
SYMMETRY MCSymmetry
INVARIANTS
  TypeOK
  SilentWhileHeard
  NeverLeftSilent
  OneMicrophone
  ExitUnloads
  StopLeavesSound
