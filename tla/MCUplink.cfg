SPECIFICATION Spec
CONSTANTS
  s1 = s1
  s2 = s2
  s3 = s3
  Sessions <- MCSessions
  Modulus = 6
  MaxFrames = 3
  Displacement = 1
SYMMETRY MCSymmetry
CHECK_DEADLOCK FALSE
INVARIANTS
  TypeOK
  HolderIsThere
  OnlyHolderHeard
  HolderOpens
PROPERTIES
  SuccessorKeepsMicrophone
