SPECIFICATION Spec
CONSTANTS
  s1 = s1
  s2 = s2
  s3 = s3
  Sessions <- MCPair
  Modulus = 6
  MaxFrames = 5
  Displacement = 1
CHECK_DEADLOCK FALSE
INVARIANT
  HolderOpens
