SPECIFICATION Spec
CONSTANTS
  Modulus = 5
  r1 = r1
  r2 = r2
  Receivers <- MCReceivers
  FirstNumbers <- MCFirstNumbers
  MaxNumber = 11
  MaxSkip = 1
  Displacement = 2
  JoinAfterWrap = FALSE
SYMMETRY MCSymmetry
INVARIANTS
  TypeOK
  NonceNeverRepeats
  OpenerNeverAhead
  GenuineOpens
