SPECIFICATION Spec
CONSTANTS
  Modulus = 8
  FrameMs = 20
  MinTarget = 40
  MaxTarget = 60
  OverfillMs = 20
  OverfillFor = 1
  ShrinkAfter = 1
  ShrinkDivisor = 4
  ShrinkFloor = 10
  BurstMemory = 2
  JitterDemands <- MCDemands
  Numbers <- MCNumbers
  Displacement = 3
  LateAcrossFirstWrap = FALSE
  MaxReceived = 7
  MaxTime = 3
CHECK_DEADLOCK FALSE
INVARIANTS
  TypeOK
  Accounting
PROPERTIES
  InOrderWithinPeriod
  ImplementsPlayout
  GapsAreGenuine
  SheddingNeverStarves
  TargetCoversBurst
  BufferedFramesLeave
