SPECIFICATION Spec
CONSTANTS
  a = a
  b = b
  stranger = stranger
  Clients <- MCClients
  Trusted <- MCTrusted
  SessionTimeout = 2
  PunchTimeout = 1
CHECK_DEADLOCK FALSE
INVARIANTS
  TypeOK
  EntryOutlivesNothing
  PlayingIsServed
PROPERTIES
  StopReachesClients
  ImplementsMembership
