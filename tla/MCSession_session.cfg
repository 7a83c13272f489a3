\* Both builds, three troubles of any kind but a clock that goes back, two connections.
SPECIFICATION FairSpec
CONSTANTS
  Builds = {TRUE, FALSE}
  Faults <- AllButClock
  MaxFaults = 3
  MaxConnects = 2
INVARIANTS
  StepsWhileOpen
  RegisteredIsAnnounced
  ContextHasList
PROPERTIES
  TypeIsTrue
  Settles
CHECK_DEADLOCK FALSE
