SPECIFICATION FairSpec
CONSTANTS
  N = 2
  EndpointOf <- MCEndpointOf
  Cap = 2
  MaxEvents = 3
INVARIANTS
  TypeInvariant
  InOrderOnce
  ReleaseMatchesPress
  NoStuckEvent
PROPERTIES
  LostOnlyWhenCrowded
  NotifiedIsCollected
CHECK_DEADLOCK FALSE
