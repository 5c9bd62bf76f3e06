SPECIFICATION Spec
CONSTANTS
  l1 = l1
  l2 = l2
  Labels <- MCLabels
  MaxDevices = 2
  MaxEndpoints = 2
SYMMETRY LabelSymmetry
\* The description of the devices ends in a node that is served for good.
CHECK_DEADLOCK FALSE
INVARIANTS
  TreeExact
  EveryRequestServed
  WiredToItsEndpoint
