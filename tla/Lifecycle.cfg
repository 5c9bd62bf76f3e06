SPECIFICATION FairSpec
CONSTANTS
  w100 = w100
  None = None
  Devices <- MCDevices
  ReqCap = 3
  MsgCap = 1
  MaxSent = 2
INVARIANTS
  TypeInvariantLife
  AllAccountedFor
  PressedOnceInOrder
PROPERTIES
  GetAfterSubscribe
  ReceivedIsHandled
  CtrlCEnds
CHECK_DEADLOCK FALSE
