CONSTANTS
  SeqMax = 1
  Period = 2
  Boot = 0
  Horizon = 7
SPECIFICATION FairSpec
PROPERTIES
  FailureExits
  TickProducesPacket
CHECK_DEADLOCK FALSE
