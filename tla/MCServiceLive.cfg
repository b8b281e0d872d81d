CONSTANTS
  SeqMax = 1
  Period = 2
  Boot = 0
  Horizon = 6
  RestartSec = 1
  StartLimitInterval = 5
  StartLimitBurst = 3
  MaxOutages = 1
  MaxKills = 1
SPECIFICATION ServiceFairSpec
PROPERTY
  Recovers
CHECK_DEADLOCK FALSE
