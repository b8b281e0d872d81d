CONSTANTS
  SeqMax = 1
  Period = 2
  Boot = 0
  Horizon = 8
  RestartSec = 1
  StartLimitInterval = 5
  StartLimitBurst = 3
  MaxOutages = 1
  MaxKills = 1
SPECIFICATION ServiceSpec
INVARIANTS
  ServiceTypeOK
  RestartsKeepPace
  ShortOutagesSurvived
  DownOnPurpose
  ServiceInv
CHECK_DEADLOCK FALSE
