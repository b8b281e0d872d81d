CONSTANTS
  SeqMax = 65535
  Radix = 16
  NanosPerMicro = 3
  MicrosPerSecond = 20
  Native = "little"
  Senders <- MCSenders
  Times <- MCTimes
  Unspecified <- MCUnspecified
  Interface <- MCInterface
  EphemeralPort <- MCEphemeralPort
  MaxPackets = 2
SPECIFICATION Spec
INVARIANTS
  TypeOK
  SameOnEveryHost
  IPv6RoundTrip
  TimeSplit
  ExpertsExplained
PROPERTY
  StreamOrder
CHECK_DEADLOCK FALSE

