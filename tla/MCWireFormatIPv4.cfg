CONSTANTS
  SeqMax = 65535
  Radix = 16
  NanosPerMicro = 3
  MicrosPerSecond = 20
  Native = "little"
  Senders <- MCSenders
  Times <- MCTimes
  Unspecified <- MCUnspecified
  Interface <- MCInterface
  EphemeralPort <- MCEphemeralPort
  MaxPackets = 2
SPECIFICATION Spec
INVARIANT
  IPv4RoundTrip
CHECK_DEADLOCK FALSE
