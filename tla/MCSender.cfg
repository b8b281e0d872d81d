CONSTANTS
  SeqMax = 2
  Period = 2
  Boot = 1
  Horizon = 11
SPECIFICATION Spec
INVARIANTS
  TypeOK
  TimerChain
  BuffersOwned
  WireGapless
  PacedByClock
  NoBurst
  BacklogBounded
  IInv
PROPERTY
  ImplementsStream
CHECK_DEADLOCK FALSE
