SPECIFICATION Spec
CONSTANTS
  MaxRx = 2
  MaxTx = 2
PROPERTY
  SendWhenIdle
CHECK_DEADLOCK FALSE
