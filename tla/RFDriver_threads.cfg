SPECIFICATION LiveSpec
CONSTANTS
  MaxRx = 2
  MaxTx = 2
INVARIANTS
  NoTxDisturbed
  Listening
  NoRepeat
  AirExact
  DeliveredExact
PROPERTIES
  BackToRx
  SendProceeds
CHECK_DEADLOCK FALSE
