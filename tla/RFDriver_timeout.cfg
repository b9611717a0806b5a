SPECIFICATION SilentChipSpec
CONSTANTS
  MaxRx = 1
  MaxTx = 1
PROPERTY
  TxTimesOut
CHECK_DEADLOCK FALSE
