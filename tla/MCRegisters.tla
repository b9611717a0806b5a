---------------------------- MODULE MCRegisters ----------------------------
(***************************************************************************)
(* Instances of BringUp and Registers for TLC: the settings of the modem   *)
(* at the ends of their ranges and beyond them where the setter clamps,    *)
(* those of the transmitter with every limit of the power, and those that  *)
(* only LoRaSettings holds.                                                *)
(***************************************************************************)
EXTENDS BringUp

Nothing == [s \in Settings \cup Recorded |-> {}]

MCModem ==
  [Nothing EXCEPT !["SignalBw"] = {0, 9}, !["ErrorCoding"] = {1, 4},
     !["ImplicitHeaderOn"] = {0, 1}, !["SpreadingFactor"] = {0, 6, 9, 12, 255},
     !["CrcOn"] = {0, 1}, !["SymbTimeout"] = {0, 256, 1023},
     !["LowDatarateOptimize"] = {0, 1}, !["NbTrigPeaks"] = {0, 7},
     !["PreambleLength"] = {8, 65535}, !["HopPeriod"] = {255}]

MCTransmitter ==
  [Nothing EXCEPT !["Power"] = {-128, -2, -1, 2, 5, 14, 17, 20, 21, 127},
     !["Pa20dBm"] = {0, 1},
     !["PAOutput"] = {0, 128},
     !["PaRamp"] = {0, 9},
     !["RFFrequency"] = {62, 434003479, 470000000, 1020000000}]

MCRecord ==
  [Nothing EXCEPT !["RxSingleOn"] = {0, 1}, !["FreqHopOn"] = {0, 1},
     !["TxPacketTimeout"] = {0, 100}, !["RxPacketTimeout"] = {0, 100}]

\* 0, 0x5A and 0xFF.
MCGarbage == {{}, {1, 3, 4, 6}, 0 .. 7}
MCJunk == {{0, 2, 5, 7}}
MCZero == {{}}

MCScopes == {MCModem, MCTransmitter, MCRecord}
=============================================================================
