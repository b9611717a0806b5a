----------------------------- MODULE Registers -----------------------------
(***************************************************************************)
(* The configuration of the radio: the setters and getters of              *)
(* lora/sx1276-LoRaMisc.c and their first use, SX1276LoRaInit.             *)
(*                                                                         *)
(* Several settings share a register.  A setter reads the register, keeps  *)
(* what its mask keeps and ORs its value in; what the value has outside    *)
(* its own field would land in the neighbour's.  A register is the set of  *)
(* its bits that are one: & is \cap and | is \cup.  The chip stores what   *)
(* is written, so a register and its shadow in SX1276Regs are one variable.*)
(*                                                                         *)
(* want is LoRaSettings, with the settings that the program does not       *)
(* record itself beside them.                                              *)
(***************************************************************************)
EXTENDS Integers

CONSTANTS
  Scopes,               \* bound: arguments by setting, one of them a behaviour
  Garbage               \* what the registers can hold after a reset

Registers ==
  {"Frf", "PaConfig", "PaRamp", "PaDac", "ModemConfig1", "ModemConfig2",
   "ModemConfig3", "SymbTimeoutLsb", "Preamble", "PayloadLength", "HopPeriod",
   "DetectOptimize"}

Settings ==
  {"RFFrequency", "Power", "SignalBw", "SpreadingFactor", "ErrorCoding",
   "CrcOn", "ImplicitHeaderOn", "HopPeriod", "PayloadLength", "PreambleLength",
   "Pa20dBm", "PAOutput", "PaRamp", "SymbTimeout", "LowDatarateOptimize",
   "NbTrigPeaks"}

\* Settings that only LoRaSettings holds.
Recorded == {"RxSingleOn", "FreqHopOn", "TxPacketTimeout", "RxPacketTimeout"}

Below(n) == {v \in Nat : v < n}

\* What the setters are for: a setting's codes (sx1276-LoRa.h:27-45) or all
\* that fits its field; the frequency below what three bytes can say.
Arguments ==
  [RFFrequency |-> Below(1024000000), Power |-> -128 .. 127,
   SignalBw |-> Below(10), SpreadingFactor |-> Below(256),
   ErrorCoding |-> 1 .. 4, CrcOn |-> {0, 1}, ImplicitHeaderOn |-> {0, 1},
   HopPeriod |-> Below(256), PayloadLength |-> Below(256),
   PreambleLength |-> Below(65536), Pa20dBm |-> {0, 1}, PAOutput |-> {0, 128},
   PaRamp |-> Below(16), SymbTimeout |-> Below(1024),
   LowDatarateOptimize |-> {0, 1}, NbTrigPeaks |-> Below(8)]

Byte == SUBSET (0 .. 7)

ASSUME ScopesAssumption ==
  \A f \in Scopes :
    /\ DOMAIN f = Settings \cup Recorded
    /\ \A s \in Settings : f[s] \subseteq Arguments[s]
ASSUME GarbageAssumption == Garbage \subseteq Byte

VARIABLES
  values,               \* the scope of this behaviour
  reg,                  \* the registers; Frf and Preamble are several bytes
  want,                 \* the settings
  up,                   \* SX1276LoRaInit has run
  repowered             \* history: the amplifier was changed after the power

vars == <<values, reg, want, up, repowered>>

Bit(b) == IF b THEN 1 ELSE 0

\* The low byte of the number n.
Bits(n) ==
  LET shifted == <<n, n \div 2, n \div 4, n \div 8, n \div 16, n \div 32,
                   n \div 64, n \div 128>>
  IN  {i \in 0 .. 7 : shifted[i + 1] % 2 = 1}

\* The number whose bits are b.
Num(b) ==
  Bit(0 \in b) + 2 * Bit(1 \in b) + 4 * Bit(2 \in b) + 8 * Bit(3 \in b)
    + 16 * Bit(4 \in b) + 32 * Bit(5 \in b) + 64 * Bit(6 \in b)
    + 128 * Bit(7 \in b)

\* Registers of several bytes, kept as numbers.
Wide == {"Frf", "Preamble"}

TypeOK ==
  /\ DOMAIN reg = Registers /\ DOMAIN want = Settings \cup Recorded
  /\ \A r \in Registers \ Wide : reg[r] \in Byte
  /\ reg["Frf"] \in Below(16777216) /\ reg["Preamble"] \in Below(65536)
  /\ values \in Scopes
  /\ up \in BOOLEAN /\ repowered \in BOOLEAN

\* The bits that a setter keeps.
PaMask == [PaSelect |-> 0 .. 6, MaxPower |-> 0 .. 3 \cup {7},
           OutputPower |-> 4 .. 7, PaRamp |-> 4 .. 7]
Modem1Mask == [Bw |-> 0 .. 3, CodingRate |-> {0} \cup 4 .. 7,
               ImplicitHeader |-> 1 .. 7]
Modem2Mask == [Sf |-> 0 .. 3, RxPayloadCrc |-> 0 .. 7 \ {2},
               SymbTimeoutMsb |-> 2 .. 7]
Modem3Mask == [LowDatarateOptimize |-> 0 .. 7 \ {3}]

Clamp(v, low, high) == IF v < low THEN low ELSE IF v > high THEN high ELSE v

-----------------------------------------------------------------------------
(* Setters: the registers r after the setting v                            *)

\* Mutant: the upper byte of three is lost.
SetRFFrequencyTwoBytes(r, v) ==
  [r EXCEPT !["Frf"] =
     ((v \div 15625) * 256 + ((v % 15625) * 256) \div 15625) % 65536]

\* freq / FREQ_STEP, which is 15625/256 Hz, cut to an integer.
SetRFFrequency(r, v) ==
  [r EXCEPT !["Frf"] =
     ((v \div 15625) * 256 + ((v % 15625) * 256) \div 15625) % 16777216]

\* PABOOST with 20 dBm, PABOOST without, RFO.
PowerOffset(r) ==
  IF 7 \notin r["PaConfig"] THEN -1
  ELSE IF {0, 1, 2, 7} \subseteq r["PaDac"] THEN 5 ELSE 2

ClampPower(r, v) == Clamp(v, PowerOffset(r), PowerOffset(r) + 15)

SetRFPower(r, v) ==
  [r EXCEPT !["PaConfig"] =
     (((@ \cap PaMask.MaxPower) \cup {4, 5, 6}) \cap PaMask.OutputPower)
       \cup (Bits(ClampPower(r, v) - PowerOffset(r)) \cap 0 .. 3)]

\* Mutant: the mask keeps the bandwidth instead of the rest.
SetSignalBandwidthMask(r, v) ==
  [r EXCEPT !["ModemConfig1"] = (@ \cap 4 .. 7) \cup Bits(v * 16)]

SetSignalBandwidth(r, v) ==
  [r EXCEPT !["ModemConfig1"] = (@ \cap Modem1Mask.Bw) \cup Bits(v * 16)]

SetErrorCoding(r, v) ==
  [r EXCEPT !["ModemConfig1"] = (@ \cap Modem1Mask.CodingRate) \cup Bits(v * 2)]

SetImplicitHeaderOn(r, b) ==
  [r EXCEPT !["ModemConfig1"] = (@ \cap Modem1Mask.ImplicitHeader) \cup Bits(b)]

SetNbTrigPeaks(r, v) ==
  [r EXCEPT !["DetectOptimize"] = (@ \cap 3 .. 7) \cup Bits(v)]

SetSpreadingFactor(r, v) ==
  LET sf == Clamp(v, 6, 12)
  IN  [SetNbTrigPeaks(r, IF sf = 6 THEN 5 ELSE 3) EXCEPT
         !["ModemConfig2"] = (@ \cap Modem2Mask.Sf) \cup Bits(sf * 16)]

SetPacketCrcOn(r, b) ==
  [r EXCEPT !["ModemConfig2"] = (@ \cap Modem2Mask.RxPayloadCrc) \cup Bits(b * 4)]

SetSymbTimeout(r, v) ==
  [r EXCEPT !["ModemConfig2"] = (@ \cap Modem2Mask.SymbTimeoutMsb)
                                  \cup (Bits(v \div 256) \cap 0 .. 1),
            !["SymbTimeoutLsb"] = Bits(v)]

SetLowDatarateOptimize(r, b) ==
  [r EXCEPT !["ModemConfig3"] =
     (@ \cap Modem3Mask.LowDatarateOptimize) \cup Bits(b * 8)]

SetPreambleLength(r, v) == [r EXCEPT !["Preamble"] = v % 65536]

SetHopPeriod(r, v) == [r EXCEPT !["HopPeriod"] = Bits(v)]

SetPayloadLength(r, v) == [r EXCEPT !["PayloadLength"] = Bits(v)]

\* With PABOOST there is no branch that switches the 20 dBm off.
SetPa20dBm(r, b) ==
  [r EXCEPT !["PaDac"] = IF 7 \notin r["PaConfig"] THEN {2, 7}
                         ELSE IF b = 1 THEN {0, 1, 2, 7} ELSE @]

SetPAOutput(r, v) ==
  [r EXCEPT !["PaConfig"] = (@ \cap PaMask.PaSelect) \cup Bits(v)]

SetPaRamp(r, v) ==
  [r EXCEPT !["PaRamp"] = (@ \cap PaMask.PaRamp) \cup (Bits(v) \cap 0 .. 3)]

Set(s, r, v) ==
  CASE s = "RFFrequency" -> SetRFFrequency(r, v)
    [] s = "Power" -> SetRFPower(r, v)
    [] s = "SignalBw" -> SetSignalBandwidth(r, v)
    [] s = "SpreadingFactor" -> SetSpreadingFactor(r, v)
    [] s = "ErrorCoding" -> SetErrorCoding(r, v)
    [] s = "CrcOn" -> SetPacketCrcOn(r, v)
    [] s = "ImplicitHeaderOn" -> SetImplicitHeaderOn(r, v)
    [] s = "HopPeriod" -> SetHopPeriod(r, v)
    [] s = "PayloadLength" -> SetPayloadLength(r, v)
    [] s = "PreambleLength" -> SetPreambleLength(r, v)
    [] s = "Pa20dBm" -> SetPa20dBm(r, v)
    [] s = "PAOutput" -> SetPAOutput(r, v)
    [] s = "PaRamp" -> SetPaRamp(r, v)
    [] s = "SymbTimeout" -> SetSymbTimeout(r, v)
    [] s = "LowDatarateOptimize" -> SetLowDatarateOptimize(r, v)
    [] s = "NbTrigPeaks" -> SetNbTrigPeaks(r, v)
    [] s \in Recorded -> r

-----------------------------------------------------------------------------
(* Getters                                                                 *)

\* Register value times FREQ_STEP, cut to an integer.
GetRFFrequency(r) ==
  (r["Frf"] \div 256) * 15625 + ((r["Frf"] % 256) * 15625) \div 256

GetRFPower(r) ==
  Num(r["PaConfig"] \cap 0 .. 3)
    + (IF 7 \notin r["PaConfig"] THEN -1
       ELSE IF 0 .. 2 \subseteq r["PaDac"] THEN 5 ELSE 2)

GetSymbTimeout(r) ==
  256 * Num(r["ModemConfig2"] \cap 0 .. 1) + Num(r["SymbTimeoutLsb"])

GetPa20dBm(r) == Bit(0 .. 2 \subseteq r["PaDac"])

GetHopPeriod(r) == Num(r["HopPeriod"])

GetPayloadLength(r) == Num(r["PayloadLength"])

GetPAOutput(r) == Num(r["PaConfig"] \cap {7})

GetPaRamp(r) == Num(r["PaRamp"] \cap 0 .. 3)

GetLowDatarateOptimize(r) == Bit(3 \in r["ModemConfig3"])

GetNbTrigPeaks(r) == Num(r["DetectOptimize"] \cap 0 .. 2)

Get(s, r) ==
  CASE s = "RFFrequency" -> GetRFFrequency(r)
    [] s = "Power" -> GetRFPower(r)
    [] s = "SignalBw" -> Num(r["ModemConfig1"] \cap 4 .. 7) \div 16
    [] s = "SpreadingFactor" -> Num(r["ModemConfig2"] \cap 4 .. 7) \div 16
    [] s = "ErrorCoding" -> Num(r["ModemConfig1"] \cap 1 .. 3) \div 2
    [] s = "CrcOn" -> Bit(2 \in r["ModemConfig2"])
    [] s = "ImplicitHeaderOn" -> Bit(0 \in r["ModemConfig1"])
    [] s = "HopPeriod" -> GetHopPeriod(r)
    [] s = "PayloadLength" -> GetPayloadLength(r)
    [] s = "PreambleLength" -> r["Preamble"]
    [] s = "Pa20dBm" -> GetPa20dBm(r)
    [] s = "PAOutput" -> GetPAOutput(r)
    [] s = "PaRamp" -> GetPaRamp(r)
    [] s = "SymbTimeout" -> GetSymbTimeout(r)
    [] s = "LowDatarateOptimize" -> GetLowDatarateOptimize(r)
    [] s = "NbTrigPeaks" -> GetNbTrigPeaks(r)

-----------------------------------------------------------------------------

\* What LoRaSettings and the program remember of a setting.
Remember(s, w, r, v) ==
  CASE s = "Power" -> [w EXCEPT !["Power"] = ClampPower(r, v)]
    [] s = "SpreadingFactor" ->
         [w EXCEPT !["SpreadingFactor"] = Clamp(v, 6, 12),
                   !["NbTrigPeaks"] = IF Clamp(v, 6, 12) = 6 THEN 5 ELSE 3]
    [] OTHER -> [w EXCEPT ![s] = v]

\* The registers and the settings after the setting v of s.
After(state, s, v) ==
  [reg |-> Set(s, state.reg, v), want |-> Remember(s, state.want, state.reg, v)]

\* Mutant: the power is set before the amplifier it is for.
PowerSettingsFirst(state) ==
  After(After(After(state, "Power", 20), "PAOutput", 128), "Pa20dBm", 1)

\* The end of SX1276LoRaInit with the LoRaSettings of the build.
PowerSettings(state) ==
  After(After(After(state, "PAOutput", 128), "Pa20dBm", 1), "Power", 20)

\* Its settings of the modem before, in its order.
ModemSettings(state) ==
  LET frequency == After(state, "RFFrequency", 470000000)
      factor == After(frequency, "SpreadingFactor", 7)
      coding == After(factor, "ErrorCoding", 2)
      crc == After(coding, "CrcOn", 1)
      bandwidth == After(crc, "SignalBw", 9)
      header == After(bandwidth, "ImplicitHeaderOn", 0)
      symbols == After(header, "SymbTimeout", 1023)
      length == After(symbols, "PayloadLength", 128)
  IN  After(length, "LowDatarateOptimize", 1)

Init ==
  /\ values \in Scopes
  /\ \E g \in Garbage :
       reg = [r \in Registers |-> IF r \in Wide THEN Num(g) ELSE g]
  /\ want = [s \in Settings \cup Recorded |->
               IF s \in Settings THEN Get(s, reg)
               ELSE IF s \in {"RxSingleOn", "FreqHopOn"} THEN 0 ELSE 100]
  /\ up = FALSE
  /\ repowered = FALSE

LoRaInit ==
  /\ ~up
  /\ LET done == PowerSettings(ModemSettings([reg |-> reg, want |-> want]))
     IN  reg' = done.reg /\ want' = done.want
  /\ up' = TRUE
  /\ UNCHANGED <<values, repowered>>

Change(s) ==
  /\ up
  /\ \E v \in values[s] :
       /\ reg' = Set(s, reg, v)
       /\ want' = Remember(s, want, reg, v)
  /\ repowered' = (s # "Power" /\ (repowered \/ s \in {"Pa20dBm", "PAOutput"}))
  /\ UNCHANGED <<values, up>>

\* The getters of what LoRaSettings holds store what they have read in it.
Read(s) ==
  /\ up
  /\ want' = [want EXCEPT ![s] = Get(s, reg)]
  /\ repowered' = (s # "Power" /\ repowered)
  /\ UNCHANGED <<values, reg, up>>

SettingStep ==
  \/ \E s \in Settings \cup Recorded : Change(s)
  \/ \E s \in {"RFFrequency", "Power"} : Read(s)

-----------------------------------------------------------------------------
(* Properties                                                              *)

\* Settings that share a register do not disturb each other, whatever order
\* they are made in and whatever the register held: each getter returns what
\* its setter was given last, and the registers stay as wide as they are
\* (sx1276-LoRaMisc.c:139-407).
ReadBack ==
  /\ TypeOK
  /\ up => \A s \in Settings \ {"RFFrequency", "Power", "Pa20dBm"} :
             Get(s, reg) = want[s]

\* The power is what was asked for, within what the amplifier of the time
\* can give, until the amplifier is changed (sx1276-LoRaMisc.c:65-137); so
\* after SX1276LoRaInit it is LoRaSettings.Power (sx1276-LoRa.c:187-190).
PowerAsSet == up /\ ~repowered => GetRFPower(reg) = want["Power"]

\* The frequency that is read back is the one that was set, lower by what a
\* step of the synthesizer and the cut to a Hertz lose (sx1276-LoRaMisc.c:45-63).
FrequencyClose ==
  up => want["RFFrequency"] - GetRFFrequency(reg) \in 0 .. 62

\* "Enables/Disables the 20 dBm PA" (sx1276-LoRaMisc.h), with the pin it is
\* there for.
Pa20AsSet ==
  up /\ Get("PAOutput", reg) = 128 /\ want["PAOutput"] = 128 =>
    (want["Pa20dBm"] = 0 => GetPa20dBm(reg) = 0)
=============================================================================
