-------------------------- MODULE RegistersProofs --------------------------
(***************************************************************************)
(* Proofs about Registers and BringUp: for every argument that the setters *)
(* are for, every content of the chip and of the stack, and any number of  *)
(* calls of the kernel that fail.                                          *)
(*                                                                         *)
(* The settings: each setter changes what its own getter reads to what it  *)
(* was given, and nothing that the getter of another setting reads, but    *)
(* that the spreading factor sets the trigger peaks too.  So what is read  *)
(* is what is remembered (Good), from the first registers on, which are    *)
(* remembered as they are.  The power is read with the offset it           *)
(* was set with only if RegPaDac has one of the two values that the        *)
(* program writes (Amplified), because the setter looks at all its bits    *)
(* and the getter at three; the start has written one of them.             *)
(*                                                                         *)
(* The start: the chip ends in standby though the first write to it is     *)
(* suppressed, because the shadow is zero until then and follows every     *)
(* write from then on (ShadowInv, ChipInv); and the block that is written  *)
(* over it is what was read from it, cell by cell, wherever the fields of  *)
(* the shadow are (BlockInv, KeptInv).                                     *)
(***************************************************************************)
EXTENDS BringUp, TLAPS

-----------------------------------------------------------------------------
(* Numbers and their bits                                                  *)

LEMMA BitsAt ==
  ASSUME NEW n \in Int
  PROVE  /\ Bits(n) \in Byte
         /\ 0 \in Bits(n) <=> n % 2 = 1
         /\ 1 \in Bits(n) <=> (n \div 2) % 2 = 1
         /\ 2 \in Bits(n) <=> (n \div 4) % 2 = 1
         /\ 3 \in Bits(n) <=> (n \div 8) % 2 = 1
         /\ 4 \in Bits(n) <=> (n \div 16) % 2 = 1
         /\ 5 \in Bits(n) <=> (n \div 32) % 2 = 1
         /\ 6 \in Bits(n) <=> (n \div 64) % 2 = 1
         /\ 7 \in Bits(n) <=> (n \div 128) % 2 = 1
  BY DEF Bits, Byte

\* A byte is read back from its bits.
LEMMA NumBits ==
  ASSUME NEW n \in Nat, n < 256
  PROVE  Num(Bits(n)) = n
  BY BitsAt DEF Num, Bit

LEMMA NumByte ==
  ASSUME NEW b
  PROVE  Num(b) \in Nat /\ Num(b) < 256
  BY DEF Num, Bit

\* The bits of a number that is small, and of one moved to its field.
LEMMA LowBits ==
  ASSUME NEW n \in Nat
  PROVE  /\ n < 2 => Bits(n) \subseteq {0}
         /\ n < 4 => Bits(n) \subseteq 0 .. 1
         /\ n < 8 => Bits(n) \subseteq 0 .. 2
         /\ n < 16 => Bits(n) \subseteq 0 .. 3
  <1>1. n < 2 => Bits(n) \subseteq {0}
    BY BitsAt DEF Byte
  <1>2. n < 4 => Bits(n) \subseteq 0 .. 1
    BY BitsAt DEF Byte
  <1>3. n < 8 => Bits(n) \subseteq 0 .. 2
    BY BitsAt DEF Byte
  <1>4. n < 16 => Bits(n) \subseteq 0 .. 3
    BY BitsAt DEF Byte
  <1>5. QED
    BY <1>1, <1>2, <1>3, <1>4

LEMMA MovedBits ==
  ASSUME NEW n \in Nat
  PROVE  /\ n < 2 => Bits(n * 4) \subseteq {2} /\ Bits(n * 8) \subseteq {3}
         /\ n < 8 => Bits(n * 2) \subseteq 1 .. 3
         /\ n < 16 => Bits(n * 16) \subseteq 4 .. 7
  <1>1. n < 2 => Bits(n * 4) \subseteq {2}
    BY BitsAt DEF Byte
  <1>2. n < 2 => Bits(n * 8) \subseteq {3}
    BY BitsAt DEF Byte
  <1>3. n < 8 => Bits(n * 2) \subseteq 1 .. 3
    BY BitsAt DEF Byte
  <1>4. n < 16 => Bits(n * 16) \subseteq 4 .. 7
    <2>1. SUFFICES ASSUME n < 16
                   PROVE  Bits(n * 16) \subseteq 4 .. 7
      OBVIOUS
    <2>2. /\ (n * 16) % 2 = 0 /\ ((n * 16) \div 2) % 2 = 0
          /\ ((n * 16) \div 4) % 2 = 0 /\ ((n * 16) \div 8) % 2 = 0
      BY <2>1
    <2>3. QED
      BY <2>2, BitsAt DEF Byte
  <1>5. QED
    BY <1>1, <1>2, <1>3, <1>4

\* What lies above the low byte is not in it.
LEMMA BitsOfLow ==
  ASSUME NEW n \in Nat, n < 1024
  PROVE  Num(Bits(n)) = n % 256
  <1> DEFINE low == n % 256
             high == n \div 256
  <1>1. n = 256 * high + low /\ low \in Nat /\ low < 256 /\ high \in Nat
    OBVIOUS
  <1>2. high < 4
    BY <1>1
  <1> HIDE DEF low, high
  <1>3. n % 2 = low % 2
    BY <1>1, <1>2
  <1>4. (n \div 2) % 2 = (low \div 2) % 2
    BY <1>1, <1>2
  <1>5. (n \div 4) % 2 = (low \div 4) % 2
    BY <1>1, <1>2
  <1>6. (n \div 8) % 2 = (low \div 8) % 2
    BY <1>1, <1>2
  <1>7. (n \div 16) % 2 = (low \div 16) % 2
    BY <1>1, <1>2
  <1>8. (n \div 32) % 2 = (low \div 32) % 2
    BY <1>1, <1>2
  <1>9. (n \div 64) % 2 = (low \div 64) % 2
    BY <1>1, <1>2
  <1>10. (n \div 128) % 2 = (low \div 128) % 2
    BY <1>1, <1>2
  <1>11. Bits(n) = Bits(low)
    <2>1. \A i \in 0 .. 7 : i \in Bits(n) <=> i \in Bits(low)
      BY <1>1, BitsAt, <1>3, <1>4, <1>5, <1>6, <1>7, <1>8, <1>9, <1>10
    <2>2. Bits(n) \subseteq 0 .. 7 /\ Bits(low) \subseteq 0 .. 7
      BY <1>1, BitsAt DEF Byte
    <2>3. QED
      BY <2>1, <2>2
  <1>12. QED
    BY <1>1, <1>11, NumBits DEF low

-----------------------------------------------------------------------------
(* Registers and getters                                                   *)

\* The settings that ReadBack is about.
Checked == Settings \ {"RFFrequency", "Power", "Pa20dBm"}

\* Registers of the chip.
Typed(r) ==
  /\ DOMAIN r = Registers
  /\ \A x \in Registers \ Wide : r[x] \in Byte
  /\ r["Frf"] \in Below(16777216) /\ r["Preamble"] \in Below(65536)

\* Where a setting is kept.
Home ==
  [SignalBw |-> {"ModemConfig1"}, SpreadingFactor |-> {"ModemConfig2"},
   ErrorCoding |-> {"ModemConfig1"}, CrcOn |-> {"ModemConfig2"},
   ImplicitHeaderOn |-> {"ModemConfig1"}, HopPeriod |-> {"HopPeriod"},
   PayloadLength |-> {"PayloadLength"}, PreambleLength |-> {"Preamble"},
   PAOutput |-> {"PaConfig"}, PaRamp |-> {"PaRamp"},
   SymbTimeout |-> {"ModemConfig2", "SymbTimeoutLsb"},
   LowDatarateOptimize |-> {"ModemConfig3"},
   NbTrigPeaks |-> {"DetectOptimize"}]

\* A setting is what it was where its registers are.
LEMMA Elsewhere ==
  ASSUME NEW r, NEW q, NEW changed, \A x \in Registers \ changed : q[x] = r[x]
  PROVE  \A s \in Checked : Home[s] \cap changed = {} => Get(s, q) = Get(s, r)
  <1>1. Home["SignalBw"] \cap changed = {}
          => Get("SignalBw", q) = Get("SignalBw", r)
    BY SMT DEF Home, Registers, Get
  <1>2. Home["SpreadingFactor"] \cap changed = {}
          => Get("SpreadingFactor", q) = Get("SpreadingFactor", r)
    <2>1. Home["SpreadingFactor"] = {"ModemConfig2"}
      BY SMT DEF Home
    <2>2. "ModemConfig2" \notin changed => q["ModemConfig2"] = r["ModemConfig2"]
      BY DEF Registers
    <2>3. "ModemConfig2" \notin changed
            => Get("SpreadingFactor", q) = Get("SpreadingFactor", r)
      BY <2>2, SMT DEF Get
    <2>4. QED
      BY <2>1, <2>3
  <1>3. Home["ErrorCoding"] \cap changed = {}
          => Get("ErrorCoding", q) = Get("ErrorCoding", r)
    <2>1. Home["ErrorCoding"] = {"ModemConfig1"}
      BY SMT DEF Home
    <2>2. "ModemConfig1" \notin changed => q["ModemConfig1"] = r["ModemConfig1"]
      BY DEF Registers
    <2>3. "ModemConfig1" \notin changed
            => Get("ErrorCoding", q) = Get("ErrorCoding", r)
      BY <2>2, SMT DEF Get
    <2>4. QED
      BY <2>1, <2>3
  <1>4. Home["CrcOn"] \cap changed = {} => Get("CrcOn", q) = Get("CrcOn", r)
    BY SMT DEF Home, Registers, Get
  <1>5. Home["ImplicitHeaderOn"] \cap changed = {}
          => Get("ImplicitHeaderOn", q) = Get("ImplicitHeaderOn", r)
    BY SMT DEF Home, Registers, Get
  <1>6. Home["HopPeriod"] \cap changed = {}
          => Get("HopPeriod", q) = Get("HopPeriod", r)
    BY SMT DEF Home, Registers, Get, GetHopPeriod
  <1>7. Home["PayloadLength"] \cap changed = {}
          => Get("PayloadLength", q) = Get("PayloadLength", r)
    BY SMT DEF Home, Registers, Get, GetPayloadLength
  <1>8. Home["PreambleLength"] \cap changed = {}
          => Get("PreambleLength", q) = Get("PreambleLength", r)
    BY SMT DEF Home, Registers, Get
  <1>9. Home["PAOutput"] \cap changed = {}
          => Get("PAOutput", q) = Get("PAOutput", r)
    BY SMT DEF Home, Registers, Get, GetPAOutput
  <1>10. Home["PaRamp"] \cap changed = {} => Get("PaRamp", q) = Get("PaRamp", r)
    BY SMT DEF Home, Registers, Get, GetPaRamp
  <1>11. Home["SymbTimeout"] \cap changed = {}
           => Get("SymbTimeout", q) = Get("SymbTimeout", r)
    BY SMT DEF Home, Registers, Get, GetSymbTimeout
  <1>12. Home["LowDatarateOptimize"] \cap changed = {}
           => Get("LowDatarateOptimize", q) = Get("LowDatarateOptimize", r)
    BY SMT DEF Home, Registers, Get, GetLowDatarateOptimize
  <1>13. Home["NbTrigPeaks"] \cap changed = {}
           => Get("NbTrigPeaks", q) = Get("NbTrigPeaks", r)
    BY SMT DEF Home, Registers, Get, GetNbTrigPeaks
  <1>14. QED
    BY <1>1, <1>2, <1>3, <1>4, <1>5, <1>6, <1>7, <1>8, <1>9, <1>10, <1>11, <1>12, <1>13
    DEF Checked, Settings

-----------------------------------------------------------------------------
(* Setters                                                                 *)

\* The registers q are r after the setting v of s, and no other changed.
Sets(s, r, q, v) ==
  /\ Typed(q)
  /\ \A x \in Registers \ Home[s] : q[x] = r[x]
  /\ \A t \in Checked \ {s} : Get(t, q) = Get(t, r)
  /\ Get(s, q) = v


LEMMA SignalBwSets ==
  ASSUME NEW r, Typed(r), NEW v \in Arguments.SignalBw
  PROVE  Sets("SignalBw", r, SetSignalBandwidth(r, v), v)
  <1> DEFINE old == r["ModemConfig1"]
             new == (old \cap 0 .. 3) \cup Bits(v * 16)
             q == SetSignalBandwidth(r, v)
  <1>1. v \in Nat /\ v < 10
    BY DEF Arguments, Below
  <1>2. Bits(v * 16) \subseteq 4 .. 7 /\ Bits(v * 16) \in Byte
    BY <1>1, MovedBits, BitsAt
  <1>3. old \in Byte /\ "ModemConfig1" \in Registers \ Wide
    BY DEF Typed, Registers, Wide
  <1>4. new \in Byte
    BY <1>2, <1>3 DEF Byte
  <1>5. q = [r EXCEPT !["ModemConfig1"] = new]
    BY DEF SetSignalBandwidth, Modem1Mask, Typed, Registers
  <1>6. /\ Typed(q) /\ q["ModemConfig1"] = new
        /\ \A x \in Registers \ {"ModemConfig1"} : q[x] = r[x]
    <2> HIDE DEF new, q
    <2>1. q["ModemConfig1"] = new
          /\ \A x \in Registers \ {"ModemConfig1"} : q[x] = r[x]
      BY <1>5 DEF Typed, Registers
    <2>2. Typed(q)
      BY <1>4, <1>5 DEF Typed, Registers, Wide
    <2>3. QED
      BY <2>1, <2>2
  <1> HIDE DEF q
  <1>7. Get("ErrorCoding", q) = Get("ErrorCoding", r)
    <2>1. q["ModemConfig1"] \cap 1 .. 3 = old \cap 1 .. 3
      BY <1>2, <1>6
    <2>2. /\ Get("ErrorCoding", q) = Num(q["ModemConfig1"] \cap 1 .. 3) \div 2
          /\ Get("ErrorCoding", r) = Num(old \cap 1 .. 3) \div 2
      BY SMT DEF Get
    <2>3. QED
      BY <2>1, <2>2
  <1>8. Get("ImplicitHeaderOn", q) = Get("ImplicitHeaderOn", r)
    <2>1. 0 \in q["ModemConfig1"] <=> 0 \in old
      BY <1>2, <1>6
    <2>2. /\ Get("ImplicitHeaderOn", q) = Bit(0 \in q["ModemConfig1"])
          /\ Get("ImplicitHeaderOn", r) = Bit(0 \in old)
      BY SMT DEF Get
    <2>3. QED
      BY <2>1, <2>2 DEF Bit
  <1>9. Get("SignalBw", q) = v
    <2>1. q["ModemConfig1"] \cap 4 .. 7 = Bits(v * 16)
      BY <1>2, <1>6
    <2>2. Num(Bits(v * 16)) = v * 16
      BY <1>1, NumBits
    <2>3. Get("SignalBw", q) = Num(q["ModemConfig1"] \cap 4 .. 7) \div 16
      BY SMT DEF Get
    <2>4. (v * 16) \div 16 = v
      BY <1>1
    <2>5. Num(q["ModemConfig1"] \cap 4 .. 7) = v * 16
      BY <2>1, <2>2
    <2>6. QED
      BY <2>3, <2>4, <2>5
  <1>10. \A t \in Checked \ {"SignalBw", "ErrorCoding", "ImplicitHeaderOn"} :
           Get(t, q) = Get(t, r)
    <2>1. \A t \in Checked : Home[t] \cap {"ModemConfig1"} = {}
            => Get(t, q) = Get(t, r)
      BY <1>6, Elsewhere
    <2>2. QED
      BY <2>1 DEF Checked, Settings, Home
  <1>11. QED
    BY <1>6, <1>7, <1>8, <1>9, <1>10 DEF Sets, Home, q

LEMMA ErrorCodingSets ==
  ASSUME NEW r, Typed(r), NEW v \in Arguments.ErrorCoding
  PROVE  Sets("ErrorCoding", r, SetErrorCoding(r, v), v)
  <1> DEFINE old == r["ModemConfig1"]
             new == (old \cap Modem1Mask.CodingRate) \cup Bits(v * 2)
             q == SetErrorCoding(r, v)
  <1>1. v \in Nat /\ v < 8
    BY DEF Arguments
  <1>2. Bits(v * 2) \subseteq 1 .. 3 /\ Bits(v * 2) \in Byte
        /\ Modem1Mask.CodingRate = {0} \cup 4 .. 7
    BY <1>1, MovedBits, BitsAt DEF Modem1Mask
  <1>3. old \in Byte /\ "ModemConfig1" \in Registers \ Wide
    BY DEF Typed, Registers, Wide
  <1>4. new \in Byte
    BY <1>2, <1>3 DEF Byte
  <1>5. q = [r EXCEPT !["ModemConfig1"] = new]
    BY DEF SetErrorCoding, Typed, Registers
  <1>6. /\ Typed(q) /\ q["ModemConfig1"] = new
        /\ \A x \in Registers \ {"ModemConfig1"} : q[x] = r[x]
    <2> HIDE DEF new, q
    <2>1. q["ModemConfig1"] = new
          /\ \A x \in Registers \ {"ModemConfig1"} : q[x] = r[x]
      BY <1>5 DEF Typed, Registers
    <2>2. Typed(q)
      BY <1>4, <1>5 DEF Typed, Registers, Wide
    <2>3. QED
      BY <2>1, <2>2
  <1> HIDE DEF q
  <1>7. Get("SignalBw", q) = Get("SignalBw", r)
    <2>1. q["ModemConfig1"] \cap 4 .. 7 = old \cap 4 .. 7
      BY <1>2, <1>6
    <2>2. /\ Get("SignalBw", q) = Num(q["ModemConfig1"] \cap 4 .. 7) \div 16
          /\ Get("SignalBw", r) = Num(old \cap 4 .. 7) \div 16
      BY SMT DEF Get
    <2>3. QED
      BY <2>1, <2>2
  <1>8. Get("ImplicitHeaderOn", q) = Get("ImplicitHeaderOn", r)
    <2>1. 0 \in q["ModemConfig1"] <=> 0 \in old
      BY <1>2, <1>6
    <2>2. /\ Get("ImplicitHeaderOn", q) = Bit(0 \in q["ModemConfig1"])
          /\ Get("ImplicitHeaderOn", r) = Bit(0 \in old)
      BY SMT DEF Get
    <2>3. QED
      BY <2>1, <2>2 DEF Bit
  <1>9. Get("ErrorCoding", q) = v
    <2>1. q["ModemConfig1"] \cap 1 .. 3 = Bits(v * 2)
      BY <1>2, <1>6
    <2>2. Num(Bits(v * 2)) = v * 2
      BY <1>1, NumBits
    <2>3. Get("ErrorCoding", q) = Num(q["ModemConfig1"] \cap 1 .. 3) \div 2
      BY SMT DEF Get
    <2>4. (v * 2) \div 2 = v
      BY <1>1
    <2>5. Num(q["ModemConfig1"] \cap 1 .. 3) = v * 2
      BY <2>1, <2>2
    <2>6. QED
      BY <2>3, <2>4, <2>5
  <1>10. \A t \in Checked \ {"ErrorCoding", "SignalBw", "ImplicitHeaderOn"} :
           Get(t, q) = Get(t, r)
    <2>1. \A t \in Checked : Home[t] \cap {"ModemConfig1"} = {}
            => Get(t, q) = Get(t, r)
      BY <1>6, Elsewhere
    <2>2. QED
      BY <2>1 DEF Checked, Settings, Home
  <1>11. QED
    BY <1>6, <1>7, <1>8, <1>9, <1>10 DEF Sets, Home, q

LEMMA ImplicitHeaderOnSets ==
  ASSUME NEW r, Typed(r), NEW v \in Arguments.ImplicitHeaderOn
  PROVE  Sets("ImplicitHeaderOn", r, SetImplicitHeaderOn(r, v), v)
  <1> DEFINE old == r["ModemConfig1"]
             new == (old \cap 1 .. 7) \cup Bits(v)
             q == SetImplicitHeaderOn(r, v)
  <1>1. v \in Nat /\ v < 2
    BY DEF Arguments
  <1>2. Bits(v) \subseteq {0} /\ Bits(v) \in Byte
    BY <1>1, LowBits, BitsAt
  <1>3. old \in Byte /\ "ModemConfig1" \in Registers \ Wide
    BY DEF Typed, Registers, Wide
  <1>4. new \in Byte
    BY <1>2, <1>3 DEF Byte
  <1>5. q = [r EXCEPT !["ModemConfig1"] = new]
    BY DEF SetImplicitHeaderOn, Modem1Mask, Typed, Registers
  <1>6. /\ Typed(q) /\ q["ModemConfig1"] = new
        /\ \A x \in Registers \ {"ModemConfig1"} : q[x] = r[x]
    <2> HIDE DEF new, q
    <2>1. q["ModemConfig1"] = new
          /\ \A x \in Registers \ {"ModemConfig1"} : q[x] = r[x]
      BY <1>5 DEF Typed, Registers
    <2>2. Typed(q)
      BY <1>4, <1>5 DEF Typed, Registers, Wide
    <2>3. QED
      BY <2>1, <2>2
  <1> HIDE DEF q
  <1>7. Get("SignalBw", q) = Get("SignalBw", r)
    <2>1. q["ModemConfig1"] \cap 4 .. 7 = old \cap 4 .. 7
      BY <1>2, <1>6
    <2>2. /\ Get("SignalBw", q) = Num(q["ModemConfig1"] \cap 4 .. 7) \div 16
          /\ Get("SignalBw", r) = Num(old \cap 4 .. 7) \div 16
      BY SMT DEF Get
    <2>3. QED
      BY <2>1, <2>2
  <1>8. Get("ErrorCoding", q) = Get("ErrorCoding", r)
    <2>1. q["ModemConfig1"] \cap 1 .. 3 = old \cap 1 .. 3
      BY <1>2, <1>6
    <2>2. /\ Get("ErrorCoding", q) = Num(q["ModemConfig1"] \cap 1 .. 3) \div 2
          /\ Get("ErrorCoding", r) = Num(old \cap 1 .. 3) \div 2
      BY SMT DEF Get
    <2>3. QED
      BY <2>1, <2>2
  <1>9. Get("ImplicitHeaderOn", q) = v
    <2>1. 0 \in q["ModemConfig1"] <=> v = 1
      BY <1>1, <1>2, <1>6, BitsAt
    <2>2. Get("ImplicitHeaderOn", q) = Bit(0 \in q["ModemConfig1"])
      BY SMT DEF Get
    <2>3. QED
      BY <1>1, <2>1, <2>2 DEF Bit
  <1>10. \A t \in Checked \ {"ImplicitHeaderOn", "SignalBw", "ErrorCoding"} :
           Get(t, q) = Get(t, r)
    <2>1. \A t \in Checked : Home[t] \cap {"ModemConfig1"} = {}
            => Get(t, q) = Get(t, r)
      BY <1>6, Elsewhere
    <2>2. QED
      BY <2>1 DEF Checked, Settings, Home
  <1>11. QED
    BY <1>6, <1>7, <1>8, <1>9, <1>10 DEF Sets, Home, q

LEMMA CrcOnSets ==
  ASSUME NEW r, Typed(r), NEW v \in Arguments.CrcOn
  PROVE  Sets("CrcOn", r, SetPacketCrcOn(r, v), v)
  <1> DEFINE old == r["ModemConfig2"]
             new == (old \cap (0 .. 7 \ {2})) \cup Bits(v * 4)
             q == SetPacketCrcOn(r, v)
  <1>1. v \in Nat /\ v < 2
    BY DEF Arguments
  <1>2. Bits(v * 4) \subseteq {2} /\ Bits(v * 4) \in Byte
    BY <1>1, MovedBits, BitsAt
  <1>3. old \in Byte /\ "ModemConfig2" \in Registers \ Wide
    BY DEF Typed, Registers, Wide
  <1>4. new \in Byte
    BY <1>2, <1>3 DEF Byte
  <1>5. q = [r EXCEPT !["ModemConfig2"] = new]
    BY DEF SetPacketCrcOn, Modem2Mask, Typed, Registers
  <1>6. /\ Typed(q) /\ q["ModemConfig2"] = new
        /\ \A x \in Registers \ {"ModemConfig2"} : q[x] = r[x]
    <2> HIDE DEF new, q
    <2>1. q["ModemConfig2"] = new
          /\ \A x \in Registers \ {"ModemConfig2"} : q[x] = r[x]
      BY <1>5 DEF Typed, Registers
    <2>2. Typed(q)
      BY <1>4, <1>5 DEF Typed, Registers, Wide
    <2>3. QED
      BY <2>1, <2>2
  <1> HIDE DEF q
  <1>7. Get("SpreadingFactor", q) = Get("SpreadingFactor", r)
    <2>1. q["ModemConfig2"] \cap 4 .. 7 = old \cap 4 .. 7
      BY <1>2, <1>6
    <2>2. /\ Get("SpreadingFactor", q) = Num(q["ModemConfig2"] \cap 4 .. 7) \div 16
          /\ Get("SpreadingFactor", r) = Num(old \cap 4 .. 7) \div 16
      BY SMT DEF Get
    <2>3. QED
      BY <2>1, <2>2
  <1>8. Get("SymbTimeout", q) = Get("SymbTimeout", r)
    <2>1. q["SymbTimeoutLsb"] = r["SymbTimeoutLsb"]
      BY <1>6 DEF Registers
    <2>2. q["ModemConfig2"] \cap 0 .. 1 = old \cap 0 .. 1
      BY <1>2, <1>6
    <2>3. QED
      BY <2>1, <2>2, SMT DEF Get, GetSymbTimeout
  <1>9. Get("CrcOn", q) = v
    <2>1. 2 \in q["ModemConfig2"] <=> v = 1
      BY <1>1, <1>2, <1>6, BitsAt
    <2>2. Get("CrcOn", q) = Bit(2 \in q["ModemConfig2"])
      BY SMT DEF Get
    <2>3. QED
      BY <1>1, <2>1, <2>2 DEF Bit
  <1>10. \A t \in Checked \ {"CrcOn", "SpreadingFactor", "SymbTimeout"} :
           Get(t, q) = Get(t, r)
    <2>1. \A t \in Checked : Home[t] \cap {"ModemConfig2"} = {}
            => Get(t, q) = Get(t, r)
      BY <1>6, Elsewhere
    <2>2. QED
      BY <2>1 DEF Checked, Settings, Home
  <1>11. QED
    BY <1>6, <1>7, <1>8, <1>9, <1>10 DEF Sets, Home, q

LEMMA LowDatarateOptimizeSets ==
  ASSUME NEW r, Typed(r), NEW v \in Arguments.LowDatarateOptimize
  PROVE  Sets("LowDatarateOptimize", r, SetLowDatarateOptimize(r, v), v)
  <1> DEFINE old == r["ModemConfig3"]
             new == (old \cap (0 .. 7 \ {3})) \cup Bits(v * 8)
             q == SetLowDatarateOptimize(r, v)
  <1>1. v \in Nat /\ v < 2
    BY DEF Arguments
  <1>2. Bits(v * 8) \subseteq {3} /\ Bits(v * 8) \in Byte
    BY <1>1, MovedBits, BitsAt
  <1>3. old \in Byte /\ "ModemConfig3" \in Registers \ Wide
    BY DEF Typed, Registers, Wide
  <1>4. new \in Byte
    BY <1>2, <1>3 DEF Byte
  <1>5. q = [r EXCEPT !["ModemConfig3"] = new]
    BY DEF SetLowDatarateOptimize, Modem3Mask, Typed, Registers
  <1>6. /\ Typed(q) /\ q["ModemConfig3"] = new
        /\ \A x \in Registers \ {"ModemConfig3"} : q[x] = r[x]
    <2> HIDE DEF new, q
    <2>1. q["ModemConfig3"] = new
          /\ \A x \in Registers \ {"ModemConfig3"} : q[x] = r[x]
      BY <1>5 DEF Typed, Registers
    <2>2. Typed(q)
      BY <1>4, <1>5 DEF Typed, Registers, Wide
    <2>3. QED
      BY <2>1, <2>2
  <1> HIDE DEF q
  <1>7. Get("LowDatarateOptimize", q) = v
    <2>1. 3 \in q["ModemConfig3"] <=> v = 1
      BY <1>1, <1>2, <1>6, BitsAt
    <2>2. Get("LowDatarateOptimize", q) = Bit(3 \in q["ModemConfig3"])
      BY SMT DEF Get, GetLowDatarateOptimize
    <2>3. QED
      BY <1>1, <2>1, <2>2 DEF Bit
  <1>8. \A t \in Checked \ {"LowDatarateOptimize"} : Get(t, q) = Get(t, r)
    <2>1. \A t \in Checked : Home[t] \cap {"ModemConfig3"} = {}
            => Get(t, q) = Get(t, r)
      BY <1>6, Elsewhere
    <2>2. QED
      BY <2>1 DEF Checked, Settings, Home
  <1>9. QED
    BY <1>6, <1>7, <1>8 DEF Sets, Home, q

LEMMA NbTrigPeaksSets ==
  ASSUME NEW r, Typed(r), NEW v \in Arguments.NbTrigPeaks
  PROVE  Sets("NbTrigPeaks", r, SetNbTrigPeaks(r, v), v)
  <1> DEFINE old == r["DetectOptimize"]
             new == (old \cap 3 .. 7) \cup Bits(v)
             q == SetNbTrigPeaks(r, v)
  <1>1. v \in Nat /\ v < 8
    BY DEF Arguments, Below
  <1>2. Bits(v) \subseteq 0 .. 2 /\ Bits(v) \in Byte
    BY <1>1, LowBits, BitsAt
  <1>3. old \in Byte /\ "DetectOptimize" \in Registers \ Wide
    BY DEF Typed, Registers, Wide
  <1>4. new \in Byte
    BY <1>2, <1>3 DEF Byte
  <1>5. q = [r EXCEPT !["DetectOptimize"] = new]
    BY DEF SetNbTrigPeaks, Typed, Registers
  <1>6. /\ Typed(q) /\ q["DetectOptimize"] = new
        /\ \A x \in Registers \ {"DetectOptimize"} : q[x] = r[x]
    <2> HIDE DEF new, q
    <2>1. q["DetectOptimize"] = new
          /\ \A x \in Registers \ {"DetectOptimize"} : q[x] = r[x]
      BY <1>5 DEF Typed, Registers
    <2>2. Typed(q)
      BY <1>4, <1>5 DEF Typed, Registers, Wide
    <2>3. QED
      BY <2>1, <2>2
  <1> HIDE DEF q
  <1>7. Get("NbTrigPeaks", q) = v
    <2>1. q["DetectOptimize"] \cap 0 .. 2 = Bits(v)
      BY <1>2, <1>6
    <2>2. Num(Bits(v)) = v
      BY <1>1, NumBits
    <2>3. Get("NbTrigPeaks", q) = Num(q["DetectOptimize"] \cap 0 .. 2)
      BY SMT DEF Get, GetNbTrigPeaks
    <2>4. (v) = v
      BY <1>1
    <2>5. Num(q["DetectOptimize"] \cap 0 .. 2) = v
      BY <2>1, <2>2
    <2>6. QED
      BY <2>3, <2>4, <2>5
  <1>8. \A t \in Checked \ {"NbTrigPeaks"} : Get(t, q) = Get(t, r)
    <2>1. \A t \in Checked : Home[t] \cap {"DetectOptimize"} = {}
            => Get(t, q) = Get(t, r)
      BY <1>6, Elsewhere
    <2>2. QED
      BY <2>1 DEF Checked, Settings, Home
  <1>9. QED
    BY <1>6, <1>7, <1>8 DEF Sets, Home, q

LEMMA HopPeriodSets ==
  ASSUME NEW r, Typed(r), NEW v \in Arguments.HopPeriod
  PROVE  Sets("HopPeriod", r, SetHopPeriod(r, v), v)
  <1> DEFINE old == r["HopPeriod"]
             new == Bits(v)
             q == SetHopPeriod(r, v)
  <1>1. v \in Nat /\ v < 256
    BY DEF Arguments, Below
  <1>2. Bits(v) \in Byte
    BY <1>1, BitsAt
  <1>3. old \in Byte /\ "HopPeriod" \in Registers \ Wide
    BY DEF Typed, Registers, Wide
  <1>4. new \in Byte
    BY <1>2, <1>3 DEF Byte
  <1>5. q = [r EXCEPT !["HopPeriod"] = new]
    BY DEF SetHopPeriod, Typed, Registers
  <1>6. /\ Typed(q) /\ q["HopPeriod"] = new
        /\ \A x \in Registers \ {"HopPeriod"} : q[x] = r[x]
    <2> HIDE DEF new, q
    <2>1. q["HopPeriod"] = new /\ \A x \in Registers \ {"HopPeriod"} : q[x] = r[x]
      BY <1>3, <1>5 DEF Typed
    <2>2. Typed(q)
      BY <1>3, <1>4, <1>5, <2>1 DEF Typed, Registers, Wide
    <2>3. QED
      BY <2>1, <2>2
  <1> HIDE DEF q
  <1>7. Get("HopPeriod", q) = v
    <2>1. Get("HopPeriod", q) = Num(q["HopPeriod"])
      BY SMT DEF Get, GetHopPeriod
    <2>2. QED
      BY <1>1, <1>6, <2>1, NumBits
  <1>8. \A t \in Checked \ {"HopPeriod"} : Get(t, q) = Get(t, r)
    <2>1. \A t \in Checked : Home[t] \cap {"HopPeriod"} = {}
            => Get(t, q) = Get(t, r)
      BY <1>6, Elsewhere
    <2>2. QED
      BY <2>1 DEF Checked, Settings, Home
  <1>9. QED
    BY <1>6, <1>7, <1>8 DEF Sets, Home, q

LEMMA PayloadLengthSets ==
  ASSUME NEW r, Typed(r), NEW v \in Arguments.PayloadLength
  PROVE  Sets("PayloadLength", r, SetPayloadLength(r, v), v)
  <1> DEFINE old == r["PayloadLength"]
             new == Bits(v)
             q == SetPayloadLength(r, v)
  <1>1. v \in Nat /\ v < 256
    BY DEF Arguments, Below
  <1>2. Bits(v) \in Byte
    BY <1>1, BitsAt
  <1>3. old \in Byte /\ "PayloadLength" \in Registers \ Wide
    BY DEF Typed, Registers, Wide
  <1>4. new \in Byte
    BY <1>2, <1>3 DEF Byte
  <1>5. q = [r EXCEPT !["PayloadLength"] = new]
    BY DEF SetPayloadLength, Typed, Registers
  <1>6. /\ Typed(q) /\ q["PayloadLength"] = new
        /\ \A x \in Registers \ {"PayloadLength"} : q[x] = r[x]
    <2> HIDE DEF new, q
    <2>1. q["PayloadLength"] = new
          /\ \A x \in Registers \ {"PayloadLength"} : q[x] = r[x]
      BY <1>3, <1>5 DEF Typed
    <2>2. Typed(q)
      BY <1>3, <1>4, <1>5, <2>1 DEF Typed, Registers, Wide
    <2>3. QED
      BY <2>1, <2>2
  <1> HIDE DEF q
  <1>7. Get("PayloadLength", q) = v
    <2>1. Get("PayloadLength", q) = Num(q["PayloadLength"])
      BY SMT DEF Get, GetPayloadLength
    <2>2. QED
      BY <1>1, <1>6, <2>1, NumBits
  <1>8. \A t \in Checked \ {"PayloadLength"} : Get(t, q) = Get(t, r)
    <2>1. \A t \in Checked : Home[t] \cap {"PayloadLength"} = {}
            => Get(t, q) = Get(t, r)
      BY <1>6, Elsewhere
    <2>2. QED
      BY <2>1 DEF Checked, Settings, Home
  <1>9. QED
    BY <1>6, <1>7, <1>8 DEF Sets, Home, q

LEMMA PaRampSets ==
  ASSUME NEW r, Typed(r), NEW v \in Arguments.PaRamp
  PROVE  Sets("PaRamp", r, SetPaRamp(r, v), v)
  <1> DEFINE old == r["PaRamp"]
             new == (old \cap 4 .. 7) \cup (Bits(v) \cap 0 .. 3)
             q == SetPaRamp(r, v)
  <1>1. v \in Nat /\ v < 16
    BY DEF Arguments, Below
  <1>2. Bits(v) \subseteq 0 .. 3 /\ Bits(v) \in Byte
    BY <1>1, LowBits, BitsAt
  <1>3. old \in Byte /\ "PaRamp" \in Registers \ Wide
    BY DEF Typed, Registers, Wide
  <1>4. new \in Byte
    BY <1>2, <1>3 DEF Byte
  <1>5. q = [r EXCEPT !["PaRamp"] = new]
    BY DEF SetPaRamp, PaMask, Typed, Registers
  <1>6. /\ Typed(q) /\ q["PaRamp"] = new
        /\ \A x \in Registers \ {"PaRamp"} : q[x] = r[x]
    <2> HIDE DEF new, q
    <2>1. q["PaRamp"] = new /\ \A x \in Registers \ {"PaRamp"} : q[x] = r[x]
      BY <1>3, <1>5 DEF Typed
    <2>2. Typed(q)
      BY <1>3, <1>4, <1>5, <2>1 DEF Typed, Registers, Wide
    <2>3. QED
      BY <2>1, <2>2
  <1> HIDE DEF q
  <1>7. Get("PaRamp", q) = v
    <2>1. q["PaRamp"] \cap 0 .. 3 = Bits(v)
      BY <1>2, <1>6
    <2>2. Get("PaRamp", q) = Num(q["PaRamp"] \cap 0 .. 3)
      BY SMT DEF Get, GetPaRamp
    <2>3. QED
      BY <1>1, <2>1, <2>2, NumBits
  <1>8. \A t \in Checked \ {"PaRamp"} : Get(t, q) = Get(t, r)
    <2>1. \A t \in Checked : Home[t] \cap {"PaRamp"} = {} => Get(t, q) = Get(t, r)
      BY <1>6, Elsewhere
    <2>2. QED
      BY <2>1 DEF Checked, Settings, Home
  <1>9. QED
    BY <1>6, <1>7, <1>8 DEF Sets, Home, q

LEMMA PAOutputSets ==
  ASSUME NEW r, Typed(r), NEW v \in Arguments.PAOutput
  PROVE  Sets("PAOutput", r, SetPAOutput(r, v), v)
  <1> DEFINE old == r["PaConfig"]
             new == (old \cap 0 .. 6) \cup Bits(v)
             q == SetPAOutput(r, v)
  <1>1. v \in {0, 128}
    BY DEF Arguments, Below
  <1>2. Bits(v) \subseteq {7} /\ Bits(v) \in Byte
    <2>1. Bits(0) \subseteq {7}
      BY BitsAt DEF Byte
    <2>2. Bits(128) \subseteq {7}
      BY BitsAt DEF Byte
    <2>3. QED
      BY <1>1, <2>1, <2>2, BitsAt
  <1>3. old \in Byte /\ "PaConfig" \in Registers \ Wide
    BY DEF Typed, Registers, Wide
  <1>4. new \in Byte
    BY <1>2, <1>3 DEF Byte
  <1>5. q = [r EXCEPT !["PaConfig"] = new]
    BY DEF SetPAOutput, PaMask, Typed, Registers
  <1>6. /\ Typed(q) /\ q["PaConfig"] = new
        /\ \A x \in Registers \ {"PaConfig"} : q[x] = r[x]
    <2> HIDE DEF new, q
    <2>1. q["PaConfig"] = new /\ \A x \in Registers \ {"PaConfig"} : q[x] = r[x]
      BY <1>3, <1>5 DEF Typed
    <2>2. Typed(q)
      BY <1>3, <1>4, <1>5, <2>1 DEF Typed, Registers, Wide
    <2>3. QED
      BY <2>1, <2>2
  <1> HIDE DEF q
  <1>7. Get("PAOutput", q) = v
    <2>1. q["PaConfig"] \cap {7} = Bits(v)
      BY <1>2, <1>6
    <2>2. Get("PAOutput", q) = Num(q["PaConfig"] \cap {7})
      BY SMT DEF Get, GetPAOutput
    <2>3. QED
      BY <1>1, <2>1, <2>2, NumBits
  <1>8. \A t \in Checked \ {"PAOutput"} : Get(t, q) = Get(t, r)
    <2>1. \A t \in Checked : Home[t] \cap {"PaConfig"} = {}
            => Get(t, q) = Get(t, r)
      BY <1>6, Elsewhere
    <2>2. QED
      BY <2>1 DEF Checked, Settings, Home
  <1>9. QED
    BY <1>6, <1>7, <1>8 DEF Sets, Home, q

LEMMA PreambleLengthSets ==
  ASSUME NEW r, Typed(r), NEW v \in Arguments.PreambleLength
  PROVE  Sets("PreambleLength", r, SetPreambleLength(r, v), v)
  <1> DEFINE q == SetPreambleLength(r, v)
  <1>1. v \in Nat /\ v < 65536 /\ v % 65536 = v
    BY DEF Arguments, Below
  <1>2. q = [r EXCEPT !["Preamble"] = v % 65536]
    BY DEF SetPreambleLength
  <1> HIDE DEF q
  <1>3. q["Preamble"] = v /\ \A x \in Registers \ {"Preamble"} : q[x] = r[x]
    BY <1>1, <1>2 DEF Typed, Registers
  <1>4. Typed(q)
    BY <1>1, <1>2, <1>3 DEF Typed, Registers, Wide, Below
  <1>5. Get("PreambleLength", q) = v
    <2>1. Get("PreambleLength", q) = q["Preamble"]
      BY SMT DEF Get
    <2>2. QED
      BY <1>3, <2>1
  <1>6. \A t \in Checked \ {"PreambleLength"} : Get(t, q) = Get(t, r)
    <2>1. \A t \in Checked : Home[t] \cap {"Preamble"} = {}
            => Get(t, q) = Get(t, r)
      BY <1>3, Elsewhere
    <2>2. QED
      BY <2>1 DEF Checked, Settings, Home
  <1>7. QED
    BY <1>3, <1>4, <1>5, <1>6 DEF Sets, Home, q

LEMMA SymbTimeoutSets ==
  ASSUME NEW r, Typed(r), NEW v \in Arguments.SymbTimeout
  PROVE  Sets("SymbTimeout", r, SetSymbTimeout(r, v), v)
  <1> DEFINE old == r["ModemConfig2"]
             page == v \div 256
             low == v % 256
             high == Bits(page)
             new == (old \cap 2 .. 7) \cup (high \cap 0 .. 1)
             q == SetSymbTimeout(r, v)
  <1>1. v \in Nat /\ v < 1024
    BY DEF Arguments, Below
  <1>2. page \in Nat /\ page < 4 /\ low \in Nat /\ v = 256 * page + low
    <2>1. v = 256 * page + low /\ low \in Nat /\ low < 256 /\ page \in Nat
      BY <1>1
    <2>2. page < 4
      BY <1>1, <2>1
    <2>3. QED
      BY <2>1, <2>2
  <1>3. high \subseteq 0 .. 1 /\ high \in Byte /\ Bits(v) \in Byte
    BY <1>1, <1>2, LowBits, BitsAt
  <1>4. old \in Byte /\ new \in Byte
    BY <1>3 DEF Typed, Registers, Wide, Byte
  <1>5. q = [r EXCEPT !["ModemConfig2"] = new, !["SymbTimeoutLsb"] = Bits(v)]
    BY DEF SetSymbTimeout, Modem2Mask, Typed, Registers
  <1>6. /\ Typed(q) /\ q["ModemConfig2"] = new /\ q["SymbTimeoutLsb"] = Bits(v)
        /\ \A x \in Registers \ {"ModemConfig2", "SymbTimeoutLsb"} : q[x] = r[x]
    <2> HIDE DEF new, q
    <2>1. /\ q["ModemConfig2"] = new /\ q["SymbTimeoutLsb"] = Bits(v)
          /\ \A x \in Registers \ {"ModemConfig2", "SymbTimeoutLsb"} : q[x] = r[x]
      BY <1>5 DEF Typed, Registers
    <2>2. Typed(q)
      BY <1>3, <1>4, <1>5, <2>1 DEF Typed, Registers, Wide
    <2>3. QED
      BY <2>1, <2>2
  <1> HIDE DEF q
  <1>7. Get("SpreadingFactor", q) = Get("SpreadingFactor", r)
    <2>1. q["ModemConfig2"] \cap 4 .. 7 = old \cap 4 .. 7
      BY <1>3, <1>6
    <2>2. /\ Get("SpreadingFactor", q) = Num(q["ModemConfig2"] \cap 4 .. 7) \div 16
          /\ Get("SpreadingFactor", r) = Num(old \cap 4 .. 7) \div 16
      BY SMT DEF Get
    <2>3. QED
      BY <2>1, <2>2
  <1>8. Get("CrcOn", q) = Get("CrcOn", r)
    <2>1. 2 \in q["ModemConfig2"] <=> 2 \in old
      BY <1>3, <1>6
    <2>2. /\ Get("CrcOn", q) = Bit(2 \in q["ModemConfig2"])
          /\ Get("CrcOn", r) = Bit(2 \in old)
      BY SMT DEF Get
    <2>3. QED
      BY <2>1, <2>2 DEF Bit
  <1>9. Get("SymbTimeout", q) = v
    <2>1. q["ModemConfig2"] \cap 0 .. 1 = high
      BY <1>3, <1>6
    <2>2. Num(q["ModemConfig2"] \cap 0 .. 1) = page
      <3> HIDE DEF page
      <3>1. Num(high) = page
        BY <1>2, NumBits
      <3>2. QED
        BY <2>1, <3>1
    <2>3. Num(q["SymbTimeoutLsb"]) = low
      BY <1>1, <1>6, BitsOfLow
    <2>4. Get("SymbTimeout", q) = 256 * Num(q["ModemConfig2"] \cap 0 .. 1)
                                    + Num(q["SymbTimeoutLsb"])
      BY SMT DEF Get, GetSymbTimeout
    <2> HIDE DEF page, low
    <2>5. QED
      BY <1>2, <2>2, <2>3, <2>4
  <1>10. \A t \in Checked \ {"SymbTimeout", "SpreadingFactor", "CrcOn"} :
           Get(t, q) = Get(t, r)
    <2> DEFINE two == {"ModemConfig2", "SymbTimeoutLsb"}
    <2>1. \A x \in Registers \ two : q[x] = r[x]
      BY <1>6
    <2> HIDE DEF two
    <2>2. \A t \in Checked : Home[t] \cap two = {} => Get(t, q) = Get(t, r)
      BY <2>1, Elsewhere
    <2>3. QED
      BY <2>2 DEF Checked, Settings, Home, two
  <1>11. QED
    BY <1>6, <1>7, <1>8, <1>9, <1>10 DEF Sets, Home, q

LEMMA SpreadingFactorSets ==
  ASSUME NEW r, Typed(r), NEW v \in Arguments.SpreadingFactor,
         NEW sf, sf = Clamp(v, 6, 12), NEW peaks, peaks = IF sf = 6 THEN 5 ELSE 3,
         NEW q, q = SetSpreadingFactor(r, v)
  PROVE  /\ Typed(q)
         /\ \A x \in Registers \ {"ModemConfig2", "DetectOptimize"} : q[x] = r[x]
         /\ \A t \in Checked \ {"SpreadingFactor", "NbTrigPeaks"} :
              Get(t, q) = Get(t, r)
         /\ Get("SpreadingFactor", q) = sf /\ Get("NbTrigPeaks", q) = peaks
  <1> DEFINE p == SetNbTrigPeaks(r, peaks)
             old == p["ModemConfig2"]
             new == (old \cap 0 .. 3) \cup Bits(sf * 16)
  <1>1. sf \in Nat /\ sf < 16
    BY DEF Clamp, Arguments, Below
  <1>2. Sets("NbTrigPeaks", r, p, peaks)
    <2>1. peaks \in Arguments.NbTrigPeaks
      BY DEF Arguments, Below
    <2>2. QED
      BY <2>1, NbTrigPeaksSets
  <1>3. Bits(sf * 16) \subseteq 4 .. 7 /\ Bits(sf * 16) \in Byte
    BY <1>1, MovedBits, BitsAt
  <1>4. q = [p EXCEPT !["ModemConfig2"] = new]
    BY DEF SetSpreadingFactor, Modem2Mask
  <1> HIDE DEF p
  <1>5. Typed(p) /\ Get("NbTrigPeaks", p) = peaks
    BY <1>2 DEF Sets
  <1>6. \A x \in Registers \ {"DetectOptimize"} : p[x] = r[x]
    BY <1>2 DEF Sets, Home
  <1>7. \A t \in Checked \ {"NbTrigPeaks"} : Get(t, p) = Get(t, r)
    BY <1>2 DEF Sets
  <1>8. old \in Byte /\ new \in Byte
    BY <1>3, <1>5 DEF Typed, Registers, Wide, Byte
  <1>9. /\ Typed(q) /\ q["ModemConfig2"] = new
        /\ \A x \in Registers \ {"ModemConfig2"} : q[x] = p[x]
    <2> HIDE DEF new
    <2>1. q["ModemConfig2"] = new
          /\ \A x \in Registers \ {"ModemConfig2"} : q[x] = p[x]
      BY <1>4, <1>5 DEF Typed, Registers
    <2>2. Typed(q)
      BY <1>4, <1>5, <1>8, <2>1 DEF Typed, Registers, Wide
    <2>3. QED
      BY <2>1, <2>2
  <1>10. Get("CrcOn", q) = Get("CrcOn", p)
    <2>1. 2 \in q["ModemConfig2"] <=> 2 \in old
      BY <1>3, <1>9
    <2>2. /\ Get("CrcOn", q) = Bit(2 \in q["ModemConfig2"])
          /\ Get("CrcOn", p) = Bit(2 \in old)
      BY SMT DEF Get
    <2>3. QED
      BY <2>1, <2>2 DEF Bit
  <1>11. Get("SymbTimeout", q) = Get("SymbTimeout", p)
    <2>1. q["SymbTimeoutLsb"] = p["SymbTimeoutLsb"]
      BY <1>9 DEF Registers
    <2>2. q["ModemConfig2"] \cap 0 .. 1 = old \cap 0 .. 1
      BY <1>3, <1>9
    <2>3. QED
      BY <2>1, <2>2, SMT DEF Get, GetSymbTimeout
  <1>12. Get("SpreadingFactor", q) = sf
    <2>1. q["ModemConfig2"] \cap 4 .. 7 = Bits(sf * 16)
      BY <1>3, <1>9
    <2>2. Num(Bits(sf * 16)) = sf * 16
      BY <1>1, NumBits
    <2>3. Get("SpreadingFactor", q) = Num(q["ModemConfig2"] \cap 4 .. 7) \div 16
      BY SMT DEF Get
    <2>4. (sf * 16) \div 16 = sf
      BY <1>1
    <2>5. Num(q["ModemConfig2"] \cap 4 .. 7) = sf * 16
      BY <2>1, <2>2
    <2>6. QED
      BY <2>3, <2>4, <2>5
  <1>13. \A t \in Checked \ {"SpreadingFactor", "CrcOn", "SymbTimeout"} :
           Get(t, q) = Get(t, p)
    <2>1. \A t \in Checked : Home[t] \cap {"ModemConfig2"} = {}
            => Get(t, q) = Get(t, p)
      BY <1>9, Elsewhere
    <2>2. QED
      BY <2>1 DEF Checked, Settings, Home
  <1>14. Get("NbTrigPeaks", q) = peaks
    BY <1>5, <1>13 DEF Checked, Settings
  <1>15. \A x \in Registers \ {"ModemConfig2", "DetectOptimize"} : q[x] = r[x]
    BY <1>6, <1>9
  <1>16. \A t \in Checked \ {"SpreadingFactor", "NbTrigPeaks"} :
           Get(t, q) = Get(t, r)
    BY <1>7, <1>10, <1>11, <1>13 DEF Checked
  <1>17. QED
    BY <1>9, <1>12, <1>14, <1>15, <1>16

\* What the program writes in RegPaDac.
Dacs == {{2, 7}, {0, 1, 2, 7}}

\* The power is that of the call, within the range of the amplifier.
LEMMA PowerSets ==
  ASSUME NEW r, Typed(r), NEW v \in Arguments.Power, NEW q, q = SetRFPower(r, v)
  PROVE  /\ Typed(q)
         /\ \A x \in Registers \ {"PaConfig"} : q[x] = r[x]
         /\ \A t \in Checked : Get(t, q) = Get(t, r)
         /\ r["PaDac"] \in Dacs => GetRFPower(q) = ClampPower(r, v)
  <1> DEFINE old == r["PaConfig"]
             least == PowerOffset(r)
             code == ClampPower(r, v) - least
             new == (((old \cap PaMask.MaxPower) \cup {4, 5, 6}) \cap 4 .. 7)
                      \cup (Bits(code) \cap 0 .. 3)
  <1>1. v \in Int /\ least \in Int
    BY DEF Arguments, PowerOffset
  <1>2. code \in Nat /\ code < 16 /\ ClampPower(r, v) = code + least
    <2> HIDE DEF least
    <2>1. QED
      BY <1>1 DEF ClampPower, Clamp, least
  <1>3. q = [r EXCEPT !["PaConfig"] = new]
    BY DEF SetRFPower, PaMask
  <1>4. PaMask.MaxPower = 0 .. 3 \cup {7}
    BY DEF PaMask
  <1> HIDE DEF code, least
  <1>5. Bits(code) \subseteq 0 .. 3 /\ Bits(code) \in Byte
    BY <1>2, LowBits, BitsAt
  <1>6. old \in Byte /\ new \in Byte
    BY <1>5 DEF Typed, Registers, Wide, Byte
  <1>7. /\ Typed(q) /\ q["PaConfig"] = new
        /\ \A x \in Registers \ {"PaConfig"} : q[x] = r[x]
    <2> HIDE DEF new
    <2>1. q["PaConfig"] = new /\ \A x \in Registers \ {"PaConfig"} : q[x] = r[x]
      BY <1>3 DEF Typed, Registers
    <2>2. Typed(q)
      BY <1>3, <1>6, <2>1 DEF Typed, Registers, Wide
    <2>3. QED
      BY <2>1, <2>2
  <1>8. 7 \in new <=> 7 \in old
    BY <1>4, <1>5
  <1>9. Get("PAOutput", q) = Get("PAOutput", r)
    <2>1. q["PaConfig"] \cap {7} = old \cap {7}
      BY <1>7, <1>8
    <2>2. /\ Get("PAOutput", q) = Num(q["PaConfig"] \cap {7})
          /\ Get("PAOutput", r) = Num(old \cap {7})
      BY SMT DEF Get, GetPAOutput
    <2>3. QED
      BY <2>1, <2>2
  <1>10. \A t \in Checked \ {"PAOutput"} : Get(t, q) = Get(t, r)
    <2>1. \A t \in Checked : Home[t] \cap {"PaConfig"} = {}
            => Get(t, q) = Get(t, r)
      BY <1>7, Elsewhere
    <2>2. QED
      BY <2>1 DEF Checked, Settings, Home
  <1>11. ASSUME r["PaDac"] \in Dacs
         PROVE  GetRFPower(q) = ClampPower(r, v)
    <2>1. q["PaDac"] = r["PaDac"]
      BY <1>7 DEF Registers
    <2>2. new \cap 0 .. 3 = Bits(code)
      BY <1>5
    <2>3. Num(q["PaConfig"] \cap 0 .. 3) = code
      <3> HIDE DEF new
      <3>1. QED
        BY <1>2, <1>7, <2>2, NumBits
    <2>4. 0 .. 2 \subseteq r["PaDac"] <=> {0, 1, 2, 7} \subseteq r["PaDac"]
      BY <1>11 DEF Dacs
    <2>5. (IF 7 \notin q["PaConfig"] THEN -1
           ELSE IF 0 .. 2 \subseteq q["PaDac"] THEN 5 ELSE 2) = least
      <3> HIDE DEF new
      <3>1. QED
        BY <1>7, <1>8, <2>1, <2>4 DEF PowerOffset, least
    <2>6. GetRFPower(q) = code + least
      BY <2>3, <2>5 DEF GetRFPower
    <2>7. QED
      BY <1>2, <2>6
  <1>12. QED
    BY <1>7, <1>9, <1>10, <1>11

LEMMA Pa20dBmSets ==
  ASSUME NEW r, Typed(r), NEW v, NEW q, q = SetPa20dBm(r, v)
  PROVE  /\ Typed(q)
         /\ \A x \in Registers \ {"PaDac"} : q[x] = r[x]
         /\ \A t \in Checked : Get(t, q) = Get(t, r)
         /\ r["PaDac"] \in Dacs \/ v = 1 => q["PaDac"] \in Dacs
  <1> DEFINE new == IF 7 \notin r["PaConfig"] THEN {2, 7}
                    ELSE IF v = 1 THEN {0, 1, 2, 7} ELSE r["PaDac"]
  <1>1. q = [r EXCEPT !["PaDac"] = new]
    BY DEF SetPa20dBm
  <1>2. r["PaDac"] \in Byte
    BY DEF Typed, Registers, Wide
  <1>3. new \in Byte
    <2>1. {2, 7} \in Byte /\ {0, 1, 2, 7} \in Byte
      BY DEF Byte
    <2>2. QED
      BY <1>2, <2>1
  <1>4. r["PaDac"] \in Dacs \/ v = 1 => new \in Dacs
    BY DEF Dacs
  <1> HIDE DEF new
  <1>5. q["PaDac"] = new /\ \A x \in Registers \ {"PaDac"} : q[x] = r[x]
    BY <1>1 DEF Typed, Registers
  <1>6. Typed(q)
    BY <1>1, <1>3, <1>5 DEF Typed, Registers, Wide
  <1>7. \A t \in Checked : Get(t, q) = Get(t, r)
    <2>1. \A t \in Checked : Home[t] \cap {"PaDac"} = {} => Get(t, q) = Get(t, r)
      BY <1>5, Elsewhere
    <2>2. QED
      BY <2>1 DEF Checked, Settings, Home
  <1>8. QED
    BY <1>4, <1>5, <1>6, <1>7

\* A frequency in steps of the synthesizer, and steps in Hertz, both cut.
StepsOf(v) == (v \div 15625) * 256 + ((v % 15625) * 256) \div 15625
HertzOf(f) == (f \div 256) * 15625 + ((f % 256) * 15625) \div 256

LEMMA HertzAt ==
  ASSUME NEW whole \in Nat, NEW steps \in Nat, steps < 256,
         NEW f, f = whole * 256 + steps
  PROVE  HertzOf(f) = whole * 15625 + (steps * 15625) \div 256
  <1>1. f \div 256 = whole
    OBVIOUS
  <1>2. f % 256 = steps
    OBVIOUS
  <1>3. QED
    BY <1>1, <1>2 DEF HertzOf

\* The two cuts together lose less than a step and a Hertz.
LEMMA StepsAndBack ==
  ASSUME NEW v \in Nat, v < 1024000000,
         NEW f, f = StepsOf(v)
  PROVE  f \in Nat /\ f < 16777216 /\ v - HertzOf(f) \in 0 .. 62
  <1> DEFINE whole == v \div 15625
             part == v % 15625
             steps == (part * 256) \div 15625
             back == (steps * 15625) \div 256
  <1>1. v = 15625 * whole + part /\ whole \in Nat /\ part \in Nat /\ part < 15625
    OBVIOUS
  <1>2. whole < 65536
    BY <1>1
  <1> HIDE DEF whole, part
  <1>3. /\ steps \in Nat /\ steps < 256
        /\ 15625 * steps <= part * 256 /\ part * 256 < 15625 * steps + 15625
    BY <1>1
  <1> HIDE DEF steps
  <1>4. /\ back \in Nat
        /\ 256 * back <= steps * 15625 /\ steps * 15625 < 256 * back + 256
    BY <1>3
  <1> HIDE DEF back
  <1>5. f = whole * 256 + steps
    BY DEF StepsOf, whole, part, steps
  <1>6. HertzOf(f) = whole * 15625 + back
    BY <1>1, <1>3, <1>5, HertzAt DEF back
  <1>7. part - back \in 0 .. 62
    BY <1>1, <1>3, <1>4
  <1>8. v - (whole * 15625 + back) \in 0 .. 62
    BY <1>1, <1>4, <1>7
  <1>9. f \in Nat /\ f < 16777216
    BY <1>1, <1>2, <1>3, <1>5
  <1>10. QED
    BY <1>6, <1>8, <1>9

LEMMA FrequencySets ==
  ASSUME NEW r, Typed(r), NEW v \in Arguments.RFFrequency,
         NEW q, q = SetRFFrequency(r, v)
  PROVE  /\ Typed(q)
         /\ \A x \in Registers \ {"Frf"} : q[x] = r[x]
         /\ \A t \in Checked : Get(t, q) = Get(t, r)
         /\ v - GetRFFrequency(q) \in 0 .. 62
  <1> DEFINE f == StepsOf(v)
  <1>1. v \in Nat /\ v < 1024000000
    BY DEF Arguments, Below
  <1>2. q = [r EXCEPT !["Frf"] = f % 16777216]
    BY DEF SetRFFrequency, StepsOf
  <1>3. f \in Nat /\ f < 16777216 /\ v - HertzOf(f) \in 0 .. 62
    BY <1>1, StepsAndBack
  <1> HIDE DEF f
  <1>4. f % 16777216 = f
    BY <1>3
  <1>5. q["Frf"] = f /\ \A x \in Registers \ {"Frf"} : q[x] = r[x]
    BY <1>2, <1>4 DEF Typed, Registers
  <1>6. Typed(q)
    BY <1>2, <1>3, <1>5 DEF Typed, Registers, Wide, Below
  <1>7. \A t \in Checked : Get(t, q) = Get(t, r)
    <2>1. \A t \in Checked : Home[t] \cap {"Frf"} = {} => Get(t, q) = Get(t, r)
      BY <1>5, Elsewhere
    <2>2. QED
      BY <2>1 DEF Checked, Settings, Home
  <1>8. v - GetRFFrequency(q) \in 0 .. 62
    BY <1>3, <1>5 DEF GetRFFrequency, HertzOf
  <1>9. QED
    BY <1>5, <1>6, <1>7, <1>8

\* The settings whose argument is what is read back and remembered.
Plain == Checked \ {"SpreadingFactor"}

LEMMA PlainSets ==
  ASSUME NEW r, Typed(r), NEW s \in Plain, NEW v \in Arguments[s]
  PROVE  Sets(s, r, Set(s, r, v), v)
  <1>1. CASE s = "SignalBw"
    <2>1. Set("SignalBw", r, v) = SetSignalBandwidth(r, v)
      BY SMT DEF Set, Recorded
    <2>2. QED
      BY <1>1, <2>1, SignalBwSets
  <1>2. CASE s = "ErrorCoding"
    <2>1. Set("ErrorCoding", r, v) = SetErrorCoding(r, v)
      BY SMT DEF Set, Recorded
    <2>2. QED
      BY <1>2, <2>1, ErrorCodingSets
  <1>3. CASE s = "CrcOn"
    <2>1. Set("CrcOn", r, v) = SetPacketCrcOn(r, v)
      BY SMT DEF Set, Recorded
    <2>2. QED
      BY <1>3, <2>1, CrcOnSets
  <1>4. CASE s = "ImplicitHeaderOn"
    <2>1. Set("ImplicitHeaderOn", r, v) = SetImplicitHeaderOn(r, v)
      BY SMT DEF Set, Recorded
    <2>2. QED
      BY <1>4, <2>1, ImplicitHeaderOnSets
  <1>5. CASE s = "HopPeriod"
    <2>1. Set("HopPeriod", r, v) = SetHopPeriod(r, v)
      BY SMT DEF Set, Recorded
    <2>2. QED
      BY <1>5, <2>1, HopPeriodSets
  <1>6. CASE s = "PayloadLength"
    <2>1. Set("PayloadLength", r, v) = SetPayloadLength(r, v)
      BY SMT DEF Set, Recorded
    <2>2. QED
      BY <1>6, <2>1, PayloadLengthSets
  <1>7. CASE s = "PreambleLength"
    <2>1. Set("PreambleLength", r, v) = SetPreambleLength(r, v)
      BY SMT DEF Set, Recorded
    <2>2. QED
      BY <1>7, <2>1, PreambleLengthSets
  <1>8. CASE s = "PAOutput"
    <2>1. Set("PAOutput", r, v) = SetPAOutput(r, v)
      BY SMT DEF Set, Recorded
    <2>2. QED
      BY <1>8, <2>1, PAOutputSets
  <1>9. CASE s = "PaRamp"
    <2>1. Set("PaRamp", r, v) = SetPaRamp(r, v)
      BY SMT DEF Set, Recorded
    <2>2. QED
      BY <1>9, <2>1, PaRampSets
  <1>10. CASE s = "SymbTimeout"
    <2>1. Set("SymbTimeout", r, v) = SetSymbTimeout(r, v)
      BY SMT DEF Set, Recorded
    <2>2. QED
      BY <1>10, <2>1, SymbTimeoutSets
  <1>11. CASE s = "LowDatarateOptimize"
    <2>1. Set("LowDatarateOptimize", r, v) = SetLowDatarateOptimize(r, v)
      BY SMT DEF Set, Recorded
    <2>2. QED
      BY <1>11, <2>1, LowDatarateOptimizeSets
  <1>12. CASE s = "NbTrigPeaks"
    <2>1. Set("NbTrigPeaks", r, v) = SetNbTrigPeaks(r, v)
      BY SMT DEF Set, Recorded
    <2>2. QED
      BY <1>12, <2>1, NbTrigPeaksSets
  <1>13. QED
    BY <1>1, <1>2, <1>3, <1>4, <1>5, <1>6, <1>7, <1>8, <1>9, <1>10, <1>11, <1>12
    DEF Plain, Checked, Settings

-----------------------------------------------------------------------------
(* The settings and what is remembered of them                             *)

\* What is read is what is remembered.
Good(r, w) ==
  /\ Typed(r) /\ DOMAIN w = Settings \cup Recorded
  /\ \A s \in Checked : Get(s, r) = w[s]
  /\ w["RFFrequency"] - GetRFFrequency(r) \in 0 .. 62

\* The program has written RegPaDac.
Amplified(r) == r["PaDac"] \in Dacs

Powered(r, w) == GetRFPower(r) = w["Power"]

\* What a setting makes of good registers and settings.
Serves(s, r, w, q, x) ==
  /\ Good(q, x)
  /\ Amplified(r) => Amplified(q)
  /\ Amplified(r) /\ (\/ s = "Power"
                      \/ Powered(r, w) /\ s \notin {"Pa20dBm", "PAOutput"})
       => Powered(q, x)

LEMMA PlainServes ==
  ASSUME NEW r, NEW w, Good(r, w), NEW s \in Plain, NEW v \in Arguments[s]
  PROVE  Serves(s, r, w, Set(s, r, v), Remember(s, w, r, v))
  <1> DEFINE q == Set(s, r, v)
             x == Remember(s, w, r, v)
  <1>1. Sets(s, r, q, v)
    BY PlainSets DEF Good
  <1>2. s \in Checked /\ s \in Settings
        /\ s \notin {"Power", "SpreadingFactor", "RFFrequency"}
    BY DEF Plain, Checked
  <1>3. x = [w EXCEPT ![s] = v]
    BY <1>2 DEF Remember
  <1> HIDE DEF q, x
  <1>4. /\ DOMAIN x = Settings \cup Recorded /\ x[s] = v
        /\ \A t \in (Settings \cup Recorded) \ {s} : x[t] = w[t]
    BY <1>2, <1>3 DEF Good
  <1>5. Home[s] \cap {"Frf", "PaDac"} = {}
        /\ (s # "PAOutput" => "PaConfig" \notin Home[s])
    BY DEF Plain, Checked, Settings, Home
  <1>6. /\ q["Frf"] = r["Frf"] /\ q["PaDac"] = r["PaDac"]
        /\ s # "PAOutput" => q["PaConfig"] = r["PaConfig"]
    BY <1>1, <1>5 DEF Sets, Registers
  <1>7. \A t \in Checked : Get(t, q) = x[t]
    BY <1>1, <1>2, <1>4 DEF Sets, Good, Checked
  <1>8. x["RFFrequency"] = w["RFFrequency"] /\ x["Power"] = w["Power"]
    BY <1>2, <1>4 DEF Settings
  <1>9. x["RFFrequency"] - GetRFFrequency(q) \in 0 .. 62
    BY <1>6, <1>8 DEF Good, GetRFFrequency
  <1>10. Good(q, x)
    BY <1>1, <1>4, <1>7, <1>9 DEF Sets, Good
  <1>11. s # "PAOutput" /\ Powered(r, w) => Powered(q, x)
    BY <1>6, <1>8 DEF Powered, GetRFPower
  <1>12. QED
    BY <1>2, <1>6, <1>10, <1>11 DEF Serves, Amplified, q, x

LEMMA SpreadingServes ==
  ASSUME NEW r, NEW w, Good(r, w), NEW v \in Arguments.SpreadingFactor
  PROVE  Serves("SpreadingFactor", r, w, Set("SpreadingFactor", r, v),
                Remember("SpreadingFactor", w, r, v))
  <1> DEFINE q == Set("SpreadingFactor", r, v)
             x == Remember("SpreadingFactor", w, r, v)
             sf == Clamp(v, 6, 12)
             peaks == IF sf = 6 THEN 5 ELSE 3
  <1>1. q = SetSpreadingFactor(r, v)
    BY SMT DEF Set, Recorded
  <1>2. x = [w EXCEPT !["SpreadingFactor"] = sf, !["NbTrigPeaks"] = peaks]
    BY DEF Remember
  <1> HIDE DEF q, x, sf, peaks
  <1>3. /\ Typed(q)
        /\ \A y \in Registers \ {"ModemConfig2", "DetectOptimize"} : q[y] = r[y]
        /\ \A t \in Checked \ {"SpreadingFactor", "NbTrigPeaks"} :
             Get(t, q) = Get(t, r)
        /\ Get("SpreadingFactor", q) = sf /\ Get("NbTrigPeaks", q) = peaks
    BY <1>1, SpreadingFactorSets DEF Good, sf, peaks
  <1>4. "SpreadingFactor" \in Settings /\ "NbTrigPeaks" \in Settings
    BY DEF Settings
  <1>5. /\ DOMAIN x = Settings \cup Recorded
        /\ x["SpreadingFactor"] = sf /\ x["NbTrigPeaks"] = peaks
        /\ \A t \in (Settings \cup Recorded) \ {"SpreadingFactor", "NbTrigPeaks"} :
             x[t] = w[t]
    BY <1>2, <1>4 DEF Good
  <1>6. /\ q["Frf"] = r["Frf"] /\ q["PaDac"] = r["PaDac"]
        /\ q["PaConfig"] = r["PaConfig"]
    BY <1>3 DEF Registers
  <1>7. \A t \in Checked : Get(t, q) = x[t]
    BY <1>3, <1>5 DEF Good, Checked
  <1>8. x["RFFrequency"] = w["RFFrequency"] /\ x["Power"] = w["Power"]
    BY <1>5 DEF Settings
  <1>9. x["RFFrequency"] - GetRFFrequency(q) \in 0 .. 62
    BY <1>6, <1>8 DEF Good, GetRFFrequency
  <1>10. Good(q, x)
    BY <1>3, <1>5, <1>7, <1>9 DEF Good
  <1>11. Powered(r, w) => Powered(q, x)
    BY <1>6, <1>8 DEF Powered, GetRFPower
  <1>12. QED
    BY <1>6, <1>10, <1>11 DEF Serves, Amplified, q, x

LEMMA PowerServes ==
  ASSUME NEW r, NEW w, Good(r, w), NEW v \in Arguments.Power
  PROVE  Serves("Power", r, w, Set("Power", r, v), Remember("Power", w, r, v))
  <1> DEFINE q == Set("Power", r, v)
             x == Remember("Power", w, r, v)
  <1>1. q = SetRFPower(r, v)
    BY SMT DEF Set, Recorded
  <1>2. x = [w EXCEPT !["Power"] = ClampPower(r, v)]
    BY DEF Remember
  <1> HIDE DEF q, x
  <1>3. /\ Typed(q)
        /\ \A y \in Registers \ {"PaConfig"} : q[y] = r[y]
        /\ \A t \in Checked : Get(t, q) = Get(t, r)
        /\ r["PaDac"] \in Dacs => GetRFPower(q) = ClampPower(r, v)
    BY <1>1, PowerSets DEF Good
  <1>4. /\ DOMAIN x = Settings \cup Recorded /\ x["Power"] = ClampPower(r, v)
        /\ \A t \in (Settings \cup Recorded) \ {"Power"} : x[t] = w[t]
    BY <1>2 DEF Good, Settings
  <1>5. q["Frf"] = r["Frf"] /\ q["PaDac"] = r["PaDac"]
    BY <1>3 DEF Registers
  <1>6. \A t \in Checked : Get(t, q) = x[t]
    BY <1>3, <1>4 DEF Good, Checked
  <1>7. x["RFFrequency"] = w["RFFrequency"]
    BY <1>4 DEF Settings
  <1>8. x["RFFrequency"] - GetRFFrequency(q) \in 0 .. 62
    BY <1>5, <1>7 DEF Good, GetRFFrequency
  <1>9. Good(q, x)
    BY <1>3, <1>4, <1>6, <1>8 DEF Good
  <1>10. Amplified(r) => Powered(q, x)
    BY <1>3, <1>4 DEF Amplified, Powered
  <1>11. QED
    BY <1>5, <1>9, <1>10 DEF Serves, Amplified, q, x

LEMMA Pa20Serves ==
  ASSUME NEW r, NEW w, Good(r, w), NEW v
  PROVE  /\ Serves("Pa20dBm", r, w, Set("Pa20dBm", r, v), Remember("Pa20dBm", w, r, v))
         /\ v = 1 => Amplified(Set("Pa20dBm", r, v))
  <1> DEFINE q == Set("Pa20dBm", r, v)
             x == Remember("Pa20dBm", w, r, v)
  <1>1. q = SetPa20dBm(r, v)
    BY SMT DEF Set, Recorded
  <1>2. x = [w EXCEPT !["Pa20dBm"] = v]
    BY DEF Remember
  <1> HIDE DEF q, x
  <1>3. /\ Typed(q)
        /\ \A y \in Registers \ {"PaDac"} : q[y] = r[y]
        /\ \A t \in Checked : Get(t, q) = Get(t, r)
        /\ r["PaDac"] \in Dacs \/ v = 1 => q["PaDac"] \in Dacs
    BY <1>1, Pa20dBmSets DEF Good
  <1>4. /\ DOMAIN x = Settings \cup Recorded
        /\ \A t \in (Settings \cup Recorded) \ {"Pa20dBm"} : x[t] = w[t]
    BY <1>2 DEF Good, Settings
  <1>5. q["Frf"] = r["Frf"]
    BY <1>3 DEF Registers
  <1>6. \A t \in Checked : Get(t, q) = x[t]
    BY <1>3, <1>4 DEF Good, Checked
  <1>7. x["RFFrequency"] = w["RFFrequency"]
    BY <1>4 DEF Settings
  <1>8. x["RFFrequency"] - GetRFFrequency(q) \in 0 .. 62
    BY <1>5, <1>7 DEF Good, GetRFFrequency
  <1>9. Good(q, x)
    BY <1>3, <1>4, <1>6, <1>8 DEF Good
  <1>10. QED
    BY <1>3, <1>9 DEF Serves, Amplified, q, x

LEMMA FrequencyServes ==
  ASSUME NEW r, NEW w, Good(r, w), NEW v \in Arguments.RFFrequency
  PROVE  Serves("RFFrequency", r, w, Set("RFFrequency", r, v),
                Remember("RFFrequency", w, r, v))
  <1> DEFINE q == Set("RFFrequency", r, v)
             x == Remember("RFFrequency", w, r, v)
  <1>1. q = SetRFFrequency(r, v)
    BY SMT DEF Set, Recorded
  <1>2. x = [w EXCEPT !["RFFrequency"] = v]
    BY DEF Remember
  <1> HIDE DEF q, x
  <1>3. /\ Typed(q)
        /\ \A y \in Registers \ {"Frf"} : q[y] = r[y]
        /\ \A t \in Checked : Get(t, q) = Get(t, r)
        /\ v - GetRFFrequency(q) \in 0 .. 62
    BY <1>1, FrequencySets DEF Good
  <1>4. /\ DOMAIN x = Settings \cup Recorded /\ x["RFFrequency"] = v
        /\ \A t \in (Settings \cup Recorded) \ {"RFFrequency"} : x[t] = w[t]
    BY <1>2 DEF Good, Settings
  <1>5. q["PaDac"] = r["PaDac"] /\ q["PaConfig"] = r["PaConfig"]
    BY <1>3 DEF Registers
  <1>6. \A t \in Checked : Get(t, q) = x[t]
    BY <1>3, <1>4 DEF Good, Checked
  <1>7. x["Power"] = w["Power"]
    BY <1>4 DEF Settings
  <1>8. Good(q, x)
    BY <1>3, <1>4, <1>6 DEF Good
  <1>9. Powered(r, w) => Powered(q, x)
    BY <1>5, <1>7 DEF Powered, GetRFPower
  <1>10. QED
    BY <1>5, <1>8, <1>9 DEF Serves, Amplified, q, x

\* What only LoRaSettings holds disturbs nothing.
LEMMA RecordedServes ==
  ASSUME NEW r, NEW w, Good(r, w), NEW s \in Recorded, NEW v
  PROVE  Serves(s, r, w, Set(s, r, v), Remember(s, w, r, v))
  <1> DEFINE x == Remember(s, w, r, v)
  <1>1. s \notin Settings /\ s # "Power"
    BY DEF Settings, Recorded
  <1>2. Set(s, r, v) = r
    BY <1>1, SMT DEF Set, Settings
  <1>3. x = [w EXCEPT ![s] = v]
    BY <1>1, SMT DEF Remember, Settings
  <1> HIDE DEF x
  <1>4. /\ DOMAIN x = Settings \cup Recorded
        /\ \A t \in Settings : x[t] = w[t]
    BY <1>1, <1>3 DEF Good
  <1>5. Good(r, x)
    <2>1. \A t \in Checked : Get(t, r) = x[t]
      BY <1>4 DEF Good, Checked
    <2>2. x["RFFrequency"] = w["RFFrequency"]
      BY <1>4 DEF Settings
    <2>3. QED
      BY <1>4, <2>1, <2>2 DEF Good
  <1>6. x["Power"] = w["Power"]
    BY <1>4 DEF Settings
  <1>7. QED
    BY <1>1, <1>2, <1>5, <1>6 DEF Serves, Powered, x

\* Every setting with an argument that it is for.
LEMMA SetServes ==
  ASSUME NEW r, NEW w, Good(r, w), NEW s \in Settings \cup Recorded, NEW v,
         s \in Settings => v \in Arguments[s]
  PROVE  Serves(s, r, w, Set(s, r, v), Remember(s, w, r, v))
  <1>1. CASE s \in Plain
    BY <1>1, PlainServes DEF Plain, Checked
  <1>2. CASE s = "SpreadingFactor"
    BY <1>2, SpreadingServes DEF Settings
  <1>3. CASE s = "Power"
    BY <1>3, PowerServes DEF Settings
  <1>4. CASE s = "Pa20dBm"
    BY <1>4, Pa20Serves
  <1>5. CASE s = "RFFrequency"
    BY <1>5, FrequencyServes DEF Settings
  <1>6. CASE s \in Recorded
    BY <1>6, RecordedServes
  <1>7. QED
    BY <1>1, <1>2, <1>3, <1>4, <1>5, <1>6 DEF Plain, Checked

\* The registers and settings of a state.
GoodState(state) == Good(state.reg, state.want)

LEMMA AfterServes ==
  ASSUME NEW state, GoodState(state), NEW s \in Settings, NEW v \in Arguments[s],
         NEW next, next = After(state, s, v)
  PROVE  /\ GoodState(next)
         /\ Amplified(state.reg) => Amplified(next.reg)
         /\ Amplified(state.reg) /\ s = "Power" => Powered(next.reg, next.want)
         /\ s = "Pa20dBm" /\ v = 1 => Amplified(next.reg)
  <1>1. /\ next.reg = Set(s, state.reg, v)
        /\ next.want = Remember(s, state.want, state.reg, v)
    BY DEF After
  <1>2. Serves(s, state.reg, state.want, next.reg, next.want)
    BY <1>1, SetServes DEF GoodState
  <1>3. s = "Pa20dBm" /\ v = 1 => Amplified(next.reg)
    BY <1>1, Pa20Serves DEF GoodState
  <1>4. QED
    BY <1>2, <1>3 DEF Serves, GoodState

LEMMA AfterGood ==
  ASSUME NEW state, GoodState(state), NEW s \in Settings, NEW v \in Arguments[s]
  PROVE  GoodState(After(state, s, v))
  BY AfterServes

\* The settings of SX1276LoRaInit are within the ranges.
LEMMA PlannedArguments ==
  /\ 470000000 \in Arguments["RFFrequency"] /\ "RFFrequency" \in Settings
  /\ 7 \in Arguments["SpreadingFactor"] /\ "SpreadingFactor" \in Settings
  /\ 2 \in Arguments["ErrorCoding"] /\ "ErrorCoding" \in Settings
  /\ 1 \in Arguments["CrcOn"] /\ "CrcOn" \in Settings
  /\ 9 \in Arguments["SignalBw"] /\ "SignalBw" \in Settings
  /\ 0 \in Arguments["ImplicitHeaderOn"] /\ "ImplicitHeaderOn" \in Settings
  /\ 1023 \in Arguments["SymbTimeout"] /\ "SymbTimeout" \in Settings
  /\ 128 \in Arguments["PayloadLength"] /\ "PayloadLength" \in Settings
  /\ 1 \in Arguments["LowDatarateOptimize"] /\ "LowDatarateOptimize" \in Settings
  /\ 128 \in Arguments["PAOutput"] /\ "PAOutput" \in Settings
  /\ 1 \in Arguments["Pa20dBm"] /\ "Pa20dBm" \in Settings
  /\ 20 \in Arguments["Power"] /\ "Power" \in Settings
  BY DEF Arguments, Below, Settings

LEMMA ModemServes ==
  ASSUME NEW state, GoodState(state)
  PROVE  GoodState(ModemSettings(state))
  <1> DEFINE frequency == After(state, "RFFrequency", 470000000)
             factor == After(frequency, "SpreadingFactor", 7)
             coding == After(factor, "ErrorCoding", 2)
             crc == After(coding, "CrcOn", 1)
             bandwidth == After(crc, "SignalBw", 9)
             header == After(bandwidth, "ImplicitHeaderOn", 0)
             symbols == After(header, "SymbTimeout", 1023)
             length == After(symbols, "PayloadLength", 128)
             last == After(length, "LowDatarateOptimize", 1)
  <1>1. GoodState(frequency)
    <2>1. 470000000 \in Arguments["RFFrequency"] /\ "RFFrequency" \in Settings
      BY PlannedArguments
    <2>2. QED
      BY <2>1, AfterGood
  <1>2. GoodState(factor)
    <2>1. 7 \in Arguments["SpreadingFactor"] /\ "SpreadingFactor" \in Settings
      BY PlannedArguments
    <2> HIDE DEF frequency
    <2>2. QED
      BY <1>1, <2>1, AfterGood
  <1>3. GoodState(coding)
    <2>1. 2 \in Arguments["ErrorCoding"] /\ "ErrorCoding" \in Settings
      BY PlannedArguments
    <2> HIDE DEF factor
    <2>2. QED
      BY <1>2, <2>1, AfterGood
  <1>4. GoodState(crc)
    <2>1. 1 \in Arguments["CrcOn"] /\ "CrcOn" \in Settings
      BY PlannedArguments
    <2> HIDE DEF coding
    <2>2. QED
      BY <1>3, <2>1, AfterGood
  <1>5. GoodState(bandwidth)
    <2>1. 9 \in Arguments["SignalBw"] /\ "SignalBw" \in Settings
      BY PlannedArguments
    <2> HIDE DEF crc
    <2>2. QED
      BY <1>4, <2>1, AfterGood
  <1>6. GoodState(header)
    <2>1. 0 \in Arguments["ImplicitHeaderOn"] /\ "ImplicitHeaderOn" \in Settings
      BY PlannedArguments
    <2> HIDE DEF bandwidth
    <2>2. QED
      BY <1>5, <2>1, AfterGood
  <1>7. GoodState(symbols)
    <2>1. 1023 \in Arguments["SymbTimeout"] /\ "SymbTimeout" \in Settings
      BY PlannedArguments
    <2> HIDE DEF header
    <2>2. QED
      BY <1>6, <2>1, AfterGood
  <1>8. GoodState(length)
    <2>1. 128 \in Arguments["PayloadLength"] /\ "PayloadLength" \in Settings
      BY PlannedArguments
    <2> HIDE DEF symbols
    <2>2. QED
      BY <1>7, <2>1, AfterGood
  <1>9. GoodState(last)
    <2>1. 1 \in Arguments["LowDatarateOptimize"] /\ "LowDatarateOptimize" \in Settings
      BY PlannedArguments
    <2> HIDE DEF length
    <2>2. QED
      BY <1>8, <2>1, AfterGood
  <1>10. ModemSettings(state) = last
    BY DEF ModemSettings
  <1>11. QED
    BY <1>9, <1>10

LEMMA PowerSettingsServe ==
  ASSUME NEW state, GoodState(state), NEW done, done = PowerSettings(state)
  PROVE  /\ GoodState(done) /\ Amplified(done.reg)
         /\ Powered(done.reg, done.want)
  <1> DEFINE output == After(state, "PAOutput", 128)
             amplifier == After(output, "Pa20dBm", 1)
  <1>1. GoodState(output)
    <2>1. 128 \in Arguments["PAOutput"] /\ "PAOutput" \in Settings
      BY PlannedArguments
    <2>2. QED
      BY <2>1, AfterGood
  <1>2. GoodState(amplifier) /\ Amplified(amplifier.reg)
    <2>1. 1 \in Arguments["Pa20dBm"] /\ "Pa20dBm" \in Settings
      BY PlannedArguments
    <2> HIDE DEF output
    <2>2. QED
      BY <1>1, <2>1, AfterServes
  <1>3. done = After(amplifier, "Power", 20)
    BY DEF PowerSettings
  <1>4. 20 \in Arguments["Power"] /\ "Power" \in Settings
    BY PlannedArguments
  <1> HIDE DEF amplifier
  <1>5. QED
    BY <1>2, <1>3, <1>4, AfterServes

-----------------------------------------------------------------------------
(* The chip and its shadow                                                 *)

Early == {"export", "direct", "hold", "release", "spi"}
Reading == {"look", "defaults", "read", "write"}
Made == {"settings", "end", "up"}
Steps == Early \cup {"sleep", "lora", "standby", "dio"} \cup Reading \cup Made

Cells == [Addresses -> Byte]

BTypeOK ==
  /\ pc \in Steps
  /\ pin \in [exported : BOOLEAN, out : BOOLEAN, level : {0, 1}]
  /\ chip \in Cells /\ shadow \in Cells /\ rest \in Cells /\ base \in Cells
  /\ faults \in Nat /\ lost \in BOOLEAN /\ spoiled \in BOOLEAN

\* The shadow is zero until LoRaOn, and has the mode of LoRaOn after it.
ShadowInv ==
  /\ pc \in Early \cup {"sleep", "lora"} => shadow = [c \in Addresses |-> {}]
  /\ pc = "standby" => shadow[1] = {7}

\* What the chip holds when it has heard everything.
ChipInv ==
  Heard /\ ~lost =>
    /\ pc = "standby" => chip[1] \in {{}, {7}}
    /\ pc \in {"dio"} \cup Reading \cup Made => chip[1] = {0, 7}
    /\ pc \in Reading \cup Made => chip[64] = {} /\ chip[65] = {}
    /\ pc \in Made => chip[12] = {5} /\ chip[18] = {} /\ shadow[1] = {0, 7}

\* The block that is to be written is the one that was read.
BlockInv ==
  pc = "write" /\ Heard /\ ~(lost /\ spoiled) =>
    \A c \in 1 .. 111 : shadow[c] = chip[c]

Kept(c) ==
  /\ \A a \in Addresses \ (Named \cup {18}) : c[a] = base[a]
  /\ c[18] \in {{}, base[18]}

KeptInv ==
  /\ pc \in {"sleep", "lora", "standby", "dio"} \cup Reading => Kept(chip)
  /\ pc \in Made /\ ~spoiled => Kept(chip)

LEMMA Places ==
  /\ Address.OpMode = 1 /\ Address.Lna = 12 /\ Address.IrqFlags = 18
  /\ Address.DioMapping1 = 64 /\ Address.Version = 66
  /\ Field(1) = 1 /\ Field(64) = 61 /\ Field(66) = 63
  /\ Addresses = 0 .. 111 /\ {1, 12, 64, 65} \subseteq Named
  <1>1. /\ Address.OpMode = 1 /\ Address.Lna = 12 /\ Address.IrqFlags = 18
        /\ Address.DioMapping1 = 64 /\ Address.Version = 66
    BY DEF Address
  <1>2. Field(1) = 1 /\ Field(64) = 61 /\ Field(66) = 63
    BY DEF Field, Bit
  <1>3. Addresses = 0 .. 111
    BY DEF Addresses
  <1>4. {1, 12, 64, 65} \subseteq Named
    BY <1>1 DEF Named
  <1>5. QED
    BY <1>1, <1>2, <1>3, <1>4

LEMMA ModesAre ==
  /\ Mode.Sleep = {} /\ Mode.Standby = {0} /\ LongRange = {7}
  /\ \A op : ModeOf(op) = op \cap 0 .. 2
  BY DEF Mode, LongRange, ModeOf

\* A write of RegOpMode alone.
LEMMA WrittenMode ==
  ASSUME NEW s \in Cells, chip \in Cells, NEW c \in Written(s, 1, 1)
  PROVE  /\ c \in Cells /\ c[1] \in OpModes(chip[1], s[1])
         /\ \A x \in Addresses \ {1} : c[x] = chip[x]
  <1>1. PICK op \in OpModes(chip[1], s[1]) :
          c = [x \in Addresses |->
                 CASE x \notin 1 .. 1 + 1 - 1 \/ x = 66 -> chip[x]
                   [] x \in 1 .. 1 + 1 - 1 /\ x = 1 -> op
                   [] x \in 1 .. 1 + 1 - 1 /\ x = 18 ->
                        chip[x] \ s[Field(1) + x - 1]
                   [] OTHER -> s[Field(1) + x - 1]]
    BY Places DEF Written
  <1>2. op \in Byte
    BY Places DEF OpModes, Cells, Byte, LongRange
  <1>3. c[1] = op /\ \A x \in Addresses \ {1} : c[x] = chip[x]
    BY <1>1, Places
  <1>4. QED
    BY <1>1, <1>2, <1>3 DEF Cells

\* A write of the pin mappings.
LEMMA WrittenDio ==
  ASSUME NEW s \in Cells, chip \in Cells, NEW c \in Written(s, 64, 2)
  PROVE  /\ c \in Cells /\ c[64] = s[61] /\ c[65] = s[62]
         /\ \A x \in Addresses \ {64, 65} : c[x] = chip[x]
  <1>1. PICK op \in OpModes(chip[1], s[1]) :
          c = [x \in Addresses |->
                 CASE x \notin 64 .. 64 + 2 - 1 \/ x = 66 -> chip[x]
                   [] x \in 64 .. 64 + 2 - 1 /\ x = 1 -> op
                   [] x \in 64 .. 64 + 2 - 1 /\ x = 18 ->
                        chip[x] \ s[Field(64) + x - 64]
                   [] OTHER -> s[Field(64) + x - 64]]
    BY Places DEF Written
  <1>2. \A x \in Addresses \ {64, 65} : c[x] = chip[x]
    BY <1>1, Places
  <1>3. c[64] = s[61] /\ c[65] = s[62]
    <2>1. 64 \in Addresses /\ 65 \in Addresses
      BY Places
    <2>2. Field(64) + 64 - 64 = 61 /\ Field(64) + 65 - 64 = 62
      BY Places
    <2>3. c[64] = s[Field(64) + 64 - 64] /\ c[65] = s[Field(64) + 65 - 64]
      BY <1>1, <2>1
    <2>4. QED
      BY <2>2, <2>3
  <1>4. \A x \in Addresses : c[x] \in Byte
    BY <1>2, <1>3, Places DEF Cells
  <1>5. QED
    BY <1>1, <1>2, <1>3, <1>4 DEF Cells

\* A write of the whole shadow; RegVersion cannot be written, and RegIrqFlags
\* only cleared.
LEMMA WrittenBlock ==
  ASSUME NEW s \in Cells, chip \in Cells, NEW c \in Written(s, 1, 111)
  PROVE  /\ c \in Cells /\ c[1] \in OpModes(chip[1], s[1])
         /\ c[0] = chip[0] /\ c[66] = chip[66] /\ c[18] = chip[18] \ s[18]
         /\ \A x \in 2 .. 111 : x \notin {18, 66} => c[x] = s[x]
  <1>1. PICK op \in OpModes(chip[1], s[1]) :
          c = [x \in Addresses |->
                 CASE x \notin 1 .. 1 + 111 - 1 \/ x = 66 -> chip[x]
                   [] x \in 1 .. 1 + 111 - 1 /\ x = 1 -> op
                   [] x \in 1 .. 1 + 111 - 1 /\ x = 18 ->
                        chip[x] \ s[Field(1) + x - 1]
                   [] OTHER -> s[Field(1) + x - 1]]
    BY Places DEF Written
  <1>2. op \in Byte
    BY Places DEF OpModes, Cells, Byte, LongRange
  <1>3. c[1] = op /\ c[0] = chip[0] /\ c[66] = chip[66]
    BY <1>1, Places
  <1>7. c[18] = chip[18] \ s[18]
    <2>1. Field(1) + 18 - 1 = 18 /\ 18 \in Addresses
      BY Places
    <2>2. c[18] = chip[18] \ s[Field(1) + 18 - 1]
      BY <1>1, <2>1
    <2>3. QED
      BY <2>1, <2>2
  <1>4. \A x \in 2 .. 111 : x \notin {18, 66} => c[x] = s[x]
    <2>1. SUFFICES ASSUME NEW x \in 2 .. 111, x \notin {18, 66}
                   PROVE  c[x] = s[x]
      OBVIOUS
    <2>2. Field(1) + x - 1 = x /\ x \in Addresses
      BY Places
    <2>3. c[x] = s[Field(1) + x - 1]
      BY <1>1, <2>1, <2>2
    <2>4. QED
      BY <2>2, <2>3
  <1>5. \A x \in Addresses : c[x] \in Byte
    <2>1. c[18] \in Byte
      BY <1>7, Places DEF Cells, Byte
    <2>2. QED
      BY <1>2, <1>3, <1>4, <2>1, Places DEF Cells
  <1>6. QED
    BY <1>1, <1>3, <1>4, <1>5, <1>7 DEF Cells

LEMMA TransferIs ==
  ASSUME BTypeOK, NEW ok \in BOOLEAN, Transfer(ok)
  PROVE  /\ faults' \in Nat /\ lost' \in BOOLEAN
         /\ ~lost' => ok /\ ~lost
         /\ faults' = faults => ok
  <1>1. faults' = faults + (IF ok THEN 0 ELSE 1)
    BY DEF Transfer, Call, Bit
  <1>2. lost' = (lost \/ ~ok) /\ lost' \in BOOLEAN
    BY DEF Transfer, BTypeOK
  <1>3. faults \in Nat
    BY DEF BTypeOK
  <1>4. /\ faults' \in Nat
        /\ faults' = faults => ok
    BY <1>1, <1>3
  <1>5. QED
    BY <1>2, <1>4

LEMMA BlockRead ==
  ASSUME BTypeOK, SX1276ReadBuffer(1, 111)
  PROVE  /\ shadow' \in Cells /\ chip' = chip
         /\ faults' \in Nat /\ lost' \in BOOLEAN
         /\ Heard /\ (~lost' \/ faults' = faults) =>
              \A c \in 1 .. 111 : shadow'[c] = chip[c]
  <1>1. PICK ok \in BOOLEAN, j \in Junk :
          /\ Transfer(ok) /\ chip' = chip
          /\ shadow' =
               [c \in Addresses |->
                  IF c \notin Field(1) .. Field(1) + 111 - 1 THEN shadow[c]
                  ELSE IF ok /\ Heard THEN chip[1 + c - Field(1)] ELSE j]
    BY DEF SX1276ReadBuffer
  <1>2. j \in Byte
    BY JunkAssumption
  <1>3. shadow' \in Cells
    <2>1. SUFFICES ASSUME NEW c \in Addresses
                   PROVE  shadow'[c] \in Byte
      BY <1>1 DEF Cells
    <2>2. shadow[c] \in Byte
      BY DEF BTypeOK, Cells
    <2>3. CASE c \in 1 .. 111
      <3>1. 1 + c - Field(1) = c /\ chip[c] \in Byte
        BY <2>3, Places DEF BTypeOK, Cells
      <3>2. QED
        BY <1>1, <1>2, <2>2, <3>1
    <2>4. CASE c \notin 1 .. 111
      <3>1. shadow'[c] = shadow[c]
        BY <1>1, <2>4, Places
      <3>2. QED
        BY <2>2, <3>1
    <2>5. QED
      BY <2>3, <2>4
  <1>4. /\ faults' \in Nat /\ lost' \in BOOLEAN
        /\ ~lost' \/ faults' = faults => ok
    BY <1>1, TransferIs
  <1>5. ok /\ Heard => \A c \in 1 .. 111 : shadow'[c] = chip[c]
    <2>1. SUFFICES ASSUME ok, Heard, NEW c \in 1 .. 111
                   PROVE  shadow'[c] = chip[c]
      OBVIOUS
    <2>2. 1 + c - Field(1) = c /\ c \in Addresses
      BY Places
    <2>3. QED
      BY <1>1, <2>1, <2>2, Places
  <1>6. QED
    BY <1>1, <1>3, <1>4, <1>5

LEMMA VersionRead ==
  ASSUME BTypeOK, SX1276ReadBuffer(66, 1)
  PROVE  /\ shadow' \in Cells /\ chip' = chip
         /\ faults' \in Nat /\ lost' \in BOOLEAN /\ (lost => lost')
  <1>1. PICK ok \in BOOLEAN, j \in Junk :
          /\ Transfer(ok) /\ chip' = chip
          /\ shadow' =
               [c \in Addresses |->
                  IF c \notin Field(66) .. Field(66) + 1 - 1 THEN shadow[c]
                  ELSE IF ok /\ Heard THEN chip[66 + c - Field(66)] ELSE j]
    BY DEF SX1276ReadBuffer
  <1>2. j \in Byte
    BY JunkAssumption
  <1>3. \A c \in Addresses : shadow'[c] \in Byte
    <2>1. SUFFICES ASSUME NEW c \in Addresses
                   PROVE  shadow'[c] \in Byte
      OBVIOUS
    <2>2. shadow[c] \in Byte
      BY DEF BTypeOK, Cells
    <2>3. CASE c = 63
      <3>1. 66 + c - Field(66) = 66 /\ chip[66] \in Byte
        BY <2>3, Places DEF BTypeOK, Cells
      <3>2. QED
        BY <1>1, <1>2, <2>2, <3>1
    <2>4. CASE c # 63
      <3>1. shadow'[c] = shadow[c]
        BY <1>1, <2>4, Places
      <3>2. QED
        BY <2>2, <3>1
    <2>5. QED
      BY <2>3, <2>4
  <1>4. shadow' \in Cells
    BY <1>1, <1>3 DEF Cells
  <1>5. QED
    BY <1>1, <1>4, TransferIs

\* A write: its transfer is lost, or not heard, or the chip takes it.
LEMMA BufferWritten ==
  ASSUME BTypeOK, NEW s, NEW a, NEW n, SX1276WriteBuffer(s, a, n)
  PROVE  /\ shadow' = s /\ faults' \in Nat /\ lost' \in BOOLEAN
         /\ chip' = chip \/ chip' \in Written(s, a, n)
         /\ ~lost' => ~lost /\ (Heard => chip' \in Written(s, a, n))
         /\ ~Heard => chip' = chip
  <1>1. PICK ok \in BOOLEAN :
          /\ Transfer(ok) /\ shadow' = s
          /\ chip' \in IF ok /\ Heard THEN Written(s, a, n) ELSE {chip}
    BY DEF SX1276WriteBuffer
  <1>2. /\ faults' \in Nat /\ lost' \in BOOLEAN
        /\ ~lost' => ok /\ ~lost
    BY <1>1, TransferIs
  <1>3. QED
    BY <1>1, <1>2

-----------------------------------------------------------------------------
(* The start of the radio                                                  *)

BInv == BTypeOK /\ ShadowInv /\ ChipInv /\ BlockInv /\ KeptInv

LEMMA ZeroCells == [c \in Addresses |-> {}] \in Cells
  BY DEF Cells, Byte

LEMMA InitBInv ==
  ASSUME BInit, TypeOK
  PROVE  BInv
  <1>1. reg["PaConfig"] \in Byte
    BY DEF TypeOK, Registers, Wide
  <1>2. ASSUME NEW op \in Byte, NEW g \in Byte
        PROVE  Holding(op, g) \in Cells
    <2>1. {1, 4} \in Byte
      BY DEF Byte
    <2>2. QED
      BY <1>2, <2>1, Places DEF Holding, Cells
  <1>3. (Mode.Standby \cup {3}) \in Byte /\ (LongRange \cup Mode.Receiver) \in Byte
    BY DEF Mode, LongRange, Byte
  <1>4. rest \in Cells
    BY <1>1, <1>2, <1>3 DEF BInit
  <1>5. chip \in Cells
    <2>1. CASE chip = rest
      BY <1>4, <2>1
    <2>2. CASE \E g \in Garbage : chip = Holding(LongRange \cup Mode.Receiver, g)
      BY <1>2, <1>3, <2>2, GarbageAssumption
    <2>3. QED
      BY <2>1, <2>2 DEF BInit
  <1>6. pin \in [exported : BOOLEAN, out : BOOLEAN, level : {0, 1}]
    <2> DEFINE Pins == [exported : BOOLEAN, out : BOOLEAN, level : {0, 1}]
    <2>1. /\ [exported |-> FALSE, out |-> FALSE, level |-> 1] \in Pins
          /\ [exported |-> TRUE, out |-> TRUE, level |-> 1] \in Pins
          /\ [exported |-> TRUE, out |-> TRUE, level |-> 0] \in Pins
      OBVIOUS
    <2> HIDE DEF Pins
    <2>2. pin \in Pins
      BY <2>1 DEF BInit
    <2>3. QED
      BY <2>2 DEF Pins
  <1>7. BTypeOK
    BY <1>4, <1>5, <1>6, ZeroCells DEF BInit, BTypeOK, Steps, Early
  <1>8. pc = "export" /\ shadow = [c \in Addresses |-> {}]
    BY DEF BInit
  <1>9. QED
    BY <1>7, <1>8
       DEF BInv, ShadowInv, ChipInv, BlockInv, KeptInv, Early, Reading, Made

LEMMA PulseBInv ==
  ASSUME BInv, Pulse
  PROVE  BInv'
  <1>1. /\ pc \in {"export", "direct", "hold", "release"}
        /\ pc' \in {"direct", "hold", "release", "spi"}
        /\ UNCHANGED <<shadow, rest, base, lost, spoiled>>
    BY DEF Pulse, GpioInit, GpioDirection, Hold, Release, GpioStep
  <1>2. /\ \E ok \in BOOLEAN : Call(ok)
        /\ pin' \in [exported : BOOLEAN, out : BOOLEAN, level : {0, 1}]
        /\ chip' \in {rest, chip}
    <2>1. CASE GpioInit
      <3>1. PICK ok \in BOOLEAN : Call(ok) /\ Drive([pin EXCEPT !.exported = @ \/ ok])
        BY <2>1 DEF GpioInit
      <3>2. QED
        BY <3>1 DEF Drive, BInv, BTypeOK
    <2>2. CASE GpioDirection
      <3>1. PICK ok \in BOOLEAN, low \in BOOLEAN :
              /\ Call(ok)
              /\ IF ok /\ pin.exported

                   THEN Drive([pin EXCEPT !.out = TRUE, !.level = IF low THEN 0 ELSE @])
                 ELSE Drive(pin)
        BY <2>2 DEF GpioDirection
      <3>2. QED
        BY <3>1 DEF Drive, BInv, BTypeOK
    <2>3. ASSUME NEW v \in {0, 1}, GpioSetValue(v)
          PROVE  /\ \E ok \in BOOLEAN : Call(ok)
                 /\ pin' \in [exported : BOOLEAN, out : BOOLEAN, level : {0, 1}]
                 /\ chip' \in {rest, chip}
      <3>1. PICK ok \in BOOLEAN :
              /\ Call(ok)
              /\ Drive(IF ok /\ pin.exported /\ pin.out
                       THEN [pin EXCEPT !.level = v] ELSE pin)
        BY <2>3 DEF GpioSetValue
      <3>2. QED
        BY <2>3, <3>1 DEF Drive, BInv, BTypeOK
    <2>4. QED
      BY <2>1, <2>2, <2>3 DEF Pulse, Hold, Release
  <1>3. faults' \in Nat
    BY <1>2 DEF Call, Bit, BInv, BTypeOK
  <1>4. BTypeOK'
    BY <1>1, <1>2, <1>3 DEF BInv, BTypeOK, Steps, Early
  <1>5. ShadowInv'
    BY <1>1 DEF BInv, ShadowInv, Early
  <1>6. QED
    BY <1>1, <1>4, <1>5 DEF BInv, ChipInv, BlockInv, KeptInv, Early, Reading, Made

LEMMA SpiInitBInv ==
  ASSUME BInv, SpiInit
  PROVE  BInv'
  <1>1. /\ pc = "spi" /\ pc' = "sleep" /\ base' = chip
        /\ UNCHANGED <<pin, chip, shadow, rest, lost, spoiled>>
    BY DEF SpiInit
  <1>2. faults' \in Nat
    BY DEF SpiInit, Call, Bit, BInv, BTypeOK
  <1>3. BTypeOK'
    BY <1>1, <1>2 DEF BInv, BTypeOK, Steps
  <1>4. ShadowInv'
    BY <1>1 DEF BInv, ShadowInv, Early
  <1>5. KeptInv'
    BY <1>1 DEF KeptInv, Kept, Made
  <1>6. QED
    BY <1>1, <1>3, <1>4, <1>5 DEF BInv, ChipInv, BlockInv, Reading, Made

\* With a zero shadow nothing is written.
LEMMA SleepBInv ==
  ASSUME BInv, Sleep
  PROVE  BInv'
  <1>1. /\ pc = "sleep" /\ pc' = "lora"
        /\ UNCHANGED <<pin, fd, rest, base, spoiled>>
    BY DEF Sleep, SpiStep
  <1>2. shadow[1] = {}
    BY <1>1, Places DEF BInv, ShadowInv, Early
  <1>3. UNCHANGED <<shadow, chip, faults, lost>>
    BY <1>2, Places, ModesAre DEF Sleep, SX1276LoRaSetOpMode
  <1>4. BTypeOK'
    BY <1>1, <1>3 DEF BInv, BTypeOK, Steps
  <1>5. ShadowInv'
    BY <1>1, <1>3 DEF BInv, ShadowInv, Early
  <1>6. KeptInv'
    BY <1>1, <1>3 DEF BInv, KeptInv, Kept, Made
  <1>7. QED
    BY <1>1, <1>4, <1>5, <1>6 DEF BInv, ChipInv, BlockInv, Reading, Made

\* A write that the chip takes or does not; the addresses named are kept from
\* nothing else.
LEMMA WriteKeeps ==
  ASSUME BTypeOK, Kept(chip), NEW c, \A x \in Addresses \ {1, 64, 65} : c[x] = chip[x]
  PROVE  Kept(c)
  BY Places DEF Kept

LEMMA LoRaOnBInv ==
  ASSUME BInv, LoRaOn
  PROVE  BInv'
  <1> DEFINE s == [shadow EXCEPT ![Address.OpMode] = (@ \cap 0 .. 6) \cup LongRange]
  <1>1. /\ pc = "lora" /\ pc' = "standby"
        /\ UNCHANGED <<pin, fd, rest, base, spoiled>>
        /\ SX1276WriteBuffer(s, 1, 1)
    BY Places DEF LoRaOn, SpiStep
  <1>2. shadow[1] = {} /\ shadow \in Cells /\ chip \in Cells
    BY <1>1, Places DEF BInv, ShadowInv, BTypeOK, Early
  <1>3. s \in Cells /\ s[1] = {7}
    BY <1>2, Places, ModesAre DEF Cells, Byte
  <1> HIDE DEF s
  <1>4. /\ shadow' = s /\ faults' \in Nat /\ lost' \in BOOLEAN
        /\ chip' = chip \/ chip' \in Written(s, 1, 1)
        /\ ~lost' => ~lost /\ (Heard => chip' \in Written(s, 1, 1))
    BY <1>1, BufferWritten DEF BInv
  <1>5. chip' \in Written(s, 1, 1) => chip'[1] \in {{}, {7}}
    <2>1. SUFFICES ASSUME chip' \in Written(s, 1, 1)
                   PROVE  chip'[1] \in {{}, {7}}
      OBVIOUS
    <2>2. chip'[1] \in OpModes(chip[1], {7})
      BY <1>2, <1>3, <2>1, WrittenMode
    <2>3. OpModes(chip[1], {7}) \subseteq {{}, {7}}
      BY ModesAre DEF OpModes
    <2>4. QED
      BY <2>2, <2>3
  <1>6. chip' \in Cells /\ \A x \in Addresses \ {1, 64, 65} : chip'[x] = chip[x]
    BY <1>2, <1>3, <1>4, WrittenMode
  <1>7. BTypeOK'
    BY <1>1, <1>3, <1>4, <1>6 DEF BInv, BTypeOK, Steps
  <1>8. ShadowInv'
    BY <1>1, <1>3, <1>4 DEF ShadowInv, Early
  <1>9. ChipInv'
    BY <1>1, <1>4, <1>5 DEF ChipInv, Heard, Reading, Made
  <1>10. KeptInv'
    <2>1. Kept(chip)
      BY <1>1 DEF BInv, KeptInv
    <2>2. Kept(chip')
      BY <1>6, <2>1, WriteKeeps DEF BInv
    <2>3. QED
      BY <1>1, <2>2 DEF KeptInv, Kept, Made
  <1>11. QED
    BY <1>1, <1>7, <1>8, <1>9, <1>10 DEF BInv, BlockInv

\* The chip is asleep, so it goes to LoRa with the mode.
LEMMA StandbyBInv ==
  ASSUME BInv, Standby
  PROVE  BInv'
  <1> DEFINE s == [shadow EXCEPT ![Address.OpMode] = (@ \cap 3 .. 7) \cup Mode.Standby]
  <1>1. /\ pc = "standby" /\ pc' = "dio"
        /\ UNCHANGED <<pin, fd, rest, base, spoiled>>
    BY DEF Standby, SpiStep
  <1>2. shadow[1] = {7} /\ shadow \in Cells /\ chip \in Cells
    BY <1>1 DEF BInv, ShadowInv, BTypeOK
  <1>3. SX1276WriteBuffer(s, 1, 1)
    BY <1>2, Places, ModesAre DEF Standby, SX1276LoRaSetOpMode
  <1>4. s \in Cells /\ s[1] = {0, 7}
    BY <1>2, Places, ModesAre DEF Cells, Byte
  <1> HIDE DEF s
  <1>5. /\ shadow' = s /\ faults' \in Nat /\ lost' \in BOOLEAN
        /\ chip' = chip \/ chip' \in Written(s, 1, 1)
        /\ ~lost' => ~lost /\ (Heard => chip' \in Written(s, 1, 1))
    BY <1>3, BufferWritten DEF BInv
  <1>6. ASSUME Heard, ~lost'
        PROVE  chip'[1] = {0, 7}
    <2>1. chip[1] \in {{}, {7}}
      BY <1>1, <1>5, <1>6 DEF BInv, ChipInv
    <2>2. chip'[1] \in OpModes(chip[1], {0, 7})
      BY <1>2, <1>4, <1>5, <1>6, WrittenMode
    <2>3. ModeOf(chip[1]) = {}
      BY <2>1, ModesAre
    <2>4. QED
      BY <2>2, <2>3, ModesAre DEF OpModes
  <1>7. chip' \in Cells /\ \A x \in Addresses \ {1, 64, 65} : chip'[x] = chip[x]
    BY <1>2, <1>4, <1>5, WrittenMode
  <1>8. BTypeOK'
    BY <1>1, <1>4, <1>5, <1>7 DEF BInv, BTypeOK, Steps
  <1>9. ChipInv'
    BY <1>1, <1>6 DEF ChipInv, Heard, Reading, Made
  <1>10. KeptInv'
    <2>1. Kept(chip)
      BY <1>1 DEF BInv, KeptInv
    <2>2. Kept(chip')
      BY <1>7, <2>1, WriteKeeps DEF BInv
    <2>3. QED
      BY <1>1, <2>2 DEF KeptInv, Kept, Made
  <1>11. QED
    BY <1>1, <1>8, <1>9, <1>10 DEF BInv, BlockInv, ShadowInv, Early

LEMMA DioMappingBInv ==
  ASSUME BInv, DioMapping
  PROVE  BInv'
  <1> DEFINE s == [shadow EXCEPT ![61] = {}, ![62] = {}]
  <1>1. /\ pc = "dio" /\ pc' = "look"
        /\ UNCHANGED <<pin, fd, rest, base, spoiled>>
        /\ SX1276WriteBuffer(s, 64, 2)
    <2>1. 61 + 1 = 62
      OBVIOUS
    <2>2. QED
      BY <2>1, Places DEF DioMapping, SpiStep
  <1>2. shadow \in Cells /\ chip \in Cells
    BY DEF BInv, BTypeOK
  <1>3. s \in Cells /\ s[61] = {} /\ s[62] = {}
    BY <1>2, Places DEF Cells, Byte
  <1> HIDE DEF s
  <1>4. /\ shadow' = s /\ faults' \in Nat /\ lost' \in BOOLEAN
        /\ chip' = chip \/ chip' \in Written(s, 64, 2)
        /\ ~lost' => ~lost /\ (Heard => chip' \in Written(s, 64, 2))
    BY <1>1, BufferWritten DEF BInv
  <1>5. chip' \in Cells /\ \A x \in Addresses \ {1, 64, 65} : chip'[x] = chip[x]
    BY <1>2, <1>3, <1>4, WrittenDio
  <1>6. ASSUME Heard, ~lost'
        PROVE  chip'[1] = {0, 7} /\ chip'[64] = {} /\ chip'[65] = {}
    <2>1. chip[1] = {0, 7}
      BY <1>1, <1>4, <1>6 DEF BInv, ChipInv
    <2>2. QED
      BY <1>2, <1>3, <1>4, <1>6, <2>1, WrittenDio, Places
  <1>7. BTypeOK'
    BY <1>1, <1>3, <1>4, <1>5 DEF BInv, BTypeOK, Steps, Reading
  <1>8. ChipInv'
    BY <1>1, <1>6 DEF ChipInv, Heard, Reading, Made
  <1>9. KeptInv'
    <2>1. Kept(chip)
      BY <1>1 DEF BInv, KeptInv
    <2>2. Kept(chip')
      BY <1>5, <2>1, WriteKeeps DEF BInv
    <2>3. QED
      BY <1>1, <2>2 DEF KeptInv, Kept, Made
  <1>10. QED
    BY <1>1, <1>7, <1>8, <1>9 DEF BInv, BlockInv, ShadowInv, Early

\* The end of SX1276SetLoRaOn, and the second read of SX1276LoRaInit.
LEMMA ReadBlockBInv ==
  ASSUME BInv, NEW here \in Reading, NEW there \in Reading, ReadBlock(here, there)
  PROVE  BInv'
  <1>1. /\ pc = here /\ pc' = there
        /\ UNCHANGED <<pin, fd, rest, base>>
        /\ SX1276ReadBuffer(1, 111) /\ spoiled' = (faults' # faults)
    BY Places DEF ReadBlock, SpiStep
  <1>2. /\ shadow' \in Cells /\ chip' = chip
        /\ faults' \in Nat /\ lost' \in BOOLEAN
        /\ Heard /\ (~lost' \/ faults' = faults) =>
             \A c \in 1 .. 111 : shadow'[c] = chip[c]
    BY <1>1, BlockRead DEF BInv
  <1>3. ~lost' => ~lost
    BY <1>1, TransferIs DEF SX1276ReadBuffer, BInv
  <1>4. BTypeOK'
    BY <1>1, <1>2 DEF BInv, BTypeOK, Steps
  <1>5. ChipInv'
    BY <1>1, <1>2, <1>3 DEF BInv, ChipInv, Heard, Reading, Made
  <1>6. BlockInv'
    BY <1>1, <1>2 DEF BlockInv, Heard
  <1>7. KeptInv'
    BY <1>1, <1>2 DEF BInv, KeptInv, Kept, Reading, Made
  <1>8. QED
    BY <1>1, <1>4, <1>5, <1>6, <1>7 DEF BInv, ShadowInv, Early, Reading

LEMMA ReadVersionBInv ==
  ASSUME BInv, ReadVersion
  PROVE  BInv'
  <1>1. /\ pc = "defaults" /\ pc' = "read"
        /\ UNCHANGED <<pin, fd, rest, base, spoiled>>
        /\ SX1276ReadBuffer(66, 1)
    BY Places DEF ReadVersion, SpiStep
  <1>2. /\ shadow' \in Cells /\ chip' = chip
        /\ faults' \in Nat /\ lost' \in BOOLEAN /\ (lost => lost')
    BY <1>1, VersionRead DEF BInv
  <1>3. BTypeOK'
    BY <1>1, <1>2 DEF BInv, BTypeOK, Steps, Reading
  <1>4. ChipInv'
    BY <1>1, <1>2 DEF BInv, ChipInv, Heard, Reading, Made
  <1>5. KeptInv'
    BY <1>1, <1>2 DEF BInv, KeptInv, Kept, Reading, Made
  <1>6. QED
    BY <1>1, <1>3, <1>4, <1>5 DEF BInv, BlockInv, ShadowInv, Early

\* The block goes back as it was read, but for the gain; a block that was not
\* read changes the chip only when it is marked as spoiled.
LEMMA WriteBlockBInv ==
  ASSUME BInv, WriteBlock
  PROVE  BInv'
  <1> DEFINE s == [shadow EXCEPT ![12] = {5}]
  <1>1. /\ pc = "write" /\ pc' = "settings"
        /\ UNCHANGED <<pin, fd, rest, base>>
        /\ SX1276WriteBuffer(s, 1, 111)
        /\ spoiled' = (spoiled /\ chip' # chip)
    BY Places DEF WriteBlock, SpiStep
  <1>2. shadow \in Cells /\ chip \in Cells /\ spoiled \in BOOLEAN
    BY DEF BInv, BTypeOK
  <1>3. /\ s \in Cells /\ s[12] = {5}
        /\ \A c \in 1 .. 111 : c # 12 => s[c] = shadow[c]
    BY <1>2, Places DEF Cells, Byte
  <1> HIDE DEF s
  <1>4. /\ shadow' = s /\ faults' \in Nat /\ lost' \in BOOLEAN
        /\ chip' = chip \/ chip' \in Written(s, 1, 111)
        /\ ~lost' => ~lost /\ (Heard => chip' \in Written(s, 1, 111))
        /\ ~Heard => chip' = chip
    BY <1>1, BufferWritten DEF BInv
  <1>5. chip' \in Cells
    BY <1>2, <1>3, <1>4, WrittenBlock
  <1>6. ASSUME Heard, ~lost'
        PROVE  /\ chip'[1] = {0, 7} /\ shadow'[1] = {0, 7} /\ chip'[12] = {5}
               /\ chip'[64] = {} /\ chip'[65] = {} /\ chip'[18] = {}
    <2>1. chip[1] = {0, 7} /\ chip[64] = {} /\ chip[65] = {}
      BY <1>1, <1>4, <1>6 DEF BInv, ChipInv, Reading
    <2>2. \A c \in 1 .. 111 : shadow[c] = chip[c]
      BY <1>1, <1>4, <1>6 DEF BInv, BlockInv
    <2>3. s[1] = {0, 7} /\ s[64] = {} /\ s[65] = {} /\ s[18] = chip[18]
      BY <1>3, <2>1, <2>2
    <2>4. chip'[1] \in OpModes({0, 7}, {0, 7})
      BY <1>2, <1>3, <1>4, <1>6, <2>1, <2>3, WrittenBlock
    <2>5. chip'[1] = {0, 7}
      BY <2>4, ModesAre DEF OpModes
    <2>6. /\ chip'[12] = s[12] /\ chip'[64] = s[64] /\ chip'[65] = s[65]
          /\ chip'[18] = chip[18] \ s[18]
      BY <1>2, <1>3, <1>4, <1>6, WrittenBlock
    <2>7. QED
      BY <1>3, <1>4, <2>3, <2>5, <2>6
  <1>7. ASSUME ~spoiled'
        PROVE  Kept(chip')
    <2>1. Kept(chip)
      BY <1>1 DEF BInv, KeptInv, Reading
    <2>2. CASE chip' = chip
      BY <2>1, <2>2
    <2>3. CASE chip' # chip
      <3>1. Heard /\ ~spoiled /\ chip' \in Written(s, 1, 111)
        BY <1>1, <1>2, <1>4, <1>7, <2>3
      <3>2. \A c \in 1 .. 111 : shadow[c] = chip[c]
        BY <1>1, <3>1 DEF BInv, BlockInv
      <3>3. \A a \in Addresses \ {1, 12, 18} : chip'[a] = chip[a]
        BY <1>2, <1>3, <3>1, <3>2, WrittenBlock, Places
      <3>4. chip'[18] = {}
        BY <1>2, <1>3, <3>1, <3>2, WrittenBlock
      <3>5. QED
        BY <2>1, <3>3, <3>4, Places DEF Kept
    <2>4. QED
      BY <2>2, <2>3
  <1>8. BTypeOK'
    BY <1>1, <1>2, <1>3, <1>4, <1>5 DEF BInv, BTypeOK, Steps, Made
  <1>9. ChipInv'
    BY <1>1, <1>6 DEF ChipInv, Heard, Made
  <1>10. KeptInv'
    BY <1>1, <1>7 DEF KeptInv, Kept, Reading
  <1>11. QED
    BY <1>1, <1>8, <1>9, <1>10 DEF BInv, BlockInv, ShadowInv, Early

LEMMA MakeSettingsBInv ==
  ASSUME BInv, MakeSettings
  PROVE  BInv'
  <1>1. /\ pc = "settings" /\ pc' = "end"
        /\ UNCHANGED <<pin, fd, rest, base, chip, shadow, faults, lost, spoiled>>
    BY DEF MakeSettings, SpiStep
  <1>2. BTypeOK'
    BY <1>1 DEF BInv, BTypeOK, Steps, Made
  <1>3. ChipInv'
    BY <1>1 DEF BInv, ChipInv, Heard, Made
  <1>4. KeptInv'
    BY <1>1 DEF BInv, KeptInv, Kept, Reading, Made
  <1>5. QED
    BY <1>1, <1>2, <1>3, <1>4 DEF BInv, BlockInv, ShadowInv, Early

\* The shadow of a radio that heard everything shows standby already.
LEMMA ReadyBInv ==
  ASSUME BInv, Ready
  PROVE  BInv'
  <1> DEFINE s == [shadow EXCEPT ![Address.OpMode] = (@ \cap 3 .. 7) \cup Mode.Standby]
  <1>1. /\ pc = "end" /\ pc' = "up"
        /\ UNCHANGED <<pin, fd, rest, base, spoiled>>
    BY DEF Ready, SpiStep
  <1>2. shadow \in Cells /\ chip \in Cells
    BY DEF BInv, BTypeOK
  <1>3. s \in Cells
    BY <1>2, Places, ModesAre DEF Cells, Byte
  <1>4. CASE ModeOf(shadow[1]) = {0}
    <2>1. UNCHANGED <<shadow, chip, faults, lost>>
      BY <1>4, Places, ModesAre DEF Ready, SX1276LoRaSetOpMode
    <2>2. BTypeOK'
      BY <1>1, <2>1 DEF BInv, BTypeOK, Steps, Made
    <2>3. ChipInv'
      BY <1>1, <2>1 DEF BInv, ChipInv, Heard, Made
    <2>4. KeptInv'
      BY <1>1, <2>1 DEF BInv, KeptInv, Kept, Reading, Made
    <2>5. QED
      BY <1>1, <2>2, <2>3, <2>4 DEF BInv, BlockInv, ShadowInv, Early
  <1>5. CASE ModeOf(shadow[1]) # {0}
    <2>1. SX1276WriteBuffer(s, 1, 1)
      BY <1>5, Places, ModesAre DEF Ready, SX1276LoRaSetOpMode
    <2> HIDE DEF s
    <2>2. /\ shadow' = s /\ faults' \in Nat /\ lost' \in BOOLEAN
          /\ chip' = chip \/ chip' \in Written(s, 1, 1)
          /\ ~lost' => ~lost
      BY <2>1, BufferWritten DEF BInv
    <2>3. chip' \in Cells /\ \A x \in Addresses \ {1, 64, 65} : chip'[x] = chip[x]
      BY <1>2, <1>3, <2>2, WrittenMode
    <2>4. BTypeOK'
      BY <1>1, <1>3, <2>2, <2>3 DEF BInv, BTypeOK, Steps, Made
    <2>5. ~(Heard /\ ~lost)
      <3>1. ModeOf({0, 7}) = {0}
        BY ModesAre
      <3>2. QED
        BY <1>1, <1>5, <3>1 DEF BInv, ChipInv, Made
    <2>6. ChipInv'
      BY <1>1, <2>2, <2>5 DEF ChipInv, Heard
    <2>7. KeptInv'
      <3>1. ~spoiled => Kept(chip)
        BY <1>1 DEF BInv, KeptInv, Made
      <3>2. ~spoiled => Kept(chip')
        BY <2>3, <3>1, WriteKeeps DEF BInv
      <3>3. QED
        BY <1>1, <3>2 DEF KeptInv, Kept, Reading
    <2>8. QED
      BY <1>1, <2>4, <2>6, <2>7 DEF BInv, BlockInv, ShadowInv, Early
  <1>6. QED
    BY <1>4, <1>5

LEMMA StutterBInv ==
  ASSUME BInv,
         UNCHANGED <<pc, pin, fd, chip, shadow, rest, faults, base, lost, spoiled>>
  PROVE  BInv'
  <1>1. BTypeOK'
    BY DEF BInv, BTypeOK
  <1>2. ShadowInv' /\ BlockInv'
    BY DEF BInv, ShadowInv, BlockInv, Heard
  <1>3. ChipInv'
    BY DEF BInv, ChipInv, Heard
  <1>4. KeptInv'
    BY DEF BInv, KeptInv, Kept
  <1>5. QED
    BY <1>1, <1>2, <1>3, <1>4 DEF BInv

LEMMA NextBInv ==
  ASSUME BInv, [BNext]_bvars
  PROVE  BInv'
  <1>1. CASE SetLoRaOn
    BY <1>1, SleepBInv, LoRaOnBInv, StandbyBInv, DioMappingBInv DEF SetLoRaOn
  <1>2. CASE Block
    BY <1>2, ReadBlockBInv, ReadVersionBInv DEF Block, Reading
  <1>3. CASE Later
    BY <1>3, StutterBInv DEF Later
  <1>4. CASE UNCHANGED bvars
    BY <1>4, StutterBInv DEF bvars
  <1>5. QED
    BY <1>1, <1>2, <1>3, <1>4, PulseBInv, SpiInitBInv, WriteBlockBInv,
       MakeSettingsBInv, ReadyBInv DEF BNext

-----------------------------------------------------------------------------
(* The settings from the start on                                          *)

SettingInv ==
  /\ Good(reg, want) /\ values \in Scopes
  /\ up \in BOOLEAN /\ repowered \in BOOLEAN
  /\ up => /\ pc \in {"end", "up"} /\ Amplified(reg)
           /\ repowered \/ Powered(reg, want)

LEMMA GetsAre ==
  ASSUME NEW r
  PROVE  /\ Get("RFFrequency", r) = GetRFFrequency(r)
         /\ Get("Power", r) = GetRFPower(r)
  <1>1. Get("RFFrequency", r) = GetRFFrequency(r)
    BY SMT DEF Get
  <1>2. Get("Power", r) = GetRFPower(r)
    BY SMT DEF Get
  <1>3. QED
    BY <1>1, <1>2

LEMMA FrequencyInt ==
  ASSUME NEW r, Typed(r)
  PROVE  GetRFFrequency(r) \in Int
  <1>1. r["Frf"] \in Nat
    BY DEF Typed, Below
  <1>2. QED
    BY <1>1 DEF GetRFFrequency

\* Settings that are the registers' are good.
LEMMA FreshGood ==
  ASSUME NEW r, Typed(r), NEW w, DOMAIN w = Settings \cup Recorded,
         \A s \in Settings : w[s] = Get(s, r)
  PROVE  Good(r, w)
  <1>1. w["RFFrequency"] = GetRFFrequency(r)
    BY GetsAre DEF Settings
  <1>2. w["RFFrequency"] - GetRFFrequency(r) \in 0 .. 62
    BY <1>1, FrequencyInt
  <1>3. QED
    BY <1>2 DEF Good, Checked

LEMMA InitSettingInv ==
  ASSUME BInit
  PROVE  SettingInv /\ TypeOK
  <1>1. PICK g \in Garbage :
          reg = [r \in Registers |-> IF r \in Wide THEN Num(g) ELSE g]
    BY DEF BInit, Init
  <1>2. g \in Byte /\ Num(g) \in Nat /\ Num(g) < 256
    BY GarbageAssumption, NumByte
  <1>3. Typed(reg)
    BY <1>1, <1>2 DEF Typed, Registers, Wide, Below
  <1>4. /\ DOMAIN want = Settings \cup Recorded
        /\ \A s \in Settings : want[s] = Get(s, reg)
    BY DEF BInit, Init
  <1>5. Good(reg, want)
    BY <1>3, <1>4, FreshGood
  <1>6. values \in Scopes /\ up = FALSE /\ repowered = FALSE
    BY DEF BInit, Init
  <1>7. SettingInv
    BY <1>5, <1>6 DEF SettingInv
  <1>8. TypeOK
    BY <1>7 DEF SettingInv, TypeOK, Good, Typed
  <1>9. QED
    BY <1>7, <1>8

LEMMA ViewTyped ==
  ASSUME NEW c \in Cells
  PROVE  Typed(View(c))
  <1> DEFINE q == View(c)
  <1>1. DOMAIN q = Registers
    BY DEF View
  <1>2. \A x \in Registers \ Wide : Address[x] \in Addresses
    BY DEF Registers, Wide, Address, Addresses
  <1>3. \A x \in Registers \ Wide : q[x] = c[Address[x]]
    BY DEF View, Wide
  <1>4. \A x \in Registers \ Wide : q[x] \in Byte
    BY <1>2, <1>3 DEF Cells
  <1>5. /\ q["Frf"] = 65536 * Num(c[6]) + 256 * Num(c[7]) + Num(c[8])
        /\ q["Preamble"] = 256 * Num(c[32]) + Num(c[33])
    BY DEF View, Registers
  <1>6. q["Frf"] \in Below(16777216) /\ q["Preamble"] \in Below(65536)
    BY <1>5, NumByte DEF Below
  <1>7. QED
    BY <1>1, <1>4, <1>6 DEF Typed

LEMMA ChangeSettingInv ==
  ASSUME SettingInv, NEW s \in Settings \cup Recorded, Change(s), pc' = pc
  PROVE  SettingInv'
  <1>1. PICK v \in values[s] :
          /\ reg' = Set(s, reg, v) /\ want' = Remember(s, want, reg, v)
    BY DEF Change
  <1>2. /\ up /\ values' = values /\ up' = up
        /\ repowered' =
             (s # "Power" /\ (repowered \/ s \in {"Pa20dBm", "PAOutput"}))
    BY DEF Change
  <1>3. s \in Settings => v \in Arguments[s]
    BY <1>1, ScopesAssumption DEF SettingInv
  <1>4. Serves(s, reg, want, reg', want')
    BY <1>1, <1>3, SetServes DEF SettingInv
  <1>5. Amplified(reg) /\ (repowered \/ Powered(reg, want)) /\ pc \in {"end", "up"}
    BY <1>2 DEF SettingInv
  <1>6. Good(reg', want') /\ Amplified(reg')
    BY <1>4, <1>5 DEF Serves
  <1>7. repowered' \/ Powered(reg', want')
    <2>1. CASE repowered' = TRUE
      BY <2>1
    <2>2. CASE repowered' = FALSE
      <3>1. s = "Power" \/ (Powered(reg, want) /\ s \notin {"Pa20dBm", "PAOutput"})
        BY <1>2, <1>5, <2>2
      <3>2. QED
        BY <1>4, <1>5, <3>1 DEF Serves
    <2>3. QED
      BY <1>2, <2>1, <2>2
  <1>8. repowered' \in BOOLEAN
    BY <1>2
  <1>9. QED
    BY <1>2, <1>5, <1>6, <1>7, <1>8 DEF SettingInv, Amplified, Powered

LEMMA ReadSettingInv ==
  ASSUME SettingInv, NEW s \in {"RFFrequency", "Power"}, Read(s), pc' = pc
  PROVE  SettingInv'
  <1>1. /\ up /\ values' = values /\ reg' = reg /\ up' = up
        /\ want' = [want EXCEPT ![s] = Get(s, reg)]
        /\ repowered' = (s # "Power" /\ repowered)
    BY DEF Read
  <1>2. s \in Settings /\ s \notin Checked
    BY DEF Settings, Checked
  <1>3. /\ DOMAIN want' = Settings \cup Recorded /\ want'[s] = Get(s, reg)
        /\ \A t \in (Settings \cup Recorded) \ {s} : want'[t] = want[t]
    BY <1>1, <1>2 DEF SettingInv, Good
  <1>4. \A t \in Checked : Get(t, reg) = want'[t]
    BY <1>2, <1>3 DEF SettingInv, Good, Checked
  <1>5. want'["RFFrequency"] - GetRFFrequency(reg) \in 0 .. 62
    <2>1. CASE s = "RFFrequency"
      <3>1. want'["RFFrequency"] = GetRFFrequency(reg)
        BY <1>3, <2>1, GetsAre
      <3>2. QED
        BY <3>1, FrequencyInt DEF SettingInv, Good
    <2>2. CASE s = "Power"
      <3>1. want'["RFFrequency"] = want["RFFrequency"]
        BY <1>3, <2>2 DEF Settings
      <3>2. QED
        BY <3>1 DEF SettingInv, Good
    <2>3. QED
      BY <2>1, <2>2
  <1>6. Good(reg, want')
    BY <1>3, <1>4, <1>5 DEF SettingInv, Good
  <1>7. repowered' \/ Powered(reg, want')
    <2>1. CASE s = "Power"
      BY <1>3, <2>1, GetsAre DEF Powered
    <2>2. CASE s = "RFFrequency"
      <3>1. want'["Power"] = want["Power"]
        BY <1>3, <2>2 DEF Settings
      <3>2. QED
        BY <1>1, <2>2, <3>1 DEF SettingInv, Powered
    <2>3. QED
      BY <2>1, <2>2
  <1>8. repowered' \in BOOLEAN
    BY <1>1 DEF SettingInv
  <1>9. QED
    BY <1>1, <1>6, <1>7, <1>8 DEF SettingInv, Amplified, Powered

LEMMA LoRaInitSettingInv ==
  ASSUME SettingInv, LoRaInit, pc' = "end"
  PROVE  SettingInv'
  <1> DEFINE old == [reg |-> reg, want |-> want]
             done == PowerSettings(ModemSettings(old))
  <1>1. /\ reg' = done.reg /\ want' = done.want /\ up' = TRUE
        /\ UNCHANGED <<values, repowered>>
    BY DEF LoRaInit
  <1>2. GoodState(old)
    BY DEF GoodState, SettingInv
  <1>3. GoodState(ModemSettings(old))
    BY <1>2, ModemServes
  <1>4. /\ GoodState(done) /\ Amplified(done.reg)
        /\ Powered(done.reg, done.want)
    BY <1>3, PowerSettingsServe
  <1> HIDE DEF done
  <1>5. QED
    BY <1>1, <1>4 DEF SettingInv, GoodState, Amplified, Powered

LEMMA NextSettingInv ==
  ASSUME BInv, BInv', SettingInv, [BNext]_bvars
  PROVE  SettingInv'
  <1>1. ASSUME UNCHANGED vars, ~up \/ pc' \in {"end", "up"}
        PROVE  SettingInv'
    BY <1>1 DEF vars, SettingInv, Amplified, Powered
  <1>2. CASE Pulse \/ SpiInit \/ SetLoRaOn \/ Block
    <2>1. CASE Pulse
      BY <1>1, <2>1 DEF Pulse, GpioInit, GpioDirection, Hold, Release, GpioStep,
           SettingInv
    <2>2. CASE SpiInit
      BY <1>1, <2>2 DEF SpiInit, SettingInv
    <2>3. CASE SetLoRaOn
      BY <1>1, <2>3 DEF SetLoRaOn, Sleep, LoRaOn, Standby, DioMapping, SpiStep,
           SettingInv
    <2>4. CASE Block
      BY <1>1, <2>4 DEF Block, ReadBlock, ReadVersion, SpiStep, SettingInv
    <2>5. QED
      BY <1>2, <2>1, <2>2, <2>3, <2>4
  <1>3. CASE WriteBlock
    <2>1. /\ pc = "write" /\ reg' = View(chip')
          /\ want' = [s \in DOMAIN want |->
                        IF s \in Settings THEN Get(s, reg') ELSE want[s]]
          /\ UNCHANGED <<values, up, repowered>>
      BY <1>3 DEF WriteBlock, SpiStep
    <2>2. Typed(reg')
      BY <2>1, ViewTyped DEF BInv, BTypeOK
    <2>3. /\ DOMAIN want' = Settings \cup Recorded
          /\ \A s \in Settings : want'[s] = Get(s, reg')
      BY <2>1 DEF SettingInv, Good
    <2>4. Good(reg', want')
      BY <2>2, <2>3, FreshGood
    <2>5. QED
      BY <2>1, <2>4 DEF SettingInv
  <1>4. CASE MakeSettings
    <2>1. pc = "settings" /\ pc' = "end"
      BY <1>4 DEF MakeSettings, SpiStep
    <2>2. CASE Heard
      BY <1>4, <2>1, <2>2, LoRaInitSettingInv DEF MakeSettings
    <2>3. CASE ~Heard
      BY <1>1, <1>4, <2>1, <2>3 DEF MakeSettings
    <2>4. QED
      BY <2>2, <2>3
  <1>5. CASE Ready
    BY <1>1, <1>5 DEF Ready, SpiStep
  <1>6. CASE Later
    <2>1. pc' = pc /\ SettingStep
      BY <1>6 DEF Later
    <2>2. QED
      BY <2>1, ChangeSettingInv, ReadSettingInv DEF SettingStep
  <1>7. CASE UNCHANGED bvars
    <2>1. UNCHANGED vars /\ pc' = pc
      BY <1>7 DEF bvars
    <2>2. QED
      BY <1>1, <2>1 DEF SettingInv
  <1>8. QED
    BY <1>2, <1>3, <1>4, <1>5, <1>6, <1>7 DEF BNext

-----------------------------------------------------------------------------
(* The theorems                                                            *)

LEMMA StartIsSafe == BSpec => [](BInv /\ SettingInv)
  <1>1. BInit => BInv /\ SettingInv
    BY InitBInv, InitSettingInv
  <1>2. BInv /\ SettingInv /\ [BNext]_bvars => (BInv /\ SettingInv)'
    BY NextBInv, NextSettingInv
  <1>3. QED
    BY <1>1, <1>2, PTL DEF BSpec

\* No setter disturbs the setting of another or reads back another value than
\* it was given, for all arguments that the setters are for, in any order and
\* whatever the chip held (sx1276-LoRaMisc.c:139-407).
THEOREM SettingsReadBack == BSpec => []ReadBack
  <1>1. SettingInv => ReadBack
    BY DEF SettingInv, ReadBack, TypeOK, Good, Typed, Checked
  <1>2. QED
    BY <1>1, StartIsSafe, PTL

\* The power in the registers is the one that was asked for last, cut to the
\* range of the amplifier, until the amplifier is changed
\* (sx1276-LoRaMisc.c:65-137).
THEOREM PowerIsAsSet == BSpec => []PowerAsSet
  <1>1. SettingInv => PowerAsSet
    BY DEF SettingInv, PowerAsSet, Powered
  <1>2. QED
    BY <1>1, StartIsSafe, PTL

\* A frequency is read back at most 62 Hz lower than it was set, for every
\* frequency that three bytes can say (sx1276-LoRaMisc.c:45-63).
THEOREM FrequencyIsClose == BSpec => []FrequencyClose
  <1>1. SettingInv => FrequencyClose
    BY DEF SettingInv, FrequencyClose, Good
  <1>2. QED
    BY <1>1, StartIsSafe, PTL

\* Whatever the chip was in and however the pulse failed, a start whose
\* transfers were all heard ends in LoRa standby (sx1276.c:72-80).
THEOREM RadioIsBroughtUp == BSpec => []BroughtUp
  <1>1. BInv => BroughtUp
    BY Places, ModesAre DEF BInv, ChipInv, BroughtUp, Made, Reading
  <1>2. QED
    BY <1>1, StartIsSafe, PTL

\* Unless the block came from a read that failed, the registers that the start
\* does not mean to change are those of its first transfer
\* (sx1276-LoRa.c:158-164).
THEOREM OthersAreKept == BSpec => []OthersKept
  <1>1. BInv /\ ~spoiled /\ pc \notin Early => Kept(chip)
    BY DEF BInv, BTypeOK, Steps, KeptInv
  <1>2. BInv => OthersKept
    BY <1>1, Places DEF Early, Kept, OthersKept
  <1>3. QED
    BY <1>2, StartIsSafe, PTL
=============================================================================
