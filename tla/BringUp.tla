------------------------------ MODULE BringUp ------------------------------
(***************************************************************************)
(* From power-on, or from what an earlier process left, to a radio in      *)
(* standby with its settings made: what thread_lora does before its loop.  *)
(* The reset pulse goes through the GPIO files of lora/platform.c, the     *)
(* registers through spidev and lora/sx1276-Hal.c, and no caller looks at  *)
(* a result, so that every failure is passed over in silence.              *)
(*                                                                         *)
(* The program keeps a shadow of the registers, SX1276Regs.  The first     *)
(* write to the chip is decided from the shadow when it is still zero, and *)
(* SX1276LoRaInit writes the whole shadow over the whole chip.             *)
(*                                                                         *)
(* The settings themselves are those of Registers: from the block write on *)
(* reg is the chip's part that they are kept in, and chip the rest.        *)
(* Bound: no packet arrives, and raises flags, while the radio is started. *)
(***************************************************************************)
EXTENDS Registers

CONSTANTS
  MaxFaults,            \* bound: calls of the kernel that fail
  Junk                  \* what a buffer on the stack can hold

ASSUME FaultsAssumption == MaxFaults \in Nat
ASSUME JunkAssumption == Junk \subseteq Byte

VARIABLES
  pc,                   \* the step of thread_lora
  pin,                  \* the reset pin and its files in /sys/class/gpio
  fd,                   \* spidev: 0 when open, -1 when it is not
  chip,                 \* the registers by address
  shadow,               \* SX1276Regs
  rest,                 \* what a reset leaves in the registers; never changes
  faults,               \* calls that have failed
  base,                 \* history: the chip when the first transfer begins
  lost,                 \* history: a transfer failed
  spoiled               \* history: a block was written that was not read

bvars == <<vars, pc, pin, fd, chip, shadow, rest, faults, base, lost, spoiled>>

-----------------------------------------------------------------------------
(* Registers of the chip and fields of the shadow                          *)

Address ==
  [OpMode |-> \h01, FrfMsb |-> \h06, PaConfig |-> \h09, PaRamp |-> \h0A,
   Lna |-> \h0C, IrqFlags |-> \h12,
   ModemConfig1 |-> \h1D, ModemConfig2 |-> \h1E,
   SymbTimeoutLsb |-> \h1F, PreambleMsb |-> \h20, PayloadLength |-> \h22,
   HopPeriod |-> \h24, ModemConfig3 |-> \h26, DetectOptimize |-> \h31,
   DioMapping1 |-> \h40, Version |-> \h42, PaDac |-> \h4D]

Addresses == 0 .. \h6F

\* The place in SX1276Regs of the field that tSX1276LR has for the register a.
\* Six arrays of reserved bytes are one shorter than the gap that they fill,
\* so that every later field lies before the address it is named for.
Field(a) ==
  a - Bit(a > \h30) - Bit(a > \h36) - Bit(a > \h3F) - Bit(a > \h4A)
    - Bit(a > \h5A) - Bit(a > \h60)

\* The bits of RegOpMode: LoRa or FSK, and the mode.
LongRange == {7}
Mode == [Sleep |-> {}, Standby |-> {0}, Receiver |-> {0, 2}]
ModeOf(op) == op \cap 0 .. 2

View(c) ==
  [r \in Registers |->
     CASE r = "Frf" ->
            65536 * Num(c[\h06]) + 256 * Num(c[\h07]) + Num(c[\h08])
       [] r = "Preamble" -> 256 * Num(c[\h20]) + Num(c[\h21])
       [] OTHER -> c[Address[r]]]

\* What SX1276LoRaInit and its caller mean to change.
Named ==
  LET from(r, n) == Address[r] .. Address[r] + n - 1
  IN  from("OpMode", 1) \cup from("FrfMsb", 3) \cup from("PaConfig", 1)
        \cup from("Lna", 1) \cup from("ModemConfig1", 3)
        \cup from("PayloadLength", 1) \cup from("ModemConfig3", 1)
        \cup from("DetectOptimize", 1) \cup from("DioMapping1", 2)
        \cup from("PaDac", 1)

Holding(op, g) ==
  [a \in Addresses |-> CASE a = Address.OpMode -> op
                         [] a = Address.Version -> {1, 4}
                         [] OTHER -> g]

\* The pin is fresh, or an earlier process left it, in the pulse or after it;
\* the chip is fresh, or that process left it receiving.
BInit ==
  /\ Init
  /\ pin \in {[exported |-> FALSE, out |-> FALSE, level |-> 1],
              [exported |-> TRUE, out |-> TRUE, level |-> 1],
              [exported |-> TRUE, out |-> TRUE, level |-> 0]}
  /\ rest = Holding(Mode.Standby \cup {3}, reg["PaConfig"])
  /\ \/ chip = rest
     \/ pin.level = 1
          /\ \E g \in Garbage : chip = Holding(LongRange \cup Mode.Receiver, g)
  /\ pc = "export" /\ fd = 0 /\ faults = 0
  /\ shadow = [c \in Addresses |-> {}]
  /\ base = chip
  /\ lost = FALSE /\ spoiled = FALSE

-----------------------------------------------------------------------------
(* The reset pulse                                                         *)

\* A call of the kernel, which may fail.
Call(ok) ==
  /\ ok \/ faults < MaxFaults
  /\ faults' = faults + Bit(~ok)

\* Held low the pin resets the chip.
Drive(p) ==
  /\ pin' = p
  /\ chip' = IF p.out /\ p.level = 0 THEN rest ELSE chip

GpioStep(here, there) ==
  /\ pc = here /\ pc' = there
  /\ UNCHANGED <<vars, fd, shadow, rest, base, lost, spoiled>>

GpioInit ==
  /\ GpioStep("export", "direct")
  /\ \E ok \in BOOLEAN :
       /\ Call(ok)
       /\ Drive([pin EXCEPT !.exported = @ \/ ok])

\* An output may begin low or keep its level.
GpioDirection ==
  /\ GpioStep("direct", "hold")
  /\ \E ok \in BOOLEAN, low \in BOOLEAN :
       /\ Call(ok)
       /\ IF ok /\ pin.exported
          THEN Drive([pin EXCEPT !.out = TRUE, !.level = IF low THEN 0 ELSE @])
          ELSE Drive(pin)

GpioSetValue(v) ==
  \E ok \in BOOLEAN :
    /\ Call(ok)
    /\ Drive(IF ok /\ pin.exported /\ pin.out THEN [pin EXCEPT !.level = v]
             ELSE pin)

Hold == GpioStep("hold", "release") /\ GpioSetValue(0)

Release == GpioStep("release", "spi") /\ GpioSetValue(1)

\* The pulse, from the export to the release.
Pulse == GpioInit \/ GpioDirection \/ Hold \/ Release

\* open or one of the six settings fails, or none.
SpiInit ==
  /\ pc = "spi" /\ pc' = "sleep"
  /\ \E ok \in BOOLEAN : Call(ok) /\ fd' = IF ok THEN 0 ELSE -1
  /\ base' = chip
  /\ UNCHANGED <<vars, pin, chip, shadow, rest, lost, spoiled>>

-----------------------------------------------------------------------------
(* Transfers                                                               *)

Heard == fd # -1 /\ (pin.out => pin.level = 1)

\* Nobody looks at the result of a transfer.
Transfer(ok) == Call(ok) /\ lost' = (lost \/ ~ok)

\* The chip need not change between LoRa and FSK when it is not asleep, which
\* is why the program means to put it to sleep first.
OpModes(old, new) ==
  {new} \cup (IF ModeOf(old) = Mode.Sleep THEN {}
              ELSE {(new \ LongRange) \cup (old \cap LongRange)})

\* What the chip may hold when n cells of s, from that of a, are written at a;
\* a flag of RegIrqFlags is cleared by writing a one.
Written(s, a, n) ==
  {[x \in Addresses |->
      CASE x \notin a .. a + n - 1 \/ x = Address.Version -> chip[x]
        [] x \in a .. a + n - 1 /\ x = Address.OpMode -> op
        [] x \in a .. a + n - 1 /\ x = Address.IrqFlags ->
             chip[x] \ s[Field(a) + x - a]
        [] OTHER -> s[Field(a) + x - a]] :
     op \in OpModes(chip[Address.OpMode], s[Address.OpMode])}

SX1276WriteBuffer(s, a, n) ==
  /\ shadow' = s
  /\ \E ok \in BOOLEAN :
       /\ Transfer(ok)
       /\ chip' \in IF ok /\ Heard THEN Written(s, a, n) ELSE {chip}

\* What is not read is what lies on the stack.
SX1276ReadBuffer(a, n) ==
  \E ok \in BOOLEAN, j \in Junk :
    /\ Transfer(ok)
    /\ shadow' =
         [c \in Addresses |->
            IF c \notin Field(a) .. Field(a) + n - 1 THEN shadow[c]
            ELSE IF ok /\ Heard THEN chip[a + c - Field(a)] ELSE j]
    /\ UNCHANGED chip

SpiStep(here, there) ==
  /\ pc = here /\ pc' = there
  /\ UNCHANGED <<pin, fd, rest, base>>

\* The mode that the shadow shows already is not written.
SX1276LoRaSetOpMode(mode) ==
  IF ModeOf(shadow[Address.OpMode]) = mode
  THEN UNCHANGED <<shadow, chip, faults, lost>>
  ELSE SX1276WriteBuffer(
         [shadow EXCEPT ![Address.OpMode] = (@ \cap 3 .. 7) \cup mode],
         Address.OpMode, 1)

-----------------------------------------------------------------------------
(* SX1276Init                                                              *)

\* With a zero shadow nothing is written.
Sleep ==
  /\ SpiStep("sleep", "lora")
  /\ SX1276LoRaSetOpMode(Mode.Sleep)
  /\ UNCHANGED <<vars, spoiled>>

LoRaOn ==
  /\ SpiStep("lora", "standby")
  /\ SX1276WriteBuffer(
       [shadow EXCEPT ![Address.OpMode] = (@ \cap 0 .. 6) \cup LongRange],
       Address.OpMode, 1)
  /\ UNCHANGED <<vars, spoiled>>

\* Mutant: the chip is left asleep.
StandbyForgotten ==
  /\ SpiStep("standby", "dio")
  /\ UNCHANGED <<vars, shadow, chip, faults, lost, spoiled>>

Standby ==
  /\ SpiStep("standby", "dio")
  /\ SX1276LoRaSetOpMode(Mode.Standby)
  /\ UNCHANGED <<vars, spoiled>>

DioMapping ==
  LET f == Field(Address.DioMapping1)
  IN  /\ SpiStep("dio", "look")
      /\ SX1276WriteBuffer([shadow EXCEPT ![f] = {}, ![f + 1] = {}],
                           Address.DioMapping1, 2)
      /\ UNCHANGED <<vars, spoiled>>

\* SX1276SetLoRaOn, up to the first block read.
SetLoRaOn == Sleep \/ LoRaOn \/ Standby \/ DioMapping

ReadBlock(here, there) ==
  /\ SpiStep(here, there)
  /\ SX1276ReadBuffer(Address.OpMode, \h6F)
  /\ spoiled' = (faults' # faults)
  /\ UNCHANGED vars

ReadVersion ==
  /\ SpiStep("defaults", "read")
  /\ SX1276ReadBuffer(Address.Version, 1)
  /\ UNCHANGED <<vars, spoiled>>

\* Mutant: the version is read into the block that is then written.
BlockVersionLast ==
  \/ ReadBlock("look", "defaults")
  \/ ReadBlock("defaults", "read")
  \/ /\ SpiStep("read", "write")
     /\ SX1276ReadBuffer(Address.Version, 1)
     /\ UNCHANGED <<vars, spoiled>>

\* The end of SX1276SetLoRaOn and the beginning of SX1276LoRaInit.
Block ==
  \/ ReadBlock("look", "defaults")
  \/ ReadVersion
  \/ ReadBlock("read", "write")

WriteBlock ==
  /\ SpiStep("write", "settings")
  /\ SX1276WriteBuffer([shadow EXCEPT ![Address.Lna] = {5}],
                       Address.OpMode, \h6F)
  /\ reg' = View(chip')
  /\ want' = [s \in DOMAIN want |->
                IF s \in Settings THEN Get(s, reg') ELSE want[s]]
  /\ spoiled' = (spoiled /\ chip' # chip)
  /\ UNCHANGED <<values, up, repowered>>

\* The setters, when the chip hears them; bound: their transfers do not fail.
MakeSettings ==
  /\ SpiStep("settings", "end")
  /\ IF Heard THEN LoRaInit ELSE UNCHANGED vars
  /\ UNCHANGED <<chip, shadow, faults, lost, spoiled>>

Ready ==
  /\ SpiStep("end", "up")
  /\ SX1276LoRaSetOpMode(Mode.Standby)
  /\ UNCHANGED <<vars, spoiled>>

\* Later settings; bound: after a start without a fault.
Later ==
  /\ pc = "up" /\ faults = 0
  /\ SettingStep
  /\ UNCHANGED <<pc, pin, fd, chip, shadow, rest, faults, base, lost, spoiled>>

BNext ==
  \/ Pulse \/ SpiInit
  \/ SetLoRaOn \/ Block \/ WriteBlock \/ MakeSettings \/ Ready
  \/ Later

BSpec == BInit /\ [][BNext]_bvars

-----------------------------------------------------------------------------
(* Properties                                                              *)

\* When every transfer was heard the radio ends in LoRa standby with its pins
\* mapped, its gain set and no flag left of an earlier process, whatever it was
\* in before and whether or not the reset pulse came through: the sleep that
\* the zero shadow suppresses (sx1276-LoRa.c:218-220) is made up for by the
\* writes that follow (sx1276.c:72-80, sx1276-LoRa.c:154-195).
BroughtUp ==
  pc = "up" /\ Heard /\ ~lost =>
    /\ chip[Address.OpMode] = LongRange \cup Mode.Standby
    /\ chip[Address.DioMapping1] = {} /\ chip[Address.DioMapping1 + 1] = {}
    /\ chip[Address.Lna] = {5} /\ chip[Address.IrqFlags] = {}

\* The block write changes no register that the start does not mean to change,
\* although the fields of the shadow do not lie at the addresses they are named
\* for, but that it clears the pending flags, all or none: only a block read
\* that failed before it lets it (sx1276-LoRa.c:158-164, 399-400,
\* sx1276-LoRa.h:764-804).
OthersKept ==
  ~spoiled /\ pc \notin {"export", "direct", "hold", "release", "spi"} =>
    /\ \A a \in Addresses \ (Named \cup {Address.IrqFlags}) : chip[a] = base[a]
    /\ chip[Address.IrqFlags] \in {{}, base[Address.IrqFlags]}
=============================================================================
