------------------------------ MODULE RFDriver ------------------------------
(***************************************************************************)
(* The radio driver: the state machine SX1276LoRaProcess that thread_lora  *)
(* turns (lora/sx1276-LoRa.c, user/lora.c), and the second half of         *)
(* thread_lora_send, which waits for the state RX_RUNNING and then writes  *)
(* the frame and the state TX_INIT into the driver from another thread,    *)
(* with no lock.                                                           *)
(*                                                                         *)
(* The two threads share RFLRState, RFBuffer and TxPacketSize.  A handler  *)
(* of the state machine is split where the other thread can get between    *)
(* its reads and its writes of them.  The settings are those of the build: *)
(* continuous reception, explicit header, no frequency hopping; the        *)
(* branches of RxSingleOn, FreqHopOn and CAD are dead code.                *)
(*                                                                         *)
(* The SX1276 chip is outside the program: it is modelled by what the      *)
(* driver relies on (three interrupt flags, a mode, and a FIFO shared by   *)
(* reception and transmission).                                            *)
(***************************************************************************)
EXTENDS Naturals, Sequences

CONSTANTS
  MaxRx,                \* bound: packets that arrive
  MaxTx                 \* bound: frames to send

ASSUME BoundsAssumption == MaxRx \in Nat /\ MaxTx \in Nat

VARIABLES
  state,                \* RFLRState
  rfbuf,                \* RFBuffer
  rxSize,               \* RxPacketSize, as the packet that has that size
  txSize,               \* TxPacketSize, as the request that has that size
  shadow,               \* operating mode in SX1276LR->RegOpMode
  lpc,                  \* where thread_lora is
  got,                  \* what SX1276ReadFifo is bringing in
  spc,                  \* where thread_lora_send is
  req,                  \* number of the request it handles
  mode,                 \* chip: operating mode
  rxDone, crcErr, txDone, \* chip: RegIrqFlags
  rxFifo,               \* chip: FIFO at RegFifoRxCurrentAddr
  txFifo,               \* chip: FIFO at RegFifoTxBaseAddr, with its length
  heard,                \* history: kind of every packet received
  delivered,            \* history: what thread_lora passed to lora_recv_msg
  air,                  \* history: what was transmitted
  raced,                \* history: a transmission was set up during a reception
  overrun,              \* history: a packet arrived before the last was fetched
  stale                 \* history: a transmission began with a packet unfetched

driverVars == <<state, rfbuf, rxSize, txSize, shadow>>
historyVars == <<raced, overrun, stale>>
chipVars == <<mode, rxDone, crcErr, txDone, rxFifo, txFifo, heard, air>>
vars == <<driverVars, chipVars, lpc, got, spc, req, delivered, historyVars>>

State == {"IDLE", "RX_INIT", "RX_RUNNING", "RX_DONE", "TX_INIT",
          "TX_RUNNING", "TX_DONE"}

\* A frame is known by its number; two other contents of a buffer matter.
Rx(k) == <<"rx", k>>
Tx(n) == <<"tx", n>>
Zero == <<"zero", 0>>        \* cleared
Partial == <<"partial", 0>>  \* one thread is writing it
Mixed == <<"mixed", 0>>      \* two threads wrote it at a time

Content == {"rx", "tx", "zero", "partial", "mixed"} \X Nat

\* What can be received: a frame of the gateway's protocol, a good packet
\* that fails the test of lora.c:149, a packet with a bad CRC.
Kind == {"frame", "foreign", "corrupt"}

TypeOK ==
  /\ state \in State
  /\ rfbuf \in Content
  /\ rxSize \in Nat /\ txSize \in Nat /\ req \in Nat
  /\ shadow \in {"STANDBY", "RX", "TX"} /\ mode \in {"STANDBY", "RX", "TX"}
  /\ lpc \in {"boot", "loop", "clear", "running", "ack", "flags", "fetch",
              "again", "fetched", "getrx", "on", "startrx"}
  /\ spc \in {"idle", "poll", "set", "copy", "arm"}
  /\ got \in Content /\ rxFifo \in Content
  /\ txFifo \in [len : Nat, data : Content]
  /\ rxDone \in BOOLEAN /\ crcErr \in BOOLEAN /\ txDone \in BOOLEAN
  /\ heard \in Seq(Kind)
  /\ delivered \in Seq(Content)
  /\ air \in Seq([len : Nat, data : Content])
  /\ raced \in BOOLEAN /\ overrun \in BOOLEAN /\ stale \in BOOLEAN

Init ==
  /\ state = "IDLE" /\ rfbuf = Zero /\ rxSize = 0 /\ txSize = 0
  /\ shadow = "STANDBY" /\ mode = "STANDBY"
  /\ lpc = "boot" /\ got = Zero
  /\ spc = "idle" /\ req = 0
  /\ rxDone = FALSE /\ crcErr = FALSE /\ txDone = FALSE
  /\ rxFifo = Zero /\ txFifo = [len |-> 0, data |-> Zero]
  /\ heard = <<>> /\ delivered = <<>> /\ air = <<>>
  /\ raced = FALSE /\ overrun = FALSE /\ stale = FALSE

-----------------------------------------------------------------------------
(* Shared pieces                                                           *)

\* SX1276LoRaSetOpMode writes the chip only if its shadow differs.
SetOpMode(m) ==
  /\ shadow' = m
  /\ mode' = IF shadow = m THEN mode ELSE m

\* Two copies into RFBuffer that overlap in time leave a mixture.
BeginWrite == rfbuf' = IF rfbuf = Partial THEN Mixed ELSE Partial
EndWrite(c) == rfbuf' = IF rfbuf = Partial THEN c ELSE Mixed

\* The sender has passed its test and has not yet stored TX_INIT.
SettingUp == spc \in {"set", "copy", "arm"}

-----------------------------------------------------------------------------
(* thread_lora                                                             *)

\* Reset, SX1276Init, SX1276StartRx.
Boot ==
  /\ lpc = "boot"
  /\ state' = "RX_INIT"
  /\ SetOpMode("STANDBY")
  /\ lpc' = "loop"
  /\ UNCHANGED <<rfbuf, rxSize, txSize, got, spc, req, rxDone, crcErr, txDone,
                 rxFifo, txFifo, heard, delivered, air, historyVars>>

\* RX_INIT: standby, then continuous reception.  The two mode writes are one
\* step: nobody else talks to the chip.
RxInit ==
  /\ lpc = "loop" /\ state = "RX_INIT"
  /\ shadow' = "RX" /\ mode' = "RX"
  /\ lpc' = "clear"
  /\ UNCHANGED <<state, rfbuf, rxSize, txSize, got, spc, req, rxDone, crcErr,
                 txDone, rxFifo, txFifo, heard, delivered, air, historyVars>>

RxInitClear ==
  /\ lpc = "clear"
  /\ rfbuf' = Zero
  /\ lpc' = "running"
  /\ UNCHANGED <<state, rxSize, txSize, shadow, got, spc, req, chipVars,
                 delivered, historyVars>>

\* The store that ends RX_INIT.
RxInitStore ==
  /\ lpc = "running"
  /\ state' = "RX_RUNNING"
  /\ lpc' = "loop"
  /\ UNCHANGED <<rfbuf, rxSize, txSize, shadow, got, spc, req, chipVars,
                 delivered, historyVars>>

\* RX_RUNNING with RXDONE up; without it the handler changes nothing.
RxPoll ==
  /\ lpc = "loop" /\ state = "RX_RUNNING"
  /\ rxDone
  /\ lpc' = "ack"
  /\ raced' = (raced \/ SettingUp)
  /\ UNCHANGED <<driverVars, chipVars, got, spc, req, delivered, overrun,
                 stale>>

\* Mutant: the flag is not cleared.
RxAckKeepsFlag ==
  /\ lpc = "ack"
  /\ state' = "RX_DONE"
  /\ lpc' = "loop"
  /\ UNCHANGED <<rfbuf, rxSize, txSize, shadow, got, spc, req, chipVars,
                 delivered, historyVars>>

RxAck ==
  /\ lpc = "ack"
  /\ rxDone' = FALSE
  /\ state' = "RX_DONE"
  /\ lpc' = "loop"
  /\ UNCHANGED <<rfbuf, rxSize, txSize, shadow, got, spc, req, mode, crcErr,
                 txDone, rxFifo, txFifo, heard, delivered, air, historyVars>>

\* RX_DONE: the CRC flag first.
RxCheckCrc ==
  /\ lpc = "loop" /\ state = "RX_DONE"
  /\ crcErr' = FALSE
  /\ lpc' = IF crcErr THEN "again" ELSE "flags"
  /\ UNCHANGED <<driverVars, got, spc, req, mode, rxDone, txDone, rxFifo,
                 txFifo, heard, delivered, air, historyVars>>

\* A bad CRC: RX_RUNNING again, nothing to report.
RxAgain ==
  /\ lpc = "again"
  /\ state' = "RX_RUNNING"
  /\ lpc' = "loop"
  /\ UNCHANGED <<rfbuf, rxSize, txSize, shadow, got, spc, req, chipVars,
                 delivered, historyVars>>

\* Size and address are read; SX1276ReadFifo starts filling RFBuffer.
RxFetchBegin ==
  /\ lpc = "flags"
  /\ rxSize' = Len(heard)
  /\ got' = rxFifo
  /\ BeginWrite
  /\ lpc' = "fetch"
  /\ UNCHANGED <<state, txSize, shadow, spc, req, chipVars, delivered,
                 historyVars>>

RxFetchEnd ==
  /\ lpc = "fetch"
  /\ EndWrite(got)
  /\ lpc' = "fetched"
  /\ UNCHANGED <<state, rxSize, txSize, shadow, got, spc, req, chipVars,
                 delivered, historyVars>>

RxFetchStore ==
  /\ lpc = "fetched"
  /\ state' = "RX_RUNNING"
  /\ lpc' = "getrx"
  /\ UNCHANGED <<rfbuf, rxSize, txSize, shadow, got, spc, req, chipVars,
                 delivered, historyVars>>

\* RF_RX_DONE: SX1276GetRxPacket, the length and checksum test, and the
\* message to thread_lora_recv.  Whether the test passes for bytes that are
\* not those of the packet just received is open.
GetRxPacket ==
  /\ lpc = "getrx"
  /\ rxSize' = 0
  /\ \E ok \in IF rfbuf = Rx(rxSize) THEN {heard[rxSize] = "frame"} ELSE BOOLEAN :
       delivered' = IF ok THEN Append(delivered, IF rfbuf = Partial THEN Mixed
                                                 ELSE rfbuf)
                    ELSE delivered
  /\ lpc' = "loop"
  /\ UNCHANGED <<state, rfbuf, txSize, shadow, got, spc, req, chipVars,
                 historyVars>>

\* TX_INIT: standby and the payload.  The FIFO is shared: what is written
\* may lie over a packet not yet fetched, and its flag may stay up.
TxLoad ==
  /\ lpc = "loop" /\ state = "TX_INIT"
  /\ SetOpMode("STANDBY")
  /\ txFifo' = [len |-> txSize, data |-> rfbuf]
  /\ rxFifo' \in {rxFifo, rfbuf}
  /\ \E keep \in BOOLEAN : rxDone' = (rxDone /\ keep) /\ crcErr' = (crcErr /\ keep)
  /\ stale' = (stale \/ rxDone)
  /\ lpc' = "on"
  /\ UNCHANGED <<state, rfbuf, rxSize, txSize, got, spc, req, txDone, heard,
                 delivered, air, raced, overrun>>

\* Mutant: the state is not advanced.
TxOnStays ==
  /\ lpc = "on"
  /\ SetOpMode("TX")
  /\ lpc' = "loop"
  /\ UNCHANGED <<state, rfbuf, rxSize, txSize, got, spc, req, rxDone, crcErr,
                 txDone, rxFifo, txFifo, heard, delivered, air, historyVars>>

TxOn ==
  /\ lpc = "on"
  /\ SetOpMode("TX")
  /\ state' = "TX_RUNNING"
  /\ lpc' = "loop"
  /\ UNCHANGED <<rfbuf, rxSize, txSize, got, spc, req, rxDone, crcErr, txDone,
                 rxFifo, txFifo, heard, delivered, air, historyVars>>

\* TX_RUNNING with TXDONE up; there is no timeout.
TxPoll ==
  /\ lpc = "loop" /\ state = "TX_RUNNING"
  /\ txDone
  /\ txDone' = FALSE
  /\ state' = "TX_DONE"
  /\ UNCHANGED <<rfbuf, rxSize, txSize, shadow, lpc, got, spc, req, mode,
                 rxDone, crcErr, rxFifo, txFifo, heard, delivered, air,
                 historyVars>>

TxDone ==
  /\ lpc = "loop" /\ state = "TX_DONE"
  /\ SetOpMode("STANDBY")
  /\ state' = "IDLE"
  /\ lpc' = "startrx"
  /\ UNCHANGED <<rfbuf, rxSize, txSize, got, spc, req, rxDone, crcErr, txDone,
                 rxFifo, txFifo, heard, delivered, air, historyVars>>

\* Mutant: RF_TX_DONE is not handled.
StartRxMissing ==
  /\ lpc = "startrx"
  /\ lpc' = "loop"
  /\ UNCHANGED <<driverVars, got, spc, req, chipVars, delivered, historyVars>>

\* Mutant: reception is taken to go on where it was.
StartRxRunning ==
  /\ lpc = "startrx"
  /\ state' = "RX_RUNNING"
  /\ lpc' = "loop"
  /\ UNCHANGED <<rfbuf, rxSize, txSize, shadow, got, spc, req, chipVars,
                 delivered, historyVars>>

\* RF_TX_DONE: SX1276StartRx.
StartRx ==
  /\ lpc = "startrx"
  /\ state' = "RX_INIT"
  /\ lpc' = "loop"
  /\ UNCHANGED <<rfbuf, rxSize, txSize, shadow, got, spc, req, chipVars,
                 delivered, historyVars>>

Lora ==
  \/ Boot \/ RxInit \/ RxInitClear \/ RxInitStore \/ RxPoll \/ RxAck
  \/ RxCheckCrc \/ RxAgain \/ RxFetchBegin \/ RxFetchEnd \/ RxFetchStore
  \/ GetRxPacket \/ TxLoad \/ TxOn \/ TxPoll \/ TxDone \/ StartRx

-----------------------------------------------------------------------------
(* thread_lora_send                                                        *)

\* A message came from lora_send_msg.
Take ==
  /\ spc = "idle"
  /\ req < MaxTx
  /\ req' = req + 1
  /\ spc' = "poll"
  /\ UNCHANGED <<driverVars, chipVars, lpc, got, delivered, historyVars>>

\* Mutant: only a transmission under way is waited for.
PollNotSending ==
  /\ spc = "poll"
  /\ state # "TX_RUNNING"
  /\ spc' = "set"
  /\ raced' = (raced \/ lpc # "loop")
  /\ UNCHANGED <<driverVars, chipVars, lpc, got, req, delivered, overrun, stale>>

\* while (SX1276GetRFState() != 0x2) usleep(...)
Poll ==
  /\ spc = "poll"
  /\ state = "RX_RUNNING"
  /\ spc' = "set"
  /\ raced' = (raced \/ lpc # "loop")
  /\ UNCHANGED <<driverVars, chipVars, lpc, got, req, delivered, overrun,
                 stale>>

\* Mutant: the state is stored before the bytes.
SetTxCopyBeginArmed ==
  /\ spc = "set"
  /\ txSize' = req
  /\ BeginWrite
  /\ state' = "TX_INIT"
  /\ spc' = "copy"
  /\ UNCHANGED <<rxSize, shadow, chipVars, lpc, got, req, delivered,
                 historyVars>>

\* SX1276LoRaSetTxPacket: the size, the bytes, the state.
SetTxCopyBegin ==
  /\ spc = "set"
  /\ txSize' = req
  /\ BeginWrite
  /\ spc' = "copy"
  /\ UNCHANGED <<state, rxSize, shadow, chipVars, lpc, got, req, delivered,
                 historyVars>>

SetTxCopyEnd ==
  /\ spc = "copy"
  /\ EndWrite(Tx(req))
  /\ spc' = "arm"
  /\ UNCHANGED <<state, rxSize, txSize, shadow, chipVars, lpc, got, req,
                 delivered, historyVars>>

SetTxArm ==
  /\ spc = "arm"
  /\ state' = "TX_INIT"
  /\ spc' = "idle"
  /\ UNCHANGED <<rfbuf, rxSize, txSize, shadow, chipVars, lpc, got, req,
                 delivered, historyVars>>

Send == Take \/ Poll \/ SetTxCopyBegin \/ SetTxCopyEnd \/ SetTxArm

-----------------------------------------------------------------------------
(* The chip                                                                *)

\* A packet that thread_lora has not begun to read out.
Unfetched ==
  rxDone \/ lpc \in {"ack", "flags"} \/ (lpc = "loop" /\ state = "RX_DONE")

PacketArrives(kind) ==
  /\ mode = "RX"
  /\ Len(heard) < MaxRx
  /\ heard' = Append(heard, kind)
  /\ rxFifo' = Rx(Len(heard) + 1)
  /\ rxDone' = TRUE
  /\ crcErr' = (crcErr \/ kind = "corrupt")
  /\ overrun' = (overrun \/ Unfetched)
  /\ UNCHANGED <<driverVars, lpc, got, spc, req, mode, txDone, txFifo,
                 delivered, air, raced, stale>>

\* The end of a transmission returns the chip to standby by itself.
TxCompletes ==
  /\ mode = "TX"
  /\ air' = Append(air, txFifo)
  /\ txDone' = TRUE
  /\ mode' = "STANDBY"
  /\ UNCHANGED <<driverVars, lpc, got, spc, req, rxDone, crcErr, rxFifo,
                 txFifo, heard, delivered, historyVars>>

Chip == (\E kind \in Kind : PacketArrives(kind)) \/ TxCompletes

-----------------------------------------------------------------------------

Next == Lora \/ Send \/ Chip

Spec == Init /\ [][Next]_vars

\* thread_lora and thread_lora_send run for ever, and the chip ends every
\* transmission.  Nobody has to send, and no packet has to arrive.
Fairness ==
  /\ WF_vars(Lora)
  /\ WF_vars(Poll) /\ WF_vars(SetTxCopyBegin)
  /\ WF_vars(SetTxCopyEnd) /\ WF_vars(SetTxArm)
  /\ WF_vars(TxCompletes)

LiveSpec == Spec /\ Fairness

\* The same threads beside a chip that may not end a transmission.
SilentChipSpec ==
  /\ Spec
  /\ WF_vars(Lora)
  /\ WF_vars(Poll) /\ WF_vars(SetTxCopyBegin)
  /\ WF_vars(SetTxCopyEnd) /\ WF_vars(SetTxArm)

-----------------------------------------------------------------------------
(* Properties                                                              *)

\* The sender never touches the driver while a transmission is being set up
\* or is under way: between its test and its store of TX_INIT the driver can
\* only be receiving (lora.c:63-67).
NoTxDisturbed ==
  SettingUp => state \in {"RX_RUNNING", "RX_DONE"} /\ mode = "RX"

\* Whenever the driver says RX_RUNNING or RX_DONE the chip listens: no
\* interleaving leaves the gateway deaf (sx1276-LoRa.c:336-446).
Listening == state \in {"RX_RUNNING", "RX_DONE"} => mode = "RX"

\* Whatever the races, no request is transmitted twice or out of order.
NoRepeat ==
  \A i, j \in 1 .. Len(air) : i < j => air[i].len < air[j].len

\* If no transmission was set up while a packet was being handled, every
\* request is transmitted, in order, with its own bytes and length.
AirExact ==
  ~raced => \A i \in 1 .. Len(air) : air[i] = [len |-> i, data |-> Tx(i)]

\* If moreover no packet came too early or was left behind by a
\* transmission, thread_lora_recv is given every frame that was received,
\* once, in order, and nothing else.
DeliveredExact ==
  ~(raced \/ overrun \/ stale) =>
    /\ \A i \in 1 .. Len(delivered) :
         \E k \in 1 .. Len(heard) :
           /\ delivered[i] = Rx(k) /\ heard[k] = "frame"
           /\ \A j \in 1 .. i - 1 : delivered[j][2] < k
    /\ \A k \in 1 .. Len(heard) :
         heard[k] = "frame" =>
           \/ \E i \in 1 .. Len(delivered) : delivered[i] = Rx(k)
           \/ k = rxSize
           \/ k = Len(heard) /\ Unfetched

\* The driver comes back to reception, whatever happens.
BackToRx == []<>(state = "RX_RUNNING")

\* A request that waits for the radio is handed to the driver.
SendProceeds == (spc = "poll") ~> (spc = "idle")

\* "wait lora idle" (lora.c:62): SX1276SetTxPacket is entered, and the
\* transmission requested, only when the radio waits for a packet.
SendWhenIdle ==
  [][SetTxArm => state = "RX_RUNNING" /\ lpc = "loop"]_vars

\* "timeout between Tx Mode entry Tx Done IRQ" (sx1276-LoRaMisc.h): a
\* transmission that the chip does not report as done is given up.
TxTimesOut == (state = "TX_RUNNING") ~> (state # "TX_RUNNING")
=============================================================================
