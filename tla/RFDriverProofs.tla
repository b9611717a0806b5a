--------------------------- MODULE RFDriverProofs ---------------------------
(***************************************************************************)
(* Proofs about RFDriver, for any number of packets and requests: the      *)
(* sender never touches the driver while a transmission is under way, the  *)
(* gateway is never deaf, nothing is transmitted twice, and without a race *)
(* every request is transmitted with its own bytes and every frame that    *)
(* was received is delivered.                                              *)
(*                                                                         *)
(* The invariants come in four layers.  Place ties what the driver says    *)
(* (RFLRState) to where thread_lora is and to the mode of the chip; it is  *)
(* what makes the unlocked test of the sender safe for the transmitter.    *)
(* Numbered says which requests are behind and which ahead of the one the  *)
(* driver knows.  Exact follows the bytes of a request while nothing races *)
(* with it, and Received those of a packet.                                *)
(***************************************************************************)
EXTENDS RFDriver, TLAPS

\* Where thread_lora is while a packet is in its hands.
Handling == {"ack", "flags", "fetch", "again", "fetched", "getrx"}

Place ==
  /\ lpc = "boot" <=> state = "IDLE" /\ lpc # "startrx"
  /\ lpc = "startrx" => state = "IDLE"
  /\ lpc \in {"clear", "running"} => state = "RX_INIT"
  /\ lpc \in Handling => state \in {"RX_RUNNING", "RX_DONE", "TX_INIT"}
  /\ lpc = "on" => state = "TX_INIT" /\ shadow = "STANDBY" /\ mode = "STANDBY"
  /\ state \in {"TX_RUNNING", "TX_DONE"} => lpc = "loop" /\ shadow = "TX"
  /\ state \in {"RX_RUNNING", "RX_DONE"} => mode = "RX" /\ shadow = "RX"
  /\ lpc \in Handling => mode = "RX" /\ shadow = "RX"
  /\ lpc \in {"clear", "running"} => mode = "RX" /\ shadow = "RX"
  /\ state = "TX_INIT" /\ lpc # "on" => mode = "RX" /\ shadow = "RX"
  /\ mode = "TX" => state = "TX_RUNNING"
  /\ txDone => state = "TX_RUNNING" /\ mode = "STANDBY"
  /\ SettingUp => state \in {"RX_RUNNING", "RX_DONE"}

\* The request the driver knows of is still to go to the air.
Ahead == spc \in {"copy", "arm"} \/ state = "TX_INIT" \/ mode = "TX"

\* The requests transmitted are behind the one the driver knows of, and that
\* one is still ahead as long as it is set up, armed or on the air.
Numbered ==
  /\ txSize <= req
  /\ spc \in {"poll", "set"} => txSize < req
  /\ spc \in {"copy", "arm"} => txSize = req
  /\ lpc = "on" \/ mode = "TX" => txFifo.len = txSize
  /\ \A i \in 1 .. Len(air) : air[i].len <= txSize
  /\ Ahead => \A i \in 1 .. Len(air) : air[i].len < txSize
  /\ NoRepeat

\* The bytes of that request stay in RFBuffer until the chip has them, and
\* every request before it has been transmitted.
Followed ==
  /\ SettingUp => lpc = "loop" /\ state = "RX_RUNNING"
  /\ state = "TX_INIT" => lpc \in {"loop", "on"} /\ rfbuf = Tx(txSize)
  /\ rfbuf = Partial => lpc = "fetch" \/ spc = "copy"
  /\ rxFifo # Partial /\ got # Partial
  /\ spc = "copy" => rfbuf = Partial
  /\ spc = "arm" => rfbuf = Tx(req)
  /\ lpc = "on" \/ mode = "TX" => txFifo = [len |-> txSize, data |-> Tx(txSize)]
  /\ spc \in {"poll", "set"} => req = txSize + 1
  /\ spc = "idle" => req = txSize
  /\ txSize = Len(air) + (IF Ahead THEN 1 ELSE 0)
  /\ \A i \in 1 .. Len(air) : air[i] = [len |-> i, data |-> Tx(i)]

Exact == ~raced => Followed

IInv == TypeOK /\ Place /\ Numbered /\ Exact

-----------------------------------------------------------------------------
(* Type correctness                                                        *)

LEMMA Contents ==
  /\ Zero \in Content /\ Partial \in Content /\ Mixed \in Content
  /\ \A n \in Nat : Rx(n) \in Content /\ Tx(n) \in Content
  BY DEF Zero, Partial, Mixed, Rx, Tx, Content

LEMMA TypeInit ==
  ASSUME Init
  PROVE  TypeOK
<1>1. Zero \in Content
  BY Contents
<1>2. /\ heard \in Seq(Kind) /\ delivered \in Seq(Content)
      /\ air \in Seq([len : Nat, data : Content])
  BY DEF Init
<1>3. /\ rxDone \in BOOLEAN /\ crcErr \in BOOLEAN /\ txDone \in BOOLEAN
      /\ raced \in BOOLEAN /\ overrun \in BOOLEAN /\ stale \in BOOLEAN
  BY Zenon DEF Init
<1>4. txFifo \in [len : Nat, data : Content]
  BY <1>1 DEF Init
<1>. QED
  BY <1>1, <1>2, <1>3, <1>4 DEF Init, TypeOK, State

LEMMA TypeStep ==
  ASSUME TypeOK, [Next]_vars
  PROVE  TypeOK'
<1>1. CASE Boot
  BY <1>1 DEF Boot, TypeOK, driverVars, chipVars, historyVars, State,
              SetOpMode
<1>2. CASE RxInit
  BY <1>2 DEF RxInit, TypeOK, driverVars, chipVars, historyVars, State
<1>3. CASE RxInitClear
  BY <1>3, Contents DEF RxInitClear, TypeOK, driverVars, chipVars, historyVars
<1>4. CASE RxInitStore
  BY <1>4 DEF RxInitStore, TypeOK, driverVars, chipVars, historyVars, State
<1>5. CASE RxPoll
  BY <1>5 DEF RxPoll, TypeOK, driverVars, chipVars, historyVars
<1>6. CASE RxAck
  <2>1. rxDone' \in BOOLEAN
    BY <1>6, Zenon DEF RxAck
  <2>. QED
    BY <1>6, <2>1 DEF RxAck, TypeOK, historyVars, State
<1>7. CASE RxCheckCrc
  <2>1. lpc' \in {"again", "flags"} /\ crcErr' \in BOOLEAN
    BY <1>7, Zenon DEF RxCheckCrc
  <2>. QED
    BY <1>7, <2>1 DEF RxCheckCrc, TypeOK, driverVars, historyVars
<1>8. CASE RxAgain
  BY <1>8 DEF RxAgain, TypeOK, driverVars, chipVars, historyVars, State
<1>9. CASE RxFetchBegin
  BY <1>9, Contents DEF RxFetchBegin, TypeOK, driverVars, chipVars,
                        historyVars, BeginWrite
<1>10. CASE RxFetchEnd
  BY <1>10, Contents DEF RxFetchEnd, TypeOK, driverVars, chipVars,
                         historyVars, EndWrite
<1>11. CASE RxFetchStore
  BY <1>11 DEF RxFetchStore, TypeOK, driverVars, chipVars, historyVars, State
<1>12. CASE GetRxPacket
  BY <1>12, Contents DEF GetRxPacket, TypeOK, driverVars, chipVars,
                         historyVars
<1>13. CASE TxLoad
  BY <1>13 DEF TxLoad, TypeOK, driverVars, chipVars, historyVars, State,
               SetOpMode
<1>14. CASE TxOn
  BY <1>14 DEF TxOn, TypeOK, driverVars, chipVars, historyVars, State,
               SetOpMode
<1>15. CASE TxPoll
  <2>1. txDone' \in BOOLEAN
    BY <1>15, Zenon DEF TxPoll
  <2>. QED
    BY <1>15, <2>1 DEF TxPoll, TypeOK, historyVars, State
<1>16. CASE TxDone
  BY <1>16 DEF TxDone, TypeOK, driverVars, chipVars, historyVars, State,
               SetOpMode
<1>17. CASE StartRx
  BY <1>17 DEF StartRx, TypeOK, driverVars, chipVars, historyVars, State
<1>18. CASE Take
  BY <1>18 DEF Take, TypeOK, driverVars, chipVars, historyVars
<1>19. CASE Poll
  BY <1>19 DEF Poll, TypeOK, driverVars, chipVars, historyVars
<1>20. CASE SetTxCopyBegin
  BY <1>20, Contents DEF SetTxCopyBegin, TypeOK, driverVars, chipVars,
                         historyVars, BeginWrite
<1>21. CASE SetTxCopyEnd
  BY <1>21, Contents DEF SetTxCopyEnd, TypeOK, driverVars, chipVars,
                         historyVars, EndWrite
<1>22. CASE SetTxArm
  BY <1>22 DEF SetTxArm, TypeOK, driverVars, chipVars, historyVars, State
<1>23. ASSUME NEW kind \in Kind, PacketArrives(kind)
      PROVE  TypeOK'
  BY <1>23, Contents DEF PacketArrives, TypeOK, driverVars, chipVars,
                         historyVars
<1>24. CASE TxCompletes
  BY <1>24 DEF TxCompletes, TypeOK, driverVars, chipVars, historyVars
<1>25. CASE UNCHANGED vars
  BY <1>25 DEF vars, TypeOK, driverVars, chipVars, historyVars
<1>. QED
  BY <1>1, <1>2, <1>3, <1>4, <1>5, <1>6, <1>7, <1>8, <1>9, <1>10, <1>11,
     <1>12, <1>13, <1>14, <1>15, <1>16, <1>17, <1>18, <1>19, <1>20, <1>21,
     <1>22, <1>23, <1>24, <1>25
     DEF Next, Lora, Send, Chip

\* Every variable keeps its type in every behaviour.
THEOREM TypeCorrect == Spec => []TypeOK
<1>1. Init => TypeOK
  BY TypeInit
<1>2. TypeOK /\ [Next]_vars => TypeOK'
  BY TypeStep
<1>. QED
  BY <1>1, <1>2, PTL DEF Spec

-----------------------------------------------------------------------------
(* Where thread_lora is, what the driver says and what the chip does       *)

LEMMA PlaceInit ==
  ASSUME Init
  PROVE  Place
  BY DEF Init, Place, Handling, SettingUp

LEMMA PlaceStep ==
  ASSUME TypeOK, Place, [Next]_vars
  PROVE  Place'
<1>. USE DEF Place, Handling, SettingUp
<1>1. CASE Boot
  BY <1>1 DEF Boot, TypeOK, driverVars, chipVars, historyVars, SetOpMode
<1>2. CASE RxInit
  BY <1>2 DEF RxInit, TypeOK, driverVars, chipVars, historyVars
<1>3. CASE RxInitClear
  BY <1>3 DEF RxInitClear, TypeOK, driverVars, chipVars, historyVars
<1>4. CASE RxInitStore
  BY <1>4 DEF RxInitStore, TypeOK, driverVars, chipVars, historyVars
<1>5. CASE RxPoll
  BY <1>5 DEF RxPoll, TypeOK, driverVars, chipVars, historyVars
<1>6. CASE RxAck
  BY <1>6 DEF RxAck, TypeOK, driverVars, chipVars, historyVars
<1>7. CASE RxCheckCrc
  BY <1>7 DEF RxCheckCrc, TypeOK, driverVars, chipVars, historyVars
<1>8. CASE RxAgain
  BY <1>8 DEF RxAgain, TypeOK, driverVars, chipVars, historyVars
<1>9. CASE RxFetchBegin
  BY <1>9 DEF RxFetchBegin, TypeOK, driverVars, chipVars, historyVars
<1>10. CASE RxFetchEnd
  BY <1>10 DEF RxFetchEnd, TypeOK, driverVars, chipVars, historyVars
<1>11. CASE RxFetchStore
  BY <1>11 DEF RxFetchStore, TypeOK, driverVars, chipVars, historyVars
<1>12. CASE GetRxPacket
  BY <1>12 DEF GetRxPacket, TypeOK, driverVars, chipVars, historyVars
<1>13. CASE TxLoad
  BY <1>13 DEF TxLoad, TypeOK, driverVars, chipVars, historyVars, SetOpMode
<1>14. CASE TxOn
  BY <1>14 DEF TxOn, TypeOK, driverVars, chipVars, historyVars, SetOpMode
<1>15. CASE TxPoll
  BY <1>15 DEF TxPoll, TypeOK, driverVars, chipVars, historyVars
<1>16. CASE TxDone
  BY <1>16 DEF TxDone, TypeOK, driverVars, chipVars, historyVars, SetOpMode
<1>17. CASE StartRx
  BY <1>17 DEF StartRx, TypeOK, driverVars, chipVars, historyVars
<1>18. CASE Take
  BY <1>18 DEF Take, TypeOK, driverVars, chipVars, historyVars
<1>19. CASE Poll
  BY <1>19 DEF Poll, TypeOK, driverVars, chipVars, historyVars
<1>20. CASE SetTxCopyBegin
  BY <1>20 DEF SetTxCopyBegin, TypeOK, driverVars, chipVars, historyVars
<1>21. CASE SetTxCopyEnd
  BY <1>21 DEF SetTxCopyEnd, TypeOK, driverVars, chipVars, historyVars
<1>22. CASE SetTxArm
  BY <1>22 DEF SetTxArm, TypeOK, driverVars, chipVars, historyVars
<1>23. CASE TxCompletes
  BY <1>23 DEF TxCompletes, TypeOK, driverVars, chipVars, historyVars
<1>24. CASE UNCHANGED vars
  BY <1>24 DEF vars, TypeOK, driverVars, chipVars, historyVars
<1>25. ASSUME NEW kind \in Kind, PacketArrives(kind)
      PROVE  Place'
  BY <1>25 DEF PacketArrives, TypeOK, driverVars
<1>. QED
  BY <1>1, <1>2, <1>3, <1>4, <1>5, <1>6, <1>7, <1>8, <1>9, <1>10, <1>11,
     <1>12, <1>13, <1>14, <1>15, <1>16, <1>17, <1>18, <1>19, <1>20, <1>21,
     <1>22, <1>23, <1>24, <1>25
     DEF Next, Lora, Send, Chip

-----------------------------------------------------------------------------
(* Which request is where                                                  *)

LEMMA NumberedInit ==
  ASSUME Init
  PROVE  Numbered
  BY DEF Init, Numbered, NoRepeat, Ahead

LEMMA Lengths ==
  ASSUME TypeOK
  PROVE  /\ Len(air) \in Nat
         /\ \A i \in 1 .. Len(air) : air[i].len \in Nat
<1>. DEFINE Packet == [len : Nat, data : Content]
<1>1. air \in Seq(Packet)
  BY DEF TypeOK
<1>2. \A p \in Packet : p.len \in Nat
  OBVIOUS
<1>. HIDE DEF Packet
<1>3. Len(air) \in Nat /\ \A i \in 1 .. Len(air) : air[i] \in Packet
  BY <1>1
<1>. QED
  BY <1>2, <1>3

LEMMA Appended ==
  ASSUME TypeOK, air' = Append(air, txFifo)
  PROVE  /\ Len(air') = Len(air) + 1
         /\ \A i \in 1 .. Len(air) : air'[i] = air[i]
         /\ air'[Len(air) + 1] = txFifo
<1>. DEFINE Packet == [len : Nat, data : Content]
<1>1. air \in Seq(Packet) /\ txFifo \in Packet
  BY DEF TypeOK
<1>. HIDE DEF Packet
<1>. QED
  BY <1>1

\* The end of a transmission is the one step that adds to what was sent.
LEMMA NumberedCompletes ==
  ASSUME TypeOK, Place, Numbered, TxCompletes
  PROVE  Numbered'
<1>1. /\ air' = Append(air, txFifo) /\ mode = "TX" /\ mode' = "STANDBY"
      /\ UNCHANGED <<state, spc, lpc, req, txSize, txFifo>>
  BY DEF TxCompletes, driverVars
<1>2. state = "TX_RUNNING" /\ lpc = "loop" /\ spc \notin {"copy", "arm"}
  BY <1>1 DEF Place, SettingUp
<1>3. /\ Len(air) \in Nat /\ Len(air') = Len(air) + 1
      /\ \A i \in 1 .. Len(air) : air'[i] = air[i] /\ air[i].len \in Nat
      /\ air'[Len(air) + 1] = txFifo
  BY <1>1, Lengths, Appended
<1>4. /\ txSize \in Nat /\ txFifo.len = txSize
      /\ \A i \in 1 .. Len(air) : air[i].len < txSize
  BY <1>1 DEF TypeOK, Numbered, Ahead
<1>5. \A i \in 1 .. Len(air') : air'[i].len <= txSize
  BY <1>3, <1>4
<1>6. \A i, j \in 1 .. Len(air') : i < j => air'[i].len < air'[j].len
  <2>1. ASSUME NEW i \in 1 .. Len(air'), NEW j \in 1 .. Len(air'), i < j
        PROVE  air'[i].len < air'[j].len
    <3>1. i \in 1 .. Len(air)
      BY <1>3, <2>1
    <3>2. CASE j = Len(air) + 1
      BY <1>3, <1>4, <3>1, <3>2
    <3>3. CASE j \in 1 .. Len(air)
      BY <1>3, <2>1, <3>1, <3>3 DEF Numbered, NoRepeat
    <3>. QED
      BY <1>3, <3>2, <3>3
  <2>. QED
    BY <2>1
<1>. QED
  BY <1>1, <1>2, <1>5, <1>6 DEF Numbered, NoRepeat, Ahead

LEMMA NumberedStep ==
  ASSUME TypeOK, Place, Numbered, [Next]_vars
  PROVE  Numbered'
<1>1. /\ txSize \in Nat /\ req \in Nat /\ Len(air) \in Nat
      /\ \A i \in 1 .. Len(air) : air[i].len \in Nat
  BY Lengths DEF TypeOK
<1>. USE <1>1 DEF Numbered, NoRepeat, Ahead
<1>2. CASE Boot
  BY <1>2 DEF Boot, Place, driverVars, chipVars, historyVars, SetOpMode
<1>3. CASE RxInit
  BY <1>3 DEF RxInit, Place, driverVars, chipVars, historyVars
<1>4. CASE RxInitClear
  BY <1>4 DEF RxInitClear, Place, driverVars, chipVars, historyVars
<1>5. CASE RxInitStore
  BY <1>5 DEF RxInitStore, Place, driverVars, chipVars, historyVars
<1>6. CASE RxPoll
  BY <1>6 DEF RxPoll, Place, driverVars, chipVars, historyVars
<1>7. CASE RxAck
  BY <1>7 DEF RxAck, Place, driverVars, chipVars, historyVars
<1>8. CASE RxCheckCrc
  BY <1>8 DEF RxCheckCrc, Place, driverVars, chipVars, historyVars
<1>9. CASE RxAgain
  BY <1>9 DEF RxAgain, Place, driverVars, chipVars, historyVars
<1>10. CASE RxFetchBegin
  BY <1>10 DEF RxFetchBegin, Place, driverVars, chipVars, historyVars
<1>11. CASE RxFetchEnd
  BY <1>11 DEF RxFetchEnd, Place, driverVars, chipVars, historyVars
<1>12. CASE RxFetchStore
  BY <1>12 DEF RxFetchStore, Place, driverVars, chipVars, historyVars
<1>13. CASE GetRxPacket
  BY <1>13 DEF GetRxPacket, Place, driverVars, chipVars, historyVars
<1>14. CASE TxLoad
  BY <1>14 DEF TxLoad, Place, driverVars, chipVars, historyVars, SetOpMode,
               SettingUp, Handling
<1>15. CASE TxOn
  BY <1>15 DEF TxOn, Place, driverVars, chipVars, historyVars, SetOpMode,
               SettingUp, Handling
<1>16. CASE TxPoll
  BY <1>16 DEF TxPoll, Place, driverVars, chipVars, historyVars
<1>17. CASE TxDone
  BY <1>17 DEF TxDone, Place, driverVars, chipVars, historyVars, SetOpMode
<1>18. CASE StartRx
  BY <1>18 DEF StartRx, Place, driverVars, chipVars, historyVars
<1>19. CASE Take
  BY <1>19 DEF Take, Place, driverVars, chipVars, historyVars
<1>20. CASE Poll
  BY <1>20 DEF Poll, Place, driverVars, chipVars, historyVars, SettingUp,
               Handling
<1>21. CASE SetTxCopyBegin
  BY <1>21 DEF SetTxCopyBegin, Place, driverVars, chipVars, historyVars,
               SettingUp, Handling
<1>22. CASE SetTxCopyEnd
  BY <1>22 DEF SetTxCopyEnd, Place, driverVars, chipVars, historyVars,
               SettingUp, Handling
<1>23. CASE SetTxArm
  BY <1>23 DEF SetTxArm, Place, driverVars, chipVars, historyVars, SettingUp,
               Handling
<1>24. CASE UNCHANGED vars
  BY <1>24 DEF vars, Place, driverVars, chipVars, historyVars
<1>25. ASSUME NEW kind \in Kind, PacketArrives(kind)
      PROVE  Numbered'
  BY <1>25 DEF PacketArrives, driverVars
<1>26. CASE TxCompletes
  BY <1>26, NumberedCompletes
<1>. QED
  BY <1>2, <1>3, <1>4, <1>5, <1>6, <1>7, <1>8, <1>9, <1>10, <1>11, <1>12,
     <1>13, <1>14, <1>15, <1>16, <1>17, <1>18, <1>19, <1>20, <1>21, <1>22,
     <1>23, <1>24, <1>25, <1>26
     DEF Next, Lora, Send, Chip

-----------------------------------------------------------------------------
(* The bytes of a request                                                  *)

LEMMA Marks ==
  /\ Zero # Partial /\ Mixed # Partial
  /\ \A n : Tx(n) # Partial /\ Rx(n) # Partial
  BY DEF Zero, Partial, Mixed, Tx, Rx

LEMMA ExactInit ==
  ASSUME Init
  PROVE  Exact
  BY Marks DEF Init, Exact, Followed, SettingUp, Ahead

\* A step after which nothing has raced is not one of those that race.
LEMMA Calm ==
  ASSUME [Next]_vars, ~raced'
  PROVE  /\ ~raced
         /\ Poll => lpc = "loop"
         /\ RxPoll => ~SettingUp
<1>1. CASE Poll
  <2>1. ~raced /\ lpc = "loop"
    BY <1>1, Zenon DEF Poll
  <2>. QED
    BY <1>1, <2>1 DEF Poll, RxPoll
<1>2. CASE RxPoll
  <2>1. ~raced /\ ~SettingUp
    BY <1>2, Zenon DEF RxPoll
  <2>. QED
    BY <1>2, <2>1 DEF Poll, RxPoll, driverVars
<1>3. CASE ~Poll /\ ~RxPoll
  <2>1. raced' = raced
    BY <1>3 DEF Next, Lora, Send, Chip, vars, historyVars, Boot, RxInit,
                RxInitClear, RxInitStore, RxAck, RxCheckCrc, RxAgain,
                RxFetchBegin, RxFetchEnd, RxFetchStore, GetRxPacket, TxLoad,
                TxOn, TxPoll, TxDone, StartRx, Take, SetTxCopyBegin,
                SetTxCopyEnd, SetTxArm, PacketArrives, TxCompletes
  <2>. QED
    BY <1>3, <2>1
<1>. QED
  BY <1>1, <1>2, <1>3

LEMMA ExactCompletes ==
  ASSUME TypeOK, Place, Followed, TxCompletes
  PROVE  Followed'
<1>1. /\ air' = Append(air, txFifo) /\ mode = "TX" /\ mode' = "STANDBY"
      /\ UNCHANGED <<state, spc, lpc, req, txSize, rfbuf, rxFifo, got, txFifo>>
  BY DEF TxCompletes, driverVars
<1>2. state = "TX_RUNNING" /\ lpc = "loop" /\ ~SettingUp
  BY <1>1 DEF Place
<1>3. Ahead /\ ~Ahead' /\ ~SettingUp'
  BY <1>1, <1>2 DEF Ahead, SettingUp
<1>4. /\ Len(air) \in Nat /\ Len(air') = Len(air) + 1
      /\ \A i \in 1 .. Len(air) : air'[i] = air[i]
      /\ air'[Len(air) + 1] = txFifo
  BY <1>1, Lengths, Appended
<1>5. txSize = Len(air')
  BY <1>3, <1>4 DEF Followed
<1>6. \A i \in 1 .. Len(air') : air'[i] = [len |-> i, data |-> Tx(i)]
  BY <1>1, <1>4, <1>5 DEF Followed
<1>. QED
  BY <1>1, <1>2, <1>3, <1>4, <1>5, <1>6 DEF Followed, SettingUp

LEMMA ExactStep ==
  ASSUME TypeOK, Place, Numbered, Exact, [Next]_vars
  PROVE  Exact'
<1>. SUFFICES ASSUME ~raced'
              PROVE  Followed'
  BY DEF Exact
<1>1. /\ Followed
      /\ Poll => lpc = "loop"
      /\ RxPoll => ~SettingUp
  BY Calm DEF Exact
<1>2. txSize \in Nat /\ req \in Nat /\ Len(air) \in Nat
  BY Lengths DEF TypeOK
<1>. USE <1>1, <1>2, Marks DEF Followed, Ahead, SettingUp
<1>3. CASE Boot
  BY <1>3 DEF Boot, Place, driverVars, chipVars, SetOpMode, Handling
<1>4. CASE RxInit
  BY <1>4 DEF RxInit, Place, driverVars, chipVars, Handling
<1>5. CASE RxInitClear
  BY <1>5 DEF RxInitClear, Place, driverVars, chipVars, Handling
<1>6. CASE RxInitStore
  BY <1>6 DEF RxInitStore, Place, driverVars, chipVars, Handling
<1>7. CASE RxPoll
  BY <1>7 DEF RxPoll, Place, driverVars, chipVars, Handling
<1>8. CASE RxAck
  BY <1>8 DEF RxAck, Place, driverVars, chipVars, Handling
<1>9. CASE RxCheckCrc
  BY <1>9 DEF RxCheckCrc, Place, driverVars, chipVars, Handling
<1>10. CASE RxAgain
  BY <1>10 DEF RxAgain, Place, driverVars, chipVars, Handling
<1>11. CASE RxFetchBegin
  BY <1>11 DEF RxFetchBegin, Place, driverVars, chipVars, BeginWrite, Handling
<1>12. CASE RxFetchEnd
  BY <1>12 DEF RxFetchEnd, Place, driverVars, chipVars, EndWrite, Handling
<1>13. CASE RxFetchStore
  BY <1>13 DEF RxFetchStore, Place, driverVars, chipVars, Handling
<1>14. CASE GetRxPacket
  BY <1>14 DEF GetRxPacket, Place, driverVars, chipVars, Handling
<1>15. CASE TxLoad
  BY <1>15 DEF TxLoad, Place, driverVars, chipVars, SetOpMode, Handling
<1>16. CASE TxOn
  BY <1>16 DEF TxOn, Place, driverVars, chipVars, SetOpMode, Handling
<1>17. CASE TxPoll
  BY <1>17 DEF TxPoll, Place, driverVars, chipVars, Handling
<1>18. CASE TxDone
  BY <1>18 DEF TxDone, Place, driverVars, chipVars, SetOpMode, Handling
<1>19. CASE StartRx
  BY <1>19 DEF StartRx, Place, driverVars, chipVars, Handling
<1>20. CASE Take
  BY <1>20 DEF Take, Place, driverVars, chipVars, Handling
<1>21. CASE Poll
  BY <1>21 DEF Poll, Place, driverVars, chipVars, Handling
<1>22. CASE SetTxCopyBegin
  BY <1>22 DEF SetTxCopyBegin, Place, driverVars, chipVars, BeginWrite,
               Handling
<1>23. CASE SetTxCopyEnd
  BY <1>23 DEF SetTxCopyEnd, Place, driverVars, chipVars, EndWrite, Handling
<1>24. CASE SetTxArm
  <2>1. txSize = req
    BY <1>24 DEF SetTxArm, Numbered
  <2>. QED
    BY <1>24, <2>1 DEF SetTxArm, Place, driverVars, chipVars, Handling
<1>25. CASE UNCHANGED vars
  BY <1>25 DEF vars, Place, driverVars, chipVars, Handling
<1>26. ASSUME NEW kind \in Kind, PacketArrives(kind)
      PROVE  Followed'
  BY <1>26 DEF PacketArrives, driverVars, Place
<1>27. CASE TxCompletes
  BY <1>27, ExactCompletes
<1>. QED
  BY <1>3, <1>4, <1>5, <1>6, <1>7, <1>8, <1>9, <1>10, <1>11, <1>12, <1>13,
     <1>14, <1>15, <1>16, <1>17, <1>18, <1>19, <1>20, <1>21, <1>22, <1>23,
     <1>24, <1>25, <1>26, <1>27
     DEF Next, Lora, Send, Chip

-----------------------------------------------------------------------------
(* The theorems                                                            *)

LEMMA InductiveInvariant == Spec => []IInv
<1>1. Init => IInv
  BY TypeInit, PlaceInit, NumberedInit, ExactInit DEF IInv
<1>2. IInv /\ [Next]_vars => IInv'
  BY TypeStep, PlaceStep, NumberedStep, ExactStep DEF IInv
<1>. QED
  BY <1>1, <1>2, PTL DEF Spec

\* Between the sender's test and its store of TX_INIT the driver can only be
\* receiving: no transmission under way is ever disturbed (lora.c:63-67).
THEOREM TransmitterUndisturbed == Spec => []NoTxDisturbed
<1>1. IInv => NoTxDisturbed
  BY DEF IInv, Place, NoTxDisturbed
<1>. QED
  BY <1>1, InductiveInvariant, PTL

\* While the driver says that it receives, the chip does
\* (sx1276-LoRa.c:336-446).
THEOREM NeverDeaf == Spec => []Listening
<1>1. IInv => Listening
  BY DEF IInv, Place, Listening
<1>. QED
  BY <1>1, InductiveInvariant, PTL

\* Requests go to the air at most once and in order, whatever the races.
THEOREM NothingRepeated == Spec => []NoRepeat
<1>1. IInv => NoRepeat
  BY DEF IInv, Numbered
<1>. QED
  BY <1>1, InductiveInvariant, PTL

\* Without a race every request goes to the air with its own bytes and
\* length (lora.c:63-67, sx1276-LoRa.c:296-301).
THEOREM AirIsExact == Spec => []AirExact
<1>1. IInv => AirExact
  BY DEF IInv, Exact, Followed, AirExact
<1>. QED
  BY <1>1, InductiveInvariant, PTL

-----------------------------------------------------------------------------
(* The bytes of a packet                                                   *)

Fetching == {"fetch", "fetched", "getrx"}
LastHeard == heard[Len(heard)]

\* Where a packet is: in the FIFO as long as it is unfetched, then in
\* RFBuffer, with its size, until it is passed on.
Fetched ==
  /\ Unfetched =>
       Len(heard) > 0 /\ rxFifo = Rx(Len(heard)) /\ rxSize < Len(heard)
  /\ lpc = "flags" \/ (lpc = "loop" /\ state = "RX_DONE") => ~rxDone
  /\ crcErr =>
       /\ rxDone \/ lpc = "ack" \/ (lpc = "loop" /\ state = "RX_DONE")
       /\ LastHeard = "corrupt"
  /\ rxSize <= Len(heard)
  /\ rxSize > 0 <=> lpc \in Fetching
  /\ lpc = "fetch" => got = Rx(rxSize) /\ rfbuf = Partial
  /\ lpc \in {"fetched", "getrx"} => rfbuf = Rx(rxSize)
  /\ lpc = "getrx" => state = "RX_RUNNING"

Behind(n) == \A j \in 1 .. Len(delivered) : delivered[j][2] < n

\* What was delivered is older than all that is still to be.
Older ==
  /\ Unfetched => Behind(Len(heard))
  /\ rxSize > 0 => Behind(rxSize)

InOrder ==
  \A i \in 1 .. Len(delivered) :
    \E k \in 1 .. Len(heard) :
      /\ delivered[i] = Rx(k) /\ heard[k] = "frame"
      /\ \A j \in 1 .. i - 1 : delivered[j][2] < k

Complete ==
  \A k \in 1 .. Len(heard) :
    heard[k] = "frame" =>
      \/ \E i \in 1 .. Len(delivered) : delivered[i] = Rx(k)
      \/ k = rxSize
      \/ k = Len(heard) /\ Unfetched

Whole == ~(raced \/ overrun \/ stale)
Received == Fetched /\ Older /\ InOrder /\ Complete
ReceiveInv == Whole => Received

\* A step after which all is whole does not lose a packet.
LEMMA WholeStep ==
  ASSUME [Next]_vars, Whole'
  PROVE  /\ Whole /\ ~raced'
         /\ \A kind \in Kind : PacketArrives(kind) => ~Unfetched
         /\ TxLoad => ~rxDone
<1>1. ~raced' /\ ~overrun' /\ ~stale'
  BY DEF Whole
<1>2. ~raced
  BY <1>1, Calm
<1>3. ASSUME NEW kind \in Kind, PacketArrives(kind)
      PROVE  ~overrun /\ ~Unfetched /\ ~stale
  <2>1. overrun' = (overrun \/ Unfetched) /\ stale' = stale
    BY <1>3, Zenon DEF PacketArrives
  <2>. QED
    BY <1>1, <2>1, Zenon
<1>4. ASSUME TxLoad PROVE ~stale /\ ~rxDone /\ ~overrun
  <2>1. stale' = (stale \/ rxDone) /\ overrun' = overrun
    BY <1>4, Zenon DEF TxLoad
  <2>. QED
    BY <1>1, <2>1, Zenon
<1>5. ASSUME ~TxLoad, \A kind \in Kind : ~PacketArrives(kind)
      PROVE  overrun' = overrun /\ stale' = stale
  BY <1>5 DEF Next, Lora, Send, Chip, vars, historyVars, Boot, RxInit,
              RxInitClear, RxInitStore, RxPoll, RxAck, RxCheckCrc, RxAgain,
              RxFetchBegin, RxFetchEnd, RxFetchStore, GetRxPacket,
              TxOn, TxPoll, TxDone, StartRx, Take, Poll, SetTxCopyBegin,
              SetTxCopyEnd, SetTxArm, TxCompletes
<1>6. ~overrun /\ ~stale
  BY <1>1, <1>3, <1>4, <1>5
<1>. QED
  BY <1>2, <1>3, <1>4, <1>1, <1>6 DEF Whole

LEMMA Arrived ==
  ASSUME TypeOK, NEW kind \in Kind, PacketArrives(kind)
  PROVE  /\ Len(heard) \in Nat /\ Len(heard') = Len(heard) + 1
         /\ \A k \in 1 .. Len(heard) : heard'[k] = heard[k]
         /\ heard'[Len(heard) + 1] = kind
<1>1. heard \in Seq(Kind) /\ heard' = Append(heard, kind)
  BY DEF TypeOK, PacketArrives
<1>. QED
  BY <1>1

LEMMA FetchedStep ==
  ASSUME TypeOK, Place, Followed, Fetched, [Next]_vars, ~raced',
         \A kind \in Kind : PacketArrives(kind) => ~Unfetched,
         TxLoad => ~rxDone
  PROVE  Fetched'
<1>1. RxPoll => ~SettingUp
  BY Calm
<1>2. rxSize \in Nat /\ Len(heard) \in Nat
  BY DEF TypeOK
<1>. USE <1>1, <1>2, Marks
     DEF Fetched, Unfetched, Fetching, LastHeard, Followed, SettingUp, Place,
         Handling
<1>3. CASE Boot
  BY <1>3 DEF Boot, driverVars, chipVars, SetOpMode
<1>4. CASE RxInit
  BY <1>4 DEF RxInit, driverVars, chipVars
<1>5. CASE RxInitClear
  BY <1>5 DEF RxInitClear, driverVars, chipVars
<1>6. CASE RxInitStore
  BY <1>6 DEF RxInitStore, driverVars, chipVars
<1>7. CASE RxPoll
  BY <1>7 DEF RxPoll, driverVars, chipVars
<1>8. CASE RxAck
  BY <1>8 DEF RxAck, driverVars, chipVars
<1>9. CASE RxCheckCrc
  BY <1>9 DEF RxCheckCrc, driverVars, chipVars
<1>10. CASE RxAgain
  BY <1>10 DEF RxAgain, driverVars, chipVars
<1>11. CASE RxFetchBegin
  BY <1>11 DEF RxFetchBegin, driverVars, chipVars, BeginWrite
<1>12. CASE RxFetchEnd
  BY <1>12 DEF RxFetchEnd, driverVars, chipVars, EndWrite
<1>13. CASE RxFetchStore
  BY <1>13 DEF RxFetchStore, driverVars, chipVars
<1>14. CASE GetRxPacket
  BY <1>14 DEF GetRxPacket, driverVars, chipVars
<1>15. CASE TxLoad
  BY <1>15 DEF TxLoad, driverVars, chipVars, SetOpMode
<1>16. CASE TxOn
  BY <1>16 DEF TxOn, driverVars, chipVars, SetOpMode
<1>17. CASE TxPoll
  BY <1>17 DEF TxPoll, driverVars, chipVars
<1>18. CASE TxDone
  BY <1>18 DEF TxDone, driverVars, chipVars, SetOpMode
<1>19. CASE StartRx
  BY <1>19 DEF StartRx, driverVars, chipVars
<1>20. CASE Take
  BY <1>20 DEF Take, driverVars, chipVars
<1>21. CASE Poll
  BY <1>21 DEF Poll, driverVars, chipVars
<1>22. CASE SetTxCopyBegin
  BY <1>22 DEF SetTxCopyBegin, driverVars, chipVars, BeginWrite
<1>23. CASE SetTxCopyEnd
  BY <1>23 DEF SetTxCopyEnd, driverVars, chipVars, EndWrite
<1>24. CASE SetTxArm
  BY <1>24 DEF SetTxArm, driverVars, chipVars
<1>25. CASE UNCHANGED vars
  BY <1>25 DEF vars, driverVars, chipVars
<1>26. ASSUME NEW kind \in Kind, PacketArrives(kind)
      PROVE  Fetched'
  <2>1. /\ Len(heard') = Len(heard) + 1 /\ heard'[Len(heard')] = kind
        /\ \A k \in 1 .. Len(heard) : heard'[k] = heard[k]
    BY <1>26, Arrived
  <2>2. /\ UNCHANGED <<state, rfbuf, rxSize, lpc, got, mode, shadow>>
        /\ rxFifo' = Rx(Len(heard) + 1) /\ ~Unfetched /\ rxDone'
    BY <1>26 DEF PacketArrives, driverVars
  <2>3. crcErr' => crcErr \/ kind = "corrupt"
    BY <1>26, Zenon DEF PacketArrives
  <2>4. ~crcErr
    BY <2>2
  <2>5. (LastHeard)' = kind
    BY <2>1
  <2>. QED
    BY <2>1, <2>2, <2>3, <2>4, <2>5
<1>27. CASE TxCompletes
  BY <1>27 DEF TxCompletes, driverVars
<1>. QED
  BY <1>3, <1>4, <1>5, <1>6, <1>7, <1>8, <1>9, <1>10, <1>11, <1>12, <1>13,
     <1>14, <1>15, <1>16, <1>17, <1>18, <1>19, <1>20, <1>21, <1>22, <1>23,
     <1>24, <1>25, <1>26, <1>27
     DEF Next, Lora, Send, Chip

\* Other steps than an arrival, the beginning of a fetch and its end neither
\* take a packet from the chip nor pass one on, but for a corrupt one.
LEMMA NothingFetched ==
  ASSUME TypeOK, Place, Followed, Fetched, [Next]_vars, ~raced',
         TxLoad => ~rxDone, ~RxFetchBegin, ~GetRxPacket,
         \A kind \in Kind : ~PacketArrives(kind)
  PROVE  /\ UNCHANGED <<heard, delivered, rxSize>>
         /\ Unfetched' => Unfetched
         /\ Unfetched => Unfetched' \/ LastHeard = "corrupt"
<1>1. RxPoll => ~SettingUp
  BY Calm
<1>2. UNCHANGED <<heard, delivered, rxSize>>
  BY DEF Next, Lora, Send, Chip, vars, driverVars, chipVars, Boot, RxInit,
         RxInitClear, RxInitStore, RxPoll, RxAck, RxCheckCrc, RxAgain,
         RxFetchEnd, RxFetchStore, TxLoad, TxOn, TxPoll, TxDone, StartRx, Take,
         Poll, SetTxCopyBegin, SetTxCopyEnd, SetTxArm, TxCompletes
<1>. USE <1>1 DEF Fetched, Unfetched, LastHeard, Followed, SettingUp, Place,
                  Handling
<1>3. CASE Boot \/ RxInit \/ RxInitClear \/ RxInitStore
  BY <1>2, <1>3 DEF Boot, RxInit, RxInitClear, RxInitStore, chipVars, SetOpMode
<1>4. CASE RxPoll \/ RxAck
  BY <1>2, <1>4 DEF RxPoll, RxAck, driverVars, chipVars
<1>5. CASE RxCheckCrc
  BY <1>2, <1>5 DEF RxCheckCrc, driverVars
<1>6. CASE RxAgain \/ RxFetchEnd \/ RxFetchStore
  BY <1>2, <1>6 DEF RxAgain, RxFetchEnd, RxFetchStore, chipVars
<1>7. CASE TxLoad
  <2>1. ~rxDone /\ (rxDone' => rxDone)
    BY <1>7, Zenon DEF TxLoad
  <2>. QED
    BY <1>2, <1>7, <2>1 DEF TxLoad
<1>11. CASE TxOn
  BY <1>2, <1>11 DEF TxOn
<1>8. CASE TxPoll \/ TxDone \/ StartRx
  BY <1>2, <1>8 DEF TxPoll, TxDone, StartRx, chipVars
<1>9. CASE Send
  BY <1>2, <1>9 DEF Send, Take, Poll, SetTxCopyBegin, SetTxCopyEnd, SetTxArm,
                    driverVars, chipVars
<1>10. CASE TxCompletes \/ UNCHANGED vars
  BY <1>2, <1>10 DEF TxCompletes, vars, driverVars, chipVars
<1>. QED
  BY <1>3, <1>4, <1>5, <1>6, <1>7, <1>8, <1>9, <1>10, <1>11
     DEF Next, Lora, Chip

LEMMA ArrivalReceived ==
  ASSUME TypeOK, Received, ~Unfetched, NEW kind \in Kind, PacketArrives(kind)
  PROVE  Older' /\ InOrder' /\ Complete'
<1>1. /\ Len(heard) \in Nat /\ Len(heard') = Len(heard) + 1
      /\ \A k \in 1 .. Len(heard) : heard'[k] = heard[k]
      /\ heard'[Len(heard) + 1] = kind
  BY Arrived
<1>2. rxSize' = rxSize /\ delivered' = delivered /\ rxDone'
  BY DEF PacketArrives, driverVars
<1>3. Unfetched'
  BY <1>2 DEF Unfetched
<1>4. \A j \in 1 .. Len(delivered) : delivered[j][2] <= Len(heard)
  <2>. TAKE j \in 1 .. Len(delivered)
  <2>1. PICK k \in 1 .. Len(heard) : delivered[j] = Rx(k)
    BY DEF Received, InOrder
  <2>2. delivered[j][2] = k
    BY <2>1 DEF Rx
  <2>. QED
    BY <2>2
<1>5. \A j \in 1 .. Len(delivered) : delivered[j][2] \in Nat
  <2>. TAKE j \in 1 .. Len(delivered)
  <2>1. PICK k \in 1 .. Len(heard) : delivered[j] = Rx(k)
    BY DEF Received, InOrder
  <2>. QED
    BY <2>1 DEF Rx
<1>6. Older'
  <2>1. \A j \in 1 .. Len(delivered') : delivered'[j][2] < Len(heard')
    BY <1>1, <1>2, <1>4, <1>5
  <2>. QED
    BY <1>2, <2>1 DEF Older, Behind, Received
<1>7. InOrder'
  BY <1>1, <1>2 DEF Received, InOrder
<1>8. Complete'
  <2>1. \A k \in 1 .. Len(heard) :
          heard[k] = "frame" =>
            (\E i \in 1 .. Len(delivered) : delivered[i] = Rx(k)) \/ k = rxSize
    BY DEF Received, Complete
  <2>2. \A k \in 1 .. Len(heard') : k \in 1 .. Len(heard) \/ k = Len(heard')
    BY <1>1
  <2>. QED
    BY <1>1, <1>2, <1>3, <2>1, <2>2 DEF Complete
<1>. QED
  BY <1>6, <1>7, <1>8

LEMMA FetchReceived ==
  ASSUME TypeOK, Received, RxFetchBegin
  PROVE  Older' /\ InOrder' /\ Complete'
<1>1. /\ lpc = "flags" /\ lpc' = "fetch" /\ rxSize' = Len(heard)
      /\ heard' = heard /\ delivered' = delivered /\ rxDone' = rxDone
  BY DEF RxFetchBegin, chipVars
<1>2. Unfetched /\ ~rxDone /\ rxSize = 0
  BY <1>1 DEF Received, Fetched, Unfetched, Fetching, TypeOK
<1>3. ~(Unfetched')
  BY <1>1, <1>2 DEF Unfetched
<1>4. Older'
  BY <1>1, <1>2, <1>3 DEF Received, Older, Behind
<1>5. InOrder'
  BY <1>1 DEF Received, InOrder
<1>6. Complete'
  BY <1>1, <1>2, <1>3 DEF Received, Complete
<1>. QED
  BY <1>4, <1>5, <1>6

LEMMA DeliveryReceived ==
  ASSUME TypeOK, Received, GetRxPacket
  PROVE  Older' /\ InOrder' /\ Complete'
<1>1. /\ lpc = "getrx" /\ lpc' = "loop" /\ rxSize' = 0 /\ state' = state
      /\ heard' = heard /\ rxDone' = rxDone
  BY DEF GetRxPacket, chipVars
<1>2. /\ rfbuf = Rx(rxSize) /\ state = "RX_RUNNING" /\ Behind(rxSize)
      /\ rxSize \in 1 .. Len(heard)
  BY <1>1 DEF Received, Fetched, Fetching, Older, TypeOK
<1>3. /\ Unfetched' <=> Unfetched
      /\ Unfetched => rxSize < Len(heard) /\ Behind(Len(heard))
  BY <1>1, <1>2 DEF Unfetched, Received, Fetched, Older
<1>4. \/ heard[rxSize] = "frame" /\ delivered' = Append(delivered, Rx(rxSize))
      \/ heard[rxSize] # "frame" /\ delivered' = delivered
  BY <1>2, Marks DEF GetRxPacket
<1>5. CASE heard[rxSize] = "frame" /\ delivered' = Append(delivered, Rx(rxSize))
  <2>1. /\ Len(delivered) \in Nat /\ Len(delivered') = Len(delivered) + 1
        /\ \A i \in 1 .. Len(delivered) : delivered'[i] = delivered[i]
        /\ delivered'[Len(delivered) + 1] = Rx(rxSize)
    <3>1. delivered \in Seq(Content) /\ Rx(rxSize) \in Content
      BY <1>2, Contents DEF TypeOK
    <3>. QED
      BY <1>5, <3>1
  <2>2. \A i \in 1 .. Len(delivered') :
          i \in 1 .. Len(delivered) \/ i = Len(delivered) + 1
    BY <2>1
  <2>3. Rx(rxSize)[2] = rxSize
    BY DEF Rx
  <2>4. Unfetched => \A j \in 1 .. Len(delivered') : delivered'[j][2] < Len(heard)
    BY <1>3, <2>1, <2>2, <2>3 DEF Behind
  <2>5. Older'
    BY <1>1, <1>3, <2>4 DEF Older, Behind
  <2>6. InOrder'
    <3>1. ASSUME NEW i \in 1 .. Len(delivered)
          PROVE  \E k \in 1 .. Len(heard) :
                   /\ delivered'[i] = Rx(k) /\ heard[k] = "frame"
                   /\ \A j \in 1 .. i - 1 : delivered'[j][2] < k
      <4>1. PICK k \in 1 .. Len(heard) :
              /\ delivered[i] = Rx(k) /\ heard[k] = "frame"
              /\ \A j \in 1 .. i - 1 : delivered[j][2] < k
        BY DEF Received, InOrder
      <4>2. \A j \in 1 .. i - 1 : delivered'[j] = delivered[j]
        BY <2>1
      <4>. QED
        BY <2>1, <4>1, <4>2
    <3>2. \A j \in 1 .. Len(delivered) : delivered'[j][2] < rxSize
      BY <1>2, <2>1 DEF Behind
    <3>3. ASSUME NEW i \in 1 .. Len(delivered')
          PROVE  \E k \in 1 .. Len(heard) :
                   /\ delivered'[i] = Rx(k) /\ heard[k] = "frame"
                   /\ \A j \in 1 .. i - 1 : delivered'[j][2] < k
      <4>1. CASE i = Len(delivered) + 1
        <5>1. i - 1 = Len(delivered)
          BY <2>1, <4>1
        <5>. QED
          BY <1>2, <1>5, <2>1, <3>2, <4>1, <5>1
      <4>. QED
        BY <2>2, <3>1, <4>1
    <3>. QED
      BY <1>1, <3>3 DEF InOrder
  <2>7. Complete'
    <3>1. ASSUME NEW k \in 1 .. Len(heard), heard[k] = "frame"
          PROVE  \/ \E i \in 1 .. Len(delivered') : delivered'[i] = Rx(k)
                 \/ k = Len(heard) /\ Unfetched
      <4>1. \/ \E i \in 1 .. Len(delivered) : delivered[i] = Rx(k)
            \/ k = rxSize
            \/ k = Len(heard) /\ Unfetched
        BY <3>1 DEF Received, Complete
      <4>2. CASE \E i \in 1 .. Len(delivered) : delivered[i] = Rx(k)
        BY <2>1, <4>2
      <4>3. CASE k = rxSize
        BY <2>1, <4>3
      <4>. QED
        BY <4>1, <4>2, <4>3
    <3>. QED
      BY <1>1, <1>3, <3>1 DEF Complete
  <2>. QED
    BY <2>5, <2>6, <2>7
<1>6. CASE heard[rxSize] # "frame" /\ delivered' = delivered
  <2>1. Older'
    BY <1>1, <1>3, <1>6 DEF Older, Behind
  <2>2. InOrder'
    BY <1>1, <1>6 DEF Received, InOrder
  <2>3. Complete'
    BY <1>1, <1>2, <1>3, <1>6 DEF Received, Complete
  <2>. QED
    BY <2>1, <2>2, <2>3
<1>. QED
  BY <1>4, <1>5, <1>6

LEMMA ReceiveStep ==
  ASSUME IInv, ReceiveInv, [Next]_vars
  PROVE  ReceiveInv'
<1>. SUFFICES ASSUME Whole'
              PROVE  Received'
  BY DEF ReceiveInv
<1>1. /\ Whole /\ ~raced'
      /\ \A kind \in Kind : PacketArrives(kind) => ~Unfetched
      /\ TxLoad => ~rxDone
  BY WholeStep
<1>2. Received /\ Followed /\ TypeOK /\ Place
  BY <1>1 DEF ReceiveInv, Whole, IInv, Exact
<1>3. Fetched'
  BY <1>1, <1>2, FetchedStep DEF Received
<1>4. Older' /\ InOrder' /\ Complete'
  <2>1. ASSUME NEW kind \in Kind, PacketArrives(kind)
        PROVE  Older' /\ InOrder' /\ Complete'
    BY <1>1, <1>2, <2>1, ArrivalReceived
  <2>2. CASE RxFetchBegin
    BY <1>2, <2>2, FetchReceived
  <2>3. CASE GetRxPacket
    BY <1>2, <2>3, DeliveryReceived
  <2>4. CASE ~RxFetchBegin /\ ~GetRxPacket
             /\ \A kind \in Kind : ~PacketArrives(kind)
    <3>1. /\ UNCHANGED <<heard, delivered, rxSize>>
          /\ Unfetched' => Unfetched
          /\ Unfetched => Unfetched' \/ LastHeard = "corrupt"
      BY <1>1, <1>2, <2>4, NothingFetched DEF Received
    <3>2. Older' /\ InOrder'
      BY <1>2, <3>1 DEF Received, Older, Behind, InOrder
    <3>3. Complete'
      BY <1>2, <3>1 DEF Received, Complete, LastHeard
    <3>. QED
      BY <3>2, <3>3
  <2>. QED
    BY <2>1, <2>2, <2>3, <2>4
<1>. QED
  BY <1>3, <1>4 DEF Received

\* If nothing raced and no packet came too early or was left behind,
\* thread_lora_recv is given every frame that was received, once, in order,
\* and nothing else (sx1276-LoRa.c:370-446, lora.c:143-158).
THEOREM DeliveryIsExact == Spec => []DeliveredExact
<1>1. Init => ReceiveInv
  <2>. SUFFICES ASSUME Init PROVE Received
    BY DEF ReceiveInv
  <2>1. /\ heard = <<>> /\ delivered = <<>> /\ rxSize = 0 /\ lpc = "boot"
        /\ ~rxDone /\ ~crcErr
    BY Zenon DEF Init
  <2>2. ~Unfetched /\ Len(heard) = 0 /\ Len(delivered) = 0
    BY <2>1 DEF Unfetched
  <2>. QED
    BY <2>1, <2>2 DEF Received, Fetched, Older, Behind, InOrder, Complete, Fetching
<1>2. IInv /\ ReceiveInv /\ [Next]_vars => ReceiveInv'
  BY ReceiveStep
<1>3. ReceiveInv => DeliveredExact
  BY DEF ReceiveInv, Received, InOrder, Complete, Whole, DeliveredExact
<1>. QED
  BY <1>1, <1>2, <1>3, InductiveInvariant, PTL DEF Spec
=============================================================================
