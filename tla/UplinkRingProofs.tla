-------------------------- MODULE UplinkRingProofs --------------------------
(***************************************************************************)
(* Proofs about UplinkRing for every length of the ring and of the queue,  *)
(* any number of mailboxes, packets with too few bytes and restarts.       *)
(*                                                                         *)
(* As in MsgRingProofs, cnt is the slot of packet Done, and a packet that  *)
(* is d older lies d slots before it.  Here a slot may hold bytes of older *)
(* packets under those of a short one, and a message is read several times *)
(* over: until the ring has been lapped what is read holds bytes of that   *)
(* packet and of older ones only, and of it alone when it is whole.        *)
(***************************************************************************)
EXTENDS UplinkRing, TLAPS

Done == IF pc = "copy" THEN begun - 1 ELSE begun

\* The slot of packet n.
Back(n) ==
  IF Done - n <= cnt THEN cnt - (Done - n) ELSE cnt + Slots - (Done - n)

\* The messages in the queue and the one in hand.
Waiting == {queue[i] : i \in 1 .. Len(queue)}
             \cup (IF held = NoMsg THEN {} ELSE {held})

\* A message of this process whose slot has not been used again.
Live(m) == m.num >= base /\ begun <= m.num + Slots

\* Bytes of packets from a to b - 1, or of none.
Within(a, b) == {x \in Nat : a <= x /\ x < b} \cup {Blank}

\* What there may be at the place of packet n.
Proper(n, bytes) ==
  /\ n \notin short => bytes = {n}
  /\ bytes \subseteq Within(base, n + 1)

Placed(m) == Live(m) => m.ptr = Back(m.num) /\ Proper(m.num, slot[m.ptr])

NumberInv ==
  /\ base <= begun
  /\ \A m \in Waiting : m.num < begun
  /\ pc # "poll" => \A m \in Waiting : m.num < begun - 1

MineInv ==
  /\ pc # "poll" => begun > base /\ mine.num = begun - 1
  /\ pc = "copy" => mine.ptr = cnt
  /\ pc = "send" => Placed(mine)

PlaceInv == \A m \in Waiting : Placed(m)

\* What was read of the message in hand is its frame.
ReadInv ==
  Live(held) =>
    /\ dpc \in {"give", "copy"} => Proper(held.num, head)
    /\ dpc = "copy" /\ head \cap long = {} => Proper(held.num, seen)

\* All bytes are of packets of this process that have passed.  While a packet
\* is being copied, its slot may hold bytes of it.
NewInv ==
  /\ \A i \in SlotIndex : slot[i] \subseteq Within(base, begun)
  /\ head \subseteq Within(base, begun)
  /\ seen \subseteq Within(base, begun)
  /\ short \subseteq 0 .. begun - 1

OwnInv ==
  /\ OwnFrame
  /\ \A h \in handed : h.msg < begun

Located == NumberInv /\ MineInv /\ PlaceInv

IInv == TypeOK /\ Located /\ ReadInv /\ NewInv /\ OwnInv

-----------------------------------------------------------------------------
(* Type correctness                                                        *)

LEMMA ModStep ==
  ASSUME NEW S \in Nat \ {0}, NEW c \in 0 .. S - 1
  PROVE  (c + 1) % S = IF c + 1 = S THEN 0 ELSE c + 1
  OBVIOUS

\* What a copy may read, in terms of what is in the slots.
LEMMA ReadableFrom ==
  ASSUME NEW S, Blank \in S, \A i \in SlotIndex : slot[i] \subseteq S
  PROVE  Readable \subseteq S
<1>. SUFFICES ASSUME NEW x \in Readable PROVE x \in S
  BY Zenon
<1>1. \/ x \in UNION {slot[i] : i \in Span \cap SlotIndex}
      \/ x \in {Blank : i \in Span \ SlotIndex}
  BY DEF Readable
<1>2. CASE x \in UNION {slot[i] : i \in Span \cap SlotIndex}
  <2>1. PICK bytes \in {slot[i] : i \in Span \cap SlotIndex} : x \in bytes
    BY <1>2
  <2>2. PICK i \in Span \cap SlotIndex : bytes = slot[i]
    BY <2>1
  <2>. QED
    BY <2>1, <2>2
<1>. QED
  BY <1>1, <1>2

LEMMA TypeInit == ASSUME Init PROVE TypeOK
  BY SlotsAssumption DEF Init, TypeOK, Message, SlotIndex, Content

LEMMA TypeStep ==
  ASSUME TypeOK, [Next]_vars
  PROVE  TypeOK'
<1>. USE SlotsAssumption DEF loraVars, recvVars
<1>0. cnt \in SlotIndex /\ (cnt + 1) % Slots \in SlotIndex
  BY ModStep DEF TypeOK, SlotIndex
<1>1. CASE Packet
  <2>1. begun \in Nat /\ slot' \in [SlotIndex -> Content] /\ seen' \in Content
    BY <1>1 DEF Packet, Pass, TypeOK, Content
  <2>2. short' \subseteq Nat /\ long' \subseteq short'
    BY <1>1, <2>1 DEF Packet, TypeOK
  <2>. QED
    BY <1>1, <2>1, <2>2 DEF Packet, Pass, TypeOK, Message
<1>2. CASE Stored
  <2>1. slot' \in [SlotIndex -> Content]
    BY <1>2 DEF Stored, Filled, TypeOK, Message, Content
  <2>. QED
    BY <1>0, <1>2, <2>1 DEF Stored, TypeOK
<1>3. CASE EmptyPacket
  BY <1>0, <1>3 DEF EmptyPacket, Pass, TypeOK, Message
<1>4. CASE Msgsnd
  BY <1>4 DEF Msgsnd, TypeOK
<1>5. CASE Receive
  <2>1. Head(queue) \in Message /\ Tail(queue) \in Seq(Message)
    BY <1>5 DEF Receive, TypeOK
  <2>2. Head(queue) # NoMsg
    BY <2>1, NoMsgAssumption DEF Message, SlotIndex
  <2>. QED
    BY <1>5, <2>1, <2>2 DEF Receive, TypeOK
<1>6. CASE Route
  <2>1. held \in Message
    BY <1>6 DEF Route, TypeOK
  <2>2. head' \in Content /\ todo' \in Nat
    BY <1>6, <2>1, BoundsAssumption DEF Route, TypeOK, Message
  <2>. QED
    BY <1>6, <2>2 DEF Route, TypeOK
<1>7. CASE GiveBegin
  <2>1. seen' \in Content
    <3>1. \A i \in SlotIndex : slot[i] \subseteq Nat \cup {Blank}
      BY DEF TypeOK, Content
    <3>2. Readable \subseteq Nat \cup {Blank}
      BY <3>1, ReadableFrom
    <3>. QED
      BY <1>7, <3>2 DEF GiveBegin, Content
  <2>. QED
    BY <1>7, <2>1 DEF GiveBegin, TypeOK
<1>8. CASE GiveEnd
  <2>1. /\ held \in Message /\ todo \in Nat /\ todo > 0
        /\ begun \in Nat /\ head \cup seen \in Content
    BY <1>8 DEF GiveEnd, TypeOK, Content
  <2>2. handed' \subseteq [msg : Nat, what : Content, later : Int]
    BY <1>8, <2>1 DEF GiveEnd, Message
  <2>. QED
    BY <1>8, <2>1, <2>2 DEF GiveEnd, TypeOK
<1>9. CASE Finish
  BY <1>9 DEF Finish, TypeOK
<1>10. CASE Restart
  BY <1>10 DEF Restart, TypeOK, Message, SlotIndex, Content
<1>11. CASE UNCHANGED vars
  BY <1>11 DEF vars, TypeOK
<1>. QED
  BY <1>1, <1>2, <1>3, <1>4, <1>5, <1>6, <1>7, <1>8, <1>9, <1>10, <1>11
     DEF Next, Lora, Recv

-----------------------------------------------------------------------------
(* Messages and the set of those that wait                                 *)

LEMMA WaitingMessages ==
  ASSUME TypeOK
  PROVE  Waiting \subseteq Message /\ (held # NoMsg => held \in Waiting)
  BY DEF TypeOK, Waiting

LEMMA WaitingAppend ==
  ASSUME TypeOK, Msgsnd
  PROVE  Waiting' = Waiting \cup {mine}
  BY DEF TypeOK, Msgsnd, Waiting, recvVars

LEMMA WaitingReceive ==
  ASSUME TypeOK, Receive
  PROVE  Waiting' \subseteq Waiting
<1>1. queue \in Seq(Message) /\ queue # <<>>
  BY DEF TypeOK, Receive
<1>2. \A i \in 1 .. Len(queue) - 1 : Tail(queue)[i] = queue[i + 1]
  BY <1>1
<1>3. Len(Tail(queue)) = Len(queue) - 1 /\ Len(queue) \in Nat \ {0}
  BY <1>1
<1>4. Waiting' \subseteq {Tail(queue)[i] : i \in 1 .. Len(queue) - 1} \cup {queue[1]}
  BY <1>1, <1>3 DEF Receive, Waiting
<1>5. Waiting' \subseteq {queue[i] : i \in 1 .. Len(queue)}
  <2>1. queue[1] \in {queue[i] : i \in 1 .. Len(queue)}
    BY <1>3
  <2>2. ASSUME NEW i \in 1 .. Len(queue) - 1
        PROVE  Tail(queue)[i] \in {queue[j] : j \in 1 .. Len(queue)}
    <3>1. i + 1 \in 1 .. Len(queue)
      BY <1>3
    <3>. QED
      BY <1>2, <3>1
  <2>. QED
    BY <1>4, <2>1, <2>2
<1>. QED
  BY <1>5 DEF Waiting

LEMMA WaitingShrinks ==
  ASSUME Finish \/ Restart \/ UNCHANGED <<queue, held>>
  PROVE  Waiting' \subseteq Waiting
  BY DEF Finish, Restart, Waiting

-----------------------------------------------------------------------------
(* Frames keep their places                                                *)

\* A packet that is copied, or not there at all, takes the slot at distance
\* zero; a packet at a distance below Slots is somewhere else, and the same
\* slot lies one step further back when cnt has advanced.
LEMMA BackApart ==
  ASSUME TypeOK, NEW n \in Nat, Done \in Nat, n < Done, Done < n + Slots
  PROVE  Back(n) # cnt
  BY SlotsAssumption DEF TypeOK, SlotIndex, Back

LEMMA BackAdvance ==
  ASSUME TypeOK, NEW n \in Nat, Done \in Nat, n <= Done, Done < n + Slots,
         Done' = Done + 1, cnt' = (cnt + 1) % Slots
  PROVE  Back(n)' = IF n = Done THEN cnt ELSE Back(n)
<1>1. cnt \in 0 .. Slots - 1 /\ Slots \in Nat \ {0}
  BY SlotsAssumption DEF TypeOK, SlotIndex
<1>2. cnt' = IF cnt + 1 = Slots THEN 0 ELSE cnt + 1
  BY <1>1, ModStep
<1>. QED
  BY <1>1, <1>2 DEF Back

LEMMA PacketLocated ==
  ASSUME TypeOK, Located, Packet
  PROVE  Located'
<1>1. /\ begun \in Nat /\ base \in Nat /\ cnt \in SlotIndex
      /\ Waiting \subseteq Message /\ Slots \in Nat
  BY WaitingMessages, SlotsAssumption DEF TypeOK
<1>2. /\ pc = "poll" /\ pc' = "copy" /\ begun' = begun + 1
      /\ mine'.ptr = cnt /\ mine'.num = begun
      /\ slot' = [slot EXCEPT ![cnt] = @ \cup {begun}]
      /\ short \subseteq short' /\ short' \subseteq short \cup {begun}
      /\ UNCHANGED <<cnt, queue, held, base>>
  BY DEF Packet, Pass
<1>3. Done = begun /\ Done' = begun /\ Waiting' = Waiting
  BY <1>1, <1>2 DEF Done, Waiting
<1>4. \A n : Back(n)' = Back(n)
  BY <1>2, <1>3 DEF Back
<1>5. NumberInv'
  BY <1>1, <1>2, <1>3 DEF Located, NumberInv, Message
<1>6. MineInv'
  BY <1>1, <1>2, <1>5 DEF MineInv, Located, NumberInv
<1>7. ASSUME NEW m \in Waiting PROVE Placed(m)'
  <2>. SUFFICES ASSUME m.num >= base, begun + 1 <= m.num + Slots
                PROVE  m.ptr = Back(m.num) /\ Proper(m.num, slot[m.ptr])'
    BY <1>2, <1>4 DEF Placed, Live
  <2>1. m.num \in Nat /\ m.ptr \in SlotIndex /\ m.num < begun
    BY <1>1 DEF Message, Located, NumberInv
  <2>2. m.ptr = Back(m.num) /\ Proper(m.num, slot[m.ptr])
    BY <1>1, <2>1 DEF Located, PlaceInv, Placed, Live
  <2>3. Back(m.num) # cnt
    BY <1>1, <1>3, <2>1, BackApart
  <2>4. slot'[m.ptr] = slot[m.ptr]
    BY <1>2, <2>1, <2>2, <2>3 DEF TypeOK
  <2>. QED
    BY <1>1, <1>2, <2>1, <2>2, <2>4 DEF Proper, Within
<1>8. PlaceInv'
  BY <1>3, <1>7 DEF PlaceInv
<1>. QED
  BY <1>5, <1>6, <1>8 DEF Located

LEMMA StoredLocated ==
  ASSUME TypeOK, Located, NewInv, Stored
  PROVE  Located'
<1>1. /\ begun \in Nat /\ base \in Nat /\ cnt \in SlotIndex
      /\ Waiting \subseteq Message /\ Slots \in Nat \ {0}
  BY WaitingMessages, SlotsAssumption DEF TypeOK
<1>2. /\ pc = "copy" /\ pc' = "send" /\ mine.num = begun - 1 /\ mine.ptr = cnt
      /\ begun > base /\ slot' = Filled
      /\ cnt' = (cnt + 1) % Slots
      /\ UNCHANGED <<begun, mine, short, queue, held, base>>
  BY DEF Stored, Located, MineInv, recvVars
<1>3. Done = begun - 1 /\ Done \in Nat /\ Done' = Done + 1 /\ Waiting' = Waiting
  BY <1>1, <1>2 DEF Done, Waiting
<1>4. Proper(begun - 1, slot'[cnt])
  <2>1. slot[cnt] \subseteq Within(base, begun)
    BY <1>1 DEF NewInv
  <2>2. slot'[cnt] = IF begun - 1 \in short THEN slot[cnt] ELSE {begun - 1}
    BY <1>1, <1>2 DEF Filled, TypeOK
  <2>. QED
    BY <1>1, <1>2, <2>1, <2>2 DEF Proper, Within
<1>5. NumberInv'
  BY <1>2, <1>3 DEF Located, NumberInv
<1>6. MineInv'
  <2>1. Back(mine.num)' = cnt
    BY <1>1, <1>2, <1>3, BackAdvance
  <2>. QED
    BY <1>2, <1>4, <2>1 DEF MineInv, Placed, Proper, Within
<1>7. ASSUME NEW m \in Waiting PROVE Placed(m)'
  <2>. SUFFICES ASSUME m.num >= base, begun <= m.num + Slots
                PROVE  m.ptr = Back(m.num)' /\ Proper(m.num, slot[m.ptr])'
    BY <1>2 DEF Placed, Live
  <2>1. m.num \in Nat /\ m.ptr \in SlotIndex /\ m.num < begun - 1
    BY <1>1, <1>2 DEF Message, Located, NumberInv
  <2>2. m.ptr = Back(m.num) /\ Proper(m.num, slot[m.ptr])
    BY DEF Located, PlaceInv, Placed, Live
  <2>3. Back(m.num) # cnt /\ Back(m.num)' = Back(m.num)
    BY <1>1, <1>2, <1>3, <2>1, BackApart, BackAdvance
  <2>4. slot'[m.ptr] = slot[m.ptr]
    BY <1>2, <2>1, <2>2, <2>3 DEF Filled, TypeOK
  <2>. QED
    BY <1>2, <2>2, <2>3, <2>4 DEF Proper, Within
<1>8. PlaceInv'
  BY <1>3, <1>7 DEF PlaceInv
<1>. QED
  BY <1>5, <1>6, <1>8 DEF Located

LEMMA EmptyLocated ==
  ASSUME TypeOK, Located, NewInv, EmptyPacket
  PROVE  Located'
<1>1. /\ begun \in Nat /\ base \in Nat /\ cnt \in SlotIndex
      /\ Waiting \subseteq Message /\ Slots \in Nat \ {0}
  BY WaitingMessages, SlotsAssumption DEF TypeOK
<1>2. /\ pc = "poll" /\ pc' = "send" /\ begun' = begun + 1
      /\ mine'.ptr = cnt /\ mine'.num = begun /\ short' = short \cup {begun}
      /\ cnt' = (cnt + 1) % Slots
      /\ UNCHANGED <<slot, queue, held, base>>
  BY DEF EmptyPacket, Pass, recvVars
<1>3. Done = begun /\ Done' = Done + 1 /\ Waiting' = Waiting
  BY <1>1, <1>2 DEF Done, Waiting
<1>5. NumberInv'
  BY <1>1, <1>2, <1>3 DEF Located, NumberInv, Message
<1>6. MineInv'
  <2>1. \A n : n = begun => Back(n)' = cnt
    BY <1>1, <1>2, <1>3, BackAdvance
  <2>2. slot[cnt] \subseteq Within(base, begun)
    BY <1>1 DEF NewInv
  <2>3. Within(base, begun) \subseteq Within(base', begun + 1)
    BY <1>1, <1>2 DEF Within
  <2>4. Placed(mine)'
    BY <1>2, <2>1, <2>2, <2>3 DEF Placed, Proper
  <2>. QED
    BY <1>1, <1>2, <1>5, <2>4 DEF MineInv, Located, NumberInv
<1>7. ASSUME NEW m \in Waiting PROVE Placed(m)'
  <2>. SUFFICES ASSUME m.num >= base, begun + 1 <= m.num + Slots
                PROVE  m.ptr = Back(m.num)' /\ Proper(m.num, slot[m.ptr])'
    BY <1>2 DEF Placed, Live
  <2>1. m.num \in Nat /\ m.num < begun
    BY <1>1 DEF Message, Located, NumberInv
  <2>2. m.ptr = Back(m.num) /\ Proper(m.num, slot[m.ptr])
    BY <1>1, <2>1 DEF Located, PlaceInv, Placed, Live
  <2>3. Back(m.num)' = Back(m.num)
    BY <1>1, <1>2, <1>3, <2>1, BackAdvance
  <2>. QED
    BY <1>1, <1>2, <2>1, <2>2, <2>3 DEF Proper, Within
<1>8. PlaceInv'
  BY <1>3, <1>7 DEF PlaceInv
<1>. QED
  BY <1>5, <1>6, <1>8 DEF Located

LEMMA MsgsndLocated ==
  ASSUME TypeOK, Located, Msgsnd
  PROVE  Located'
<1>1. begun \in Nat /\ Waiting' = Waiting \cup {mine}
  BY WaitingAppend DEF TypeOK
<1>2. /\ pc = "send" /\ pc' = "poll"
      /\ UNCHANGED <<mine, slot, cnt, begun, short, base>>
  BY DEF Msgsnd
<1>3. mine.num = begun - 1 /\ Placed(mine)
  BY <1>2 DEF Located, MineInv
<1>4. Done' = Done /\ \A m : Placed(m)' = Placed(m)
  BY <1>2 DEF Done, Placed, Live, Back, Proper, Within
<1>5. NumberInv'
  <2>1. \A m \in Waiting : m.num < begun
    BY DEF Located, NumberInv
  <2>. QED
    BY <1>1, <1>2, <1>3, <2>1 DEF Located, NumberInv
<1>6. PlaceInv'
  BY <1>1, <1>3, <1>4 DEF Located, PlaceInv
<1>. QED
  BY <1>2, <1>5, <1>6 DEF Located, MineInv

\* thread_lora_recv leaves the slots alone and adds no message.
LEMMA RecvLocated ==
  ASSUME TypeOK, Located, Recv \/ UNCHANGED vars
  PROVE  Located'
<1>1. UNCHANGED <<pc, mine, slot, cnt, begun, short, base>>
  BY DEF Recv, Receive, Route, GiveBegin, GiveEnd, Finish, loraVars, vars
<1>2. Waiting' \subseteq Waiting
  <2>1. CASE Receive
    BY <2>1, WaitingReceive
  <2>2. CASE Route \/ GiveBegin \/ GiveEnd \/ Finish \/ UNCHANGED vars
    BY <2>2, WaitingShrinks DEF Route, GiveBegin, GiveEnd, vars, recvVars
  <2>. QED
    BY <2>1, <2>2 DEF Recv
<1>3. \A m : Placed(m)' = Placed(m)
  BY <1>1 DEF Placed, Live, Back, Done, Proper, Within
<1>. QED
  BY <1>1, <1>2, <1>3 DEF Located, NumberInv, MineInv, PlaceInv

LEMMA RestartLocated ==
  ASSUME TypeOK, Located, Restart
  PROVE  Located'
<1>1. Waiting' \subseteq Waiting /\ base' = begun /\ begun' = begun /\ pc' = "poll"
  BY WaitingShrinks DEF Restart
<1>2. begun \in Nat /\ Waiting \subseteq Message
  BY WaitingMessages DEF TypeOK
<1>3. \A m \in Waiting : m.num \in Nat /\ m.num < begun
  BY <1>2 DEF Located, NumberInv, Message
<1>. QED
  BY <1>1, <1>2, <1>3 DEF Located, NumberInv, MineInv, PlaceInv, Placed, Live

LEMMA LocatedStep ==
  ASSUME TypeOK, Located, NewInv, [Next]_vars
  PROVE  Located'
  BY PacketLocated, StoredLocated, EmptyLocated, MsgsndLocated, RecvLocated,
     RestartLocated DEF Next, Lora

-----------------------------------------------------------------------------
(* What is read                                                            *)

\* The slot of the message in hand, while it is live.
LEMMA HeldSlot ==
  ASSUME TypeOK, Located, dpc # "idle", Live(held)
  PROVE  /\ held \in Message /\ held.num < begun
         /\ held.ptr = Back(held.num) /\ Proper(held.num, slot[held.ptr])
<1>1. held \in Waiting /\ held \in Message
  BY WaitingMessages DEF TypeOK
<1>. QED
  BY <1>1 DEF Located, NumberInv, PlaceInv, Placed

LEMMA ReadPacket ==
  ASSUME TypeOK, Located, ReadInv, Packet
  PROVE  ReadInv'
<1>1. begun \in Nat /\ Slots \in Nat /\ base \in Nat /\ cnt \in SlotIndex
  BY SlotsAssumption DEF TypeOK
<1>2. /\ pc = "poll" /\ begun' = begun + 1
      /\ short \subseteq short' /\ short' \subseteq short \cup {begun}
      /\ long \subseteq long'
      /\ UNCHANGED <<dpc, held, head, base>>
  BY DEF Packet, Pass
<1>. SUFFICES ASSUME Live(held)', dpc \in {"give", "copy"}
              PROVE  /\ Proper(held.num, head)'
                     /\ dpc = "copy" /\ head \cap long' = {}
                          => Proper(held.num, seen)'
  BY <1>2 DEF ReadInv
<1>3. held \in Message /\ held.num \in Nat
  BY DEF TypeOK, Message
<1>4. Live(held) /\ begun < held.num + Slots
  BY <1>1, <1>2, <1>3 DEF Live
<1>5. held.num < begun /\ held.ptr = Back(held.num) /\ Proper(held.num, head)
  BY <1>4, HeldSlot DEF ReadInv
<1>6. held.ptr # cnt
  BY <1>1, <1>2, <1>3, <1>4, <1>5, BackApart DEF Done
<1>7. Proper(held.num, head)'
  BY <1>1, <1>2, <1>3, <1>5 DEF Proper, Within
<1>8. ASSUME dpc = "copy", head \cap long' = {}
      PROVE  Proper(held.num, seen)'
  <2>1. head \cap long = {}
    BY <1>2, <1>8
  <2>2. cnt \notin Span
    BY <1>1, <1>3, <1>6, <2>1 DEF Span, Message, SlotIndex
  <2>3. seen' = seen
    BY <2>2 DEF Packet
  <2>4. Proper(held.num, seen)
    BY <1>4, <1>8, <2>1 DEF ReadInv
  <2>. QED
    BY <1>1, <1>2, <1>3, <1>5, <2>3, <2>4 DEF Proper, Within
<1>. QED
  BY <1>7, <1>8

LEMMA ReadEmpty ==
  ASSUME TypeOK, Located, ReadInv, EmptyPacket
  PROVE  ReadInv'
<1>1. begun \in Nat /\ Slots \in Nat /\ base \in Nat
  BY SlotsAssumption DEF TypeOK
<1>2. /\ begun' = begun + 1 /\ short' = short \cup {begun}
      /\ UNCHANGED <<dpc, held, head, seen, base, long>>
  BY DEF EmptyPacket, Pass, recvVars
<1>. SUFFICES ASSUME Live(held)', dpc \in {"give", "copy"}
              PROVE  /\ Proper(held.num, head)'
                     /\ dpc = "copy" /\ head \cap long = {}
                          => Proper(held.num, seen)'
  BY <1>2 DEF ReadInv
<1>3. held \in Message /\ held.num \in Nat
  BY DEF TypeOK, Message
<1>4. Live(held)
  BY <1>1, <1>2, <1>3 DEF Live
<1>5. held.num < begun
  BY <1>4, HeldSlot
<1>. QED
  BY <1>1, <1>2, <1>3, <1>4, <1>5 DEF ReadInv, Proper, Within

LEMMA ReadStep ==
  ASSUME TypeOK, Located, ReadInv, [Next]_vars
  PROVE  ReadInv'
<1>. USE DEF loraVars, recvVars
<1>1. CASE Stored \/ Msgsnd \/ UNCHANGED vars
  <2>1. UNCHANGED <<dpc, held, head, seen, base, begun, short, long>>
    BY <1>1 DEF Stored, Msgsnd, vars
  <2>. QED
    BY <2>1 DEF ReadInv, Live, Proper, Within
<1>2. CASE Receive \/ Finish \/ Restart
  BY <1>2 DEF Receive, Finish, Restart, ReadInv
<1>3. CASE Route
  <2>1. head' = slot[held.ptr] /\ dpc' = "give" /\ dpc # "idle"
        /\ UNCHANGED <<held, base, begun, short>>
    BY <1>3 DEF Route
  <2>. QED
    BY <2>1, HeldSlot DEF ReadInv, Live, Proper, Within
<1>4. CASE GiveBegin
  <2>1. seen' = Readable /\ dpc = "give" /\ dpc' = "copy"
        /\ UNCHANGED <<held, head, base, begun, short, long>>
    BY <1>4 DEF GiveBegin
  <2>. SUFFICES ASSUME Live(held)
                PROVE  /\ Proper(held.num, head)'
                       /\ head \cap long = {} => Proper(held.num, seen)'
    BY <2>1 DEF ReadInv, Live
  <2>2. held \in Message /\ Proper(held.num, slot[held.ptr])
    BY <2>1, HeldSlot
  <2>3. head \cap long = {} => Readable = slot[held.ptr]
    <3>1. held.ptr \in SlotIndex /\ held.ptr \in Int
      BY <2>2, SlotsAssumption DEF Message, SlotIndex
    <3>2. ASSUME head \cap long = {} PROVE Span = {held.ptr}
      BY <3>1, <3>2 DEF Span
    <3>. QED
      BY <3>1, <3>2 DEF Readable
  <2>. QED
    BY <2>1, <2>2, <2>3 DEF ReadInv, Proper, Within
<1>5. CASE GiveEnd
  <2>1. dpc = "copy" /\ dpc' = "give"
        /\ UNCHANGED <<held, head, seen, base, begun, short>>
    BY <1>5 DEF GiveEnd
  <2>. QED
    BY <2>1 DEF ReadInv, Live, Proper, Within
<1>. QED
  BY <1>1, <1>2, <1>3, <1>4, <1>5, ReadPacket, ReadEmpty DEF Next, Lora, Recv

LEMMA NewStep ==
  ASSUME TypeOK, Located, NewInv, [Next]_vars
  PROVE  NewInv'
<1>. USE DEF loraVars, recvVars
<1>0. /\ begun \in Nat /\ base \in Nat /\ base <= begun
      /\ \A i \in SlotIndex : slot[i] \subseteq Within(base, begun)
  BY DEF NewInv, TypeOK, Located, NumberInv
<1>1. CASE Packet
  <2>1. begun' = begun + 1 /\ base' = base
    BY <1>1 DEF Packet, Pass
  <2>2. Within(base, begun) \cup {begun} \subseteq Within(base, begun)'
    BY <1>0, <2>1 DEF Within
  <2>3. \A i \in SlotIndex : slot'[i] \subseteq slot[i] \cup {begun}
    BY <1>1 DEF Packet, TypeOK
  <2>4. head' = head /\ seen' \subseteq seen \cup {begun}
    BY <1>1 DEF Packet
  <2>5. short' \subseteq 0 .. begun' - 1
    <3>1. short' \subseteq short \cup {begun} /\ short \subseteq 0 .. begun - 1
      BY <1>1 DEF Packet, NewInv
    <3>2. begun' - 1 = begun
      BY <1>0, <2>1
    <3>3. 0 .. begun - 1 \subseteq 0 .. begun /\ begun \in 0 .. begun
      BY <1>0
    <3>. QED
      BY <3>1, <3>2, <3>3
  <2>. HIDE DEF loraVars, recvVars
  <2>. QED
    BY <1>0, <2>1, <2>2, <2>3, <2>4, <2>5 DEF NewInv
<1>2. CASE Stored
  <2>1. mine.num \in Within(base, begun)
    BY <1>0, <1>2 DEF Stored, Located, MineInv, TypeOK, Message, Within
  <2>2. \A i \in SlotIndex : slot'[i] \subseteq slot[i] \cup {mine.num}
    BY <1>2 DEF Stored, Filled, TypeOK
  <2>3. UNCHANGED <<base, begun, head, seen, short>>
    BY <1>2 DEF Stored
  <2>. QED
    BY <1>0, <2>1, <2>2, <2>3 DEF NewInv, Within
<1>3. CASE EmptyPacket
  <2>1. /\ begun' = begun + 1 /\ short' = short \cup {begun}
        /\ UNCHANGED <<base, slot, head, seen>>
    BY <1>3 DEF EmptyPacket, Pass
  <2>2. Within(base, begun) \subseteq Within(base, begun)'
    BY <1>0, <2>1 DEF Within
  <2>3. short' \subseteq 0 .. begun' - 1
    BY <1>0, <2>1 DEF NewInv
  <2>. QED
    BY <1>0, <2>1, <2>2, <2>3 DEF NewInv
<1>4. CASE Msgsnd \/ Receive \/ GiveEnd \/ Finish \/ UNCHANGED vars
  <2>1. UNCHANGED <<base, begun, slot, head, seen, short>>
    BY <1>4 DEF Msgsnd, Receive, GiveEnd, Finish, vars
  <2>. QED
    BY <2>1 DEF NewInv, Within
<1>5. CASE Route
  <2>1. held.ptr \in SlotIndex
    BY <1>5 DEF Route, TypeOK, Message
  <2>2. head' = slot[held.ptr] /\ UNCHANGED <<base, begun, slot, seen, short>>
    BY <1>5 DEF Route
  <2>. QED
    BY <1>0, <2>1, <2>2 DEF NewInv, Within
<1>6. CASE GiveBegin
  <2>1. seen' = Readable /\ UNCHANGED <<base, begun, slot, head, short>>
    BY <1>6 DEF GiveBegin
  <2>2. Readable \subseteq Within(base, begun)
    <3>1. Blank \in Within(base, begun)
      BY DEF Within
    <3>. QED
      BY <1>0, <3>1, ReadableFrom
  <2>. QED
    BY <2>1, <2>2 DEF NewInv, Within
<1>7. CASE Restart
  <2>1. /\ slot' = [i \in SlotIndex |-> {Blank}] /\ head' = {} /\ seen' = {}
        /\ UNCHANGED <<begun, short>>
    BY <1>7 DEF Restart
  <2>. QED
    BY <2>1 DEF NewInv, Within
<1>. QED
  BY <1>1, <1>2, <1>3, <1>4, <1>5, <1>6, <1>7 DEF Next, Lora, Recv

LEMMA OwnStep ==
  ASSUME TypeOK, Located, ReadInv, NewInv, OwnInv, [Next]_vars
  PROVE  OwnInv'
<1>. USE DEF loraVars, recvVars
<1>0. begun \in Nat /\ base \in Nat /\ Slots \in Nat
  BY SlotsAssumption DEF TypeOK
<1>1. CASE GiveEnd
  <2>. DEFINE h == [msg |-> held.num, what |-> head \cup seen,
                    later |-> begun - held.num - 1]
  <2>1. /\ dpc = "copy" /\ held \in Message /\ handed' = {h}
        /\ UNCHANGED <<short, long, base, begun>>
    BY <1>1 DEF GiveEnd, TypeOK
  <2>2. held.num \in Nat /\ held.num < begun
    BY <2>1, WaitingMessages DEF Message, Located, NumberInv, TypeOK
  <2>3. ASSUME h.later < Slots, h.msg >= base
        PROVE  /\ h.msg \notin short => h.what = {h.msg}
               /\ h.what \cap long = {} => h.what \subseteq 0 .. h.msg \cup {Blank}
    <3>1. Live(held)
      BY <1>0, <2>2, <2>3 DEF Live
    <3>2. Proper(held.num, head)
      BY <2>1, <3>1 DEF ReadInv
    <3>3. head \cap long = {} => Proper(held.num, seen)
      BY <2>1, <3>1 DEF ReadInv
    <3>4. long \subseteq short
      BY DEF TypeOK
    <3>5. held.num \notin short => head = {held.num} /\ seen = {held.num}
      BY <3>2, <3>3, <3>4 DEF Proper
    <3>6. ASSUME (head \cup seen) \cap long = {}
          PROVE  head \cup seen \subseteq 0 .. held.num \cup {Blank}
      <4>1. head \subseteq Within(base, held.num + 1)
        BY <3>2 DEF Proper
      <4>2. seen \subseteq Within(base, held.num + 1)
        BY <3>3, <3>6 DEF Proper
      <4>3. Within(base, held.num + 1) \subseteq 0 .. held.num \cup {Blank}
        BY <1>0, <2>2 DEF Within
      <4>. QED
        BY <4>1, <4>2, <4>3
    <3>. QED
      BY <3>5, <3>6
  <2>4. h.what \subseteq base .. begun - 1 \cup {Blank}
    BY <1>0 DEF NewInv, Within
  <2>5. h.msg < begun
    BY <2>2
  <2>. HIDE DEF h
  <2>. QED
    BY <2>1, <2>3, <2>4, <2>5 DEF OwnInv, OwnFrame
<1>2. CASE Packet \/ EmptyPacket
  <2>1. /\ begun' = begun + 1 /\ UNCHANGED <<handed, base>>
        /\ short' \subseteq short \cup {begun} /\ short \subseteq short'
        /\ long \subseteq long'
    BY <1>2 DEF Packet, EmptyPacket, Pass
  <2>2. ASSUME NEW h \in handed
        PROVE  /\ h.later < Slots /\ h.msg >= base
                    => /\ h.msg \notin short' => h.what = {h.msg}
                       /\ h.what \cap long' = {}
                            => h.what \subseteq 0 .. h.msg \cup {Blank}
               /\ h.what \subseteq base .. begun' - 1 \cup {Blank}
               /\ h.msg < begun'
    <3>1. h.msg \in Nat
      BY DEF TypeOK
    <3>2. /\ h.later < Slots /\ h.msg >= base
               => /\ h.msg \notin short => h.what = {h.msg}
                  /\ h.what \cap long = {}
                       => h.what \subseteq 0 .. h.msg \cup {Blank}
          /\ h.what \subseteq base .. begun - 1 \cup {Blank} /\ h.msg < begun
      BY DEF OwnInv, OwnFrame
    <3>3. base .. begun - 1 \subseteq base .. begun' - 1
      BY <1>0, <2>1
    <3>. QED
      BY <1>0, <2>1, <3>1, <3>2, <3>3
  <2>. QED
    BY <2>1, <2>2 DEF OwnInv, OwnFrame
<1>3. CASE Restart
  BY <1>3 DEF Restart, OwnInv, OwnFrame
<1>4. CASE UNCHANGED <<handed, short, long, base, begun>>
  BY <1>4 DEF OwnInv, OwnFrame
<1>. QED
  BY <1>1, <1>2, <1>3, <1>4 DEF Next, Lora, Recv, Stored, Msgsnd,
     Receive, Route, GiveBegin, Finish, vars

-----------------------------------------------------------------------------
(* The theorems                                                            *)

LEMMA InitInv == Init => IInv
<1>. SUFFICES ASSUME Init PROVE IInv
  OBVIOUS
<1>1. TypeOK
  BY TypeInit
<1>2. Waiting = {}
  BY DEF Init, Waiting
<1>3. Located
  BY <1>2 DEF Init, Located, NumberInv, MineInv, PlaceInv
<1>4. ReadInv /\ NewInv /\ OwnInv
  BY DEF Init, ReadInv, NewInv, OwnInv, OwnFrame, Within
<1>. QED
  BY <1>1, <1>3, <1>4 DEF IInv

\* The inductive invariant holds of every behaviour.
THEOREM Invariant == Spec => []IInv
<1>1. IInv /\ [Next]_vars => IInv'
  BY TypeStep, LocatedStep, ReadStep, NewStep, OwnStep DEF IInv
<1>. QED
  BY <1>1, InitInv, PTL DEF Spec

\* The types of ring, queue and both threads, for a ring of any length.
THEOREM TypeCorrect == Spec => []TypeOK
<1>1. IInv => TypeOK
  BY DEF IInv
<1>. QED
  BY <1>1, Invariant, PTL

\* Until Slots more packets have passed a whole message brings every mailbox
\* its own frame, and a short one nothing of a later packet of another slot,
\* whatever the length of the queue and of the ring, and however slowly the
\* mailboxes are filled; bytes of an earlier process never come back.
THEOREM FramesAreOwn == Spec => []OwnFrame
<1>1. IInv => OwnFrame
  BY DEF IInv, OwnInv
<1>. QED
  BY <1>1, Invariant, PTL
=============================================================================
