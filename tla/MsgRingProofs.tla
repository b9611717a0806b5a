--------------------------- MODULE MsgRingProofs ---------------------------
(***************************************************************************)
(* Proofs about MsgRing for every number of senders, every length of the   *)
(* ring and of the queue, and any number of restarts.                      *)
(*                                                                         *)
(* The argument is about distances.  Let Done be the number of copies that *)
(* are finished.  The counter cnt is the slot of frame Done, so a frame    *)
(* that is d copies older lies d slots before cnt, round the ring, as long *)
(* as d does not exceed the length of the ring.  Frames at different       *)
(* distances from 0 to Slots - 1 lie in different slots, so a copy, which  *)
(* is at distance 0, touches no younger frame.                             *)
(***************************************************************************)
EXTENDS MsgRing, Integers, TLAPS

Copying == \E p \in Producers : pc[p] = "copy"
Building == \E p \in Producers : pc[p] \in {"copy", "enqueue"}

Done == IF Copying THEN begun - 1 ELSE begun

\* The slot of frame n.
Back(n) ==
  IF Done - n <= cnt THEN cnt - (Done - n) ELSE cnt + Slots - (Done - n)

LockInv == \A p \in Producers : pc[p] # "idle" => lock = p

ReaderInv == rpc = "idle" <=> held = NoMsg

NumberInv ==
  /\ base <= begun
  /\ \A m \in Waiting : m.num < begun
  /\ Building => \A m \in Waiting : m.num < begun - 1

MineInv ==
  \A p \in Producers :
    /\ pc[p] \in {"copy", "enqueue"} =>
         begun > base /\ mine[p].num = begun - 1
    /\ pc[p] = "copy" => mine[p].ptr = cnt
    /\ pc[p] = "enqueue" =>
         mine[p].ptr = Back(begun - 1) /\ slot[mine[p].ptr] = begun - 1

PlaceInv ==
  \A m \in Outstanding :
    begun <= m.num + Slots => m.ptr = Back(m.num) /\ slot[m.ptr] = m.num

IInv ==
  TypeOK /\ LockInv /\ ReaderInv /\ NumberInv /\ MineInv /\ PlaceInv

-----------------------------------------------------------------------------

LEMMA ModStep ==
  ASSUME NEW S \in Nat \ {0}, NEW c \in 0 .. S - 1
  PROVE  (c + 1) % S = IF c + 1 = S THEN 0 ELSE c + 1
  OBVIOUS

\* What the three steps that touch the queue or the message in hand do to
\* the set of waiting messages.
LEMMA WaitingAppend ==
  ASSUME TypeOK, NEW p \in Producers, Msgsnd(p)
  PROVE  Waiting' = Waiting \cup {mine[p]}
  BY DEF TypeOK, Msgsnd, Waiting, readerVars

LEMMA WaitingReceive ==
  ASSUME TypeOK, ReaderInv, Receive
  PROVE  Waiting' = Waiting
<1>1. queue \in Seq(Message) /\ queue # <<>> /\ held = NoMsg
  BY DEF TypeOK, ReaderInv, Receive
<1>2. Head(queue) # NoMsg
  <2>1. Head(queue) \in Message
    BY <1>1
  <2>. QED
    BY <2>1, NoMsgAssumption DEF Message, SlotIndex
<1>3. Waiting' = {Tail(queue)[i] : i \in 1 .. Len(queue) - 1} \cup {queue[1]}
  BY <1>1, <1>2 DEF Receive, Waiting
<1>4. \A i \in 1 .. Len(queue) - 1 : Tail(queue)[i] = queue[i + 1]
  BY <1>1
<1>5. \A i \in 1 .. Len(queue) : i = 1 \/ queue[i] = Tail(queue)[i - 1]
  BY <1>1, <1>4
<1>6. Waiting = {queue[i] : i \in 1 .. Len(queue)}
  BY <1>1 DEF Waiting
<1>. QED
  BY <1>1, <1>3, <1>4, <1>5, <1>6

LEMMA WaitingTransmit ==
  ASSUME TransmitEnd \/ Restart
  PROVE  Waiting' \subseteq Waiting
  BY DEF TransmitEnd, Restart, Waiting

\* The steps that leave the queue and the message in hand alone.
LEMMA WaitingKept ==
  ASSUME UNCHANGED <<queue, held>>
  PROVE  Waiting' = Waiting
  BY DEF Waiting

LEMMA WaitingMessages ==
  ASSUME TypeOK
  PROVE  Waiting \subseteq Message
  BY DEF TypeOK, Waiting

-----------------------------------------------------------------------------
(* Type correctness, the mutex and the reader                              *)

LEMMA TypeStep ==
  ASSUME TypeOK, LockInv, ReaderInv, [Next]_vars
  PROVE  TypeOK' /\ LockInv' /\ ReaderInv'
<1>. USE SlotsAssumption, OwnerAssumption
<1>1. ASSUME NEW p \in Producers, Acquire(p)
      PROVE  TypeOK' /\ LockInv' /\ ReaderInv'
  BY <1>1 DEF Acquire, TypeOK, LockInv, ReaderInv, readerVars
<1>2. ASSUME NEW p \in Producers, CopyBegin(p)
      PROVE  TypeOK' /\ LockInv' /\ ReaderInv'
  BY <1>2 DEF CopyBegin, TypeOK, LockInv, ReaderInv, readerVars, Message,
              Content
<1>3. ASSUME NEW p \in Producers, CopyEnd(p)
      PROVE  TypeOK' /\ LockInv' /\ ReaderInv'
  <2>1. cnt' \in SlotIndex
    BY <1>3, ModStep DEF CopyEnd, TypeOK, SlotIndex
  <2>. QED
    BY <1>3, <2>1 DEF CopyEnd, TypeOK, LockInv, ReaderInv, readerVars, Message,
                      Content
<1>4. ASSUME NEW p \in Producers, Msgsnd(p)
      PROVE  TypeOK' /\ LockInv' /\ ReaderInv'
  BY <1>4 DEF Msgsnd, TypeOK, LockInv, ReaderInv, readerVars
<1>5. ASSUME NEW p \in Producers, Release(p)
      PROVE  TypeOK' /\ LockInv' /\ ReaderInv'
  BY <1>5 DEF Release, TypeOK, LockInv, ReaderInv, readerVars
<1>6. CASE Receive
  <2>1. Head(queue) \in Message /\ Tail(queue) \in Seq(Message)
    BY <1>6 DEF Receive, TypeOK
  <2>2. Head(queue) # NoMsg
    BY <2>1, NoMsgAssumption DEF Message, SlotIndex
  <2>. QED
    BY <1>6, <2>1, <2>2 DEF Receive, TypeOK, LockInv, ReaderInv, senderVars
<1>7. CASE ReadLength
  BY <1>7 DEF ReadLength, TypeOK, LockInv, ReaderInv, senderVars
<1>8. CASE TransmitBegin
  <2>1. held \in Message
    BY <1>8 DEF TransmitBegin, TypeOK, ReaderInv
  <2>. QED
    BY <1>8, <2>1 DEF TransmitBegin, TypeOK, LockInv, ReaderInv, senderVars,
                      Message
<1>9. CASE TransmitEnd
  <2>1. Copied \in Content \cup {Runt}
    BY DEF Copied, TypeOK, Content
  <2>. QED
    BY <1>9, <2>1 DEF TransmitEnd, TypeOK, LockInv, ReaderInv, senderVars
<1>10. CASE Restart
  BY <1>10 DEF Restart, TypeOK, LockInv, ReaderInv, Message, SlotIndex, Content
<1>11. CASE UNCHANGED vars
  BY <1>11 DEF vars, TypeOK, LockInv, ReaderInv
<1>. QED
  BY <1>1, <1>2, <1>3, <1>4, <1>5, <1>6, <1>7, <1>8, <1>9, <1>10, <1>11
     DEF Next, Sender, Reader

LEMMA TypeInit ==
  ASSUME Init
  PROVE  TypeOK /\ LockInv /\ ReaderInv
  BY SlotsAssumption DEF Init, TypeOK, LockInv, ReaderInv, Message, SlotIndex,
                         Content

\* Every variable keeps its type in every behaviour.
THEOREM TypeCorrect == Spec => []TypeOK
<1>1. TypeOK /\ LockInv /\ ReaderInv /\ [Next]_vars
        => TypeOK' /\ LockInv' /\ ReaderInv'
  BY TypeStep
<1>. QED
  BY <1>1, TypeInit, PTL DEF Spec

-----------------------------------------------------------------------------
(* Frames keep their places: SlotIntact                                    *)

Located == NumberInv /\ MineInv /\ PlaceInv

\* The holder of the mutex is alone, so it alone decides whether a copy or
\* a message is being made.
LEMMA Alone ==
  ASSUME TypeOK, LockInv, NEW p \in Producers, pc[p] # "idle"
  PROVE  /\ Copying <=> pc[p] = "copy"
         /\ Building <=> pc[p] \in {"copy", "enqueue"}
         /\ \A q \in Producers : q # p => pc[q] = "idle"
  BY DEF TypeOK, LockInv, Copying, Building

LEMMA BackKept ==
  ASSUME Done' = Done, cnt' = cnt
  PROVE  \A n : Back(n)' = Back(n)
  BY DEF Back

\* A copy goes to the slot at distance zero; a frame at a distance below
\* Slots is somewhere else.
LEMMA BackApart ==
  ASSUME TypeOK, NEW n \in Nat, Done \in Nat, n < Done, Done < n + Slots
  PROVE  Back(n) # cnt
  BY SlotsAssumption DEF TypeOK, SlotIndex, Back

LEMMA CopyBeginLocated ==
  ASSUME TypeOK, LockInv, Located, NEW p \in Producers, CopyBegin(p)
  PROVE  Located'
<1>1. ~Copying /\ ~Building /\ Copying' /\ Building'
  BY Alone DEF CopyBegin, TypeOK, Copying, Building
<1>2. begun \in Nat /\ base \in Nat /\ cnt \in SlotIndex
  BY DEF TypeOK
<1>3. Done = begun /\ Done' = Done /\ cnt' = cnt /\ begun' = begun + 1
      /\ base' = base
  BY <1>1, <1>2 DEF CopyBegin, Done
<1>4. Waiting' = Waiting /\ Outstanding' = Outstanding
  BY WaitingKept, <1>3 DEF CopyBegin, readerVars, Outstanding
<1>5. Waiting \subseteq Message
  BY WaitingMessages
<1>6. NumberInv'
  BY <1>1, <1>2, <1>3, <1>4, <1>5 DEF Located, NumberInv, Message
<1>7. MineInv'
  <2>1. mine'[p] = [ptr |-> cnt, num |-> begun] /\ pc'[p] = "copy"
    BY DEF CopyBegin, TypeOK
  <2>2. \A q \in Producers : q # p => pc'[q] = "idle"
    BY Alone DEF CopyBegin, TypeOK
  <2>. QED
    BY <1>2, <1>3, <1>6, <2>1, <2>2 DEF MineInv, Located, NumberInv
<1>8. PlaceInv'
  <2>. SUFFICES ASSUME NEW m \in Outstanding, begun + 1 <= m.num + Slots
                PROVE  m.ptr = Back(m.num)' /\ slot'[m.ptr] = m.num
    BY <1>3, <1>4 DEF PlaceInv
  <2>1. m \in Waiting /\ m.num \in Nat /\ m.num < begun
    BY <1>5 DEF Outstanding, Message, Located, NumberInv
  <2>2. m.ptr = Back(m.num) /\ slot[m.ptr] = m.num
    BY <1>2, <2>1, SlotsAssumption DEF Located, PlaceInv
  <2>3. Back(m.num) # cnt
    BY <1>2, <1>3, <2>1, BackApart, SlotsAssumption
  <2>4. m.ptr \in SlotIndex
    BY <2>1, <1>5 DEF Message
  <2>. QED
    BY <1>3, <2>2, <2>3, <2>4, BackKept DEF CopyBegin, TypeOK
<1>. QED
  BY <1>6, <1>7, <1>8 DEF Located

LEMMA CopyEndLocated ==
  ASSUME TypeOK, LockInv, Located, NEW p \in Producers, CopyEnd(p)
  PROVE  Located'
<1>1. Copying /\ Building /\ ~Copying' /\ Building'
  BY Alone DEF CopyEnd, TypeOK, Copying, Building
<1>2. begun \in Nat /\ base \in Nat /\ cnt \in SlotIndex
  BY DEF TypeOK
<1>3. /\ mine[p].num = begun - 1 /\ mine[p].ptr = cnt /\ begun > base
      /\ pc'[p] = "enqueue" /\ mine' = mine
      /\ slot' = [slot EXCEPT ![cnt] = begun - 1]
  BY DEF CopyEnd, TypeOK, Located, MineInv
<1>4. Done = begun - 1 /\ Done' = begun /\ begun' = begun /\ base' = base
  BY <1>1, <1>2 DEF CopyEnd, Done
<1>5. cnt' = IF cnt + 1 = Slots THEN 0 ELSE cnt + 1
  BY ModStep, SlotsAssumption, <1>2 DEF CopyEnd, SlotIndex
<1>6. Waiting' = Waiting /\ Outstanding' = Outstanding
  BY WaitingKept, <1>4 DEF CopyEnd, readerVars, Outstanding
<1>7. Waiting \subseteq Message
  BY WaitingMessages
<1>8. \A n \in Nat : n < begun /\ begun <= n + Slots => Back(n)' = Back(n)
                                                  \/ n = begun - 1
  BY <1>2, <1>4, <1>5, SlotsAssumption DEF Back, SlotIndex
<1>9. Back(begun - 1)' = cnt
  BY <1>2, <1>4, <1>5, SlotsAssumption DEF Back, SlotIndex
<1>10. NumberInv'
  BY <1>1, <1>4, <1>6 DEF Located, NumberInv
<1>11. MineInv'
  <2>1. \A q \in Producers : q # p => pc'[q] = "idle"
    BY Alone DEF CopyEnd, TypeOK
  <2>2. slot'[cnt] = begun - 1
    BY <1>2, <1>3 DEF TypeOK
  <2>. QED
    BY <1>3, <1>4, <1>9, <2>1, <2>2 DEF MineInv
<1>12. PlaceInv'
  <2>. SUFFICES ASSUME NEW m \in Outstanding, begun <= m.num + Slots
                PROVE  m.ptr = Back(m.num)' /\ slot'[m.ptr] = m.num
    BY <1>4, <1>6 DEF PlaceInv
  <2>1. m \in Waiting /\ m.num \in Nat /\ m.num < begun - 1
    BY <1>1, <1>7 DEF Outstanding, Message, Located, NumberInv
  <2>2. m.ptr = Back(m.num) /\ slot[m.ptr] = m.num
    BY DEF Located, PlaceInv
  <2>3. Back(m.num) # cnt
    BY <1>2, <1>4, <2>1, BackApart, SlotsAssumption
  <2>4. Back(m.num)' = Back(m.num)
    BY <1>2, <1>8, <2>1
  <2>5. m.ptr \in SlotIndex
    BY <2>1, <1>7 DEF Message
  <2>. QED
    BY <1>3, <2>2, <2>3, <2>4, <2>5 DEF TypeOK
<1>. QED
  BY <1>10, <1>11, <1>12 DEF Located

LEMMA MsgsndLocated ==
  ASSUME TypeOK, LockInv, Located, NEW p \in Producers, Msgsnd(p)
  PROVE  Located'
<1>1. ~Copying /\ Building /\ ~Copying' /\ ~Building'
  BY Alone DEF Msgsnd, TypeOK, Copying, Building
<1>2. begun \in Nat /\ base \in Nat /\ cnt \in SlotIndex
  BY DEF TypeOK
<1>3. /\ mine[p].num = begun - 1 /\ begun > base
      /\ mine[p].ptr = Back(begun - 1) /\ slot[mine[p].ptr] = begun - 1
  BY DEF Msgsnd, Located, MineInv
<1>4. /\ Done' = Done /\ cnt' = cnt /\ slot' = slot /\ begun' = begun
      /\ base' = base
  BY <1>1 DEF Msgsnd, Done
<1>5. Waiting' = Waiting \cup {mine[p]}
  BY WaitingAppend
<1>6. NumberInv'
  BY <1>1, <1>2, <1>3, <1>4, <1>5 DEF Located, NumberInv
<1>7. MineInv'
  BY Alone DEF Msgsnd, MineInv, TypeOK
<1>8. PlaceInv'
  <2>1. Outstanding' = Outstanding \cup {mine[p]}
    BY <1>2, <1>3, <1>4, <1>5 DEF Outstanding
  <2>2. \A n : Back(n)' = Back(n)
    BY <1>4, BackKept
  <2>. QED
    BY <1>3, <1>4, <2>1, <2>2 DEF Located, PlaceInv
<1>. QED
  BY <1>6, <1>7, <1>8 DEF Located

\* Every other step leaves slots and copies alone and adds no message.
LEMMA QuietLocated ==
  ASSUME TypeOK, Located, Waiting' \subseteq Waiting,
         UNCHANGED <<slot, cnt, mine, begun, base>>,
         \A q \in Producers :
           \/ pc'[q] = pc[q]
           \/ {pc[q], pc'[q]} \cap {"copy", "enqueue"} = {}
  PROVE  Located'
<1>1. Copying' = Copying /\ Building' = Building
  BY DEF Copying, Building
<1>2. Done' = Done
  BY <1>1 DEF Done
<1>3. \A n : Back(n)' = Back(n)
  BY <1>2, BackKept
<1>4. NumberInv'
  BY <1>1 DEF Located, NumberInv
<1>5. MineInv'
  BY <1>3 DEF Located, MineInv
<1>6. PlaceInv'
  BY <1>3 DEF Located, PlaceInv, Outstanding
<1>. QED
  BY <1>4, <1>5, <1>6 DEF Located

LEMMA RestartLocated ==
  ASSUME TypeOK, Located, Restart
  PROVE  Located'
<1>1. Waiting' \subseteq Waiting /\ base' = begun /\ begun' = begun
  BY WaitingTransmit DEF Restart
<1>2. begun \in Nat /\ Waiting \subseteq Message
  BY WaitingMessages DEF TypeOK
<1>3. \A m \in Waiting : m.num \in Nat /\ m.num < begun
  BY <1>2 DEF Located, NumberInv, Message
<1>4. Outstanding' = {}
  BY <1>1, <1>2, <1>3 DEF Outstanding
<1>5. ~Building'
  BY DEF Restart, Building
<1>6. MineInv'
  BY DEF Restart, MineInv
<1>. QED
  BY <1>1, <1>2, <1>3, <1>4, <1>5, <1>6 DEF Located, NumberInv, PlaceInv

LEMMA LocatedStep ==
  ASSUME IInv, [Next]_vars
  PROVE  Located'
<1>. USE DEF IInv
<1>0. TypeOK /\ LockInv /\ ReaderInv /\ Located
  BY DEF Located
<1>1. ASSUME NEW p \in Producers, Acquire(p) \/ Release(p)
      PROVE  Located'
  BY <1>0, <1>1, WaitingKept, QuietLocated
     DEF Acquire, Release, readerVars, TypeOK
<1>2. ASSUME NEW p \in Producers, CopyBegin(p) \/ CopyEnd(p) \/ Msgsnd(p)
      PROVE  Located'
  BY <1>0, <1>2, CopyBeginLocated, CopyEndLocated, MsgsndLocated
<1>3. CASE Receive
  BY <1>0, <1>3, WaitingReceive, QuietLocated DEF Receive, senderVars
<1>4. CASE ReadLength \/ TransmitBegin \/ UNCHANGED vars
  BY <1>0, <1>4, WaitingKept, QuietLocated
     DEF ReadLength, TransmitBegin, vars, senderVars
<1>5. CASE TransmitEnd
  BY <1>0, <1>5, WaitingTransmit, QuietLocated DEF TransmitEnd, senderVars
<1>6. CASE Restart
  BY <1>0, <1>6, RestartLocated
<1>. QED
  BY <1>1, <1>2, <1>3, <1>4, <1>5, <1>6 DEF Next, Sender, Reader

LEMMA InductiveInvariant == Spec => []IInv
<1>1. Init => IInv
  BY TypeInit DEF Init, IInv, NumberInv, MineInv, PlaceInv, Waiting,
                  Outstanding, Building
<1>2. IInv /\ [Next]_vars => IInv'
  BY TypeStep, LocatedStep DEF IInv, Located
<1>. QED
  BY <1>1, <1>2, PTL DEF Spec

\* A frame that waits is whole in its slot until the ring has been lapped.
THEOREM FramesIntact == Spec => []SlotIntact
<1>1. IInv => SlotIntact
  BY DEF IInv, PlaceInv, SlotIntact
<1>. QED
  BY <1>1, InductiveInvariant, PTL

-----------------------------------------------------------------------------
(* The order of the queue, and how far it can fall behind                  *)

\* Messages put in the queue so far.
Sent == IF Building THEN begun - 1 ELSE begun

\* The queue holds the last messages sent, without a gap, and the message in
\* hand is the one before them.
CountInv ==
  /\ Len(queue) <= QCap
  /\ \A i \in 1 .. Len(queue) :
       queue[i].num >= base => queue[i].num = Sent - (Len(queue) - i + 1)
  /\ held # NoMsg =>
       (held.num >= base => held.num = Sent - Len(queue) - 1)

LEMMA QueuedWait ==
  ASSUME TypeOK
  PROVE  /\ \A i \in 1 .. Len(queue) : queue[i] \in Waiting
         /\ held # NoMsg => held \in Waiting
         /\ \A m \in Waiting : (m = held /\ held # NoMsg)
                               \/ \E i \in 1 .. Len(queue) : m = queue[i]
  BY DEF Waiting

\* A step that leaves queue, held and the messages sent alone.
LEMMA QueueKept ==
  ASSUME QueueOrdered, CountInv, UNCHANGED <<queue, held, base>>, Sent' = Sent
  PROVE  QueueOrdered' /\ CountInv'
  BY DEF QueueOrdered, CountInv

LEMMA QueueStep ==
  ASSUME IInv, QueueOrdered, CountInv, [Next]_vars
  PROVE  QueueOrdered' /\ CountInv'
<1>1. /\ TypeOK /\ LockInv /\ ReaderInv /\ NumberInv /\ MineInv
      /\ begun \in Nat /\ base \in Nat /\ queue \in Seq(Message)
  BY DEF IInv, TypeOK
<1>2. /\ \A i \in 1 .. Len(queue) : queue[i].num \in Nat
      /\ held # NoMsg => held.num \in Nat
  <2>1. \A i \in 1 .. Len(queue) : queue[i] \in Message
    BY <1>1
  <2>. QED
    BY <1>1, <2>1 DEF TypeOK, Message
<1>3. ASSUME NEW p \in Producers, Acquire(p) \/ Release(p)
      PROVE  QueueOrdered' /\ CountInv'
  <2>1. Building' = Building
    BY <1>1, <1>3 DEF Acquire, Release, Building, TypeOK
  <2>. QED
    BY <1>3, <2>1, QueueKept DEF Acquire, Release, readerVars, Sent
<1>4. ASSUME NEW p \in Producers, CopyBegin(p)
      PROVE  QueueOrdered' /\ CountInv'
  <2>1. ~Building /\ Building'
    BY <1>1, <1>4, Alone DEF CopyBegin, Building, TypeOK
  <2>. QED
    BY <1>1, <1>4, <2>1, QueueKept DEF CopyBegin, readerVars, Sent
<1>5. ASSUME NEW p \in Producers, CopyEnd(p)
      PROVE  QueueOrdered' /\ CountInv'
  <2>1. Building /\ Building'
    BY <1>1, <1>5 DEF CopyEnd, Building, TypeOK
  <2>. QED
    BY <1>5, <2>1, QueueKept DEF CopyEnd, readerVars, Sent
<1>6. ASSUME NEW p \in Producers, Msgsnd(p)
      PROVE  QueueOrdered' /\ CountInv'
  <2>1. Building /\ ~Building'
    BY <1>1, <1>6, Alone DEF Msgsnd, Building, TypeOK
  <2>2. Sent = begun - 1 /\ Sent' = begun /\ mine[p].num = begun - 1
    BY <1>1, <1>6, <2>1 DEF Msgsnd, Sent, MineInv
  <2>3. /\ Len(queue') = Len(queue) + 1
        /\ \A i \in 1 .. Len(queue) : queue'[i] = queue[i]
        /\ queue'[Len(queue) + 1] = mine[p]
        /\ held' = held /\ base' = base
    BY <1>1, <1>6 DEF Msgsnd, TypeOK, readerVars
  <2>4. /\ \A i \in 1 .. Len(queue) : queue[i].num < begun - 1
        /\ held # NoMsg => held.num < begun - 1
    BY <1>1, <2>1, QueuedWait DEF NumberInv
  <2>5. QueueOrdered'
    <3>1. ASSUME NEW i \in 1 .. Len(queue'), NEW j \in 1 .. Len(queue'), i < j
          PROVE  queue'[i].num < queue'[j].num
      <4>1. Len(queue) \in Nat /\ i \in 1 .. Len(queue)
        BY <1>1, <2>3, <3>1
      <4>2. CASE j \in 1 .. Len(queue)
        BY <2>3, <3>1, <4>1, <4>2 DEF QueueOrdered
      <4>3. CASE j = Len(queue) + 1
        BY <2>2, <2>3, <2>4, <4>1, <4>3
      <4>. QED
        BY <2>3, <4>1, <4>2, <4>3
    <3>2. ASSUME NEW i \in 1 .. Len(queue'), held # NoMsg
          PROVE  held.num < queue'[i].num
      <4>1. CASE i \in 1 .. Len(queue)
        BY <2>3, <3>2, <4>1 DEF QueueOrdered
      <4>2. CASE i = Len(queue) + 1
        BY <2>2, <2>3, <2>4, <3>2, <4>2
      <4>. QED
        BY <1>1, <2>3, <4>1, <4>2
    <3>. QED
      BY <2>3, <3>1, <3>2 DEF QueueOrdered
  <2>6. CountInv'
    <3>1. ASSUME NEW i \in 1 .. Len(queue'), queue'[i].num >= base
          PROVE  queue'[i].num = begun - (Len(queue') - i + 1)
      <4>1. CASE i \in 1 .. Len(queue)
        <5>1. queue[i].num = Sent - (Len(queue) - i + 1)
          BY <2>3, <3>1, <4>1 DEF CountInv
        <5>. QED
          BY <1>1, <2>2, <2>3, <4>1, <5>1
      <4>2. CASE i = Len(queue) + 1
        BY <1>1, <2>2, <2>3, <4>2
      <4>. QED
        BY <1>1, <2>3, <4>1, <4>2
    <3>2. held # NoMsg /\ held.num >= base
            => held.num = begun - Len(queue') - 1
      BY <1>1, <1>2, <2>2, <2>3 DEF CountInv
    <3>3. Len(queue') <= QCap
      BY <1>1, <1>6, <2>3, QCapAssumption DEF Msgsnd
    <3>. QED
      BY <2>2, <2>3, <3>1, <3>2, <3>3 DEF CountInv
  <2>. QED
    BY <2>5, <2>6
<1>7. CASE Receive
  <2>1. /\ held' = queue[1] /\ Len(queue) \in Nat \ {0}
        /\ Len(queue') = Len(queue) - 1
        /\ \A i \in 1 .. Len(queue) - 1 : queue'[i] = queue[i + 1]
        /\ base' = base
    BY <1>1, <1>7 DEF Receive
  <2>2. Sent' = Sent
    BY <1>7 DEF Receive, senderVars, Sent, Building
  <2>3. Sent \in Int
    BY <1>1 DEF Sent
  <2>4. QueueOrdered'
    <3>1. ASSUME NEW i \in 1 .. Len(queue'), NEW j \in 1 .. Len(queue'), i < j
          PROVE  queue'[i].num < queue'[j].num
      <4>1. /\ i + 1 \in 1 .. Len(queue) /\ j + 1 \in 1 .. Len(queue)
            /\ i + 1 < j + 1
        BY <2>1, <3>1
      <4>2. queue[i + 1].num < queue[j + 1].num
        BY <4>1 DEF QueueOrdered
      <4>3. queue'[i] = queue[i + 1] /\ queue'[j] = queue[j + 1]
        BY <2>1
      <4>. QED
        BY <4>2, <4>3
    <3>2. ASSUME NEW i \in 1 .. Len(queue')
          PROVE  held'.num < queue'[i].num
      <4>1. 1 \in 1 .. Len(queue) /\ i + 1 \in 1 .. Len(queue) /\ 1 < i + 1
        BY <2>1
      <4>2. queue[1].num < queue[i + 1].num
        BY <4>1 DEF QueueOrdered
      <4>3. queue'[i] = queue[i + 1]
        BY <2>1
      <4>. QED
        BY <2>1, <4>2, <4>3
    <3>. QED
      BY <3>1, <3>2 DEF QueueOrdered
  <2>5. CountInv'
    <3>1. ASSUME NEW i \in 1 .. Len(queue'), queue'[i].num >= base
          PROVE  queue'[i].num = Sent - (Len(queue') - i + 1)
      <4>1. i + 1 \in 1 .. Len(queue) /\ queue'[i] = queue[i + 1]
        BY <2>1
      <4>2. queue[i + 1].num = Sent - (Len(queue) - (i + 1) + 1)
        BY <3>1, <4>1 DEF CountInv
      <4>. QED
        BY <2>1, <2>3, <4>1, <4>2
    <3>2. held'.num >= base => held'.num = Sent - Len(queue') - 1
      <4>1. 1 \in 1 .. Len(queue)
        BY <2>1
      <4>2. held'.num >= base => held'.num = Sent - (Len(queue) - 1 + 1)
        BY <2>1, <4>1 DEF CountInv
      <4>. QED
        BY <2>1, <2>3, <4>2
    <3>3. Len(queue') <= QCap
      BY <2>1, QCapAssumption DEF CountInv
    <3>. QED
      BY <2>1, <2>2, <3>1, <3>2, <3>3 DEF CountInv
  <2>. QED
    BY <2>4, <2>5
<1>8. CASE ReadLength \/ TransmitBegin \/ UNCHANGED vars
  BY <1>8, QueueKept
     DEF ReadLength, TransmitBegin, vars, senderVars, Sent, Building
<1>9. CASE TransmitEnd
  BY <1>9 DEF TransmitEnd, senderVars, Sent, Building, QueueOrdered, CountInv
<1>10. CASE Restart
  <2>1. \A i \in 1 .. Len(queue) : ~(queue[i].num >= begun)
    BY <1>1, <1>2, QueuedWait DEF NumberInv
  <2>. QED
    BY <1>10, <2>1 DEF Restart, QueueOrdered, CountInv
<1>. QED
  BY <1>3, <1>4, <1>5, <1>6, <1>7, <1>8, <1>9, <1>10 DEF Next, Sender, Reader

LEMMA QueueInvariant == Spec => [](IInv /\ QueueOrdered /\ CountInv)
<1>1. Init => QueueOrdered /\ CountInv
  BY QCapAssumption DEF Init, QueueOrdered, CountInv
<1>. QED
  BY <1>1, QueueStep, InductiveInvariant, PTL DEF Spec

\* The radio is given frames in the order in which their copies were begun.
THEOREM OrderKept == Spec => []QueueOrdered
  BY QueueInvariant, PTL

\* A backlog two messages shorter than the ring loses no frame.
LEMMA ShortQueue ==
  ASSUME IInv, CountInv, Len(queue) + 2 <= Slots, NEW m \in Outstanding
  PROVE  begun <= m.num + Slots
<1>1. /\ begun \in Nat /\ base \in Nat /\ queue \in Seq(Message)
      /\ m \in Waiting /\ m.num \in Nat /\ m.num >= base
  BY WaitingMessages DEF IInv, TypeOK, Outstanding, Message
<1>2. begun <= Sent + 1 /\ Sent \in Int
  BY <1>1 DEF Sent
<1>3. m.num >= Sent - Len(queue) - 1
  BY <1>1, <1>2, QueuedWait DEF CountInv, IInv
<1>. QED
  BY <1>1, <1>2, <1>3, SlotsAssumption

\* While the backlog is no longer than the ring every frame that waits is
\* whole, whatever the queue could hold and whatever it has held (lora.c:40-44).
THEOREM NothingOverrun == Spec => []NoOverrun
<1>1. IInv /\ CountInv => NoOverrun
  BY ShortQueue DEF IInv, PlaceInv, NoOverrun
<1>. QED
  BY <1>1, QueueInvariant, PTL

-----------------------------------------------------------------------------
(* What goes to the air                                                    *)

\* No slot and no copy in progress holds a frame of an earlier process.
FreshInv ==
  /\ \A i \in SlotIndex : slot[i] \in Nat => slot[i] >= base
  /\ seen \in Nat => seen >= base

LEMMA FreshStep ==
  ASSUME IInv, FreshInv, [Next]_vars
  PROVE  FreshInv'
<1>. USE MarksAssumption
<1>1. TypeOK /\ MineInv
  BY DEF IInv
<1>2. ASSUME NEW p \in Producers, Acquire(p) \/ Msgsnd(p) \/ Release(p)
      PROVE  FreshInv'
  BY <1>2 DEF Acquire, Msgsnd, Release, FreshInv, readerVars
<1>3. ASSUME NEW p \in Producers, CopyBegin(p)
      PROVE  FreshInv'
  BY <1>1, <1>3 DEF CopyBegin, FreshInv, readerVars, TypeOK
<1>4. ASSUME NEW p \in Producers, CopyEnd(p)
      PROVE  FreshInv'
  <2>1. mine[p].num >= base
    BY <1>1, <1>4 DEF CopyEnd, MineInv, TypeOK
  <2>. QED
    BY <1>1, <1>4, <2>1 DEF CopyEnd, FreshInv, readerVars, TypeOK
<1>5. CASE Receive \/ ReadLength \/ TransmitEnd \/ UNCHANGED vars
  BY <1>5 DEF Receive, ReadLength, TransmitEnd, vars, senderVars, FreshInv
<1>6. CASE TransmitBegin
  <2>1. held \in Message
    BY <1>6 DEF TransmitBegin, IInv, TypeOK, ReaderInv
  <2>. QED
    BY <1>6, <2>1 DEF TransmitBegin, senderVars, FreshInv, Message
<1>7. CASE Restart
  BY <1>7 DEF Restart, FreshInv
<1>. QED
  BY <1>2, <1>3, <1>4, <1>5, <1>6, <1>7 DEF Next, Sender, Reader

\* Nothing that a process was asked to send goes to the air after a restart.
THEOREM NothingReplayed == Spec => NoReplay
<1>1. Init => FreshInv
  BY MarksAssumption DEF Init, FreshInv
<1>2. IInv /\ FreshInv /\ [Next]_vars
        => [LET last == air'[Len(air')]
            IN  air' # air /\ last \in Nat => last >= base]_vars
  <2>. SUFFICES ASSUME IInv, FreshInv, Next, air' # air,
                       air'[Len(air')] \in Nat
                PROVE  air'[Len(air')] >= base
    OBVIOUS
  <2>1. TransmitEnd
    BY DEF Next, Sender, Reader, Acquire, CopyBegin, CopyEnd, Msgsnd, Release,
           Receive, ReadLength, TransmitBegin, Restart, readerVars
  <2>2. air'[Len(air')] = Copied
    BY <2>1 DEF TransmitEnd, IInv, TypeOK
  <2>. QED
    BY <2>2, MarksAssumption DEF Copied, FreshInv
<1>. QED
  BY <1>1, <1>2, FreshStep, InductiveInvariant, PTL DEF Spec, NoReplay

\* The reader's view of a message whose slot has not been used again.
Unlapped == held \in Outstanding /\ begun <= held.num + Slots

ViewInv ==
  Unlapped =>
    /\ rpc \in {"wait", "copy"} => size = "frame"
    /\ rpc = "copy" => seen = held.num

LEMMA ViewStep ==
  ASSUME IInv, ViewInv, [Next]_vars
  PROVE  ViewInv'
<1>1. /\ TypeOK /\ begun \in Nat /\ held \in Message \cup {NoMsg}
      /\ held \in Outstanding => held # NoMsg /\ held.num \in Nat
    <2>1. TypeOK /\ begun \in Nat /\ held \in Message \cup {NoMsg}
      BY DEF IInv, TypeOK
    <2>2. Outstanding \subseteq Message
      BY <2>1, WaitingMessages DEF Outstanding
    <2>. QED
      BY <2>1, <2>2, NoMsgAssumption DEF Message, SlotIndex
<1>2. held # NoMsg => (held \in Outstanding <=> held.num >= base)
  BY DEF Outstanding, Waiting
<1>3. ASSUME NEW p \in Producers, Sender(p)
      PROVE  ViewInv'
  <2>1. UNCHANGED <<readerVars, base>> /\ (begun' = begun \/ begun' = begun + 1)
    BY <1>3 DEF Sender, Acquire, CopyBegin, CopyEnd, Msgsnd, Release
  <2>2. rpc # "idle" /\ held' \in Outstanding' => held \in Outstanding
    BY <1>2, <2>1 DEF Outstanding, readerVars, IInv, ReaderInv
  <2>. QED
    BY <1>1, <2>1, <2>2, SlotsAssumption DEF ViewInv, Unlapped, readerVars
<1>4. CASE Receive
  BY <1>4 DEF Receive, ViewInv
<1>5. CASE ReadLength
  <2>1. Outstanding' = Outstanding /\ UNCHANGED <<held, begun, slot>>
    BY <1>5, WaitingKept DEF ReadLength, Outstanding, senderVars
  <2>2. Unlapped => slot[held.ptr] = held.num
    BY DEF IInv, PlaceInv, Unlapped
  <2>3. Unlapped => slot[held.ptr] # Blank /\ slot[held.ptr] # Torn
    BY <1>1, <2>2, MarksAssumption DEF Unlapped
  <2>. QED
    BY <1>5, <2>1, <2>3 DEF ReadLength, ViewInv, Unlapped
<1>6. CASE TransmitBegin
  <2>1. Outstanding' = Outstanding /\ UNCHANGED <<held, begun, slot, size>>
    BY <1>6, WaitingKept DEF TransmitBegin, Outstanding, senderVars
  <2>2. Unlapped => slot[held.ptr] = held.num
    BY DEF IInv, PlaceInv, Unlapped
  <2>. QED
    BY <1>6, <2>1, <2>2 DEF TransmitBegin, ViewInv, Unlapped
<1>7. CASE TransmitEnd \/ Restart
  BY <1>7 DEF TransmitEnd, Restart, ViewInv
<1>8. CASE UNCHANGED vars
  <2>1. Outstanding' = Outstanding
    BY <1>8, WaitingKept DEF vars, Outstanding
  <2>. QED
    BY <1>8, <2>1 DEF vars, ViewInv, Unlapped
<1>. QED
  BY <1>3, <1>4, <1>5, <1>6, <1>7, <1>8 DEF Next, Reader

LEMMA ViewInvariant == Spec => []ViewInv
<1>1. Init => ViewInv
  BY DEF Init, ViewInv
<1>. QED
  BY <1>1, ViewStep, InductiveInvariant, PTL DEF Spec

LEMMA ExactCopy ==
  ASSUME IInv, ViewInv, TransmitEnd, Unlapped
  PROVE  Copied = held.num
<1>1. slot[held.ptr] = held.num /\ size = "frame" /\ seen = held.num
  BY DEF IInv, PlaceInv, ViewInv, Unlapped, TransmitEnd
<1>. QED
  BY <1>1 DEF Copied

\* The radio is given the frame that was accepted, byte for byte, unless the
\* ring has been lapped in the meantime.
THEOREM TransmissionsExact == Spec => ExactTransmission
<1>1. IInv /\ ViewInv
        => (TransmitEnd /\ held \in Outstanding /\ begun <= held.num + Slots
              => air' = Append(air, held.num))
  BY ExactCopy DEF Unlapped, TransmitEnd
<1>. QED
  BY <1>1, InductiveInvariant, ViewInvariant, PTL DEF ExactTransmission

-----------------------------------------------------------------------------
(* While the backlog is short the path is a FIFO of frames                 *)

Numbers == [i \in 1 .. Len(queue) |-> queue[i].num]

BoundInv ==
  /\ begun <= MaxFrames
  /\ \A p \in Producers : pc[p] = "fill" => begun < MaxFrames

LEMMA BoundStep ==
  ASSUME IInv, BoundInv, [Next]_vars
  PROVE  BoundInv'
<1>. USE BoundsAssumption
<1>1. begun \in Nat /\ TypeOK /\ LockInv
  BY DEF IInv, TypeOK
<1>2. ASSUME NEW p \in Producers, CopyBegin(p)
      PROVE  BoundInv'
  BY <1>1, <1>2, Alone DEF CopyBegin, BoundInv, TypeOK
<1>3. ASSUME NEW p \in Producers, Acquire(p)
      PROVE  BoundInv'
  BY <1>1, <1>3 DEF Acquire, BoundInv, TypeOK
<1>4. ASSUME NEW p \in Producers, CopyEnd(p) \/ Msgsnd(p) \/ Release(p)
      PROVE  BoundInv'
  BY <1>1, <1>4 DEF CopyEnd, Msgsnd, Release, BoundInv, TypeOK
<1>5. CASE Reader \/ UNCHANGED vars
  BY <1>5 DEF Reader, Receive, ReadLength, TransmitBegin, TransmitEnd, vars,
              senderVars, BoundInv
<1>6. CASE Restart
  BY <1>6 DEF Restart, BoundInv
<1>. QED
  BY <1>2, <1>3, <1>4, <1>5, <1>6 DEF Next, Sender

LEMMA BoundInvariant == Spec => []BoundInv
<1>1. Init => BoundInv
  BY BoundsAssumption DEF Init, BoundInv
<1>. QED
  BY <1>1, BoundStep, InductiveInvariant, PTL DEF Spec

LEMMA NumbersTyped ==
  ASSUME TypeOK
  PROVE  Numbers \in Seq(Nat) /\ Len(Numbers) = Len(queue)
<1>1. \A i \in 1 .. Len(queue) : queue[i] \in Message
  BY DEF TypeOK
<1>. QED
  BY <1>1 DEF TypeOK, Numbers, Message

LEMMA AcceptStep ==
  ASSUME IInv, BoundInv, NEW p \in Producers, Msgsnd(p)
  PROVE  FIFO!Accept
<1>1. /\ TypeOK /\ queue \in Seq(Message) /\ begun \in Nat
      /\ mine[p].num = begun - 1 /\ begun > 0 /\ mine[p].num \in Nat
  BY DEF IInv, TypeOK, MineInv, Msgsnd, BoundInv, Message
<1>2. mine[p].num \in 0 .. MaxFrames - 1
  BY <1>1, BoundsAssumption DEF BoundInv
<1>3. Numbers \in Seq(Nat) /\ Len(Numbers) = Len(queue)
  BY <1>1, NumbersTyped
<1>4. /\ queue' = Append(queue, mine[p]) /\ Len(queue') = Len(queue) + 1
      /\ \A i \in 1 .. Len(queue) : queue'[i] = queue[i]
      /\ queue'[Len(queue) + 1] = mine[p]
      /\ held' = held /\ air' = air
  BY <1>1 DEF Msgsnd, readerVars
<1>5. Numbers' = Append(Numbers, mine[p].num)
  BY <1>1, <1>3, <1>4 DEF Numbers
<1>6. held # NoMsg => held.num \in Nat
  BY <1>1 DEF TypeOK, Message
<1>7. PendingFrames' = Append(PendingFrames, mine[p].num)
  <2>1. CASE held = NoMsg
    BY <1>1, <1>3, <1>4, <1>5, <2>1 DEF PendingFrames, Numbers
  <2>2. CASE held # NoMsg
    <3>1. <<held.num>> \o Append(Numbers, mine[p].num)
            = Append(<<held.num>> \o Numbers, mine[p].num)
      BY <1>1, <1>3, <1>6, <2>2
    <3>. QED
      BY <1>4, <1>5, <2>2, <3>1 DEF PendingFrames, Numbers
  <2>. QED
    BY <2>1, <2>2
<1>. QED
  BY <1>2, <1>4, <1>7 DEF FIFO!Accept

LEMMA ReceiveStutters ==
  ASSUME IInv, Receive
  PROVE  UNCHANGED <<PendingFrames, air>>
<1>1. /\ TypeOK /\ queue \in Seq(Message) /\ queue # <<>> /\ held = NoMsg
      /\ queue' = Tail(queue) /\ held' = queue[1] /\ air' = air
  BY DEF IInv, TypeOK, ReaderInv, Receive
<1>2. Numbers \in Seq(Nat) /\ Len(Numbers) = Len(queue)
  BY <1>1, NumbersTyped
<1>3. /\ Len(queue') = Len(queue) - 1 /\ Len(queue) \in Nat \ {0}
      /\ \A i \in 1 .. Len(queue) - 1 : queue'[i] = queue[i + 1]
  BY <1>1
<1>4. held' # NoMsg /\ held'.num \in Nat /\ held'.num = Numbers[1]
  <2>1. queue[1] \in Message
    BY <1>1
  <2>. QED
    BY <1>1, <1>3, <2>1, NoMsgAssumption DEF Message, SlotIndex, Numbers
<1>5. Numbers' = Tail(Numbers)
  BY <1>2, <1>3 DEF Numbers
<1>6. <<Numbers[1]>> \o Tail(Numbers) = Numbers
  BY <1>2, <1>3
<1>7. PendingFrames' = Numbers
  BY <1>4, <1>5, <1>6 DEF PendingFrames, Numbers
<1>8. PendingFrames = Numbers
  BY <1>1, <1>2 DEF PendingFrames, Numbers
<1>. QED
  BY <1>1, <1>7, <1>8

LEMMA TransmitStep ==
  ASSUME Len(queue) + 2 <= Slots, held \in Outstanding \cup {NoMsg},
         IInv, CountInv, ViewInv, TransmitEnd
  PROVE  FIFO!Transmit
<1>1. TypeOK /\ held \in Message /\ held # NoMsg
  BY DEF IInv, TypeOK, ReaderInv, TransmitEnd
<1>2. held.num \in Nat
  BY <1>1 DEF Message
<1>3. held \in Outstanding
  BY <1>1
<1>4. air' = Append(air, held.num)
  BY <1>3, ShortQueue, ExactCopy DEF Unlapped, TransmitEnd
<1>5. Numbers \in Seq(Nat)
  BY <1>1, NumbersTyped
<1>6. PendingFrames = <<held.num>> \o Numbers
  BY <1>1 DEF PendingFrames, Numbers
<1>7. PendingFrames' = Numbers
  <2>1. held' = NoMsg /\ queue' = queue
    BY DEF TransmitEnd
  <2>2. PendingFrames' = <<>> \o Numbers
    BY <2>1 DEF PendingFrames, Numbers
  <2>. QED
    BY <1>5, <2>2
<1>8. /\ PendingFrames # <<>> /\ Head(PendingFrames) = held.num
      /\ Tail(PendingFrames) = Numbers
  BY <1>2, <1>5, <1>6
<1>. QED
  BY <1>4, <1>7, <1>8 DEF FIFO!Transmit

\* While the backlog is no longer than the ring, and the message in hand is of
\* this process, every step is one of the FIFO that the callers take the path
\* for, whatever the queue could hold and after any restart (lora.c:39-67).
THEOREM ShortBacklogIsFifo == Spec => FifoWhileShort
<1>1. ASSUME IInv, CountInv, ViewInv, BoundInv, [Next]_vars,
             Len(queue) + 2 <= Slots, held \in Outstanding \cup {NoMsg},
             UNCHANGED restarts
      PROVE  [FIFO!Next]_(FIFO!vars)
  <2>. SUFFICES FIFO!Next \/ UNCHANGED <<PendingFrames, air>>
    BY DEF FIFO!vars
  <2>1. ASSUME NEW p \in Producers, Msgsnd(p)
        PROVE  FIFO!Next
    BY <1>1, <2>1, AcceptStep DEF FIFO!Next
  <2>2. ASSUME NEW p \in Producers,
               Acquire(p) \/ CopyBegin(p) \/ CopyEnd(p) \/ Release(p)
        PROVE  UNCHANGED <<PendingFrames, air>>
    BY <2>2 DEF Acquire, CopyBegin, CopyEnd, Release, readerVars,
                PendingFrames
  <2>3. CASE Receive
    BY <1>1, <2>3, ReceiveStutters
  <2>4. CASE ReadLength \/ TransmitBegin \/ UNCHANGED vars
    BY <2>4 DEF ReadLength, TransmitBegin, vars, PendingFrames
  <2>5. CASE TransmitEnd
    BY <1>1, <2>5, TransmitStep DEF FIFO!Next
  <2>6. ~Restart
    BY <1>1 DEF Restart, IInv, TypeOK
  <2>. QED
    BY <1>1, <2>1, <2>2, <2>3, <2>4, <2>5, <2>6 DEF Next, Sender, Reader
<1>. QED
  BY <1>1, InductiveInvariant, QueueInvariant, ViewInvariant, BoundInvariant,
     PTL DEF Spec, FifoWhileShort
=============================================================================
