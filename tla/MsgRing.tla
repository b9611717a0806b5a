------------------------------ MODULE MsgRing ------------------------------
(***************************************************************************)
(* The downlink path between the threads that send LoRa frames and the     *)
(* radio driver: lora_send and the first half of thread_lora_send          *)
(* (user/lora.c).                                                          *)
(*                                                                         *)
(* A sender (thread_client, thread_alarm) takes lora_send_lock, copies the *)
(* frame into the next slot of the ring lora.msg_send_buf, advances        *)
(* lora.msg_send_cnt, and sends the ADDRESS of the slot through a System V *)
(* message queue.  The slot is never marked busy: it is used again after   *)
(* Slots more calls whether or not it has been transmitted.  msgsnd blocks *)
(* while the queue is full, with the mutex held.                           *)
(*                                                                         *)
(* The queue belongs to the kernel and outlives the process (main.c only   *)
(* ever msgget()s it), so a restarted gateway finds the old addresses in   *)
(* it, and the slots they point at zeroed.                                 *)
(*                                                                         *)
(* Frames are identified by the order in which their copies are begun:     *)
(* frame n is the one of the (n+1)-th call.  That number is a history      *)
(* variable; the code stores only bytes.                                   *)
(***************************************************************************)
EXTENDS Naturals, Sequences

CONSTANTS
  Producers,            \* the threads that call lora_send
  NoOwner,              \* lora_send_lock is free
  Slots,                \* length of msg_send_buf (10 in lora.h)
  QCap,                 \* messages the System V queue holds (msg_qbytes / 4)
  Blank,                \* a zeroed slot
  Torn,                 \* a slot, or a copy, with bytes of two writes
  Runt,                 \* a transmission of one byte of a frame
  NoMsg,                \* thread_lora_send has no message in hand
  MaxFrames,            \* bound: calls of lora_send explored
  MaxRestarts           \* bound: restarts of the process explored

ASSUME SlotsAssumption == Slots \in Nat \ {0}
ASSUME QCapAssumption == QCap \in Nat \ {0}
ASSUME BoundsAssumption == MaxFrames \in Nat /\ MaxRestarts \in Nat
ASSUME OwnerAssumption == NoOwner \notin Producers
ASSUME MarksAssumption ==
  /\ Blank \notin Nat /\ Torn \notin Nat /\ Runt \notin Nat
  /\ Blank # Torn /\ Blank # Runt /\ Torn # Runt
ASSUME NoMsgAssumption == NoMsg \notin [ptr : 0 .. Slots - 1, num : Nat]

VARIABLES
  lock,                 \* the thread that holds lora_send_lock, or NoOwner
  pc,                   \* where each sender is in lora_send
  mine,                 \* the message each sender builds: [ptr, num]
  slot,                 \* lora.msg_send_buf
  cnt,                  \* lora.msg_send_cnt
  queue,                \* the System V queue lora_send_msg
  rpc,                  \* where thread_lora_send is
  held,                 \* the message it has received
  size,                 \* len, read from the slot before the wait (lora.c:58)
  seen,                 \* the slot as it was when the driver began to copy it
  air,                  \* history: what SX1276SetTxPacket was given
  begun,                \* history: copies begun, the number of the next frame
  base,                 \* history: number of the first frame since the restart
  restarts              \* history: restarts so far

senderVars == <<lock, pc, mine, slot, cnt, begun>>
readerVars == <<rpc, held, size, seen, air>>
vars == <<lock, pc, mine, slot, cnt, queue, rpc, held, size, seen, air,
          begun, base, restarts>>

SlotIndex == 0 .. Slots - 1
Message == [ptr : SlotIndex, num : Nat]
Content == Nat \cup {Blank, Torn}

TypeOK ==
  /\ lock \in Producers \cup {NoOwner}
  /\ pc \in [Producers -> {"idle", "fill", "copy", "enqueue", "unlock"}]
  /\ mine \in [Producers -> Message]
  /\ slot \in [SlotIndex -> Content]
  /\ cnt \in SlotIndex
  /\ queue \in Seq(Message)
  /\ rpc \in {"idle", "got", "wait", "copy"}
  /\ held \in Message \cup {NoMsg}
  /\ size \in {"frame", "byte"}
  /\ seen \in Content
  /\ air \in Seq(Content \cup {Runt})
  /\ begun \in Nat
  /\ base \in Nat
  /\ restarts \in Nat

Init ==
  /\ lock = NoOwner
  /\ pc = [p \in Producers |-> "idle"]
  /\ mine = [p \in Producers |-> [ptr |-> 0, num |-> 0]]
  /\ slot = [i \in SlotIndex |-> Blank]
  /\ cnt = 0
  /\ queue = <<>>
  /\ rpc = "idle"
  /\ held = NoMsg
  /\ size = "frame"
  /\ seen = Blank
  /\ air = <<>>
  /\ begun = 0
  /\ base = 0
  /\ restarts = 0

-----------------------------------------------------------------------------
(* lora_send, called with lora_send_lock held                              *)

\* Mutant: a caller that forgets the mutex.
AcquireUnlocked(p) ==
  /\ pc[p] = "idle"
  /\ begun < MaxFrames
  /\ lock' = p
  /\ pc' = [pc EXCEPT ![p] = "fill"]
  /\ UNCHANGED <<mine, slot, cnt, queue, readerVars, begun, base, restarts>>

\* pthread_mutex_lock(&lora_send_lock) in the caller; lora_send builds buf.
Acquire(p) ==
  /\ pc[p] = "idle"
  /\ lock = NoOwner
  /\ begun < MaxFrames
  /\ lock' = p
  /\ pc' = [pc EXCEPT ![p] = "fill"]
  /\ UNCHANGED <<mine, slot, cnt, queue, readerVars, begun, base, restarts>>

\* The address is taken and memcpy starts: the slot is neither the old nor
\* the new frame.
CopyBegin(p) ==
  /\ pc[p] = "fill"
  /\ mine' = [mine EXCEPT ![p] = [ptr |-> cnt, num |-> begun]]
  /\ slot' = [slot EXCEPT ![cnt] = Torn]
  /\ begun' = begun + 1
  /\ pc' = [pc EXCEPT ![p] = "copy"]
  /\ UNCHANGED <<lock, cnt, queue, readerVars, base, restarts>>

\* Mutant: the ring is one slot shorter than the array.
CopyEndShortRing(p) ==
  /\ pc[p] = "copy"
  /\ slot' = [slot EXCEPT ![mine[p].ptr] = mine[p].num]
  /\ cnt' = (cnt + 1) % (Slots - 1)
  /\ pc' = [pc EXCEPT ![p] = "enqueue"]
  /\ UNCHANGED <<lock, mine, queue, readerVars, begun, base, restarts>>

\* memcpy ends and msg_send_cnt advances.
CopyEnd(p) ==
  /\ pc[p] = "copy"
  /\ slot' = [slot EXCEPT ![mine[p].ptr] = mine[p].num]
  /\ cnt' = (cnt + 1) % Slots
  /\ pc' = [pc EXCEPT ![p] = "enqueue"]
  /\ UNCHANGED <<lock, mine, queue, readerVars, begun, base, restarts>>

\* msgsnd without IPC_NOWAIT: it waits for room in the queue.
Msgsnd(p) ==
  /\ pc[p] = "enqueue"
  /\ Len(queue) < QCap
  /\ queue' = Append(queue, mine[p])
  /\ pc' = [pc EXCEPT ![p] = "unlock"]
  /\ UNCHANGED <<lock, mine, slot, cnt, readerVars, begun, base, restarts>>

Release(p) ==
  /\ pc[p] = "unlock"
  /\ lock' = NoOwner
  /\ pc' = [pc EXCEPT ![p] = "idle"]
  /\ UNCHANGED <<mine, slot, cnt, queue, readerVars, begun, base, restarts>>

-----------------------------------------------------------------------------
(* thread_lora_send                                                        *)

\* Mutant: the reader takes the senders' mutex before it looks at the queue.
ReceiveLocked ==
  /\ rpc = "idle"
  /\ lock = NoOwner
  /\ queue # <<>>
  /\ held' = Head(queue)
  /\ queue' = Tail(queue)
  /\ rpc' = "got"
  /\ UNCHANGED <<senderVars, size, seen, air, base, restarts>>

\* msgrcv with IPC_NOWAIT found a message.
Receive ==
  /\ rpc = "idle"
  /\ queue # <<>>
  /\ held' = Head(queue)
  /\ queue' = Tail(queue)
  /\ rpc' = "got"
  /\ UNCHANGED <<senderVars, size, seen, air, base, restarts>>

\* len = buf[1] + 1: seven for a frame, one for a zeroed slot, either for a
\* slot that is being written.
ReadLength ==
  /\ rpc = "got"
  /\ \/ /\ slot[held.ptr] # Blank
        /\ size' = "frame"
     \/ /\ slot[held.ptr] \in {Blank, Torn}
        /\ size' = "byte"
  /\ rpc' = "wait"
  /\ UNCHANGED <<senderVars, queue, held, seen, air, base, restarts>>

\* The radio has become idle and SX1276SetTxPacket begins to copy.  How long
\* the wait takes is up to the driver.
TransmitBegin ==
  /\ rpc = "wait"
  /\ seen' = slot[held.ptr]
  /\ rpc' = "copy"
  /\ UNCHANGED <<senderVars, queue, held, size, air, base, restarts>>

\* What the radio gets: the slot, if nothing wrote to it during the copy.
Copied ==
  IF size = "byte" THEN Runt
  ELSE IF slot[held.ptr] = seen THEN seen
  ELSE Torn

TransmitEnd ==
  /\ rpc = "copy"
  /\ air' = Append(air, Copied)
  /\ held' = NoMsg
  /\ rpc' = "idle"
  /\ UNCHANGED <<senderVars, queue, size, seen, base, restarts>>

-----------------------------------------------------------------------------
(* The process dies and is started again; the kernel keeps the queue.      *)

\* Mutant: the ring survives the process, as the queue does.
RestartKeepsRing ==
  /\ restarts < MaxRestarts
  /\ lock' = NoOwner
  /\ pc' = [p \in Producers |-> "idle"]
  /\ rpc' = "idle"
  /\ held' = NoMsg
  /\ base' = begun
  /\ restarts' = restarts + 1
  /\ UNCHANGED <<mine, slot, cnt, queue, size, seen, air, begun>>

Restart ==
  /\ restarts < MaxRestarts
  /\ lock' = NoOwner
  /\ pc' = [p \in Producers |-> "idle"]
  /\ mine' = [p \in Producers |-> [ptr |-> 0, num |-> 0]]
  /\ slot' = [i \in SlotIndex |-> Blank]
  /\ cnt' = 0
  /\ rpc' = "idle"
  /\ held' = NoMsg
  /\ size' = "frame"
  /\ seen' = Blank
  /\ base' = begun
  /\ restarts' = restarts + 1
  /\ UNCHANGED <<queue, air, begun>>

Sender(p) ==
  \/ Acquire(p) \/ CopyBegin(p) \/ CopyEnd(p) \/ Msgsnd(p) \/ Release(p)

Reader == Receive \/ ReadLength \/ TransmitBegin \/ TransmitEnd

Next == (\E p \in Producers : Sender(p)) \/ Reader \/ Restart

Spec == Init /\ [][Next]_vars

\* A thread that can run does run.  A sender need not call lora_send again,
\* and pthread mutexes promise no turn to a thread that waits, so Acquire is
\* not fair.  Fairness of TransmitBegin says that the radio comes back to
\* RX_RUNNING again and again, which is what RFDriver is about.
Fairness ==
  /\ \A p \in Producers :
       /\ WF_vars(CopyBegin(p)) /\ WF_vars(CopyEnd(p))
       /\ WF_vars(Msgsnd(p)) /\ WF_vars(Release(p))
  /\ WF_vars(Receive) /\ WF_vars(ReadLength)
  /\ WF_vars(TransmitBegin) /\ WF_vars(TransmitEnd)

LiveSpec == Spec /\ Fairness

-----------------------------------------------------------------------------
(* Properties                                                              *)

\* A message that still has to be transmitted and was sent by this process.
Waiting == {queue[i] : i \in 1 .. Len(queue)}
             \cup (IF held = NoMsg THEN {} ELSE {held})
Outstanding == {m \in Waiting : m.num >= base}

\* A frame that waits to be transmitted is still whole in its slot until
\* Slots more copies have begun, however long the queue is and whatever the
\* other threads do (lora.c:40-44).
SlotIntact ==
  \A m \in Outstanding : begun <= m.num + Slots => slot[m.ptr] = m.num

\* The radio is given frames in the order of the calls: the queue is sorted
\* by call, with the message in hand before all of it (lora.c:39-44, 53).
QueueOrdered ==
  /\ \A i, j \in 1 .. Len(queue) : i < j => queue[i].num < queue[j].num
  /\ held # NoMsg => \A i \in 1 .. Len(queue) : held.num < queue[i].num

\* While what waits in the queue, with the message in hand and the one being
\* built, is no longer than the ring, every frame that waits is whole, however
\* long the queue has been before and whatever a restart has left in it
\* (lora.c:40-44).
NoOverrun ==
  Len(queue) + 2 <= Slots => \A m \in Outstanding : slot[m.ptr] = m.num

\* After a restart nothing that an earlier process was asked to send goes to
\* the air again: the addresses are still in the queue, the frames are not
\* (main.c:57-67).
NoReplay ==
  [][LET last == air'[Len(air')]
     IN  air' # air /\ last \in Nat => last >= base]_vars

\* What is copied for the radio while the ring has not been lapped since
\* that message was received is exactly its frame: never a mixture, never a
\* part of it, never a later one (lora.c:56-67).
ExactTransmission ==
  [][(TransmitEnd /\ held \in Outstanding /\ begun <= held.num + Slots)
        => air' = Append(air, held.num)]_vars

\* A caller blocked in msgsnd on a full queue, with the mutex held, gets out
\* of lora_send: the reader never needs the mutex (lora.c:44).
SendReturns ==
  \A p \in Producers : (lock = p) ~> (lock # p)

\* The messages as the frames FrameFifo speaks of.
PendingFrames ==
  (IF held = NoMsg THEN <<>> ELSE <<held.num>>)
    \o [i \in 1 .. Len(queue) |-> queue[i].num]

FIFO ==
  INSTANCE FrameFifo WITH Frame <- 0 .. MaxFrames - 1, pending <- PendingFrames

\* Without a restart and with a queue shorter than the ring the path is a
\* FIFO of frames.
ImplementsFifo == FIFO!Spec

\* Every step but a restart is one of the FIFO, or none of its business, as
\* long as the backlog is no longer than the ring and the message in hand is
\* one of this process, whatever the queue could hold and whatever happened
\* before (lora.c:39-67).
FifoWhileShort ==
  [][Len(queue) + 2 <= Slots /\ held \in Outstanding \cup {NoMsg}
       /\ UNCHANGED restarts
         => [FIFO!Next]_(FIFO!vars)]_vars

\* ... and it loses none.
ImplementsFifoLive == FIFO!LiveSpec
=============================================================================
