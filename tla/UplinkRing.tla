----------------------------- MODULE UplinkRing -----------------------------
(***************************************************************************)
(* The uplink path between the radio driver and the mailboxes: what        *)
(* thread_lora does with a packet and how thread_lora_recv reads it        *)
(* (user/lora.c).                                                          *)
(*                                                                         *)
(* A packet that passes the test is copied into the next slot of           *)
(* lora.msg_buf, and the ADDRESS of the slot is sent through a System V    *)
(* queue.  thread_lora_recv takes length, descriptor and command from the  *)
(* slot and then copies it to each mailbox; nothing tells thread_lora that *)
(* a slot is in use.  The queue outlives the process, the ring does not.   *)
(* Which mailboxes a frame goes to, and lora_lock, are Dispatch's; here    *)
(* waiting for the lock is one of the delays between two steps.            *)
(*                                                                         *)
(* The test looks at the number of bytes and at the last of them, and only *)
(* the bytes received are copied.  A packet with fewer bytes than its own  *)
(* length byte says, or than the five that hold length, descriptor and     *)
(* command, leaves older bytes in the slot that are then read as its own;  *)
(* one whose length byte is above 63 is read on into the slots behind it.  *)
(* A packet without a byte makes the test read rx_buf[-1] and the 65535    *)
(* bytes from rx_buf on: it passes, or fails, or the process dies. Passed, *)
(* it copies nothing, and its message points at what the slot still held.  *)
(*                                                                         *)
(* Packets are identified by the order in which they pass the test.  What  *)
(* a slot holds, and what is read of it, is the set of the packets whose   *)
(* bytes there may be among it.                                            *)
(***************************************************************************)
EXTENDS Integers, Sequences

CONSTANTS
  Slots,                \* length of msg_buf (10 in lora.h)
  QCap,                 \* messages the System V queue holds
  Blank,                \* bytes that no packet of this process brought
  NoMsg,                \* thread_lora_recv has no message in hand
  Boxes,                \* mailboxes in the list
  MaxPackets,           \* bound: packets that pass the test
  MaxRestarts           \* bound: restarts of the process

ASSUME SlotsAssumption == Slots \in Nat \ {0}
ASSUME QCapAssumption == QCap \in Nat \ {0}
ASSUME BoundsAssumption ==
  Boxes \in Nat /\ MaxPackets \in Nat /\ MaxRestarts \in Nat
ASSUME BlankAssumption == Blank \notin Nat
ASSUME NoMsgAssumption == NoMsg \notin [ptr : 0 .. Slots - 1, num : Nat]

VARIABLES
  pc,                   \* where thread_lora is
  mine,                 \* the message it builds
  slot,                 \* lora.msg_buf
  cnt,                  \* lora.msg_cnt
  queue,                \* the System V queue lora_recv_msg
  dpc,                  \* where thread_lora_recv is
  held,                 \* the message it has received
  head,                 \* what len, fd and cmd were read from
  todo,                 \* mailboxes that it still has to fill
  seen,                 \* what the memcpy to a mailbox has read
  begun,                \* history: packets that passed
  base,                 \* history: number of the first since the restart
  short,                \* the packets that leave older bytes to be read
  long,                 \* those of them with a length byte above 63
  handed,               \* history: what the last mailbox was given, for which
                        \* packet, and how many had passed after that one
  restarts              \* history: restarts so far

loraVars == <<pc, mine, slot, cnt, begun, short, long>>
recvVars == <<dpc, held, head, todo, seen, handed>>
vars == <<loraVars, queue, recvVars, base, restarts>>

SlotIndex == 0 .. Slots - 1
Message == [ptr : SlotIndex, num : Nat]
Content == SUBSET (Nat \cup {Blank})

TypeOK ==
  /\ pc \in {"poll", "copy", "send"}
  /\ mine \in Message
  /\ slot \in [SlotIndex -> Content]
  /\ cnt \in SlotIndex
  /\ queue \in Seq(Message)
  /\ dpc \in {"idle", "got", "give", "copy"}
  /\ held \in Message \cup {NoMsg}
  /\ dpc # "idle" => held # NoMsg
  /\ head \in Content /\ seen \in Content
  /\ todo \in Nat /\ (dpc = "copy" => todo > 0)
  /\ begun \in Nat /\ base \in Nat /\ restarts \in Nat
  /\ short \subseteq Nat /\ long \subseteq short
  /\ handed \subseteq [msg : Nat, what : Content, later : Int]

Init ==
  /\ pc = "poll" /\ mine = [ptr |-> 0, num |-> 0]
  /\ slot = [i \in SlotIndex |-> {Blank}]
  /\ cnt = 0
  /\ queue = <<>>
  /\ dpc = "idle" /\ held = NoMsg /\ head = {} /\ todo = 0 /\ seen = {}
  /\ begun = 0 /\ base = 0 /\ restarts = 0
  /\ short = {} /\ long = {} /\ handed = {}

-----------------------------------------------------------------------------
(* thread_lora, after SX1276GetRxPacket                                    *)

Pass ==
  /\ pc = "poll"
  /\ begun < MaxPackets
  /\ begun' = begun + 1
  /\ mine' = [ptr |-> cnt, num |-> begun]

\* The slots that a memcpy to a mailbox reads: its length was taken from head,
\* and 255 bytes reach over three more slots of 64.
Span == held.ptr .. held.ptr + IF head \cap long = {} THEN 0 ELSE 3

\* The packet is shorter than 20 bytes and its checksum right: memcpy to the
\* slot starts.  Other packets are dropped.
Packet ==
  /\ Pass
  /\ \/ UNCHANGED <<short, long>>
     \/ short' = short \cup {begun} /\ long' \in {long, long \cup {begun}}
  /\ slot' = [slot EXCEPT ![cnt] = @ \cup {begun}]
  /\ seen' = IF dpc = "copy" /\ cnt \in Span THEN seen \cup {begun} ELSE seen
  /\ pc' = "copy"
  /\ UNCHANGED <<cnt, queue, dpc, held, head, todo, handed, base, restarts>>

\* What the slot holds when memcpy has ended.
Filled ==
  [slot EXCEPT ![mine.ptr] = IF mine.num \in short THEN @ ELSE {mine.num}]

\* Mutant: the ring is one slot shorter than the array.
StoredShortRing ==
  /\ pc = "copy"
  /\ slot' = Filled
  /\ cnt' = (cnt + 1) % (Slots - 1)
  /\ pc' = "send"
  /\ UNCHANGED <<mine, begun, short, long, queue, recvVars, base, restarts>>

\* memcpy ends and msg_cnt advances.
Stored ==
  /\ pc = "copy"
  /\ slot' = Filled
  /\ cnt' = (cnt + 1) % Slots
  /\ pc' = "send"
  /\ UNCHANGED <<mine, begun, short, long, queue, recvVars, base, restarts>>

\* A packet of length zero passes: there is nothing to copy.
EmptyPacket ==
  /\ Pass
  /\ short' = short \cup {begun}
  /\ cnt' = (cnt + 1) % Slots
  /\ pc' = "send"
  /\ UNCHANGED <<slot, long, queue, recvVars, base, restarts>>

\* msgsnd without IPC_NOWAIT: thread_lora, and the radio with it, waits for
\* room in the queue.
Msgsnd ==
  /\ pc = "send"
  /\ Len(queue) < QCap
  /\ queue' = Append(queue, mine)
  /\ pc' = "poll"
  /\ UNCHANGED <<mine, slot, cnt, begun, short, long, recvVars, base, restarts>>

-----------------------------------------------------------------------------
(* thread_lora_recv                                                        *)

\* msgrcv with IPC_NOWAIT found a message.
Receive ==
  /\ dpc = "idle"
  /\ queue # <<>>
  /\ held' = Head(queue)
  /\ queue' = Tail(queue)
  /\ dpc' = "got"
  /\ UNCHANGED <<loraVars, head, todo, seen, handed, base, restarts>>

\* With lora_lock held: len, fd and cmd are read, and the mailboxes found.  A
\* zeroed slot is for descriptor 0, which no mailbox has.
Route ==
  /\ dpc = "got"
  /\ head' = slot[held.ptr]
  /\ todo' \in IF head' = {Blank} THEN {0} ELSE 0 .. Boxes
  /\ dpc' = "give"
  /\ UNCHANGED <<loraVars, queue, held, seen, handed, base, restarts>>

\* What there is to read; behind the last slot it is no packet's.
Readable ==
  (UNION {slot[i] : i \in Span \cap SlotIndex})
    \cup {Blank : i \in Span \ SlotIndex}

\* memcpy to the next mailbox begins ...
GiveBegin ==
  /\ dpc = "give" /\ todo > 0
  /\ seen' = Readable
  /\ dpc' = "copy"
  /\ UNCHANGED <<loraVars, queue, held, head, todo, handed, base, restarts>>

\* ... and ends.
GiveEnd ==
  /\ dpc = "copy"
  /\ handed' = {[msg |-> held.num, what |-> head \cup seen,
                 later |-> begun - held.num - 1]}
  /\ todo' = todo - 1
  /\ dpc' = "give"
  /\ UNCHANGED <<loraVars, queue, held, head, seen, base, restarts>>

\* The lock is released and the loop goes on.
Finish ==
  /\ dpc = "give" /\ todo = 0
  /\ held' = NoMsg
  /\ dpc' = "idle"
  /\ UNCHANGED <<loraVars, queue, head, todo, seen, handed, base, restarts>>

-----------------------------------------------------------------------------
\* The process dies, of an empty packet or of anything else, and is started
\* again; the kernel keeps the queue.
Restart ==
  /\ restarts < MaxRestarts
  /\ pc' = "poll" /\ mine' = [ptr |-> 0, num |-> 0]
  /\ slot' = [i \in SlotIndex |-> {Blank}]
  /\ cnt' = 0
  /\ dpc' = "idle" /\ held' = NoMsg /\ head' = {} /\ todo' = 0
  /\ seen' = {} /\ handed' = {}
  /\ base' = begun
  /\ restarts' = restarts + 1
  /\ UNCHANGED <<queue, begun, short, long>>

Lora == Packet \/ Stored \/ EmptyPacket \/ Msgsnd

Recv == Receive \/ Route \/ GiveBegin \/ GiveEnd \/ Finish

Next == Lora \/ Recv \/ Restart

Spec == Init /\ [][Next]_vars

-----------------------------------------------------------------------------
(* Properties                                                              *)

\* As long as Slots more packets have not passed since, a mailbox that a
\* message is for gets the frame of that packet, whole and with its own length
\* and addressee; a packet with too few bytes brings what older ones left, but
\* nothing of a later one unless its length reaches into other slots; and no
\* message brings a byte of a frame from before a restart, not even one that
\* was in the queue then (lora.c:78-116, 146-156).
OwnFrame ==
  \A h \in handed :
    /\ h.later < Slots /\ h.msg >= base
         => /\ h.msg \notin short => h.what = {h.msg}
            /\ h.what \cap long = {} => h.what \subseteq 0 .. h.msg \cup {Blank}
    /\ h.what \subseteq base .. begun - 1 \cup {Blank}
=============================================================================
