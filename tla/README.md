# A specification of the sam_lora gateway

sam_lora is the program of a LoRa gateway: a Linux process on an ARM board that
passes requests from TCP clients to devices on the air, and the devices' answers
back, and that sends requests of its own on a schedule. It is one process with
ten kinds of threads. They share rings of frames, two System V message queues,
two linked lists and the state of the radio driver, partly under two mutexes and
partly under nothing.

The modules here model what those threads do to what they share. TLC checks the
models on small instances; TLAPS proves every safety property among the runs' for
every instance, apart from those that the code violates and `ImplementsFifo`, of which it
proves the steps (`FifoWhileShort`).
References like `lora.c:44` are to `src/user/`, or to
`src/lora/` for the files of the driver (`sx1276-*`, `fifo.c`).

## 1. The system

```
 TCP client --- thread_client --\                        /--> SX1276SetTxPacket
                                 > lora_send --> ring of  \       |
        thread_alarm -----------/   (mutex       10 slots  thread_lora_send
                                  lora_send_lock) + queue         |  RFLRState, RFBuffer
                                                                  v  (no lock)
 thread_client       \                                       thread_lora  <--> SX1276 chip
 thread_alarm_event   <-- mailboxes <-- thread_lora_recv <-- ring + queue
 thread_data         /    (lora_lock, semaphores)
        |  ALARM_DATA.time, alarm list (no lock)
 thread_alarm
```

| Component | State | Operations | Talks to | What is hard | What makes it correct |
|---|---|---|---|---|---|
| Downlink ring and queue (`lora.c`, `tcp.c`, `main.c`) | `msg_send_buf[10]`, `msg_send_cnt`, queue `lora_send_msg`, `lora_send_lock` | `lora_send`; receive loop of `thread_lora_send` | called by clients and alarms; calls the driver | slots used again unconditionally; `msgsnd` blocks under the mutex; the queue of *pointers* outlives the process; length and bytes read at different times | a waiting frame stays whole; order of the calls; no deadlock; nothing stale after a restart |
| Radio driver (`sx1276-LoRa.c`, `lora.c`) | `RFLRState`, `RFBuffer`, `TxPacketSize`, `RxPacketSize`, the chip | `SX1276LoRaProcess`, `SX1276LoRaSetTxPacket`, `SX1276LoRaGetRxPacket`, `SX1276StartRx` | turned by `thread_lora`; transmissions requested by `thread_lora_send` | two threads, no lock; one FIFO and one buffer for both directions; interrupts polled | a transmission is never disturbed; never deaf; nothing sent twice; exact delivery when nothing races |
| Uplink ring (`lora.c`) | `msg_buf[10]`, `msg_cnt`, `lora_recv_msg` | end of `thread_lora`, start of `thread_lora_recv` | driver to dispatch | as the downlink ring, one sender, no mutex; the reader comes back to a slot for each mailbox; packets too short for what is read of them, or without a byte | every mailbox gets the frame of its own packet; nothing stale after a restart |
| Uplink dispatch (`lora.c`, `tcp.c`, `alarm.c`, `ctrl.c`) | node list, `CMD_DATA` mailboxes: `fd`, `send_buf`, `sem`; `lora_lock` | route or broadcast a frame; wait, pass on, zero; connect, disconnect | from the ring to sockets and tasks | mailbox of one frame, written under a lock and read without; descriptors handed out again; a byte for a descriptor; free while in use | answers to who asked; no use after free; frames whole and in order |
| Node list (`list.c`) | `LISTNODE` links, `node_head` | `node_insert`, `node_delete`, `node_next` | used by clients, tasks, dispatch, alarms | insertions take no lock; the new thread is told its node by reading the head again | no dangling pointer; both chains agree; a walk sees every node once |
| Alarms (`alarm.c`, `ctrl.c`) | alarm list, `ALARM_DATA.time` | due, send, give up, acknowledge, delete | sends through the downlink, hears through mailboxes | three threads move `time` on without a lock; requests are repeated; answers late, lost, seen by two tasks; searches and a display walk the list beside deletions | the schedule does not drift, skip or stop; freed alarms are not touched |
| Radio configuration (`sx1276-LoRaMisc.c`, `sx1276-LoRa.c`) | registers, `LoRaSettings` | the setters and getters, `SX1276LoRaInit` | the chip | fields that share registers; clamps that depend on another register; integer frequencies | setters do not disturb each other; what is read is what was set |
| Start-up (`main.c`, `alarm.c`, `ctrl.c`) | `node_head`, `alarm_node_head` | lists made after `sleep(3)`, used after `sleep(4)` and `sleep(5)` | all | order by time only | a list exists before it is used |
| Log (`log.c`) | log file, its date, the static `struct tm` of `localtime` | `log_write`, `log_buf` | called by every thread | a rollover with no lock; opens that fail; the console's `lsa` stores in the same `struct tm` | a line goes to the file of its day; a closed file is not written to |
| Console, data base (`ctrl.c`) | `getsBuf`, sqlite | type, display, insert | the lists | a display beside deletions; `gets` beside its reader | the display follows no dangling pointer |
| Register access, platform (`sx1276.c`, `sx1276-Hal.c`, `platform.c`) | `SX1276Regs`, the reset pin, the descriptor of the bus | reset, `SX1276Init`, transfers | the chip, the kernel | results that nobody looks at; a shadow that is zero at first and is written over the whole chip, whose flags are cleared by it; fields of it that lie at other addresses | the radio ends in standby whatever it was in; registers not meant are kept |
| Fifo, checksum | none that is shared | a ring of bytes that nobody calls; a sum | | | |

`PROJECT.json` lists the components with their status, every hazard with the line
where it bites, and which property is for it.

## 2. The modules

### FrameFifo and MsgRing: the downlink

`FrameFifo` is the promise: frames accepted are transmitted once, whole, in order.
`MsgRing` is the code: `Acquire`, `CopyBegin`, `CopyEnd`, `Msgsnd`, `Release` are
`lora_send` under its caller's mutex, split where the slot is half written and
where `msgsnd` may block; `Receive`, `ReadLength`, `TransmitBegin`, `TransmitEnd`
are `thread_lora_send`, which reads the length before its wait for the radio and
the bytes after. `Restart` is the death of the process and a new start: memory is
zeroed, the kernel's queue is not. A frame is the number of the call that began
its copy; a slot holds that number, or is `Blank` or `Torn`; a queue message is
the slot's index with that number beside it as history. `x = (++x) % 10` in
`lora.c:43` assigns `x` twice without a sequence point; the only outcome a build
of that line produces is the increment modulo 10, and it is made under the mutex.

`ImplementsFifo` is refinement with `pending` = the message in hand and the queue.
It needs an instance without restarts whose queue is two shorter than the ring, which
the gateway's is not: a System V queue holds thousands of messages, and the ring has
ten slots. `NoOverrun` and `FifoWhileShort` speak of the backlog of the moment instead:
while it is two shorter than the ring (one frame in hand, one being copied), whatever
it has been before and whatever a restart has left in the queue, every frame that waits is
whole and every step is one of the FIFO. For longer backlogs there are `SlotIntact` and
`ExactTransmission`.

### UplinkRing: from the radio to the mailboxes

`Packet` and `EmptyPacket` are the test at the end of a reception, `Stored` and
`Msgsnd` the copy to the slot and the message; `Receive`, `Route`, `GiveBegin`, `GiveEnd`, `Finish` are
`thread_lora_recv`, which takes length and address from the slot and then copies the
slot once for every mailbox, with the wait for `lora_lock` as a delay between any two
of these. `lora.c:149` tests the number of bytes received and the last of them, not the
frame's own length byte, and only the bytes received are copied. So a packet that passes
can be `short`: of fewer bytes than its length byte says, or than its header has; what is
then read beyond it is what the slot held before. A `long` one is short and says more than
63, so that the reader goes on into the next slots. A packet without a byte makes the test
read outside its buffer: it passes, fails, or kills the process, and when it passes
nothing is copied. A slot's content, and what is read of it, is the set of the packets
whose bytes may be among it, `Blank` for none of this process. `handed` records what the
last mailbox was given.
Which mailboxes a frame is for is left to `Dispatch`.

### RFDriver: the radio driver and its two threads

One action per handler of `SX1276LoRaProcess`, split where `thread_lora_send` can
get between its reads and writes of `RFLRState`, `RFBuffer` and the sizes; `Take`,
`Poll`, `SetTxCopyBegin`, `SetTxCopyEnd`, `SetTxArm` are the request. The chip is
external: three flags, a mode and a FIFO. Where the driver relies on nothing the
chip is free: a write into the FIFO may or may not lie over a packet, a flag may or
may not survive a change of mode. The build selects continuous reception, explicit
header and no hopping, so the branches for single reception, hopping and CAD are
dead and left out.

Races that the code has are kept and named by history variables: `raced` (a
transmission was set up while a packet was being handled), `overrun` (a packet
came before the last was read), `stale` (a transmission began with a packet
unread). `AirExact` and `DeliveredExact` say that nothing else goes wrong;
`NoTxDisturbed`, `Listening`, `NoRepeat` and the liveness properties hold through
all of these races.

### Dispatch: from the uplink to clients and tasks

`Take`, `Route`, `CopyBegin`, `CopyEnd`, `Post`, `Unlock` are `thread_lora_recv`;
`Connect`, `Ask`, `TryWait`, `SendEnd`, `Clear`, `Disconnect`, `Close`, `Free` are
`thread_tcp` and `thread_client`; the gateway's own two tasks are readers of the
same kind, of which `thread_alarm_event` does not zero its mailbox. The list is a
sequence here. A descriptor is a number that `accept` can hand out again as soon as
it is closed, and its low byte is the address on the air. `Without` is what
`node_delete` does to the sequence.

### ClientList: the list, pointer by pointer

Each read or write of `next`, `prev` or `node_head` is a step of `node_insert` or
`node_delete` or of the walk. `overlap` notes an insertion that coincided with a
deletion or another insertion; the code has no lock against that, and the
properties say that this is all that can break the list: a walk or several
deletions together cannot. The console's display walks the same list without the lock:
`peeked` notes a deletion beside it.

### Alarm: the schedule

`Poll*` is `thread_alarm` (its two reads of the time of an alarm are two steps),
`Ack*` is `thread_alarm_event` and `thread_data`, `Answer` a device whose answer
reaches both their mailboxes, `Tick` the clock. `time += interval` is a load and a
store. `time(NULL)-alarm_data->time` is unsigned in the 32-bit build, so an alarm
that was moved on between the two tests counts as out of its window; the model has
that as membership in `0 .. Timeout - 1`. `met` and `late` name the two things that
can make an alarm skip: two threads moving it at a time, and an answer acted on
after its period. The tasks search the list node by node (`AckHead`, `AckSeek`), with no
lock, as `thread_alarm` walks it and the console's `lsa` does; of the last only its stay at
a node that can go is modelled. `gaveUp` notes that `thread_alarm` deleted a node, whose
next pointer it then reads; `watched` that a task deleted one while another thread was at
it, working there or on its way past. In the instance the one-shot alarm is in front of
the periodic one, so that every search for the latter passes it; as in the gateway there
is one alarm of that kind.

### Registers and BringUp: the configuration

`Registers` has the setters and getters as functions on a record of registers with the
masks of the code, the settings that only `LoRaSettings` holds beside them, and
`SX1276LoRaInit` as its calls in their order, those of the modem (`ModemSettings`) before
those of the transmitter (`PowerSettings`). A register is the set of its bits that are
one: `&` is intersection, `|` union, `Bits` and `Num` convert. `Arguments` are what the
setters are for; the instances and the proofs take theirs from it. Frequencies use the
exact ratio of the synthesizer step (15625/256 Hz).

`BringUp` composes it with what comes before: the reset pin through its three files,
the opening of the bus, the transfers with the shadow `SX1276Regs`, and `SX1276Init`.
The kernel's calls can fail, nobody looks at the result, and a failed read leaves the
junk of the stack, which the block write may then put over the chip. `Field` gives the
place of a register in the shadow, which is not its address: six reserved arrays are a
byte short. `RegIrqFlags` is cleared where ones are written, so the block write, which
puts back what was read, clears the flags an earlier process left. When nothing has failed the settings of `Registers` follow in any order.

### Startup, LogFile and Process

`Startup` is `main` creating its threads and each thread up to its loop. `left` is the
time until a thread may take its next step and goes on below zero when the thread is
late; `worst` is the greatest lateness so far. The lists exist when they are used only
because the sleeps differ, and `NoNullList` says by how much a step must be late to
break that. A head is made in two steps, since `node_head` and `node_head_p` are two
variables.

`LogFile` is `log_write`, step by step: the time is asked for, `localtime` stores it in
the `struct tm` that all threads share, the date is tested and stored, the old file
closed, the path written, the new one opened, the line printed and flushed. `met` notes
that a change of file met another line, or that lines of two days met; `silent` that a
month went by without a line. `Display` is the console's `lsa`, which calls `localtime` for
the due time of each alarm: any day, at any step of a line. `shown` notes that it
changed the day between a line's `localtime` and the last use of it (`Using`).

`Process` has both: `main`'s first line, the start, and the lines of the threads after it.

## 3. The runs

| Run | Question | Bounds |
|---|---|---|
| `msgring_fifo` | Is the path a FIFO that loses nothing when the queue is two shorter than the ring, and does a blocked sender get out? | 2 senders, ring 4, queue 2, 7 frames: the ring goes round nearly twice and the queue is full |
| `msgring_lap` | What is left when the ring is lapped, and after a restart? | 2 senders, ring 3, queue 4, 7 frames, 1 restart at any step: backlogs from none to six, through the ring's length both ways |
| `rfdriver_threads` | What is sent and delivered under every interleaving; does the driver come back to reception? | 2 packets, each good, foreign or corrupt; 2 transmissions |
| `rfdriver_idle` | Is a transmission requested only when the radio is idle? *No* | as above |
| `rfdriver_timeout` | Is a transmission that never ends given up? *No* | 1 and 1 |
| `dispatch` | Do answers find who asked; is a freed mailbox written to; what of frames that meet in a mailbox; is every frame acted on; does a client that leaves get away? | 2 clients, one descriptor, the alarm task, 2 frames: the second client gets the descriptor of the first while the first is still in the list, and a second frame comes while a mailbox is read |
| `uplink_ring` | Whose bytes does a mailbox get? | ring 3, queue 2, 2 mailboxes, 5 packets, each whole, short, long or without a byte, 1 restart at any step: the ring is lapped while its reader is between two mailboxes |
| `clientlist` | Do the pointers hold? | 3 client nodes (head, middle, end), 1 task that inserts beside `thread_tcp`, 1 walk of the dispatcher, 1 display |
| `alarm` | Does the schedule drift, skip or stop; is freed memory touched? | one periodic and one one-shot alarm, 3 seconds, interval and window of 2, 2 requests that reach a device: two periods, and the end of a window; the one-shot alarm first in the list |
| `registers` | What is the radio in after its start, and do settings disturb each other? | 2 failing calls anywhere; a chip and a stack of zeros, ones, mixed bits; every field at its limits and values to be clamped; one group of settings (modem, transmitter, program) per behaviour, as no register is in two |
| `process` | Who follows a null list pointer; which file does a line go to? | sleeps in the order and about the ratio of the code's, lateness up to the pulse; 3 writers, 4 lines, 3 days of which the third has the date of the first, 1 failed open, a display at any step |
| `registers_pa20` | Does disabling the 20 dBm amplifier disable it? *No* | as above |

Two senders are enough for the mutex: what it keeps apart are two copies. The
number of frames exceeds ring and queue together, so every wrap and every full or
empty queue occurs. The clock of `Alarm` shrinks ten minutes to two ticks because
the code only compares `time` with the clock and with the clock less the window.
All states the bounds allow are explored. Deadlock is not checked where a bound ends
all activity (calls, packets or ticks used up); the liveness properties take its
place.

One descriptor is enough for `dispatch`: with two, no client would get another's. That
the descriptor's low byte is shared by others is in the proofs, which take any set of
descriptors. The second fault of `registers` is what lets a pulse be lost and a block
be spoiled in one start. In `process` a lateness of three reaches both bounds of
`NoNullList`: the pulse, and a third of the seven that two sleeps differ.

Every counter that the code lets grow is bounded in a guard by a constant that says
so in its declaration: `MaxFrames`, `MaxRestarts`, `MaxRx`, `MaxTx`, `MaxPackets`,
`MaxWalks`, `MaxLooks`, `MaxNow`, `MaxAsks`, `MaxFaults`, `MaxLate`, `LastDay`,
`MaxLines`, `MaxFailures`. Four bounds are guards of another kind and are named where
they stand: the transfers of the setters in `SX1276LoRaInit` do not fail and later
settings come after a faultless start, no packet raises flags during the start
(`BringUp`), the welcome is not written at
midnight, and the lines of the threads come after a start without delay (`Process`).

### Fairness

Threads of a running process run: weak fairness for each step of a thread that is
under way. No fairness for what the outside may never do (a caller that calls, a
client that connects, asks or leaves, a packet that arrives, a device that answers)
nor for `pthread_mutex_lock`, which promises no turn, except where the lock is
asked for a bounded number of times in the model's bounds (`Dispatch`). `Alarm` is fair
to `thread_alarm` alone, which gives an alarm up without the help of anybody, and
until freed memory is touched; nothing is said of what comes after.
`MsgRing` takes the return of the radio to reception as fairness of
`TransmitBegin`; `RFDriver` shows that on its side (`BackToRx`, `SendProceeds`) from
a chip that ends every transmission. `rfdriver_timeout` drops just that, and asks
what the comment of `SX1276LoRaSetTxPacketTimeout` promises.

### Disagreements found

1. `lora.c:62` says "wait lora idle". The loop tests the state once, unlocked; the
   transmission can be requested in the middle of a reception (`SendWhenIdle`). The
   received packet or the request can then be lost or mixed, as the provisos of
   `AirExact` and `DeliveredExact` say.
2. `sx1276-LoRaMisc.h:177` describes a timeout between Tx mode entry and Tx done;
   nothing reads it, and `TX_RUNNING` waits for ever (`TxTimesOut`).
3. `sx1276-LoRaMisc.h:219` says the call enables and disables the 20 dBm amplifier;
   with `PA_BOOST` it only enables it (`Pa20AsSet`).

## 4. The proofs

`MsgRingProofs` proves for any number of senders, any ring and queue length and any
number of frames and restarts:

| Theorem | Property |
|---|---|
| `TypeCorrect` | `TypeOK` |
| `FramesIntact` | `SlotIntact`: a waiting frame is whole until `Slots` more copies have begun |
| `OrderKept` | `QueueOrdered` |
| `NothingOverrun` | `NoOverrun`: no waiting frame is overwritten while the backlog is two shorter than the ring |
| `NothingReplayed` | `NoReplay` |
| `TransmissionsExact` | `ExactTransmission` |
| `ShortBacklogIsFifo` | `FifoWhileShort` |

`RFDriverProofs` proves for any number of packets and requests:

| Theorem | Property |
|---|---|
| `TypeCorrect` | `TypeOK` |
| `TransmitterUndisturbed` | `NoTxDisturbed` |
| `NeverDeaf` | `Listening` |
| `NothingRepeated` | `NoRepeat` |
| `AirIsExact` | `AirExact` |
| `DeliveryIsExact` | `DeliveredExact` |

The theorems about `MsgRing` rest on its named assumptions only: a ring and a queue of at least
one, `NoOwner` is no sender, the marks `Blank`, `Torn`, `Runt` and `NoMsg` differ from
frames and messages.

The argument: `SlotIntact` does not carry itself through a step, because it does not
say *where* a frame is. The invariant `IInv` adds that only the holder of the mutex is
inside `lora_send` (`LockInv`), that the reader has a message exactly when it is not
idle (`ReaderInv`), that waiting messages are older than the copy being made
(`NumberInv`), what the holder is building (`MineInv`), and that frame `n` lies `Done -
n` slots behind the counter, `Done` being the copies completed (`PlaceInv`, with `Back`
for the slot at that distance). A new copy goes to distance zero, and a frame less
than `Slots` copies old is at another distance (`BackApart`), so it is not touched; one
that is older is no longer spoken of. `QueueOrdered` then needs that the numbers in the
queue are consecutive and end at the last message sent (`CountInv`). So what waits is never
older than the queue is long at the moment, however long it was: `NoOverrun` needs
no bound on what the queue could hold. For the action
properties `FreshInv` (after a restart nothing older than `base` is in a slot),
`ViewInv` (what the reader saw is still there unless the ring was lapped) and
`BoundInv` (numbers stay below `MaxFrames`, for the range of the refinement) are added,
each proved step by step on top of `IInv`. In `ShortBacklogIsFifo` `Msgsnd` maps to
`Accept`, `TransmitEnd` to `Transmit`, all else but a restart to stuttering. `ImplementsFifo`
itself, the refinement from the first state on, stays with TLC: its proviso is about the
size of the queue, and the gateway does not meet it.

For the driver no single property carries itself through a step either. `Place` ties
three things that the code keeps apart: the state the driver claims, where
`thread_lora` is in a handler, and the mode of the chip. While a packet is in its hands
`thread_lora` may store `RX_DONE` or `RX_RUNNING` over a `TX_INIT` that the sender has
just stored, but never once it has begun to transmit, since the sender stores only after
it saw `RX_RUNNING`. On that rests `Numbered`: the requests on the air are behind
the one that `TxPacketSize` is of, and that one is still ahead as long as it is being
set up, armed or transmitted (`Ahead`), which gives `NoRepeat`. `Exact` follows a request's
bytes through `RFBuffer` to the chip while nothing has raced, and counts the requests.
`Received` follows a packet from the FIFO, where it stays as long as it is unfetched, through
`RFBuffer` to the queue; what was delivered is older than both (`Older`), and a packet leaves
this path only as a delivery or because its flag or its test says so (`Complete`).
The theorems rest on no assumption about the constants.

Six more modules hold the proofs of the other components, each for every value of
the constants that satisfies the named assumptions. Where there is a proof the type
invariant is part of it and is not run; that of `Registers` is in `ReadBack`, that of
`ClientList` in `ListExact`; both are proved with them.

| Module | Theorem | Property |
|---|---|---|
| `UplinkRingProofs` | `FramesAreOwn` | `OwnFrame` |
| `DispatchProofs` | `NothingUsedAfterFree` | `NoUseAfterFree` |
| | `AnswersFindAsker` | `AnswerToAsker` |
| | `FramesAccounted` | `Accounted` |
| | `NothingRepeated` | `NoRepeat` |
| | `UncrossedIsExact` | `ExactUnlessCrossed` |
| `AlarmProofs` | `OnTheGrid` | `PhaseKept` |
| | `NothingSkipped` | `NoSkip` |
| | `OnlyAskedAcked` | `AckedWasAsked` |
| | `DeletedIsLeft` | `OneShotSafe` |
| `ClientListProofs` | `NothingWild` | `NoWildPointer` |
| | `ListIsExact` | `ListExact` |
| | `WalksAreExact` | `WalkExact` |
| `RegistersProofs` | `SettingsReadBack` | `ReadBack` |
| | `PowerIsAsSet` | `PowerAsSet` |
| | `FrequencyIsClose` | `FrequencyClose` |
| | `RadioIsBroughtUp` | `BroughtUp` |
| | `OthersAreKept` | `OthersKept` |
| `ProcessProofs` | `FileIsSafe`, `DayIsRight` | `FileSafe`, `RightDay` |
| | `NoNull` | `NoNullList` |
| | `ProcessSafe` | these three, of the whole process |

`UplinkRing` is proved by distances, as `MsgRing` is: message `n` points at the slot
`begun - n` behind the counter (`Located`), so less than `Slots` packets later its slot
is untouched: it holds that packet alone if the packet was whole, and that and older ones
if it was short (`Proper`). `ReadInv` carries that through the reader's several looks at
the slot, `OwnInv` to what the mailbox was given, and `NewInv` says that a restart leaves
no frame behind. Messages without a byte have their place and no content.

`Dispatch` rests on `LockInv` (who is in which step has the lock), `ListInv` (every
mailbox in use is in the list once), `TodoInv` (all that the dispatcher still has to
visit is open, since nobody can close while it walks) and `FdInv` (open clients have
different descriptors). `AnswerToAsker` follows: an answer's port is its asker's
descriptor (`AskInv`), whoever else has that descriptor is closed, and whose low byte
alone is equal is no candidate below 0x80. For `NoRepeat`, `OldInv` bounds the numbers
in a mailbox by that of the frame that is coming to it, and `NextInv` says that what a
mailbox holds comes after all that was sent from it, unless it is about to be zeroed;
`thread_alarm_event`, which does not zero, is left out. `ExactAt` says that in a mailbox
where no frame has crossed another one at most is on its way: in `memcpy`, counted by
the semaphore or read by the thread, each of which excludes the others; `Accounted` then
gives its place in the order.

`Alarm` adds to `PhaseKept` that what a thread has loaded is on the grid (`GridInv`).
Unless two have met, one thread at most is moving an alarm, the alarm is then in the
past, and the value it loaded is still there (`MoveInv`); so the store adds one interval
to a time that has passed, which is `NoSkip`. Answers in flight are to due times that
were asked for and are not ahead of the alarm (`Fresh`); one that is accepted less than
an interval after its due time is on the grid less than an interval from it, hence it.
`FreeInv` says that outside the two named races nobody is at a deleted alarm; a search
or display that starts later does not come to it, since `After` passes over it.

`Startup`: between the two sleeps stand at most three steps, each of which loses at
most `worst`; `Gap` bounds what is left of the longer sleep by the shorter one less that
many times `worst`, for each step that `thread_alarm` can be at. `LogFile`: as long as
nothing has met, a writer that changes the file is alone (`Alone`), all that are busy
have one day (`OneDay`) and the date that is stored is that of the file (`Dated`); two
days less than a month apart have different dates (`MDayApart`). A display leaves alone the
files and who is where, hence `FileSafe`; what is said of days holds until `shown`. `Process` keeps both,
as each of its steps is one of either with the other's variables unchanged.

`NothingWild` of `ClientList` is proved without its history, from what each listed node's own
pointers say (`Linked`): the next of a node leads back to it (`Forth`), the node before it leads on
to it (`Back`), and a node beside the list, going in or coming out, can be found by going
back from its neighbour only (`Beside`). That is not enough: in a list of one node that
leads to itself both hold, and a deletion would leave the list on the node it frees. So
the links must go down some numbering of the nodes (`Acyclic`), which an insertion extends
at the head and a deletion keeps. Between a deletion's two stores the node is in neither
chain wholly; `Leaving` names it. Walk and display are on listed nodes (`Following`), the
walk because it has the lock, the display because `peeked` is still false.

`ListExact` and `WalkExact` are about sequences, and are proved on top of that. The
history `members` is the sequence: its nodes are those `Listed`, none twice, and the next
of each is the node in the `Place` after, the sentinel behind the last (`Chained`); the
pointers back follow from `Linked` and from no node's being before two. No node has
two places, so what a deletion takes out of the sequence is the node it takes out of the
pointers. A reader is `OnWay`: what it has passed is the beginning of what it is to see,
which is the end of `members`, and its node is in the place that comes next. An insertion
at the head is behind every reader, and no deletion meets one that is spoken of. The
library says nothing of `RemoveFirst`; a lemma says what it leaves at each index.

`Registers`: `BitsAt`, `NumBits` and those after them say which bit is which digit, so that
a setter is a statement about sets. Each setter has one lemma: it gives its own field its
argument, keeps the bits of the neighbours in its register (`Sets`), and touches no other
register, so getters elsewhere return what they did (`Elsewhere`). One setting after the
other therefore keeps "what is read is what is remembered" (`Good`), the power as long as
nothing has changed the amplifier (`Powered`). The power needs more than that:
`SX1276LoRaSetRFPower` takes the 20 dBm amplifier for on when RegPaDac is 0x87,
`SX1276LoRaGetRFPower` when its low three bits are ones. The two agree only because the
program has written 0x84 or 0x87 by then, which `SX1276LoRaInit` does before it sets the
power (`Amplified`). The frequency comes back lower by less than a step of the
synthesizer (61.04 Hz) and the cut to a Hertz: 62 at most, and 434003479 Hz does lose
62 (`HertzAt`, `StepsAndBack`).

`BringUp`: the shadow is zero until the first write (`ShadowInv`), which is of sleep mode
with the LoRa bit. A chip that was awake may ignore that bit, but it is asleep then; so the
write of standby after it comes to a chip that takes both, and as long as every transfer was
heard the chip has LoRa standby from there on (`ChipInv`). `BlockInv` says that each cell of the
shadow that is about to be written at an address was read from that address, whatever
its field is called, unless a read failed; so the block write changes the one cell that was
changed between (`RegLna`) and clears the flags that were read as ones, and the registers that are not `Named` are what they were
(`KeptInv`). The theorems rest on `GarbageAssumption`, `JunkAssumption`,
`ScopesAssumption` and `FaultsAssumption`: bytes are bytes, the arguments are within
`Arguments`, and a number of failures is given.

Two faults of the models came out of these proofs. `FrequencyClose` said 61 where it is
62, which the frequencies of the instance do not reach; and an operator of `BringUp` was a
CASE whose guards were not exclusive, which TLC evaluates in order and TLA+ does not.

Model-checked only: liveness everywhere (`SendReturns`, `ImplementsFifoLive`,
`BackToRx`, `SendProceeds`, `Served`, `Leaves`, `GivesUp`), since fairness and ENABLED are
out of the prover's reach; and the three violations, which are runs.

## 5. Not modelled

- CAD, single reception, hopping, RSSI and SNR: not reached, or not read, in the build.
- `fifo.c`, `log_init`, `fpga_init`, `fpga_led`, `delay`, `gpio_get_value`: nothing calls
  them, so there is no use to model them under.
- The wrappers of one line in `sx1276.c` and `sx1276-Hal.c`, and the DIO reads, which
  return zero.
- The data base: one INSERT per measurement, no state read back.
- `gets` beside `thread_user`: a command torn or lost displays another list or none.
- Bytes: heads, commands and checksums are what routing and acceptance make of them.
- What `memcpy` overwrites behind `send_buf` when a frame's length byte is above 127:
  `UplinkRing` says whose bytes are read, not where they end up.
- A property of `node_head` as `tcp.c:103` reads it: if another thread has written it since
  the insertion the read is wrong, and if not it is right by definition. `ClientList` has
  the insertions, `PROJECT.json` the hazard.
- Parsing of times (`alarm.c:46`): `Alarm` starts from any due times its constants give.
- Memory exhaustion, and failing system calls on which the code exits. Those it passes
  over are in `BringUp` and `LogFile`.

## 6. Order of the modules, and what is left

First the paths of frames: `FrameFifo`, `MsgRing`, `RFDriver`, `Dispatch`,
`UplinkRing`; then what they rest on: `ClientList`, `Alarm`, `Registers`; then the start
and its surroundings: `BringUp`, `Startup`, `LogFile`, `Process`. `Process` composes the
start with the log, `BringUp` the start of the radio with its settings; the rings, the
driver and the dispatch meet at the interfaces named above (`TransmitBegin` and
`BackToRx`, `handed` and `Take`) and are not in one state space.

Left, in order:

1. Downlink and driver together, so that the fairness `MsgRing` takes of the radio is
   the driver's own, and an abstract gateway (a request is transmitted, an answer
   delivered or lost) that they implement.
2. The lines of the log during a start with delays, which `Process` keeps apart.
