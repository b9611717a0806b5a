------------------------------ MODULE Dispatch ------------------------------
(***************************************************************************)
(* The uplink path from thread_lora_recv (user/lora.c) to the threads that *)
(* serve one CMD_DATA each: thread_client (user/tcp.c) for a connection,   *)
(* thread_alarm_event (user/alarm.c) and thread_data (user/ctrl.c) for the *)
(* gateway's own tasks.                                                    *)
(*                                                                         *)
(* A CMD_DATA is a mailbox for one frame: send_buf, and a semaphore that   *)
(* counts the frames put in it.  The dispatcher writes under lora_lock;    *)
(* the reader reads and zeroes without it, but takes it to close and free  *)
(* the mailbox.  A frame is addressed by its port byte, which a request    *)
(* carries out (the socket's descriptor, cut to a byte) and the answer     *)
(* brings back.                                                            *)
(*                                                                         *)
(* The node list is the sequence of mailboxes, newest first; its pointers  *)
(* are the subject of ClientList.  Frames are numbered in the order the    *)
(* dispatcher takes them.                                                  *)
(***************************************************************************)
EXTENDS Naturals, Sequences, FiniteSets

CONSTANTS
  Clients,              \* connections, each with a CMD_DATA of its own
  Locals,               \* the mailboxes of the gateway's own tasks
  AlarmBox,             \* the one of thread_alarm_event, fd 0x80; the other
                        \* one is thread_data's, fd 1
  Fds,                  \* descriptors accept() can return
  Nobody,               \* no holder of the lock, no asker
  MaxFrames             \* bound: frames dispatched

Boxes == Clients \cup Locals

Dispatcher == "dispatcher"

ASSUME BoxesAssumption ==
  /\ Clients \cap Locals = {}
  /\ {Nobody, Dispatcher} \cap Boxes = {} /\ Nobody # Dispatcher
ASSUME FdsAssumption == Fds \subseteq Nat \ {0, 1}
ASSUME FramesAssumption == MaxFrames \in Nat

VARIABLES
  lock,                 \* holder of lora_lock
  nodes,                \* the mailboxes in the list, head first
  fd,                   \* CMD_DATA.fd
  buf,                  \* CMD_DATA.send_buf
  sem,                  \* CMD_DATA.sem
  bpc,                  \* where the thread of each mailbox is
  seen,                 \* what it has read of send_buf
  out,                  \* history: what it sent to its socket or acted on
  open,                 \* descriptors in use by connections
  asks,                 \* requests out on the air: [asker, port]
  dpc,                  \* where thread_lora_recv is
  frame,                \* the frame in its hands: [num, asker, port, all]
  todo,                 \* mailboxes still to be given the frame
  taken,                \* history: frames dispatched
  given,                \* history: numbers put in each mailbox
  crossed               \* history: a frame came to a mailbox still in use

boxVars == <<buf, sem, bpc, seen, out>>
vars == <<lock, nodes, fd, open, asks, dpc, frame, todo, taken, given, crossed,
          boxVars>>

\* Contents of send_buf: a frame, or one of these.
Empty == 0                   \* zeroed; as a message it has length zero
Partial == MaxFrames + 1     \* being written
Mixed == MaxFrames + 2       \* bytes of more than one write

Content == 0 .. MaxFrames + 2
NoFrame == [num |-> 0, asker |-> Nobody, port |-> 0, all |-> FALSE]

TypeOK ==
  /\ lock \in Boxes \cup {Nobody, Dispatcher}
  /\ nodes \in Seq(Boxes)
  /\ fd \in [Boxes -> Nat]
  /\ buf \in [Boxes -> Content]
  /\ sem \in [Boxes -> Nat]
  /\ bpc \in [Boxes -> {"absent", "run", "send", "clear", "exit",
                        "closed", "gone"}]
  /\ seen \in [Boxes -> Content]
  /\ out \in [Boxes -> Seq(Content)]
  /\ open \subseteq Fds
  /\ asks \subseteq [asker : Clients, port : 0 .. 255]
  /\ dpc \in {"idle", "lock", "copy", "copying", "post", "unlock"}
  /\ frame \in [num : 0 .. MaxFrames, asker : Boxes \cup {Nobody},
                port : 0 .. 255, all : BOOLEAN]
  /\ todo \in Seq(Boxes)
  /\ taken \in 0 .. MaxFrames
  /\ given \in [Boxes -> Seq(1 .. MaxFrames)]
  /\ crossed \in [Boxes -> BOOLEAN]

Init ==
  /\ lock = Nobody
  /\ nodes = <<>>
  /\ fd = [b \in Boxes |-> IF b \in Clients THEN 0
                           ELSE IF b = AlarmBox THEN 128 ELSE 1]
  /\ buf = [b \in Boxes |-> Empty]
  /\ sem = [b \in Boxes |-> 0]
  /\ bpc = [b \in Boxes |-> "absent"]
  /\ seen = [b \in Boxes |-> Empty]
  /\ out = [b \in Boxes |-> <<>>]
  /\ open = {}
  /\ asks = {}
  /\ dpc = "idle"
  /\ frame = NoFrame
  /\ todo = <<>>
  /\ taken = 0
  /\ given = [b \in Boxes |-> <<>>]
  /\ crossed = [b \in Boxes |-> FALSE]

\* node_delete: the list without the node of b.
Without(b) ==
  LET i == CHOOSE i \in 1 .. Len(nodes) : nodes[i] = b
  IN  SubSeq(nodes, 1, i - 1) \o SubSeq(nodes, i + 1, Len(nodes))

-----------------------------------------------------------------------------
(* Mailboxes come and go                                                   *)

\* accept, a zeroed CMD_DATA, node_insert without a lock, pthread_create.
Connect(c) ==
  /\ c \in Clients /\ bpc[c] = "absent"
  /\ \E f \in Fds \ open :
       /\ fd' = [fd EXCEPT ![c] = f]
       /\ open' = open \cup {f}
  /\ nodes' = <<c>> \o nodes
  /\ bpc' = [bpc EXCEPT ![c] = "run"]
  /\ UNCHANGED <<lock, buf, sem, seen, out, asks, dpc, frame, todo, taken, given,
                 crossed>>

\* The gateway's own tasks make their mailboxes some seconds after the start.
StartTask(b) ==
  /\ b \in Locals /\ bpc[b] = "absent"
  /\ nodes' = <<b>> \o nodes
  /\ bpc' = [bpc EXCEPT ![b] = "run"]
  /\ UNCHANGED <<lock, fd, buf, sem, seen, out, open, asks, dpc, frame, todo,
                 taken, given, crossed>>

\* recv returns 0 and the thread leaves its loop.
Disconnect(c) ==
  /\ c \in Clients /\ bpc[c] = "run"
  /\ bpc' = [bpc EXCEPT ![c] = "exit"]
  /\ UNCHANGED <<lock, nodes, fd, buf, sem, seen, out, open, asks, dpc, frame,
                 todo, taken, given, crossed>>

\* Mutant: the descriptor is closed before the lock is asked for.
CloseUnlocked(c) ==
  /\ bpc[c] = "exit"
  /\ lock' = lock
  /\ open' = open \ {fd[c]}
  /\ bpc' = [bpc EXCEPT ![c] = "closed"]
  /\ UNCHANGED <<nodes, fd, buf, sem, seen, out, asks, dpc, frame, todo, taken,
                 given, crossed>>

\* pthread_mutex_lock(&lora_lock); close(data->fd)
Close(c) ==
  /\ bpc[c] = "exit"
  /\ lock = Nobody
  /\ lock' = c
  /\ open' = open \ {fd[c]}
  /\ bpc' = [bpc EXCEPT ![c] = "closed"]
  /\ UNCHANGED <<nodes, fd, buf, sem, seen, out, asks, dpc, frame, todo, taken,
                 given, crossed>>

\* sem_destroy, node_delete, pthread_mutex_unlock
Free(c) ==
  /\ bpc[c] = "closed"
  /\ nodes' = Without(c)
  /\ lock' = IF lock = c THEN Nobody ELSE lock
  /\ bpc' = [bpc EXCEPT ![c] = "gone"]
  /\ UNCHANGED <<fd, buf, sem, seen, out, open, asks, dpc, frame, todo, taken,
                 given, crossed>>

-----------------------------------------------------------------------------
(* The thread of a mailbox                                                 *)

\* Bytes came from the socket: lora_send(data->fd, ...) keeps one byte of fd.
Ask(c) ==
  /\ c \in Clients /\ bpc[c] = "run"
  /\ taken + Cardinality(asks) < MaxFrames
  /\ asks' = asks \cup {[asker |-> c, port |-> fd[c] % 256]}
  /\ UNCHANGED <<lock, nodes, fd, open, dpc, frame, todo, taken, given, crossed,
                 boxVars>>

\* Mutant: the result of sem_trywait is not looked at.
TryWaitBlind(b) ==
  /\ bpc[b] = "run"
  /\ sem' = [sem EXCEPT ![b] = @ - 1]
  /\ seen' = [seen EXCEPT ![b] = buf[b]]
  /\ bpc' = [bpc EXCEPT ![b] = "send"]
  /\ UNCHANGED <<lock, nodes, fd, buf, out, open, asks, dpc, frame, todo, taken,
                 given, crossed>>

\* Mutant: the semaphore is tried only when there is something in send_buf.
TryWaitNonEmpty(b) ==
  /\ bpc[b] = "run"
  /\ sem[b] > 0
  /\ buf[b] # Empty
  /\ sem' = [sem EXCEPT ![b] = @ - 1]
  /\ seen' = [seen EXCEPT ![b] = buf[b]]
  /\ bpc' = [bpc EXCEPT ![b] = "send"]
  /\ UNCHANGED <<lock, nodes, fd, buf, out, open, asks, dpc, frame, todo, taken,
                 given, crossed>>

\* sem_trywait(&data->sem) == 0, and send() begins to read send_buf.  A write
\* between the two is as good as one before them.
TryWait(b) ==
  /\ bpc[b] = "run"
  /\ sem[b] > 0
  /\ sem' = [sem EXCEPT ![b] = @ - 1]
  /\ seen' = [seen EXCEPT ![b] = buf[b]]
  /\ bpc' = [bpc EXCEPT ![b] = "send"]
  /\ UNCHANGED <<lock, nodes, fd, buf, out, open, asks, dpc, frame, todo, taken,
                 given, crossed>>

\* send() has read it, whole if nobody wrote meanwhile.
SendEnd(b) ==
  /\ bpc[b] = "send"
  /\ out' = [out EXCEPT ![b] =
               Append(@, IF buf[b] = seen[b] /\ seen[b] # Partial THEN seen[b]
                         ELSE Mixed)]
  /\ bpc' = [bpc EXCEPT ![b] = IF b = AlarmBox THEN "run" ELSE "clear"]
  /\ UNCHANGED <<lock, nodes, fd, buf, sem, seen, open, asks, dpc, frame, todo,
                 taken, given, crossed>>

\* Mutant: a client's mailbox is not zeroed, as thread_alarm_event's is not.
ClearForgotten(b) ==
  /\ bpc[b] = "clear"
  /\ bpc' = [bpc EXCEPT ![b] = "run"]
  /\ UNCHANGED <<lock, nodes, fd, buf, sem, seen, out, open, asks, dpc, frame,
                 todo, taken, given, crossed>>

\* memset(data->send_buf, 0, 128); thread_alarm_event has no such line.
Clear(b) ==
  /\ bpc[b] = "clear"
  /\ buf' = [buf EXCEPT ![b] = IF @ = Partial THEN Mixed ELSE Empty]
  /\ bpc' = [bpc EXCEPT ![b] = "run"]
  /\ UNCHANGED <<lock, nodes, fd, sem, seen, out, open, asks, dpc, frame, todo,
                 taken, given, crossed>>

Box(b) ==
  \/ Connect(b) \/ StartTask(b) \/ Disconnect(b) \/ Close(b) \/ Free(b)
  \/ Ask(b) \/ TryWait(b) \/ SendEnd(b) \/ Clear(b)

-----------------------------------------------------------------------------
(* thread_lora_recv                                                        *)

\* A frame comes up: the answer to a request, or a broadcast (a notice or a
\* response that every client is to see).
Take ==
  /\ dpc = "idle"
  /\ taken < MaxFrames
  /\ \/ \E a \in asks :
          /\ frame' = [num |-> taken + 1, asker |-> a.asker, port |-> a.port,
                       all |-> FALSE]
          /\ asks' = asks \ {a}
     \/ /\ \E port \in {0} \cup {fd[b] : b \in Locals} :
             frame' = [num |-> taken + 1, asker |-> Nobody, port |-> port,
                       all |-> port = 0]
        /\ UNCHANGED asks
  /\ taken' = taken + 1
  /\ dpc' = "lock"
  /\ UNCHANGED <<lock, nodes, fd, open, todo, given, crossed, boxVars>>

\* Ports from 0x80 up all name the alarm task.
Address(port) == IF port >= 128 THEN 128 ELSE port

\* node_search_cmd: the first node whose fd is f, none for 0.
Search(f) ==
  LET hits == {i \in 1 .. Len(nodes) : f # 0 /\ fd[nodes[i]] = f}
  IN  IF hits = {} THEN <<>>
      ELSE <<nodes[CHOOSE i \in hits : \A j \in hits : i <= j]>>

\* pthread_mutex_lock(&lora_lock), and where the frame is to go.
Route ==
  /\ dpc = "lock"
  /\ lock = Nobody
  /\ lock' = Dispatcher
  /\ todo' = IF frame.all THEN nodes ELSE Search(Address(frame.port))
  /\ dpc' = IF todo' = <<>> THEN "unlock" ELSE "copy"
  /\ UNCHANGED <<nodes, fd, open, asks, frame, taken, given, crossed, boxVars>>

\* memcpy(data->send_buf, buf, len).  crossed notes that the mailbox still
\* held a frame, or its thread was busy with one.
CopyBegin ==
  /\ dpc = "copy"
  /\ LET b == Head(todo)
     IN  /\ buf' = [buf EXCEPT ![b] = Partial]
         /\ given' = [given EXCEPT ![b] = Append(@, frame.num)]
         /\ crossed' = [crossed EXCEPT ![b] =
                          @ \/ sem[b] > 0 \/ bpc[b] \in {"send", "clear"}]
  /\ dpc' = "copying"
  /\ UNCHANGED <<lock, nodes, fd, sem, bpc, seen, out, open, asks, frame, todo,
                 taken>>

CopyEnd ==
  /\ dpc = "copying"
  /\ buf' = [buf EXCEPT ![Head(todo)] = IF @ = Partial THEN frame.num ELSE Mixed]
  /\ dpc' = "post"
  /\ UNCHANGED <<lock, nodes, fd, sem, bpc, seen, out, open, asks, frame, todo,
                 taken, given, crossed>>

\* Mutant: a binary semaphore.
PostBinary ==
  /\ dpc = "post"
  /\ sem' = [sem EXCEPT ![Head(todo)] = 1]
  /\ todo' = Tail(todo)
  /\ dpc' = IF todo' = <<>> THEN "unlock" ELSE "copy"
  /\ UNCHANGED <<lock, nodes, fd, buf, bpc, seen, out, open, asks, frame, taken,
                 given, crossed>>

\* sem_post(&data->sem); on to the next node.
Post ==
  /\ dpc = "post"
  /\ sem' = [sem EXCEPT ![Head(todo)] = @ + 1]
  /\ todo' = Tail(todo)
  /\ dpc' = IF todo' = <<>> THEN "unlock" ELSE "copy"
  /\ UNCHANGED <<lock, nodes, fd, buf, bpc, seen, out, open, asks, frame, taken,
                 given, crossed>>

\* Mutant: the lock is not given back.
UnlockForgotten ==
  /\ dpc = "unlock"
  /\ frame' = NoFrame
  /\ dpc' = "idle"
  /\ UNCHANGED <<lock, nodes, fd, open, asks, todo, taken, given, crossed, boxVars>>

\* pthread_mutex_unlock(&lora_lock)
Unlock ==
  /\ dpc = "unlock"
  /\ lock' = Nobody
  /\ frame' = NoFrame
  /\ dpc' = "idle"
  /\ UNCHANGED <<nodes, fd, open, asks, todo, taken, given, crossed, boxVars>>

Dispatch ==
  Take \/ Route \/ CopyBegin \/ CopyEnd \/ Post \/ Unlock

Next == Dispatch \/ \E b \in Boxes : Box(b)

Spec == Init /\ [][Next]_vars

\* Every thread runs on.  Nobody has to connect, ask or leave.  Weak fairness
\* is enough for the mutex: a client takes it once, and the dispatcher is
\* idle in the end.
Fairness ==
  /\ WF_vars(Route) /\ WF_vars(CopyBegin) /\ WF_vars(CopyEnd) /\ WF_vars(Post)
  /\ WF_vars(Unlock)
  /\ \A b \in Boxes :
       /\ WF_vars(TryWait(b)) /\ WF_vars(SendEnd(b)) /\ WF_vars(Clear(b))
       /\ WF_vars(Close(b)) /\ WF_vars(Free(b))

LiveSpec == Spec /\ Fairness

-----------------------------------------------------------------------------
(* Properties                                                              *)

\* The dispatcher writes only to mailboxes that exist: a client that leaves
\* cannot free its CMD_DATA under the dispatcher's hands (lora.c:82-118,
\* tcp.c:55-59).
NoUseAfterFree ==
  \A i \in 1 .. Len(todo) : bpc[todo[i]] \notin {"closed", "gone"}

\* An answer goes to the client that asked, if it is still there, whatever
\* descriptors have been closed and handed out again meanwhile, as long as
\* the descriptor is below 0x80 (lora.c:92-115).
AnswerToAsker ==
  dpc = "copy" /\ frame.asker # Nobody =>
    (bpc[frame.asker] # "gone" /\ fd[frame.asker] < 128 =>
       Head(todo) = frame.asker)

\* No frame is sent twice to a client, and none out of order, whatever
\* overwrites what (tcp.c:45-52).
NoRepeat ==
  \A b \in Boxes \ {AlarmBox} :
    \A i, j \in 1 .. Len(out[b]) :
      i < j /\ out[b][i] \in 1 .. MaxFrames /\ out[b][j] \in 1 .. MaxFrames
        => out[b][i] < out[b][j]

\* A mailbox that is given a frame only when it is empty and its thread at
\* rest passes on every frame, whole, in order, and nothing else.
ExactUnlessCrossed ==
  \A b \in Boxes :
    ~crossed[b] =>
      /\ Len(out[b]) <= Len(given[b]) /\ Len(given[b]) <= Len(out[b]) + 1
      /\ \A i \in 1 .. Len(out[b]) : out[b][i] = given[b][i]

\* One thing is sent for every frame given, even when frames are lost: the
\* semaphore counts them (lora.c:107, 117, tcp.c:45).
Accounted ==
  \A b \in Boxes :
    Len(given[b]) = Len(out[b]) + sem[b]
      + (IF bpc[b] = "send" THEN 1 ELSE 0)
      + (IF dpc \in {"copying", "post"} /\ Head(todo) = b THEN 1 ELSE 0)

\* A frame put in the mailbox of a connected client is acted on, or the
\* client goes.
Served ==
  \A b \in Boxes : (sem[b] > 0) ~> (sem[b] = 0 \/ bpc[b] = "gone")

\* A client that leaves is taken off the list: the lock does come free.
Leaves == \A c \in Clients : (bpc[c] = "exit") ~> (bpc[c] = "gone")
=============================================================================
