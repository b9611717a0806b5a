------------------------------- MODULE Alarm -------------------------------
(***************************************************************************)
(* The schedule of requests: thread_alarm (user/alarm.c) sends the request *)
(* of an alarm that is due until somebody moves the alarm on; that is      *)
(* thread_alarm_event when the answer comes, thread_data (user/ctrl.c) for *)
(* the answer with the measurements, or thread_alarm itself when the       *)
(* window is over.  No lock protects the alarm list or ALARM_DATA.time:    *)
(* these three, and the console's lsa, walk the list node by node while    *)
(* another of them may unlink and free the node they are at.               *)
(*                                                                         *)
(* Every answer is a frame that thread_lora_recv gives to all mailboxes    *)
(* (lora.c:98-109), so both tasks see it; a mailbox holds the last one     *)
(* (Dispatch says how).  Addition to time is a load, an add and a store.   *)
(*                                                                         *)
(* The model begins when all alarms are in the list and ends when freed    *)
(* memory is touched.                                                      *)
(***************************************************************************)
EXTENDS Integers, Sequences, FiniteSets

CONSTANTS
  Alarms,               \* the alarms
  Params,               \* those for measurements (GET_PARAM_REQUEST)
  Order,                \* the alarm list, head first
  Start,                \* ALARM_DATA.time as alarm_create sets it
  Interval,             \* ALARM_DATA.interval, 0 for a one-shot alarm
  Timeout,              \* ALARM_DATA.timeout
  Dat,                  \* ALARM_DATA.dat
  Data,                 \* what the first data byte of an answer can be
  End,                  \* the end of the list
  MaxNow,               \* bound: seconds explored
  MaxAsks               \* bound: requests that can be answered

ASSUME AlarmsAssumption ==
  /\ End \notin Alarms /\ Params \subseteq Alarms
  /\ Start \in [Alarms -> Int]
  /\ Interval \in [Alarms -> Nat] /\ Timeout \in [Alarms -> Nat]
  /\ Dat \in [Alarms -> Data]
ASSUME OrderAssumption ==
  /\ Order \in Seq(Alarms)
  /\ \A a \in Alarms : \E i \in 1 .. Len(Order) : Order[i] = a
\* One alarm is ever deleted, so that no two deletions meet (alarm.c:78-83,
\* ctrl.c:89).
ASSUME OneShotAssumption ==
  \A a, b \in Alarms : Interval[a] = 0 /\ Interval[b] = 0 => a = b
ASSUME BoundsAssumption == MaxNow \in Nat /\ MaxAsks \in Nat

Ackers == {"event", "data"}      \* thread_alarm_event, thread_data
Actors == Ackers \cup {"poll"}   \* and thread_alarm

VARIABLES
  now,                  \* time(NULL)
  time,                 \* ALARM_DATA.time
  freed,                \* alarms deleted
  ppc, at, want,        \* thread_alarm: where, at which alarm, which due time
  apc, hand,            \* the tasks: where, with which answer
  node,                 \* the tasks: p of their node_search_alarm
  lsa,                  \* p of the console's node_display_alarm, where it is at
                        \* a node that can go
  reg,                  \* a loaded ALARM_DATA.time
  box, sem,             \* the mailboxes of the tasks
  asks,                 \* requests that a device has yet to answer
  sent,                 \* history: number of them so far
  asked, acked,         \* history: due times requested, and acknowledged
  met,                  \* history: two threads were moving the alarm at a time
  late,                 \* history: an answer was acted on after its period
  gaveUp,               \* history: thread_alarm deleted an alarm
  watched,              \* history: a task deleted one another thread was at,
                        \* with work there or on its way past it
  wild                  \* history: freed memory was touched

pollVars == <<ppc, at, want>>
ackVars == <<apc, hand, node, box, sem>>
askVars == <<asks, sent, asked>>
histVars == <<acked, met, late, gaveUp, watched>>
vars == <<now, time, freed, pollVars, ackVars, lsa, reg, askVars, histVars,
          wild>>

Blank == [alarm |-> End, due |-> 0, dat |-> 0]    \* a zeroed mailbox

Answers == [alarm : Alarms \cup {End}, due : Int, dat : Data \cup {0}]

TypeOK ==
  /\ now \in 0 .. MaxNow
  /\ time \in [Alarms -> Int]
  /\ freed \subseteq Alarms
  /\ ppc \in {"sleep", "look", "window", "send", "add", "store", "drop", "next"}
  /\ at \in Alarms \cup {End} /\ want \in Int
  /\ ppc # "sleep" => at # End
  /\ apc \in [Ackers -> {"run", "head", "seek", "check", "add", "store", "drop",
                          "clear"}]
  /\ node \in [Ackers -> Alarms \cup {End}] /\ lsa \in Alarms \cup {End}
  /\ \A k \in Ackers : apc[k] = "seek" => node[k] # End
  /\ hand \in [Ackers -> Answers] /\ box \in [Ackers -> Answers]
  /\ sem \in [Ackers -> Nat]
  /\ reg \in [Actors -> Int]
  /\ asks \subseteq [alarm : Alarms, due : Int, num : 1 .. MaxAsks]
  /\ sent \in 0 .. MaxAsks
  /\ asked \in [Alarms -> SUBSET Int] /\ acked \in [Alarms -> SUBSET Int]
  /\ met \in [Alarms -> BOOLEAN] /\ late \in [Alarms -> BOOLEAN]
  /\ gaveUp \in BOOLEAN /\ watched \in BOOLEAN /\ wild \in BOOLEAN

Init ==
  /\ now = 0
  /\ time = Start
  /\ freed = {}
  /\ ppc = "sleep" /\ at = End /\ want = 0
  /\ apc = [k \in Ackers |-> "run"]
  /\ node = [k \in Ackers |-> End] /\ lsa = End
  /\ hand = [k \in Ackers |-> Blank] /\ box = [k \in Ackers |-> Blank]
  /\ sem = [k \in Ackers |-> 0]
  /\ reg = [k \in Actors |-> 0]
  /\ asks = {} /\ sent = 0
  /\ asked = [a \in Alarms |-> {}] /\ acked = [a \in Alarms |-> {}]
  /\ met = [a \in Alarms |-> FALSE] /\ late = [a \in Alarms |-> FALSE]
  /\ gaveUp = FALSE /\ watched = FALSE /\ wild = FALSE

-----------------------------------------------------------------------------

Touch(a) == wild' = (wild \/ a \in freed)

\* The threads with a pointer to a in their hands: to work on it, or on their
\* way past it.
Holders(a) ==
  {k \in Ackers : IF apc[k] = "seek" THEN node[k] = a
                  ELSE /\ apc[k] \notin {"run", "head", "clear"}
                       /\ hand[k].alarm = a}
    \cup {k \in {"poll"} : ppc # "sleep" /\ at = a}
    \cup {k \in {"lsa"} : lsa = a}

\* Those that have seen that it is due and have not yet moved it.
Movers(a) ==
  {k \in Ackers : apc[k] \in {"add", "store", "drop"} /\ hand[k].alarm = a}
    \cup {k \in {"poll"} : ppc \notin {"sleep", "look", "send", "next"} /\ at = a}

Meet(k, a) == met' = [met EXCEPT ![a] = @ \/ Movers(a) \ {k} # {}]

\* Mutant: a deleted node stays linked.
AfterDeleted(i) ==
  IF i < Len(Order) THEN Order[i + 1] ELSE End

\* The first alarm of the list, in front of or behind the i-th place, that is
\* still there.
After(i) ==
  LET rest == {j \in i + 1 .. Len(Order) : Order[j] \notin freed}
  IN  IF rest = {} THEN End
      ELSE Order[CHOOSE j \in rest : \A k \in rest : j <= k]

Place(a) == CHOOSE i \in 1 .. Len(Order) : Order[i] = a

Tick ==
  /\ now < MaxNow
  /\ now' = now + 1
  /\ UNCHANGED <<time, freed, pollVars, ackVars, lsa, reg, askVars, histVars,
                 wild>>

-----------------------------------------------------------------------------
(* thread_alarm                                                            *)

\* sleep(5) ends; node = alarm_node_head
PollStart ==
  /\ ppc = "sleep"
  /\ at' = After(0)
  /\ ppc' = IF at' = End THEN "sleep" ELSE "look"
  /\ UNCHANGED <<now, time, freed, want, ackVars, lsa, reg, askVars, histVars,
                 wild>>

\* if (time(NULL) > alarm_data->time)
PollLook ==
  /\ ppc = "look"
  /\ Touch(at)
  /\ IF now > time[at] THEN ppc' = "window" /\ Meet("poll", at)
     ELSE ppc' = "next" /\ UNCHANGED met
  /\ UNCHANGED <<now, time, freed, at, want, ackVars, lsa, reg, askVars,
                 acked, late, gaveUp, watched>>

\* if ((time(NULL)-alarm_data->time) < alarm_data->timeout): the difference
\* is unsigned, so an alarm that was moved on meanwhile is out of its window.
PollWindow ==
  /\ ppc = "window"
  /\ Touch(at)
  /\ IF now - time[at] \in 0 .. Timeout[at] - 1
     THEN ppc' = "send" /\ want' = time[at]
     ELSE /\ ppc' = IF Interval[at] > 0 THEN "add" ELSE "drop"
          /\ UNCHANGED want
  /\ UNCHANGED <<now, time, freed, at, ackVars, lsa, reg, askVars, histVars>>

\* lora_send under lora_send_lock.  A request that is lost on its way there or
\* back is one that is never answered.
PollSend ==
  /\ ppc = "send"
  /\ Touch(at)
  /\ asked' = [asked EXCEPT ![at] = @ \cup {want}]
  /\ \/ /\ sent < MaxAsks
        /\ sent' = sent + 1
        /\ asks' = asks \cup {[alarm |-> at, due |-> want, num |-> sent + 1]}
     \/ sent = MaxAsks /\ UNCHANGED <<asks, sent>>
  /\ want' = 0
  /\ ppc' = "next"
  /\ UNCHANGED <<now, time, freed, at, ackVars, lsa, reg, histVars>>

PollAdd ==
  /\ ppc = "add"
  /\ Touch(at)
  /\ reg' = [reg EXCEPT !["poll"] = time[at]]
  /\ ppc' = "store"
  /\ UNCHANGED <<now, time, freed, at, want, ackVars, lsa, askVars, histVars>>

\* Mutant: the alarm is set to one interval from now.
PollStoreFromNow ==
  /\ ppc = "store"
  /\ Touch(at)
  /\ time' = [time EXCEPT ![at] = now + Interval[at]]
  /\ ppc' = "next"
  /\ UNCHANGED <<now, freed, at, want, ackVars, lsa, reg, askVars, histVars>>

\* Mutant: the give-up is logged, and the alarm left as it is.
PollStoreForgotten ==
  /\ ppc = "store"
  /\ Touch(at)
  /\ ppc' = "next"
  /\ UNCHANGED <<now, time, freed, at, want, ackVars, lsa, reg, askVars,
                 histVars>>

PollStore ==
  /\ ppc = "store"
  /\ Touch(at)
  /\ time' = [time EXCEPT ![at] = reg["poll"] + Interval[at]]
  /\ reg' = [reg EXCEPT !["poll"] = 0]
  /\ ppc' = "next"
  /\ UNCHANGED <<now, freed, at, want, ackVars, lsa, askVars, histVars>>

\* node_delete(alarm_node_head_p, node)
PollDrop ==
  /\ ppc = "drop"
  /\ Touch(at)
  /\ freed' = freed \cup {at}
  /\ gaveUp' = TRUE
  /\ ppc' = "next"
  /\ UNCHANGED <<now, time, at, want, ackVars, lsa, reg, askVars, acked, met,
                 late, watched>>

\* node = node_next(node), also of a node just deleted
PollNext ==
  /\ ppc = "next"
  /\ Touch(at)
  /\ at' = After(Place(at))
  /\ ppc' = IF at' = End THEN "sleep" ELSE "look"
  /\ UNCHANGED <<now, time, freed, want, ackVars, lsa, reg, askVars,
                 histVars>>

Poll ==
  \/ PollStart \/ PollLook \/ PollWindow \/ PollSend \/ PollAdd \/ PollStore
  \/ PollDrop \/ PollNext

-----------------------------------------------------------------------------
(* thread_alarm_event and thread_data                                      *)

\* A task has done with an answer; thread_data goes on to zero its mailbox.
Leave(k) ==
  /\ apc' = [apc EXCEPT ![k] = IF k = "data" THEN "clear" ELSE "run"]
  /\ hand' = [hand EXCEPT ![k] = Blank]

\* sem_trywait succeeds and send_buf is read; node_search_alarm finds nothing
\* for descriptor 0.
AckTake(k) ==
  /\ apc[k] = "run" /\ sem[k] > 0
  /\ sem' = [sem EXCEPT ![k] = @ - 1]
  /\ IF box[k].alarm = End THEN Leave(k)
     ELSE /\ apc' = [apc EXCEPT ![k] = "head"]
          /\ hand' = [hand EXCEPT ![k] = box[k]]
  /\ UNCHANGED <<now, time, freed, pollVars, node, box, lsa, reg, askVars,
                 histVars, wild>>

\* p of node_search_alarm goes on to b.
Seek(k, b) ==
  /\ node' = [node EXCEPT ![k] = b]
  /\ IF b = End THEN Leave(k)
     ELSE apc' = [apc EXCEPT ![k] = "seek"] /\ UNCHANGED hand

\* p = alarm_node_head
AckHead(k) ==
  /\ apc[k] = "head"
  /\ Seek(k, After(0))
  /\ UNCHANGED <<now, time, freed, pollVars, box, sem, lsa, reg, askVars,
                 histVars, wild>>

\* The descriptor of the node is compared, and the node returned or left
\* through its next pointer.
AckSeek(k) ==
  /\ apc[k] = "seek"
  /\ Touch(node[k])
  /\ IF node[k] = hand[k].alarm
     THEN /\ apc' = [apc EXCEPT ![k] = "check"]
          /\ node' = [node EXCEPT ![k] = End]
          /\ UNCHANGED hand
     ELSE Seek(k, After(Place(node[k])))
  /\ UNCHANGED <<now, time, freed, pollVars, box, sem, lsa, reg, askVars,
                 histVars>>

\* What kind of answer each task is for.
Match(k) ==
  IF k = "data" THEN hand[k].alarm \in Params
  ELSE hand[k].dat = Dat[hand[k].alarm]

\* An answer in hand after its period is over.
Late(r) == Interval[r.alarm] > 0 /\ now > r.due + Interval[r.alarm]

Accept(k, ok) ==
  LET a == hand[k].alarm
  IN  /\ apc[k] = "check"
      /\ Touch(a)
      /\ IF ok
         THEN /\ apc' = [apc EXCEPT ![k] = IF Interval[a] > 0 THEN "add"
                                           ELSE "drop"]
              /\ Meet(k, a)
              /\ late' = [late EXCEPT ![a] = @ \/ Late(hand[k])]
              /\ UNCHANGED hand
         ELSE Leave(k) /\ UNCHANGED <<met, late>>
      /\ UNCHANGED <<now, time, freed, pollVars, node, box, sem, lsa, reg,
                     askVars, acked, gaveUp, watched>>

\* Mutant: an answer is accepted at any time.
AckCheckAnyTime(k) == Accept(k, Match(k))

\* if (time(NULL) > alarm_data->time), and the answer is of the right kind
AckCheck(k) == Accept(k, now > time[hand[k].alarm] /\ Match(k))

AckAdd(k) ==
  /\ apc[k] = "add"
  /\ Touch(hand[k].alarm)
  /\ reg' = [reg EXCEPT ![k] = time[hand[k].alarm]]
  /\ apc' = [apc EXCEPT ![k] = "store"]
  /\ UNCHANGED <<now, time, freed, pollVars, hand, node, box, sem, lsa,
                 askVars, histVars>>

AckStore(k) ==
  LET a == hand[k].alarm
  IN  /\ apc[k] = "store"
      /\ Touch(a)
      /\ time' = [time EXCEPT ![a] = reg[k] + Interval[a]]
      /\ acked' = [acked EXCEPT ![a] = @ \cup {reg[k]}]
      /\ reg' = [reg EXCEPT ![k] = 0]
      /\ Leave(k)
      /\ UNCHANGED <<now, freed, pollVars, node, box, sem, lsa, askVars, met,
                     late, gaveUp, watched>>

\* node_delete(alarm_node_head_p, node)
AckDrop(k) ==
  /\ apc[k] = "drop"
  /\ Touch(hand[k].alarm)
  /\ freed' = freed \cup {hand[k].alarm}
  /\ watched' = (watched \/ Holders(hand[k].alarm) # {k})
  /\ Leave(k)
  /\ UNCHANGED <<now, time, pollVars, node, box, sem, lsa, reg, askVars,
                 acked, met, late, gaveUp>>

\* memset(cmd_data->send_buf, 0, 128)
AckClear(k) ==
  /\ apc[k] = "clear"
  /\ box' = [box EXCEPT ![k] = Blank]
  /\ apc' = [apc EXCEPT ![k] = "run"]
  /\ UNCHANGED <<now, time, freed, pollVars, hand, node, sem, lsa, reg,
                 askVars, histVars, wild>>

Ack(k) ==
  \/ AckTake(k) \/ AckHead(k) \/ AckSeek(k) \/ AckCheck(k) \/ AckAdd(k)
  \/ AckStore(k) \/ AckDrop(k) \/ AckClear(k)

\* A device answers, with the request's own data byte or with a measurement,
\* and both mailboxes get the frame.
Answer ==
  \E r \in asks :
    \E d \in IF r.alarm \in Params THEN Data ELSE {Dat[r.alarm]} :
      /\ box' = [k \in Ackers |->
                   [alarm |-> r.alarm, due |-> r.due, dat |-> d]]
      /\ sem' = [k \in Ackers |-> sem[k] + 1]
      /\ asks' = asks \ {r}
      /\ UNCHANGED <<now, time, freed, pollVars, apc, hand, node, lsa, reg,
                     sent, asked, histVars, wild>>

-----------------------------------------------------------------------------
(* The console's lsa: node_display_alarm, at any time.  Only a one-shot    *)
(* alarm's node can go while p is at it; the steps over the others touch   *)
(* nothing that goes, and are left out.                                    *)

\* p = p->next gets to a one-shot alarm that is in the list.
LsaReach ==
  /\ lsa = End
  /\ \E a \in Alarms \ freed : Interval[a] = 0 /\ lsa' = a
  /\ UNCHANGED <<now, time, freed, pollVars, ackVars, reg, askVars, histVars,
                 wild>>

\* The alarm is printed, and p = p->next leaves it.
LsaLeave ==
  /\ lsa # End
  /\ Touch(lsa)
  /\ lsa' = End
  /\ UNCHANGED <<now, time, freed, pollVars, ackVars, reg, askVars, histVars>>

Lsa == LsaReach \/ LsaLeave

-----------------------------------------------------------------------------
Next == ~wild /\ (Tick \/ Poll \/ Lsa \/ Answer \/ \E k \in Ackers : Ack(k))

Spec == Init /\ [][Next]_vars

\* thread_alarm runs on.  The other threads and the clock may stop and a device
\* need not answer.
Fairness == WF_vars(~wild /\ Poll)

LiveSpec == Spec /\ Fairness

-----------------------------------------------------------------------------
(* Properties                                                              *)

\* A whole number of intervals after the start.
OnGrid(a, t) == \E n \in 0 .. t - Start[a] : t = Start[a] + n * Interval[a]

\* Whatever races with what, an alarm stays on its grid: late polls, give-ups
\* and lost updates never make the schedule drift (alarm.c:31, 99,
\* ctrl.c:113).
PhaseKept == \A a \in Alarms : OnGrid(a, time[a])

\* No period is skipped unless two threads moved the alarm at a time: it is
\* never set further ahead than one interval (alarm.c:23-31, 96-99).
NoSkip ==
  \A a \in Alarms :
    ~met[a] /\ time[a] # Start[a] => time[a] < now + Interval[a]

\* An acknowledged due time was requested, if no answer took longer than an
\* interval to be acted on: a second answer to the same request does not
\* acknowledge the next one (alarm.c:96-99, ctrl.c:101-113).
AckedWasAsked ==
  \A a \in Alarms : ~met[a] /\ ~late[a] => acked[a] \subseteq asked[a]

\* Freed memory is touched only if thread_alarm gives a one-shot alarm up
\* (it then reads the next pointer of the node it has deleted) or a task
\* deletes one that another thread is at, be it a search or the console on its
\* way past it; later searches and displays, repeated answers and a mailbox
\* that still names the alarm find nothing (alarm.c:33-37, 93-101,
\* ctrl.c:98-115, list.c:77-85, 119-136).
OneShotSafe == wild => gaveUp \/ watched

\* An alarm whose window is over does not stay due: the next period comes, or
\* a one-shot alarm goes, though every request or answer is lost
\* (alarm.c:28-35).
GivesUp ==
  \A a \in Alarms : \A d \in 0 .. MaxNow - Timeout[a] - 1 :
    []<>(time[a] # d \/ now - d <= Timeout[a] \/ a \in freed \/ wild)
=============================================================================
