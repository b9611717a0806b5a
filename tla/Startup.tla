------------------------------ MODULE Startup ------------------------------
(***************************************************************************)
(* The start of the process: main creates nine threads one after another   *)
(* (user/main.c), and the threads come by the two lists they share by      *)
(* sleeping for different times: thread_tcp makes the client list at once, *)
(* thread_lora is 500 ms in the reset pulse before a packet can be routed  *)
(* by that list, thread_alarm makes the alarm list after 3 s, and          *)
(* thread_alarm_event and thread_data use both lists after 4 s and 5 s.    *)
(* No thread waits for another.                                            *)
(*                                                                         *)
(* left is the time until a thread can take its next step; nothing makes   *)
(* it take the step then, and left goes on below zero.  worst is how late  *)
(* a step has been, or is.                                                 *)
(***************************************************************************)
EXTENDS Integers, Sequences

CONSTANTS
  PulseTime,            \* usleep(500 * 1000) of thread_lora
  AlarmSleep,           \* sleep(3) of thread_alarm
  EventSleep,           \* sleep(4) of thread_alarm_event
  DataSleep,            \* sleep(5) of thread_data
  MaxLate               \* bound: how late a step can be

ASSUME SleepsAssumption ==
  /\ {PulseTime, AlarmSleep, EventSleep, DataSleep, MaxLate} \subseteq Nat
  /\ AlarmSleep <= EventSleep /\ EventSleep <= DataSleep

Threads == {"tcp", "lora", "recv", "send", "user", "gets", "alarm", "event",
            "data"}

\* The order in which main creates them.
Rank == [tcp |-> 1, lora |-> 2, recv |-> 3, send |-> 4, user |-> 5,
         gets |-> 6, alarm |-> 7, event |-> 8, data |-> 9]

VARIABLES
  created,              \* how many threads main has created
  pc,                   \* where each thread is
  left,                 \* the time until its next step; main's under "main"
  nodeHead, nodeHeadP,  \* node_head and node_head_p are set
  alarmHead, alarmHeadP,\* alarm_node_head and alarm_node_head_p are set
  exited,               \* main has given up
  nulled,               \* history: a null list pointer was followed
  worst                 \* history: the greatest delay of a step

listVars == <<nodeHead, nodeHeadP, alarmHead, alarmHeadP>>
startVars == <<created, pc, left, listVars, exited, nulled, worst>>

StartTypeOK ==
  /\ worst \in Nat
  /\ created \in 0 .. 9
  /\ pc \in [Threads -> {"none", "start", "sleep", "assign", "loop"}]
  /\ left \in [Threads \cup {"main"} -> Int]
  /\ nodeHead \in BOOLEAN /\ nodeHeadP \in BOOLEAN
  /\ alarmHead \in BOOLEAN /\ alarmHeadP \in BOOLEAN
  /\ exited \in BOOLEAN /\ nulled \in BOOLEAN

StartInit ==
  /\ worst = 0
  /\ created = 0
  /\ pc = [t \in Threads |-> "none"]
  /\ left = [t \in Threads \cup {"main"} |-> 0]
  /\ nodeHead = FALSE /\ nodeHeadP = FALSE
  /\ alarmHead = FALSE /\ alarmHeadP = FALSE
  /\ exited = FALSE /\ nulled = FALSE

\* The threads whose next step is to be taken without waiting for an event.
Pending ==
  {t \in Threads : pc[t] \in {"start", "sleep", "assign"}}
    \cup (IF created < 9 THEN {"main"} ELSE {})

\* The step of t leaves it at l, its next step due after a time of d.
Go(t, l, d) ==
  /\ left[t] <= 0
  /\ pc' = [pc EXCEPT ![t] = l]
  /\ left' = [left EXCEPT ![t] = d]
  /\ UNCHANGED <<created, exited, worst>>

Use(ok) == nulled' = (nulled \/ ~ok)

-----------------------------------------------------------------------------

\* pthread_create, in main.  Four threads begin with their loops; a message
\* that an earlier process left is a zeroed frame to them, for no node.
Create ==
  \E t \in Threads :
    /\ Rank[t] = created + 1
    /\ created' = created + 1
    /\ pc' = [pc EXCEPT ![t] = IF t \in {"recv", "send", "user", "gets"}
                              THEN "loop" ELSE "start"]
    /\ left' = [left EXCEPT !["main"] = 0]
    /\ UNCHANGED <<listVars, exited, nulled, worst>>

\* exit(EXIT_FAILURE)
CreateFails ==
  /\ created < 9
  /\ exited' = TRUE
  /\ UNCHANGED <<created, pc, left, listVars, nulled, worst>>

\* node_head = node_create(), after the socket was made
TcpList ==
  /\ pc["tcp"] = "start" /\ Go("tcp", "assign", 0)
  /\ nodeHead' = TRUE
  /\ UNCHANGED <<nodeHeadP, alarmHead, alarmHeadP, nulled>>

\* node_head_p = &node_head
TcpListP ==
  /\ pc["tcp"] = "assign" /\ Go("tcp", "loop", 0)
  /\ nodeHeadP' = TRUE
  /\ UNCHANGED <<nodeHead, alarmHead, alarmHeadP, nulled>>

\* Mutant: the reset pulse is not waited for.
LoraPulseShort ==
  /\ pc["lora"] = "start" /\ Go("lora", "sleep", 0)
  /\ UNCHANGED <<listVars, nulled>>

\* The reset pulse begins.
LoraPulse ==
  /\ pc["lora"] = "start" /\ Go("lora", "sleep", PulseTime)
  /\ UNCHANGED <<listVars, nulled>>

\* The radio receives from now on.
LoraLoop ==
  /\ pc["lora"] = "sleep" /\ Go("lora", "loop", 0)
  /\ UNCHANGED <<listVars, nulled>>

\* A packet for every node: the walk begins with node_head->data.
Route ==
  /\ pc["recv"] = "loop" /\ pc["lora"] = "loop"
  /\ Use(nodeHead)
  /\ UNCHANGED <<created, pc, left, listVars, exited, worst>>

AlarmWait ==
  /\ pc["alarm"] = "start" /\ Go("alarm", "sleep", AlarmSleep)
  /\ UNCHANGED <<listVars, nulled>>

\* alarm_node_head = node_create()
AlarmList ==
  /\ pc["alarm"] = "sleep" /\ Go("alarm", "assign", 0)
  /\ alarmHead' = TRUE
  /\ UNCHANGED <<nodeHead, nodeHeadP, alarmHeadP, nulled>>

\* alarm_node_head_p = &alarm_node_head
AlarmListP ==
  /\ pc["alarm"] = "assign" /\ Go("alarm", "loop", 0)
  /\ alarmHeadP' = TRUE
  /\ UNCHANGED <<nodeHead, nodeHeadP, alarmHead, nulled>>

EventWait ==
  /\ pc["event"] = "start" /\ Go("event", "sleep", EventSleep)
  /\ UNCHANGED <<listVars, nulled>>

\* node_insert(node_head_p, ...) and five times alarm_create
EventInsert ==
  /\ pc["event"] = "sleep" /\ Go("event", "loop", 0)
  /\ Use(nodeHeadP /\ alarmHeadP)
  /\ UNCHANGED listVars

DataWait ==
  /\ pc["data"] = "start" /\ Go("data", "sleep", DataSleep)
  /\ UNCHANGED <<listVars, nulled>>

\* node_insert(node_head_p, ...) and alarm_create
DataInsert ==
  /\ pc["data"] = "sleep" /\ Go("data", "loop", 0)
  /\ Use(nodeHeadP /\ alarmHeadP)
  /\ UNCHANGED listVars

\* Time goes on until the start is over.
Tick ==
  /\ Pending # {}
  /\ left' = [t \in Threads \cup {"main"} |->
               IF t \in Pending THEN left[t] - 1 ELSE left[t]]
  /\ worst' = IF \E t \in Pending : left'[t] < -worst THEN worst + 1 ELSE worst
  /\ worst' <= MaxLate
  /\ UNCHANGED <<created, pc, listVars, exited, nulled>>

StartThread ==
  \/ TcpList \/ TcpListP
  \/ LoraPulse \/ LoraLoop \/ Route
  \/ AlarmWait \/ AlarmList \/ AlarmListP
  \/ EventWait \/ EventInsert
  \/ DataWait \/ DataInsert

StartNext ==
  /\ ~exited /\ ~nulled
  /\ Create \/ CreateFails \/ StartThread \/ Tick

StartSpec == StartInit /\ [][StartNext]_startVars

-----------------------------------------------------------------------------
(* Properties                                                              *)

\* A list is used before it is there only if a step was late by the whole
\* reset pulse, or by a third of what thread_alarm sleeps less than
\* thread_alarm_event: nothing but the sleeps orders the threads
\* (alarm.c:13-17, alarm.c:66-75, ctrl.c:69-89, tcp.c:81-82, lora.c:133-140).
NoNullList ==
  nulled => worst >= PulseTime \/ 3 * worst >= EventSleep - AlarmSleep
=============================================================================
