---------------------------- MODULE AlarmProofs ----------------------------
(***************************************************************************)
(* Proofs about Alarm for any alarms, list, intervals and windows.         *)
(*                                                                         *)
(* The threads share ALARM_DATA.time without a lock.  Everything written   *)
(* to it is a value loaded from it before, plus the interval, which keeps  *)
(* it on the grid.  As long as met[a] is false one thread at most is       *)
(* moving the alarm, so what it loaded is still there when it stores and   *)
(* is in the past.  While no alarm was deleted that another thread was     *)
(* looking at, nobody holds a pointer to a deleted one.                    *)
(***************************************************************************)
EXTENDS Alarm, SequenceTheorems, WellFoundedInduction, TLAPS

TaskAt ==
  {"run", "head", "seek", "check", "add", "store", "drop", "clear"}

Working(k) == apc[k] \notin {"run", "clear"}

\* Working on an alarm that was found, not looking for one any more.
AtWork(k) == apc[k] \in {"check", "add", "store", "drop"}

\* Who works on an alarm has one; what it loaded is on the grid.
GridInv ==
  /\ PhaseKept
  /\ ppc \in {"add", "store"} => Interval[at] > 0
  /\ ppc = "store" => OnGrid(at, reg["poll"])
  /\ \A k \in Ackers :
       /\ Working(k) => hand[k].alarm \in Alarms
       /\ apc[k] \in {"add", "store"} => Interval[hand[k].alarm] > 0
       /\ apc[k] = "store" => OnGrid(hand[k].alarm, reg[k])

Moving(k, a) ==
  IF k = "poll" THEN ppc \in {"window", "add", "store", "drop"} /\ at = a
  ELSE apc[k] \in {"add", "store", "drop"} /\ hand[k].alarm = a

\* As long as no two threads have met, one moves the alarm at most, and it is
\* due: what it has loaded is what is there.
MoveAt(a) ==
  /\ \A j, k \in Actors : Moving(j, a) /\ Moving(k, a) => j = k
  /\ \A k \in Actors : Moving(k, a) => time[a] < now
  /\ Moving("poll", a) /\ ppc = "store" => reg["poll"] = time[a]
  /\ \A k \in Ackers : Moving(k, a) /\ apc[k] = "store" => reg[k] = time[a]

MoveInv == \A a \in Alarms : ~met[a] => MoveAt(a)

\* An answer is to a request for a due time that was reached.
Fresh(r) ==
  ~met[r.alarm] =>
    r.due \in asked[r.alarm] /\ r.due <= time[r.alarm] /\ OnGrid(r.alarm, r.due)

\* The due time of the request that thread_alarm is about to send.
SendInv ==
  ppc = "send" => OnGrid(at, want) /\ (~met[at] => want <= time[at])

AnswerInv(k) ==
  /\ box[k].alarm \in Alarms => Fresh(box[k])
  /\ hand[k].alarm \in Alarms => Fresh(hand[k])

\* An accepted answer is to a request for the due time the alarm has.
AcceptInv(k) ==
  \A a \in Alarms :
    ~met[a] /\ ~late[a] /\ apc[k] \in {"add", "store"} /\ hand[k].alarm = a
      => time[a] \in asked[a]

AskInv ==
  /\ AckedWasAsked
  /\ SendInv
  /\ \A r \in asks : Fresh(r)
  /\ \A k \in Ackers : AnswerInv(k) /\ AcceptInv(k)

FreeInv ==
  ~gaveUp /\ ~watched =>
    /\ ~wild
    /\ \A a \in freed : Holders(a) = {}

IInv == TypeOK /\ GridInv /\ MoveInv /\ NoSkip /\ AskInv /\ FreeInv

-----------------------------------------------------------------------------
(* The list                                                                *)

LessThan == {ss \in Nat \X Nat : ss[1] < ss[2]}

LEMMA SmallestOfNat ==
  ASSUME NEW S, S \subseteq Nat, S # {}
  PROVE  \E i \in S : \A j \in S : i <= j
<1>1. IsWellFoundedOn(LessThan, Nat)
  BY NatLessThanWellFounded DEF OpToRel, LessThan
<1>2. \E i \in S : \A j \in S : ~(<<j, i>> \in LessThan)
  BY <1>1, WFMin
<1>3. \A i, j \in Nat : <<j, i>> \in LessThan <=> j < i
  BY DEF LessThan
<1>4. PICK i \in S : \A j \in S : ~(<<j, i>> \in LessThan)
  BY <1>2
<1>5. \A j \in S : i <= j
  <2>. TAKE j \in S
  <2>1. i \in Nat /\ j \in Nat /\ ~(j < i)
    BY <1>3, <1>4
  <2>. QED
    BY <2>1
<1>. QED
  BY <1>5

LEMMA AfterProperties ==
  ASSUME TypeOK, NEW i \in Nat
  PROVE  After(i) \in (Alarms \ freed) \cup {End}
<1>. DEFINE rest == {j \in i + 1 .. Len(Order) : Order[j] \notin freed}
            h == CHOOSE j \in rest : \A k \in rest : j <= k
<1>1. Order \in Seq(Alarms) /\ Len(Order) \in Nat
  BY OrderAssumption, LenProperties
<1>2. CASE rest = {}
  BY <1>2 DEF After
<1>3. CASE rest # {}
  <2>1. rest \subseteq Nat /\ \A j \in rest : j \in 1 .. Len(Order)
    BY <1>1
  <2>2. h \in rest
    <3>1. \E j \in rest : \A k \in rest : j <= k
      BY <1>3, <2>1, SmallestOfNat
    <3>. QED
      BY <3>1
  <2>3. After(i) = Order[h]
    BY <1>3 DEF After
  <2>. HIDE DEF h
  <2>4. Order[h] \in Alarms /\ Order[h] \notin freed
    BY <1>1, <2>1, <2>2, ElementOfSeq
  <2>. QED
    BY <2>3, <2>4
<1>. QED
  BY <1>2, <1>3

LEMMA AfterEnd ==
  ASSUME TypeOK
  PROVE  End \notin freed
  BY AlarmsAssumption DEF TypeOK

LEMMA PlaceProperties ==
  ASSUME NEW a \in Alarms
  PROVE  Place(a) \in Nat
<1>1. Order \in Seq(Alarms) /\ Len(Order) \in Nat
  BY OrderAssumption, LenProperties
<1>2. \E i \in 1 .. Len(Order) : Order[i] = a
  BY OrderAssumption
<1>3. Place(a) \in 1 .. Len(Order)
  BY <1>2 DEF Place
<1>. QED
  BY <1>1, <1>3

-----------------------------------------------------------------------------
(* Type correctness                                                        *)

LEMMA LeaveFacts ==
  ASSUME TypeOK, NEW k \in Ackers, Leave(k)
  PROVE  /\ apc' \in [Ackers -> TaskAt] /\ apc'[k] \in {"run", "clear"}
         /\ hand' \in [Ackers -> Answers] /\ hand'[k] = Blank
         /\ \A j \in Ackers : j # k => apc'[j] = apc[j] /\ hand'[j] = hand[j]
<1>1. Blank \in Answers
  BY DEF Blank, Answers
<1>2. apc \in [Ackers -> TaskAt]
  BY DEF TypeOK, TaskAt
<1>. QED
  BY <1>1, <1>2 DEF TypeOK, Leave, TaskAt

\* A search that goes on to b, which is in the list or its end.
LEMMA SeekFacts ==
  ASSUME TypeOK, NEW k \in Ackers, NEW b \in Alarms \cup {End}, Seek(k, b)
  PROVE  /\ apc' \in [Ackers -> TaskAt] /\ apc'[k] \in {"run", "clear", "seek"}
         /\ apc'[k] = "seek" => node'[k] = b /\ b # End /\ hand'[k] = hand[k]
         /\ hand' \in [Ackers -> Answers] /\ hand'[k] \in {hand[k], Blank}
         /\ node' \in [Ackers -> Alarms \cup {End}]
         /\ \A j \in Ackers : j # k =>
              apc'[j] = apc[j] /\ hand'[j] = hand[j] /\ node'[j] = node[j]
<1>1. node' \in [Ackers -> Alarms \cup {End}] /\ node'[k] = b
      /\ \A j \in Ackers : j # k => node'[j] = node[j]
  BY DEF TypeOK, Seek
<1>2. CASE b = End
  BY <1>1, <1>2, LeaveFacts DEF Seek
<1>3. CASE b # End
  <2>1. apc \in [Ackers -> TaskAt]
    BY DEF TypeOK, TaskAt
  <2>. QED
    BY <1>1, <1>3, <2>1 DEF Seek, TypeOK, TaskAt
<1>. QED
  BY <1>2, <1>3

LEMMA TypeStep ==
  ASSUME TypeOK, GridInv, [Next]_vars
  PROVE  TypeOK'
<1>. USE DEF pollVars, ackVars, askVars, histVars
<1>0. /\ Start \in [Alarms -> Int] /\ Interval \in [Alarms -> Nat]
      /\ End \notin Alarms /\ Dat \in [Alarms -> Data] /\ MaxAsks \in Nat
      /\ MaxNow \in Nat
  BY AlarmsAssumption, BoundsAssumption
<1>00. /\ ppc # "sleep" => at \in Alarms
       /\ \A k \in Ackers : Working(k) => hand[k].alarm \in Alarms
  BY DEF TypeOK, GridInv
<1>1. CASE Tick
  <2>1. now' \in 0 .. MaxNow
    BY <1>0, <1>1 DEF Tick, TypeOK
  <2>. QED
    BY <1>1, <2>1 DEF Tick, TypeOK
<1>2. CASE PollStart \/ PollNext
  <2>1. at' \in Alarms \cup {End}
    <3>1. CASE PollStart
      BY <3>1, AfterProperties DEF PollStart
    <3>2. CASE PollNext
      <4>1. Place(at) \in Nat
        BY <1>00, <3>2, PlaceProperties DEF PollNext
      <4>. QED
        BY <3>2, <4>1, AfterProperties DEF PollNext
    <3>. QED
      BY <1>2, <3>1, <3>2
  <2>2. ppc' = IF at' = End THEN "sleep" ELSE "look"
    BY <1>2 DEF PollStart, PollNext
  <2>3. wild' \in BOOLEAN
    BY <1>2 DEF PollStart, PollNext, Touch, TypeOK
  <2>. QED
    BY <1>2, <2>1, <2>2, <2>3 DEF PollStart, PollNext, TypeOK
<1>3. CASE PollLook
  <2>1. met' \in [Alarms -> BOOLEAN] /\ wild' \in BOOLEAN
    BY <1>3 DEF PollLook, Meet, Touch, TypeOK
  <2>. QED
    BY <1>00, <1>3, <2>1 DEF PollLook, TypeOK
<1>4. CASE PollWindow
  <2>1. want' \in Int /\ wild' \in BOOLEAN
    BY <1>00, <1>4 DEF PollWindow, Touch, TypeOK
  <2>2. ppc' \in {"send", "add", "drop"}
    BY <1>4 DEF PollWindow
  <2>. QED
    BY <1>00, <1>4, <2>1, <2>2 DEF PollWindow, TypeOK
<1>5. CASE PollSend
  <2>1. asked' \in [Alarms -> SUBSET Int] /\ wild' \in BOOLEAN
    BY <1>00, <1>5 DEF PollSend, Touch, TypeOK
  <2>2. sent' \in 0 .. MaxAsks
        /\ asks' \subseteq [alarm : Alarms, due : Int, num : 1 .. MaxAsks]
    <3>1. at \in Alarms /\ want \in Int /\ sent \in 0 .. MaxAsks
          /\ asks \subseteq [alarm : Alarms, due : Int, num : 1 .. MaxAsks]
      BY <1>00, <1>5 DEF PollSend, TypeOK
    <3>2. CASE UNCHANGED <<asks, sent>>
      BY <3>1, <3>2
    <3>3. CASE /\ sent < MaxAsks /\ sent' = sent + 1
               /\ asks' = asks \cup {[alarm |-> at, due |-> want, num |-> sent + 1]}
      <4>1. sent + 1 \in 1 .. MaxAsks
        BY <1>0, <3>1, <3>3
      <4>. QED
        BY <1>0, <3>1, <3>3, <4>1
    <3>. QED
      BY <1>5, <3>2, <3>3 DEF PollSend
  <2>. QED
    BY <1>00, <1>5, <2>1, <2>2 DEF PollSend, TypeOK
<1>6. CASE PollAdd
  <2>1. reg' \in [Actors -> Int] /\ wild' \in BOOLEAN
    BY <1>00, <1>6 DEF PollAdd, Touch, TypeOK
  <2>. QED
    BY <1>00, <1>6, <2>1 DEF PollAdd, TypeOK
<1>7. CASE PollStore
  <2>1. time' \in [Alarms -> Int] /\ wild' \in BOOLEAN /\ reg' \in [Actors -> Int]
    BY <1>0, <1>00, <1>7 DEF PollStore, Touch, TypeOK, Actors
  <2>. QED
    BY <1>00, <1>7, <2>1 DEF PollStore, TypeOK
<1>8. CASE PollDrop
  <2>1. freed' \subseteq Alarms /\ wild' \in BOOLEAN
    BY <1>00, <1>8 DEF PollDrop, Touch, TypeOK
  <2>. QED
    BY <1>00, <1>8, <2>1 DEF PollDrop, TypeOK
<1>9. ASSUME NEW k \in Ackers, AckTake(k) PROVE TypeOK'
  <2>1. sem' \in [Ackers -> Nat]
    <3>1. sem \in [Ackers -> Nat] /\ sem[k] > 0
          /\ sem' = [sem EXCEPT ![k] = sem[k] - 1]
      BY <1>9 DEF AckTake, TypeOK
    <3>. QED
      BY <3>1
  <2>2. /\ hand' \in [Ackers -> Answers] /\ apc' \in [Ackers -> TaskAt]
        /\ \A j \in Ackers : apc'[j] = "seek" => apc[j] = "seek"
    <3>1. CASE Leave(k)
      BY <3>1, LeaveFacts
    <3>2. CASE apc' = [apc EXCEPT ![k] = "head"] /\ hand' = [hand EXCEPT ![k] = box[k]]
      BY <3>2 DEF TypeOK, TaskAt
    <3>. QED
      BY <1>9, <3>1, <3>2 DEF AckTake
  <2>. QED
    BY <1>9, <2>1, <2>2 DEF AckTake, TypeOK, TaskAt
<1>91. ASSUME NEW k \in Ackers, AckHead(k) \/ AckSeek(k) PROVE TypeOK'
  <2>1. apc[k] = "seek" => node[k] \in Alarms
    BY DEF TypeOK
  <2>2. ASSUME NEW b \in Alarms \cup {End}, Seek(k, b)
        PROVE  /\ hand' \in [Ackers -> Answers] /\ apc' \in [Ackers -> TaskAt]
               /\ node' \in [Ackers -> Alarms \cup {End}]
               /\ \A j \in Ackers : apc'[j] = "seek" => node'[j] # End
    BY <2>2, SeekFacts DEF TypeOK
  <2>3. CASE apc' = [apc EXCEPT ![k] = "check"] /\ node' = [node EXCEPT ![k] = End]
               /\ hand' = hand
    <3>1. apc' \in [Ackers -> TaskAt] /\ node' \in [Ackers -> Alarms \cup {End}]
      BY <2>3 DEF TypeOK, TaskAt
    <3>2. \A j \in Ackers : apc'[j] = "seek" => node'[j] # End
      BY <2>3 DEF TypeOK
    <3>3. wild' \in BOOLEAN
      BY <1>91 DEF AckHead, AckSeek, Touch, TypeOK
    <3>. QED
      BY <1>91, <2>3, <3>1, <3>2, <3>3 DEF AckHead, AckSeek, TypeOK, TaskAt
  <2>4. ASSUME NEW b \in Alarms \cup {End}, Seek(k, b) PROVE TypeOK'
    <3>1. wild' \in BOOLEAN
      BY <1>91 DEF AckHead, AckSeek, Touch, TypeOK
    <3>. QED
      BY <1>91, <2>2, <2>4, <3>1 DEF AckHead, AckSeek, TypeOK, TaskAt
  <2>5. CASE AckHead(k)
    BY <2>4, <2>5, AfterProperties DEF AckHead
  <2>6. CASE AckSeek(k)
    <3>1. Place(node[k]) \in Nat
      BY <2>1, <2>6, PlaceProperties DEF AckSeek
    <3>. QED
      BY <2>3, <2>4, <2>6, <3>1, AfterProperties DEF AckSeek
  <2>. QED
    BY <1>91, <2>5, <2>6
<1>10. ASSUME NEW k \in Ackers, AckCheck(k) PROVE TypeOK'
  <2>1. PICK ok : Accept(k, ok)
    BY <1>10 DEF AckCheck
  <2>2. hand[k].alarm \in Alarms
    BY <1>00, <2>1 DEF Accept, Working
  <2>3. /\ apc' \in [Ackers -> TaskAt] /\ hand' \in [Ackers -> Answers]
        /\ \A j \in Ackers : apc'[j] = "seek" => apc[j] = "seek"
    <3>1. CASE ok
      BY <2>1, <3>1 DEF Accept, TypeOK, TaskAt
    <3>2. CASE ~ok
      BY <2>1, <3>2, LeaveFacts DEF Accept
    <3>. QED
      BY <3>1, <3>2
  <2>4. met' \in [Alarms -> BOOLEAN] /\ wild' \in BOOLEAN
    BY <2>1, <2>2 DEF Accept, Meet, Touch, TypeOK
  <2>5. late' \in [Alarms -> BOOLEAN]
    BY <2>1, <2>2 DEF Accept, Late, TypeOK
  <2>. QED
    BY <2>1, <2>3, <2>4, <2>5 DEF Accept, TypeOK, TaskAt
<1>11. ASSUME NEW k \in Ackers, AckAdd(k) PROVE TypeOK'
  <2>1. hand[k].alarm \in Alarms
    BY <1>00, <1>11 DEF AckAdd, Working
  <2>2. reg' \in [Actors -> Int] /\ wild' \in BOOLEAN /\ apc' \in [Ackers -> TaskAt]
        /\ \A j \in Ackers : apc'[j] = "seek" => apc[j] = "seek"
    BY <1>11, <2>1 DEF AckAdd, Touch, TypeOK, TaskAt
  <2>. QED
    BY <1>11, <2>2 DEF AckAdd, TypeOK, TaskAt
<1>12. ASSUME NEW k \in Ackers, AckStore(k) PROVE TypeOK'
  <2>1. hand[k].alarm \in Alarms /\ k \in Actors
    BY <1>00, <1>12 DEF AckStore, Working, Actors
  <2>2. time' \in [Alarms -> Int] /\ wild' \in BOOLEAN /\ reg' \in [Actors -> Int]
    BY <1>0, <1>12, <2>1 DEF AckStore, Touch, TypeOK
  <2>3. acked' \in [Alarms -> SUBSET Int]
    BY <1>12, <2>1 DEF AckStore, TypeOK
  <2>4. /\ apc' \in [Ackers -> TaskAt] /\ hand' \in [Ackers -> Answers]
        /\ \A j \in Ackers : apc'[j] = "seek" => apc[j] = "seek"
    BY <1>12, LeaveFacts DEF AckStore
  <2>. QED
    BY <1>12, <2>2, <2>3, <2>4 DEF AckStore, TypeOK, TaskAt
<1>13. ASSUME NEW k \in Ackers, AckDrop(k) PROVE TypeOK'
  <2>1. hand[k].alarm \in Alarms
    BY <1>00, <1>13 DEF AckDrop, Working
  <2>2. freed' \subseteq Alarms /\ wild' \in BOOLEAN /\ watched' \in BOOLEAN
    BY <1>13, <2>1 DEF AckDrop, Touch, TypeOK
  <2>3. /\ apc' \in [Ackers -> TaskAt] /\ hand' \in [Ackers -> Answers]
        /\ \A j \in Ackers : apc'[j] = "seek" => apc[j] = "seek"
    BY <1>13, LeaveFacts DEF AckDrop
  <2>. QED
    BY <1>13, <2>2, <2>3 DEF AckDrop, TypeOK, TaskAt
<1>14. ASSUME NEW k \in Ackers, AckClear(k) PROVE TypeOK'
  <2>1. Blank \in Answers
    BY DEF Blank, Answers
  <2>. QED
    BY <1>14, <2>1 DEF AckClear, TypeOK
<1>15. CASE Answer
  <2>1. PICK r \in asks :
          \E d \in IF r.alarm \in Params THEN Data ELSE {Dat[r.alarm]} :
            box' = [k \in Ackers |-> [alarm |-> r.alarm, due |-> r.due, dat |-> d]]
    BY <1>15 DEF Answer
  <2>2. r.alarm \in Alarms /\ r.due \in Int
    BY DEF TypeOK
  <2>3. PICK d \in Data :
          box' = [k \in Ackers |-> [alarm |-> r.alarm, due |-> r.due, dat |-> d]]
    BY <1>0, <2>1, <2>2
  <2>4. box' \in [Ackers -> Answers]
    BY <2>2, <2>3 DEF Answers
  <2>5. sem' \in [Ackers -> Nat] /\ asks' \subseteq asks
    BY <1>15 DEF Answer, TypeOK
  <2>. QED
    BY <1>15, <2>4, <2>5 DEF Answer, TypeOK
<1>16. CASE UNCHANGED vars
  BY <1>16 DEF vars, TypeOK
<1>17. CASE Lsa
  <2>1. lsa' \in Alarms \cup {End} /\ wild' \in BOOLEAN
    BY <1>17 DEF Lsa, LsaReach, LsaLeave, Touch, TypeOK
  <2>. QED
    BY <1>17, <2>1 DEF Lsa, LsaReach, LsaLeave, TypeOK
<1>. QED
  BY <1>1, <1>2, <1>3, <1>4, <1>5, <1>6, <1>7, <1>8, <1>9, <1>91, <1>10, <1>11,
     <1>12, <1>13, <1>14, <1>15, <1>16, <1>17 DEF Next, Poll, Ack

-----------------------------------------------------------------------------
(* The grid                                                                *)

LEMMA GridNext ==
  ASSUME NEW a \in Alarms, NEW t \in Int, OnGrid(a, t), Interval[a] > 0
  PROVE  OnGrid(a, t + Interval[a])
<1>1. Interval[a] \in Nat /\ Start[a] \in Int
  BY AlarmsAssumption
<1>2. PICK n \in 0 .. t - Start[a] : t = Start[a] + n * Interval[a]
  BY DEF OnGrid
<1>3. n + 1 \in 0 .. (t + Interval[a]) - Start[a]
  BY <1>1
<1>4. (n + 1) * Interval[a] = n * Interval[a] + Interval[a]
  BY <1>1, <1>2
<1>5. n * Interval[a] \in Int
  BY <1>1
<1>6. t + Interval[a] = Start[a] + (n + 1) * Interval[a]
  BY <1>1, <1>2, <1>4, <1>5
<1>. QED
  BY <1>3, <1>6 DEF OnGrid

\* GridInv of the alarms and of one thread depends on what it is about alone.
LEMMA GridFrame ==
  ASSUME TypeOK, TypeOK', GridInv, UNCHANGED time,
         \/ UNCHANGED <<ppc, at, reg>>
         \/ ppc' \notin {"add", "store"}
         \/ ppc' = "add" /\ Interval[at'] > 0
         \/ ppc' = "store" /\ Interval[at'] > 0 /\ reg'["poll"] = time[at']
               /\ at' \in Alarms,
         \A k \in Ackers :
           \/ /\ apc'[k] = apc[k] /\ hand'[k] = hand[k] /\ reg'[k] = reg[k]
           \/ apc'[k] \in {"run", "clear"}
           \/ hand'[k].alarm \in Alarms /\
                 \/ apc'[k] \in {"head", "seek", "check", "drop"}
                 \/ Interval[hand'[k].alarm] > 0 /\ apc'[k] = "add"
                 \/ Interval[hand'[k].alarm] > 0 /\ apc'[k] = "store"
                      /\ reg'[k] = time[hand'[k].alarm]
  PROVE  GridInv'
<1>1. PhaseKept'
  BY DEF GridInv, PhaseKept, OnGrid
<1>2. (ppc \in {"add", "store"} => Interval[at] > 0)'
  BY DEF GridInv
<1>3. (ppc = "store" => OnGrid(at, reg["poll"]))'
  BY DEF GridInv, PhaseKept, OnGrid
<1>4. ASSUME NEW k \in Ackers
      PROVE  (/\ Working(k) => hand[k].alarm \in Alarms
              /\ apc[k] \in {"add", "store"} => Interval[hand[k].alarm] > 0
              /\ apc[k] = "store" => OnGrid(hand[k].alarm, reg[k]))'
  BY <1>4 DEF GridInv, PhaseKept, Working, OnGrid
<1>. QED
  BY <1>1, <1>2, <1>3, <1>4 DEF GridInv

LEMMA GridStep ==
  ASSUME TypeOK, TypeOK', GridInv, [Next]_vars
  PROVE  GridInv'
<1>. USE DEF pollVars, ackVars, askVars, histVars
<1>0. /\ Interval \in [Alarms -> Nat]
      /\ ppc # "sleep" => at \in Alarms
      /\ \A k \in Ackers : Working(k) => hand[k].alarm \in Alarms
  BY AlarmsAssumption DEF TypeOK, GridInv
<1>00. "poll" \notin Ackers /\ "poll" \in Actors /\ \A k \in Ackers : k \in Actors
  BY DEF Ackers, Actors
<1>1. CASE Tick
  BY <1>1, GridFrame DEF Tick
<1>2. CASE PollStart \/ PollNext
  <2>1. ppc' \notin {"add", "store"}
    BY <1>2 DEF PollStart, PollNext
  <2>. QED
    BY <1>2, <2>1, GridFrame DEF PollStart, PollNext
<1>3. CASE PollLook
  BY <1>3, GridFrame DEF PollLook
<1>4. CASE PollWindow
  BY <1>4, GridFrame DEF PollWindow
<1>5. CASE PollSend
  BY <1>5, GridFrame DEF PollSend
<1>6. CASE PollAdd
  <2>1. reg'["poll"] = time[at] /\ \A k \in Ackers : reg'[k] = reg[k]
    BY <1>00, <1>6 DEF PollAdd, TypeOK
  <2>2. Interval[at] > 0 /\ at \in Alarms
    BY <1>0, <1>6 DEF PollAdd, GridInv
  <2>. QED
    BY <1>6, <2>1, <2>2, GridFrame DEF PollAdd
<1>7. CASE PollStore
  <2>1. /\ at \in Alarms /\ Interval[at] > 0 /\ OnGrid(at, reg["poll"])
        /\ reg["poll"] \in Int
    BY <1>0, <1>00, <1>7 DEF PollStore, GridInv, TypeOK
  <2>2. OnGrid(at, reg["poll"] + Interval[at])
    BY <2>1, GridNext
  <2>3. PhaseKept'
    <3>1. \A a \in Alarms : time'[a] = IF a = at THEN reg["poll"] + Interval[at]
                                       ELSE time[a]
      BY <1>7 DEF PollStore, TypeOK
    <3>. QED
      BY <2>2, <3>1 DEF PhaseKept, GridInv, OnGrid
  <2>4. ppc' = "next" /\ \A k \in Ackers : reg'[k] = reg[k]
    BY <1>00, <1>7 DEF PollStore, TypeOK
  <2>5. UNCHANGED <<apc, hand>>
    BY <1>7 DEF PollStore
  <2>. QED
    BY <2>3, <2>4, <2>5 DEF GridInv, Working, OnGrid
<1>8. CASE PollDrop
  BY <1>8, GridFrame DEF PollDrop
<1>9. ASSUME NEW k \in Ackers, AckTake(k) PROVE GridInv'
  <2>1. \A j \in Ackers : j # k => apc'[j] = apc[j] /\ hand'[j] = hand[j]
    BY <1>9 DEF AckTake, Leave, TypeOK
  <2>2. \/ apc'[k] \in {"run", "clear"}
        \/ hand'[k].alarm \in Alarms /\ apc'[k] = "head"
    BY <1>9 DEF AckTake, TypeOK, Leave, Answers
  <2>. QED
    BY <1>9, <2>1, <2>2, GridFrame DEF AckTake
<1>91. ASSUME NEW k \in Ackers, AckHead(k) \/ AckSeek(k) PROVE GridInv'
  <2>1. \A j \in Ackers : j # k => apc'[j] = apc[j] /\ hand'[j] = hand[j]
    BY <1>91 DEF AckHead, AckSeek, Seek, Leave, TypeOK
  <2>2. \/ apc'[k] \in {"run", "clear"}
        \/ hand'[k] = hand[k] /\ apc'[k] \in {"seek", "check"}
    BY <1>91 DEF AckHead, AckSeek, Seek, TypeOK, Leave
  <2>3. hand[k].alarm \in Alarms
    BY <1>0, <1>91 DEF AckHead, AckSeek, Working
  <2>. QED
    BY <1>91, <2>1, <2>2, <2>3, GridFrame DEF AckHead, AckSeek
<1>10. ASSUME NEW k \in Ackers, AckCheck(k) PROVE GridInv'
  <2>1. PICK ok : Accept(k, ok)
    BY <1>10 DEF AckCheck
  <2>2. hand[k].alarm \in Alarms
    BY <1>0, <2>1 DEF Accept, Working
  <2>3. \A j \in Ackers : j # k => apc'[j] = apc[j] /\ hand'[j] = hand[j]
    BY <2>1 DEF Accept, Leave, TypeOK
  <2>4. \/ apc'[k] \in {"run", "clear"}
        \/ /\ hand' = hand
           /\ apc'[k] = "drop" \/ (Interval[hand[k].alarm] > 0 /\ apc'[k] = "add")
    BY <2>1 DEF Accept, TypeOK, Leave
  <2>. QED
    BY <2>1, <2>2, <2>3, <2>4, GridFrame DEF Accept
<1>11. ASSUME NEW k \in Ackers, AckAdd(k) PROVE GridInv'
  <2>1. hand[k].alarm \in Alarms /\ Interval[hand[k].alarm] > 0
    BY <1>0, <1>11 DEF AckAdd, Working, GridInv
  <2>2. reg'[k] = time[hand[k].alarm] /\ \A j \in Actors : j # k => reg'[j] = reg[j]
    BY <1>00, <1>11 DEF AckAdd, TypeOK
  <2>3. apc'[k] = "store" /\ \A j \in Ackers : j # k => apc'[j] = apc[j]
    BY <1>11 DEF AckAdd, TypeOK
  <2>4. k # "poll"
    BY <1>00
  <2>5. reg'["poll"] = reg["poll"]
    BY <1>00, <2>2, <2>4
  <2>6. \A j \in Ackers : \/ apc'[j] = apc[j] /\ hand'[j] = hand[j] /\ reg'[j] = reg[j]
                          \/ /\ hand'[j].alarm \in Alarms
                             /\ Interval[hand'[j].alarm] > 0
                             /\ apc'[j] = "store" /\ reg'[j] = time[hand'[j].alarm]
    BY <1>00, <1>11, <2>1, <2>2, <2>3 DEF AckAdd
  <2>7. UNCHANGED <<time, ppc, at>>
    BY <1>11 DEF AckAdd
  <2>8. PhaseKept'
    BY <2>7 DEF GridInv, PhaseKept, OnGrid
  <2>. QED
    BY <2>5, <2>6, <2>7, <2>8 DEF GridInv, PhaseKept, Working, OnGrid
<1>12. ASSUME NEW k \in Ackers, AckStore(k) PROVE GridInv'
  <2>. DEFINE a == hand[k].alarm
  <2>1. a \in Alarms /\ Interval[a] > 0 /\ OnGrid(a, reg[k]) /\ reg[k] \in Int
    BY <1>0, <1>00, <1>12 DEF AckStore, Working, GridInv, TypeOK
  <2>2. OnGrid(a, reg[k] + Interval[a])
    BY <2>1, GridNext
  <2>3. PhaseKept'
    <3>1. \A b \in Alarms : time'[b] = IF b = a THEN reg[k] + Interval[a]
                                       ELSE time[b]
      BY <1>12 DEF AckStore, TypeOK
    <3>. QED
      BY <2>2, <3>1 DEF PhaseKept, GridInv, OnGrid
  <2>4. /\ apc'[k] \in {"run", "clear"}
        /\ \A j \in Ackers : j # k => apc'[j] = apc[j] /\ hand'[j] = hand[j]
        /\ \A j \in Actors : j # k => reg'[j] = reg[j]
    BY <1>00, <1>12 DEF AckStore, TypeOK, Leave
  <2>5. k # "poll" /\ UNCHANGED <<ppc, at>>
    BY <1>00, <1>12 DEF AckStore
  <2>. QED
    BY <1>00, <2>3, <2>4, <2>5 DEF GridInv, Working, OnGrid
<1>13. ASSUME NEW k \in Ackers, AckDrop(k) PROVE GridInv'
  <2>1. /\ apc'[k] \in {"run", "clear"}
        /\ \A j \in Ackers : j # k => apc'[j] = apc[j] /\ hand'[j] = hand[j]
    BY <1>13 DEF AckDrop, TypeOK, Leave
  <2>. QED
    BY <1>13, <2>1, GridFrame DEF AckDrop
<1>14. ASSUME NEW k \in Ackers, AckClear(k) PROVE GridInv'
  <2>1. /\ apc'[k] \in {"run", "clear"}
        /\ \A j \in Ackers : j # k => apc'[j] = apc[j]
    BY <1>14 DEF AckClear, TypeOK
  <2>. QED
    BY <1>14, <2>1, GridFrame DEF AckClear
<1>15. CASE Answer
  <2>1. UNCHANGED <<time, ppc, at, reg, apc, hand>>
    BY <1>15 DEF Answer
  <2>. QED
    BY <2>1, GridFrame
<1>16. CASE UNCHANGED vars \/ Lsa
  <2>1. UNCHANGED <<time, ppc, at, reg, apc, hand>>
    BY <1>16 DEF vars, Lsa, LsaReach, LsaLeave
  <2>. QED
    BY <2>1, GridFrame
<1>. QED
  BY <1>1, <1>2, <1>3, <1>4, <1>5, <1>6, <1>7, <1>8, <1>9, <1>91, <1>10, <1>11,
     <1>12, <1>13, <1>14, <1>15, <1>16 DEF Next, Poll, Ack

-----------------------------------------------------------------------------
(* Who moves an alarm                                                      *)

LEMMA MoveFrame ==
  ASSUME TypeOK, TypeOK', NEW a \in Alarms, MoveAt(a),
         time'[a] = time[a], now <= now',
         \A k \in Actors : Moving(k, a)' => Moving(k, a),
         Moving("poll", a)' /\ ppc' = "store" =>
           \/ ppc = "store" /\ reg'["poll"] = reg["poll"]
           \/ reg'["poll"] = time[a],
         \A k \in Ackers : Moving(k, a)' /\ apc'[k] = "store" =>
           \/ apc[k] = "store" /\ reg'[k] = reg[k]
           \/ reg'[k] = time[a]
  PROVE  MoveAt(a)'
<1>0. "poll" \in Actors /\ (\A k \in Ackers : k \in Actors)
  BY DEF Actors
<1>00. time \in [Alarms -> Int] /\ now \in Int /\ now' \in Int
  BY DEF TypeOK
<1>1. (\A j, k \in Actors : Moving(j, a) /\ Moving(k, a) => j = k)'
  BY DEF MoveAt
<1>2. (\A k \in Actors : Moving(k, a) => time[a] < now)'
  <2>. SUFFICES ASSUME NEW k \in Actors, Moving(k, a)' PROVE time'[a] < now'
    OBVIOUS
  <2>1. time[a] < now /\ time[a] \in Int
    BY <1>00 DEF MoveAt
  <2>. QED
    BY <1>00, <2>1
<1>3. (Moving("poll", a) /\ ppc = "store" => reg["poll"] = time[a])'
  BY <1>0 DEF MoveAt
<1>4. (\A k \in Ackers : Moving(k, a) /\ apc[k] = "store" => reg[k] = time[a])'
  BY <1>0 DEF MoveAt
<1>. QED
  BY <1>1, <1>2, <1>3, <1>4 DEF MoveAt

\* Nobody moves an alarm that was just stored.
LEMMA MoveNobody ==
  ASSUME NEW a \in Alarms, \A k \in Actors : ~Moving(k, a)'
  PROVE  MoveAt(a)'
  BY DEF MoveAt, Actors

\* Somebody starts to move an alarm that is due and that nobody moves.
LEMMA MoveStart ==
  ASSUME TypeOK, NEW a \in Alarms, NEW k \in Actors,
         time' = time, now' = now, time[a] < now,
         \A j \in Actors : j # k => ~Moving(j, a)',
         Moving("poll", a)' => ppc' # "store",
         \A j \in Ackers : Moving(j, a)' => apc'[j] # "store"
  PROVE  MoveAt(a)'
  BY DEF MoveAt, Actors

LEMMA MetStays ==
  ASSUME TypeOK, GridInv, [Next]_vars, NEW a \in Alarms, ~met'[a]
  PROVE  ~met[a]
<1>. USE DEF pollVars, ackVars, askVars, histVars
<1>1. CASE met' = met
  BY <1>1
<1>2. CASE PollLook
  BY <1>2 DEF PollLook, Meet, TypeOK
<1>3. ASSUME NEW k \in Ackers, AckCheck(k) PROVE ~met[a]
  <2>1. PICK ok : Accept(k, ok)
    BY <1>3 DEF AckCheck
  <2>. QED
    BY <2>1 DEF Accept, Meet, TypeOK
<1>4. CASE Tick \/ Lsa \/ Answer \/ UNCHANGED vars
  BY <1>1, <1>4 DEF Tick, Lsa, LsaReach, LsaLeave, Answer, vars
<1>5. CASE Poll
  BY <1>1, <1>2, <1>5 DEF Poll, PollStart, PollWindow, PollSend, PollAdd,
     PollStore, PollDrop, PollNext
<1>6. ASSUME NEW k \in Ackers, Ack(k) PROVE ~met[a]
  BY <1>1, <1>3, <1>6 DEF Ack, AckTake, AckHead, AckSeek, Seek, Leave, AckAdd,
     AckStore, AckDrop, AckClear
<1>. QED
  BY <1>4, <1>5, <1>6 DEF Next

LEMMA MoveStep ==
  ASSUME TypeOK, TypeOK', GridInv, MoveInv, [Next]_vars
  PROVE  MoveInv'
<1>. USE DEF pollVars, ackVars, askVars, histVars
<1>. SUFFICES ASSUME NEW a \in Alarms, ~met'[a] PROVE MoveAt(a)'
  BY DEF MoveInv
<1>0. MoveAt(a) /\ ~met[a]
  BY MetStays DEF MoveInv
<1>00. /\ "poll" \notin Ackers /\ "poll" \in Actors
       /\ \A k \in Ackers : k \in Actors /\ k # "poll"
       /\ \A k \in Actors : k # "poll" => k \in Ackers
       /\ now \in Int /\ time \in [Alarms -> Int]
       /\ ppc # "sleep" => at \in Alarms
       /\ \A k \in Ackers : Working(k) => hand[k].alarm \in Alarms
  BY DEF Ackers, Actors, TypeOK, GridInv
<1>1. CASE Tick
  BY <1>0, <1>00, <1>1, MoveFrame DEF Tick, Moving
<1>2. CASE PollStart \/ PollNext \/ PollSend \/ PollDrop
  <2>1. ppc' \in {"sleep", "look", "next"}
        /\ UNCHANGED <<now, time, apc, hand, reg>>
    BY <1>2 DEF PollStart, PollNext, PollSend, PollDrop
  <2>2. \A k \in Actors : Moving(k, a)' => Moving(k, a)
    BY <1>00, <2>1 DEF Moving
  <2>. QED
    BY <1>0, <1>00, <2>1, <2>2, MoveFrame
<1>3. CASE PollLook
  <2>1. CASE now > time[at] /\ at = a
    <3>1. met'[a] = (met[a] \/ Movers(a) \ {"poll"} # {})
      BY <1>3, <2>1 DEF PollLook, Meet, TypeOK
    <3>2. \A k \in Ackers : k \notin Movers(a)
      BY <1>00, <3>1
    <3>3. \A k \in Ackers : ~Moving(k, a)
      BY <1>00, <3>2 DEF Moving, Movers, Holders
    <3>4. \A k \in Actors : k # "poll" => ~Moving(k, a)'
      BY <1>00, <1>3, <3>3 DEF Moving, PollLook
    <3>. QED
      BY <1>00, <1>3, <2>1, <3>4, MoveStart DEF PollLook, Moving
  <2>2. CASE ~(now > time[at] /\ at = a)
    <3>1. ~Moving("poll", a)'
      BY <1>3, <2>2 DEF PollLook, Moving
    <3>2. \A k \in Actors : Moving(k, a)' => Moving(k, a)
      BY <1>00, <1>3, <3>1 DEF PollLook, Moving
    <3>. QED
      BY <1>0, <1>00, <1>3, <3>1, <3>2, MoveFrame DEF PollLook
  <2>. QED
    BY <2>1, <2>2
<1>4. CASE PollWindow
  <2>1. \A k \in Actors : Moving(k, a)' => Moving(k, a)
    BY <1>00, <1>4 DEF PollWindow, Moving
  <2>. QED
    BY <1>0, <1>00, <1>4, <2>1, MoveFrame DEF PollWindow
<1>6. CASE PollAdd
  <2>1. \A k \in Actors : Moving(k, a)' => Moving(k, a)
    BY <1>00, <1>6 DEF PollAdd, Moving
  <2>2. reg'["poll"] = time[at] /\ \A k \in Ackers : reg'[k] = reg[k]
    BY <1>00, <1>6 DEF PollAdd, TypeOK
  <2>3. Moving("poll", a)' => at = a
    BY <1>6 DEF PollAdd, Moving
  <2>. QED
    BY <1>0, <1>00, <1>6, <2>1, <2>2, <2>3, MoveFrame DEF PollAdd
<1>7. CASE PollStore
  <2>1. CASE at = a
    <3>1. Moving("poll", a)
      BY <1>7, <2>1 DEF PollStore, Moving
    <3>2. \A k \in Actors : ~Moving(k, a)'
      BY <1>0, <1>00, <1>7, <3>1 DEF MoveAt, PollStore, Moving
    <3>. QED
      BY <3>2, MoveNobody
  <2>2. CASE at # a
    <3>1. time'[a] = time[a]
      BY <1>7, <2>2 DEF PollStore, TypeOK
    <3>2. \A k \in Actors : Moving(k, a)' => Moving(k, a)
      BY <1>00, <1>7 DEF PollStore, Moving
    <3>. QED
      BY <1>0, <1>00, <1>7, <3>1, <3>2, MoveFrame DEF PollStore
  <2>. QED
    BY <2>1, <2>2
<1>9. ASSUME NEW k \in Ackers,
             AckTake(k) \/ AckHead(k) \/ AckSeek(k) \/ AckDrop(k) \/ AckClear(k)
      PROVE  MoveAt(a)'
  <2>1. /\ apc'[k] \in {"run", "clear", "head", "seek", "check"}
        /\ \A j \in Ackers : j # k => apc'[j] = apc[j] /\ hand'[j] = hand[j]
        /\ UNCHANGED <<now, time, ppc, at, reg>>
    BY <1>9
    DEF AckTake, AckHead, AckSeek, Seek, AckDrop, AckClear, TypeOK, Leave
  <2>2. \A j \in Actors : Moving(j, a)' => Moving(j, a)
    BY <1>00, <2>1 DEF Moving
  <2>. QED
    BY <1>0, <1>00, <2>1, <2>2, MoveFrame
<1>10. ASSUME NEW k \in Ackers, AckCheck(k) PROVE MoveAt(a)'
  <2>. DEFINE b == hand[k].alarm
  <2>1. PICK ok : Accept(k, ok) /\ (ok => now > time[b])
    BY <1>10 DEF AckCheck
  <2>2. \A j \in Ackers : j # k => apc'[j] = apc[j] /\ hand'[j] = hand[j]
    BY <2>1 DEF Accept, TypeOK, Leave
  <2>3. apc'[k] \in {"run", "clear", "add", "drop"}
    BY <2>1 DEF Accept, TypeOK, Leave
  <2>4. UNCHANGED <<now, time, ppc, at, reg>>
    BY <2>1 DEF Accept
  <2>5. CASE ok /\ b = a
    <3>1. met'[a] = (met[a] \/ Movers(a) \ {k} # {})
      BY <2>1, <2>5 DEF Accept, Meet, TypeOK
    <3>2. \A j \in Actors : j # k => j \notin Movers(a)
      BY <3>1
    <3>3. \A j \in Actors : j # k => ~Moving(j, a)
      BY <1>00, <3>2 DEF Moving, Movers, Holders
    <3>4. \A j \in Actors : j # k => ~Moving(j, a)'
      BY <1>00, <2>2, <2>4, <3>3 DEF Moving
    <3>. QED
      BY <1>00, <2>1, <2>3, <2>4, <2>5, <3>4, MoveStart
  <2>6. CASE ~(ok /\ b = a)
    <3>1. ~Moving(k, a)'
      <4>1. CASE ok
        BY <1>00, <2>1, <2>4, <2>6, <4>1 DEF Accept, Moving
      <4>2. CASE ~ok
        BY <1>00, <2>1, <4>2 DEF Accept, Moving, Leave, TypeOK
      <4>. QED
        BY <4>1, <4>2
    <3>2. \A j \in Actors : Moving(j, a)' => Moving(j, a)
      BY <1>00, <2>2, <2>4, <3>1 DEF Moving
    <3>. QED
      BY <1>0, <1>00, <2>2, <2>4, <3>1, <3>2, MoveFrame
  <2>. QED
    BY <2>5, <2>6
<1>11. ASSUME NEW k \in Ackers, AckAdd(k) PROVE MoveAt(a)'
  <2>1. /\ apc[k] = "add" /\ apc'[k] = "store"
        /\ \A j \in Ackers : j # k => apc'[j] = apc[j]
        /\ UNCHANGED <<now, time, ppc, at, hand>>
    BY <1>11 DEF AckAdd, TypeOK
  <2>2. reg'[k] = time[hand[k].alarm] /\ \A j \in Actors : j # k => reg'[j] = reg[j]
    BY <1>00, <1>11 DEF AckAdd, TypeOK
  <2>3. \A j \in Actors : Moving(j, a)' => Moving(j, a)
    BY <1>00, <2>1 DEF Moving
  <2>4. Moving(k, a)' => hand[k].alarm = a
    BY <1>00, <2>1 DEF Moving
  <2>. QED
    BY <1>0, <1>00, <2>1, <2>2, <2>3, <2>4, MoveFrame
<1>12. ASSUME NEW k \in Ackers, AckStore(k) PROVE MoveAt(a)'
  <2>1. /\ apc[k] = "store" /\ apc'[k] \in {"run", "clear"}
        /\ \A j \in Ackers : j # k => apc'[j] = apc[j] /\ hand'[j] = hand[j]
        /\ \A j \in Actors : j # k => reg'[j] = reg[j]
        /\ UNCHANGED <<now, ppc, at>>
    BY <1>00, <1>12 DEF AckStore, TypeOK, Leave
  <2>2. \A j \in Actors : Moving(j, a)' => Moving(j, a)
    BY <1>00, <2>1 DEF Moving
  <2>3. CASE hand[k].alarm = a
    <3>1. Moving(k, a) /\ ~Moving(k, a)'
      BY <1>00, <2>1, <2>3 DEF Moving
    <3>2. \A j \in Actors : ~Moving(j, a)'
      BY <1>0, <1>00, <2>2, <3>1 DEF MoveAt
    <3>. QED
      BY <3>2, MoveNobody
  <2>4. CASE hand[k].alarm # a
    <3>1. time'[a] = time[a]
      BY <1>12, <2>4 DEF AckStore, TypeOK
    <3>. QED
      BY <1>0, <1>00, <2>1, <2>2, <3>1, MoveFrame
  <2>. QED
    BY <2>3, <2>4
<1>15. CASE Answer \/ Lsa \/ UNCHANGED vars
  <2>1. UNCHANGED <<now, time, ppc, at, reg, apc, hand>>
    BY <1>15 DEF Answer, Lsa, LsaReach, LsaLeave, vars
  <2>2. \A k \in Actors : Moving(k, a)' => Moving(k, a)
    BY <2>1 DEF Moving
  <2>. QED
    BY <1>0, <1>00, <2>1, <2>2, MoveFrame
<1>. QED
  BY <1>1, <1>2, <1>3, <1>4, <1>6, <1>7, <1>9, <1>10, <1>11, <1>12, <1>15
     DEF Next, Poll, Ack

\* Whoever stores the time of an alarm adds to what is there, which is in the
\* past, unless two threads have met.
LEMMA TimeStep ==
  ASSUME TypeOK, TypeOK', GridInv, MoveInv, [Next]_vars, NEW a \in Alarms, ~met[a]
  PROVE  \/ time'[a] = time[a]
         \/ /\ time[a] < now /\ time'[a] = time[a] + Interval[a] /\ now' = now
            /\ \E k \in Actors : Moving(k, a)
                 /\ (k \in Ackers => apc[k] = "store" /\ ~Moving(k, a)')
<1>. USE DEF pollVars, ackVars, askVars, histVars
<1>0. MoveAt(a)
  BY DEF MoveInv
<1>00. /\ "poll" \notin Ackers /\ "poll" \in Actors
       /\ \A k \in Ackers : k \in Actors /\ k # "poll"
  BY DEF Ackers, Actors
<1>1. CASE PollStore
  <2>1. CASE at = a
    <3>1. Moving("poll", a) /\ ppc = "store"
      BY <1>1, <2>1 DEF PollStore, Moving
    <3>2. reg["poll"] = time[a] /\ time[a] < now
      BY <1>0, <1>00, <3>1 DEF MoveAt
    <3>3. time'[a] = reg["poll"] + Interval[a] /\ now' = now
      BY <1>1, <2>1 DEF PollStore, TypeOK
    <3>. QED
      BY <1>00, <3>1, <3>2, <3>3
  <2>2. CASE at # a
    BY <1>1, <2>2 DEF PollStore, TypeOK
  <2>. QED
    BY <2>1, <2>2
<1>2. ASSUME NEW k \in Ackers, AckStore(k)
      PROVE  \/ time'[a] = time[a]
             \/ /\ time[a] < now /\ time'[a] = time[a] + Interval[a] /\ now' = now
                /\ Moving(k, a) /\ apc[k] = "store" /\ ~Moving(k, a)'
  <2>1. CASE hand[k].alarm = a
    <3>1. Moving(k, a) /\ apc[k] = "store"
      BY <1>00, <1>2, <2>1 DEF AckStore, Moving
    <3>2. reg[k] = time[a] /\ time[a] < now
      BY <1>0, <1>00, <3>1 DEF MoveAt
    <3>3. time'[a] = reg[k] + Interval[a] /\ now' = now
      BY <1>2, <2>1 DEF AckStore, TypeOK
    <3>4. apc'[k] \in {"run", "clear"}
      BY <1>2 DEF AckStore, TypeOK, Leave
    <3>5. ~Moving(k, a)'
      BY <1>00, <3>4 DEF Moving
    <3>. QED
      BY <3>1, <3>2, <3>3, <3>5
  <2>2. CASE hand[k].alarm # a
    BY <1>2, <2>2 DEF AckStore, TypeOK
  <2>. QED
    BY <2>1, <2>2
<1>3. CASE UNCHANGED time
  BY <1>3
<1>4. CASE Tick \/ Lsa \/ Answer \/ UNCHANGED vars
  BY <1>3, <1>4 DEF Tick, Lsa, LsaReach, LsaLeave, Answer, vars
<1>5. CASE Poll
  BY <1>1, <1>3, <1>5 DEF Poll, PollStart, PollLook, PollWindow, PollSend,
     PollAdd, PollDrop, PollNext
<1>6. ASSUME NEW k \in Ackers, Ack(k)
      PROVE  UNCHANGED time \/ AckStore(k)
  BY <1>6 DEF Ack, AckTake, AckHead, AckSeek, Seek, Leave, AckCheck, Accept,
     AckAdd, AckDrop, AckClear
<1>. QED
  BY <1>00, <1>2, <1>3, <1>4, <1>5, <1>6 DEF Next

LEMMA ClockStep ==
  ASSUME TypeOK, [Next]_vars
  PROVE  now \in Int /\ now' \in Int /\ now <= now'
<1>0. now \in Int
  BY DEF TypeOK
<1>1. CASE Tick
  BY <1>0, <1>1 DEF Tick
<1>2. ASSUME NEW k \in Ackers, Ack(k) PROVE now' = now
  BY <1>2
  DEF Ack, AckTake, AckHead, AckSeek, Seek, Leave, AckCheck, Accept, AckAdd,
      AckStore, AckDrop, AckClear
<1>3. CASE Poll \/ Lsa \/ Answer \/ UNCHANGED vars
  BY <1>0, <1>3 DEF Poll, PollStart, PollLook, PollWindow, PollSend, PollAdd,
     PollStore, PollDrop, PollNext, Lsa, LsaReach, LsaLeave, Answer, vars
<1>. QED
  BY <1>0, <1>1, <1>2, <1>3 DEF Next

LEMMA SkipStep ==
  ASSUME TypeOK, TypeOK', GridInv, MoveInv, NoSkip, [Next]_vars
  PROVE  NoSkip'
<1>. SUFFICES ASSUME NEW a \in Alarms, ~met'[a], time'[a] # Start[a]
              PROVE  time'[a] < now' + Interval[a]
  BY DEF NoSkip
<1>1. ~met[a]
  BY MetStays
<1>2. /\ now \in Int /\ now' \in Int /\ now <= now'
      /\ time[a] \in Int /\ Interval[a] \in Nat
  BY ClockStep, AlarmsAssumption DEF TypeOK
<1>3. CASE time'[a] = time[a]
  BY <1>1, <1>2, <1>3 DEF NoSkip
<1>4. CASE time[a] < now /\ time'[a] = time[a] + Interval[a] /\ now' = now
  BY <1>2, <1>4
<1>. QED
  BY <1>1, <1>3, <1>4, TimeStep

-----------------------------------------------------------------------------
(* Requests and acknowledgements                                           *)

LEMMA AskedStays ==
  ASSUME TypeOK, GridInv, [Next]_vars, NEW a \in Alarms
  PROVE  asked[a] \subseteq asked'[a]
<1>. USE DEF pollVars, ackVars, askVars, histVars
<1>1. CASE PollSend
  BY <1>1 DEF PollSend, TypeOK
<1>2. CASE Tick \/ Lsa \/ Answer \/ UNCHANGED vars
  BY <1>2 DEF Tick, Lsa, LsaReach, LsaLeave, Answer, vars
<1>3. ASSUME NEW k \in Ackers, Ack(k) PROVE asked' = asked
  BY <1>3
  DEF Ack, AckTake, AckHead, AckSeek, Seek, Leave, AckCheck, Accept, AckAdd,
      AckStore, AckDrop, AckClear
<1>4. CASE Poll
  BY <1>1, <1>4 DEF Poll, PollStart, PollLook, PollWindow, PollAdd, PollStore,
     PollDrop, PollNext
<1>. QED
  BY <1>2, <1>3, <1>4 DEF Next

LEMMA LateStays ==
  ASSUME TypeOK, GridInv, [Next]_vars, NEW a \in Alarms, ~late'[a]
  PROVE  ~late[a]
<1>. USE DEF pollVars, ackVars, askVars, histVars
<1>1. ASSUME NEW k \in Ackers, AckCheck(k) PROVE ~late[a]
  <2>1. PICK ok : Accept(k, ok)
    BY <1>1 DEF AckCheck
  <2>. QED
    BY <2>1 DEF Accept, TypeOK
<1>2. CASE Tick \/ Lsa \/ Answer \/ UNCHANGED vars
  BY <1>2 DEF Tick, Lsa, LsaReach, LsaLeave, Answer, vars
<1>3. ASSUME NEW k \in Ackers, Ack(k) PROVE late' = late \/ AckCheck(k)
  BY <1>3 DEF Ack, AckTake, AckHead, AckSeek, Seek, Leave, AckAdd,
     AckStore, AckDrop, AckClear
<1>4. CASE Poll
  BY <1>4 DEF Poll, PollStart, PollLook, PollWindow, PollSend, PollAdd,
     PollStore, PollDrop, PollNext
<1>. QED
  BY <1>1, <1>2, <1>3, <1>4 DEF Next

\* The due time of an alarm does not go back.
LEMMA TimeStays ==
  ASSUME TypeOK, TypeOK', GridInv, MoveInv, [Next]_vars, NEW a \in Alarms, ~met'[a]
  PROVE  ~met[a] /\ time[a] \in Int /\ time'[a] \in Int /\ time[a] <= time'[a]
<1>1. ~met[a]
  BY MetStays
<1>2. Interval[a] \in Nat /\ time[a] \in Int /\ time'[a] \in Int
  BY AlarmsAssumption DEF TypeOK
<1>. QED
  BY <1>1, <1>2, TimeStep

LEMMA FreshStays ==
  ASSUME TypeOK, TypeOK', GridInv, MoveInv, [Next]_vars,
         NEW r, r.alarm \in Alarms, r.due \in Int, Fresh(r)
  PROVE  Fresh(r)'
<1>. SUFFICES ASSUME ~met'[r.alarm]
              PROVE  /\ r.due \in asked'[r.alarm] /\ r.due <= time'[r.alarm]
                     /\ OnGrid(r.alarm, r.due)
  BY DEF Fresh, OnGrid
<1>1. /\ ~met[r.alarm] /\ time[r.alarm] \in Int /\ time'[r.alarm] \in Int
      /\ time[r.alarm] <= time'[r.alarm]
  BY TimeStays
<1>2. asked[r.alarm] \subseteq asked'[r.alarm]
  BY AskedStays
<1>. QED
  BY <1>1, <1>2 DEF Fresh

LEMMA SendStep ==
  ASSUME TypeOK, TypeOK', GridInv, MoveInv, AskInv, [Next]_vars
  PROVE  SendInv'
<1>. USE DEF pollVars, ackVars, askVars, histVars
<1>1. CASE PollWindow
  <2>1. at \in Alarms /\ time[at] \in Int
    BY <1>1 DEF PollWindow, TypeOK
  <2>2. OnGrid(at, time[at])
    BY <2>1 DEF GridInv, PhaseKept
  <2>. QED
    BY <1>1, <2>1, <2>2 DEF PollWindow, OnGrid, SendInv
<1>2. CASE ppc' # "send"
  BY <1>2 DEF SendInv
<1>3. CASE UNCHANGED <<ppc, at, want>>
  <2>1. CASE ppc = "send"
    <3>1. at \in Alarms /\ want \in Int
      BY <2>1 DEF TypeOK
    <3>2. ~met'[at] => want <= time'[at]
      BY <2>1, <3>1, TimeStays DEF AskInv, SendInv
    <3>. QED
      BY <1>3, <2>1, <3>2 DEF AskInv, SendInv, OnGrid
  <2>. QED
    BY <1>3, <2>1 DEF SendInv
<1>4. CASE Tick \/ Lsa \/ Answer \/ UNCHANGED vars
  BY <1>3, <1>4 DEF Tick, Lsa, LsaReach, LsaLeave, Answer, vars
<1>5. ASSUME NEW k \in Ackers, Ack(k) PROVE UNCHANGED <<ppc, at, want>>
  BY <1>5
  DEF Ack, AckTake, AckHead, AckSeek, Seek, Leave, AckCheck, Accept, AckAdd,
      AckStore, AckDrop, AckClear
<1>6. CASE Poll
  BY <1>1, <1>2, <1>6 DEF Poll, PollStart, PollLook, PollSend, PollAdd,
     PollStore, PollDrop, PollNext
<1>. QED
  BY <1>3, <1>4, <1>5, <1>6 DEF Next

LEMMA AsksStep ==
  ASSUME TypeOK, TypeOK', GridInv, MoveInv, AskInv, [Next]_vars
  PROVE  (\A r \in asks : Fresh(r))'
<1>. USE DEF pollVars, ackVars, askVars, histVars
<1>1. ASSUME NEW r \in asks PROVE Fresh(r)'
  BY <1>1, FreshStays DEF AskInv, TypeOK
<1>2. CASE asks' \subseteq asks
  BY <1>1, <1>2
<1>3. CASE PollSend
  <2>1. \A r \in asks' : r \in asks \/ (r.alarm = at /\ r.due = want)
    BY <1>3 DEF PollSend
  <2>2. at \in Alarms /\ want \in asked'[at] /\ UNCHANGED <<time, met>>
    BY <1>3 DEF PollSend, TypeOK
  <2>3. OnGrid(at, want) /\ (~met[at] => want <= time[at])
    BY <1>3 DEF PollSend, AskInv, SendInv
  <2>4. ASSUME NEW r, r.alarm = at, r.due = want PROVE Fresh(r)'
    BY <2>2, <2>3, <2>4 DEF Fresh, OnGrid
  <2>. QED
    BY <1>1, <2>1, <2>4
<1>4. CASE Tick \/ Lsa \/ Answer \/ UNCHANGED vars
  BY <1>2, <1>4 DEF Tick, Lsa, LsaReach, LsaLeave, Answer, vars
<1>5. ASSUME NEW k \in Ackers, Ack(k) PROVE asks' = asks
  BY <1>5
  DEF Ack, AckTake, AckHead, AckSeek, Seek, Leave, AckCheck, Accept, AckAdd,
      AckStore, AckDrop, AckClear
<1>6. CASE Poll
  BY <1>2, <1>3, <1>6 DEF Poll, PollStart, PollLook, PollWindow, PollAdd,
     PollStore, PollDrop, PollNext
<1>. QED
  BY <1>2, <1>4, <1>5, <1>6 DEF Next

LEMMA BoxStep ==
  ASSUME TypeOK, TypeOK', GridInv, MoveInv, AskInv, [Next]_vars, NEW k \in Ackers
  PROVE  AnswerInv(k)'
<1>. USE DEF pollVars, ackVars, askVars, histVars
<1>0. /\ box[k] \in Answers /\ box[k].due \in Int
      /\ hand[k] \in Answers /\ hand[k].due \in Int
  BY DEF TypeOK, Answers
<1>1. ASSUME NEW q, q.alarm \in Alarms, q.due \in Int, Fresh(q) PROVE Fresh(q)'
  BY <1>1, FreshStays
<1>2. ASSUME NEW q, q = box[k] \/ q = hand[k], q.alarm \in Alarms PROVE Fresh(q)'
  BY <1>0, <1>1, <1>2 DEF AskInv, AnswerInv
<1>3. SUFFICES /\ box'[k].alarm \in Alarms => \E q : q = box'[k] /\ Fresh(q)'
               /\ hand'[k].alarm \in Alarms => \E q : q = hand'[k] /\ Fresh(q)'
  BY DEF AnswerInv
<1>4. hand'[k] \in {hand[k], box[k], Blank}
  <2>1. CASE UNCHANGED hand
    BY <2>1
  <2>2. ASSUME NEW j \in Ackers, AckTake(j) \/ hand' = hand \/ Leave(j)
        PROVE  hand'[k] \in {hand[k], box[k], Blank}
    BY <2>2 DEF AckTake, Leave, TypeOK
  <2>3. CASE Tick \/ Lsa \/ Answer \/ UNCHANGED vars
    BY <2>1, <2>3 DEF Tick, Lsa, LsaReach, LsaLeave, Answer, vars
  <2>4. ASSUME NEW j \in Ackers, Ack(j)
        PROVE  AckTake(j) \/ hand' = hand \/ Leave(j)
    BY <2>4 DEF Ack, AckHead, AckSeek, Seek, AckCheck, Accept, AckAdd, AckStore,
       AckDrop, AckClear
  <2>5. CASE Poll
    BY <2>1, <2>5 DEF Poll, PollStart, PollLook, PollWindow, PollSend, PollAdd,
       PollStore, PollDrop, PollNext
  <2>. QED
    BY <2>1, <2>2, <2>3, <2>4, <2>5 DEF Next
<1>5. \/ box'[k] \in {box[k], Blank}
      \/ \E r \in asks : box'[k].alarm = r.alarm /\ box'[k].due = r.due
  <2>1. CASE UNCHANGED box
    BY <2>1
  <2>2. CASE Answer
    BY <2>2 DEF Answer
  <2>3. ASSUME NEW j \in Ackers, AckClear(j) PROVE box'[k] \in {box[k], Blank}
    BY <2>3 DEF AckClear, TypeOK
  <2>4. CASE Tick \/ Lsa \/ UNCHANGED vars
    BY <2>1, <2>4 DEF Tick, Lsa, LsaReach, LsaLeave, vars
  <2>5. ASSUME NEW j \in Ackers, Ack(j) PROVE box' = box \/ AckClear(j)
    BY <2>5 DEF Ack, AckTake, AckHead, AckSeek, Seek, AckCheck, Accept,
       AckAdd, AckStore, AckDrop
  <2>6. CASE Poll
    BY <2>1, <2>6 DEF Poll, PollStart, PollLook, PollWindow, PollSend, PollAdd,
       PollStore, PollDrop, PollNext
  <2>. QED
    BY <2>1, <2>2, <2>3, <2>4, <2>5, <2>6 DEF Next
<1>6. ASSUME NEW q, q = box'[k], q.alarm \in Alarms PROVE Fresh(q)'
  <2>1. CASE q = box[k]
    BY <1>2, <1>6, <2>1
  <2>2. CASE q = Blank
    BY <1>6, <2>2, AlarmsAssumption DEF Blank
  <2>3. ASSUME NEW r \in asks, q.alarm = r.alarm, q.due = r.due PROVE Fresh(q)'
    <3>1. Fresh(r) /\ r.due \in Int
      BY DEF AskInv, AnswerInv, TypeOK
    <3>2. Fresh(q)
      BY <2>3, <3>1 DEF Fresh
    <3>. QED
      BY <1>1, <1>6, <2>3, <3>1, <3>2
  <2>. QED
    BY <1>5, <1>6, <2>1, <2>2, <2>3
<1>7. ASSUME NEW q, q = hand'[k], q.alarm \in Alarms PROVE Fresh(q)'
  <2>1. q # Blank
    BY <1>7, AlarmsAssumption DEF Blank
  <2>. QED
    BY <1>2, <1>4, <1>7, <2>1
<1>. QED
  BY <1>6, <1>7

\* Two points of the grid less than an interval apart are one.
LEMMA GridGap ==
  ASSUME NEW a \in Alarms, NEW s \in Int, NEW t \in Int,
         OnGrid(a, s), OnGrid(a, t), s <= t, t < s + Interval[a]
  PROVE  s = t
<1>1. Interval[a] \in Nat /\ Start[a] \in Int
  BY AlarmsAssumption
<1>2. PICK m \in 0 .. s - Start[a] : s = Start[a] + m * Interval[a]
  BY DEF OnGrid
<1>3. PICK n \in 0 .. t - Start[a] : t = Start[a] + n * Interval[a]
  BY DEF OnGrid
<1>4. m \in Int /\ n \in Int
  BY <1>2, <1>3
<1>5. /\ m * Interval[a] <= n * Interval[a]
      /\ n * Interval[a] < m * Interval[a] + Interval[a]
  BY <1>1, <1>2, <1>3, <1>4
<1>6. n < m + 1
  <2>1. \A i, j, q \in Nat : q * i < q * j => i < j
    OBVIOUS
  <2>2. Interval[a] * n < Interval[a] * (m + 1)
    BY <1>1, <1>4, <1>5
  <2>. QED
    BY <1>1, <1>2, <1>3, <2>1, <2>2
<1>7. m = n \/ n < m
  BY <1>4, <1>6
<1>8. CASE n < m
  <2>1. n * Interval[a] <= m * Interval[a]
    BY <1>1, <1>4, <1>8
  <2>. QED
    BY <1>1, <1>2, <1>3, <1>4, <1>5, <2>1
<1>. QED
  BY <1>2, <1>3, <1>7, <1>8

\* Who has accepted an answer and is about to move the alarm on acknowledges
\* a due time that was requested.
LEMMA AcceptStep ==
  ASSUME TypeOK, TypeOK', GridInv, MoveInv, AskInv, [Next]_vars, NEW k \in Ackers
  PROVE  AcceptInv(k)'
<1>. USE DEF pollVars, ackVars, askVars, histVars
<1>. SUFFICES ASSUME NEW a \in Alarms, ~met'[a], ~late'[a],
                     apc'[k] \in {"add", "store"}, hand'[k].alarm = a
              PROVE  time'[a] \in asked'[a]
  BY DEF AcceptInv
<1>1. /\ ~met[a] /\ ~late[a] /\ asked[a] \subseteq asked'[a]
      /\ time[a] \in Int /\ now \in Int
  BY MetStays, LateStays, AskedStays DEF TypeOK
<1>2. CASE /\ apc[k] \in {"add", "store"} /\ hand[k].alarm = a
  <2>1. time[a] \in asked[a]
    BY <1>1, <1>2 DEF AskInv, AcceptInv
  <2>2. Moving(k, a) /\ Moving(k, a)' /\ k \in Actors
    BY <1>2 DEF Moving, Ackers, Actors
  <2>3. time'[a] = time[a]
    <3>1. SUFFICES ASSUME time'[a] # time[a] PROVE FALSE
      OBVIOUS
    <3>2. PICK j \in Actors : Moving(j, a)
                 /\ (j \in Ackers => apc[j] = "store" /\ ~Moving(j, a)')
      BY <1>1, <3>1, TimeStep
    <3>3. j = k
      BY <1>1, <2>2, <3>2 DEF MoveInv, MoveAt
    <3>. QED
      BY <2>2, <3>2, <3>3
  <2>. QED
    BY <1>1, <2>1, <2>3
<1>3. ASSUME apc[k] \notin {"add", "store"} \/ hand[k].alarm # a
      PROVE  AckCheck(k)
  <2>1. ASSUME NEW j \in Ackers, Ack(j) PROVE AckCheck(k)
    <3>. SUFFICES ASSUME j # k \/ ~AckCheck(k) PROVE FALSE
      BY <2>1 DEF Ack
    <3>1. j # k => apc'[k] = apc[k] /\ hand'[k] = hand[k]
      BY <2>1 DEF Ack, AckTake, AckHead, AckSeek, Seek, Leave, AckCheck, Accept,
         AckAdd, AckStore, AckDrop, AckClear, TypeOK
    <3>2. CASE j = k
      <4>1. CASE AckAdd(k)
        BY <1>3, <4>1 DEF AckAdd, TypeOK
      <4>2. CASE AckTake(k) \/ AckHead(k) \/ AckSeek(k) \/ AckStore(k)
                   \/ AckDrop(k) \/ AckClear(k)
        <5>1. apc'[k] \notin {"add", "store"}
          BY <4>2 DEF AckTake, AckHead, AckSeek, Seek, Leave, AckStore, AckDrop,
             AckClear, TypeOK
        <5>. QED
          BY <5>1
      <4>. QED
        BY <2>1, <3>2, <4>1, <4>2 DEF Ack
    <3>. QED
      BY <1>3, <3>1, <3>2
  <2>2. UNCHANGED <<apc, hand>> => FALSE
    BY <1>3
  <2>3. CASE Poll
    BY <2>2, <2>3 DEF Poll, PollStart, PollLook, PollWindow, PollSend, PollAdd,
       PollStore, PollDrop, PollNext
  <2>4. CASE Tick \/ Lsa \/ Answer \/ UNCHANGED vars
    BY <2>2, <2>4 DEF Tick, Lsa, LsaReach, LsaLeave, Answer, vars
  <2>. QED
    BY <2>1, <2>3, <2>4 DEF Next
<1>4. CASE AckCheck(k)
  <2>1. PICK ok : Accept(k, ok) /\ (ok => now > time[hand[k].alarm])
    BY <1>4 DEF AckCheck
  <2>3. ok /\ UNCHANGED hand
    BY <2>1 DEF Accept, Leave, TypeOK
  <2>2. /\ UNCHANGED <<time, now, asked>> /\ hand[k].alarm = a
        /\ hand[k].due \in Int /\ Interval[a] > 0
    BY <2>1, <2>3 DEF Accept, TypeOK, Answers
  <2>4. late'[a] = (late[a] \/ Late(hand[k]))
    BY <2>1, <2>2, <2>3 DEF Accept, TypeOK
  <2>5. now <= hand[k].due + Interval[a]
    <3>1. ~Late(hand[k])
      BY <2>4
    <3>2. Interval[a] \in Nat
      BY AlarmsAssumption
    <3>. QED
      BY <1>1, <2>2, <2>3, <3>1, <3>2 DEF Late
  <2>6. /\ hand[k].due \in asked[a] /\ hand[k].due <= time[a]
        /\ OnGrid(a, hand[k].due)
    BY <1>1, <2>2 DEF AskInv, AcceptInv, AnswerInv, Fresh
  <2>7. OnGrid(a, time[a])
    BY DEF GridInv, PhaseKept
  <2>8. time[a] < hand[k].due + Interval[a]
    <3>1. Interval[a] \in Nat /\ now > time[a]
      BY <2>1, <2>2, <2>3, AlarmsAssumption
    <3>. QED
      BY <1>1, <2>2, <2>5, <3>1
  <2>9. hand[k].due = time[a]
    BY <1>1, <2>2, <2>6, <2>7, <2>8, GridGap
  <2>. QED
    BY <1>1, <2>2, <2>6, <2>9
<1>. QED
  BY <1>2, <1>3, <1>4

LEMMA AckedStep ==
  ASSUME TypeOK, TypeOK', GridInv, MoveInv, AskInv, [Next]_vars
  PROVE  AckedWasAsked'
<1>. USE DEF pollVars, ackVars, askVars, histVars
<1>. SUFFICES ASSUME NEW a \in Alarms, ~met'[a], ~late'[a]
              PROVE  acked'[a] \subseteq asked'[a]
  BY DEF AckedWasAsked
<1>1. ~met[a] /\ ~late[a] /\ asked[a] \subseteq asked'[a]
  BY MetStays, LateStays, AskedStays
<1>2. acked[a] \subseteq asked[a]
  BY <1>1 DEF AskInv, AckedWasAsked
<1>3. ASSUME NEW k \in Ackers, AckStore(k) PROVE acked'[a] \subseteq asked'[a]
  <2>1. CASE hand[k].alarm = a
    <3>1. Moving(k, a) /\ apc[k] = "store"
      BY <1>3, <2>1 DEF AckStore, Moving, Ackers
    <3>2. reg[k] = time[a]
      BY <1>1, <3>1 DEF MoveInv, MoveAt
    <3>3. time[a] \in asked[a]
      BY <1>1, <2>1, <3>1 DEF AskInv, AcceptInv
    <3>4. acked'[a] = acked[a] \cup {reg[k]}
      BY <1>3, <2>1 DEF AckStore, TypeOK
    <3>. QED
      BY <1>1, <1>2, <3>2, <3>3, <3>4
  <2>2. CASE hand[k].alarm # a
    BY <1>1, <1>2, <1>3, <2>2 DEF AckStore, TypeOK
  <2>. QED
    BY <2>1, <2>2
<1>4. CASE acked' = acked
  BY <1>1, <1>2, <1>4
<1>5. CASE Tick \/ Lsa \/ Answer \/ UNCHANGED vars
  BY <1>4, <1>5 DEF Tick, Lsa, LsaReach, LsaLeave, Answer, vars
<1>6. ASSUME NEW k \in Ackers, Ack(k) PROVE acked' = acked \/ AckStore(k)
  BY <1>6 DEF Ack, AckTake, AckHead, AckSeek, Seek, Leave, AckCheck, Accept,
     AckAdd, AckDrop, AckClear
<1>7. CASE Poll
  BY <1>4, <1>7 DEF Poll, PollStart, PollLook, PollWindow, PollSend, PollAdd,
     PollStore, PollDrop, PollNext
<1>. QED
  BY <1>3, <1>4, <1>5, <1>6, <1>7 DEF Next

LEMMA AskStep ==
  ASSUME TypeOK, TypeOK', GridInv, MoveInv, AskInv, [Next]_vars
  PROVE  AskInv'
<1>1. AckedWasAsked'
  BY AckedStep
<1>2. SendInv'
  BY SendStep
<1>3. (\A r \in asks : Fresh(r))'
  BY AsksStep
<1>4. \A k \in Ackers : AnswerInv(k)' /\ AcceptInv(k)'
  BY BoxStep, AcceptStep
<1>. QED
  BY <1>1, <1>2, <1>3, <1>4 DEF AskInv

-----------------------------------------------------------------------------
(* One-shot alarms                                                         *)

LEMMA FreeFrame ==
  ASSUME FreeInv, UNCHANGED <<freed, gaveUp, watched>>,
         \/ wild' = wild
         \/ \E a : Touch(a) /\ Holders(a) # {},
         \A a \in freed : Holders(a)' \subseteq Holders(a)
  PROVE  FreeInv'
<1>. SUFFICES ASSUME ~gaveUp, ~watched
              PROVE  ~wild' /\ \A a \in freed : Holders(a)' = {}
  BY DEF FreeInv
<1>1. ~wild /\ \A a \in freed : Holders(a) = {}
  BY DEF FreeInv
<1>2. ~wild'
  BY <1>1 DEF Touch
<1>. QED
  BY <1>1, <1>2

LEMMA FreeStep ==
  ASSUME TypeOK, TypeOK', GridInv, FreeInv, [Next]_vars
  PROVE  FreeInv'
<1>. USE DEF pollVars, ackVars, askVars, histVars
<1>0. /\ "poll" \notin Ackers /\ "lsa" \notin Ackers
      /\ ppc # "sleep" => at \in Alarms /\ "poll" \in Holders(at)
      /\ lsa # End => lsa \in Alarms /\ "lsa" \in Holders(lsa)
      /\ \A k \in Ackers :
           /\ apc[k] = "seek" => node[k] \in Alarms /\ k \in Holders(node[k])
           /\ AtWork(k) => hand[k].alarm \in Alarms /\ k \in Holders(hand[k].alarm)
  BY DEF Ackers, TypeOK, GridInv, Holders, Working, AtWork
<1>1. CASE Tick \/ Answer \/ UNCHANGED vars
  <2>1. UNCHANGED <<freed, gaveUp, watched, wild, apc, hand, node, ppc, at, lsa>>
    BY <1>1 DEF Tick, Answer, vars
  <2>2. \A a : Holders(a)' = Holders(a)
    BY <2>1 DEF Holders
  <2>. QED
    BY <2>1, <2>2, FreeFrame
<1>2. CASE PollStart \/ PollNext
  <2>1. at' \notin freed
    <3>1. CASE PollStart
      BY <3>1, AfterProperties, AfterEnd DEF PollStart
    <3>2. CASE PollNext
      <4>1. Place(at) \in Nat
        BY <1>0, <3>2, PlaceProperties DEF PollNext
      <4>. QED
        BY <3>2, <4>1, AfterProperties, AfterEnd DEF PollNext
    <3>. QED
      BY <1>2, <3>1, <3>2
  <2>2. UNCHANGED <<freed, gaveUp, watched, apc, hand, node, lsa>>
    BY <1>2 DEF PollStart, PollNext
  <2>3. \A a \in freed : Holders(a)' \subseteq Holders(a)
    BY <2>1, <2>2 DEF Holders
  <2>4. wild' = wild \/ (Touch(at) /\ Holders(at) # {})
    BY <1>0, <1>2 DEF PollStart, PollNext
  <2>. QED
    BY <2>2, <2>3, <2>4, FreeFrame
<1>3. CASE PollLook \/ PollWindow \/ PollSend \/ PollAdd \/ PollStore
  <2>1. /\ UNCHANGED <<freed, gaveUp, watched, apc, hand, node, at, lsa>>
        /\ ppc # "sleep" /\ Touch(at)
    BY <1>3 DEF PollLook, PollWindow, PollSend, PollAdd, PollStore
  <2>2. \A a \in freed : Holders(a)' \subseteq Holders(a)
    BY <2>1 DEF Holders
  <2>3. Touch(at) /\ Holders(at) # {}
    BY <1>0, <2>1
  <2>. QED
    BY <2>1, <2>2, <2>3, FreeFrame
<1>4. CASE PollDrop
  BY <1>4 DEF PollDrop, FreeInv
<1>5. ASSUME NEW k \in Ackers, AckTake(k) \/ AckClear(k) PROVE FreeInv'
  <2>1. /\ UNCHANGED <<freed, gaveUp, watched, wild, node, ppc, at, lsa>>
        /\ apc'[k] \in {"run", "clear", "head"}
        /\ \A j \in Ackers : j # k => apc'[j] = apc[j] /\ hand'[j] = hand[j]
    BY <1>5 DEF AckTake, AckClear, TypeOK, Leave
  <2>2. \A a \in freed : Holders(a)' \subseteq Holders(a)
    BY <2>1 DEF Holders
  <2>. QED
    BY <2>1, <2>2, FreeFrame
\* A search gets to nodes that are in the list.
<1>50. ASSUME NEW k \in Ackers, NEW i \in Nat, Seek(k, After(i)),
              UNCHANGED <<freed, gaveUp, watched, ppc, at, lsa>>,
              wild' = wild \/ (\E a : Touch(a) /\ Holders(a) # {})
       PROVE  FreeInv'
  <2>1. After(i) \in Alarms \cup {End} /\ After(i) \notin freed
    BY AfterProperties, AfterEnd
  <2>2. \A a \in freed : Holders(a)' \subseteq Holders(a)
    BY <1>50, <2>1, SeekFacts DEF Holders
  <2>. QED
    BY <1>50, <2>2, FreeFrame
<1>51. ASSUME NEW k \in Ackers, AckHead(k) PROVE FreeInv'
  BY <1>50, <1>51 DEF AckHead
<1>52. ASSUME NEW k \in Ackers, AckSeek(k) PROVE FreeInv'
  <2>1. /\ node[k] \in Alarms /\ Touch(node[k]) /\ Holders(node[k]) # {}
        /\ apc[k] = "seek" /\ UNCHANGED <<freed, gaveUp, watched, ppc, at, lsa>>
    BY <1>0, <1>52 DEF AckSeek
  <2>2. CASE node[k] = hand[k].alarm
    <3>1. /\ apc'[k] = "check" /\ hand' = hand
          /\ \A j \in Ackers : j # k => apc'[j] = apc[j] /\ node'[j] = node[j]
      BY <1>52, <2>2 DEF AckSeek, TypeOK
    <3>2. \A a \in freed : Holders(a)' \subseteq Holders(a)
      BY <2>1, <2>2, <3>1 DEF Holders
    <3>. QED
      BY <2>1, <3>2, FreeFrame
  <2>3. CASE node[k] # hand[k].alarm
    <3>1. Place(node[k]) \in Nat
      BY <2>1, PlaceProperties
    <3>. QED
      BY <1>50, <1>52, <2>1, <2>3, <3>1 DEF AckSeek
  <2>. QED
    BY <2>2, <2>3
<1>6. ASSUME NEW k \in Ackers, AckCheck(k) \/ AckAdd(k) \/ AckStore(k) PROVE FreeInv'
  <2>1. /\ UNCHANGED <<freed, gaveUp, watched, node, ppc, at, lsa>>
        /\ AtWork(k) /\ Touch(hand[k].alarm)
    BY <1>6 DEF AckCheck, Accept, AckAdd, AckStore, AtWork
  <2>2. /\ \A j \in Ackers : j # k => apc'[j] = apc[j] /\ hand'[j] = hand[j]
        /\ apc'[k] # "seek" /\ (AtWork(k)' => hand'[k] = hand[k])
    BY <1>6 DEF AckCheck, Accept, AckAdd, AckStore, Leave, TypeOK, AtWork
  <2>3. \A a \in freed : Holders(a)' \subseteq Holders(a)
    <3>1. \A a : k \in Holders(a)' => k \in Holders(a)
      BY <1>0, <2>1, <2>2 DEF Holders, AtWork, TypeOK, TaskAt
    <3>2. \A a, j : j # k /\ j \in Holders(a)' => j \in Holders(a)
      BY <2>1, <2>2 DEF Holders
    <3>. QED
      BY <3>1, <3>2
  <2>4. Touch(hand[k].alarm) /\ Holders(hand[k].alarm) # {}
    BY <1>0, <2>1
  <2>. QED
    BY <2>1, <2>3, <2>4, FreeFrame
<1>7. ASSUME NEW k \in Ackers, AckDrop(k) PROVE FreeInv'
  <2>. DEFINE b == hand[k].alarm
  <2>. SUFFICES ASSUME ~gaveUp', ~watched'
                PROVE  ~wild' /\ \A a \in freed' : Holders(a)' = {}
    BY DEF FreeInv
  <2>1. /\ ~gaveUp /\ ~watched /\ Holders(b) = {k}
        /\ Touch(b) /\ freed' = freed \cup {b}
        /\ UNCHANGED <<ppc, at, node, lsa>>
    BY <1>7 DEF AckDrop, TypeOK
  <2>2. ~wild /\ \A a \in freed : Holders(a) = {}
    BY <2>1 DEF FreeInv
  <2>3. ~wild'
    BY <2>1, <2>2 DEF Touch
  <2>4. /\ apc'[k] \in {"run", "clear"}
        /\ \A j \in Ackers : j # k => apc'[j] = apc[j] /\ hand'[j] = hand[j]
    BY <1>7, LeaveFacts DEF AckDrop
  <2>5. \A a \in freed' : Holders(a)' \subseteq Holders(a) \ {k}
    BY <1>0, <2>1, <2>4 DEF Holders
  <2>. QED
    BY <2>1, <2>2, <2>3, <2>5
<1>8. CASE Lsa
  <2>1. UNCHANGED <<freed, gaveUp, watched, apc, hand, node, ppc, at>>
    BY <1>8 DEF Lsa, LsaReach, LsaLeave
  <2>2. \A a \in freed : Holders(a)' \subseteq Holders(a)
    BY <1>8, <2>1, AfterEnd DEF Lsa, LsaReach, LsaLeave, Holders
  <2>3. wild' = wild \/ (Touch(lsa) /\ Holders(lsa) # {})
    BY <1>0, <1>8 DEF Lsa, LsaReach, LsaLeave
  <2>. QED
    BY <2>1, <2>2, <2>3, FreeFrame
<1>. QED
  BY <1>1, <1>2, <1>3, <1>4, <1>5, <1>51, <1>52, <1>6, <1>7, <1>8
     DEF Next, Poll, Ack

-----------------------------------------------------------------------------
(* The inductive invariant                                                 *)

LEMMA InitInv == Init => IInv
<1>. SUFFICES ASSUME Init PROVE IInv
  OBVIOUS
<1>0. /\ Start \in [Alarms -> Int] /\ Interval \in [Alarms -> Nat]
      /\ End \notin Alarms /\ MaxNow \in Nat /\ MaxAsks \in Nat
  BY AlarmsAssumption, BoundsAssumption
<1>1. TypeOK
  <2>1. Blank \in Answers
    BY DEF Blank, Answers
  <2>2. /\ hand \in [Ackers -> Answers] /\ box \in [Ackers -> Answers]
        /\ apc \in [Ackers -> {"run"}] /\ sem \in [Ackers -> Nat]
        /\ node \in [Ackers -> Alarms \cup {End}] /\ reg \in [Actors -> Int]
    BY <2>1 DEF Init
  <2>3. /\ asked \in [Alarms -> SUBSET Int] /\ acked \in [Alarms -> SUBSET Int]
        /\ met \in [Alarms -> BOOLEAN] /\ late \in [Alarms -> BOOLEAN]
        /\ asks \subseteq [alarm : Alarms, due : Int, num : 1 .. MaxAsks]
    BY DEF Init
  <2>4. apc \in [Ackers -> TaskAt] /\ \A k \in Ackers : apc[k] # "seek"
    BY <2>2 DEF TaskAt
  <2>5. now \in 0 .. MaxNow /\ sent \in 0 .. MaxAsks /\ time \in [Alarms -> Int]
    BY <1>0 DEF Init
  <2>6. /\ freed \subseteq Alarms /\ at \in Alarms \cup {End} /\ want \in Int
        /\ ppc = "sleep" /\ lsa \in Alarms \cup {End}
    BY DEF Init
  <2>7. gaveUp \in BOOLEAN /\ watched \in BOOLEAN /\ wild \in BOOLEAN
    BY DEF Init
  <2>. QED
    BY <2>2, <2>3, <2>4, <2>5, <2>6, <2>7 DEF TypeOK, TaskAt
<1>2. GridInv
  <2>1. \A a \in Alarms : OnGrid(a, Start[a])
    <3>. TAKE a \in Alarms
    <3>1. Start[a] \in Int /\ Interval[a] \in Nat
      BY <1>0
    <3>2. 0 \in 0 .. Start[a] - Start[a] /\ Start[a] = Start[a] + 0 * Interval[a]
      BY <3>1
    <3>. QED
      BY <3>2 DEF OnGrid
  <2>. QED
    BY <2>1 DEF Init, GridInv, PhaseKept, Working
<1>3. MoveInv
  BY DEF Init, MoveInv, MoveAt, Moving, Actors
<1>4. NoSkip
  BY DEF Init, NoSkip
<1>5. AskInv
  BY <1>0 DEF Init, AskInv, AckedWasAsked, SendInv, AnswerInv, AcceptInv, Blank
<1>6. FreeInv
  BY DEF Init, FreeInv
<1>. QED
  BY <1>1, <1>2, <1>3, <1>4, <1>5, <1>6 DEF IInv

LEMMA InvStep == IInv /\ [Next]_vars => IInv'
<1>. SUFFICES ASSUME IInv, [Next]_vars PROVE IInv'
  OBVIOUS
<1>1. TypeOK /\ GridInv /\ MoveInv /\ NoSkip /\ AskInv /\ FreeInv
  BY DEF IInv
<1>2. TypeOK'
  BY <1>1, TypeStep
<1>. QED
  BY <1>1, <1>2, GridStep, MoveStep, SkipStep, AskStep, FreeStep DEF IInv

\* The inductive invariant holds of every behaviour, whichever alarms there
\* are and however the threads interleave.
THEOREM Invariant == Spec => []IInv
  BY InitInv, InvStep, PTL DEF Spec

\* The variables keep their types; a working task has an alarm in its hands.
THEOREM TypeCorrect == Spec => []TypeOK
<1>1. IInv => TypeOK
  BY DEF IInv
<1>. QED
  BY <1>1, Invariant, PTL

\* No race between the three threads takes an alarm off its grid: due times
\* are a whole number of intervals after the start.
THEOREM OnTheGrid == Spec => []PhaseKept
<1>1. IInv => PhaseKept
  BY DEF IInv, GridInv
<1>. QED
  BY <1>1, Invariant, PTL

\* As long as no two threads have moved an alarm at a time, it is at most one
\* interval ahead of the clock: no period is skipped.
THEOREM NothingSkipped == Spec => []NoSkip
<1>1. IInv => NoSkip
  BY DEF IInv
<1>. QED
  BY <1>1, Invariant, PTL

\* What the tasks acknowledge was requested, as long as no two threads have
\* met at the alarm and no answer was older than an interval.
THEOREM OnlyAskedAcked == Spec => []AckedWasAsked
<1>1. IInv => AckedWasAsked
  BY DEF IInv, AskInv
<1>. QED
  BY <1>1, Invariant, PTL

\* Freed memory is touched only after thread_alarm gave up a one-shot alarm
\* or a task deleted one that another thread was looking at.
THEOREM DeletedIsLeft == Spec => []OneShotSafe
<1>1. IInv => OneShotSafe
  BY DEF IInv, FreeInv, OneShotSafe
<1>. QED
  BY <1>1, Invariant, PTL
=============================================================================
