--------------------------- MODULE DispatchProofs ---------------------------
(***************************************************************************)
(* Proofs about Dispatch for any number of connections, any descriptors    *)
(* and any number of frames.                                               *)
(*                                                                         *)
(* The argument is about who holds lora_lock: from Route to Unlock it is   *)
(* the dispatcher, and a connection is closed and not yet off the list     *)
(* only while its own thread holds it.  So when the dispatcher looks at    *)
(* the list nobody on it is closed, the descriptors of those on it are     *)
(* different, and while it walks the list nobody leaves.                   *)
(***************************************************************************)
EXTENDS Dispatch, SequenceTheorems, WellFoundedInduction, TLAPS

Busy == {"copy", "copying", "post"}

LockInv ==
  /\ lock = Dispatcher <=> dpc \in Busy \cup {"unlock"}
  /\ \A b \in Boxes : lock = b <=> bpc[b] = "closed"

\* In the list, and with a descriptor that is its own.
Present(b) == bpc[b] \notin {"absent", "gone"}
Open(b) == bpc[b] \notin {"absent", "closed", "gone"}

\* The list has every mailbox that is in use once, and no other.
ListInv ==
  /\ \A i \in 1 .. Len(nodes) : Present(nodes[i])
  /\ \A i, j \in 1 .. Len(nodes) : nodes[i] = nodes[j] => i = j
  /\ \A b \in Boxes : Present(b) => \E i \in 1 .. Len(nodes) : nodes[i] = b

TodoInv ==
  /\ todo # <<>> <=> dpc \in Busy
  /\ \A i \in 1 .. Len(todo) : Open(todo[i])
  /\ \A i, j \in 1 .. Len(todo) : todo[i] = todo[j] => i = j
  /\ ~frame.all => Len(todo) <= 1

\* A descriptor is a client's from accept to close.
FdInv ==
  /\ \A b \in Locals :
       fd[b] \in {1, 128} /\ bpc[b] \notin {"exit", "closed", "gone"}
  /\ \A c \in Clients : bpc[c] # "absent" => fd[c] \in Fds
  /\ \A c \in Clients : Open(c) => fd[c] \in open
  /\ \A c, d \in Clients : Open(c) /\ Open(d) /\ fd[c] = fd[d] => c = d

\* A request carries the descriptor of its client, and so does the answer.
AskInv ==
  /\ \A a \in asks : bpc[a.asker] # "absent" /\ a.port = fd[a.asker] % 256
  /\ frame.asker # Nobody =>
       /\ frame.asker \in Clients /\ bpc[frame.asker] # "absent"
       /\ frame.port = fd[frame.asker] % 256 /\ ~frame.all

FrameInv == dpc # "idle" => frame.num = taken /\ taken > 0

IInv ==
  TypeOK /\ LockInv /\ ListInv /\ TodoInv /\ FdInv /\ AskInv /\ FrameInv

-----------------------------------------------------------------------------
(* The sequences                                                           *)

LessThan == {ss \in Nat \X Nat : ss[1] < ss[2]}

LEMMA SmallestOfNat ==
  ASSUME NEW S, S \subseteq Nat, S # {}
  PROVE  \E i \in S : \A j \in S : i <= j
<1>1. IsWellFoundedOn(LessThan, Nat)
  BY NatLessThanWellFounded DEF OpToRel, LessThan
<1>2. \E i \in S : \A j \in S : ~(<<j, i>> \in LessThan)
  BY <1>1, WFMin
<1>3. \A i, j \in Nat : <<j, i>> \in LessThan <=> j < i
  BY DEF LessThan
<1>4. PICK i \in S : \A j \in S : ~(<<j, i>> \in LessThan)
  BY <1>2
<1>5. \A j \in S : i <= j
  <2>. TAKE j \in S
  <2>1. i \in Nat /\ j \in Nat /\ ~(j < i)
    BY <1>3, <1>4
  <2>. QED
    BY <2>1
<1>. QED
  BY <1>5

LEMMA HeadOfTodo ==
  ASSUME TypeOK, TodoInv, dpc \in Busy
  PROVE  /\ todo # <<>> /\ Len(todo) \in Nat \ {0}
         /\ Head(todo) \in Boxes /\ Head(todo) = todo[1]
         /\ Tail(todo) \in Seq(Boxes) /\ Len(Tail(todo)) = Len(todo) - 1
         /\ \A i \in 1 .. Len(todo) - 1 : Tail(todo)[i] = todo[i + 1]
<1>1. todo \in Seq(Boxes) /\ todo # <<>>
  BY DEF TypeOK, TodoInv
<1>. QED
  BY <1>1, HeadTailProperties, EmptySeq

LEMMA NodesAreBoxes ==
  ASSUME TypeOK
  PROVE  /\ \A i \in 1 .. Len(nodes) : nodes[i] \in Boxes
         /\ \A i \in 1 .. Len(todo) : todo[i] \in Boxes
<1>1. nodes \in Seq(Boxes) /\ todo \in Seq(Boxes)
  BY DEF TypeOK
<1>. QED
  BY <1>1, ElementOfSeq

LEMMA Prepended ==
  ASSUME TypeOK, NEW b \in Boxes, nodes' = <<b>> \o nodes
  PROVE  /\ Len(nodes') = Len(nodes) + 1 /\ Len(nodes) \in Nat
         /\ nodes'[1] = b
         /\ \A i \in 1 .. Len(nodes) : nodes'[i + 1] = nodes[i]
         /\ \A i \in 1 .. Len(nodes') : i = 1 \/ nodes'[i] = nodes[i - 1]
<1>1. nodes \in Seq(Boxes) /\ Len(nodes) \in Nat
  BY DEF TypeOK
<1>2. <<b>> \in Seq(Boxes) /\ Len(<<b>>) = 1 /\ <<b>>[1] = b
  OBVIOUS
<1>3. /\ Len(nodes') = Len(<<b>>) + Len(nodes)
      /\ \A i \in 1 .. Len(<<b>>) + Len(nodes) :
           nodes'[i] = IF i <= Len(<<b>>) THEN <<b>>[i]
                       ELSE nodes[i - Len(<<b>>)]
  BY <1>1, <1>2, ConcatProperties
<1>. QED
  BY <1>1, <1>2, <1>3

LEMMA HeadAndNumber ==
  ASSUME TypeOK, TodoInv, FrameInv, dpc \in Busy
  PROVE  Head(todo) \in Boxes /\ frame.num \in 1 .. MaxFrames
<1>1. taken \in 0 .. MaxFrames /\ frame.num = taken /\ taken > 0
  BY DEF FrameInv, TypeOK, Busy
<1>. QED
  BY <1>1, HeadOfTodo, FramesAssumption

\* Where a mailbox is in the list when c has been taken out.
LEMMA WithoutProperties ==
  ASSUME TypeOK, ListInv, NEW c \in Boxes, Present(c)
  PROVE  /\ Without(c) \in Seq(Boxes)
         /\ \A i \in 1 .. Len(Without(c)) :
              \E k \in 1 .. Len(nodes) :
                /\ Without(c)[i] = nodes[k] /\ nodes[k] # c
         /\ \A i, j \in 1 .. Len(Without(c)) :
              Without(c)[i] = Without(c)[j] => i = j
         /\ \A k \in 1 .. Len(nodes) : nodes[k] # c =>
              \E i \in 1 .. Len(Without(c)) : Without(c)[i] = nodes[k]
<1>. DEFINE p == CHOOSE i \in 1 .. Len(nodes) : nodes[i] = c
            n == Len(nodes)
            s == SubSeq(nodes, 1, p - 1)
            t == SubSeq(nodes, p + 1, n)
<1>1. nodes \in Seq(Boxes) /\ n \in Nat
  BY DEF TypeOK
<1>2. p \in 1 .. n /\ nodes[p] = c
  BY DEF ListInv
<1>3. \A i \in 1 .. n : nodes[i] \in Boxes
  BY <1>1, ElementOfSeq
<1>. HIDE DEF p
<1>4. s \in Seq(Boxes) /\ Len(s) = p - 1 /\ \A i \in 1 .. p - 1 : s[i] = nodes[i]
  <2>1. \A i \in 1 .. p - 1 : nodes[i] \in Boxes
    BY <1>1, <1>2, <1>3
  <2>2. s \in Seq(Boxes)
        /\ Len(s) = (IF 1 <= p - 1 THEN p - 1 - 1 + 1 ELSE 0)
        /\ \A i \in 1 .. p - 1 - 1 + 1 : s[i] = nodes[1 + i - 1]
    BY <1>1, <1>2, <2>1, SubSeqProperties
  <2>. QED
    BY <1>1, <1>2, <2>2
<1>5. t \in Seq(Boxes) /\ Len(t) = n - p
        /\ \A i \in 1 .. n - p : t[i] = nodes[p + i]
  <2>1. \A i \in p + 1 .. n : nodes[i] \in Boxes
    BY <1>1, <1>2, <1>3
  <2>2. t \in Seq(Boxes)
        /\ Len(t) = (IF p + 1 <= n THEN n - (p + 1) + 1 ELSE 0)
        /\ \A i \in 1 .. n - (p + 1) + 1 : t[i] = nodes[p + 1 + i - 1]
    BY <1>1, <1>2, <2>1, SubSeqProperties
  <2>. QED
    BY <1>1, <1>2, <2>2
<1>. DEFINE w == s \o t
<1>6. Without(c) = w
  BY DEF Without, p
<1>. HIDE DEF s, t
<1>7. w \in Seq(Boxes) /\ Len(w) = n - 1
      /\ \A i \in 1 .. n - 1 : w[i] = IF i < p THEN nodes[i] ELSE nodes[i + 1]
  <2>1. w \in Seq(Boxes) /\ Len(w) = Len(s) + Len(t)
        /\ \A i \in 1 .. Len(s) + Len(t) :
             w[i] = IF i <= Len(s) THEN s[i] ELSE t[i - Len(s)]
    BY <1>4, <1>5, ConcatProperties
  <2>. QED
    BY <1>1, <1>2, <1>4, <1>5, <2>1
<1>. HIDE DEF w
<1>8. \A i, j \in 1 .. n : nodes[i] = nodes[j] => i = j
  BY DEF ListInv
<1>9. \A i \in 1 .. Len(w) :
        \E k \in 1 .. n : w[i] = nodes[k] /\ nodes[k] # c
  <2>. TAKE i \in 1 .. Len(w)
  <2>1. CASE i < p
    BY SMTT(20), <1>1, <1>2, <1>7, <1>8, <2>1
  <2>2. CASE ~(i < p)
    <3>1. i + 1 \in 1 .. n /\ w[i] = nodes[i + 1] /\ i + 1 # p
      BY <1>1, <1>2, <1>7, <2>2
    <3>. QED
      BY <1>2, <1>8, <3>1
  <2>. QED
    BY <2>1, <2>2
<1>10. \A i, j \in 1 .. Len(w) : w[i] = w[j] => i = j
  BY <1>1, <1>2, <1>7, <1>8
<1>11. \A k \in 1 .. n : nodes[k] # c => \E i \in 1 .. Len(w) : w[i] = nodes[k]
  <2>. TAKE k \in 1 .. n
  <2>. HAVE nodes[k] # c
  <2>1. CASE k < p
    BY <1>1, <1>2, <1>7, <2>1
  <2>2. CASE k > p
    <3>1. k - 1 \in 1 .. Len(w) /\ w[k - 1] = nodes[k]
      BY <1>1, <1>2, <1>7, <2>2
    <3>. QED
      BY <3>1
  <2>. QED
    BY <1>1, <1>2, <2>1, <2>2
<1>. QED
  BY <1>6, <1>7, <1>9, <1>10, <1>11

\* node_search_cmd finds a node with the descriptor, if there is one.
LEMMA SearchProperties ==
  ASSUME TypeOK, NEW f \in Nat
  PROVE  /\ Search(f) \in Seq(Boxes) /\ Len(Search(f)) <= 1
         /\ \A i \in 1 .. Len(Search(f)) :
              /\ i = 1 /\ fd[Search(f)[i]] = f
              /\ \E k \in 1 .. Len(nodes) : Search(f)[i] = nodes[k]
         /\ f # 0 /\ (\E k \in 1 .. Len(nodes) : fd[nodes[k]] = f) =>
              Search(f) # <<>>
<1>. DEFINE hits == {i \in 1 .. Len(nodes) : f # 0 /\ fd[nodes[i]] = f}
            h == CHOOSE i \in hits : \A j \in hits : i <= j
<1>1. nodes \in Seq(Boxes) /\ Len(nodes) \in Nat
  BY DEF TypeOK
<1>2. CASE hits = {}
  <2>1. Search(f) = <<>>
    BY <1>2 DEF Search
  <2>. QED
    BY <1>2, <2>1, EmptySeq
<1>3. CASE hits # {}
  <2>1. h \in hits
    <3>1. \E i \in hits : \A j \in hits : i <= j
      BY <1>1, <1>3, SmallestOfNat, hits \subseteq Nat
    <3>. QED
      BY <3>1
  <2>2. Search(f) = <<nodes[h]>>
    BY <1>3 DEF Search
  <2>3. nodes[h] \in Boxes
    BY <1>1, <2>1, ElementOfSeq
  <2>. HIDE DEF h
  <2>4. <<nodes[h]>> \in Seq(Boxes) /\ Len(<<nodes[h]>>) = 1
        /\ <<nodes[h]>>[1] = nodes[h] /\ <<nodes[h]>> # <<>>
    BY <2>3
  <2>. QED
    BY <2>1, <2>2, <2>4
<1>. QED
  BY <1>2, <1>3

-----------------------------------------------------------------------------
(* Type correctness                                                        *)

LEMMA TypeStep ==
  ASSUME TypeOK, ListInv, TodoInv, FdInv, FrameInv, [Next]_vars
  PROVE  TypeOK'
<1>0. {Empty, Partial, Mixed} \cup 0 .. MaxFrames \subseteq Content
  BY FramesAssumption DEF Content, Empty, Partial, Mixed
<1>1. ASSUME NEW b \in Boxes, Connect(b) PROVE TypeOK'
  <2>1. nodes' \in Seq(Boxes)
    BY <1>1 DEF Connect, TypeOK
  <2>2. fd' \in [Boxes -> Nat] /\ open' \subseteq Fds
    <3>1. PICK f \in Fds \ open :
            fd' = [fd EXCEPT ![b] = f] /\ open' = open \cup {f}
      BY <1>1 DEF Connect
    <3>2. f \in Nat /\ fd \in [Boxes -> Nat] /\ open \subseteq Fds
      BY FdsAssumption DEF TypeOK
    <3>. QED
      BY <3>1, <3>2
  <2>. QED
    BY <1>1, <2>1, <2>2 DEF Connect, TypeOK
<1>2. ASSUME NEW b \in Boxes, StartTask(b) PROVE TypeOK'
  <2>1. nodes' \in Seq(Boxes)
    BY <1>2 DEF StartTask, TypeOK
  <2>. QED
    BY <1>2, <2>1 DEF StartTask, TypeOK
<1>3. ASSUME NEW b \in Boxes, Disconnect(b) PROVE TypeOK'
  BY <1>3 DEF Disconnect, TypeOK
<1>4. ASSUME NEW b \in Boxes, Close(b) PROVE TypeOK'
  BY <1>4 DEF Close, TypeOK
<1>5. ASSUME NEW b \in Boxes, Free(b) PROVE TypeOK'
  <2>1. nodes' \in Seq(Boxes)
    BY <1>5, WithoutProperties DEF Free, Present
  <2>. QED
    BY <1>5, <2>1 DEF Free, TypeOK
<1>6. ASSUME NEW b \in Boxes, Ask(b) PROVE TypeOK'
  <2>1. fd[b] \in Nat
    BY DEF TypeOK
  <2>2. fd[b] % 256 \in 0 .. 255
    BY <2>1
  <2>3. asks' \subseteq [asker : Clients, port : 0 .. 255]
    <3>1. asks \subseteq [asker : Clients, port : 0 .. 255]
      BY DEF TypeOK
    <3>2. b \in Clients /\ asks' = asks \cup {[asker |-> b, port |-> fd[b] % 256]}
      BY <1>6 DEF Ask
    <3>. QED
      BY <2>2, <3>1, <3>2
  <2>. QED
    BY <1>6, <2>3 DEF Ask, TypeOK, boxVars
<1>7. ASSUME NEW b \in Boxes, TryWait(b) PROVE TypeOK'
  <2>1. sem' \in [Boxes -> Nat]
    <3>1. sem \in [Boxes -> Nat] /\ sem[b] > 0
      BY <1>7 DEF TryWait, TypeOK
    <3>2. sem' = [sem EXCEPT ![b] = sem[b] - 1]
      BY <1>7 DEF TryWait
    <3>. QED
      BY <3>1, <3>2
  <2>. QED
    BY <1>7, <2>1 DEF TryWait, TypeOK
<1>8. ASSUME NEW b \in Boxes, SendEnd(b) PROVE TypeOK'
  <2>1. \A x \in Content : Append(out[b], x) \in Seq(Content)
    BY DEF TypeOK
  <2>2. out' \in [Boxes -> Seq(Content)]
    BY <1>0, <1>8, <2>1 DEF SendEnd, TypeOK
  <2>. QED
    BY <1>8, <2>2 DEF SendEnd, TypeOK
<1>9. ASSUME NEW b \in Boxes, Clear(b) PROVE TypeOK'
  BY <1>0, <1>9 DEF Clear, TypeOK
<1>10. CASE Take
  <2>0. taken + 1 \in 0 .. MaxFrames
    BY <1>10, FramesAssumption DEF Take, TypeOK
  <2>1. frame' \in [num : 0 .. MaxFrames, asker : Boxes \cup {Nobody},
                    port : 0 .. 255, all : BOOLEAN]
    <3>1. CASE \E a \in asks :
                 frame' = [num |-> taken + 1, asker |-> a.asker,
                           port |-> a.port, all |-> FALSE]
      <4>1. PICK a \in asks : frame' = [num |-> taken + 1, asker |-> a.asker,
                                       port |-> a.port, all |-> FALSE]
        BY <3>1
      <4>2. a.asker \in Boxes /\ a.port \in 0 .. 255
        BY DEF TypeOK, Boxes
      <4>. QED
        BY <2>0, <4>1, <4>2
    <3>2. CASE \E port \in {0} \cup {fd[b] : b \in Locals} :
                 frame' = [num |-> taken + 1, asker |-> Nobody,
                           port |-> port, all |-> port = 0]
      <4>1. \A b \in Locals : fd[b] \in 0 .. 255
        BY DEF FdInv
      <4>2. PICK port \in {0} \cup {fd[b] : b \in Locals} :
                   frame' = [num |-> taken + 1, asker |-> Nobody,
                             port |-> port, all |-> port = 0]
        BY <3>2
      <4>3. port \in 0 .. 255 /\ (port = 0) \in BOOLEAN
        BY <4>1, <4>2
      <4>. QED
        BY <2>0, <4>2, <4>3
    <3>. QED
      BY <1>10, <3>1, <3>2 DEF Take
  <2>2. asks' \subseteq asks
    BY <1>10 DEF Take
  <2>3. taken' \in 0 .. MaxFrames
    BY <1>10, FramesAssumption DEF Take, TypeOK
  <2>. QED
    BY <1>10, <2>1, <2>2, <2>3 DEF Take, TypeOK, boxVars
<1>11. CASE Route
  <2>1. todo' \in Seq(Boxes)
    <3>1. Address(frame.port) \in Nat
      <4>1. frame.port \in 0 .. 255
        BY DEF TypeOK
      <4>2. frame.port \in Nat
        BY <4>1
      <4>. QED
        BY <4>2 DEF Address
    <3>2. Search(Address(frame.port)) \in Seq(Boxes)
      BY <3>1, SearchProperties
    <3>. QED
      BY <1>11, <3>2 DEF Route, TypeOK
  <2>. QED
    BY <1>11, <2>1 DEF Route, TypeOK, boxVars
<1>12. CASE CopyBegin
  <2>1. Head(todo) \in Boxes /\ frame.num \in 1 .. MaxFrames
    BY <1>12, HeadAndNumber DEF CopyBegin, Busy
  <2>2. Append(given[Head(todo)], frame.num) \in Seq(1 .. MaxFrames)
    BY <2>1 DEF TypeOK
  <2>3. crossed' \in [Boxes -> BOOLEAN]
    BY <1>12, <2>1, ZenonT(30) DEF CopyBegin, TypeOK
  <2>4. buf' \in [Boxes -> Content] /\ given' \in [Boxes -> Seq(1 .. MaxFrames)]
    BY <1>0, <1>12, <2>1, <2>2 DEF CopyBegin, TypeOK
  <2>. QED
    BY <1>12, <2>3, <2>4 DEF CopyBegin, TypeOK
<1>13. CASE CopyEnd
  <2>1. Head(todo) \in Boxes /\ frame.num \in 1 .. MaxFrames
    BY <1>13, HeadAndNumber DEF CopyEnd, Busy
  <2>2. buf' \in [Boxes -> Content]
    BY <1>0, <1>13, <2>1 DEF CopyEnd, TypeOK
  <2>. QED
    BY <1>13, <2>2 DEF CopyEnd, TypeOK
<1>14. CASE Post
  <2>1. Head(todo) \in Boxes /\ Tail(todo) \in Seq(Boxes)
    BY <1>14, HeadOfTodo DEF Post, Busy
  <2>2. sem' \in [Boxes -> Nat]
    <3>1. sem \in [Boxes -> Nat]
          /\ sem' = [sem EXCEPT ![Head(todo)] = sem[Head(todo)] + 1]
      BY <1>14 DEF Post, TypeOK
    <3>. QED
      BY <2>1, <3>1
  <2>. QED
    BY <1>14, <2>1, <2>2 DEF Post, TypeOK
<1>15. CASE Unlock
  <2>1. NoFrame \in [num : 0 .. MaxFrames, asker : Boxes \cup {Nobody},
                     port : 0 .. 255, all : BOOLEAN]
    BY FramesAssumption DEF NoFrame
  <2>. QED
    BY <1>15, <2>1 DEF Unlock, TypeOK, boxVars
<1>16. CASE UNCHANGED vars
  BY <1>16 DEF vars, boxVars, TypeOK
<1>. QED
  BY <1>1, <1>2, <1>3, <1>4, <1>5, <1>6, <1>7, <1>8, <1>9, <1>10, <1>11,
     <1>12, <1>13, <1>14, <1>15, <1>16 DEF Next, Dispatch, Box

-----------------------------------------------------------------------------
(* The steps that nobody enters or leaves the list by                      *)

Places == {"absent", "run", "send", "clear", "exit", "closed", "gone"}

Quiet(b) == Disconnect(b) \/ Ask(b) \/ TryWait(b) \/ SendEnd(b) \/ Clear(b)

LEMMA QuietKeeps ==
  ASSUME TypeOK, NEW b \in Boxes, Quiet(b)
  PROVE  /\ nodes' = nodes /\ fd' = fd /\ open' = open /\ lock' = lock
         /\ todo' = todo /\ frame' = frame /\ dpc' = dpc /\ taken' = taken
         /\ \A x \in Boxes : /\ Present(x)' <=> Present(x)
                             /\ Open(x)' <=> Open(x)
                             /\ bpc'[x] = "absent" <=> bpc[x] = "absent"
<1>1. bpc \in [Boxes -> Places]
  BY DEF TypeOK, Places
<1>2. /\ nodes' = nodes /\ fd' = fd /\ open' = open /\ lock' = lock
      /\ todo' = todo /\ frame' = frame /\ dpc' = dpc /\ taken' = taken
      /\ \E y \in {"run", "send", "clear", "exit"} :
           bpc' = bpc \/ bpc' = [bpc EXCEPT ![b] = y]
      /\ bpc[b] \in {"run", "send", "clear"}
  BY DEF Quiet, Disconnect, Ask, TryWait, SendEnd, Clear, boxVars
<1>. QED
  BY <1>1, <1>2 DEF Present, Open

LEMMA DispatchKeeps ==
  ASSUME Dispatch \/ UNCHANGED vars
  PROVE  /\ nodes' = nodes /\ fd' = fd /\ open' = open /\ bpc' = bpc
         /\ \A x \in Boxes : (Present(x)' <=> Present(x)) /\ (Open(x)' <=> Open(x))
  BY DEF Dispatch, Take, Route, CopyBegin, CopyEnd, Post, Unlock, vars, boxVars,
         Present, Open

-----------------------------------------------------------------------------
(* The lock, the list and what the dispatcher has to do                    *)

LEMMA LockStep ==
  ASSUME TypeOK, LockInv, FdInv, [Next]_vars
  PROVE  LockInv'
<1>1. ASSUME NEW b \in Boxes, Connect(b) PROVE LockInv'
  BY <1>1, BoxesAssumption DEF Connect, TypeOK, LockInv, Busy
<1>2. ASSUME NEW b \in Boxes, StartTask(b) PROVE LockInv'
  BY <1>2, BoxesAssumption DEF StartTask, TypeOK, LockInv, Busy
<1>3. ASSUME NEW b \in Boxes, Disconnect(b) PROVE LockInv'
  BY <1>3, BoxesAssumption DEF Disconnect, TypeOK, LockInv, Busy
<1>4. ASSUME NEW b \in Boxes, Close(b) PROVE LockInv'
  BY SMTT(20), <1>4, BoxesAssumption DEF Close, TypeOK, LockInv, Busy
<1>5. ASSUME NEW b \in Boxes, Free(b) PROVE LockInv'
  BY <1>5, BoxesAssumption DEF Free, TypeOK, LockInv, Busy
<1>6. ASSUME NEW b \in Boxes, Ask(b) PROVE LockInv'
  BY <1>6, BoxesAssumption DEF Ask, boxVars, TypeOK, LockInv, Busy
<1>7. ASSUME NEW b \in Boxes, TryWait(b) PROVE LockInv'
  BY <1>7, BoxesAssumption DEF TryWait, TypeOK, LockInv, Busy
<1>8. ASSUME NEW b \in Boxes, SendEnd(b) PROVE LockInv'
  BY <1>8, BoxesAssumption DEF SendEnd, TypeOK, LockInv, Busy
<1>9. ASSUME NEW b \in Boxes, Clear(b) PROVE LockInv'
  BY <1>9, BoxesAssumption DEF Clear, TypeOK, LockInv, Busy
<1>10. CASE Take
  BY <1>10, BoxesAssumption DEF Take, boxVars, TypeOK, LockInv, Busy
<1>11. CASE Route
  BY <1>11, BoxesAssumption DEF Route, boxVars, TypeOK, LockInv, Busy
<1>12. CASE CopyBegin
  BY <1>12, BoxesAssumption DEF CopyBegin, TypeOK, LockInv, Busy
<1>13. CASE CopyEnd
  BY <1>13, BoxesAssumption DEF CopyEnd, TypeOK, LockInv, Busy
<1>14. CASE Post
  BY <1>14, BoxesAssumption DEF Post, TypeOK, LockInv, Busy
<1>15. CASE Unlock
  BY <1>15, BoxesAssumption DEF Unlock, boxVars, TypeOK, LockInv, Busy
<1>16. CASE UNCHANGED vars
  BY <1>16, BoxesAssumption DEF vars, boxVars, TypeOK, LockInv, Busy
<1>. QED
  BY <1>1, <1>2, <1>3, <1>4, <1>5, <1>6, <1>7, <1>8, <1>9, <1>10,
     <1>11, <1>12, <1>13, <1>14, <1>15, <1>16
     DEF Next, Dispatch, Box

LEMMA ListStep ==
  ASSUME TypeOK, LockInv, ListInv, [Next]_vars
  PROVE  ListInv'
<1>1. ASSUME NEW b \in Boxes, Connect(b) \/ StartTask(b) PROVE ListInv'
  <2>1. nodes' = <<b>> \o nodes /\ bpc[b] = "absent"
        /\ bpc' = [bpc EXCEPT ![b] = "run"]
    BY <1>1 DEF Connect, StartTask
  <2>2. bpc \in [Boxes -> Places]
        /\ \A i \in 1 .. Len(nodes) : nodes[i] \in Boxes /\ nodes[i] # b
    BY ZenonT(30), <2>1, NodesAreBoxes DEF TypeOK, Places, ListInv, Present
  <2>3. \A x \in Boxes : Present(x)' <=> Present(x) \/ x = b
    BY <2>1, <2>2 DEF Present
  <2>4. nodes'[1] = b /\ Len(nodes) \in Nat /\ Len(nodes') = Len(nodes) + 1
        /\ (\A i \in 1 .. Len(nodes') : i = 1 \/ nodes'[i] = nodes[i - 1])
        /\ \A i \in 1 .. Len(nodes) : nodes'[i + 1] = nodes[i]
    BY <2>1, Prepended
  <2>5. \A i \in 1 .. Len(nodes') : i = 1 \/ i - 1 \in 1 .. Len(nodes)
    BY <2>4
  <2>6. \A i \in 1 .. Len(nodes') : Present(nodes[i])'
    BY <2>2, <2>3, <2>4, <2>5 DEF ListInv
  <2>7. \A i, j \in 1 .. Len(nodes') : nodes'[i] = nodes'[j] => i = j
    <3>. TAKE i, j \in 1 .. Len(nodes')
    <3>. HAVE nodes'[i] = nodes'[j]
    <3>1. CASE i = 1 \/ j = 1
      BY <2>2, <2>4, <2>5, <3>1
    <3>2. CASE i # 1 /\ j # 1
      <4>1. i - 1 = j - 1
        BY <2>4, <2>5, <3>2 DEF ListInv
      <4>. QED
        BY <2>4, <4>1
    <3>. QED
      BY <3>1, <3>2
  <2>8. \A x \in Boxes : Present(x)' => \E i \in 1 .. Len(nodes') : nodes'[i] = x
    <3>. TAKE x \in Boxes
    <3>1. CASE x = b
      BY <2>4, <3>1
    <3>2. CASE Present(x)
      <4>1. PICK i \in 1 .. Len(nodes) : nodes[i] = x
        BY <3>2 DEF ListInv
      <4>2. i + 1 \in 1 .. Len(nodes') /\ nodes'[i + 1] = x
        BY <2>4, <4>1
      <4>. QED
        BY <4>2
    <3>. QED
      BY <2>3, <3>1, <3>2
  <2>. QED
    BY <2>6, <2>7, <2>8 DEF ListInv
<1>2. ASSUME NEW b \in Boxes, Close(b) PROVE ListInv'
  <2>1. \A x \in Boxes : Present(x)' <=> Present(x)
    BY <1>2 DEF Close, TypeOK, Present
  <2>. QED
    BY <1>2, <2>1, NodesAreBoxes DEF Close, ListInv
<1>3. ASSUME NEW b \in Boxes, Free(b) PROVE ListInv'
  <2>1. \A x \in Boxes : Present(x)' <=> Present(x) /\ x # b
    BY <1>3 DEF Free, TypeOK, Present
  <2>2. nodes' = Without(b) /\ Present(b)
    BY <1>3 DEF Free, Present
  <2>. DEFINE w == Without(b)
  <2>3. /\ \A i \in 1 .. Len(w) :
             \E k \in 1 .. Len(nodes) : w[i] = nodes[k] /\ nodes[k] # b
        /\ \A i, j \in 1 .. Len(w) : w[i] = w[j] => i = j
        /\ \A k \in 1 .. Len(nodes) : nodes[k] # b =>
             \E i \in 1 .. Len(w) : w[i] = nodes[k]
    BY <2>2, WithoutProperties
  <2>. HIDE DEF w
  <2>4. nodes' = w
    BY <2>2 DEF w
  <2>5. \A i \in 1 .. Len(nodes') : Present(nodes[i])'
    <3>. TAKE i \in 1 .. Len(nodes')
    <3>1. PICK k \in 1 .. Len(nodes) : nodes'[i] = nodes[k] /\ nodes[k] # b
      BY <2>3, <2>4
    <3>2. Present(nodes[k]) /\ nodes[k] \in Boxes
      BY NodesAreBoxes DEF ListInv
    <3>. QED
      BY <2>1, <3>1, <3>2 DEF Present
  <2>6. \A x \in Boxes : Present(x)' => \E i \in 1 .. Len(w) : w[i] = x
    BY <2>1, <2>3 DEF ListInv
  <2>. QED
    BY <2>3, <2>4, <2>5, <2>6 DEF ListInv
<1>4. ASSUME NEW b \in Boxes, Quiet(b) PROVE ListInv'
  BY <1>4, QuietKeeps, NodesAreBoxes DEF ListInv
<1>5. CASE Dispatch \/ UNCHANGED vars
  BY <1>5, DispatchKeeps, NodesAreBoxes DEF ListInv
<1>. QED
  BY <1>1, <1>2, <1>3, <1>4, <1>5 DEF Next, Box, Quiet

LEMMA FdStep ==
  ASSUME TypeOK, FdInv, [Next]_vars
  PROVE  FdInv'
<1>. USE BoxesAssumption, FdsAssumption DEF Boxes
<1>1. ASSUME NEW b \in Boxes, Connect(b) PROVE FdInv'
  <2>1. PICK f \in Fds \ open :
          fd' = [fd EXCEPT ![b] = f] /\ open' = open \cup {f}
    BY <1>1 DEF Connect
  <2>2. b \in Clients /\ bpc' = [bpc EXCEPT ![b] = "run"] /\ bpc[b] = "absent"
    BY <1>1 DEF Connect
  <2>3. bpc \in [Boxes -> Places] /\ fd \in [Boxes -> Nat]
    BY DEF TypeOK, Places
  <2>. QED
    BY <2>1, <2>2, <2>3 DEF FdInv, Open
<1>2. ASSUME NEW b \in Boxes, StartTask(b) PROVE FdInv'
  <2>1. b \in Locals /\ fd' = fd /\ open' = open
        /\ bpc' = [bpc EXCEPT ![b] = "run"]
    BY <1>2 DEF StartTask
  <2>2. bpc \in [Boxes -> Places]
    BY DEF TypeOK, Places
  <2>3. \A c \in Clients : bpc'[c] = bpc[c]
    BY <2>1, <2>2
  <2>. QED
    BY <2>1, <2>2, <2>3 DEF FdInv, Open
<1>3. ASSUME NEW b \in Boxes, Close(b) PROVE FdInv'
  <2>1. b \in Clients /\ open' = open \ {fd[b]} /\ fd' = fd
        /\ bpc' = [bpc EXCEPT ![b] = "closed"] /\ bpc[b] = "exit"
    BY <1>3 DEF Close, FdInv
  <2>2. bpc \in [Boxes -> Places] /\ fd \in [Boxes -> Nat]
    BY DEF TypeOK, Places
  <2>. QED
    BY <2>1, <2>2 DEF FdInv, Open
<1>4. ASSUME NEW b \in Boxes, Free(b) PROVE FdInv'
  <2>1. b \in Clients
    BY <1>4 DEF Free, FdInv
  <2>. QED
    BY SMTT(20), <1>4, <2>1 DEF Free, FdInv, TypeOK, Open
<1>5. ASSUME NEW b \in Boxes, Quiet(b) PROVE FdInv'
  <2>1. \A x \in Locals : bpc'[x] \notin {"exit", "closed", "gone"}
    <3>1. bpc \in [Boxes -> Places]
      BY DEF TypeOK, Places
    <3>2. \/ b \in Clients /\ bpc' = [bpc EXCEPT ![b] = "exit"]
          \/ \E y \in {"run", "send", "clear"} :
               bpc' = bpc \/ bpc' = [bpc EXCEPT ![b] = y]
      BY <1>5 DEF Quiet, Disconnect, Ask, TryWait, SendEnd, Clear, boxVars
    <3>. QED
      BY <3>1, <3>2 DEF FdInv
  <2>. QED
    BY <1>5, <2>1, QuietKeeps DEF FdInv
<1>6. CASE Dispatch \/ UNCHANGED vars
  BY <1>6, DispatchKeeps DEF FdInv
<1>. QED
  BY <1>1, <1>2, <1>3, <1>4, <1>5, <1>6 DEF Next, Box, Quiet

\* While the dispatcher has something to do nobody leaves; when it takes the
\* list or a node of it, nobody in it is closed.
LEMMA TodoStep ==
  ASSUME TypeOK, LockInv, ListInv, TodoInv, AskInv, [Next]_vars
  PROVE  TodoInv'
<1>1. ASSUME NEW b \in Boxes, Box(b), ~Quiet(b) PROVE TodoInv'
  <2>1. todo' = todo /\ dpc' = dpc /\ frame' = frame
    BY <1>1 DEF Box, Quiet, Connect, StartTask, Close, Free
  <2>2. bpc \in [Boxes -> Places]
    BY DEF TypeOK, Places
  <2>3. todo # <<>> => lock = Dispatcher
    BY DEF TodoInv, LockInv
  <2>4. todo # <<>> => \A x \in Boxes : Open(x) => Open(x)'
    <3>1. CASE Connect(b) \/ StartTask(b)
      BY <3>1, <2>2 DEF Connect, StartTask, Open
    <3>2. CASE Close(b) \/ Free(b)
      BY <3>2, <2>3, BoxesAssumption DEF Close, Free, LockInv
    <3>. QED
      BY <1>1, <3>1, <3>2 DEF Box, Quiet
  <2>5. Len(todo) > 0 => todo # <<>>
    BY DEF TypeOK
  <2>6. \A i \in 1 .. Len(todo) : Open(todo[i])'
    BY <2>1, <2>4, <2>5, NodesAreBoxes DEF TodoInv, Open
  <2>. QED
    BY <2>1, <2>6 DEF TodoInv
<1>2. ASSUME NEW b \in Boxes, Quiet(b) PROVE TodoInv'
  BY <1>2, QuietKeeps, NodesAreBoxes DEF TodoInv
<1>3. CASE Take
  <2>1. todo' = todo /\ todo = <<>> /\ dpc' = "lock" /\ bpc' = bpc
    BY <1>3 DEF Take, TodoInv, Busy, boxVars
  <2>. QED
    BY <2>1 DEF TodoInv, Busy
<1>4. CASE Route
  <2>1. \A x \in Boxes : Present(x) <=> Open(x)
    BY <1>4, BoxesAssumption DEF Route, LockInv, Present, Open
  <2>2. bpc' = bpc /\ frame' = frame
        /\ dpc' = (IF todo' = <<>> THEN "unlock" ELSE "copy")
    BY <1>4 DEF Route, boxVars
  <2>3. todo' # <<>> <=> dpc' \in Busy
    BY <2>2 DEF Busy
  <2>4. CASE frame.all
    <3>1. todo' = nodes
      BY <1>4, <2>4 DEF Route
    <3>2. \A i \in 1 .. Len(todo') : Open(todo[i])'
      BY <2>1, <2>2, <3>1, NodesAreBoxes DEF ListInv, Open
    <3>. QED
      BY <2>2, <2>3, <2>4, <3>1, <3>2 DEF TodoInv, ListInv
  <2>5. CASE ~frame.all
    <3>. DEFINE f == Address(frame.port)
    <3>1. f \in Nat
      <4>1. frame.port \in 0 .. 255
        BY DEF TypeOK
      <4>2. frame.port \in Nat
        BY <4>1
      <4>. QED
        BY <4>2 DEF Address
    <3>2. todo' = Search(f)
      BY <1>4, <2>5 DEF Route
    <3>. HIDE DEF f
    <3>3. /\ Len(Search(f)) <= 1
          /\ \A i \in 1 .. Len(Search(f)) :
               /\ i = 1
               /\ \E k \in 1 .. Len(nodes) : Search(f)[i] = nodes[k]
      BY <3>1, SearchProperties
    <3>4. \A i \in 1 .. Len(todo') : Open(todo[i])'
      BY <2>1, <2>2, <3>2, <3>3, NodesAreBoxes DEF ListInv, Open
    <3>. QED
      BY <2>3, <3>2, <3>3, <3>4 DEF TodoInv
  <2>. QED
    BY <2>4, <2>5
<1>5. CASE CopyBegin \/ CopyEnd
  <2>1. todo' = todo /\ frame' = frame /\ bpc' = bpc
        /\ dpc \in Busy /\ dpc' \in Busy
    BY <1>5 DEF CopyBegin, CopyEnd, Busy
  <2>. QED
    BY <2>1 DEF TodoInv, Open
<1>6. CASE Post
  <2>1. todo' = Tail(todo) /\ bpc' = bpc /\ frame' = frame
        /\ dpc' = (IF todo' = <<>> THEN "unlock" ELSE "copy")
    BY <1>6 DEF Post
  <2>2. /\ Len(todo) \in Nat \ {0} /\ Len(Tail(todo)) = Len(todo) - 1
        /\ \A i \in 1 .. Len(todo) - 1 : Tail(todo)[i] = todo[i + 1]
    BY <1>6, HeadOfTodo DEF Post, Busy
  <2>3. todo' # <<>> <=> dpc' \in Busy
    BY <2>1 DEF Busy
  <2>4. \A i \in 1 .. Len(todo') : i \in 1 .. Len(todo) - 1
                                   /\ i + 1 \in 1 .. Len(todo)
    BY <2>1, <2>2
  <2>5. \A i \in 1 .. Len(todo') : Open(todo[i])'
    BY <2>1, <2>2, <2>4 DEF TodoInv, Open
  <2>6. \A i, j \in 1 .. Len(todo') : todo'[i] = todo'[j] => i = j
    <3>. TAKE i, j \in 1 .. Len(todo')
    <3>. HAVE todo'[i] = todo'[j]
    <3>1. i + 1 = j + 1
      BY <2>1, <2>2, <2>4 DEF TodoInv
    <3>. QED
      BY <2>2, <2>4, <3>1
  <2>7. ~frame.all => Len(todo') <= 1
    BY <2>1, <2>2 DEF TodoInv
  <2>. QED
    BY <2>1, <2>3, <2>5, <2>6, <2>7 DEF TodoInv
<1>7. CASE Unlock
  <2>1. todo' = todo /\ todo = <<>> /\ dpc' = "idle" /\ bpc' = bpc
    BY <1>7 DEF Unlock, TodoInv, Busy, boxVars
  <2>2. Len(todo') = 0
    BY <2>1
  <2>. QED
    BY <2>1, <2>2 DEF TodoInv, Busy
<1>8. CASE UNCHANGED vars
  BY <1>8 DEF vars, boxVars, TodoInv, Open
<1>. QED
  BY <1>1, <1>2, <1>3, <1>4, <1>5, <1>6, <1>7, <1>8 DEF Next, Dispatch

LEMMA AskStep ==
  ASSUME TypeOK, FdInv, AskInv, [Next]_vars
  PROVE  AskInv'
<1>. USE BoxesAssumption DEF Boxes
<1>1. bpc \in [Boxes -> Places] /\ fd \in [Boxes -> Nat]
      /\ \A a \in asks : a.asker \in Clients
  BY DEF TypeOK, Places
<1>2. ASSUME NEW b \in Boxes, Box(b), ~Ask(b) PROVE AskInv'
  <2>1. asks' = asks /\ frame' = frame
    BY <1>2 DEF Box, Connect, StartTask, Disconnect, Close, Free, TryWait,
                SendEnd, Clear
  <2>2. \A x \in Boxes : bpc[x] # "absent" => bpc'[x] # "absent" /\ fd'[x] = fd[x]
    BY <1>1, <1>2 DEF Box, Connect, StartTask, Disconnect, Close, Free, TryWait,
                SendEnd, Clear
  <2>. QED
    BY <1>1, <2>1, <2>2 DEF AskInv
<1>3. ASSUME NEW b \in Boxes, Ask(b) PROVE AskInv'
  <2>1. asks' = asks \cup {[asker |-> b, port |-> fd[b] % 256]}
        /\ frame' = frame /\ fd' = fd /\ bpc' = bpc /\ bpc[b] = "run"
    BY <1>3 DEF Ask, boxVars
  <2>. QED
    BY <1>1, <2>1 DEF AskInv
<1>4. CASE Take
  <2>1. fd' = fd /\ bpc' = bpc
    BY <1>4 DEF Take, boxVars
  <2>2. CASE \E a \in asks :
               /\ frame' = [num |-> taken + 1, asker |-> a.asker,
                            port |-> a.port, all |-> FALSE]
               /\ asks' = asks \ {a}
    BY <1>1, <2>1, <2>2 DEF AskInv
  <2>3. CASE /\ \E port \in {0} \cup {fd[b] : b \in Locals} :
                  frame' = [num |-> taken + 1, asker |-> Nobody, port |-> port,
                            all |-> port = 0]
             /\ asks' = asks
    <3>1. frame'.asker = Nobody
      BY <2>3
    <3>. QED
      BY <2>1, <2>3, <3>1 DEF AskInv
  <2>. QED
    BY <1>4, <2>2, <2>3 DEF Take
<1>5. CASE Route \/ CopyBegin \/ CopyEnd \/ Post \/ UNCHANGED vars
  <2>1. asks' = asks /\ frame' = frame /\ fd' = fd /\ bpc' = bpc
    BY <1>5 DEF Route, CopyBegin, CopyEnd, Post, vars, boxVars
  <2>. QED
    BY <2>1 DEF AskInv
<1>6. CASE Unlock
  <2>1. asks' = asks /\ frame'.asker = Nobody /\ fd' = fd /\ bpc' = bpc
    BY <1>6 DEF Unlock, NoFrame, boxVars
  <2>. QED
    BY <2>1 DEF AskInv
<1>. QED
  BY <1>2, <1>3, <1>4, <1>5, <1>6 DEF Next, Dispatch

LEMMA FrameStep ==
  ASSUME TypeOK, FrameInv, [Next]_vars
  PROVE  FrameInv'
<1>1. CASE Take
  <2>1. taken \in Nat /\ taken' = taken + 1 /\ frame'.num = taken + 1
    BY <1>1 DEF Take, TypeOK
  <2>. QED
    BY <2>1 DEF FrameInv
<1>2. CASE Unlock
  BY <1>2 DEF Unlock, FrameInv
<1>3. CASE Route \/ CopyBegin \/ CopyEnd \/ Post \/ UNCHANGED vars
  BY <1>3 DEF Route, CopyBegin, CopyEnd, Post, vars, boxVars, FrameInv
<1>4. ASSUME NEW b \in Boxes, Box(b) PROVE FrameInv'
  BY <1>4 DEF Box, Connect, StartTask, Disconnect, Close, Free, Ask, TryWait,
              SendEnd, Clear, boxVars, FrameInv
<1>. QED
  BY <1>1, <1>2, <1>3, <1>4 DEF Next, Dispatch

LEMMA InitInv ==
  ASSUME Init
  PROVE  IInv
<1>1. TypeOK
  <2>1. Empty \in Content /\ taken \in 0 .. MaxFrames
        /\ NoFrame \in [num : 0 .. MaxFrames, asker : Boxes \cup {Nobody},
                        port : 0 .. 255, all : BOOLEAN]
    BY FramesAssumption DEF Init, Empty, Content, NoFrame
  <2>2. fd \in [Boxes -> Nat] /\ asks = {} /\ open = {}
    BY DEF Init
  <2>. QED
    BY <2>1, <2>2 DEF Init, TypeOK
<1>2. LockInv /\ FdInv /\ AskInv /\ FrameInv
  <2>1. \A b \in Boxes : bpc[b] = "absent"
    BY DEF Init
  <2>. QED
    BY <2>1, BoxesAssumption DEF Init, LockInv, FdInv, AskInv, FrameInv, Busy,
         Open, NoFrame, Boxes
<1>3. ListInv /\ TodoInv
  <2>1. Len(nodes) = 0 /\ Len(todo) = 0 /\ todo = <<>>
    BY DEF Init
  <2>. QED
    BY <2>1 DEF Init, ListInv, TodoInv, Present, Busy
<1>. QED
  BY <1>1, <1>2, <1>3 DEF IInv

LEMMA StepInv ==
  ASSUME IInv, [Next]_vars
  PROVE  IInv'
  BY TypeStep, LockStep, ListStep, TodoStep, FdStep, AskStep, FrameStep DEF IInv

\* The inductive invariant holds of every behaviour, whichever clients,
\* descriptors and frames there are.
THEOREM Invariant == Spec => []IInv
<1>1. Init => IInv
  BY InitInv
<1>2. IInv /\ [Next]_vars => IInv'
  BY StepInv
<1>. QED
  BY <1>1, <1>2, PTL DEF Spec

-----------------------------------------------------------------------------
(* The theorems                                                            *)

\* The types of lock, list, mailboxes and dispatcher, of any size.
THEOREM TypeCorrect == Spec => []TypeOK
  BY Invariant, PTL DEF IInv

\* thread_lora_recv writes to no CMD_DATA that its client has closed or
\* freed (lora.c:82-118, tcp.c:55-59).
THEOREM NothingUsedAfterFree == Spec => []NoUseAfterFree
<1>1. IInv => NoUseAfterFree
  BY DEF IInv, TodoInv, Open, NoUseAfterFree
<1>. QED
  BY <1>1, Invariant, PTL

LEMMA AnswerStep ==
  ASSUME IInv, AnswerToAsker, [Next]_vars
  PROVE  AnswerToAsker'
<1>. USE DEF IInv
<1>1. ASSUME NEW b \in Boxes, Box(b) PROVE AnswerToAsker'
  <2>1. todo' = todo /\ dpc' = dpc /\ frame' = frame
    BY <1>1 DEF Box, Connect, StartTask, Disconnect, Close, Free, Ask, TryWait,
                SendEnd, Clear, boxVars
  <2>2. bpc \in [Boxes -> Places] /\ fd \in [Boxes -> Nat]
    BY DEF TypeOK, Places
  <2>3. \A x \in Boxes : bpc[x] # "absent" =>
          (bpc[x] = "gone" => bpc'[x] = "gone") /\ fd'[x] = fd[x]
    BY <1>1, <2>2 DEF Box, Connect, StartTask, Disconnect, Close, Free, Ask,
                      TryWait, SendEnd, Clear, boxVars
  <2>4. frame.asker # Nobody => frame.asker \in Boxes /\ bpc[frame.asker] # "absent"
    BY DEF AskInv, Boxes
  <2>. QED
    BY <2>1, <2>3, <2>4 DEF AnswerToAsker
<1>2. CASE Route
  <2>. DEFINE a == frame.asker
  <2>1. frame' = frame /\ fd' = fd /\ bpc' = bpc /\ lock = Nobody
    BY <1>2 DEF Route, boxVars
  <2>. SUFFICES ASSUME a # Nobody, bpc[a] # "gone", fd[a] < 128
                PROVE  Head(todo') = a
    BY <2>1 DEF AnswerToAsker
  <2>2. a \in Clients /\ a \in Boxes /\ frame.port = fd[a] % 256 /\ ~frame.all
        /\ Open(a) /\ Present(a)
    BY <2>1, BoxesAssumption DEF AskInv, Boxes, LockInv, Open, Present
  <2>3. fd[a] \in Nat \ {0, 1}
    BY ZenonT(30), <2>2, FdsAssumption DEF FdInv, Open
  <2>4. Address(frame.port) = fd[a]
    BY <2>2, <2>3 DEF Address
  <2>5. todo' = Search(fd[a])
    BY <1>2, <2>2, <2>4 DEF Route
  <2>6. \E k \in 1 .. Len(nodes) : nodes[k] = a
    BY <2>2 DEF ListInv
  <2>7. Search(fd[a]) # <<>> /\ Search(fd[a]) \in Seq(Boxes)
    BY <2>3, <2>6, SearchProperties
  <2>8. Len(Search(fd[a])) \in Nat \ {0} /\ Head(Search(fd[a])) = Search(fd[a])[1]
    BY <2>7, EmptySeq
  <2>9. PICK k \in 1 .. Len(nodes) :
          Search(fd[a])[1] = nodes[k] /\ fd[nodes[k]] = fd[a]
    <3>1. \A i \in 1 .. Len(Search(fd[a])) :
            /\ fd[Search(fd[a])[i]] = fd[a]
            /\ \E k \in 1 .. Len(nodes) : Search(fd[a])[i] = nodes[k]
      BY ZenonT(30), <2>3, SearchProperties
    <3>. QED
      BY <2>8, <3>1
  <2>10. nodes[k] \in Boxes /\ Open(nodes[k])
    BY <2>1, NodesAreBoxes, BoxesAssumption DEF ListInv, LockInv, Open, Present
  <2>11. nodes[k] \notin Locals
    BY <2>3, <2>9 DEF FdInv
  <2>12. nodes[k] = a
    BY <2>2, <2>9, <2>10, <2>11 DEF FdInv, Boxes
  <2>. QED
    BY <2>5, <2>8, <2>9, <2>12
<1>3. CASE Post
  <2>1. frame' = frame /\ todo' = Tail(todo)
        /\ dpc' = (IF todo' = <<>> THEN "unlock" ELSE "copy")
    BY <1>3 DEF Post
  <2>2. Len(todo) \in Nat \ {0} /\ Tail(todo) \in Seq(Boxes)
        /\ Len(Tail(todo)) = Len(todo) - 1
    BY <1>3, HeadOfTodo DEF Post, Busy
  <2>3. frame.asker # Nobody => Len(todo) <= 1
    BY DEF AskInv, TodoInv
  <2>4. frame.asker # Nobody => todo' = <<>>
    BY <2>1, <2>2, <2>3, EmptySeq
  <2>. QED
    BY <2>1, <2>4 DEF AnswerToAsker
<1>4. CASE Take \/ CopyBegin \/ CopyEnd \/ Unlock
  BY <1>4 DEF Take, CopyBegin, CopyEnd, Unlock, AnswerToAsker
<1>5. CASE UNCHANGED vars
  BY <1>5 DEF vars, boxVars, AnswerToAsker
<1>. QED
  BY <1>1, <1>2, <1>3, <1>4, <1>5 DEF Next, Dispatch

\* An answer finds the client that asked, though descriptors are closed and
\* handed out again, as long as the client's is below 0x80 (lora.c:92-115).
THEOREM AnswersFindAsker == Spec => []AnswerToAsker
<1>1. Init => AnswerToAsker
  BY DEF Init, AnswerToAsker
<1>2. IInv /\ AnswerToAsker /\ [Next]_vars => AnswerToAsker'
  BY AnswerStep
<1>. QED
  BY <1>1, <1>2, Invariant, PTL DEF Spec

LEMMA AccountedStep ==
  ASSUME IInv, Accounted, [Next]_vars
  PROVE  Accounted'
<1>. USE DEF IInv
<1>1. /\ given \in [Boxes -> Seq(1 .. MaxFrames)] /\ out \in [Boxes -> Seq(Content)]
      /\ sem \in [Boxes -> Nat] /\ bpc \in [Boxes -> Places]
      /\ \A b \in Boxes : Len(given[b]) \in Nat /\ Len(out[b]) \in Nat
  <2>1. /\ given \in [Boxes -> Seq(1 .. MaxFrames)] /\ out \in [Boxes -> Seq(Content)]
        /\ sem \in [Boxes -> Nat] /\ bpc \in [Boxes -> Places]
    BY DEF TypeOK, Places
  <2>. QED
    BY <2>1, LenProperties
<1>2. ASSUME NEW b \in Boxes,
             Connect(b) \/ StartTask(b) \/ Disconnect(b) \/ Close(b) \/ Free(b)
               \/ Clear(b)
      PROVE  Accounted'
  <2>1. given' = given /\ out' = out /\ sem' = sem /\ dpc' = dpc /\ todo' = todo
    BY <1>2 DEF Connect, StartTask, Disconnect, Close, Free, Clear
  <2>2. \A x \in Boxes : bpc'[x] = "send" <=> bpc[x] = "send"
    BY <1>1, <1>2 DEF Connect, StartTask, Disconnect, Close, Free, Clear
  <2>. QED
    BY <2>1, <2>2 DEF Accounted
<1>3. ASSUME NEW b \in Boxes, TryWait(b) PROVE Accounted'
  <2>1. /\ given' = given /\ out' = out /\ dpc' = dpc /\ todo' = todo
        /\ sem' = [sem EXCEPT ![b] = sem[b] - 1] /\ sem[b] > 0
        /\ bpc' = [bpc EXCEPT ![b] = "send"] /\ bpc[b] = "run"
    BY <1>3 DEF TryWait
  <2>. QED
    BY <1>1, <2>1 DEF Accounted
<1>4. ASSUME NEW b \in Boxes, SendEnd(b) PROVE Accounted'
  <2>1. /\ given' = given /\ sem' = sem /\ dpc' = dpc /\ todo' = todo
        /\ bpc[b] = "send"
        /\ \E y \in {"run", "clear"} : bpc' = [bpc EXCEPT ![b] = y]
    BY <1>4 DEF SendEnd
  <2>2. PICK x : out' = [out EXCEPT ![b] = Append(out[b], x)]
    BY <1>4 DEF SendEnd
  <2>3. Len(Append(out[b], x)) = Len(out[b]) + 1
    BY <1>1
  <2>. DEFINE one(y) == IF y = b THEN 1 ELSE 0
              old(y) == IF bpc[y] = "send" THEN 1 ELSE 0
              new(y) == IF bpc'[y] = "send" THEN 1 ELSE 0
              there(y) == IF dpc \in {"copying", "post"} /\ Head(todo) = y
                          THEN 1 ELSE 0
  <2>4. \A y \in Boxes : Len(out'[y]) = Len(out[y]) + one(y)
    BY <1>1, <2>2, <2>3
  <2>5. \A y \in Boxes : /\ one(y) \in Nat /\ new(y) \in Nat /\ there(y) \in Nat
                         /\ old(y) = new(y) + one(y)
    BY <1>1, <2>1
  <2>6. \A y \in Boxes : Len(given[y]) = Len(out[y]) + sem[y] + old(y) + there(y)
    BY DEF Accounted
  <2>. HIDE DEF one, old, new, there
  <2>7. \A y \in Boxes : Len(given[y]) = Len(out'[y]) + sem[y] + new(y) + there(y)
    <3>. TAKE y \in Boxes
    <3>1. Len(out[y]) \in Nat /\ sem[y] \in Nat
      BY <1>1
    <3>. QED
      BY <2>4, <2>5, <2>6, <3>1
  <2>. QED
    BY <2>1, <2>7 DEF Accounted, new, there
<1>5. ASSUME NEW b \in Boxes, Ask(b) PROVE Accounted'
  BY <1>5 DEF Ask, boxVars, Accounted
<1>6. CASE CopyBegin
  <2>. DEFINE h == Head(todo)
  <2>1. /\ out' = out /\ sem' = sem /\ bpc' = bpc /\ todo' = todo
        /\ dpc = "copy" /\ dpc' = "copying"
        /\ given' = [given EXCEPT ![h] = Append(given[h], frame.num)]
    BY <1>6 DEF CopyBegin
  <2>2. h \in Boxes /\ Len(Append(given[h], frame.num)) = Len(given[h]) + 1
    BY <1>1, <2>1, HeadOfTodo DEF Busy
  <2>. HIDE DEF h
  <2>3. \A y \in Boxes : Len(given'[y]) = Len(given[y]) + (IF y = h THEN 1 ELSE 0)
    BY <1>1, <2>1, <2>2
  <2>. QED
    BY <1>1, <2>1, <2>3 DEF Accounted, h
<1>7. CASE CopyEnd
  BY <1>7 DEF CopyEnd, Accounted
<1>8. CASE Post
  <2>. DEFINE h == Head(todo)
  <2>1. /\ out' = out /\ given' = given /\ bpc' = bpc
        /\ dpc = "post" /\ dpc' \notin {"copying", "post"}
        /\ sem' = [sem EXCEPT ![h] = sem[h] + 1]
    BY <1>8 DEF Post
  <2>2. h \in Boxes
    BY <2>1, HeadOfTodo DEF Busy
  <2>. HIDE DEF h
  <2>3. \A y \in Boxes : sem'[y] = sem[y] + (IF y = h THEN 1 ELSE 0)
    BY <1>1, <2>1, <2>2
  <2>. QED
    BY <1>1, <2>1, <2>3 DEF Accounted, h
<1>9. CASE Take \/ Route \/ Unlock
  <2>1. /\ out' = out /\ given' = given /\ bpc' = bpc /\ sem' = sem
        /\ dpc \notin {"copying", "post"} /\ dpc' \notin {"copying", "post"}
    BY <1>9 DEF Take, Route, Unlock, boxVars
  <2>. QED
    BY <2>1 DEF Accounted
<1>10. CASE UNCHANGED vars
  BY <1>10 DEF vars, boxVars, Accounted
<1>. QED
  BY <1>2, <1>3, <1>4, <1>5, <1>6, <1>7, <1>8, <1>9, <1>10
     DEF Next, Dispatch, Box

\* The semaphore counts the frames, even those that are lost to a later one
\* (lora.c:107, 117, tcp.c:45).
THEOREM FramesAccounted == Spec => []Accounted
<1>1. Init => Accounted
  <2>1. Init => \A b \in Boxes : /\ given[b] = <<>> /\ out[b] = <<>> /\ sem[b] = 0
                                 /\ bpc[b] = "absent" /\ dpc = "idle"
    BY DEF Init
  <2>. QED
    BY <2>1 DEF Accounted
<1>2. IInv /\ Accounted /\ [Next]_vars => Accounted'
  BY AccountedStep
<1>. QED
  BY <1>1, <1>2, Invariant, PTL DEF Spec

-----------------------------------------------------------------------------
(* The order of what a client is sent                                      *)

Number == 1 .. MaxFrames

Below(s, n) == \A i \in 1 .. Len(s) : s[i] \in Number => s[i] < n
Earlier(x, n) == x \in Number => x < n

\* The frame in hand has yet to be put in b.
Coming(b) ==
  \/ dpc = "lock"
  \/ dpc \in {"copy", "copying"} /\ \E i \in 1 .. Len(todo) : todo[i] = b
  \/ dpc = "post" /\ \E i \in 2 .. Len(todo) : todo[i] = b

\* What mailbox b has been given has a lower number than this.
Bound(b) == IF Coming(b) THEN taken ELSE taken + 1

OldInv ==
  \A b \in Boxes :
    /\ Below(out[b], Bound(b))
    /\ Earlier(seen[b], Bound(b)) /\ Earlier(buf[b], Bound(b))

\* What a mailbox holds comes after all that has been sent, unless it is to
\* be zeroed.
NextInv ==
  \A b \in Boxes \ {AlarmBox} :
    /\ bpc[b] = "send" /\ seen[b] \in Number => Below(out[b], seen[b])
    /\ bpc[b] # "clear" /\ buf[b] \in Number => Below(out[b], buf[b])

LEMMA BelowAppend ==
  ASSUME NEW s \in Seq(Content), NEW x \in Content, NEW n \in Int,
         Below(s, n), Earlier(x, n)
  PROVE  Below(Append(s, x), n)
<1>1. /\ Len(s) \in Nat /\ Len(Append(s, x)) = Len(s) + 1
      /\ \A i \in 1 .. Len(s) : Append(s, x)[i] = s[i]
      /\ Append(s, x)[Len(s) + 1] = x
  BY AppendProperties, EmptySeq
<1>2. \A i \in 1 .. Len(s) + 1 : i \in 1 .. Len(s) \/ i = Len(s) + 1
  BY <1>1
<1>. QED
  BY <1>1, <1>2 DEF Below, Earlier

LEMMA BelowMore ==
  ASSUME NEW s \in Seq(Content), NEW m \in Int, NEW n \in Int, m <= n,
         Below(s, m)
  PROVE  Below(s, n)
<1>1. \A x \in Number : x \in Int
  BY FramesAssumption DEF Number
<1>. QED
  BY <1>1 DEF Below

\* A frame still to come to a mailbox stays so until it is there.
LEMMA BoundStep ==
  ASSUME IInv, [Next]_vars, NEW x \in Boxes
  PROVE  /\ Bound(x) \in Int /\ Bound(x)' \in Int /\ Bound(x) <= Bound(x)'
         /\ CopyEnd /\ x = Head(todo) => Bound(x)' = taken + 1
<1>. USE DEF IInv
<1>1. taken \in Nat /\ taken' \in Nat
  <2>1. TypeOK /\ TypeOK'
    BY TypeStep
  <2>. QED
    BY <2>1, FramesAssumption DEF TypeOK
<1>2. ASSUME NEW b \in Boxes, Box(b)
      PROVE  taken' = taken /\ (Coming(x)' <=> Coming(x))
  <2>1. dpc' = dpc /\ todo' = todo /\ taken' = taken
    BY <1>2 DEF Box, Connect, StartTask, Disconnect, Close, Free, Ask, TryWait,
                SendEnd, Clear, boxVars
  <2>. QED
    BY <2>1 DEF Coming
<1>3. CASE Take
  <2>1. dpc = "idle" /\ dpc' = "lock" /\ taken' = taken + 1
    BY <1>3 DEF Take
  <2>. QED
    BY <1>1, <1>3, <2>1 DEF Bound, Coming, CopyEnd
<1>4. CASE Route
  <2>1. dpc = "lock" /\ taken' = taken
    BY <1>4 DEF Route
  <2>. QED
    BY <1>1, <1>4, <2>1 DEF Bound, Coming, CopyEnd
<1>5. CASE CopyBegin
  <2>1. dpc = "copy" /\ dpc' = "copying" /\ todo' = todo /\ taken' = taken
    BY <1>5 DEF CopyBegin
  <2>. QED
    BY <1>1, <1>5, <2>1 DEF Bound, Coming, CopyEnd
<1>6. CASE CopyEnd
  <2>1. dpc = "copying" /\ dpc' = "post" /\ todo' = todo /\ taken' = taken
    BY <1>6 DEF CopyEnd
  <2>2. Len(todo) \in Nat \ {0} /\ Head(todo) = todo[1]
    BY <2>1, HeadOfTodo DEF Busy
  <2>3. \A i \in 2 .. Len(todo) : i \in 1 .. Len(todo) /\ i # 1
    BY <2>2
  <2>4. Coming(x)' => Coming(x)
    BY <2>1, <2>3 DEF Coming
  <2>5. x = Head(todo) => ~Coming(x)'
    BY <2>1, <2>2, <2>3 DEF Coming, TodoInv
  <2>. QED
    BY <1>1, <2>1, <2>4, <2>5 DEF Bound
<1>7. CASE Post
  <2>1. dpc = "post" /\ todo' = Tail(todo) /\ taken' = taken
        /\ dpc' \in {"copy", "unlock"}
    BY <1>7 DEF Post
  <2>2. /\ Len(todo) \in Nat \ {0} /\ Len(Tail(todo)) = Len(todo) - 1
        /\ \A i \in 1 .. Len(todo) - 1 : Tail(todo)[i] = todo[i + 1]
    BY <2>1, HeadOfTodo DEF Busy
  <2>3. \A i \in 1 .. Len(todo') : i + 1 \in 2 .. Len(todo)
                                   /\ todo'[i] = todo[i + 1]
    BY <2>1, <2>2
  <2>4. Coming(x)' => Coming(x)
    BY <2>1, <2>3 DEF Coming
  <2>. QED
    BY <1>1, <1>7, <2>1, <2>4 DEF Bound, CopyEnd
<1>8. CASE Unlock
  <2>1. dpc = "unlock" /\ dpc' = "idle" /\ taken' = taken
    BY <1>8 DEF Unlock
  <2>. QED
    BY <1>1, <1>8, <2>1 DEF Bound, Coming, CopyEnd
<1>9. CASE UNCHANGED vars
  <2>1. dpc' = dpc /\ todo' = todo /\ taken' = taken
    BY <1>9 DEF vars
  <2>. QED
    BY <1>1, <2>1 DEF Bound, Coming, CopyEnd
<1>10. ASSUME NEW b \in Boxes, Box(b)
       PROVE  /\ Bound(x) \in Int /\ Bound(x)' \in Int /\ Bound(x) <= Bound(x)'
              /\ ~CopyEnd
  <2>1. dpc' = dpc
    BY <1>10 DEF Box, Connect, StartTask, Disconnect, Close, Free, Ask, TryWait,
                SendEnd, Clear, boxVars
  <2>2. taken' = taken /\ (Coming(x)' <=> Coming(x))
    BY <1>2, <1>10
  <2>3. CASE Coming(x)
    BY <1>1, <2>1, <2>2, <2>3 DEF Bound, CopyEnd
  <2>4. CASE ~Coming(x)
    BY <1>1, <2>1, <2>2, <2>4 DEF Bound, CopyEnd
  <2>. QED
    BY <2>3, <2>4
<1>. QED
  BY <1>3, <1>4, <1>5, <1>6, <1>7, <1>8, <1>9, <1>10 DEF Next, Dispatch

\* What a step does to what a mailbox has sent, read and holds.
Sent(x, y) ==
  /\ bpc[x] = "send" /\ (x # AlarmBox => bpc'[x] = "clear")
  /\ out'[x] = Append(out[x], y) /\ seen'[x] = seen[x] /\ buf'[x] = buf[x]

Read(x) ==
  /\ bpc[x] = "run" /\ bpc'[x] = "send"
  /\ out'[x] = out[x] /\ seen'[x] = buf[x] /\ buf'[x] = buf[x]

Filled(x) ==
  /\ CopyEnd /\ x = Head(todo) /\ bpc'[x] = bpc[x]
  /\ out'[x] = out[x] /\ seen'[x] = seen[x] /\ buf'[x] = taken

Spoiled(x) ==
  /\ bpc'[x] = "send" => bpc[x] = "send"
  /\ out'[x] = out[x] /\ seen'[x] = seen[x]
  /\ buf'[x] \in {Empty, Partial, Mixed}

Alone(x) ==
  /\ bpc'[x] = "send" => bpc[x] = "send"
  /\ bpc[x] = "clear" => bpc'[x] = "clear"
  /\ out'[x] = out[x] /\ seen'[x] = seen[x] /\ buf'[x] = buf[x]

LEMMA MailStep ==
  ASSUME IInv, [Next]_vars, NEW x \in Boxes
  PROVE  \/ Sent(x, seen[x]) \/ Sent(x, Mixed)
         \/ Read(x) \/ Filled(x) \/ Spoiled(x) \/ Alone(x)
<1>. USE DEF IInv
<1>1. /\ out \in [Boxes -> Seq(Content)] /\ seen \in [Boxes -> Content]
      /\ buf \in [Boxes -> Content] /\ bpc \in [Boxes -> Places]
  BY DEF TypeOK, Places
<1>2. ASSUME NEW b \in Boxes, SendEnd(b)
      PROVE  Sent(x, seen[x]) \/ Sent(x, Mixed) \/ Alone(x)
  <2>1. PICK y \in {seen[b], Mixed} : out' = [out EXCEPT ![b] = Append(out[b], y)]
    BY <1>2 DEF SendEnd
  <2>2. seen' = seen /\ buf' = buf /\ bpc[b] = "send"
        /\ bpc' = [bpc EXCEPT ![b] = IF b = AlarmBox THEN "run" ELSE "clear"]
    BY <1>2 DEF SendEnd
  <2>. QED
    BY <1>1, <2>1, <2>2 DEF Sent, Alone
<1>3. ASSUME NEW b \in Boxes, TryWait(b) PROVE Read(x) \/ Alone(x)
  BY <1>1, <1>3 DEF TryWait, Read, Alone
<1>4. ASSUME NEW b \in Boxes, Clear(b) PROVE Spoiled(x) \/ Alone(x)
  <2>1. PICK y \in {Empty, Mixed} : buf' = [buf EXCEPT ![b] = y]
    BY <1>4 DEF Clear
  <2>2. out' = out /\ seen' = seen /\ bpc' = [bpc EXCEPT ![b] = "run"]
    BY <1>4 DEF Clear
  <2>. QED
    BY <1>1, <2>1, <2>2 DEF Spoiled, Alone
<1>5. ASSUME NEW b \in Boxes,
             Connect(b) \/ StartTask(b) \/ Disconnect(b) \/ Close(b) \/ Free(b)
               \/ Ask(b)
      PROVE  Alone(x)
  <2>1. /\ out' = out /\ seen' = seen /\ buf' = buf
        /\ bpc[b] \notin {"send", "clear"}
        /\ \/ bpc' = bpc
           \/ \E y \in Places \ {"send"} : bpc' = [bpc EXCEPT ![b] = y]
    BY <1>5
    DEF Connect, StartTask, Disconnect, Close, Free, Ask, boxVars, Places
  <2>. QED
    BY <1>1, <2>1 DEF Alone
<1>6. CASE CopyBegin
  <2>1. /\ out' = out /\ seen' = seen /\ bpc' = bpc
        /\ buf' = [buf EXCEPT ![Head(todo)] = Partial]
    BY <1>6 DEF CopyBegin
  <2>. QED
    BY <1>1, <2>1 DEF Spoiled, Alone
<1>7. CASE CopyEnd
  <2>1. PICK y \in {taken, Mixed} : buf' = [buf EXCEPT ![Head(todo)] = y]
    BY <1>7 DEF CopyEnd, FrameInv
  <2>2. out' = out /\ seen' = seen /\ bpc' = bpc
    BY <1>7 DEF CopyEnd
  <2>. QED
    BY <1>1, <1>7, <2>1, <2>2 DEF Filled, Spoiled, Alone
<1>8. CASE Take \/ Route \/ Post \/ Unlock \/ UNCHANGED vars
  <2>1. out' = out /\ seen' = seen /\ buf' = buf /\ bpc' = bpc
    BY <1>8 DEF Take, Route, Post, Unlock, vars, boxVars
  <2>. QED
    BY <2>1 DEF Alone
<1>. QED
  BY <1>2, <1>3, <1>4, <1>5, <1>6, <1>7, <1>8 DEF Next, Dispatch, Box

LEMMA OldStep ==
  ASSUME IInv, OldInv, [Next]_vars
  PROVE  OldInv'
<1>. SUFFICES ASSUME NEW x \in Boxes
              PROVE  /\ Below(out'[x], Bound(x)')
                     /\ Earlier(seen'[x], Bound(x)')
                     /\ Earlier(buf'[x], Bound(x)')
  BY DEF OldInv, Below, Earlier
<1>. DEFINE m == Bound(x)
            n == Bound(x)'
<1>1. m \in Int /\ n \in Int /\ m <= n /\ (CopyEnd /\ x = Head(todo) => n = taken + 1)
  BY BoundStep
<1>2. out[x] \in Seq(Content) /\ seen[x] \in Content /\ buf[x] \in Content
      /\ taken \in Nat
  BY FramesAssumption DEF IInv, TypeOK
<1>3. Below(out[x], m) /\ Earlier(seen[x], m) /\ Earlier(buf[x], m)
  BY DEF OldInv
<1>. HIDE DEF m, n
<1>4. \A z \in Number : z \in Int
  BY FramesAssumption DEF Number
<1>5. Below(out[x], n) /\ Earlier(seen[x], n) /\ Earlier(buf[x], n)
  BY <1>1, <1>2, <1>3, <1>4, BelowMore DEF Earlier
<1>6. Empty \notin Number /\ Partial \notin Number /\ Mixed \notin Number
      /\ Mixed \in Content
  BY FramesAssumption DEF Empty, Partial, Mixed, Number, Content
<1>7. CASE Sent(x, seen[x]) \/ Sent(x, Mixed)
  <2>1. Below(Append(out[x], seen[x]), n) /\ Below(Append(out[x], Mixed), n)
    BY <1>1, <1>2, <1>5, <1>6, BelowAppend DEF Earlier
  <2>. QED
    BY <1>5, <1>7, <2>1 DEF Sent, n
<1>8. CASE Read(x) \/ Alone(x)
  BY <1>5, <1>8 DEF Read, Alone, n
<1>9. CASE Filled(x)
  <2>1. Earlier(taken, n)
    BY <1>1, <1>2, <1>9 DEF Filled, Earlier
  <2>. QED
    BY <1>5, <1>9, <2>1 DEF Filled, n
<1>10. CASE Spoiled(x)
  <2>1. Earlier(buf'[x], n)
    BY <1>6, <1>10 DEF Spoiled, Earlier
  <2>. QED
    BY <1>5, <1>10, <2>1 DEF Spoiled, n
<1>. QED
  BY <1>7, <1>8, <1>9, <1>10, MailStep

LEMMA NextInvStep ==
  ASSUME IInv, OldInv, NextInv, [Next]_vars
  PROVE  NextInv'
<1>. SUFFICES ASSUME NEW x \in Boxes \ {AlarmBox}
              PROVE  /\ bpc'[x] = "send" /\ seen'[x] \in Number =>
                          Below(out'[x], seen'[x])
                     /\ bpc'[x] # "clear" /\ buf'[x] \in Number =>
                          Below(out'[x], buf'[x])
  BY DEF NextInv, Below
<1>1. /\ bpc[x] = "send" /\ seen[x] \in Number => Below(out[x], seen[x])
      /\ bpc[x] # "clear" /\ buf[x] \in Number => Below(out[x], buf[x])
  BY DEF NextInv
<1>2. Empty \notin Number /\ Partial \notin Number /\ Mixed \notin Number
  BY FramesAssumption DEF Empty, Partial, Mixed, Number
<1>3. CASE Sent(x, seen[x]) \/ Sent(x, Mixed)
  BY <1>3 DEF Sent
<1>4. CASE Read(x)
  BY <1>1, <1>4 DEF Read
<1>5. CASE Alone(x)
  BY <1>1, <1>5 DEF Alone
<1>6. CASE Spoiled(x)
  BY <1>1, <1>2, <1>6 DEF Spoiled
<1>7. CASE Filled(x)
  <2>1. todo # <<>> /\ Len(todo) \in Nat \ {0} /\ x = todo[1] /\ dpc = "copying"
    BY <1>7, HeadOfTodo DEF IInv, Filled, CopyEnd, Busy
  <2>2. Coming(x)
    BY <2>1 DEF Coming
  <2>3. Below(out[x], taken)
    BY <2>2 DEF OldInv, Bound
  <2>. QED
    BY <1>1, <1>7, <2>3 DEF Filled
<1>. QED
  BY <1>3, <1>4, <1>5, <1>6, <1>7, MailStep

LEMMA RepeatStep ==
  ASSUME IInv, NextInv, NoRepeat, [Next]_vars
  PROVE  NoRepeat'
<1>. SUFFICES ASSUME NEW x \in Boxes \ {AlarmBox},
                     NEW i \in 1 .. Len(out'[x]), NEW j \in 1 .. Len(out'[x]),
                     i < j, out'[x][i] \in Number, out'[x][j] \in Number
              PROVE  out'[x][i] < out'[x][j]
  BY DEF NoRepeat, Number
<1>1. out[x] \in Seq(Content) /\ seen[x] \in Content /\ Mixed \in Content
  BY FramesAssumption DEF IInv, TypeOK, Mixed, Content
<1>2. CASE out'[x] = out[x]
  BY <1>2 DEF NoRepeat, Number
<1>3. ASSUME NEW y \in {seen[x], Mixed}, Sent(x, y) PROVE out'[x][i] < out'[x][j]
  <2>1. /\ Len(out[x]) \in Nat /\ Len(out'[x]) = Len(out[x]) + 1
        /\ \A k \in 1 .. Len(out[x]) : out'[x][k] = out[x][k]
        /\ out'[x][Len(out[x]) + 1] = y
    BY <1>1, <1>3, AppendProperties, LenProperties DEF Sent
  <2>2. i \in 1 .. Len(out[x])
    BY <2>1
  <2>3. CASE j \in 1 .. Len(out[x])
    BY <2>1, <2>2, <2>3 DEF NoRepeat, Number
  <2>4. CASE j = Len(out[x]) + 1
    <3>1. y \in Number /\ out'[x][j] = y
      BY <2>1, <2>4
    <3>2. y = seen[x]
      BY <3>1, FramesAssumption DEF Number, Mixed
    <3>3. Below(out[x], y)
      BY <1>3, <3>1, <3>2 DEF NextInv, Sent
    <3>. QED
      BY <2>1, <2>2, <3>1, <3>3 DEF Below
  <2>. QED
    BY <2>1, <2>3, <2>4
<1>. QED
  BY <1>2, <1>3, MailStep DEF Read, Filled, Spoiled, Alone

\* No frame is sent twice to a client, and none out of order, whatever
\* overwrites what (tcp.c:45-52).
THEOREM NothingRepeated == Spec => []NoRepeat
<1>1. Init => OldInv /\ NextInv /\ NoRepeat
  <2>. SUFFICES ASSUME Init PROVE OldInv /\ NextInv /\ NoRepeat
    OBVIOUS
  <2>1. \A b \in Boxes : /\ out[b] = <<>> /\ Len(out[b]) = 0
                         /\ seen[b] = Empty /\ buf[b] = Empty
    BY DEF Init
  <2>2. Empty \notin Number
    BY FramesAssumption DEF Empty, Number
  <2>. QED
    BY <2>1, <2>2 DEF OldInv, NextInv, NoRepeat, Below, Earlier
<1>2. IInv /\ (OldInv /\ NextInv /\ NoRepeat) /\ [Next]_vars
        => (OldInv /\ NextInv /\ NoRepeat)'
  BY OldStep, NextInvStep, RepeatStep
<1>. QED
  BY <1>1, <1>2, Invariant, PTL DEF Spec

-----------------------------------------------------------------------------
(* What a mailbox gives when no frame crosses another                      *)

Filling(b) == dpc \in {"copying", "post"} /\ Head(todo) = b
Using(b) == bpc[b] \in {"send", "clear"}
Newest(b) == given[b][Len(given[b])]

\* At most one frame is on its way through the mailbox: in memcpy, counted by
\* the semaphore, or read by its thread.
ExactAt(b) ==
  /\ \A i \in 1 .. Len(out[b]) : out[b][i] = given[b][i]
  /\ Filling(b) =>
       /\ sem[b] = 0 /\ ~Using(b) /\ Newest(b) = frame.num
       /\ buf[b] = IF dpc = "post" THEN frame.num ELSE Partial
  /\ sem[b] > 0 => sem[b] = 1 /\ ~Using(b) /\ buf[b] = Newest(b)
  /\ bpc[b] = "send" => seen[b] = buf[b] /\ buf[b] = Newest(b)

ExactInv == \A b \in Boxes : ~crossed[b] => ExactAt(b)

LEMMA ExactKept ==
  ASSUME NEW b \in Boxes, ExactAt(b),
         out'[b] = out[b], given'[b] = given[b], sem'[b] = sem[b],
         buf'[b] = buf[b], seen'[b] = seen[b], Using(b)' <=> Using(b),
         bpc'[b] = "send" <=> bpc[b] = "send",
         Filling(b)' => Filling(b) /\ dpc' = dpc /\ frame' = frame
  PROVE  ExactAt(b)'
<1>1. (Newest(b))' = Newest(b)
  BY DEF Newest
<1>2. (Filling(b) => /\ sem[b] = 0 /\ ~Using(b) /\ Newest(b) = frame.num
                     /\ buf[b] = IF dpc = "post" THEN frame.num ELSE Partial)'
  BY <1>1 DEF ExactAt
<1>. QED
  BY <1>1, <1>2 DEF ExactAt

LEMMA ExactStep ==
  ASSUME IInv, Accounted, ExactInv, [Next]_vars
  PROVE  ExactInv'
<1>. USE DEF IInv
<1>1. /\ given \in [Boxes -> Seq(1 .. MaxFrames)] /\ out \in [Boxes -> Seq(Content)]
      /\ sem \in [Boxes -> Nat] /\ bpc \in [Boxes -> Places]
      /\ buf \in [Boxes -> Content] /\ seen \in [Boxes -> Content]
      /\ crossed \in [Boxes -> BOOLEAN]
      /\ \A b \in Boxes : Len(given[b]) \in Nat /\ Len(out[b]) \in Nat
  <2>1. /\ given \in [Boxes -> Seq(1 .. MaxFrames)]
        /\ out \in [Boxes -> Seq(Content)]
        /\ sem \in [Boxes -> Nat] /\ bpc \in [Boxes -> Places]
        /\ buf \in [Boxes -> Content] /\ seen \in [Boxes -> Content]
        /\ crossed \in [Boxes -> BOOLEAN]
    BY DEF TypeOK, Places
  <2>. QED
    BY <2>1, LenProperties
<1>. SUFFICES ASSUME NEW x \in Boxes, ~crossed'[x]
              PROVE  ExactAt(x)'
  BY DEF ExactInv
<1>2. ASSUME NEW b \in Boxes,
             Connect(b) \/ StartTask(b) \/ Disconnect(b) \/ Close(b) \/ Free(b)
               \/ Ask(b)
      PROVE  ExactAt(x)'
  <2>1. /\ given' = given /\ out' = out /\ sem' = sem /\ buf' = buf /\ seen' = seen
        /\ dpc' = dpc /\ todo' = todo /\ frame' = frame /\ crossed' = crossed
    BY <1>2 DEF Connect, StartTask, Disconnect, Close, Free, Ask, boxVars
  <2>2. /\ bpc'[x] = "send" <=> bpc[x] = "send"
        /\ bpc'[x] = "clear" <=> bpc[x] = "clear"
    BY <1>1, <1>2 DEF Connect, StartTask, Disconnect, Close, Free, Ask, boxVars
  <2>3. Using(x)' <=> Using(x)
    BY <2>2 DEF Using
  <2>4. ExactAt(x)
    BY <2>1 DEF ExactInv
  <2>5. Filling(x)' <=> Filling(x)
    BY <2>1 DEF Filling
  <2>. QED
    BY <2>1, <2>2, <2>3, <2>4, <2>5, ExactKept
<1>3. ASSUME NEW b \in Boxes, TryWait(b) PROVE ExactAt(x)'
  <2>1. /\ given' = given /\ out' = out /\ buf' = buf /\ crossed' = crossed
        /\ dpc' = dpc /\ todo' = todo /\ frame' = frame
        /\ sem' = [sem EXCEPT ![b] = sem[b] - 1] /\ sem[b] > 0
        /\ seen' = [seen EXCEPT ![b] = buf[b]]
        /\ bpc' = [bpc EXCEPT ![b] = "send"]
    BY <1>3 DEF TryWait
  <2>2. ExactAt(x) /\ (Filling(x)' <=> Filling(x))
    BY <2>1 DEF ExactInv, Filling
  <2>3. CASE x = b
    <3>1. /\ sem[b] = 1 /\ buf[b] = Newest(b) /\ ~Filling(b)
          /\ \A i \in 1 .. Len(out[b]) : out[b][i] = given[b][i]
      BY <2>1, <2>2, <2>3 DEF ExactAt
    <3>2. /\ sem'[b] = 0 /\ seen'[b] = buf[b] /\ bpc'[b] = "send"
          /\ ~(Filling(b)') /\ (Newest(b))' = Newest(b)
      BY <1>1, <2>1, <2>2, <2>3, <3>1 DEF Newest
    <3>. QED
      BY <2>1, <2>3, <3>1, <3>2 DEF ExactAt
  <2>4. CASE x # b
    <3>1. sem'[x] = sem[x] /\ seen'[x] = seen[x] /\ bpc'[x] = bpc[x]
      BY <1>1, <2>1, <2>4
    <3>2. Using(x)' <=> Using(x)
      BY <3>1 DEF Using
    <3>. QED
      BY <2>1, <2>2, <3>1, <3>2, ExactKept
  <2>. QED
    BY <2>3, <2>4
<1>4. ASSUME NEW b \in Boxes, SendEnd(b) PROVE ExactAt(x)'
  <2>1. /\ given' = given /\ sem' = sem /\ buf' = buf /\ crossed' = crossed
        /\ seen' = seen /\ dpc' = dpc /\ todo' = todo /\ frame' = frame
        /\ out' = [out EXCEPT ![b] =
                     Append(out[b], IF buf[b] = seen[b] /\ seen[b] # Partial
                                    THEN seen[b] ELSE Mixed)]
        /\ bpc[b] = "send" /\ \E y \in {"run", "clear"} : bpc' = [bpc EXCEPT ![b] = y]
    BY <1>4 DEF SendEnd
  <2>2. ExactAt(x) /\ (Filling(x)' <=> Filling(x))
    BY <2>1 DEF ExactInv, Filling
  <2>3. CASE x = b
    <3>1. Using(b)
      BY <2>1 DEF Using
    <3>2. /\ sem[b] = 0 /\ ~Filling(b) /\ seen[b] = buf[b] /\ buf[b] = Newest(b)
          /\ \A i \in 1 .. Len(out[b]) : out[b][i] = given[b][i]
      BY <1>1, <2>1, <2>2, <2>3, <3>1 DEF ExactAt
    <3>3. Len(given[b]) = Len(out[b]) + 1
      <4>1. Len(given[b]) = Len(out[b]) + 0 + 1 + 0
        BY <2>1, <3>2 DEF Accounted, Filling
      <4>. QED
        BY <1>1, <4>1
    <3>4. seen[b] # Partial
      <4>1. given[b] \in Seq(1 .. MaxFrames) /\ Len(given[b]) \in 1 .. Len(given[b])
        BY <1>1, <3>3
      <4>2. given[b][Len(given[b])] \in 1 .. MaxFrames
        BY <4>1, ElementOfSeq
      <4>. QED
        BY <3>2, <4>2, FramesAssumption DEF Newest, Partial
    <3>5. out'[b] = Append(out[b], Newest(b))
      BY <1>1, <2>1, <3>2, <3>4
    <3>6. Newest(b) \in Content
      BY <1>1, <3>2
    <3>7. \A i \in 1 .. Len(out'[b]) : out'[b][i] = given'[b][i]
      <4>1. /\ Len(out'[b]) = Len(out[b]) + 1
            /\ \A i \in 1 .. Len(out[b]) : out'[b][i] = out[b][i]
            /\ out'[b][Len(out[b]) + 1] = Newest(b)
        <5>1. out[b] \in Seq(Content)
          BY <1>1
        <5>. QED
          BY <3>5, <3>6, <5>1, AppendProperties
      <4>2. TAKE i \in 1 .. Len(out'[b])
      <4>3. i \in 1 .. Len(out[b]) \/ i = Len(out[b]) + 1
        BY <1>1, <4>1
      <4>. QED
        BY <2>1, <3>2, <3>3, <4>1, <4>3 DEF Newest
    <3>8. sem'[b] = 0 /\ ~(Filling(b)') /\ bpc'[b] # "send"
      BY <1>1, <2>1, <2>2, <2>3, <3>2
    <3>. QED
      BY <2>3, <3>7, <3>8 DEF ExactAt
  <2>4. CASE x # b
    <3>1. out'[x] = out[x] /\ bpc'[x] = bpc[x]
      BY <1>1, <2>1, <2>4
    <3>2. Using(x)' <=> Using(x)
      BY <3>1 DEF Using
    <3>. QED
      BY <2>1, <2>2, <3>1, <3>2, ExactKept
  <2>. QED
    BY <2>3, <2>4
<1>5. ASSUME NEW b \in Boxes, Clear(b) PROVE ExactAt(x)'
  <2>1. /\ given' = given /\ out' = out /\ sem' = sem /\ crossed' = crossed
        /\ seen' = seen /\ dpc' = dpc /\ todo' = todo /\ frame' = frame
        /\ \E y : buf' = [buf EXCEPT ![b] = y]
        /\ bpc[b] = "clear" /\ bpc' = [bpc EXCEPT ![b] = "run"]
    BY <1>5 DEF Clear
  <2>2. ExactAt(x) /\ (Filling(x)' <=> Filling(x))
    BY <2>1 DEF ExactInv, Filling
  <2>3. CASE x = b
    <3>1. Using(b)
      BY <2>1 DEF Using
    <3>2. /\ ~(sem[b] > 0) /\ ~Filling(b)
          /\ \A i \in 1 .. Len(out[b]) : out[b][i] = given[b][i]
      BY <2>2, <2>3, <3>1 DEF ExactAt
    <3>3. bpc'[b] = "run"
      BY <1>1, <2>1
    <3>. QED
      BY <2>1, <2>2, <2>3, <3>2, <3>3 DEF ExactAt
  <2>4. CASE x # b
    <3>1. buf'[x] = buf[x] /\ bpc'[x] = bpc[x]
      BY <1>1, <2>1, <2>4
    <3>2. Using(x)' <=> Using(x)
      BY <3>1 DEF Using
    <3>. QED
      BY <2>1, <2>2, <3>1, <3>2, ExactKept
  <2>. QED
    BY <2>3, <2>4
<1>6. CASE CopyBegin
  <2>. DEFINE h == Head(todo)
  <2>1. /\ out' = out /\ sem' = sem /\ bpc' = bpc /\ todo' = todo /\ seen' = seen
        /\ frame' = frame /\ dpc = "copy" /\ dpc' = "copying"
        /\ buf' = [buf EXCEPT ![h] = Partial]
        /\ given' = [given EXCEPT ![h] = Append(given[h], frame.num)]
        /\ crossed' = [crossed EXCEPT ![h] = crossed[h] \/ sem[h] > 0
                                               \/ bpc[h] \in {"send", "clear"}]
    BY <1>6 DEF CopyBegin
  <2>2. h \in Boxes /\ frame.num \in 1 .. MaxFrames
    BY <2>1, HeadAndNumber DEF Busy
  <2>3. ~Filling(x) /\ (Filling(x)' <=> x = h) /\ (Using(x)' <=> Using(x))
    BY <2>1 DEF Filling, Using
  <2>. HIDE DEF h
  <2>4. CASE x = h
    <3>1. ~crossed[x] /\ sem[x] = 0 /\ ~Using(x)
      <4>1. crossed'[x] <=> crossed[x] \/ sem[x] > 0 \/ bpc[x] \in {"send", "clear"}
        BY <1>1, <2>1, <2>4
      <4>2. ~crossed[x] /\ ~(sem[x] > 0) /\ bpc[x] \notin {"send", "clear"}
        BY <4>1
      <4>3. sem[x] \in Nat
        BY <1>1
      <4>. QED
        BY <4>2, <4>3 DEF Using
    <3>2. /\ \A i \in 1 .. Len(out[x]) : out[x][i] = given[x][i]
          /\ bpc[x] # "send"
      BY <3>1 DEF ExactInv, ExactAt, Using
    <3>3. Len(given[x]) = Len(out[x])
      <4>1. Len(given[x]) = Len(out[x]) + 0 + 0 + 0
        BY <2>1, <3>1, <3>2 DEF Accounted
      <4>. QED
        BY <1>1, <4>1
    <3>4. given'[x] = Append(given[x], frame.num) /\ buf'[x] = Partial
      BY <1>1, <2>1, <2>4
    <3>5. /\ Len(given'[x]) = Len(given[x]) + 1
          /\ \A i \in 1 .. Len(given[x]) : given'[x][i] = given[x][i]
          /\ given'[x][Len(given[x]) + 1] = frame.num
      <4>1. given[x] \in Seq(1 .. MaxFrames)
        BY <1>1
      <4>. QED
        BY <2>2, <3>4, <4>1, AppendProperties
    <3>6. (Newest(x))' = frame.num
      BY <3>5 DEF Newest
    <3>7. \A i \in 1 .. Len(out'[x]) : out'[x][i] = given'[x][i]
      BY <2>1, <3>2, <3>3, <3>5
    <3>8. sem'[x] = 0 /\ ~(Using(x)') /\ bpc'[x] # "send" /\ dpc' # "post"
      BY <2>1, <2>3, <3>1, <3>2
    <3>9. /\ (Newest(x))' = frame'.num
          /\ buf'[x] = IF dpc' = "post" THEN frame'.num ELSE Partial
      BY <2>1, <3>4, <3>6, <3>8
    <3>10. ~(sem'[x] > 0)
      BY <3>8
    <3>. QED
      BY <3>7, <3>8, <3>9, <3>10 DEF ExactAt
  <2>5. CASE x # h
    <3>1. given'[x] = given[x] /\ buf'[x] = buf[x] /\ crossed'[x] = crossed[x]
      BY <1>1, <2>1, <2>5
    <3>2. ExactAt(x)
      BY <3>1 DEF ExactInv
    <3>. QED
      BY <2>1, <2>3, <2>5, <3>1, <3>2, ExactKept
  <2>. QED
    BY <2>4, <2>5
<1>7. CASE CopyEnd
  <2>. DEFINE h == Head(todo)
  <2>1. /\ out' = out /\ sem' = sem /\ bpc' = bpc /\ todo' = todo /\ seen' = seen
        /\ given' = given /\ crossed' = crossed
        /\ frame' = frame /\ dpc = "copying" /\ dpc' = "post"
        /\ buf' = [buf EXCEPT ![h] = IF buf[h] = Partial THEN frame.num ELSE Mixed]
    BY <1>7 DEF CopyEnd
  <2>2. (Filling(x) <=> x = h) /\ (Filling(x)' <=> x = h) /\ (Using(x)' <=> Using(x))
    BY <2>1 DEF Filling, Using
  <2>3. ExactAt(x) /\ (Newest(x))' = Newest(x)
    BY <2>1 DEF ExactInv, Newest
  <2>. HIDE DEF h
  <2>4. CASE x = h
    <3>1. /\ sem[x] = 0 /\ ~Using(x) /\ Newest(x) = frame.num /\ buf[x] = Partial
          /\ \A i \in 1 .. Len(out[x]) : out[x][i] = given[x][i]
      BY <2>1, <2>2, <2>3, <2>4 DEF ExactAt
    <3>2. buf'[x] = frame.num
      BY <1>1, <2>1, <2>4, <3>1
    <3>3. sem'[x] = 0 /\ ~(Using(x)') /\ bpc'[x] # "send"
      BY <2>1, <2>2, <3>1 DEF Using
    <3>. QED
      BY <2>1, <2>3, <3>1, <3>2, <3>3 DEF ExactAt
  <2>5. CASE x # h
    <3>1. buf'[x] = buf[x]
      BY <1>1, <2>1, <2>5
    <3>. QED
      BY <2>1, <2>2, <2>3, <2>5, <3>1, ExactKept
  <2>. QED
    BY <2>4, <2>5
<1>8. CASE Post
  <2>. DEFINE h == Head(todo)
  <2>1. /\ out' = out /\ buf' = buf /\ bpc' = bpc /\ seen' = seen
        /\ given' = given /\ crossed' = crossed
        /\ frame' = frame /\ dpc = "post" /\ dpc' \notin {"copying", "post"}
        /\ sem' = [sem EXCEPT ![h] = sem[h] + 1]
    BY <1>8 DEF Post
  <2>2. (Filling(x) <=> x = h) /\ ~(Filling(x)') /\ (Using(x)' <=> Using(x))
    BY <2>1 DEF Filling, Using
  <2>3. ExactAt(x) /\ (Newest(x))' = Newest(x)
    BY <2>1 DEF ExactInv, Newest
  <2>. HIDE DEF h
  <2>4. CASE x = h
    <3>1. /\ sem[x] = 0 /\ ~Using(x) /\ Newest(x) = frame.num /\ buf[x] = frame.num
          /\ \A i \in 1 .. Len(out[x]) : out[x][i] = given[x][i]
      BY <2>1, <2>2, <2>3, <2>4 DEF ExactAt
    <3>2. sem'[x] = 1
      BY <1>1, <2>1, <2>4, <3>1
    <3>3. ~(Using(x)') /\ bpc'[x] # "send"
      BY <2>1, <2>2, <3>1 DEF Using
    <3>. QED
      BY <2>1, <2>2, <2>3, <3>1, <3>2, <3>3 DEF ExactAt
  <2>5. CASE x # h
    <3>1. sem'[x] = sem[x]
      BY <1>1, <2>1, <2>5
    <3>. QED
      BY <2>1, <2>2, <2>3, <3>1, ExactKept
  <2>. QED
    BY <2>4, <2>5
<1>9. CASE Take \/ Route \/ Unlock \/ UNCHANGED vars
  <2>1. /\ out' = out /\ given' = given /\ bpc' = bpc /\ sem' = sem /\ buf' = buf
        /\ seen' = seen /\ crossed' = crossed
    BY <1>9 DEF Take, Route, Unlock, vars, boxVars
  <2>2. \/ dpc' \notin {"copying", "post"}
        \/ dpc' = dpc /\ todo' = todo /\ frame' = frame
    BY <1>9 DEF Take, Route, Unlock, vars
  <2>3. /\ Using(x)' <=> Using(x)
        /\ Filling(x)' => Filling(x) /\ dpc' = dpc /\ frame' = frame
    BY <2>1, <2>2 DEF Using, Filling
  <2>4. ExactAt(x)
    BY <2>1 DEF ExactInv
  <2>. QED
    BY <2>1, <2>3, <2>4, ExactKept
<1>. QED
  BY <1>2, <1>3, <1>4, <1>5, <1>6, <1>7, <1>8, <1>9 DEF Next, Dispatch, Box

LEMMA ExactLengths ==
  ASSUME TypeOK, Accounted, ExactInv
  PROVE  ExactUnlessCrossed
<1>. SUFFICES ASSUME NEW b \in Boxes, ~crossed[b]
              PROVE  /\ Len(out[b]) <= Len(given[b])
                     /\ Len(given[b]) <= Len(out[b]) + 1
                     /\ \A i \in 1 .. Len(out[b]) : out[b][i] = given[b][i]
  BY DEF ExactUnlessCrossed
<1>1. ExactAt(b)
  BY DEF ExactInv
<1>2. /\ sem[b] \in Nat /\ Len(given[b]) \in Nat /\ Len(out[b]) \in Nat
  <2>1. /\ given[b] \in Seq(1 .. MaxFrames) /\ out[b] \in Seq(Content)
        /\ sem[b] \in Nat
    BY DEF TypeOK
  <2>. QED
    BY <2>1, LenProperties
<1>. DEFINE sending == IF bpc[b] = "send" THEN 1 ELSE 0
            filling == IF dpc \in {"copying", "post"} /\ Head(todo) = b THEN 1 ELSE 0
<1>3. Len(given[b]) = Len(out[b]) + sem[b] + sending + filling
  BY DEF Accounted
<1>4. /\ sem[b] > 0 => sem[b] = 1 /\ sending = 0 /\ filling = 0
      /\ filling = 1 => sending = 0
      /\ sending \in 0 .. 1 /\ filling \in 0 .. 1
  BY <1>1 DEF ExactAt, Filling, Using
<1>. HIDE DEF sending, filling
<1>5. Len(out[b]) <= Len(given[b]) /\ Len(given[b]) <= Len(out[b]) + 1
  BY <1>2, <1>3, <1>4
<1>. QED
  BY <1>1, <1>5 DEF ExactAt

\* A mailbox that is given a frame only when it is empty and its thread at
\* rest passes on every frame, whole, in order, and nothing else
\* (lora.c:103-117, tcp.c:45-52).
THEOREM UncrossedIsExact == Spec => []ExactUnlessCrossed
<1>1. Init => Accounted /\ ExactInv
  <2>. SUFFICES ASSUME Init PROVE Accounted /\ ExactInv
    OBVIOUS
  <2>1. \A b \in Boxes : /\ given[b] = <<>> /\ out[b] = <<>> /\ Len(out[b]) = 0
                         /\ sem[b] = 0 /\ bpc[b] = "absent"
    BY DEF Init
  <2>2. dpc = "idle"
    BY DEF Init
  <2>. QED
    BY <2>1, <2>2 DEF Accounted, ExactInv, ExactAt, Filling
<1>2. IInv /\ (Accounted /\ ExactInv) /\ [Next]_vars => (Accounted /\ ExactInv)'
  BY AccountedStep, ExactStep
<1>3. IInv /\ (Accounted /\ ExactInv) => ExactUnlessCrossed
  BY ExactLengths DEF IInv
<1>. QED
  BY <1>1, <1>2, <1>3, Invariant, PTL DEF Spec
=============================================================================
