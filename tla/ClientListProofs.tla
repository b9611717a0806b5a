-------------------------- MODULE ClientListProofs --------------------------
(***************************************************************************)
(* Proofs about the pointers of ClientList, for any number of clients,     *)
(* tasks, walks and displays: unless an insertion meets another operation, *)
(* no freed node is followed, the pointers spell the list, and who goes    *)
(* along it misses no node.                                                *)
(*                                                                         *)
(* The invariant says of each listed node where its two pointers lead and  *)
(* what is behind the pointer that leads to it; one that is being inserted *)
(* or deleted may be found by going back from its neighbour only.  That    *)
(* the links of the list lead down some numbering of the nodes rules out   *)
(* a circle.  On top of it each listed node has a place in the history of  *)
(* what was inserted, and a reader is on its way through these places.     *)
(***************************************************************************)
EXTENDS ClientList, SequenceTheorems, WellFoundedInduction, TLAPS

\* The part of TypeOK that is not about sequences.
PointersOK ==
  /\ head \in Pointer
  /\ next \in [Nodes -> Pointer] /\ prev \in [Nodes -> Pointer]
  /\ freed \subseteq Items
  /\ ipc \in [Items -> {"none", "back", "head", "start", "done"}]
  /\ owns \in [Clients -> Pointer]
  /\ dpc \in [Clients -> {"none", "first", "second", "front", "free", "done"}]
  /\ lock \in Clients \cup {Nobody, Walker}
  /\ wpc \in {"idle", "walk"} /\ at \in Pointer
  /\ looking \in BOOLEAN /\ eye \in Pointer
  /\ overlap \in BOOLEAN /\ peeked \in BOOLEAN /\ wild \in BOOLEAN

\* lora_lock is held by the client that deletes, or by the walk.
Locked ==
  /\ \A c \in Clients : c \in Deleting <=> lock = c
  /\ wpc = "walk" <=> lock = Walker

\* An insertion is the only one, and no deletion is under way.
Alone ==
  /\ \A m, n \in Inserting : m = n
  /\ Inserting = {} \/ Deleting = {}

\* A client thread has its node when it runs, and deletes it at its end.
Owned ==
  /\ \A c \in Clients : owns[c] = IF ipc[c] = "done" THEN c ELSE Null
  /\ \A c \in Clients : dpc[c] # "none" => ipc[c] = "done"
  /\ freed = {c \in Clients : dpc[c] = "done"}

\* The nodes that node_head leads to.
Listed ==
  {n \in Items : /\ ipc[n] \in {"start", "done"}
                 /\ n \in Clients => dpc[n] \in {"none", "first"}}
    \cup {Sentinel}

\* A node that is unlinked on one side.
Leaving == {c \in Clients : dpc[c] \in {"second", "front"}}

Forth ==
  /\ head \in Listed
  /\ \/ prev[head] = Null
     \/ prev[head] \in Items /\ ipc[prev[head]] = "head"
     \/ prev[head] \in Clients /\ dpc[prev[head]] = "front"
  /\ next[Sentinel] = Null
  /\ \A n \in Listed \ {Sentinel} :
       /\ next[n] \in Listed
       /\ \/ prev[next[n]] = n
          \/ prev[next[n]] \in Leaving /\ prev[prev[next[n]]] = n

Back ==
  \A n \in Listed :
    \/ prev[n] = Null /\ n = head
    \/ prev[n] \in Listed \ {Sentinel} /\ next[prev[n]] = n
    \/ prev[n] \in Items /\ ipc[prev[n]] = "head" /\ n = head
    \/ prev[n] \in Leaving /\ next[prev[n]] = n

\* A node beside the list that is going into it or out of it.
Beside ==
  /\ \A n \in Items : ipc[n] \in {"back", "head"} =>
       next[n] = head /\ prev[n] = Null
  /\ \A n \in Items : ipc[n] = "head" => prev[head] = n
  /\ \A n \in Items : ipc[n] = "start" => head = n
  /\ \A c \in Leaving : next[c] \in Listed /\ prev[next[c]] = c
  /\ \A c \in Clients : dpc[c] = "second" =>
       prev[c] \in Listed \ {Sentinel} /\ next[prev[c]] = next[c]
  /\ \A c \in Clients : dpc[c] = "front" => prev[c] = Null /\ head = next[c]

Descends(r) == \A n \in Listed \ {Sentinel} : r[next[n]] < r[n]

Acyclic == \E r \in [Nodes -> Nat] : Descends(r)

Linked == Alone /\ Owned /\ Forth /\ Back /\ Beside /\ Acyclic

\* The walk and the display are on listed nodes.
Following ==
  /\ wpc = "walk" => at \in Listed
  /\ ~peeked /\ looking => eye \in Listed \cup {Null} /\ Deleting = {}

ListInv ==
  /\ PointersOK /\ Locked
  /\ ~overlap => Linked /\ Following /\ (~peeked => ~wild)

-----------------------------------------------------------------------------

LEMMA InitInv == Init => ListInv
  <1> SUFFICES ASSUME Init PROVE ListInv
    OBVIOUS
  <1>1. PointersOK /\ Locked
    BY NodesAssumption, LockAssumption
    DEF Init, PointersOK, Locked, Pointer, Nodes, Items, Deleting
  <1>2. Inserting = {} /\ Deleting = {} /\ Listed = {Sentinel} /\ Leaving = {}
    BY DEF Init, Inserting, Deleting, Listed, Leaving, Items
  <1>3. Alone /\ Owned /\ Forth /\ Back /\ Beside
    <2>1. Sentinel \in Nodes /\ prev[Sentinel] = Null /\ next[Sentinel] = Null
      BY DEF Init, Nodes
    <2>2. QED
      BY <1>2, <2>1, NodesAssumption
      DEF Init, Alone, Owned, Forth, Back, Beside, Items
  <1>4. Acyclic
    <2>1. [n \in Nodes |-> 0] \in [Nodes -> Nat]
      OBVIOUS
    <2>2. Descends([n \in Nodes |-> 0])
      BY <1>2 DEF Descends
    <2>3. QED
      BY <2>1, <2>2 DEF Acyclic
  <1>5. Following /\ ~wild
    BY DEF Init, Following
  <1>6. QED
    BY <1>1, <1>3, <1>4, <1>5 DEF ListInv, Linked

\* What leaves the pointers and the places of the writers alone.
LEMMA LinkedKept ==
  ASSUME Linked, UNCHANGED <<linkVars, ipc, owns, dpc>>
  PROVE  Linked'
  <1>1. /\ Inserting' = Inserting /\ Deleting' = Deleting
        /\ Listed' = Listed /\ Leaving' = Leaving
    BY DEF Inserting, Deleting, Listed, Leaving, linkVars
  <1>2. Alone' /\ Owned' /\ Forth' /\ Back' /\ Beside'
    BY <1>1 DEF Linked, Alone, Owned, Forth, Back, Beside, linkVars
  <1>3. Acyclic'
    BY <1>1 DEF Linked, Acyclic, Descends, linkVars
  <1>4. QED
    BY <1>2, <1>3 DEF Linked

\* The listed nodes are there to be followed.
LEMMA ListedGood ==
  ASSUME PointersOK, Owned
  PROVE  /\ Listed \subseteq Nodes
         /\ \A n \in Listed : ~Bad(n)
  BY NodesAssumption DEF PointersOK, Owned, Listed, Nodes, Items, Bad

LEMMA InsertBeginInv ==
  ASSUME ListInv, NEW n \in Items, InsertBegin(n), ~wild
  PROVE  ListInv'
  <1>1. n \in Nodes /\ n # Sentinel /\ n # Null /\ ipc[n] = "none"
    BY NodesAssumption DEF InsertBegin, Nodes, Items
  <1>2. /\ next'[n] = head /\ prev'[n] = Null /\ ipc'[n] = "back"
        /\ \A m \in Nodes \ {n} : next'[m] = next[m] /\ prev'[m] = prev[m]
        /\ \A m \in Items \ {n} : ipc'[m] = ipc[m]
    BY <1>1 DEF InsertBegin, ListInv, PointersOK
  <1>3. PointersOK'
    BY <1>1, NodesAssumption
    DEF InsertBegin, walkVars, lookVars, ListInv, PointersOK, Pointer
  <1>4. Locked'
    BY DEF InsertBegin, walkVars, ListInv, Locked, Deleting
  <1>5. ASSUME ~overlap'
        PROVE  Linked' /\ Following' /\ (~peeked' => ~wild')
    <2>1. /\ Linked /\ Following /\ (~peeked => ~wild)
          /\ Inserting = {} /\ Deleting = {}
      BY <1>5 DEF InsertBegin, ListInv
    <2>2. Inserting' = {n} /\ Deleting' = {}
      BY <1>2, <2>1 DEF InsertBegin, Inserting, Deleting
    <2>3. n \in Clients => dpc[n] = "none"
      BY <1>1, <2>1 DEF Linked, Owned, ListInv, PointersOK
    <2>4. Listed' = Listed /\ n \notin Listed
      BY <1>1, <1>2 DEF InsertBegin, Listed
    <2>5. Leaving = {} /\ Leaving' = {}
      BY <2>1 DEF InsertBegin, Leaving, Deleting
    <2>6. Listed \subseteq Nodes
      BY <2>1, ListedGood DEF ListInv, Linked
    <2>7. Alone' /\ Owned'
      BY <1>1, <1>2, <2>1, <2>2, <2>3
      DEF InsertBegin, Linked, Alone, Owned, Items
    <2>8. \A m \in Items : ipc[m] \notin {"back", "head"}
      BY <2>1 DEF Inserting
    <2>9. Forth'
      BY <1>1, <1>2, <2>1, <2>4, <2>5, <2>6, <2>8, NodesAssumption
      DEF InsertBegin, Linked, Forth, Leaving, Nodes
    <2>10. Back'
      BY <1>1, <1>2, <2>1, <2>4, <2>5, <2>6, <2>8
      DEF InsertBegin, Linked, Back
    <2>11. Beside'
      BY <1>1, <1>2, <2>1, <2>4, <2>5, <2>8
      DEF InsertBegin, Linked, Beside, Leaving, Inserting
    <2>12. Acyclic'
      BY <1>1, <1>2, <2>1, <2>4, <2>6 DEF Linked, Acyclic, Descends
    <2>13. Following'
      BY <2>1, <2>2, <2>4 DEF InsertBegin, walkVars, lookVars, Following
    <2>14. QED
      BY <2>1, <2>7, <2>9, <2>10, <2>11, <2>12, <2>13
      DEF InsertBegin, Linked
  <1>6. QED
    BY <1>3, <1>4, <1>5 DEF ListInv

LEMMA InsertBackInv ==
  ASSUME ListInv, NEW n \in Items, InsertBack(n), ~wild
  PROVE  ListInv'
  <1>1. n \in Nodes /\ n # Sentinel /\ n # Null /\ ipc[n] = "back"
    BY NodesAssumption DEF InsertBack, Nodes, Items
  <1>2. /\ ipc'[n] = "head"
        /\ \A m \in Items \ {n} : ipc'[m] = ipc[m]
    BY <1>1 DEF InsertBack, ListInv, PointersOK
  <1>3. PointersOK'
    <2>1. prev' \in [Nodes -> Pointer]
      BY <1>1 DEF InsertBack, ListInv, PointersOK, Pointer
    <2>2. wild' \in BOOLEAN
      BY DEF InsertBack, ListInv, PointersOK, Bad
    <2>3. QED
      BY <1>1, <2>1, <2>2
      DEF InsertBack, walkVars, lookVars, ListInv, PointersOK
  <1>4. Locked'
    BY DEF InsertBack, walkVars, ListInv, Locked, Deleting
  <1>5. ASSUME ~overlap'
        PROVE  Linked' /\ Following' /\ (~peeked' => ~wild')
    <2>1. Linked /\ Following
      BY <1>5 DEF InsertBack, ListInv
    <2>2. Inserting = {n} /\ Inserting' = {n} /\ Deleting = {} /\ Deleting' = {}
      BY <1>1, <1>2, <2>1 DEF InsertBack, Linked, Alone, Inserting, Deleting
    <2>3. Listed' = Listed /\ n \notin Listed
      BY <1>1, <1>2 DEF InsertBack, Listed
    <2>4. Leaving = {} /\ Leaving' = {}
      BY <2>2 DEF InsertBack, Leaving, Deleting
    <2>5. Listed \subseteq Nodes /\ head \in Listed /\ ~Bad(head)
      BY <2>1, ListedGood DEF ListInv, Linked, Forth
    <2>6. /\ prev'[head] = n
          /\ \A m \in Nodes \ {head} : prev'[m] = prev[m]
      BY <2>5 DEF InsertBack, Bad, ListInv, PointersOK
    <2>7. prev[head] = Null
      BY <1>1, <2>1, <2>2, <2>4 DEF Linked, Forth, Leaving, Inserting
    <2>8. \A m \in Listed \ {Sentinel} : next[m] # head
      BY <2>1, <2>4, <2>5, <2>7, NodesAssumption
      DEF Linked, Forth, Nodes, Items, Pointer
    <2>9. Alone' /\ Owned'
      BY <1>1, <1>2, <2>1, <2>2 DEF InsertBack, Linked, Alone, Owned, Items
    <2>10. Forth'
      BY <1>1, <1>2, <2>1, <2>3, <2>4, <2>5, <2>6, <2>8
      DEF InsertBack, Linked, Forth
    <2>11. Back'
      BY <1>1, <1>2, <2>1, <2>2, <2>3, <2>4, <2>5, <2>6
      DEF InsertBack, Linked, Back, Inserting
    <2>12. Beside'
      BY <1>1, <1>2, <2>1, <2>2, <2>3, <2>4, <2>5, <2>6
      DEF InsertBack, Linked, Beside, Leaving, Inserting, Deleting
    <2>13. Acyclic'
      BY <2>1, <2>3 DEF InsertBack, Linked, Acyclic, Descends
    <2>14. Following'
      BY <2>1, <2>2, <2>3 DEF InsertBack, walkVars, lookVars, Following
    <2>15. QED
      BY <2>1, <2>5, <2>9, <2>10, <2>11, <2>12, <2>13, <2>14
      DEF InsertBack, Linked
  <1>6. QED
    BY <1>3, <1>4, <1>5 DEF ListInv

LEMMA InsertHeadInv ==
  ASSUME ListInv, NEW n \in Items, InsertHead(n), ~wild
  PROVE  ListInv'
  <1>1. n \in Nodes /\ n # Sentinel /\ n # Null /\ ipc[n] = "head"
    BY NodesAssumption DEF InsertHead, Nodes, Items
  <1>2. /\ ipc'[n] \in {"start", "done"}
        /\ n \in Clients => ipc'[n] = "start"
        /\ \A m \in Items \ {n} : ipc'[m] = ipc[m]
    BY <1>1 DEF InsertHead, ListInv, PointersOK
  <1>3. PointersOK'
    BY <1>1 DEF InsertHead, walkVars, lookVars, ListInv, PointersOK, Pointer
  <1>4. Locked'
    BY DEF InsertHead, walkVars, ListInv, Locked, Deleting
  <1>5. ASSUME ~overlap'
        PROVE  Linked' /\ Following' /\ (~peeked' => ~wild')
    <2>1. Linked /\ Following /\ (~peeked => ~wild)
      BY <1>5 DEF InsertHead, ListInv
    <2>2. /\ Inserting = {n} /\ Inserting' \subseteq {n}
          /\ Deleting = {} /\ Deleting' = {}
      BY <1>1, <1>2, <2>1 DEF InsertHead, Linked, Alone, Inserting, Deleting
    <2>3. n \in Clients => dpc[n] = "none"
      BY <1>1, <2>1 DEF Linked, Owned, ListInv, PointersOK
    <2>4. Listed' = Listed \cup {n} /\ n \notin Listed
      BY <1>1, <1>2, <2>3 DEF InsertHead, Listed
    <2>5. Leaving = {} /\ Leaving' = {}
      BY <2>2 DEF InsertHead, Leaving, Deleting
    <2>6. Listed \subseteq Nodes /\ head \in Listed
      BY <2>1, ListedGood DEF ListInv, Linked, Forth
    <2>7. next[n] = head /\ prev[n] = Null /\ prev[head] = n /\ head' = n
      BY <1>1, <2>1 DEF InsertHead, Linked, Beside
    <2>8. Alone' /\ Owned'
      BY <1>1, <1>2, <2>1, <2>2, <2>3
      DEF InsertHead, Linked, Alone, Owned, Items
    <2>9. Forth'
      BY <1>1, <1>2, <2>1, <2>4, <2>5, <2>6, <2>7
      DEF InsertHead, Linked, Forth
    <2>10. Back'
      BY <1>1, <1>2, <2>1, <2>2, <2>4, <2>5, <2>6, <2>7, NodesAssumption
      DEF InsertHead, Linked, Back, Inserting
    <2>11. Beside'
      <3>1. \A m \in Items : ipc'[m] \in {"back", "head", "start"} => m = n
        BY <2>2 DEF Inserting
      <3>2. \A c \in Clients : dpc'[c] \notin {"second", "front"}
        BY <2>5 DEF Leaving
      <3>3. QED
        BY <1>2, <2>5, <2>7, <3>1, <3>2 DEF Beside
    <2>12. Acyclic'
      <3>1. PICK r \in [Nodes -> Nat] : Descends(r)
        BY <2>1 DEF Linked, Acyclic
      <3> DEFINE q == [r EXCEPT ![n] = r[head] + 1]
      <3>2. q \in [Nodes -> Nat]
        <4>1. r[head] \in Nat
          BY <2>6
        <4>2. QED
          BY <1>1, <4>1
      <3>3. q[n] = r[head] + 1 /\ \A m \in Nodes \ {n} : q[m] = r[m]
        BY <1>1
      <3> HIDE DEF q
      <3>4. ASSUME NEW m \in Listed' \ {Sentinel} PROVE q[next'[m]] < q[m]
        <4>1. CASE m = n
          BY <2>4, <2>6, <2>7, <3>3, <4>1 DEF InsertHead
        <4>2. CASE m # n
          <5>1. m \in Listed \ {Sentinel} /\ next[m] \in Listed
            BY <2>1, <2>4, <4>2 DEF Linked, Forth
          <5>2. q[m] = r[m] /\ q[next[m]] = r[next[m]]
            BY <2>4, <2>6, <3>3, <4>2, <5>1
          <5>3. QED
            BY <3>1, <5>1, <5>2 DEF InsertHead, Descends
        <4>3. QED
          BY <4>1, <4>2
      <3>5. QED
        BY <3>2, <3>4 DEF Acyclic, Descends
    <2>13. Following'
      BY <2>1, <2>2, <2>4 DEF InsertHead, walkVars, lookVars, Following
    <2>14. QED
      BY <2>1, <2>8, <2>9, <2>10, <2>11, <2>12, <2>13
      DEF InsertHead, Linked
  <1>6. QED
    BY <1>3, <1>4, <1>5 DEF ListInv

LEMMA StartInv ==
  ASSUME ListInv, NEW c \in Clients, Start(c), ~wild
  PROVE  ListInv'
  <1>1. c \in Items /\ ipc[c] = "start"
    BY DEF Start, Items
  <1>2. /\ ipc'[c] = "done" /\ owns'[c] = head
        /\ \A m \in Items \ {c} : ipc'[m] = ipc[m]
        /\ \A d \in Clients \ {c} : owns'[d] = owns[d]
    BY <1>1 DEF Start, ListInv, PointersOK
  <1>3. PointersOK'
    BY <1>1 DEF Start, linkVars, walkVars, lookVars, ListInv, PointersOK
  <1>4. Locked'
    BY DEF Start, walkVars, ListInv, Locked, Deleting
  <1>5. ASSUME ~overlap'
        PROVE  Linked' /\ Following' /\ (~peeked' => ~wild')
    <2>1. Linked /\ Following /\ (~peeked => ~wild)
      BY <1>5 DEF Start, ListInv
    <2>2. Inserting = {c} /\ Inserting' = {} /\ Deleting = {} /\ Deleting' = {}
      BY <1>1, <1>2, <2>1 DEF Start, Linked, Alone, Inserting, Deleting
    <2>3. Listed' = Listed /\ Leaving = {} /\ Leaving' = {}
      BY <1>1, <1>2, <2>2 DEF Start, Listed, Leaving, Deleting
    <2>4. head = c
      BY <1>1, <2>1 DEF Linked, Beside
    <2>5. Alone' /\ Owned'
      BY <1>1, <1>2, <2>1, <2>2, <2>4
      DEF Start, linkVars, Linked, Alone, Owned, Items
    <2>6. Forth' /\ Back'
      BY <1>1, <1>2, <2>1, <2>3 DEF Start, linkVars, Linked, Forth, Back
    <2>7. Beside'
      <3>1. \A m \in Items : ipc'[m] \notin {"back", "head", "start"}
        BY <2>2 DEF Inserting
      <3>2. \A d \in Clients : dpc'[d] \notin {"second", "front"}
        BY <2>3 DEF Leaving
      <3>3. QED
        BY <2>3, <3>1, <3>2 DEF Beside
    <2>8. Acyclic'
      BY <2>1, <2>3 DEF Start, linkVars, Linked, Acyclic, Descends
    <2>9. Following'
      BY <2>1, <2>2, <2>3 DEF Start, walkVars, lookVars, Following
    <2>10. QED
      BY <2>1, <2>5, <2>6, <2>7, <2>8, <2>9 DEF Start, Linked
  <1>6. QED
    BY <1>3, <1>4, <1>5 DEF ListInv

\* The client that deletes is the only one, and nothing is inserted.
LEMMA DeletesAlone ==
  ASSUME PointersOK, Locked, Linked, NEW c \in Deleting
  PROVE  Deleting = {c} /\ Inserting = {} /\ wpc = "idle"
  BY LockAssumption DEF PointersOK, Locked, Linked, Alone, Deleting

LEMMA DeleteBeginInv ==
  ASSUME ListInv, NEW c \in Clients, DeleteBegin(c), ~wild
  PROVE  ListInv'
  <1>1. ipc[c] = "done" /\ dpc[c] = "none" /\ lock = Nobody /\ lock' = c
    BY DEF DeleteBegin
  <1>2. /\ dpc'[c] = "first"
        /\ \A d \in Clients \ {c} : dpc'[d] = dpc[d]
    BY DEF DeleteBegin, ListInv, PointersOK
  <1>3. PointersOK'
    <2>1. overlap' \in BOOLEAN /\ peeked' \in BOOLEAN
      BY DEF DeleteBegin, ListInv, PointersOK
    <2>2. QED
      BY <1>1, <2>1
      DEF DeleteBegin, linkVars, walkVars, lookVars, ListInv, PointersOK
  <1>4. Deleting = {} /\ Deleting' = {c} /\ wpc = "idle"
    BY <1>1, <1>2, LockAssumption DEF ListInv, PointersOK, Locked, Deleting
  <1>5. Locked'
    BY <1>1, <1>4, LockAssumption DEF DeleteBegin, walkVars, Locked
  <1>6. ASSUME ~overlap'
        PROVE  Linked' /\ Following' /\ (~peeked' => ~wild')
    <2>1. /\ Linked /\ Following /\ (~peeked => ~wild)
          /\ Inserting = {} /\ Inserting' = {}
      BY <1>6 DEF DeleteBegin, ListInv, Inserting
    <2>2. Listed' = Listed
      BY <1>1, <1>2 DEF DeleteBegin, Listed
    <2>3. Leaving = {} /\ Leaving' = {}
      BY <1>2, <1>4 DEF Leaving, Deleting
    <2>4. Alone' /\ Owned'
      BY <1>1, <1>2, <2>1 DEF DeleteBegin, linkVars, Linked, Alone, Owned
    <2>5. Forth' /\ Back'
      <3>1. \A d \in Clients : dpc[d] # "front"
        BY <2>3 DEF Leaving
      <3>2. QED
        BY <2>1, <2>2, <2>3, <3>1
        DEF DeleteBegin, linkVars, Linked, Forth, Back
    <2>6. Beside'
      <3>1. \A m \in Items : ipc'[m] \notin {"back", "head", "start"}
        BY <2>1 DEF Inserting
      <3>2. \A d \in Clients : dpc'[d] \notin {"second", "front"}
        BY <2>3 DEF Leaving
      <3>3. QED
        BY <2>3, <3>1, <3>2 DEF Beside
    <2>7. Acyclic'
      BY <2>1, <2>2 DEF DeleteBegin, linkVars, Linked, Acyclic, Descends
    <2>8. Following'
      BY <1>4, <2>1, <2>2 DEF DeleteBegin, walkVars, lookVars, Following
    <2>9. QED
      BY <2>1, <2>4, <2>5, <2>6, <2>7, <2>8 DEF DeleteBegin, Linked
  <1>7. QED
    BY <1>3, <1>5, <1>6 DEF ListInv

LEMMA DeleteFirstInv ==
  ASSUME ListInv, NEW c \in Clients, DeleteFirst(c), ~wild
  PROVE  ListInv'
  <1>1. dpc[c] = "first" /\ c \in Deleting
    BY DEF DeleteFirst, Deleting
  <1>2. /\ dpc'[c] = IF prev[owns[c]] = Null THEN "front" ELSE "second"
        /\ \A d \in Clients \ {c} : dpc'[d] = dpc[d]
    BY DEF DeleteFirst, ListInv, PointersOK
  <1>3. PointersOK'
    <2>1. owns[c] \in Pointer
      BY DEF ListInv, PointersOK
    <2>2. head' \in Pointer /\ next' \in [Nodes -> Pointer]
      <3>1. CASE Bad(owns[c])
        BY <3>1 DEF DeleteFirst, ListInv, PointersOK
      <3>2. CASE ~Bad(owns[c])
        <4>1. owns[c] \in Nodes /\ next[owns[c]] \in Pointer
          BY <2>1, <3>2 DEF Bad, Pointer, ListInv, PointersOK
        <4>2. QED
          BY <3>2, <4>1 DEF DeleteFirst, ListInv, PointersOK
      <3>3. QED
        BY <3>1, <3>2
    <2>3. wild' \in BOOLEAN
      BY DEF DeleteFirst, ListInv, PointersOK, Bad
    <2>4. QED
      BY <2>2, <2>3 DEF DeleteFirst, walkVars, lookVars, ListInv, PointersOK
  <1>4. Deleting' = Deleting
    BY <1>1, <1>2 DEF Deleting
  <1>5. Locked'
    BY <1>4 DEF DeleteFirst, walkVars, ListInv, Locked
  <1>6. ASSUME ~overlap'
        PROVE  Linked' /\ Following' /\ (~peeked' => ~wild')
    <2>1. Linked /\ Following /\ (~peeked => ~wild)
      BY <1>6 DEF DeleteFirst, ListInv
    <2>2. Deleting = {c} /\ Inserting = {} /\ Inserting' = {} /\ wpc = "idle"
      BY <1>1, <2>1, DeletesAlone DEF DeleteFirst, ListInv, Inserting
    <2>3. ipc[c] = "done" /\ owns[c] = c /\ c \in Listed /\ c # Sentinel
      BY <1>1, <2>1, NodesAssumption DEF Linked, Owned, Listed, Items
    <2>4. Listed \subseteq Nodes /\ \A n \in Listed : ~Bad(n)
      BY <2>1, ListedGood DEF ListInv, Linked
    <2>5. Listed' = Listed \ {c}
      BY <1>1, <1>2, <2>3, NodesAssumption DEF DeleteFirst, Listed
    <2>6. Leaving = {} /\ Leaving' = {c}
      BY <1>1, <1>2, <2>2 DEF Leaving, Deleting
    <2>7. /\ next[c] \in Listed /\ next[c] # c /\ prev[next[c]] = c
          /\ next[c] \in Nodes
      <3>1. next[c] \in Listed /\ prev[next[c]] = c
        BY <2>1, <2>3, <2>6 DEF Linked, Forth
      <3>2. PICK r \in [Nodes -> Nat] : Descends(r)
        BY <2>1 DEF Linked, Acyclic
      <3>3. r[next[c]] < r[c] /\ r[c] \in Nat
        BY <2>3, <2>4, <3>2 DEF Descends
      <3>4. QED
        BY <2>4, <3>1, <3>3
    <2>8. ASSUME prev[c] = Null
          PROVE  Forth' /\ Back' /\ Beside' /\ Acyclic' /\ ~wild'
      <3>1. head = c /\ head' = next[c] /\ next' = next /\ wild' = wild
        <4>1. \A m \in Items : ipc[m] # "head"
          BY <2>2 DEF Inserting
        <4>2. head = c
          BY <2>1, <2>3, <2>4, <2>6, <2>8, <4>1, NodesAssumption
          DEF Linked, Back, Nodes, Items
        <4>3. QED
          BY <2>3, <2>4, <2>8, <4>2 DEF DeleteFirst
      <3>2. dpc'[c] = "front"
        BY <1>2, <2>3, <2>8
      <3>3. Forth'
        <4>1. c \in Clients /\ dpc'[c] = "front" /\ prev' = prev
          BY <3>2 DEF DeleteFirst
        <4>2. ASSUME NEW n \in Listed' \ {Sentinel}
              PROVE  next[n] \in Listed' /\ prev[next[n]] = n
          <5>1. next[n] \in Listed /\ prev[next[n]] = n /\ n \in Nodes
            BY <2>1, <2>4, <2>5, <2>6 DEF Linked, Forth
          <5>2. next[n] # c
            BY <2>8, <5>1, NodesAssumption DEF Nodes, Items
          <5>3. QED
            BY <2>5, <5>1, <5>2
        <4>3. QED
          BY <2>1, <2>5, <2>7, <3>1, <4>1, <4>2 DEF Linked, Forth
      <3>4. Back'
        <4>1. \A m \in Items : ipc[m] # "head"
          BY <2>2 DEF Inserting
        <4>2. ASSUME NEW n \in Listed'
              PROVE  \/ prev[n] = Null /\ n = head'
                     \/ prev[n] \in Listed' \ {Sentinel} /\ next[prev[n]] = n
                     \/ prev[n] \in Leaving' /\ next[prev[n]] = n
          BY <2>1, <2>5, <2>6, <3>1, <4>1, <4>2 DEF Linked, Back
        <4>3. QED
          BY <3>1, <4>2 DEF DeleteFirst, Back
      <3>5. Beside'
        <4>1. \A m \in Items : ipc'[m] \notin {"back", "head", "start"}
          BY <2>2 DEF Inserting
        <4>2. \A d \in Clients : dpc'[d] # "second"
          BY <1>2, <2>6, <3>2 DEF Leaving
        <4>3. \A d \in Clients : dpc'[d] = "front" => d = c
          BY <2>6 DEF Leaving
        <4>4. QED
          BY <2>5, <2>6, <2>7, <2>8, <3>1, <4>1, <4>2, <4>3
          DEF DeleteFirst, Beside
      <3>6. Acyclic'
        BY <2>1, <2>5, <3>1 DEF Linked, Acyclic, Descends
      <3>7. ~wild'
        BY <3>1
      <3>8. QED
        BY <3>3, <3>4, <3>5, <3>6, <3>7
    <2>9. ASSUME prev[c] # Null
          PROVE  Forth' /\ Back' /\ Beside' /\ Acyclic' /\ ~wild'
      <3> DEFINE b == prev[c]
      <3>1. b \in Listed \ {Sentinel} /\ next[b] = c /\ b # c
        <4>1. \A m \in Items : ipc[m] # "head"
          BY <2>2 DEF Inserting
        <4>2. QED
          BY <2>1, <2>3, <2>6, <2>7, <2>9, <4>1 DEF Linked, Back
      <3>2. /\ head' = head /\ wild' = wild
            /\ next'[b] = next[c]
            /\ \A m \in Nodes \ {b} : next'[m] = next[m]
        BY <2>3, <2>4, <2>9, <3>1
        DEF DeleteFirst, ListInv, PointersOK
      <3>3. dpc'[c] = "second"
        BY <1>2, <2>3, <2>9
      <3>4. head # c /\ prev[head] = Null
        <4>1. \A m \in Items : ipc[m] # "head"
          BY <2>2 DEF Inserting
        <4>2. \A d \in Clients : dpc[d] # "front"
          BY <2>6 DEF Leaving
        <4>3. QED
          BY <2>1, <2>9, <4>1, <4>2 DEF Linked, Forth
      <3>5. Forth'
        <4>1. head' \in Listed' /\ prev'[head'] = Null
          BY <2>1, <2>5, <3>2, <3>4 DEF DeleteFirst, Linked, Forth
        <4>2. next'[Sentinel] = Null
          BY <2>1, <3>1, <3>2 DEF Linked, Forth, Nodes
        <4>3. ASSUME NEW n \in Listed' \ {Sentinel}
              PROVE  /\ next'[n] \in Listed'
                     /\ \/ prev[next'[n]] = n
                        \/ /\ prev[next'[n]] \in Leaving'
                           /\ prev[prev[next'[n]]] = n
          <5>1. CASE n = b
            BY <2>5, <2>6, <2>7, <3>2, <5>1
          <5>2. CASE n # b
            <6>1. next'[n] = next[n] /\ next[n] \in Listed /\ prev[next[n]] = n
              BY <2>1, <2>4, <2>5, <2>6, <3>2, <5>2 DEF Linked, Forth
            <6>2. next[n] # c
              BY <5>2, <6>1
            <6>3. QED
              BY <2>5, <6>1, <6>2
          <5>3. QED
            BY <5>1, <5>2
        <4>4. QED
          BY <4>1, <4>2, <4>3 DEF DeleteFirst, Forth
      <3>6. Back'
        <4>1. \A m \in Items : ipc[m] # "head"
          BY <2>2 DEF Inserting
        <4>2. ASSUME NEW n \in Listed'
              PROVE  \/ prev[n] = Null /\ n = head'
                     \/ prev[n] \in Listed' \ {Sentinel} /\ next'[prev[n]] = n
                     \/ prev[n] \in Leaving' /\ next'[prev[n]] = n
          <5>1. n \in Listed /\ n # c
            BY <2>5
          <5>2. \/ prev[n] = Null /\ n = head
                \/ prev[n] \in Listed \ {Sentinel} /\ next[prev[n]] = n
            BY <2>1, <2>6, <4>1, <5>1 DEF Linked, Back
          <5>3. prev[n] # b
            BY <2>9, <3>1, <5>1, <5>2
          <5>4. QED
            BY <2>4, <2>5, <2>6, <3>2, <5>2, <5>3
        <4>3. QED
          BY <4>2 DEF DeleteFirst, Back
      <3>7. Beside'
        <4>1. \A m \in Items : ipc'[m] \notin {"back", "head", "start"}
          BY <2>2 DEF DeleteFirst, Inserting
        <4>2. \A d \in Clients : dpc'[d] # "front"
          BY <2>6, <3>3 DEF Leaving
        <4>3. \A d \in Clients : dpc'[d] = "second" => d = c
          BY <2>6 DEF Leaving
        <4>4. next'[c] = next[c] /\ prev' = prev
          BY <2>3, <2>4, <3>1, <3>2 DEF DeleteFirst
        <4>5. QED
          BY <2>5, <2>6, <2>7, <3>1, <3>2, <4>1, <4>2, <4>3, <4>4 DEF Beside
      <3>8. Acyclic'
        <4>1. PICK r \in [Nodes -> Nat] : Descends(r)
          BY <2>1 DEF Linked, Acyclic
        <4>2. ASSUME NEW n \in Listed' \ {Sentinel} PROVE r[next'[n]] < r[n]
          <5>1. n \in Listed \ {Sentinel} /\ r[next[n]] < r[n]
            BY <2>5, <4>1 DEF Descends
          <5>2. CASE n = b
            <6>1. r[next[c]] < r[c] /\ r[c] < r[b]
              BY <2>3, <3>1, <4>1 DEF Descends
            <6>2. r[next[c]] \in Nat /\ r[c] \in Nat /\ r[b] \in Nat
              BY <2>3, <2>4, <2>7, <3>1
            <6>3. QED
              BY <3>2, <5>2, <6>1, <6>2
          <5>3. CASE n # b
            BY <2>4, <3>2, <5>1, <5>3
          <5>4. QED
            BY <5>2, <5>3
        <4>3. QED
          BY <4>2 DEF Acyclic, Descends
      <3>9. ~wild'
        BY <3>2
      <3>10. QED
        BY <3>5, <3>6, <3>7, <3>8, <3>9
    <2>10. Alone' /\ Owned'
      <3>1. freed = {d \in Clients : dpc'[d] = "done"}
        BY <1>1, <1>2, <2>1 DEF Linked, Owned
      <3>2. QED
        BY <1>1, <1>2, <2>1, <2>2, <2>3, <3>1
        DEF DeleteFirst, Linked, Alone, Owned
    <2>11. Following'
      BY <2>1, <2>2 DEF DeleteFirst, walkVars, lookVars, Following
    <2>12. QED
      BY <2>8, <2>9, <2>10, <2>11 DEF Linked
  <1>7. QED
    BY <1>3, <1>5, <1>6 DEF ListInv

LEMMA DeleteSecondInv ==
  ASSUME ListInv, NEW c \in Clients, DeleteSecond(c), ~wild
  PROVE  ListInv'
  <1>1. dpc[c] \in {"second", "front"} /\ c \in Deleting
    BY DEF DeleteSecond, Deleting
  <1>2. /\ dpc'[c] = "free"
        /\ \A d \in Clients \ {c} : dpc'[d] = dpc[d]
    BY DEF DeleteSecond, ListInv, PointersOK
  <1>3. PointersOK'
    <2>1. owns[c] \in Pointer
      BY DEF ListInv, PointersOK
    <2>2. prev' \in [Nodes -> Pointer]
      <3>1. CASE Bad(owns[c]) \/ next[owns[c]] = Null
        BY <3>1 DEF DeleteSecond, ListInv, PointersOK
      <3>2. CASE ~(Bad(owns[c]) \/ next[owns[c]] = Null)
        <4>1. owns[c] \in Nodes /\ prev[owns[c]] \in Pointer
          BY <2>1, <3>2 DEF Bad, Pointer, ListInv, PointersOK
        <4>2. QED
          BY <3>2, <4>1 DEF DeleteSecond, ListInv, PointersOK, Pointer
      <3>3. QED
        BY <3>1, <3>2
    <2>3. wild' \in BOOLEAN
      BY DEF DeleteSecond, ListInv, PointersOK, Bad
    <2>4. QED
      BY <2>2, <2>3 DEF DeleteSecond, walkVars, lookVars, ListInv, PointersOK
  <1>4. Deleting' = Deleting
    BY <1>1, <1>2 DEF Deleting
  <1>5. Locked'
    BY <1>4 DEF DeleteSecond, walkVars, ListInv, Locked
  <1>6. ASSUME ~overlap'
        PROVE  Linked' /\ Following' /\ (~peeked' => ~wild')
    <2>1. Linked /\ Following
      BY <1>6 DEF DeleteSecond, ListInv
    <2>2. Deleting = {c} /\ Inserting = {} /\ Inserting' = {} /\ wpc = "idle"
      BY <1>1, <2>1, DeletesAlone DEF DeleteSecond, ListInv, Inserting
    <2>3. /\ ipc[c] = "done" /\ owns[c] = c /\ c \notin Listed
          /\ c \in Nodes /\ c # Null /\ c \notin freed
      BY <1>1, <2>1, NodesAssumption DEF Linked, Owned, Listed, Items, Nodes
    <2>4. Listed \subseteq Nodes /\ \A n \in Listed : ~Bad(n)
      BY <2>1, ListedGood DEF ListInv, Linked
    <2>5. Listed' = Listed
      BY <1>1, <1>2 DEF DeleteSecond, Listed
    <2>6. Leaving = {c} /\ Leaving' = {}
      BY <1>1, <1>2, <2>2 DEF Leaving, Deleting
    <2> DEFINE x == next[c]
    <2>7. x \in Listed /\ prev[x] = c /\ x # c
      BY <2>1, <2>3, <2>6 DEF Linked, Beside
    <2>8. /\ prev'[x] = IF dpc[c] = "front" THEN Null ELSE prev[c]
          /\ \A n \in Nodes \ {x} : prev'[n] = prev[n]
          /\ wild' = wild
      BY <2>3, <2>4, <2>7 DEF DeleteSecond, Bad, ListInv, PointersOK
    <2>9. dpc[c] = "front" => prev[c] = Null /\ head = x
      BY <2>1 DEF Linked, Beside
    <2>10. dpc[c] = "second" =>
             prev[c] \in Listed \ {Sentinel} /\ next[prev[c]] = x
      BY <2>1 DEF Linked, Beside
    <2>11. \A m \in Items : ipc[m] \notin {"back", "head", "start"}
      BY <2>2 DEF Inserting
    <2>12. Forth'
      <3>1. prev'[head] = Null
        <4>1. CASE dpc[c] = "front"
          BY <2>8, <2>9, <4>1
        <4>2. CASE dpc[c] = "second"
          <5>1. \A d \in Clients : dpc[d] # "front"
            BY <2>6, <4>2 DEF Leaving
          <5>2. prev[head] = Null /\ head \in Nodes
            BY <2>1, <2>4, <2>11, <5>1 DEF Linked, Forth
          <5>3. QED
            BY <2>3, <2>7, <2>8, <5>2
        <4>3. QED
          BY <1>1, <4>1, <4>2
      <3>2. ASSUME NEW n \in Listed \ {Sentinel}
            PROVE  next[n] \in Listed /\ prev'[next[n]] = n
        <4>1. /\ next[n] \in Listed /\ n \in Nodes
              /\ prev[next[n]] = n \/ (prev[next[n]] = c /\ prev[c] = n)
          BY <2>1, <2>4, <2>6 DEF Linked, Forth
        <4>2. CASE next[n] = x
          <5>1. prev[c] = n
            BY <2>3, <2>7, <4>1, <4>2
          <5>2. n # Null
            BY <2>4 DEF Bad
          <5>3. QED
            BY <2>8, <2>9, <4>1, <4>2, <5>1, <5>2
        <4>3. CASE next[n] # x
          <5>1. prev[next[n]] # c
            BY <2>1, <2>3, <2>6, <2>11, <4>1, <4>3 DEF Linked, Back, Items
          <5>2. QED
            BY <2>4, <2>8, <4>1, <4>3, <5>1
        <4>4. QED
          BY <4>2, <4>3
      <3>3. QED
        BY <2>1, <2>5, <3>1, <3>2 DEF DeleteSecond, Linked, Forth
    <2>13. Back'
      <3>1. ASSUME NEW n \in Listed
            PROVE  \/ prev'[n] = Null /\ n = head
                   \/ prev'[n] \in Listed \ {Sentinel} /\ next[prev'[n]] = n
        <4>1. CASE n = x
          BY <1>1, <2>8, <2>9, <2>10, <4>1
        <4>2. CASE n # x
          BY <2>1, <2>4, <2>6, <2>8, <2>11, <4>2 DEF Linked, Back
        <4>3. QED
          BY <4>1, <4>2
      <3>2. QED
        BY <2>5, <3>1 DEF DeleteSecond, Back
    <2>14. Beside'
      <3>1. \A m \in Items : ipc'[m] \notin {"back", "head", "start"}
        BY <2>11 DEF DeleteSecond
      <3>2. \A d \in Clients : dpc'[d] \notin {"second", "front"}
        BY <2>6 DEF Leaving
      <3>3. QED
        BY <2>6, <3>1, <3>2 DEF Beside
    <2>15. Acyclic'
      BY <2>1, <2>5 DEF DeleteSecond, Linked, Acyclic, Descends
    <2>16. Alone' /\ Owned'
      <3>1. freed = {d \in Clients : dpc'[d] = "done"}
        BY <1>1, <1>2, <2>1 DEF Linked, Owned
      <3>2. QED
        BY <1>1, <1>2, <2>1, <2>2, <2>3, <3>1
        DEF DeleteSecond, Linked, Alone, Owned
    <2>17. Following' /\ ~wild'
      BY <2>1, <2>2, <2>8 DEF DeleteSecond, walkVars, lookVars, Following
    <2>18. QED
      BY <2>12, <2>13, <2>14, <2>15, <2>16, <2>17 DEF Linked
  <1>7. QED
    BY <1>3, <1>5, <1>6 DEF ListInv

LEMMA DeleteFreeInv ==
  ASSUME ListInv, NEW c \in Clients, DeleteFree(c), ~wild
  PROVE  ListInv'
  <1>1. dpc[c] = "free" /\ c \in Deleting /\ lock = c
    BY DEF DeleteFree, ListInv, Locked, Deleting
  <1>2. /\ dpc'[c] = "done" /\ lock' = Nobody
        /\ \A d \in Clients \ {c} : dpc'[d] = dpc[d]
    BY <1>1 DEF DeleteFree, ListInv, PointersOK
  <1>3. PointersOK'
    <2>1. wild' \in BOOLEAN
      BY DEF DeleteFree, ListInv, PointersOK, Bad
    <2>2. QED
      BY <1>2, <2>1 DEF DeleteFree, walkVars, lookVars, ListInv, PointersOK
  <1>4. Deleting = {c} /\ Deleting' = {} /\ wpc = "idle"
    BY <1>1, <1>2, LockAssumption
    DEF ListInv, PointersOK, Locked, Deleting
  <1>5. Locked'
    BY <1>2, <1>4, LockAssumption DEF DeleteFree, walkVars, Locked
  <1>6. ASSUME ~overlap'
        PROVE  Linked' /\ Following' /\ (~peeked' => ~wild')
    <2>1. Linked /\ Following
      BY <1>6 DEF DeleteFree, ListInv
    <2>2. Inserting = {} /\ Inserting' = {}
      BY <1>1, <2>1, DeletesAlone DEF DeleteFree, ListInv, Inserting
    <2>3. ipc[c] = "done" /\ owns[c] = c /\ c # Null /\ c \notin freed
      BY <1>1, <2>1, NodesAssumption DEF Linked, Owned, Items
    <2>4. Listed' = Listed /\ Leaving = {} /\ Leaving' = {}
      BY <1>1, <1>2, <1>4 DEF DeleteFree, Listed, Leaving, Deleting
    <2>5. Alone' /\ Owned'
      <3>1. freed' = {d \in Clients : dpc'[d] = "done"}
        BY <1>1, <1>2, <2>1, <2>3 DEF DeleteFree, Linked, Owned, Items
      <3>2. QED
        BY <1>1, <1>2, <1>4, <2>1, <2>2, <2>3, <3>1
        DEF DeleteFree, Linked, Alone, Owned
    <2>6. Forth' /\ Back'
      <3>1. \A d \in Clients : dpc[d] # "front"
        BY <2>4 DEF Leaving
      <3>2. QED
        BY <2>1, <2>4, <3>1 DEF DeleteFree, Linked, Forth, Back
    <2>7. Beside'
      <3>1. \A m \in Items : ipc'[m] \notin {"back", "head", "start"}
        BY <2>2 DEF Inserting
      <3>2. \A d \in Clients : dpc'[d] \notin {"second", "front"}
        BY <2>4 DEF Leaving
      <3>3. QED
        BY <2>4, <3>1, <3>2 DEF Beside
    <2>8. Acyclic'
      BY <2>1, <2>4 DEF DeleteFree, Linked, Acyclic, Descends
    <2>9. Following' /\ ~wild'
      BY <1>4, <2>1, <2>3, <2>4
      DEF DeleteFree, walkVars, lookVars, Following, Bad
    <2>10. QED
      BY <2>5, <2>6, <2>7, <2>8, <2>9 DEF Linked
  <1>7. QED
    BY <1>3, <1>5, <1>6 DEF ListInv

\* The next of a listed node is listed, but that of the sentinel.
LEMMA NextListed ==
  ASSUME Linked, NEW n \in Listed, n # Sentinel
  PROVE  next[n] \in Listed
  BY DEF Linked, Forth

LEMMA WalkInv ==
  ASSUME ListInv, WalkBegin \/ WalkStep \/ WalkEnd, ~wild
  PROVE  ListInv'
  <1>1. UNCHANGED <<linkVars, ipc, owns, dpc>> /\ Deleting' = Deleting
    BY DEF WalkBegin, WalkStep, WalkEnd, Deleting
  <1>2. Listed' = Listed /\ (Linked => Linked')
    BY <1>1, LinkedKept DEF Listed
  <1>3. /\ overlap' = overlap /\ peeked' = peeked
        /\ UNCHANGED <<looking, eye>>
    BY DEF WalkBegin, WalkStep, WalkEnd, lookVars
  <1>4. Linked /\ Following => ~Bad(head) /\ (wpc = "walk" => ~Bad(at))
    BY ListedGood DEF ListInv, Linked, Forth, Following
  <1>5. CASE WalkBegin
    <2>1. PointersOK' /\ Locked'
      BY <1>1, <1>3, <1>5, LockAssumption
      DEF WalkBegin, linkVars, ListInv, PointersOK, Locked
    <2>2. Linked /\ Following => Following'
      BY <1>1, <1>2, <1>3, <1>5 DEF WalkBegin, Linked, Forth, Following
    <2>3. QED
      BY <1>2, <1>3, <1>5, <2>1, <2>2 DEF WalkBegin, ListInv
  <1>6. CASE WalkStep
    <2>1. next[at] \in Pointer
      BY <1>6 DEF WalkStep, Bad, ListInv, PointersOK, Pointer
    <2>2. PointersOK' /\ Locked'
      BY <1>1, <1>3, <1>6, <2>1
      DEF WalkStep, linkVars, ListInv, PointersOK, Locked
    <2>3. Linked /\ Following => Following'
      BY <1>1, <1>2, <1>3, <1>6, NextListed DEF WalkStep, Following
    <2>4. QED
      BY <1>2, <1>3, <1>6, <2>2, <2>3 DEF WalkStep, ListInv
  <1>7. CASE WalkEnd
    <2>1. PointersOK' /\ Locked'
      <3>1. wild' \in BOOLEAN
        BY <1>7 DEF WalkEnd, Bad, ListInv, PointersOK
      <3>2. QED
        BY <1>1, <1>3, <1>7, <3>1, LockAssumption
        DEF WalkEnd, linkVars, ListInv, PointersOK, Locked, Pointer
    <2>2. Linked /\ Following => Following' /\ wild' = wild
      <3>1. wpc = "walk" /\ wpc' = "idle"
        BY <1>7 DEF WalkEnd
      <3>2. wild' = (wild \/ Bad(at)) /\ wild \in BOOLEAN
        BY <1>7 DEF WalkEnd, ListInv, PointersOK
      <3>3. Following => Following'
        BY <1>1, <1>2, <1>3, <3>1 DEF Following
      <3>4. QED
        BY <1>4, <3>1, <3>2, <3>3
    <2>3. QED
      BY <1>2, <1>3, <2>1, <2>2 DEF ListInv
  <1>8. QED
    BY <1>5, <1>6, <1>7

LEMMA LookInv ==
  ASSUME ListInv, LookBegin \/ LookStep \/ LookEnd, ~wild
  PROVE  ListInv'
  <1>1. UNCHANGED <<linkVars, ipc, owns, dpc>> /\ Deleting' = Deleting
    BY DEF LookBegin, LookStep, LookEnd, Deleting
  <1>2. Listed' = Listed /\ (Linked => Linked')
    BY <1>1, LinkedKept DEF Listed
  <1>3. overlap' = overlap /\ lock' = lock /\ wpc' = wpc /\ at' = at
    BY DEF LookBegin, LookStep, LookEnd, walkVars
  <1>4. Locked'
    BY <1>1, <1>3 DEF ListInv, Locked
  <1>5. CASE LookBegin
    <2>1. PointersOK'
      <3>1. peeked' \in BOOLEAN
        BY <1>5 DEF LookBegin, ListInv, PointersOK
      <3>2. QED
        BY <1>1, <1>3, <1>5, <3>1 DEF LookBegin, linkVars, ListInv, PointersOK
    <2>2. Linked /\ Following => Following'
      BY <1>1, <1>2, <1>3, <1>5 DEF LookBegin, Linked, Forth, Following
    <2>3. QED
      BY <1>2, <1>3, <1>4, <1>5, <2>1, <2>2 DEF LookBegin, ListInv
  <1>6. CASE LookStep
    <2>1. next[eye] \in Pointer
      BY <1>6 DEF LookStep, Bad, ListInv, PointersOK, Pointer
    <2>2. PointersOK'
      BY <1>1, <1>3, <1>6, <2>1 DEF LookStep, linkVars, ListInv, PointersOK
    <2>3. Linked /\ Following => Following'
      <3>1. ASSUME Linked, eye \in Listed
            PROVE  next[eye] \in Listed \cup {Null}
        BY <3>1, NextListed DEF Linked, Forth
      <3>2. eye # Null
        BY <1>6 DEF LookStep, Bad
      <3>3. QED
        BY <1>1, <1>2, <1>3, <1>6, <3>1, <3>2 DEF LookStep, Following
    <2>4. QED
      BY <1>2, <1>3, <1>4, <1>6, <2>2, <2>3 DEF LookStep, ListInv
  <1>7. CASE LookEnd
    <2>1. PointersOK'
      <3>1. wild' \in BOOLEAN
        BY <1>7 DEF LookEnd, ListInv, PointersOK
      <3>2. QED
        BY <1>1, <1>3, <1>7, <3>1
        DEF LookEnd, linkVars, ListInv, PointersOK, Pointer
    <2>2. Linked /\ Following /\ ~peeked => wild' = wild
      <3>1. Linked => \A n \in Listed : ~Bad(n)
        BY ListedGood DEF ListInv, Linked
      <3>2. looking /\ Bad(eye)
        BY <1>7 DEF LookEnd
      <3>3. Linked /\ Following /\ ~peeked => eye = Null
        BY <3>1, <3>2 DEF Following
      <3>4. wild' = (wild \/ eye # Null) /\ wild \in BOOLEAN
        BY <1>7 DEF LookEnd, ListInv, PointersOK
      <3>5. QED
        BY <3>3, <3>4
    <2>3. Following => Following'
      BY <1>1, <1>2, <1>3, <1>7 DEF LookEnd, Following
    <2>4. QED
      BY <1>2, <1>3, <1>4, <1>7, <2>1, <2>2, <2>3 DEF LookEnd, ListInv
  <1>8. QED
    BY <1>5, <1>6, <1>7

LEMMA NextInv == ListInv /\ [Next]_vars => ListInv'
  <1> SUFFICES ASSUME ListInv, [Next]_vars PROVE ListInv'
    OBVIOUS
  <1>1. CASE Next
    <2>1. ~wild
      BY <1>1 DEF Next
    <2>2. CASE \E n \in Items : Insert(n)
      BY <2>1, <2>2, InsertBeginInv, InsertBackInv, InsertHeadInv DEF Insert
    <2>3. CASE \E c \in Clients : Start(c) \/ ClientThread(c)
      BY <2>1, <2>3, StartInv, DeleteBeginInv, DeleteFirstInv,
         DeleteSecondInv, DeleteFreeInv
      DEF ClientThread
    <2>4. CASE WalkBegin \/ WalkStep \/ WalkEnd
      BY <2>1, <2>4, WalkInv
    <2>5. CASE LookBegin \/ LookStep \/ LookEnd
      BY <2>1, <2>5, LookInv
    <2>6. QED
      BY <1>1, <2>2, <2>3, <2>4, <2>5 DEF Next
  <1>2. CASE UNCHANGED vars
    <2>1. /\ UNCHANGED <<linkVars, ipc, owns, dpc>>
          /\ UNCHANGED <<lock, wpc, at, looking, eye, overlap, peeked, wild>>
      BY <1>2 DEF vars, walkVars, lookVars
    <2>2. PointersOK' /\ Locked' /\ (Following => Following')
      BY <2>1
      DEF linkVars, ListInv, PointersOK, Locked, Following, Deleting, Listed
    <2>3. QED
      BY <2>1, <2>2, LinkedKept DEF ListInv
  <1>3. QED
    BY <1>1, <1>2

\* No thread follows a pointer to freed memory unless an insertion coincides
\* with a deletion or another insertion, or a display with a deletion, for any
\* number of connections, tasks, walks and displays (list.c:14-46, 90-108).
THEOREM NothingWild == Spec => []NoWildPointer
  <1>1. ListInv => NoWildPointer
    BY DEF ListInv, NoWildPointer
  <1>2. QED
    BY <1>1, InitInv, NextInv, PTL DEF Spec

-----------------------------------------------------------------------------
(* The list as a sequence                                                  *)

SequencesOK ==
  /\ members \in Seq(Items)
  /\ visited \in Seq(Items) /\ due \in Seq(Items) /\ walks \in 0 .. MaxWalks
  /\ seen \in Seq(Items) /\ shown \in Seq(Items) /\ looks \in 0 .. MaxLooks

\* The node in place i of a list, the sentinel after the last.
Place(list, i) == IF i \in 1 .. Len(list) THEN list[i] ELSE Sentinel

\* The listed nodes have a place each, and the next of each is in the next.
Chained ==
  /\ \A i, j \in 1 .. Len(members) : members[i] = members[j] => i = j
  /\ \A i \in 1 .. Len(members) : members[i] \in Listed
  /\ \A n \in Listed \ {Sentinel} : \E i \in 1 .. Len(members) : members[i] = n
  /\ head = Place(members, 1)
  /\ \A i \in 1 .. Len(members) : next[members[i]] = Place(members, i + 1)

\* A reader that is at p, has passed some and has come for all of what is now
\* the end of the list.
OnWay(p, passed, all, list) ==
  /\ Len(passed) <= Len(all) /\ Len(all) <= Len(list)
  /\ \A i \in 1 .. Len(passed) : passed[i] = all[i]
  /\ \A i \in 1 .. Len(all) : all[i] = list[Len(list) - Len(all) + i]
  /\ p = Place(list, Len(list) - Len(all) + Len(passed) + 1)

Readers ==
  /\ wpc = "walk" => OnWay(at, visited, due, members)
  /\ ~peeked /\ looking =>
       OnWay(eye, seen, shown, members) \/ (eye = Null /\ seen = shown)

SeqInv == SequencesOK /\ (~overlap => Chained /\ Readers)

LessThan == {ss \in Nat \X Nat : ss[1] < ss[2]}

LEMMA SmallestOfNat ==
  ASSUME NEW S, S \subseteq Nat, S # {}
  PROVE  \E i \in S : \A j \in S : i <= j
  <1>1. IsWellFoundedOn(LessThan, Nat)
    BY NatLessThanWellFounded DEF OpToRel, LessThan
  <1>2. PICK i \in S : \A j \in S : ~(<<j, i>> \in LessThan)
    BY <1>1, WFMin
  <1>3. \A m, n \in Nat : <<m, n>> \in LessThan <=> m < n
    BY DEF LessThan
  <1>4. ASSUME NEW j \in S PROVE i <= j
    <2>1. i \in Nat /\ j \in Nat /\ ~(j < i)
      BY <1>2, <1>3
    <2>2. QED
      BY <2>1
  <1>5. QED
    BY <1>4

\* Without the element in one place of a sequence.
LEMMA RemoveAtPlace ==
  ASSUME NEW S, NEW s \in Seq(S), NEW k \in 1 .. Len(s)
  PROVE  /\ RemoveAt(s, k) \in Seq(S)
         /\ Len(RemoveAt(s, k)) = Len(s) - 1
         /\ \A i \in 1 .. Len(s) - 1 :
              RemoveAt(s, k)[i] = IF i < k THEN s[i] ELSE s[i + 1]
  <1> DEFINE a == SubSeq(s, 1, k - 1)
  <1> DEFINE b == SubSeq(s, k + 1, Len(s))
  <1>1. Len(s) \in Nat /\ \A i \in 1 .. Len(s) : s[i] \in S
    BY ElementOfSeq, LenProperties
  <1>2. /\ a \in Seq(S) /\ Len(a) = k - 1
        /\ \A i \in 1 .. k - 1 : a[i] = s[i]
    <2>1. \A i \in 1 .. k - 1 : s[i] \in S
      BY <1>1
    <2>2. /\ a \in Seq(S)
          /\ Len(a) = IF 1 <= k - 1 THEN k - 1 - 1 + 1 ELSE 0
          /\ \A i \in 1 .. k - 1 - 1 + 1 : a[i] = s[1 + i - 1]
      BY <1>1, <2>1, SubSeqProperties
    <2> HIDE DEF a
    <2>3. QED
      BY <1>1, <2>2
  <1>3. /\ b \in Seq(S) /\ Len(b) = Len(s) - k
        /\ \A i \in 1 .. Len(s) - k : b[i] = s[i + k]
    <2>1. \A i \in k + 1 .. Len(s) : s[i] \in S
      BY <1>1
    <2>2. /\ b \in Seq(S)
          /\ Len(b) = IF k + 1 <= Len(s) THEN Len(s) - (k + 1) + 1 ELSE 0
          /\ \A i \in 1 .. Len(s) - (k + 1) + 1 : b[i] = s[(k + 1) + i - 1]
      <3>1. k + 1 \in Int /\ Len(s) \in Int
        BY <1>1
      <3>2. QED
        BY <2>1, <3>1, SubSeqProperties
    <2> HIDE DEF b
    <2>3. Len(s) - (k + 1) + 1 = Len(s) - k
      BY <1>1
    <2>4. Len(b) = Len(s) - k
      BY <1>1, <2>2
    <2>5. ASSUME NEW i \in 1 .. Len(s) - k PROVE b[i] = s[i + k]
      <3>1. (k + 1) + i - 1 = i + k
        BY <1>1
      <3>2. b[i] = s[(k + 1) + i - 1]
        BY <2>2, <2>3
      <3>3. QED
        BY <3>1, <3>2
    <2>6. QED
      BY <2>2, <2>4, <2>5
  <1>4. RemoveAt(s, k) = a \o b
    BY DEF RemoveAt
  <1> HIDE DEF a, b
  <1>5. /\ a \o b \in Seq(S)
        /\ Len(a \o b) = Len(a) + Len(b)
        /\ \A i \in 1 .. Len(a) + Len(b) :
             (a \o b)[i] = IF i <= Len(a) THEN a[i] ELSE b[i - Len(a)]
    BY <1>2, <1>3, ConcatProperties
  <1>6. Len(a) + Len(b) = Len(s) - 1
    BY <1>1, <1>2, <1>3
  <1>7. ASSUME NEW i \in 1 .. Len(s) - 1
        PROVE  (a \o b)[i] = IF i < k THEN s[i] ELSE s[i + 1]
    <2>1. (a \o b)[i] = IF i <= k - 1 THEN a[i] ELSE b[i - (k - 1)]
      BY <1>2, <1>5, <1>6
    <2>2. CASE i < k
      <3>1. i <= k - 1 /\ i \in 1 .. k - 1
        BY <1>1, <2>2
      <3>2. QED
        BY <1>2, <2>1, <2>2, <3>1
    <2>3. CASE ~(i < k)
      <3>1. ~(i <= k - 1) /\ i - (k - 1) \in 1 .. Len(s) - k
            /\ i - (k - 1) + k = i + 1
        BY <1>1, <2>3
      <3>2. QED
        BY <1>3, <2>1, <2>3, <3>1
    <2>4. QED
      BY <2>2, <2>3
  <1>8. QED
    BY <1>4, <1>5, <1>6, <1>7

\* What RemoveFirst removes, and that it does not make up elements.
LEMMA RemoveFirstPlace ==
  ASSUME NEW S, NEW s \in Seq(S), NEW e
  PROVE  \/ /\ RemoveFirst(s, e) = s
            /\ \A i \in 1 .. Len(s) : s[i] # e
         \/ \E k \in 1 .. Len(s) : s[k] = e /\ RemoveFirst(s, e) = RemoveAt(s, k)
  <1> DEFINE I == {i \in 1 .. Len(s) : s[i] = e}
  <1>1. CASE I = {}
    BY <1>1 DEF RemoveFirst
  <1>2. CASE I # {}
    <2>1. \E k \in I : \A j \in I : k <= j
      <3>1. I \subseteq Nat
        BY LenProperties
      <3> HIDE DEF I
      <3>2. QED
        BY <1>2, <3>1, SmallestOfNat
    <2>2. Min(I) \in I
      BY <2>1 DEF Min
    <2>3. SelectInSeq(s, LAMBDA v : v = e) = Min(I)
      BY <1>2 DEF SelectInSeq
    <2>4. RemoveFirst(s, e) = RemoveAt(s, Min(I))
      BY <1>2, <2>3 DEF RemoveFirst
    <2>5. QED
      BY <2>2, <2>4
  <1>3. QED
    BY <1>1, <1>2

LEMMA SeqInit == Init => SeqInv
  <1> SUFFICES ASSUME Init PROVE SeqInv
    OBVIOUS
  <1>1. SequencesOK
    BY WalksAssumption, EmptySeq DEF Init, SequencesOK
  <1>2. Listed = {Sentinel} /\ Len(members) = 0
    BY EmptySeq DEF Init, Listed, Items
  <1>3. Chained
    BY <1>2 DEF Init, Chained, Place
  <1>4. Readers
    BY DEF Init, Readers
  <1>5. QED
    BY <1>1, <1>3, <1>4 DEF SeqInv

\* What a step that leaves the sequences alone keeps of them.
LEMMA SequencesKept ==
  ASSUME SequencesOK, UNCHANGED <<members, visited, due, walks, seen, shown, looks>>
  PROVE  SequencesOK'
  BY DEF SequencesOK

\* A reader keeps its place when the list keeps its own.
LEMMA ReadersKept ==
  ASSUME Readers, UNCHANGED <<members, walkVars, looking, eye, seen, shown>>,
         ~peeked' => ~peeked
  PROVE  Readers'
  BY DEF Readers, OnWay, Place, walkVars

LEMMA ChainedKept ==
  ASSUME SequencesOK, Chained, members' = members, head' = head, Listed' = Listed,
         \A n \in Listed : next'[n] = next[n]
  PROVE  Chained'
  <1>1. \A i \in 1 .. Len(members) : members[i] \in Listed
    BY DEF Chained
  <1>2. QED
    BY <1>1 DEF Chained, Place

LEMMA InsertBeginSeq ==
  ASSUME ListInv, SeqInv, NEW n \in Items, InsertBegin(n)
  PROVE  SeqInv'
  <1>1. SequencesOK'
    BY SequencesKept DEF InsertBegin, walkVars, lookVars, SeqInv
  <1>2. ASSUME ~overlap' PROVE Chained' /\ Readers'
    <2>1. ~overlap /\ Chained /\ Readers
      BY <1>2 DEF InsertBegin, SeqInv
    <2>2. Listed' = Listed /\ n \notin Listed
      BY NodesAssumption DEF InsertBegin, Listed, ListInv, PointersOK, Items
    <2>3. Listed \subseteq Nodes
      BY DEF Listed, Nodes
    <2>4. Chained'
      BY <2>1, <2>2, <2>3, ChainedKept
      DEF InsertBegin, SeqInv, ListInv, PointersOK
    <2>5. Readers'
      BY <2>1, ReadersKept DEF InsertBegin, lookVars
    <2>6. QED
      BY <2>4, <2>5
  <1>3. QED
    BY <1>1, <1>2 DEF SeqInv

LEMMA InsertBackSeq ==
  ASSUME ListInv, SeqInv, NEW n \in Items, InsertBack(n)
  PROVE  SeqInv'
  <1>1. SequencesOK'
    BY SequencesKept DEF InsertBack, walkVars, lookVars, SeqInv
  <1>2. ASSUME ~overlap' PROVE Chained' /\ Readers'
    <2>1. ~overlap /\ Chained /\ Readers
      BY <1>2 DEF InsertBack, SeqInv
    <2>2. Listed' = Listed
      BY DEF InsertBack, Listed, ListInv, PointersOK
    <2>3. Chained'
      BY <2>1, <2>2, ChainedKept DEF InsertBack, SeqInv
    <2>4. Readers'
      BY <2>1, ReadersKept DEF InsertBack, lookVars
    <2>5. QED
      BY <2>3, <2>4
  <1>3. QED
    BY <1>1, <1>2 DEF SeqInv

\* A node more at the front moves every place and no node.
LEMMA OnWayPushed ==
  ASSUME NEW p, NEW passed \in Seq(Items), NEW all \in Seq(Items),
         NEW list \in Seq(Items), NEW longer \in Seq(Items),
         Len(longer) = Len(list) + 1,
         \A i \in 1 .. Len(list) : longer[i + 1] = list[i],
         OnWay(p, passed, all, list)
  PROVE  OnWay(p, passed, all, longer)
  <1>1. Len(passed) \in Nat /\ Len(all) \in Nat /\ Len(list) \in Nat
    BY LenProperties
  <1>2. Len(passed) <= Len(all) /\ Len(all) <= Len(list)
    BY DEF OnWay
  <1>3. ASSUME NEW i \in 1 .. Len(all)
        PROVE  all[i] = longer[Len(longer) - Len(all) + i]
    <2>1. /\ Len(list) - Len(all) + i \in 1 .. Len(list)
          /\ Len(longer) - Len(all) + i = (Len(list) - Len(all) + i) + 1
      BY <1>1, <1>2
    <2>2. all[i] = list[Len(list) - Len(all) + i]
      BY DEF OnWay
    <2>3. QED
      BY <2>1, <2>2
  <1>4. p = Place(longer, Len(longer) - Len(all) + Len(passed) + 1)
    <2> DEFINE k == Len(list) - Len(all) + Len(passed) + 1
    <2>1. k \in Nat \ {0}
          /\ Len(longer) - Len(all) + Len(passed) + 1 = k + 1
      BY <1>1, <1>2
    <2>2. p = Place(list, k)
      BY DEF OnWay
    <2> HIDE DEF k
    <2>3. k + 1 \in 1 .. Len(longer) <=> k \in 1 .. Len(list)
      BY <1>1, <2>1
    <2>4. Place(longer, k + 1) = Place(list, k)
      BY <2>3 DEF Place
    <2>5. QED
      BY <2>1, <2>2, <2>4
  <1>5. QED
    BY <1>1, <1>2, <1>3, <1>4 DEF OnWay

LEMMA InsertHeadSeq ==
  ASSUME ListInv, SeqInv, NEW n \in Items, InsertHead(n)
  PROVE  SeqInv'
  <1>1. /\ members' \in Seq(Items)
        /\ Len(members') = Len(members) + 1 /\ Len(members) \in Nat
        /\ members'[1] = n
        /\ \A i \in 1 .. Len(members) : members'[i + 1] = members[i]
    <2>1. members \in Seq(Items) /\ <<n>> \in Seq(Items)
      BY DEF SeqInv, SequencesOK
    <2>2. Len(<<n>>) = 1 /\ <<n>>[1] = n /\ Len(members) \in Nat
      BY <2>1, LenProperties
    <2>3. /\ members' \in Seq(Items)
          /\ Len(members') = 1 + Len(members)
          /\ \A i \in 1 .. 1 + Len(members) :
               members'[i] = IF i <= 1 THEN <<n>>[i] ELSE members[i - 1]
      BY <2>1, <2>2, ConcatProperties DEF InsertHead
    <2>4. ASSUME NEW i \in 1 .. Len(members)
          PROVE  members'[i + 1] = members[i]
      <3>1. i + 1 \in 1 .. 1 + Len(members) /\ ~(i + 1 <= 1)
            /\ (i + 1) - 1 = i
        BY <2>2
      <3>2. QED
        BY <2>3, <3>1
    <2>5. QED
      BY <2>2, <2>3, <2>4
  <1>2. SequencesOK'
    BY <1>1 DEF InsertHead, walkVars, lookVars, SeqInv, SequencesOK
  <1>3. ASSUME ~overlap' PROVE Chained' /\ Readers'
    <2>1. Chained /\ Readers /\ Linked
      BY <1>3 DEF InsertHead, SeqInv, ListInv
    <2>2. Listed' = Listed \cup {n} /\ n \notin Listed /\ n # Sentinel
      <3>1. n \in Clients => dpc[n] = "none"
        BY <2>1 DEF InsertHead, Linked, Owned, ListInv, PointersOK
      <3>2. ipc'[n] \in {"start", "done"} /\ ipc[n] = "head"
            /\ \A m \in Items \ {n} : ipc'[m] = ipc[m]
        BY DEF InsertHead, ListInv, PointersOK
      <3>3. QED
        BY <3>1, <3>2, NodesAssumption DEF InsertHead, Listed, Items
    <2>3. next' = next /\ next[n] = head /\ head' = n
      BY <2>1 DEF InsertHead, Linked, Beside
    <2>4. /\ Place(members', 1) = n
          /\ \A i \in Nat \ {0} : Place(members', i + 1) = Place(members, i)
      BY <1>1 DEF Place
    <2>5. \A i \in 1 .. Len(members') :
            (i = 1 /\ members'[i] = n)
              \/ (i - 1 \in 1 .. Len(members) /\ members'[i] = members[i - 1])
      <3>1. ASSUME NEW i \in 1 .. Len(members'), i # 1
            PROVE  i - 1 \in 1 .. Len(members) /\ members'[i] = members[i - 1]
        <4>1. i - 1 \in 1 .. Len(members) /\ (i - 1) + 1 = i
          BY <1>1, <3>1
        <4>2. QED
          BY <1>1, <4>1
      <3>2. QED
        BY <1>1, <3>1
    <2>6. Chained'
      <3>1. \A i, j \in 1 .. Len(members') : members'[i] = members'[j] => i = j
        <4>1. \A i \in 1 .. Len(members) : members[i] # n
          BY <2>1, <2>2 DEF Chained
        <4>2. ASSUME NEW i \in 1 .. Len(members'), NEW j \in 1 .. Len(members'),
                     members'[i] = members'[j]
              PROVE  i = j
          <5>1. CASE i = 1
            BY <2>5, <4>1, <4>2, <5>1
          <5>2. CASE i # 1
            <6>1. /\ i - 1 \in 1 .. Len(members)
                  /\ members'[i] = members[i - 1] /\ members[i - 1] # n
              BY <2>5, <4>1, <5>2
            <6>2. j - 1 \in 1 .. Len(members) /\ members'[j] = members[j - 1]
              BY <2>5, <4>2, <6>1
            <6>3. i - 1 = j - 1
              BY <2>1, <4>2, <6>1, <6>2 DEF Chained
            <6>4. QED
              BY <6>3
          <5>3. QED
            BY <5>1, <5>2
        <4>3. QED
          BY <4>2
      <3>2. \A i \in 1 .. Len(members') : members'[i] \in Listed'
        BY <2>1, <2>2, <2>5 DEF Chained
      <3>3. ASSUME NEW m \in Listed' \ {Sentinel}
            PROVE  \E i \in 1 .. Len(members') : members'[i] = m
        <4>1. CASE m = n
          BY <1>1, <4>1
        <4>2. CASE m # n
          <5>1. PICK i \in 1 .. Len(members) : members[i] = m
            BY <2>1, <2>2, <4>2 DEF Chained
          <5>2. i + 1 \in 1 .. Len(members') /\ members'[i + 1] = m
            BY <1>1, <5>1
          <5>3. QED
            BY <5>2
        <4>3. QED
          BY <4>1, <4>2
      <3>4. head' = Place(members', 1)
        BY <2>3, <2>4
      <3>5. ASSUME NEW i \in 1 .. Len(members')
            PROVE  next'[members'[i]] = Place(members', i + 1)
        <4>1. CASE i = 1
          BY <1>1, <2>1, <2>3, <2>4, <4>1 DEF Chained
        <4>2. CASE i # 1
          <5>1. i - 1 \in 1 .. Len(members) /\ members'[i] = members[i - 1]
            BY <2>5, <4>2
          <5>2. next[members[i - 1]] = Place(members, (i - 1) + 1)
            BY <2>1, <5>1 DEF Chained
          <5>3. (i - 1) + 1 = i /\ i \in Nat \ {0}
            BY <1>1, <5>1
          <5>4. QED
            BY <2>3, <2>4, <5>1, <5>2, <5>3
        <4>3. QED
          BY <4>1, <4>2
      <3>6. QED
        BY <3>1, <3>2, <3>3, <3>4, <3>5 DEF Chained
    <2>7. ASSUME NEW p, NEW passed \in Seq(Items), NEW all \in Seq(Items),
                 OnWay(p, passed, all, members)
          PROVE  OnWay(p, passed, all, members')
      BY <1>1, <2>7, OnWayPushed DEF SeqInv, SequencesOK
    <2>8. Readers'
      <3>1. wpc' = "walk" => OnWay(at, visited, due, members)'
        <4>1. /\ UNCHANGED <<wpc, at, visited, due>>
              /\ visited \in Seq(Items) /\ due \in Seq(Items)
          BY DEF InsertHead, walkVars, SeqInv, SequencesOK
        <4>2. QED
          BY <2>1, <2>7, <4>1 DEF Readers
      <3>2. ~peeked' /\ looking' =>
              OnWay(eye, seen, shown, members)' \/ (eye' = Null /\ seen' = shown')
        <4>1. /\ UNCHANGED <<peeked, looking, eye, seen, shown>>
              /\ seen \in Seq(Items) /\ shown \in Seq(Items)
          BY DEF InsertHead, lookVars, SeqInv, SequencesOK
        <4>2. QED
          BY <2>1, <2>7, <4>1 DEF Readers
      <3>3. QED
        BY <3>1, <3>2 DEF Readers
    <2>9. QED
      BY <2>6, <2>8
  <1>4. QED
    BY <1>2, <1>3 DEF SeqInv

LEMMA StartSeq ==
  ASSUME ListInv, SeqInv, NEW c \in Clients, Start(c)
  PROVE  SeqInv'
  <1>1. SequencesOK'
    BY SequencesKept DEF Start, walkVars, lookVars, SeqInv
  <1>2. ASSUME ~overlap' PROVE Chained' /\ Readers'
    <2>1. ~overlap /\ Chained /\ Readers
      BY <1>2 DEF Start, SeqInv
    <2>2. Listed' = Listed
      BY DEF Start, Listed, ListInv, PointersOK, Items
    <2>3. Chained'
      BY <2>1, <2>2, ChainedKept DEF Start, linkVars, SeqInv
    <2>4. Readers'
      BY <2>1, ReadersKept DEF Start, lookVars
    <2>5. QED
      BY <2>3, <2>4
  <1>3. QED
    BY <1>1, <1>2 DEF SeqInv

LEMMA DeleteBeginSeq ==
  ASSUME ListInv, SeqInv, NEW c \in Clients, DeleteBegin(c)
  PROVE  SeqInv'
  <1>1. SequencesOK'
    BY SequencesKept DEF DeleteBegin, walkVars, lookVars, SeqInv
  <1>2. ASSUME ~overlap' PROVE Chained' /\ Readers'
    <2>1. ~overlap /\ Chained /\ Readers
      BY <1>2 DEF DeleteBegin, SeqInv
    <2>2. Listed' = Listed
      BY DEF DeleteBegin, Listed, ListInv, PointersOK, Items
    <2>3. Chained'
      BY <2>1, <2>2, ChainedKept DEF DeleteBegin, linkVars, SeqInv
    <2>4. Readers'
      BY <2>1, ReadersKept DEF DeleteBegin, lookVars
    <2>5. QED
      BY <2>3, <2>4
  <1>3. QED
    BY <1>1, <1>2 DEF SeqInv

\* The node leaves its place; every one behind it moves up by one.
LEMMA ChainedUnlinked ==
  ASSUME ListInv, Linked, SequencesOK, Chained, NEW c \in Clients,
         c \in Listed, c \notin Listed', Listed' = Listed \ {c},
         members' = RemoveFirst(members, c),
         \/ prev[c] = Null /\ head = c /\ head' = next[c] /\ next' = next
         \/ /\ prev[c] \in Listed \ {Sentinel} /\ next[prev[c]] = c
            /\ head' = head /\ head # c
            /\ next' = [next EXCEPT ![prev[c]] = next[c]]
  PROVE  members' \in Seq(Items) /\ Chained'
  <1>1. members \in Seq(Items) /\ Len(members) \in Nat /\ c # Sentinel
    BY NodesAssumption, LenProperties DEF SequencesOK
  <1>2. PICK k \in 1 .. Len(members) :
          members[k] = c /\ members' = RemoveAt(members, k)
    <2>1. \E i \in 1 .. Len(members) : members[i] = c
      BY <1>1 DEF Chained
    <2>2. \/ \A i \in 1 .. Len(members) : members[i] # c
          \/ \E i \in 1 .. Len(members) :
               members[i] = c /\ RemoveFirst(members, c) = RemoveAt(members, i)
      BY <1>1, RemoveFirstPlace
    <2>3. QED
      BY <2>1, <2>2
  <1>3. /\ members' \in Seq(Items) /\ Len(members') = Len(members) - 1
        /\ \A i \in 1 .. Len(members) - 1 :
             members'[i] = IF i < k THEN members[i] ELSE members[i + 1]
    BY <1>1, <1>2, RemoveAtPlace
  <1> DEFINE Was(i) == IF i < k THEN i ELSE i + 1
  <1>4. ASSUME NEW i \in 1 .. Len(members')
        PROVE  /\ Was(i) \in 1 .. Len(members) /\ Was(i) # k
               /\ members'[i] = members[Was(i)]
    BY <1>1, <1>3
  <1>5. \A i, j \in 1 .. Len(members') : Was(i) = Was(j) => i = j
    BY <1>1, <1>3
  <1>6. ASSUME NEW j \in 1 .. Len(members), j # k
        PROVE  \E i \in 1 .. Len(members') : Was(i) = j
    <2>1. CASE j < k
      <3>1. j \in 1 .. Len(members') /\ Was(j) = j
        BY <1>1, <1>3, <2>1
      <3>2. QED
        BY <3>1
    <2>2. CASE ~(j < k)
      <3>1. j - 1 \in 1 .. Len(members') /\ Was(j - 1) = j
        BY <1>1, <1>3, <1>6, <2>2
      <3>2. QED
        BY <3>1
    <2>3. QED
      BY <2>1, <2>2
  <1>7. next[c] = Place(members, k + 1)
    BY <1>2 DEF Chained
  <1>8. ASSUME NEW i \in Nat \ {0}
        PROVE  Place(members', i) = Place(members, Was(i))
    BY <1>1, <1>3, <1>8 DEF Place
  <1>9. \A i, j \in 1 .. Len(members') : members'[i] = members'[j] => i = j
    <2> HIDE DEF Was
    <2>1. ASSUME NEW i \in 1 .. Len(members'), NEW j \in 1 .. Len(members'),
                 members'[i] = members'[j]
          PROVE  i = j
      <3>1. /\ Was(i) \in 1 .. Len(members) /\ Was(j) \in 1 .. Len(members)
            /\ members[Was(i)] = members[Was(j)]
        BY <1>4, <2>1
      <3>2. Was(i) = Was(j)
        BY <3>1 DEF Chained
      <3>3. QED
        BY <1>5, <3>2
    <2>2. QED
      BY <2>1
  <1>10. \A i \in 1 .. Len(members') : members'[i] \in Listed'
    <2> HIDE DEF Was
    <2>1. ASSUME NEW i \in 1 .. Len(members')
          PROVE  members'[i] \in Listed /\ members'[i] # c
      <3>1. Was(i) \in 1 .. Len(members) /\ Was(i) # k
            /\ members'[i] = members[Was(i)]
        BY <1>4
      <3>2. QED
        BY <1>2, <3>1 DEF Chained
    <2>2. QED
      BY <2>1
  <1>11. ASSUME NEW m \in Listed' \ {Sentinel}
         PROVE  \E i \in 1 .. Len(members') : members'[i] = m
    <2> HIDE DEF Was
    <2>1. PICK j \in 1 .. Len(members) : members[j] = m
      BY DEF Chained
    <2>2. j # k
      BY <1>2, <2>1
    <2>3. PICK i \in 1 .. Len(members') : Was(i) = j
      BY <1>6, <2>2
    <2>4. QED
      BY <1>4, <2>1, <2>3
  <1>12. head = Place(members, 1) /\ (head = c <=> k = 1)
    <2>1. head = Place(members, 1)
      BY DEF Chained
    <2>2. 1 \in 1 .. Len(members)
      BY <1>1
    <2>3. QED
      BY <1>2, <2>1, <2>2 DEF Chained, Place
  <1>13. head' = Place(members', 1)
    <2>1. Place(members', 1) = Place(members, Was(1))
      BY <1>8
    <2>2. CASE head = c
      BY <1>7, <1>12, <2>1, <2>2
    <2>3. CASE head # c
      <3>1. k # 1 /\ Was(1) = 1
        BY <1>1, <1>12, <2>3
      <3>2. QED
        BY <1>12, <2>1, <2>3, <3>1
    <2>4. QED
      BY <2>2, <2>3
  <1>14. ASSUME NEW i \in 1 .. Len(members')
         PROVE  next'[members'[i]] = Place(members', i + 1)
    <2>1. /\ Was(i) \in 1 .. Len(members) /\ Was(i) # k
          /\ members'[i] = members[Was(i)] /\ i + 1 \in Nat \ {0}
      BY <1>1, <1>3, <1>4
    <2>2. next[members[Was(i)]] = Place(members, Was(i) + 1)
      BY <2>1 DEF Chained
    <2>3. Place(members', i + 1) = Place(members, Was(i + 1))
      BY <1>8, <2>1
    <2>4. CASE Was(i) + 1 = k
      <3>1. Was(i + 1) = k + 1
        BY <1>1, <1>3, <2>4
      <3>2. next[members'[i]] = c
        BY <1>2, <2>1, <2>2, <2>4 DEF Place
      <3>3. k # 1
        BY <1>1, <2>1, <2>4
      <3>4. /\ prev[c] \in Listed \ {Sentinel} /\ next[prev[c]] = c
            /\ next' = [next EXCEPT ![prev[c]] = next[c]]
        BY <1>12, <3>3
      <3>5. prev[c] = members'[i]
        <4>1. PICK j \in 1 .. Len(members) : members[j] = prev[c]
          BY <3>4 DEF Chained
        <4>2. Place(members, j + 1) = c
          BY <3>4, <4>1 DEF Chained
        <4>3. j + 1 = k
          BY <1>1, <1>2, <4>2 DEF Chained, Place
        <4>4. j = Was(i)
          BY <1>1, <2>1, <2>4, <4>1, <4>3
        <4>5. QED
          BY <2>1, <4>1, <4>4
      <3>6. prev[c] \in Nodes /\ next \in [Nodes -> Pointer]
        BY <3>4, ListedGood DEF ListInv, Linked, PointersOK
      <3>7. next'[members'[i]] = next[c]
        BY <3>4, <3>5, <3>6
      <3>8. QED
        BY <1>7, <2>3, <3>1, <3>7
    <2>5. CASE Was(i) + 1 # k
      <3>1. Was(i + 1) = Was(i) + 1
        BY <1>1, <1>3, <2>1, <2>5
      <3>2. next[members'[i]] # c
        <4> HIDE DEF Was
        <4>1. Was(i) + 1 \in Nat
          BY <1>1, <2>1
        <4>2. QED
          BY <1>1, <1>2, <2>1, <2>2, <2>5, <4>1 DEF Chained, Place
      <3>3. next'[members'[i]] = next[members'[i]]
        <4>1. members'[i] \in Nodes /\ next \in [Nodes -> Pointer]
          <5>1. members'[i] \in Listed
            BY <1>10
          <5>2. QED
            BY <5>1, ListedGood DEF ListInv, Linked, PointersOK
        <4>2. QED
          BY <3>2, <4>1
      <3>4. QED
        BY <2>1, <2>2, <2>3, <3>1, <3>3
    <2>6. QED
      BY <2>4, <2>5
  <1>15. QED
    BY <1>3, <1>9, <1>10, <1>11, <1>13, <1>14 DEF Chained

LEMMA DeleteFirstSeq ==
  ASSUME ListInv, SeqInv, NEW c \in Clients, DeleteFirst(c)
  PROVE  SeqInv'
  <1>1. dpc[c] = "first" /\ c \in Deleting
    BY DEF DeleteFirst, Deleting
  <1>2. members \in Seq(Items) /\ members' = RemoveFirst(members, owns[c])
    BY DEF SeqInv, SequencesOK, DeleteFirst
  <1>3. SequencesOK'
    <2>1. members' \in Seq(Items)
      <3>1. CASE members' = members
        BY <1>2, <3>1
      <3>2. CASE \E k \in 1 .. Len(members) : members' = RemoveAt(members, k)
        BY <1>2, <3>2, RemoveAtPlace
      <3>3. QED
        BY <1>2, <3>1, <3>2, RemoveFirstPlace
    <2>2. QED
      BY <2>1 DEF DeleteFirst, walkVars, lookVars, SeqInv, SequencesOK
  <1>4. ASSUME ~overlap' PROVE Chained' /\ Readers'
    <2>1. Chained /\ Readers /\ Linked /\ Following
      BY <1>4 DEF DeleteFirst, SeqInv, ListInv
    <2>2. Deleting = {c} /\ Inserting = {} /\ wpc = "idle"
      BY <1>1, <2>1, DeletesAlone DEF ListInv
    <2>3. ipc[c] = "done" /\ owns[c] = c /\ c \in Listed /\ c # Sentinel
      BY <1>1, <2>1, NodesAssumption DEF Linked, Owned, Listed, Items
    <2>4. \A n \in Listed : n \in Nodes /\ ~Bad(n)
      BY <2>1, ListedGood DEF ListInv, Linked
    <2>5. /\ dpc'[c] \in {"second", "front"}
          /\ \A d \in Clients \ {c} : dpc'[d] = dpc[d]
      BY DEF DeleteFirst, ListInv, PointersOK
    <2>6. Listed' = Listed \ {c}
      BY <2>3, <2>5 DEF DeleteFirst, Listed
    <2>7. \/ prev[c] = Null /\ head = c
          \/ prev[c] \in Listed \ {Sentinel} /\ next[prev[c]] = c
      <3>1. Leaving = {} /\ \A m \in Items : ipc[m] # "head"
        BY <1>1, <2>2 DEF Leaving, Deleting, Inserting
      <3>2. QED
        BY <2>1, <2>3, <3>1 DEF Linked, Back
    <2>8. \/ prev[c] = Null /\ head = c /\ head' = next[c] /\ next' = next
          \/ /\ prev[c] \in Listed \ {Sentinel} /\ next[prev[c]] = c
             /\ head' = head /\ head # c
             /\ next' = [next EXCEPT ![prev[c]] = next[c]]
      <3>1. CASE prev[c] = Null
        BY <2>3, <2>4, <2>7, <3>1 DEF DeleteFirst, Bad
      <3>2. CASE prev[c] # Null
        <4>1. head # c
          <5>1. \A d \in Clients : dpc[d] # "front"
            BY <1>1, <2>2 DEF Deleting
          <5>2. QED
            BY <2>1, <2>2, <3>2, <5>1 DEF Linked, Forth, Inserting
        <4>2. QED
          BY <2>3, <2>4, <2>7, <3>2, <4>1 DEF DeleteFirst
      <3>3. QED
        BY <3>1, <3>2
    <2>9. Chained'
      <3>1. c \notin Listed' /\ members' = RemoveFirst(members, c)
        BY <1>2, <2>3, <2>6
      <3>2. QED
        BY <2>1, <2>3, <2>6, <2>8, <3>1, ChainedUnlinked DEF SeqInv
    <2>10. Readers'
      BY <1>1, <2>1, <2>2 DEF DeleteFirst, walkVars, lookVars, Following, Readers
    <2>11. QED
      BY <2>9, <2>10
  <1>5. QED
    BY <1>3, <1>4 DEF SeqInv

LEMMA DeleteSecondSeq ==
  ASSUME ListInv, SeqInv, NEW c \in Clients, DeleteSecond(c)
  PROVE  SeqInv'
  <1>1. SequencesOK'
    BY SequencesKept DEF DeleteSecond, walkVars, lookVars, SeqInv
  <1>2. ASSUME ~overlap' PROVE Chained' /\ Readers'
    <2>1. ~overlap /\ Chained /\ Readers
      BY <1>2 DEF DeleteSecond, SeqInv
    <2>2. Listed' = Listed
      BY DEF DeleteSecond, Listed, ListInv, PointersOK, Items
    <2>3. Chained'
      BY <2>1, <2>2, ChainedKept DEF DeleteSecond, SeqInv
    <2>4. Readers'
      BY <2>1, ReadersKept DEF DeleteSecond, lookVars
    <2>5. QED
      BY <2>3, <2>4
  <1>3. QED
    BY <1>1, <1>2 DEF SeqInv

LEMMA DeleteFreeSeq ==
  ASSUME ListInv, SeqInv, NEW c \in Clients, DeleteFree(c)
  PROVE  SeqInv'
  <1>1. SequencesOK'
    BY SequencesKept DEF DeleteFree, walkVars, lookVars, SeqInv
  <1>2. ASSUME ~overlap' PROVE Chained' /\ Readers'
    <2>1. ~overlap /\ Chained /\ Readers
      BY <1>2 DEF DeleteFree, SeqInv
    <2>2. Listed' = Listed
      BY DEF DeleteFree, Listed, ListInv, PointersOK, Items
    <2>3. Chained'
      BY <2>1, <2>2, ChainedKept DEF DeleteFree, SeqInv
    <2>4. Readers'
      BY <2>1, ReadersKept DEF DeleteFree, lookVars
    <2>5. QED
      BY <2>3, <2>4
  <1>3. QED
    BY <1>1, <1>2 DEF SeqInv

\* A reader on its way gets to the next of what it has come for.
LEMMA OnWayStep ==
  ASSUME SequencesOK, Chained, NEW p \in Items,
         NEW passed \in Seq(Items), NEW all \in Seq(Items),
         OnWay(p, passed, all, members)
  PROVE  /\ Append(passed, p) \in Seq(Items)
         /\ OnWay(next[p], Append(passed, p), all, members)
  <1> DEFINE k == Len(members) - Len(all) + Len(passed) + 1
  <1> DEFINE more == Append(passed, p)
  <1>1. /\ Len(passed) \in Nat /\ Len(all) \in Nat /\ Len(members) \in Nat
        /\ members \in Seq(Items)
    BY LenProperties DEF SequencesOK
  <1>2. /\ Len(passed) <= Len(all) /\ Len(all) <= Len(members)
        /\ \A i \in 1 .. Len(passed) : passed[i] = all[i]
        /\ \A i \in 1 .. Len(all) : all[i] = members[Len(members) - Len(all) + i]
        /\ p = Place(members, k)
    BY DEF OnWay
  <1>3. k \in 1 .. Len(members) /\ p = members[k]
    BY <1>2, NodesAssumption DEF Place, Items
  <1>4. /\ more \in Seq(Items) /\ Len(more) = Len(passed) + 1
        /\ \A i \in 1 .. Len(passed) : more[i] = passed[i]
        /\ more[Len(passed) + 1] = p
    BY AppendProperties
  <1> HIDE DEF more
  <1>5. Len(passed) + 1 <= Len(all)
    BY <1>1, <1>2, <1>3
  <1>6. all[Len(passed) + 1] = p
    <2>1. /\ Len(passed) + 1 \in 1 .. Len(all)
          /\ Len(members) - Len(all) + (Len(passed) + 1) = k
      BY <1>1, <1>5
    <2> HIDE DEF k
    <2>2. QED
      BY <1>2, <1>3, <2>1
  <1>7. next[p] = Place(members, Len(members) - Len(all) + Len(more) + 1)
    <2>1. next[p] = Place(members, k + 1)
      BY <1>3 DEF Chained
    <2>2. Len(members) - Len(all) + Len(more) + 1 = k + 1
      BY <1>1, <1>4
    <2> HIDE DEF k
    <2>3. QED
      BY <2>1, <2>2
  <1>8. \A i \in 1 .. Len(more) : more[i] = all[i]
    <2>1. \A i \in 1 .. Len(more) : i \in 1 .. Len(passed) \/ i = Len(passed) + 1
      BY <1>1, <1>4
    <2>2. QED
      BY <1>2, <1>4, <1>6, <2>1
  <1>9. OnWay(next[p], more, all, members)
    <2> HIDE DEF k
    <2>1. QED
      BY <1>2, <1>4, <1>5, <1>7, <1>8 DEF OnWay
  <1>10. QED
    BY <1>4, <1>9 DEF more

\* A reader that is at the sentinel has passed everything.
LEMMA OnWayEnd ==
  ASSUME SequencesOK, NEW passed \in Seq(Items), NEW all \in Seq(Items),
         OnWay(Sentinel, passed, all, members)
  PROVE  passed = all
  <1> DEFINE k == Len(members) - Len(all) + Len(passed) + 1
  <1>1. /\ Len(passed) \in Nat /\ Len(all) \in Nat /\ Len(members) \in Nat
        /\ \A i \in 1 .. Len(members) : members[i] \in Items
    BY LenProperties, ElementOfSeq DEF SequencesOK
  <1>2. /\ Len(passed) <= Len(all) /\ Len(all) <= Len(members)
        /\ \A i \in 1 .. Len(passed) : passed[i] = all[i]
        /\ Sentinel = Place(members, k)
    BY DEF OnWay
  <1>3. k \notin 1 .. Len(members)
    BY <1>1, <1>2, NodesAssumption DEF Place, Items
  <1>4. Len(passed) = Len(all)
    BY <1>1, <1>2, <1>3
  <1>5. QED
    BY <1>2, <1>4, SeqEqual

\* A reader that begins at node_head has come for the whole list.
LEMMA OnWayBegin ==
  ASSUME SequencesOK, Chained
  PROVE  OnWay(head, <<>>, members, members)
  <1>1. Len(members) \in Nat /\ Len(<<>>) = 0
    BY LenProperties DEF SequencesOK
  <1>2. head = Place(members, 1)
    BY DEF Chained
  <1>3. Len(members) - Len(members) + Len(<<>>) + 1 = 1
        /\ \A i \in 1 .. Len(members) : Len(members) - Len(members) + i = i
    BY <1>1
  <1>4. QED
    BY <1>1, <1>2, <1>3 DEF OnWay

LEMMA WalkSeq ==
  ASSUME ListInv, SeqInv, WalkBegin \/ WalkStep \/ WalkEnd
  PROVE  SeqInv'
  <1>1. /\ UNCHANGED <<linkVars, ipc, dpc, members, looking, eye, seen, shown>>
        /\ looks' = looks /\ overlap' = overlap /\ peeked' = peeked
    BY DEF WalkBegin, WalkStep, WalkEnd, lookVars
  <1>2. SequencesOK /\ SequencesOK' /\ (~overlap => Chained /\ Chained')
    <2>1. SequencesOK /\ (~overlap => Chained)
      BY DEF SeqInv
    <2>2. Listed' = Listed
      BY <1>1 DEF Listed
    <2>3. ~overlap => Chained'
      BY <1>1, <2>1, <2>2, ChainedKept DEF linkVars
    <2>4. visited' \in Seq(Items) /\ due' \in Seq(Items)
      <3>1. CASE WalkStep
        <4>1. at \in Items
          BY <3>1 DEF WalkStep, Bad, ListInv, PointersOK, Pointer, Nodes
        <4>2. Append(visited, at) \in Seq(Items)
          BY <2>1, <4>1, AppendProperties DEF SequencesOK
        <4>3. QED
          BY <2>1, <3>1, <4>2 DEF WalkStep, SequencesOK
      <3>2. CASE WalkBegin \/ WalkEnd
        BY <2>1, <3>2, EmptySeq DEF WalkBegin, WalkEnd, SequencesOK
      <3>3. QED
        BY <3>1, <3>2
    <2>5. walks' \in 0 .. MaxWalks
      BY <2>1, WalksAssumption DEF WalkBegin, WalkStep, WalkEnd, SequencesOK
    <2>6. QED
      BY <1>1, <2>1, <2>3, <2>4, <2>5 DEF SequencesOK
  <1>3. ASSUME ~overlap PROVE Readers'
    <2>1. Readers /\ Chained
      BY <1>3 DEF SeqInv
    <2>2. wpc' = "walk" => OnWay(at', visited', due', members)
      <3>1. CASE WalkBegin
        BY <1>2, <2>1, <3>1, OnWayBegin DEF WalkBegin
      <3>2. CASE WalkStep
        <4>1. at \in Items
          BY <3>2 DEF WalkStep, Bad, ListInv, PointersOK, Pointer, Nodes
        <4>2. OnWay(at, visited, due, members)
          BY <2>1, <3>2 DEF WalkStep, Readers
        <4>3. OnWay(next[at], Append(visited, at), due, members)
          BY <1>2, <2>1, <4>1, <4>2, OnWayStep DEF SequencesOK
        <4>4. QED
          BY <3>2, <4>3 DEF WalkStep
      <3>3. CASE WalkEnd
        BY <3>3 DEF WalkEnd
      <3>4. QED
        BY <3>1, <3>2, <3>3
    <2>3. QED
      BY <1>1, <2>1, <2>2 DEF Readers
  <1>4. QED
    BY <1>1, <1>2, <1>3 DEF SeqInv

LEMMA LookSeq ==
  ASSUME ListInv, SeqInv, LookBegin \/ LookStep \/ LookEnd
  PROVE  SeqInv'
  <1>1. /\ UNCHANGED <<linkVars, ipc, dpc, members, wpc, at, visited, due>>
        /\ walks' = walks /\ overlap' = overlap /\ (~peeked' => ~peeked)
    <2>1. CASE LookBegin
      BY <2>1 DEF LookBegin, walkVars
    <2>2. CASE LookStep
      BY <2>2 DEF LookStep, walkVars
    <2>3. CASE LookEnd
      BY <2>3 DEF LookEnd, walkVars
    <2>4. QED
      BY <2>1, <2>2, <2>3
  <1>2. SequencesOK /\ SequencesOK' /\ (~overlap => Chained /\ Chained')
    <2>1. SequencesOK /\ (~overlap => Chained)
      BY DEF SeqInv
    <2>2. Listed' = Listed
      BY <1>1 DEF Listed
    <2>3. ~overlap => Chained'
      BY <1>1, <2>1, <2>2, ChainedKept DEF linkVars
    <2>4. seen' \in Seq(Items) /\ shown' \in Seq(Items)
      <3>1. CASE LookStep
        <4>1. eye = Sentinel \/ eye \in Items
          BY <3>1 DEF LookStep, Bad, ListInv, PointersOK, Pointer, Nodes
        <4>2. eye \in Items => Append(seen, eye) \in Seq(Items)
          BY <2>1, AppendProperties DEF SequencesOK
        <4>3. QED
          BY <2>1, <3>1, <4>1, <4>2 DEF LookStep, SequencesOK
      <3>2. CASE LookBegin \/ LookEnd
        BY <2>1, <3>2, EmptySeq DEF LookBegin, LookEnd, SequencesOK
      <3>3. QED
        BY <3>1, <3>2
    <2>5. looks' \in 0 .. MaxLooks
      BY <2>1, WalksAssumption DEF LookBegin, LookStep, LookEnd, SequencesOK
    <2>6. QED
      BY <1>1, <2>1, <2>3, <2>4, <2>5 DEF SequencesOK
  <1>3. ASSUME ~overlap PROVE Readers'
    <2>1. Readers /\ Chained /\ Linked
      BY <1>3 DEF SeqInv, ListInv
    <2>2. ASSUME ~peeked', looking'
          PROVE  OnWay(eye', seen', shown', members)
                   \/ (eye' = Null /\ seen' = shown')
      <3>1. CASE LookBegin
        BY <1>2, <2>1, <3>1, OnWayBegin DEF LookBegin
      <3>2. CASE LookStep
        <4>1. /\ eye # Null /\ eye \in Items \cup {Sentinel}
              /\ OnWay(eye, seen, shown, members)
          BY <1>1, <2>1, <2>2, <3>2
          DEF LookStep, Readers, Bad, ListInv, PointersOK, Pointer, Nodes
        <4>2. CASE eye = Sentinel
          <5>1. next[Sentinel] = Null
            BY <2>1 DEF Linked, Forth
          <5>2. seen = shown
            BY <1>2, <4>1, <4>2, OnWayEnd DEF SequencesOK
          <5>3. QED
            BY <3>2, <4>2, <5>1, <5>2 DEF LookStep
        <4>3. CASE eye # Sentinel
          <5>1. OnWay(next[eye], Append(seen, eye), shown, members)
            BY <1>2, <2>1, <4>1, <4>3, OnWayStep DEF SequencesOK
          <5>2. QED
            BY <3>2, <4>3, <5>1 DEF LookStep
        <4>4. QED
          BY <4>2, <4>3
      <3>3. CASE LookEnd
        BY <2>2, <3>3 DEF LookEnd
      <3>4. QED
        BY <3>1, <3>2, <3>3
    <2>3. QED
      BY <1>1, <2>1, <2>2 DEF Readers
  <1>4. QED
    BY <1>1, <1>2, <1>3 DEF SeqInv

LEMMA NextSeq == ListInv /\ SeqInv /\ [Next]_vars => SeqInv'
  <1> SUFFICES ASSUME ListInv, SeqInv, [Next]_vars PROVE SeqInv'
    OBVIOUS
  <1>1. CASE \E n \in Items : Insert(n)
    BY <1>1, InsertBeginSeq, InsertBackSeq, InsertHeadSeq DEF Insert
  <1>2. CASE \E c \in Clients : Start(c) \/ ClientThread(c)
    BY <1>2, StartSeq, DeleteBeginSeq, DeleteFirstSeq, DeleteSecondSeq,
       DeleteFreeSeq
    DEF ClientThread
  <1>3. CASE WalkBegin \/ WalkStep \/ WalkEnd
    BY <1>3, WalkSeq
  <1>4. CASE LookBegin \/ LookStep \/ LookEnd
    BY <1>4, LookSeq
  <1>5. CASE UNCHANGED vars
    <2>1. /\ UNCHANGED <<linkVars, ipc, dpc, members, walkVars>>
          /\ UNCHANGED <<looking, eye, seen, shown, looks, overlap, peeked>>
      BY <1>5 DEF vars, lookVars
    <2>2. SequencesOK'
      BY <2>1, SequencesKept DEF walkVars, SeqInv
    <2>3. Listed' = Listed
      BY <2>1 DEF Listed
    <2>4. ~overlap' => Chained' /\ Readers'
      BY <2>1, <2>3, ChainedKept, ReadersKept DEF linkVars, SeqInv
    <2>5. QED
      BY <2>2, <2>4 DEF SeqInv
  <1>6. QED
    BY <1>1, <1>2, <1>3, <1>4, <1>5 DEF Next

\* Once no insertion or deletion is under way the two chains of pointers spell
\* the inserted and not deleted nodes, newest first, and back, for any number
\* of nodes (list.c:14-46).
THEOREM ListIsExact == Spec => []ListExact
  <1>1. ASSUME ListInv, SeqInv PROVE ListExact
    <2>1. TypeOK
      BY <1>1 DEF ListInv, PointersOK, SeqInv, SequencesOK, TypeOK
    <2>2. ASSUME ~overlap, Inserting = {}, Deleting = {},
                 NEW chain, chain = Append(members, Sentinel)
          PROVE  /\ head = chain[1] /\ prev[head] = Null
                 /\ \A i \in 2 .. Len(chain) :
                      /\ next[chain[i - 1]] = chain[i]
                      /\ prev[chain[i]] = chain[i - 1]
                 /\ next[Sentinel] = Null
      <3>1. Chained /\ Linked /\ members \in Seq(Items)
        BY <1>1, <2>2 DEF ListInv, SeqInv, SequencesOK
      <3>2. Leaving = {} /\ \A m \in Items : ipc[m] # "head"
        BY <2>2 DEF Leaving, Deleting, Inserting
      <3>3. /\ Len(members) \in Nat /\ Len(chain) = Len(members) + 1
            /\ \A i \in 1 .. Len(members) + 1 : chain[i] = Place(members, i)
        <4>1. /\ Len(members) \in Nat /\ Len(chain) = Len(members) + 1
              /\ \A i \in 1 .. Len(members) : chain[i] = members[i]
              /\ chain[Len(members) + 1] = Sentinel
          <5>1. members \in Seq(Nodes) /\ Sentinel \in Nodes
            BY <3>1, SeqMonotonic DEF Nodes
          <5>2. QED
            BY <2>2, <5>1, AppendProperties, LenProperties
        <4>2. QED
          BY <4>1 DEF Place
      <3>4. head = chain[1]
        BY <3>1, <3>3 DEF Chained
      <3>5. prev[head] = Null /\ next[Sentinel] = Null
        <4>1. \A d \in Clients : dpc[d] # "front"
          BY <3>2 DEF Leaving
        <4>2. QED
          BY <3>1, <3>2, <4>1 DEF Linked, Forth
      <3>6. ASSUME NEW i \in 2 .. Len(chain)
            PROVE  next[chain[i - 1]] = chain[i] /\ prev[chain[i]] = chain[i - 1]
        <4>1. i - 1 \in 1 .. Len(members) /\ (i - 1) + 1 = i
              /\ i \in 1 .. Len(members) + 1
          BY <3>3
        <4>2. chain[i - 1] = members[i - 1]
          BY <3>3, <4>1 DEF Place
        <4>3. next[chain[i - 1]] = chain[i]
          <5>1. next[members[i - 1]] = Place(members, (i - 1) + 1)
            BY <3>1, <4>1 DEF Chained
          <5>2. QED
            BY <3>3, <4>1, <4>2, <5>1
        <4>4. members[i - 1] \in Listed \ {Sentinel}
          <5>1. members[i - 1] \in Items /\ members[i - 1] \in Listed
            BY <3>1, <4>1, ElementOfSeq DEF Chained
          <5>2. QED
            BY <5>1, NodesAssumption DEF Items
        <4>5. prev[next[members[i - 1]]] = members[i - 1]
          BY <3>1, <3>2, <4>4 DEF Linked, Forth
        <4>6. QED
          BY <4>2, <4>3, <4>5
      <3>7. QED
        BY <3>4, <3>5, <3>6
    <2>3. QED
      BY <2>1, <2>2 DEF ListExact
  <1>2. QED
    BY <1>1, InitInv, NextInv, SeqInit, NextSeq, PTL DEF Spec

\* What a reader on its way has passed is a beginning of what it has come for.
LEMMA OnWayPrefix ==
  ASSUME NEW p, NEW passed \in Seq(Items), NEW all \in Seq(Items),
         OnWay(p, passed, all, members)
  PROVE  IsPrefix(passed, all)
  <1>1. /\ Len(passed) \in Nat /\ Len(all) \in Nat
        /\ Len(passed) <= Len(all)
        /\ \A i \in 1 .. Len(passed) : passed[i] = all[i]
    BY LenProperties DEF OnWay
  <1> DEFINE part == SubSeq(all, 1, Len(passed))
  <1>2. /\ part \in Seq(Items) /\ Len(part) = Len(passed)
        /\ \A i \in 1 .. Len(passed) : part[i] = all[i]
    <2>1. \A i \in 1 .. Len(passed) : all[i] \in Items
      BY <1>1, ElementOfSeq
    <2>2. /\ part \in Seq(Items)
          /\ Len(part) = IF 1 <= Len(passed) THEN Len(passed) - 1 + 1 ELSE 0
          /\ \A i \in 1 .. Len(passed) - 1 + 1 : part[i] = all[1 + i - 1]
      BY <1>1, <2>1, SubSeqProperties
    <2> HIDE DEF part
    <2>3. QED
      BY <1>1, <2>2
  <1> HIDE DEF part
  <1>3. passed = part
    BY <1>1, <1>2, SeqEqual
  <1>4. QED
    BY <1>1, <1>3 DEF IsPrefix, part

\* A walk of the dispatcher and a display of the console pass every node that
\* was in the list when they began, once and in its order, insertions
\* notwithstanding (lora.c:101-111, list.c:95-109).
THEOREM WalksAreExact == Spec => []WalkExact
  <1>1. ASSUME ListInv, SeqInv PROVE WalkExact
    <2>1. SequencesOK
      BY <1>1 DEF SeqInv
    <2>2. ASSUME ~overlap, wpc = "walk"
          PROVE  IsPrefix(visited, due) /\ (at = Sentinel => visited = due)
      <3>1. OnWay(at, visited, due, members)
        BY <1>1, <2>2 DEF SeqInv, Readers
      <3>2. QED
        BY <2>1, <3>1, OnWayPrefix, OnWayEnd DEF SequencesOK
    <2>3. ASSUME ~overlap, ~peeked, looking
          PROVE  IsPrefix(seen, shown) /\ (eye = Null => seen = shown)
      <3>1. CASE OnWay(eye, seen, shown, members)
        <4>1. eye # Null
          <5>1. \A i \in 1 .. Len(members) : members[i] \in Items
            BY <2>1, ElementOfSeq DEF SequencesOK
          <5>2. QED
            BY <3>1, <5>1, NodesAssumption DEF OnWay, Place, Items
        <4>2. QED
          BY <2>1, <3>1, <4>1, OnWayPrefix DEF SequencesOK
      <3>2. CASE eye = Null /\ seen = shown
        <4>1. /\ shown \in Seq(Items) /\ Len(shown) \in Nat
              /\ \A i \in 1 .. Len(shown) : shown[i] \in Items
          BY <2>1, ElementOfSeq, LenProperties DEF SequencesOK
        <4>2. SubSeq(shown, 1, Len(shown)) = shown
          BY <4>1, SubSeqFull
        <4>3. QED
          BY <3>2, <4>1, <4>2 DEF IsPrefix
      <3>3. QED
        BY <1>1, <2>3, <3>1, <3>2 DEF SeqInv, Readers
    <2>4. QED
      BY <2>2, <2>3 DEF WalkExact
  <1>2. QED
    BY <1>1, InitInv, NextInv, SeqInit, NextSeq, PTL DEF Spec
=============================================================================
