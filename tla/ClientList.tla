----------------------------- MODULE ClientList -----------------------------
(***************************************************************************)
(* The list of mailboxes, pointer by pointer: node_insert, node_delete and *)
(* the walk over it (user/list.c), as thread_tcp, the gateway's own tasks, *)
(* the client threads (user/tcp.c) and thread_lora_recv (user/lora.c) use  *)
(* them.                                                                   *)
(*                                                                         *)
(* lora_lock is held by a client that deletes its node and by the          *)
(* dispatcher that walks, never by a thread that inserts nor by the        *)
(* console, which walks the list to display it (user/ctrl.c).  A new       *)
(* client thread is told its node by reading node_head again after the     *)
(* insertion.  Each read or write of a shared pointer is a step.           *)
(***************************************************************************)
EXTENDS Naturals, Sequences, SequencesExt

CONSTANTS
  Clients,              \* nodes that thread_tcp inserts, and their threads
  Tasks,                \* nodes that the gateway's own tasks insert
  Sentinel,             \* the node made by node_create: its data is NULL
  Null,                 \* the null pointer
  Nobody,               \* nobody holds lora_lock
  Walker,               \* thread_lora_recv
  MaxWalks,             \* bound: walks of thread_lora_recv
  MaxLooks              \* bound: walks of thread_user

ASSUME NodesAssumption ==
  /\ Clients \cap Tasks = {}
  /\ Sentinel \notin Clients \cup Tasks /\ Null \notin Clients \cup Tasks
  /\ Sentinel # Null
ASSUME LockAssumption == {Nobody, Walker} \cap Clients = {} /\ Nobody # Walker
ASSUME WalksAssumption == MaxWalks \in Nat /\ MaxLooks \in Nat

Items == Clients \cup Tasks
Nodes == Items \cup {Sentinel}
Pointer == Nodes \cup {Null}

VARIABLES
  head,                 \* *node_head_p
  next, prev,           \* the links of every node
  freed,                \* nodes given back to malloc
  ipc,                  \* how far the insertion of each node is
  owns,                 \* the node each client thread was given
  dpc,                  \* how far the deletion by each client thread is
  lock,                 \* holder of lora_lock
  wpc, at, visited,     \* the walk: where it is and what it has seen
  due,                  \* history: what a walk ought to see
  walks,                \* walks so far
  looking, eye, seen,   \* the display: where it is and what it has printed
  shown,                \* history: what it ought to print
  looks,                \* displays so far
  members,              \* history: the list as a sequence
  overlap,              \* history: an insertion met another operation
  peeked,               \* history: a display met a deletion
  wild                  \* history: freed memory was read or written

linkVars == <<head, next, prev, freed>>
walkVars == <<wpc, at, visited, due, walks>>
lookVars == <<looking, eye, seen, shown, looks>>
vars == <<linkVars, ipc, owns, dpc, lock, walkVars, lookVars, members, overlap,
          peeked, wild>>

TypeOK ==
  /\ head \in Pointer
  /\ next \in [Nodes -> Pointer] /\ prev \in [Nodes -> Pointer]
  /\ freed \subseteq Items
  /\ ipc \in [Items -> {"none", "back", "head", "start", "done"}]
  /\ owns \in [Clients -> Pointer]
  /\ dpc \in [Clients -> {"none", "first", "second", "front", "free", "done"}]
  /\ lock \in Clients \cup {Nobody, Walker}
  /\ wpc \in {"idle", "walk"}
  /\ at \in Pointer
  /\ visited \in Seq(Items)
  /\ due \in Seq(Items)
  /\ walks \in 0 .. MaxWalks
  /\ members \in Seq(Items)
  /\ looking \in BOOLEAN /\ eye \in Pointer
  /\ seen \in Seq(Items) /\ shown \in Seq(Items)
  /\ looks \in 0 .. MaxLooks
  /\ overlap \in BOOLEAN /\ peeked \in BOOLEAN /\ wild \in BOOLEAN

Init ==
  /\ head = Sentinel
  /\ next = [n \in Nodes |-> Null] /\ prev = [n \in Nodes |-> Null]
  /\ freed = {}
  /\ ipc = [n \in Items |-> "none"]
  /\ owns = [c \in Clients |-> Null]
  /\ dpc = [c \in Clients |-> "none"]
  /\ lock = Nobody
  /\ wpc = "idle" /\ at = Null /\ visited = <<>> /\ due = <<>> /\ walks = 0
  /\ looking = FALSE /\ eye = Null /\ seen = <<>> /\ shown = <<>> /\ looks = 0
  /\ members = <<>>
  /\ overlap = FALSE /\ peeked = FALSE /\ wild = FALSE

Inserting == {n \in Items : ipc[n] \in {"back", "head", "start"}}
Deleting == {c \in Clients : dpc[c] \notin {"none", "done"}}

\* A pointer that must not be followed.
Bad(p) == p = Null \/ p \in freed

-----------------------------------------------------------------------------
(* node_insert(node_head_p, data), without a lock                          *)

\* malloc, p->next = *head, p->prev = NULL.  thread_tcp makes one node at a
\* time and gets its thread going before the next.
InsertBegin(n) ==
  /\ ipc[n] = "none"
  /\ n \in Clients => Inserting \cap Clients = {}
  /\ next' = [next EXCEPT ![n] = head]
  /\ prev' = [prev EXCEPT ![n] = Null]
  /\ ipc' = [ipc EXCEPT ![n] = "back"]
  /\ overlap' = (overlap \/ Inserting # {} \/ Deleting # {})
  /\ UNCHANGED <<head, freed, owns, dpc, lock, walkVars, lookVars, members,
                 peeked, wild>>

\* (*head)->prev = p
InsertBack(n) ==
  /\ ipc[n] = "back"
  /\ IF head = Null THEN UNCHANGED prev ELSE prev' = [prev EXCEPT ![head] = n]
  /\ wild' = (wild \/ Bad(head))
  /\ ipc' = [ipc EXCEPT ![n] = "head"]
  /\ UNCHANGED <<head, next, freed, owns, dpc, lock, walkVars, lookVars,
                 members, overlap, peeked>>

\* *head = p
InsertHead(n) ==
  /\ ipc[n] = "head"
  /\ head' = n
  /\ members' = <<n>> \o members
  /\ ipc' = [ipc EXCEPT ![n] = IF n \in Clients THEN "start" ELSE "done"]
  /\ UNCHANGED <<next, prev, freed, owns, dpc, lock, walkVars, lookVars,
                 overlap, peeked, wild>>

\* pthread_create(..., thread_client, node_head)
Start(c) ==
  /\ c \in Clients /\ ipc[c] = "start"
  /\ owns' = [owns EXCEPT ![c] = head]
  /\ ipc' = [ipc EXCEPT ![c] = "done"]
  /\ UNCHANGED <<linkVars, dpc, lock, walkVars, lookVars, members, overlap,
                 peeked, wild>>

-----------------------------------------------------------------------------
(* The end of thread_client: node_delete under lora_lock                   *)

\* Mutant: a client that deletes its node without lora_lock.
DeleteUnlocked(c) ==
  /\ ipc[c] = "done" /\ dpc[c] = "none"
  /\ dpc' = [dpc EXCEPT ![c] = "first"]
  /\ overlap' = (overlap \/ Inserting # {})
  /\ peeked' = (peeked \/ looking)
  /\ UNCHANGED <<linkVars, ipc, owns, lock, walkVars, lookVars, members, wild>>

\* pthread_mutex_lock(&lora_lock); node_delete(node_head_p, node)
DeleteBegin(c) ==
  /\ ipc[c] = "done" /\ dpc[c] = "none"
  /\ lock = Nobody
  /\ lock' = c
  /\ dpc' = [dpc EXCEPT ![c] = "first"]
  /\ overlap' = (overlap \/ Inserting # {})
  /\ peeked' = (peeked \/ looking)
  /\ UNCHANGED <<linkVars, ipc, owns, walkVars, lookVars, members, wild>>

\* p->prev->next = p->next, or *head = p->next
DeleteFirst(c) ==
  /\ dpc[c] = "first"
  /\ LET p == owns[c]
     IN  IF Bad(p) THEN wild' = TRUE /\ UNCHANGED <<head, next>>
         ELSE IF prev[p] # Null
         THEN /\ next' = [next EXCEPT ![prev[p]] = next[p]]
              /\ wild' = (wild \/ Bad(prev[p]))
              /\ UNCHANGED head
         ELSE head' = next[p] /\ UNCHANGED <<next, wild>>
  /\ members' = RemoveFirst(members, owns[c])
  /\ dpc' = [dpc EXCEPT ![c] = IF prev[owns[c]] = Null THEN "front" ELSE "second"]
  /\ UNCHANGED <<prev, freed, ipc, owns, lock, walkVars, lookVars, overlap,
                 peeked>>

\* Mutant: the back pointer of the next node is left alone.
DeleteSecondForgotten(c) ==
  /\ dpc[c] \in {"second", "front"}
  /\ dpc' = [dpc EXCEPT ![c] = "free"]
  /\ UNCHANGED <<linkVars, ipc, owns, lock, walkVars, lookVars, members,
                 overlap, peeked, wild>>

\* p->next->prev = p->prev, or NULL for what was the first node
DeleteSecond(c) ==
  /\ dpc[c] \in {"second", "front"}
  /\ LET p == owns[c]
     IN  IF Bad(p) \/ next[p] = Null THEN wild' = TRUE /\ UNCHANGED prev
         ELSE /\ prev' = [prev EXCEPT ![next[p]] = IF dpc[c] = "front" THEN Null
                                                  ELSE prev[p]]
              /\ wild' = (wild \/ Bad(next[p]))
  /\ dpc' = [dpc EXCEPT ![c] = "free"]
  /\ UNCHANGED <<head, next, freed, ipc, owns, lock, walkVars, lookVars,
                 members, overlap, peeked>>

\* free(p->data); free(p); pthread_mutex_unlock(&lora_lock)
DeleteFree(c) ==
  /\ dpc[c] = "free"
  /\ wild' = (wild \/ Bad(owns[c]))
  /\ freed' = freed \cup ({owns[c]} \cap Items)
  /\ lock' = IF lock = c THEN Nobody ELSE lock
  /\ dpc' = [dpc EXCEPT ![c] = "done"]
  /\ UNCHANGED <<head, next, prev, ipc, owns, walkVars, lookVars, members,
                 overlap, peeked>>

-----------------------------------------------------------------------------
(* thread_lora_recv gives a frame to every node                            *)

\* pthread_mutex_lock(&lora_lock); node = node_head
WalkBegin ==
  /\ wpc = "idle" /\ walks < MaxWalks
  /\ lock = Nobody
  /\ lock' = Walker
  /\ at' = head
  /\ visited' = <<>>
  /\ due' = members
  /\ walks' = walks + 1
  /\ wpc' = "walk"
  /\ UNCHANGED <<linkVars, ipc, owns, dpc, lookVars, members, overlap, peeked,
                 wild>>

\* while (node->data) { ...; node = node_next(node); }
WalkStep ==
  /\ wpc = "walk"
  /\ ~Bad(at) /\ at # Sentinel
  /\ visited' = Append(visited, at)
  /\ at' = next[at]
  /\ UNCHANGED <<linkVars, ipc, owns, dpc, lock, wpc, due, walks, lookVars,
                 members, overlap, peeked, wild>>

\* The sentinel ends the walk; a bad pointer ends the program.
WalkEnd ==
  /\ wpc = "walk"
  /\ Bad(at) \/ at = Sentinel
  /\ wild' = (wild \/ Bad(at))
  /\ lock' = Nobody
  /\ wpc' = "idle" /\ at' = Null /\ visited' = <<>> /\ due' = <<>>
  /\ UNCHANGED <<linkVars, ipc, owns, dpc, walks, lookVars, members, overlap,
                 peeked>>

-----------------------------------------------------------------------------
(* thread_user displays the list, without a lock                           *)

\* p = head
LookBegin ==
  /\ ~looking /\ looks < MaxLooks
  /\ looking' = TRUE /\ looks' = looks + 1
  /\ eye' = head
  /\ seen' = <<>> /\ shown' = members
  /\ peeked' = (peeked \/ Deleting # {})
  /\ UNCHANGED <<linkVars, ipc, owns, dpc, lock, walkVars, members, overlap,
                 wild>>

\* while (p) { if (data != NULL) ...; p = p->next; }
LookStep ==
  /\ looking /\ ~Bad(eye)
  /\ seen' = IF eye = Sentinel THEN seen ELSE Append(seen, eye)
  /\ eye' = next[eye]
  /\ UNCHANGED <<linkVars, ipc, owns, dpc, lock, walkVars, looking, shown, looks,
                 members, overlap, peeked, wild>>

LookEnd ==
  /\ looking /\ Bad(eye)
  /\ wild' = (wild \/ eye # Null)
  /\ looking' = FALSE /\ eye' = Null /\ seen' = <<>> /\ shown' = <<>>
  /\ UNCHANGED <<linkVars, ipc, owns, dpc, lock, walkVars, looks, members,
                 overlap, peeked>>

-----------------------------------------------------------------------------

Insert(n) == InsertBegin(n) \/ InsertBack(n) \/ InsertHead(n)

ClientThread(c) ==
  DeleteBegin(c) \/ DeleteFirst(c) \/ DeleteSecond(c) \/ DeleteFree(c)

\* Nothing more is of interest once freed memory was touched.
Next ==
  /\ ~wild
  /\ \/ \E n \in Items : Insert(n)
     \/ \E c \in Clients : Start(c) \/ ClientThread(c)
     \/ WalkBegin \/ WalkStep \/ WalkEnd
     \/ LookBegin \/ LookStep \/ LookEnd

Spec == Init /\ [][Next]_vars

-----------------------------------------------------------------------------
(* Properties                                                              *)

\* No thread follows a pointer to freed memory, provided that no insertion
\* coincides with a deletion or with another insertion, and no display with
\* a deletion; a walk of the dispatcher and the deletions need no such proviso
\* (tcp.c:55-59, lora.c:82-118, list.c:97-108).
NoWildPointer == ~overlap /\ ~peeked => ~wild

\* Pointers are to nodes always; between operations their two chains say the
\* same, and say what was inserted and not deleted, newest first
\* (list.c:14-37).
ListExact ==
  /\ TypeOK
  /\ ~overlap /\ Inserting = {} /\ Deleting = {} =>
       LET chain == Append(members, Sentinel)
       IN  /\ head = chain[1] /\ prev[head] = Null
           /\ \A i \in 2 .. Len(chain) :
                /\ next[chain[i - 1]] = chain[i]
                /\ prev[chain[i]] = chain[i - 1]
           /\ next[Sentinel] = Null

\* A walk gives the frame to every node that was in the list when it began,
\* once and in order, even while a node is being inserted (lora.c:103-109); so
\* does a display that no deletion meets (list.c:97-108).
WalkExact ==
  /\ ~overlap /\ wpc = "walk" =>
       /\ IsPrefix(visited, due)
       /\ at = Sentinel => visited = due
  /\ ~overlap /\ ~peeked /\ looking =>
       /\ IsPrefix(seen, shown)
       /\ eye = Null => seen = shown
=============================================================================
