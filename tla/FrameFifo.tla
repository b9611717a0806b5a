----------------------------- MODULE FrameFifo -----------------------------
(***************************************************************************)
(* What the downlink path of the gateway promises its callers: a frame     *)
(* handed to lora_send (user/lora.c) is transmitted once, whole, and in    *)
(* the order in which the frames were accepted.  Nothing is said of how    *)
(* the frames are stored or how many threads send them.                    *)
(*                                                                         *)
(* MsgRing (ten shared slots, a System V queue of pointers to them, one    *)
(* mutex) implements this specification as long as the queue is too short  *)
(* for the ring to lap itself and the process is not restarted.            *)
(***************************************************************************)
EXTENDS Naturals, Sequences

CONSTANT Frame          \* the frames a caller can send

VARIABLES
  pending,              \* accepted, not yet transmitted; oldest first
  air                   \* transmitted, oldest first

vars == <<pending, air>>

TypeOK ==
  /\ pending \in Seq(Frame)
  /\ air \in Seq(Frame)

Init ==
  /\ pending = <<>>
  /\ air = <<>>

Accept ==
  /\ \E f \in Frame : pending' = Append(pending, f)
  /\ UNCHANGED air

Transmit ==
  /\ pending # <<>>
  /\ air' = Append(air, Head(pending))
  /\ pending' = Tail(pending)

Next == Accept \/ Transmit

Spec == Init /\ [][Next]_vars

-----------------------------------------------------------------------------

\* An accepted frame does not stay accepted for ever.
LiveSpec == Spec /\ WF_vars(Transmit)
=============================================================================
