----------------------------- MODULE MCMsgRing -----------------------------
(***************************************************************************)
(* Small instances of MsgRing for TLC.  Two senders are enough for the     *)
(* mutex to matter; the ring and the queue are shrunk so that the ring is  *)
(* exactly long enough (MCMsgRing_fifo), or is lapped and read through     *)
(* addresses an earlier process left (MCMsgRing_lap).                      *)
(***************************************************************************)
EXTENDS MsgRing, TLC

CONSTANTS p1, p2

\* The senders are interchangeable.
Symmetry == Permutations(Producers)
=============================================================================
