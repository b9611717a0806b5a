---------------------------- MODULE MCClientList ----------------------------
(***************************************************************************)
(* A small instance of ClientList for TLC: three connections, so that a    *)
(* node is deleted at the head, in the middle and at the end of the list,  *)
(* and one task of the gateway that inserts beside thread_tcp.             *)
(***************************************************************************)
EXTENDS ClientList, TLC

CONSTANTS c1, c2, c3, t1

Symmetry == Permutations(Clients)
=============================================================================
