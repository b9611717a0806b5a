----------------------------- MODULE MCDispatch -----------------------------
(***************************************************************************)
(* A small instance of Dispatch for TLC: two connections that are given    *)
(* the same descriptor, the second as soon as the first has closed it and  *)
(* is still in the list, and the mailbox of the alarms, which is not       *)
(* zeroed.                                                                 *)
(***************************************************************************)
EXTENDS Dispatch, TLC

CONSTANTS c1, c2
=============================================================================
