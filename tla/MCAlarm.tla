------------------------------ MODULE MCAlarm ------------------------------
(***************************************************************************)
(* Small instances of Alarm for TLC.  A clock of a few seconds replaces    *)
(* ten minutes and days: only whether a thread looks before, in or after   *)
(* the window matters.  meter asks for measurements, once for a relay to   *)
(* be switched one time.                                                   *)
(***************************************************************************)
EXTENDS Alarm, TLC

CONSTANTS once, meter

MCOrder == <<once, meter>>
MCStart == [a \in Alarms |-> 0]
MCInterval == [a \in Alarms |-> IF a = once THEN 0 ELSE 2]
MCTimeout == [a \in Alarms |-> 2]
MCDat == [a \in Alarms |-> IF a = meter THEN 0 ELSE 1]
=============================================================================
