------------------------------ MODULE Process ------------------------------
(***************************************************************************)
(* The process as a whole, from main's first line in the log through the   *)
(* start of its threads to the lines that these write (user/main.c:33-129).*)
(***************************************************************************)
EXTENDS Startup, LogFile

VARIABLES welcomed      \* main has written its line

processVars == <<startVars, logVars, welcomed>>

ProcessInit == StartInit /\ LogInit /\ welcomed = FALSE

\* log_write of the welcome; bound: at no midnight.
Welcome ==
  /\ ~welcomed
  /\ Begin(Main) \/ Line(Main)
  /\ welcomed' = (lpc'[Main] = "out")
  /\ UNCHANGED startVars

Start ==
  /\ welcomed
  /\ StartNext
  /\ UNCHANGED <<logVars, welcomed>>

\* Bound: lines are written after a start without a delay.
Run ==
  /\ created = 9 /\ Pending = {} /\ worst = 0
  /\ LogNext
  /\ UNCHANGED <<startVars, welcomed>>

ProcessNext == Welcome \/ Start \/ Run

ProcessSpec == ProcessInit /\ [][ProcessNext]_processVars
=============================================================================
