------------------------------ MODULE LogFile ------------------------------
(***************************************************************************)
(* The log: log_write and log_buf of user/log.c, which are the same but    *)
(* for the text.  They keep one file open, close it when the day of the    *)
(* month has changed and open another, with no lock, from every thread     *)
(* that writes a line; localtime gives them all the same static struct tm. *)
(*                                                                         *)
(* The console's lsa calls localtime too, for the due time of each alarm   *)
(* (user/list.c), and so changes the struct tm of a line under way.        *)
(* main writes the first line before there are other threads.  An open can *)
(* fail; the file pointer is then null and the next line tries again.      *)
(***************************************************************************)
EXTENDS Integers

CONSTANTS
  Writers,              \* threads that write lines
  Main,                 \* the one that writes before the others exist
  Month,                \* days in a month
  LastDay,              \* bound: days that pass
  MaxLines,             \* bound: lines written
  MaxFailures           \* bound: opens that fail

ASSUME LogAssumption ==
  /\ Main \in Writers
  /\ Month \in Nat \ {0} /\ LastDay \in Nat \ {0}
  /\ MaxLines \in Nat /\ MaxFailures \in Nat

Days == 1 .. LastDay
NoFile == [id |-> 0, day |-> 0]      \* a null file pointer

VARIABLES
  today,                \* the day
  date,                 \* log_file.date, a day of the month; zero at first
  fp,                   \* log_file.fp
  path,                 \* log_file.path, as the day it names
  tm,                   \* the struct tm of localtime, as the day it holds
  lpc,                  \* where each writer is in its line
  time,                 \* the time each writer has asked for
  open,                 \* the files that are open
  ids,                  \* files opened so far
  lines, failures,      \* lines begun, opens that failed
  last,                 \* history: the day of the last line that was printed
  met,                  \* history: a line met a change of file or a line of
                        \* another day
  tried,                \* history: the writers that opened a file in their line
  silent,               \* history: a month passed without a line
  shown,                \* history: lsa changed the day that a line was to use
  wild,                 \* history: a closed file was used
  astray                \* history: a line went to another day's file, or to
                        \* none although its open did not fail

fileVars == <<date, fp, path, tm, open, ids>>
logHistory == <<last, met, tried, silent, shown, wild, astray>>
logVars == <<today, fileVars, lpc, time, lines, failures, logHistory>>

LogTypeOK ==
  /\ today \in Days
  /\ date \in 0 .. Month
  /\ fp \in [id : 0 .. ids, day : 0 .. LastDay]
  /\ path \in 0 .. LastDay /\ tm \in 0 .. LastDay
  /\ lpc \in [Writers -> {"out", "localtime", "test", "date", "close", "check",
                          "path", "open", "print", "flush"}]
  /\ time \in [Writers -> 0 .. LastDay]
  /\ open \subseteq 1 .. ids
  /\ ids \in Nat /\ lines \in 0 .. MaxLines /\ failures \in 0 .. MaxFailures
  /\ last \in Days /\ tried \subseteq Writers
  /\ met \in BOOLEAN /\ silent \in BOOLEAN /\ shown \in BOOLEAN
  /\ wild \in BOOLEAN /\ astray \in BOOLEAN

MDay(d) == ((d - 1) % Month) + 1

LogInit ==
  /\ today = 1
  /\ date = 0 /\ fp = NoFile /\ path = 0 /\ tm = 0
  /\ lpc = [w \in Writers |-> "out"]
  /\ time = [w \in Writers |-> 0]
  /\ open = {} /\ ids = 0
  /\ lines = 0 /\ failures = 0
  /\ last = 1 /\ tried = {}
  /\ met = FALSE /\ silent = FALSE /\ shown = FALSE
  /\ wild = FALSE /\ astray = FALSE

Busy == {w \in Writers : lpc[w] # "out"}
Changing == {w \in Writers : lpc[w] \in {"date", "close", "path", "open"}}

Step(w, here, there) ==
  /\ lpc[w] = here
  /\ lpc' = [lpc EXCEPT ![w] = there]

-----------------------------------------------------------------------------

Midnight ==
  /\ today < LastDay
  /\ today' = today + 1
  /\ UNCHANGED <<fileVars, lpc, time, lines, failures, logHistory>>

\* time(&time_v).  main writes one line, before the others.
Begin(w) ==
  /\ lines < MaxLines
  /\ IF w = Main THEN lines = 0 ELSE lines > 0 /\ lpc[Main] = "out"
  /\ Step(w, "out", "localtime")
  /\ time' = [time EXCEPT ![w] = today]
  /\ lines' = lines + 1
  /\ silent' = (silent \/ today - last >= Month)
  /\ met' = (met \/ Changing # {} \/ \E v \in Busy : time[v] # today)
  /\ tried' = tried \ {w}
  /\ UNCHANGED <<today, fileVars, failures, last, shown, wild, astray>>

\* localtime(&time_v)
Localtime(w) ==
  /\ Step(w, "localtime", "test")
  /\ tm' = time[w]
  /\ UNCHANGED <<today, date, fp, path, open, ids, time, lines, failures,
                 logHistory>>

\* log_file.date != time_p->tm_mday
Test(w) ==
  LET changed == date # MDay(tm)
  IN  /\ Step(w, "test", IF changed THEN "date" ELSE "check")
      /\ met' = (met \/ (changed /\ Busy # {w}))
      /\ UNCHANGED <<today, fileVars, time, lines, failures, last, tried,
                     silent, shown, wild, astray>>

\* log_file.date = time_p->tm_mday
SetDate(w) ==
  /\ Step(w, "date", "close")
  /\ date' = MDay(tm)
  /\ UNCHANGED <<today, fp, path, tm, open, ids, time, lines, failures,
                 logHistory>>

\* if (log_file.fp != NULL) fclose(log_file.fp)
Close(w) ==
  /\ Step(w, "close", "path")
  /\ open' = open \ {fp.id}
  /\ wild' = (wild \/ (fp # NoFile /\ fp.id \notin open))
  /\ UNCHANGED <<today, date, fp, path, tm, ids, time, lines, failures, last,
                 met, tried, silent, shown, astray>>

\* Mutant: a file that could not be opened is not tried again.
CheckNever(w) ==
  /\ Step(w, "check", "print")
  /\ UNCHANGED <<today, fileVars, time, lines, failures, logHistory>>

\* Without a file one is to be opened.
Check(w) ==
  /\ Step(w, "check", IF fp = NoFile THEN "path" ELSE "print")
  /\ met' = (met \/ (fp = NoFile /\ Busy # {w}))
  /\ UNCHANGED <<today, fileVars, time, lines, failures, last, tried,
                 silent, shown, wild, astray>>

\* sprintf(log_file.path, ...)
Path(w) ==
  /\ Step(w, "path", "open")
  /\ path' = tm
  /\ UNCHANGED <<today, date, fp, tm, open, ids, time, lines, failures,
                 logHistory>>

\* Mutant: the pointer to the closed file is kept when the open fails.
OpenKeepsOld(w) ==
  /\ Step(w, "open", "print")
  /\ \/ /\ ids' = ids + 1
        /\ fp' = [id |-> ids', day |-> path]
        /\ open' = open \cup {ids'}
        /\ UNCHANGED failures
     \/ /\ failures < MaxFailures /\ failures' = failures + 1
        /\ UNCHANGED <<fp, open, ids>>
  /\ tried' = tried \cup {w}
  /\ UNCHANGED <<today, date, path, tm, time, lines, last, met, silent, shown,
                 wild, astray>>

\* log_file.fp = fopen(log_file.path, "ab+")
Open(w) ==
  /\ Step(w, "open", "print")
  /\ \/ /\ ids' = ids + 1
        /\ fp' = [id |-> ids', day |-> path]
        /\ open' = open \cup {ids'}
        /\ UNCHANGED failures
     \/ /\ failures < MaxFailures /\ failures' = failures + 1
        /\ fp' = NoFile
        /\ UNCHANGED <<open, ids>>
  /\ tried' = tried \cup {w}
  /\ UNCHANGED <<today, date, path, tm, time, lines, last, met, silent, shown,
                 wild, astray>>

\* if (log_file.fp != NULL) fprintf(log_file.fp, ...).  A line without a file
\* is in order if the writer's own open has failed.
PrintLine(w) ==
  /\ Step(w, "print", IF fp = NoFile THEN "out" ELSE "flush")
  /\ wild' = (wild \/ (fp # NoFile /\ fp.id \notin open))
  /\ astray' = (astray \/ (IF fp = NoFile THEN w \notin tried
                          ELSE fp.day # time[w]))
  /\ last' = IF time[w] > last THEN time[w] ELSE last
  /\ UNCHANGED <<today, fileVars, time, lines, failures, met, tried, silent,
                 shown>>

\* fflush(log_file.fp)
Flush(w) ==
  /\ Step(w, "flush", "out")
  /\ wild' = (wild \/ fp = NoFile \/ fp.id \notin open)
  /\ UNCHANGED <<today, fileVars, time, lines, failures, last, met,
                 tried, silent, shown, astray>>

\* Has w called localtime, and has it still to use the day?
Using(w) ==
  lpc[w] \in {"test", "date", "close", "path"} \/ (lpc[w] = "check" /\ fp = NoFile)

\* localtime(&data->time) of lsa, in thread_user: an alarm is due on any day.
Display ==
  /\ lines > 0 /\ lpc[Main] = "out"
  /\ \E d \in Days :
       /\ tm' = d
       /\ shown' = (shown \/ (d # tm /\ \E w \in Writers : Using(w)))
  /\ UNCHANGED <<today, date, fp, path, open, ids, lpc, time, lines, failures,
                 last, met, tried, silent, wild, astray>>

\* A line of w, once it is begun.
Line(w) ==
  \/ Localtime(w) \/ Test(w) \/ SetDate(w) \/ Close(w) \/ Check(w)
  \/ Path(w) \/ Open(w) \/ PrintLine(w) \/ Flush(w)

\* Nothing more is of interest once a closed file was used.
LogNext ==
  /\ ~wild
  /\ \/ Midnight \/ Display
     \/ \E w \in Writers : Begin(w) \/ Line(w)

LogSpec == LogInit /\ [][LogNext]_logVars

-----------------------------------------------------------------------------
(* Properties                                                              *)

\* A file is used after it is closed only if a change of file met another
\* line: however often opens fail, days pass and alarms are displayed, lines one
\* after another do not, nor do lines of one day that are written at a time
\* (log.c:36-62).
FileSafe == wild => met

\* With the same proviso every line goes to the file of its own day, unless
\* its writer has just failed to open it; the day of the month tells days
\* apart as long as there is a line a month, and localtime's day is the
\* writer's as long as lsa does not come between its call and its use
\* (log.c:36, log.c:51-54, list.c:129).
RightDay == astray => met \/ silent \/ shown
=============================================================================
