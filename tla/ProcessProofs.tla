--------------------------- MODULE ProcessProofs ---------------------------
(***************************************************************************)
(* Proofs about the log, about the start, and about the process that has   *)
(* both.                                                                   *)
(*                                                                         *)
(* The log: for any number of threads, days and failed opens, a closed     *)
(* file is not used and no line goes to another day's file unless a change *)
(* of file meets another line.  Until then a writer that changes the file  *)
(* is alone, the writers at work have asked for the time of one day, and   *)
(* this is what localtime's struct tm holds; so the date that is kept is   *)
(* the day of the file that is open, and the day of the month tells it     *)
(* from the day of the line.                                               *)
(*                                                                         *)
(* The start: only a step late by the reset pulse, or by a third of the    *)
(* difference of two sleeps, lets a null list pointer be followed, for     *)
(* every length of the sleeps.  The invariant says, for a thread that      *)
(* makes a list and one that uses it, how much longer the user still       *)
(* sleeps than the maker is from done.  Each step of the maker takes at    *)
(* most worst from the difference.                                         *)
(*                                                                         *)
(* Each step of the process is a step of the start or of the log that      *)
(* leaves the other alone.                                                 *)
(***************************************************************************)
EXTENDS Process, TLAPS

-----------------------------------------------------------------------------
(* The log                                                                 *)


\* A writer that changes the file is the only one.
Alone == \A w \in Changing : Busy = {w}

\* The writers have one time, and tm is it while they use it.
OneDay ==
  /\ \A v, w \in Busy : time[v] = time[w]
  /\ \A w \in Writers : Using(w) => tm = time[w]
  /\ \A w \in Writers : lpc[w] = "open" => path = time[w]

\* The file is open, but for the writer that has just closed it.
Usable ==
  /\ (\A w \in Writers : lpc[w] \notin {"path", "open"}) =>
       fp = NoFile \/ fp.id \in open
  /\ \A w \in Writers : lpc[w] = "flush" => fp # NoFile

\* Days do not go back.
Forward ==
  /\ last <= today
  /\ \A w \in Busy : last <= time[w] /\ time[w] <= today
  /\ fp # NoFile =>
       /\ fp.day <= today
       /\ \A w \in Busy : fp.day <= time[w]

\* The date is the day of the line, once it is set or found to be, and the
\* day of the file.
Dated ==
  /\ \A w \in Writers :
       lpc[w] \in {"close", "check", "path", "open"} => date = MDay(time[w])
  /\ fp # NoFile /\ (\A w \in Writers : lpc[w] \notin {"close", "path", "open"})
       => date = MDay(fp.day)

\* A file is less than a month old when a line is begun, and a line that is
\* to be printed has its day's file or has failed to open it.
Fresh ==
  /\ fp # NoFile =>
       /\ last <= fp.day
       /\ \A w \in Busy : time[w] - fp.day < Month
  /\ \A w \in Writers :
       lpc[w] = "print" => IF fp = NoFile THEN w \in tried
                                          ELSE fp.day = time[w]
  /\ ~astray

LogInv ==
  /\ LogTypeOK
  /\ ~met => Alone /\ Usable /\ ~wild
  /\ ~met /\ ~shown => OneDay /\ Forward /\ Dated
  /\ ~met /\ ~shown /\ ~silent => Fresh

\* Two days with one day of the month are the same or a month apart.
LEMMA MDayApart ==
  ASSUME NEW d \in Days, NEW e \in Days, e <= d, d - e < Month,
         MDay(d) = MDay(e)
  PROVE  d = e
  <1> DEFINE r == (d - 1) % Month
  <1>1. Month \in Nat \ {0} /\ d \in Nat \ {0} /\ e \in Nat \ {0}
    BY LogAssumption DEF Days
  <1>2. r \in Int /\ (e - 1) % Month = r
    BY <1>1 DEF MDay
  <1> DEFINE q == (d - 1) \div Month
  <1> DEFINE p == (e - 1) \div Month
  <1>3. q \in Int /\ d - 1 = Month * q + r
    BY <1>1
  <1>4. p \in Int /\ e - 1 = Month * p + r
    BY <1>1, <1>2
  <1>5. d - e = Month * (q - p)
    BY <1>1, <1>2, <1>3, <1>4
  <1>6. q - p < 1 /\ q - p > -1
    BY <1>1, <1>5
  <1>7. QED
    BY <1>1, <1>5, <1>6

LEMMA LogInitInv == LogInit => LogInv
  <1> SUFFICES ASSUME LogInit PROVE LogInv
    OBVIOUS
  <1>1. \A w \in Writers : lpc[w] = "out"
    BY DEF LogInit
  <1>2. LogTypeOK
    <2>1. /\ today \in Days /\ date \in 0 .. Month
          /\ fp \in [id : 0 .. ids, day : 0 .. LastDay]
          /\ path \in 0 .. LastDay /\ tm \in 0 .. LastDay
          /\ ids \in Nat /\ lines \in 0 .. MaxLines
          /\ failures \in 0 .. MaxFailures /\ last \in Days
      BY LogAssumption DEF LogInit, Days, NoFile
    <2>2. /\ lpc \in [Writers -> {"out", "localtime", "test", "date", "close",
                                 "check", "path", "open", "print", "flush"}]
          /\ time \in [Writers -> 0 .. LastDay]
      BY LogAssumption DEF LogInit
    <2>3. QED
      BY <2>1, <2>2 DEF LogInit, LogTypeOK
  <1>3. Busy = {} /\ Changing = {}
    BY <1>1 DEF Busy, Changing
  <1>4. Alone /\ OneDay /\ Usable /\ Forward /\ Dated /\ Fresh
    BY <1>1, <1>3
    DEF LogInit, Alone, OneDay, Usable, Forward, Dated, Fresh, NoFile
  <1>5. QED
    BY <1>2, <1>4 DEF LogInit, LogInv

\* What a step of a line changes.
LEMMA StepFacts ==
  ASSUME LogTypeOK, NEW w \in Writers, NEW here,
         NEW there \in {"out", "localtime", "test", "date", "close", "check",
                        "path", "open", "print", "flush"},
         Step(w, here, there)
  PROVE  /\ lpc[w] = here /\ lpc'[w] = there
         /\ \A v \in Writers \ {w} : lpc'[v] = lpc[v]
         /\ lpc' \in [Writers -> {"out", "localtime", "test", "date", "close",
                                  "check", "path", "open", "print", "flush"}]
  BY DEF Step, LogTypeOK

LEMMA BeginInv ==
  ASSUME LogInv, NEW w \in Writers, Begin(w)
  PROVE  LogInv'
  <1> DEFINE there == "localtime"
  <1>1. Step(w, "out", there)
    BY DEF Begin
  <1>2. /\ lpc[w] = "out" /\ lpc'[w] = there
        /\ \A v \in Writers \ {w} : lpc'[v] = lpc[v]
        /\ lpc' \in [Writers -> {"out", "localtime", "test", "date", "close",
                                 "check", "path", "open", "print", "flush"}]
    BY <1>1, StepFacts DEF LogInv
  <1>3. LogTypeOK'
    <2>1. lines' \in 0 .. MaxLines
      BY LogAssumption DEF Begin, LogInv, LogTypeOK
    <2>2. silent' \in BOOLEAN /\ met' \in BOOLEAN
      BY DEF Begin
    <2>3. time' \in [Writers -> 0 .. LastDay]
      BY LogAssumption DEF Begin, LogInv, LogTypeOK, Days
    <2>4. QED
      BY <1>2, <2>1, <2>2, <2>3 DEF Begin, fileVars, LogInv, LogTypeOK
  <1>4. ASSUME ~met' PROVE Alone' /\ Usable' /\ ~wild'
    <2>1. ~met /\ ~wild /\ Alone /\ Usable
      BY <1>4 DEF Begin, fileVars, logHistory, LogInv
    <2>2. Alone'
      BY <1>2, <1>4, <2>1 DEF Begin, fileVars, logHistory, Alone, Busy,
         Changing
    <2>3. Usable'
      BY <1>2, <1>3, <1>4, <2>1
      DEF Begin, fileVars, logHistory, Alone, Usable, Busy, Changing, LogInv,
          LogTypeOK, NoFile
    <2>4. ~wild'
      BY <1>2, <1>4, <2>1
      DEF Begin, fileVars, logHistory, Alone, Usable, Busy, Changing
    <2>5. QED
      BY <2>2, <2>3, <2>4
  <1>5. ASSUME ~met', ~shown' PROVE OneDay' /\ Forward' /\ Dated'
    <2>1. ~met /\ ~shown /\ Alone /\ OneDay /\ Usable /\ Forward /\ Dated
      BY <1>5 DEF Begin, fileVars, logHistory, LogInv
    <2>2. OneDay'
      <3>1. /\ time'[w] = today
            /\ \A v \in Writers \ {w} : time'[v] = time[v]
        BY DEF Begin, LogInv, LogTypeOK
      <3>2. \A v \in Busy : time[v] = today
        BY <1>5 DEF Begin
      <3>3. QED
        BY <1>2, <2>1, <3>1, <3>2 DEF Begin, fileVars, OneDay, Using, Busy
    <2>3. Forward'
      BY <1>2, <1>3, <1>5, <2>1
      DEF Begin, fileVars, logHistory, Alone, OneDay, Using, Forward, Busy,
          Changing, LogInv, LogTypeOK, Days, NoFile
    <2>4. Dated'
      BY <1>2, <1>5, <2>1
      DEF Begin, fileVars, logHistory, Alone, OneDay, Using, Dated, Busy,
          Changing, LogInv, LogTypeOK
    <2>5. QED
      BY <2>2, <2>3, <2>4
  <1>6. ASSUME ~met', ~shown', ~silent' PROVE Fresh'
    <2>1. /\ ~met /\ ~shown /\ ~silent
          /\ Alone /\ OneDay /\ Forward /\ Dated /\ Fresh
      BY <1>6 DEF Begin, fileVars, logHistory, LogInv
    <2>2. /\ today - last < Month /\ \A v \in Busy : time[v] = today
          /\ today \in Int /\ last \in Int /\ Month \in Int
      <3>1. today \in Int /\ last \in Int /\ Month \in Int
        BY LogAssumption DEF LogInv, LogTypeOK, Days
      <3>2. ~(today - last >= Month) /\ \A v \in Busy : ~(time[v] # today)
        BY <1>6 DEF Begin
      <3>3. QED
        BY <3>1, <3>2
    <2>3. /\ \A v \in Busy' : time'[v] = today
          /\ fp' = fp /\ last' = last /\ fp.day \in Int
      BY <1>2, <2>2 DEF Begin, fileVars, Busy, LogInv, LogTypeOK
    <2>4. fp' # NoFile =>
            last' <= fp'.day /\ \A v \in Busy' : time'[v] - fp'.day < Month
      BY <2>1, <2>2, <2>3 DEF Fresh
    <2>5. \A v \in Writers : lpc'[v] = "print" =>
            lpc[v] = "print" /\ v # w /\ time'[v] = time[v]
      BY <1>2 DEF Begin, LogInv, LogTypeOK
    <2>6. QED
      BY <2>1, <2>3, <2>4, <2>5 DEF Begin, Fresh
  <1>7. QED
    BY <1>3, <1>4, <1>5, <1>6 DEF LogInv

LEMMA LocaltimeInv ==
  ASSUME LogInv, NEW w \in Writers, Localtime(w)
  PROVE  LogInv'
  <1> DEFINE there == "test"
  <1>1. Step(w, "localtime", there)
    BY DEF Localtime
  <1>2. /\ lpc[w] = "localtime" /\ lpc'[w] = there
        /\ \A v \in Writers \ {w} : lpc'[v] = lpc[v]
        /\ lpc' \in [Writers -> {"out", "localtime", "test", "date", "close",
                                 "check", "path", "open", "print", "flush"}]
    BY <1>1, StepFacts DEF LogInv
  <1>3. LogTypeOK'
    BY <1>2, LogAssumption
    DEF Localtime, fileVars, logHistory, LogInv, LogTypeOK, Days, MDay, NoFile
  <1>4. ASSUME ~met' PROVE Alone' /\ Usable' /\ ~wild'
    <2>1. ~met /\ ~wild /\ Alone /\ Usable
      BY <1>4 DEF Localtime, fileVars, logHistory, LogInv
    <2>2. Alone'
      BY <1>2, <1>4, <2>1
      DEF Localtime, fileVars, logHistory, Alone, Busy, Changing
    <2>3. Usable'
      BY <1>2, <1>3, <1>4, <2>1
      DEF Localtime, fileVars, logHistory, Alone, Usable, Busy, Changing,
          LogInv, LogTypeOK, NoFile
    <2>4. ~wild'
      BY <1>2, <1>4, <2>1
      DEF Localtime, fileVars, logHistory, Alone, Usable, Busy, Changing
    <2>5. QED
      BY <2>2, <2>3, <2>4
  <1>5. ASSUME ~met', ~shown' PROVE OneDay' /\ Forward' /\ Dated'
    <2>1. ~met /\ ~shown /\ Alone /\ OneDay /\ Usable /\ Forward /\ Dated
      BY <1>5 DEF Localtime, fileVars, logHistory, LogInv
    <2>2. OneDay'
      BY <1>2, <1>5, <2>1
      DEF Localtime, fileVars, logHistory, Alone, OneDay, Using, Busy,
          Changing, LogInv, LogTypeOK
    <2>3. Forward'
      BY <1>2, <1>3, <1>5, <2>1
      DEF Localtime, fileVars, logHistory, Alone, OneDay, Using, Forward, Busy,
          Changing, LogInv, LogTypeOK, Days, NoFile
    <2>4. Dated'
      BY <1>2, <1>5, <2>1
      DEF Localtime, fileVars, logHistory, Alone, OneDay, Using, Dated, Busy,
          Changing, LogInv, LogTypeOK
    <2>5. QED
      BY <2>2, <2>3, <2>4
  <1>6. ASSUME ~met', ~shown', ~silent' PROVE Fresh'
    <2>1. /\ ~met /\ ~shown /\ ~silent
          /\ Alone /\ OneDay /\ Forward /\ Dated /\ Fresh
      BY <1>6 DEF Localtime, fileVars, logHistory, LogInv
    <2>2. QED
      BY <1>2, <1>6, <2>1
      DEF Localtime, fileVars, logHistory, Alone, OneDay, Using, Forward,
          Dated, Fresh, Busy, Changing, LogInv, LogTypeOK, Days
  <1>7. QED
    BY <1>3, <1>4, <1>5, <1>6 DEF LogInv

LEMMA TestInv ==
  ASSUME LogInv, NEW w \in Writers, Test(w)
  PROVE  LogInv'
  <1> DEFINE there == IF date # MDay(tm) THEN "date" ELSE "check"
  <1>1. Step(w, "test", there)
    BY DEF Test
  <1>2. /\ lpc[w] = "test" /\ lpc'[w] = there
        /\ \A v \in Writers \ {w} : lpc'[v] = lpc[v]
        /\ lpc' \in [Writers -> {"out", "localtime", "test", "date", "close",
                                 "check", "path", "open", "print", "flush"}]
    BY <1>1, StepFacts DEF LogInv
  <1>3. LogTypeOK'
    BY <1>2, LogAssumption
    DEF Test, fileVars, logHistory, LogInv, LogTypeOK, Days, MDay, NoFile
  <1>4. ASSUME ~met' PROVE Alone' /\ Usable' /\ ~wild'
    <2>1. ~met /\ ~wild /\ Alone /\ Usable
      BY <1>4 DEF Test, fileVars, logHistory, LogInv
    <2>2. Alone'
      BY <1>2, <1>4, <2>1 DEF Test, fileVars, logHistory, Alone, Busy, Changing
    <2>3. Usable'
      BY <1>2, <1>3, <1>4, <2>1
      DEF Test, fileVars, logHistory, Alone, Usable, Busy, Changing, LogInv,
          LogTypeOK, NoFile
    <2>4. ~wild'
      BY <1>2, <1>4, <2>1
      DEF Test, fileVars, logHistory, Alone, Usable, Busy, Changing
    <2>5. QED
      BY <2>2, <2>3, <2>4
  <1>5. ASSUME ~met', ~shown' PROVE OneDay' /\ Forward' /\ Dated'
    <2>1. ~met /\ ~shown /\ Alone /\ OneDay /\ Usable /\ Forward /\ Dated
      BY <1>5 DEF Test, fileVars, logHistory, LogInv
    <2>2. OneDay'
      BY <1>2, <1>5, <2>1
      DEF Test, fileVars, logHistory, Alone, OneDay, Using, Busy, Changing,
          LogInv, LogTypeOK
    <2>3. Forward'
      BY <1>2, <1>3, <1>5, <2>1
      DEF Test, fileVars, logHistory, Alone, OneDay, Using, Forward, Busy,
          Changing, LogInv, LogTypeOK, Days, NoFile
    <2>4. Dated'
      BY <1>2, <1>5, <2>1
      DEF Test, fileVars, logHistory, Alone, OneDay, Using, Dated, Busy,
          Changing, LogInv, LogTypeOK
    <2>5. QED
      BY <2>2, <2>3, <2>4
  <1>6. ASSUME ~met', ~shown', ~silent' PROVE Fresh'
    <2>1. /\ ~met /\ ~shown /\ ~silent
          /\ Alone /\ OneDay /\ Forward /\ Dated /\ Fresh
      BY <1>6 DEF Test, fileVars, logHistory, LogInv
    <2>2. QED
      BY <1>2, <1>6, <2>1
      DEF Test, fileVars, logHistory, Alone, OneDay, Using, Forward, Dated,
          Fresh, Busy, Changing, LogInv, LogTypeOK, Days
  <1>7. QED
    BY <1>3, <1>4, <1>5, <1>6 DEF LogInv

LEMMA SetDateInv ==
  ASSUME LogInv, NEW w \in Writers, SetDate(w)
  PROVE  LogInv'
  <1> DEFINE there == "close"
  <1>1. Step(w, "date", there)
    BY DEF SetDate
  <1>2. /\ lpc[w] = "date" /\ lpc'[w] = there
        /\ \A v \in Writers \ {w} : lpc'[v] = lpc[v]
        /\ lpc' \in [Writers -> {"out", "localtime", "test", "date", "close",
                                 "check", "path", "open", "print", "flush"}]
    BY <1>1, StepFacts DEF LogInv
  <1>3. LogTypeOK'
    BY <1>2, LogAssumption
    DEF SetDate, fileVars, logHistory, LogInv, LogTypeOK, Days, MDay, NoFile
  <1>4. ASSUME ~met' PROVE Alone' /\ Usable' /\ ~wild'
    <2>1. ~met /\ ~wild /\ Alone /\ Usable
      BY <1>4 DEF SetDate, fileVars, logHistory, LogInv
    <2>2. Alone'
      BY <1>2, <1>4, <2>1
      DEF SetDate, fileVars, logHistory, Alone, Busy, Changing
    <2>3. Usable'
      BY <1>2, <1>3, <1>4, <2>1
      DEF SetDate, fileVars, logHistory, Alone, Usable, Busy, Changing,
          LogInv, LogTypeOK, NoFile
    <2>4. ~wild'
      BY <1>2, <1>4, <2>1
      DEF SetDate, fileVars, logHistory, Alone, Usable, Busy, Changing
    <2>5. QED
      BY <2>2, <2>3, <2>4
  <1>5. ASSUME ~met', ~shown' PROVE OneDay' /\ Forward' /\ Dated'
    <2>1. ~met /\ ~shown /\ Alone /\ OneDay /\ Usable /\ Forward /\ Dated
      BY <1>5 DEF SetDate, fileVars, logHistory, LogInv
    <2>2. OneDay'
      BY <1>2, <1>5, <2>1
      DEF SetDate, fileVars, logHistory, Alone, OneDay, Using, Busy, Changing,
          LogInv, LogTypeOK
    <2>3. Forward'
      BY <1>2, <1>3, <1>5, <2>1
      DEF SetDate, fileVars, logHistory, Alone, OneDay, Using, Forward, Busy,
          Changing, LogInv, LogTypeOK, Days, NoFile
    <2>4. Dated'
      BY <1>2, <1>5, <2>1
      DEF SetDate, fileVars, logHistory, Alone, OneDay, Using, Dated, Busy,
          Changing, LogInv, LogTypeOK
    <2>5. QED
      BY <2>2, <2>3, <2>4
  <1>6. ASSUME ~met', ~shown', ~silent' PROVE Fresh'
    <2>1. /\ ~met /\ ~shown /\ ~silent
          /\ Alone /\ OneDay /\ Forward /\ Dated /\ Fresh
      BY <1>6 DEF SetDate, fileVars, logHistory, LogInv
    <2>2. QED
      BY <1>2, <1>6, <2>1
      DEF SetDate, fileVars, logHistory, Alone, OneDay, Using, Forward, Dated,
          Fresh, Busy, Changing, LogInv, LogTypeOK, Days
  <1>7. QED
    BY <1>3, <1>4, <1>5, <1>6 DEF LogInv

LEMMA CloseInv ==
  ASSUME LogInv, NEW w \in Writers, Close(w)
  PROVE  LogInv'
  <1> DEFINE there == "path"
  <1>1. Step(w, "close", there)
    BY DEF Close
  <1>2. /\ lpc[w] = "close" /\ lpc'[w] = there
        /\ \A v \in Writers \ {w} : lpc'[v] = lpc[v]
        /\ lpc' \in [Writers -> {"out", "localtime", "test", "date", "close",
                                 "check", "path", "open", "print", "flush"}]
    BY <1>1, StepFacts DEF LogInv
  <1>3. LogTypeOK'
    BY <1>2, LogAssumption
    DEF Close, fileVars, logHistory, LogInv, LogTypeOK, Days, MDay, NoFile
  <1>4. ASSUME ~met' PROVE Alone' /\ Usable' /\ ~wild'
    <2>1. ~met /\ ~wild /\ Alone /\ Usable
      BY <1>4 DEF Close, fileVars, logHistory, LogInv
    <2>2. Alone'
      BY <1>2, <1>4, <2>1 DEF Close, fileVars, logHistory, Alone, Busy,
         Changing
    <2>3. Usable'
      BY <1>2, <1>3, <1>4, <2>1
      DEF Close, fileVars, logHistory, Alone, Usable, Busy, Changing, LogInv,
          LogTypeOK, NoFile
    <2>4. ~wild'
      BY <1>2, <1>4, <2>1
      DEF Close, fileVars, logHistory, Alone, Usable, Busy, Changing
    <2>5. QED
      BY <2>2, <2>3, <2>4
  <1>5. ASSUME ~met', ~shown' PROVE OneDay' /\ Forward' /\ Dated'
    <2>1. ~met /\ ~shown /\ Alone /\ OneDay /\ Usable /\ Forward /\ Dated
      BY <1>5 DEF Close, fileVars, logHistory, LogInv
    <2>2. OneDay'
      BY <1>2, <1>5, <2>1
      DEF Close, fileVars, logHistory, Alone, OneDay, Using, Busy, Changing,
          LogInv, LogTypeOK
    <2>3. Forward'
      BY <1>2, <1>3, <1>5, <2>1
      DEF Close, fileVars, logHistory, Alone, OneDay, Using, Forward, Busy,
          Changing, LogInv, LogTypeOK, Days, NoFile
    <2>4. Dated'
      BY <1>2, <1>5, <2>1
      DEF Close, fileVars, logHistory, Alone, OneDay, Using, Dated, Busy,
          Changing, LogInv, LogTypeOK
    <2>5. QED
      BY <2>2, <2>3, <2>4
  <1>6. ASSUME ~met', ~shown', ~silent' PROVE Fresh'
    <2>1. /\ ~met /\ ~shown /\ ~silent
          /\ Alone /\ OneDay /\ Forward /\ Dated /\ Fresh
      BY <1>6 DEF Close, fileVars, logHistory, LogInv
    <2>2. QED
      BY <1>2, <1>6, <2>1
      DEF Close, fileVars, logHistory, Alone, OneDay, Using, Forward, Dated,
          Fresh, Busy, Changing, LogInv, LogTypeOK, Days
  <1>7. QED
    BY <1>3, <1>4, <1>5, <1>6 DEF LogInv

LEMMA CheckInv ==
  ASSUME LogInv, NEW w \in Writers, Check(w)
  PROVE  LogInv'
  <1> DEFINE there == IF fp = NoFile THEN "path" ELSE "print"
  <1>1. Step(w, "check", there)
    BY DEF Check
  <1>2. /\ lpc[w] = "check" /\ lpc'[w] = there
        /\ \A v \in Writers \ {w} : lpc'[v] = lpc[v]
        /\ lpc' \in [Writers -> {"out", "localtime", "test", "date", "close",
                                 "check", "path", "open", "print", "flush"}]
    BY <1>1, StepFacts DEF LogInv
  <1>3. LogTypeOK'
    BY <1>2, LogAssumption
    DEF Check, fileVars, logHistory, LogInv, LogTypeOK, Days, MDay, NoFile
  <1>4. ASSUME ~met' PROVE Alone' /\ Usable' /\ ~wild'
    <2>1. ~met /\ ~wild /\ Alone /\ Usable
      BY <1>4 DEF Check, fileVars, logHistory, LogInv
    <2>2. Alone'
      BY <1>2, <1>4, <2>1 DEF Check, fileVars, logHistory, Alone, Busy,
         Changing
    <2>3. Usable'
      BY <1>2, <1>3, <1>4, <2>1
      DEF Check, fileVars, logHistory, Alone, Usable, Busy, Changing, LogInv,
          LogTypeOK, NoFile
    <2>4. ~wild'
      BY <1>2, <1>4, <2>1
      DEF Check, fileVars, logHistory, Alone, Usable, Busy, Changing
    <2>5. QED
      BY <2>2, <2>3, <2>4
  <1>5. ASSUME ~met', ~shown' PROVE OneDay' /\ Forward' /\ Dated'
    <2>1. ~met /\ ~shown /\ Alone /\ OneDay /\ Usable /\ Forward /\ Dated
      BY <1>5 DEF Check, fileVars, logHistory, LogInv
    <2>2. OneDay'
      BY <1>2, <1>5, <2>1
      DEF Check, fileVars, logHistory, Alone, OneDay, Using, Busy, Changing,
          LogInv, LogTypeOK
    <2>3. Forward'
      BY <1>2, <1>3, <1>5, <2>1
      DEF Check, fileVars, logHistory, Alone, OneDay, Using, Forward, Busy,
          Changing, LogInv, LogTypeOK, Days, NoFile
    <2>4. Dated'
      BY <1>2, <1>5, <2>1
      DEF Check, fileVars, logHistory, Alone, OneDay, Using, Dated, Busy,
          Changing, LogInv, LogTypeOK
    <2>5. QED
      BY <2>2, <2>3, <2>4
  <1>6. ASSUME ~met', ~shown', ~silent' PROVE Fresh'
    <2>1. /\ ~met /\ ~shown /\ ~silent
          /\ Alone /\ OneDay /\ Forward /\ Dated /\ Fresh
      BY <1>6 DEF Check, fileVars, logHistory, LogInv
    <2>2. ASSUME fp # NoFile PROVE fp.day = time[w]
      <3>1. /\ w \in Busy
            /\ \A v \in Writers : lpc[v] \notin {"close", "path", "open"}
        BY <1>2, <2>1 DEF Alone, Busy, Changing
      <3>2. MDay(time[w]) = MDay(fp.day) /\ fp.day <= time[w]
            /\ time[w] - fp.day < Month
        BY <1>2, <2>1, <2>2, <3>1 DEF Dated, Forward, Fresh
      <3>3. fp.day \in Days /\ time[w] \in Days
        BY <2>1, <2>2, <3>1 DEF Fresh, Forward, Days, LogInv, LogTypeOK
      <3>4. QED
        BY <3>2, <3>3, MDayApart
    <2>3. Busy' = Busy
      BY <1>2 DEF Busy
    <2>4. QED
      BY <1>2, <2>1, <2>2, <2>3 DEF Check, fileVars, Fresh
  <1>7. QED
    BY <1>3, <1>4, <1>5, <1>6 DEF LogInv

LEMMA PathInv ==
  ASSUME LogInv, NEW w \in Writers, Path(w)
  PROVE  LogInv'
  <1> DEFINE there == "open"
  <1>1. Step(w, "path", there)
    BY DEF Path
  <1>2. /\ lpc[w] = "path" /\ lpc'[w] = there
        /\ \A v \in Writers \ {w} : lpc'[v] = lpc[v]
        /\ lpc' \in [Writers -> {"out", "localtime", "test", "date", "close",
                                 "check", "path", "open", "print", "flush"}]
    BY <1>1, StepFacts DEF LogInv
  <1>3. LogTypeOK'
    BY <1>2, LogAssumption
    DEF Path, fileVars, logHistory, LogInv, LogTypeOK, Days, MDay, NoFile
  <1>4. ASSUME ~met' PROVE Alone' /\ Usable' /\ ~wild'
    <2>1. ~met /\ ~wild /\ Alone /\ Usable
      BY <1>4 DEF Path, fileVars, logHistory, LogInv
    <2>2. Alone'
      BY <1>2, <1>4, <2>1 DEF Path, fileVars, logHistory, Alone, Busy, Changing
    <2>3. Usable'
      BY <1>2, <1>3, <1>4, <2>1
      DEF Path, fileVars, logHistory, Alone, Usable, Busy, Changing, LogInv,
          LogTypeOK, NoFile
    <2>4. ~wild'
      BY <1>2, <1>4, <2>1
      DEF Path, fileVars, logHistory, Alone, Usable, Busy, Changing
    <2>5. QED
      BY <2>2, <2>3, <2>4
  <1>5. ASSUME ~met', ~shown' PROVE OneDay' /\ Forward' /\ Dated'
    <2>1. ~met /\ ~shown /\ Alone /\ OneDay /\ Usable /\ Forward /\ Dated
      BY <1>5 DEF Path, fileVars, logHistory, LogInv
    <2>2. OneDay'
      BY <1>2, <1>5, <2>1
      DEF Path, fileVars, logHistory, Alone, OneDay, Using, Busy, Changing,
          LogInv, LogTypeOK
    <2>3. Forward'
      BY <1>2, <1>3, <1>5, <2>1
      DEF Path, fileVars, logHistory, Alone, OneDay, Using, Forward, Busy,
          Changing, LogInv, LogTypeOK, Days, NoFile
    <2>4. Dated'
      BY <1>2, <1>5, <2>1
      DEF Path, fileVars, logHistory, Alone, OneDay, Using, Dated, Busy,
          Changing, LogInv, LogTypeOK
    <2>5. QED
      BY <2>2, <2>3, <2>4
  <1>6. ASSUME ~met', ~shown', ~silent' PROVE Fresh'
    <2>1. /\ ~met /\ ~shown /\ ~silent
          /\ Alone /\ OneDay /\ Forward /\ Dated /\ Fresh
      BY <1>6 DEF Path, fileVars, logHistory, LogInv
    <2>2. QED
      BY <1>2, <1>6, <2>1
      DEF Path, fileVars, logHistory, Alone, OneDay, Using, Forward, Dated,
          Fresh, Busy, Changing, LogInv, LogTypeOK, Days
  <1>7. QED
    BY <1>3, <1>4, <1>5, <1>6 DEF LogInv

LEMMA OpenInv ==
  ASSUME LogInv, NEW w \in Writers, Open(w)
  PROVE  LogInv'
  <1> DEFINE there == "print"
  <1>1. Step(w, "open", there)
    BY DEF Open
  <1>2. /\ lpc[w] = "open" /\ lpc'[w] = there
        /\ \A v \in Writers \ {w} : lpc'[v] = lpc[v]
        /\ lpc' \in [Writers -> {"out", "localtime", "test", "date", "close",
                                 "check", "path", "open", "print", "flush"}]
    BY <1>1, StepFacts DEF LogInv
  <1>3. LogTypeOK'
    <2>1. /\ ids' \in Nat /\ failures' \in 0 .. MaxFailures
          /\ fp' \in [id : 0 .. ids', day : 0 .. LastDay]
          /\ open' \subseteq 1 .. ids'
      <3>1. CASE /\ ids' = ids + 1
                 /\ fp' = [id |-> ids', day |-> path]
                 /\ open' = open \cup {ids'}
                 /\ UNCHANGED failures
        BY <3>1 DEF LogInv, LogTypeOK
      <3>2. CASE /\ failures < MaxFailures /\ failures' = failures + 1
                 /\ fp' = NoFile
                 /\ UNCHANGED <<open, ids>>
        BY <3>2, LogAssumption DEF LogInv, LogTypeOK, NoFile
      <3>3. QED
        BY <3>1, <3>2 DEF Open
    <2>2. tried' \subseteq Writers
      BY DEF Open, LogInv, LogTypeOK
    <2>3. QED
      BY <1>2, <2>1, <2>2 DEF Open, LogInv, LogTypeOK
  <1>4. ASSUME ~met' PROVE Alone' /\ Usable' /\ ~wild'
    <2>1. ~met /\ ~wild /\ Alone /\ Usable
      BY <1>4 DEF Open, fileVars, logHistory, LogInv
    <2>2. Alone'
      BY <1>2, <1>4, <2>1 DEF Open, fileVars, logHistory, Alone, Busy, Changing
    <2>3. Usable'
      BY <1>2, <1>3, <1>4, <2>1
      DEF Open, fileVars, logHistory, Alone, Usable, Busy, Changing, LogInv,
          LogTypeOK, NoFile
    <2>4. ~wild'
      BY <1>2, <1>4, <2>1
      DEF Open, fileVars, logHistory, Alone, Usable, Busy, Changing
    <2>5. QED
      BY <2>2, <2>3, <2>4
  <1>5. ASSUME ~met', ~shown' PROVE OneDay' /\ Forward' /\ Dated'
    <2>1. ~met /\ ~shown /\ Alone /\ OneDay /\ Usable /\ Forward /\ Dated
      BY <1>5 DEF Open, fileVars, logHistory, LogInv
    <2>2. OneDay'
      BY <1>2, <1>5, <2>1
      DEF Open, fileVars, logHistory, Alone, OneDay, Using, Busy, Changing,
          LogInv, LogTypeOK
    <2>3. Forward'
      BY <1>2, <1>3, <1>5, <2>1
      DEF Open, fileVars, logHistory, Alone, OneDay, Using, Forward, Busy,
          Changing, LogInv, LogTypeOK, Days, NoFile
    <2>4. Dated'
      BY <1>2, <1>5, <2>1
      DEF Open, fileVars, logHistory, Alone, OneDay, Using, Dated, Busy,
          Changing, LogInv, LogTypeOK
    <2>5. QED
      BY <2>2, <2>3, <2>4
  <1>6. ASSUME ~met', ~shown', ~silent' PROVE Fresh'
    <2>1. /\ ~met /\ ~shown /\ ~silent
          /\ Alone /\ OneDay /\ Forward /\ Dated /\ Fresh
      BY <1>6 DEF Open, fileVars, logHistory, LogInv
    <2>2. Busy = {w} /\ Busy' = {w}
      BY <1>2, <2>1 DEF Alone, Busy, Changing
    <2>3. fp'.day = time[w] \/ (fp' = NoFile /\ w \in tried')
      BY <1>2, <2>1 DEF Open, OneDay
    <2>4. QED
      BY <1>2, <2>1, <2>2, <2>3, LogAssumption
      DEF Open, Forward, Fresh, Busy, LogInv, LogTypeOK, Days
  <1>7. QED
    BY <1>3, <1>4, <1>5, <1>6 DEF LogInv

LEMMA PrintLineInv ==
  ASSUME LogInv, NEW w \in Writers, PrintLine(w)
  PROVE  LogInv'
  <1> DEFINE there == IF fp = NoFile THEN "out" ELSE "flush"
  <1>1. Step(w, "print", there)
    BY DEF PrintLine
  <1>2. /\ lpc[w] = "print" /\ lpc'[w] = there
        /\ \A v \in Writers \ {w} : lpc'[v] = lpc[v]
        /\ lpc' \in [Writers -> {"out", "localtime", "test", "date", "close",
                                 "check", "path", "open", "print", "flush"}]
    BY <1>1, StepFacts DEF LogInv
  <1>3. LogTypeOK'
    BY <1>2, LogAssumption
    DEF PrintLine, fileVars, logHistory, LogInv, LogTypeOK, Days, MDay, NoFile
  <1>4. ASSUME ~met' PROVE Alone' /\ Usable' /\ ~wild'
    <2>1. ~met /\ ~wild /\ Alone /\ Usable
      BY <1>4 DEF PrintLine, fileVars, logHistory, LogInv
    <2>2. Alone'
      BY <1>2, <1>4, <2>1
      DEF PrintLine, fileVars, logHistory, Alone, Busy, Changing
    <2>3. Usable'
      BY <1>2, <1>3, <1>4, <2>1
      DEF PrintLine, fileVars, logHistory, Alone, Usable, Busy, Changing,
          LogInv, LogTypeOK, NoFile
    <2>4. ~wild'
      <3>1. \A v \in Writers : lpc[v] \notin {"path", "open"}
        BY <1>2, <2>1 DEF Alone, Busy, Changing
      <3>2. fp = NoFile \/ fp.id \in open
        BY <2>1, <3>1 DEF Usable
      <3>3. QED
        BY <2>1, <3>2, ZenonT(30) DEF PrintLine
    <2>5. QED
      BY <2>2, <2>3, <2>4
  <1>5. ASSUME ~met', ~shown' PROVE OneDay' /\ Forward' /\ Dated'
    <2>1. ~met /\ ~shown /\ Alone /\ OneDay /\ Usable /\ Forward /\ Dated
      BY <1>5 DEF PrintLine, fileVars, logHistory, LogInv
    <2>2. OneDay'
      BY <1>2, <1>5, <2>1
      DEF PrintLine, fileVars, logHistory, Alone, OneDay, Using, Busy,
          Changing, LogInv, LogTypeOK
    <2>3. Forward'
      BY <1>2, <1>3, <1>5, <2>1
      DEF PrintLine, fileVars, logHistory, Alone, OneDay, Using, Forward, Busy,
          Changing, LogInv, LogTypeOK, Days, NoFile
    <2>4. Dated'
      BY <1>2, <1>5, <2>1
      DEF PrintLine, fileVars, logHistory, Alone, OneDay, Using, Dated, Busy,
          Changing, LogInv, LogTypeOK
    <2>5. QED
      BY <2>2, <2>3, <2>4
  <1>6. ASSUME ~met', ~shown', ~silent' PROVE Fresh'
    <2>1. /\ ~met /\ ~shown /\ ~silent
          /\ Alone /\ OneDay /\ Forward /\ Dated /\ Fresh
      BY <1>6 DEF PrintLine, fileVars, logHistory, LogInv
    <2>2. QED
      BY <1>2, <1>6, <2>1
      DEF PrintLine, fileVars, logHistory, Alone, OneDay, Using, Forward,
          Dated, Fresh, Busy, Changing, LogInv, LogTypeOK, Days
  <1>7. QED
    BY <1>3, <1>4, <1>5, <1>6 DEF LogInv

LEMMA FlushInv ==
  ASSUME LogInv, NEW w \in Writers, Flush(w)
  PROVE  LogInv'
  <1> DEFINE there == "out"
  <1>1. Step(w, "flush", there)
    BY DEF Flush
  <1>2. /\ lpc[w] = "flush" /\ lpc'[w] = there
        /\ \A v \in Writers \ {w} : lpc'[v] = lpc[v]
        /\ lpc' \in [Writers -> {"out", "localtime", "test", "date", "close",
                                 "check", "path", "open", "print", "flush"}]
    BY <1>1, StepFacts DEF LogInv
  <1>3. LogTypeOK'
    BY <1>2, LogAssumption
    DEF Flush, fileVars, logHistory, LogInv, LogTypeOK, Days, MDay, NoFile
  <1>4. ASSUME ~met' PROVE Alone' /\ Usable' /\ ~wild'
    <2>1. ~met /\ ~wild /\ Alone /\ Usable
      BY <1>4 DEF Flush, fileVars, logHistory, LogInv
    <2>2. Alone'
      BY <1>2, <1>4, <2>1 DEF Flush, fileVars, logHistory, Alone, Busy,
         Changing
    <2>3. Usable'
      BY <1>2, <1>3, <1>4, <2>1
      DEF Flush, fileVars, logHistory, Alone, Usable, Busy, Changing, LogInv,
          LogTypeOK, NoFile
    <2>4. ~wild'
      <3>1. \A v \in Writers : lpc[v] \notin {"path", "open"}
        BY <1>2, <2>1 DEF Alone, Busy, Changing
      <3>2. fp # NoFile /\ fp.id \in open
        BY <1>2, <2>1, <3>1 DEF Usable
      <3>3. QED
        BY <2>1, <3>2, ZenonT(30) DEF Flush
    <2>5. QED
      BY <2>2, <2>3, <2>4
  <1>5. ASSUME ~met', ~shown' PROVE OneDay' /\ Forward' /\ Dated'
    <2>1. ~met /\ ~shown /\ Alone /\ OneDay /\ Usable /\ Forward /\ Dated
      BY <1>5 DEF Flush, fileVars, logHistory, LogInv
    <2>2. OneDay'
      BY <1>2, <1>5, <2>1
      DEF Flush, fileVars, logHistory, Alone, OneDay, Using, Busy, Changing,
          LogInv, LogTypeOK
    <2>3. Forward'
      BY <1>2, <1>3, <1>5, <2>1
      DEF Flush, fileVars, logHistory, Alone, OneDay, Using, Forward, Busy,
          Changing, LogInv, LogTypeOK, Days, NoFile
    <2>4. Dated'
      BY <1>2, <1>5, <2>1
      DEF Flush, fileVars, logHistory, Alone, OneDay, Using, Dated, Busy,
          Changing, LogInv, LogTypeOK
    <2>5. QED
      BY <2>2, <2>3, <2>4
  <1>6. ASSUME ~met', ~shown', ~silent' PROVE Fresh'
    <2>1. /\ ~met /\ ~shown /\ ~silent
          /\ Alone /\ OneDay /\ Forward /\ Dated /\ Fresh
      BY <1>6 DEF Flush, fileVars, logHistory, LogInv
    <2>2. QED
      BY <1>2, <1>6, <2>1
      DEF Flush, fileVars, logHistory, Alone, OneDay, Using, Forward, Dated,
          Fresh, Busy, Changing, LogInv, LogTypeOK, Days
  <1>7. QED
    BY <1>3, <1>4, <1>5, <1>6 DEF LogInv

LEMMA MidnightInv == LogInv /\ Midnight => LogInv'
  <1> SUFFICES ASSUME LogInv, Midnight PROVE LogInv'
    OBVIOUS
  <1>1. LogTypeOK'
    <2>1. today' \in Days
      BY LogAssumption DEF Midnight, LogInv, LogTypeOK, Days
    <2>2. QED
      BY <2>1 DEF Midnight, fileVars, logHistory, LogInv, LogTypeOK
  <1>2. Busy' = Busy /\ Changing' = Changing
    BY DEF Midnight, Busy, Changing
  <1>3. today < today'
    BY DEF Midnight, LogInv, LogTypeOK, Days
  <1>4. /\ ~met' => Alone' /\ Usable' /\ ~wild'
        /\ ~met' /\ ~shown' => OneDay' /\ Dated'
    BY <1>2 DEF Midnight, fileVars, logHistory, LogInv, Alone, OneDay, Using,
       Usable, Dated, MDay
  <1>5. ~met' /\ ~shown' => Forward'
    BY <1>2, <1>3
    DEF Midnight, fileVars, logHistory, LogInv, LogTypeOK, Forward,
                      Days, Busy
  <1>6. ~met' /\ ~shown' /\ ~silent' => Fresh'
    BY <1>2 DEF Midnight, fileVars, logHistory, LogInv, Fresh
  <1>7. QED
    BY <1>1, <1>4, <1>5, <1>6 DEF LogInv

\* lsa changes tm alone, which nobody uses unless the step is on record.
LEMMA DisplayInv == LogInv /\ Display => LogInv'
  <1> SUFFICES ASSUME LogInv, Display PROVE LogInv'
    OBVIOUS
  <1>1. /\ tm' \in Days /\ shown' \in BOOLEAN
        /\ shown' = shown \/ shown' = TRUE
        /\ ~shown' => ~shown /\ (tm' = tm \/ \A w \in Writers : ~Using(w))
        /\ UNCHANGED <<today, date, fp, path, open, ids, lpc, time, lines,
                       failures, last, met, tried, silent, wild, astray>>
    BY DEF Display, LogInv, LogTypeOK
  <1>2. LogTypeOK'
    BY <1>1 DEF LogInv, LogTypeOK, Days
  <1>3. Busy' = Busy /\ Changing' = Changing
    BY <1>1 DEF Busy, Changing
  <1>4. ~met' => Alone' /\ Usable' /\ ~wild'
    BY <1>1, <1>3 DEF LogInv, Alone, Usable
  <1>5. ~met' /\ ~shown' => OneDay' /\ Forward' /\ Dated'
    BY <1>1, <1>3 DEF LogInv, OneDay, Using, Forward, Dated, MDay
  <1>6. ~met' /\ ~shown' /\ ~silent' => Fresh'
    BY <1>1, <1>3 DEF LogInv, Fresh
  <1>7. QED
    BY <1>2, <1>4, <1>5, <1>6 DEF LogInv

LEMMA LogStutter == LogInv /\ UNCHANGED logVars => LogInv'
  BY
  DEF logVars, fileVars, logHistory, LogInv, LogTypeOK, Alone, OneDay, Using,
      Usable, Forward, Dated, Fresh, Busy, Changing, MDay

LEMMA LogInvNext == LogInv /\ [LogNext]_logVars => LogInv'
  <1> SUFFICES ASSUME LogInv, LogNext PROVE LogInv'
    BY LogStutter
  <1>1. CASE Midnight \/ Display
    BY <1>1, MidnightInv, DisplayInv
  <1>2. ASSUME NEW w \in Writers, Begin(w) \/ Line(w) PROVE LogInv'
    BY <1>2, BeginInv, LocaltimeInv, TestInv, SetDateInv, CloseInv, CheckInv,
       PathInv, OpenInv, PrintLineInv, FlushInv DEF Line
  <1>3. QED
    BY <1>1, <1>2 DEF LogNext

LEMMA LogInvProperties == LogInv => FileSafe /\ RightDay
  BY DEF LogInv, Fresh, FileSafe, RightDay

\* No closed file is used unless a change of file meets another line, whatever
\* the number of threads, days, lines and failed opens.
THEOREM FileIsSafe == LogSpec => []FileSafe
  BY LogInitInv, LogInvNext, LogInvProperties, PTL DEF LogSpec

\* With the same proviso, and a line a month, every line goes to the file of
\* its own day unless lsa changes the day between a line's call of localtime
\* and its use.
THEOREM DayIsRight == LogSpec => []RightDay
  BY LogInitInv, LogInvNext, LogInvProperties, PTL DEF LogSpec

-----------------------------------------------------------------------------
(* The start                                                               *)


\* Main creates the threads in the order of Rank.
InOrder == \A t \in Threads : pc[t] = "none" <=> created < Rank[t]

\* Nothing that is pending has been due for longer than worst.
OnTime == \A t \in Pending : left[t] >= -worst

\* Only a sleeping thread has time left, and no more than its sleep.
LeftBound ==
  /\ \A t \in Threads : pc[t] = "none" => left[t] = 0
  /\ \A t \in Threads : pc[t] \in {"start", "assign"} => left[t] <= 0
  /\ pc["alarm"] = "sleep" => left["alarm"] <= AlarmSleep

\* A list is there when its thread is past making it.
Made ==
  /\ nodeHead <=> pc["tcp"] \in {"assign", "loop"}
  /\ nodeHeadP <=> pc["tcp"] = "loop"
  /\ alarmHeadP <=> pc["alarm"] = "loop"
  /\ pc["tcp"] # "sleep"

\* thread_lora in its pulse, and after it, against thread_tcp.
PulseGap ==
  /\ pc["lora"] = "sleep" /\ pc["tcp"] = "start" =>
       left["lora"] >= PulseTime + left["tcp"]
  /\ pc["lora"] = "loop" /\ pc["tcp"] = "start" => worst >= PulseTime

\* A user x of both lists, in its sleep of s, against their makers.
Gap(x, s) ==
  pc[x] = "sleep" =>
    /\ pc["tcp"] = "start" => left[x] >= s + left["tcp"]
    /\ pc["tcp"] = "assign" => left[x] >= s - worst + left["tcp"]
    /\ pc["alarm"] = "start" => left[x] >= s + left["alarm"]
    /\ pc["alarm"] = "sleep" =>
         left[x] >= s - AlarmSleep - worst + left["alarm"]
    /\ pc["alarm"] = "assign" =>
         left[x] >= s - AlarmSleep - 2 * worst + left["alarm"]

StartInv ==
  /\ StartTypeOK
  /\ InOrder /\ OnTime /\ LeftBound /\ Made /\ PulseGap
  /\ Gap("event", EventSleep) /\ Gap("data", DataSleep)
  /\ NoNullList

LEMMA Sleeps ==
  /\ PulseTime \in Nat /\ AlarmSleep \in Nat /\ EventSleep \in Nat
  /\ DataSleep \in Nat
  /\ AlarmSleep <= EventSleep /\ EventSleep <= DataSleep
  BY SleepsAssumption

LEMMA StartInitInv == StartInit => StartInv
  <1> SUFFICES ASSUME StartInit PROVE StartInv
    OBVIOUS
  <1>1. \A t \in Threads : pc[t] = "none"
    BY DEF StartInit
  <1>2. \A t \in Threads \cup {"main"} : left[t] = 0
    BY DEF StartInit
  <1>3. StartTypeOK
    <2>1. worst \in Nat /\ created \in 0 .. 9
      BY DEF StartInit
    <2>2. /\ pc \in [Threads -> {"none", "start", "sleep", "assign", "loop"}]
          /\ left \in [Threads \cup {"main"} -> Int]
      BY DEF StartInit
    <2>3. QED
      BY <2>1, <2>2 DEF StartInit, StartTypeOK
  <1>4. InOrder
    BY <1>1 DEF StartInit, InOrder, Threads, Rank
  <1>5. OnTime
    BY <1>2 DEF StartInit, OnTime, Pending
  <1>6. LeftBound /\ Made /\ PulseGap
    BY <1>1 DEF StartInit, LeftBound, Made, PulseGap, Threads
  <1>7. Gap("event", EventSleep) /\ Gap("data", DataSleep)
    BY <1>1 DEF Gap, Threads
  <1>8. NoNullList
    BY DEF StartInit, NoNullList
  <1>9. QED
    BY <1>3, <1>4, <1>5, <1>6, <1>7, <1>8 DEF StartInv

\* What the step of a thread changes.
LEMMA GoSteps ==
  ASSUME StartTypeOK, NEW t \in Threads, NEW l \in {"sleep", "assign", "loop"},
         NEW d \in Nat, Go(t, l, d)
  PROVE  /\ left[t] <= 0
         /\ pc' \in [Threads -> {"none", "start", "sleep", "assign", "loop"}]
         /\ left' \in [Threads \cup {"main"} -> Int]
         /\ pc'[t] = l /\ left'[t] = d
         /\ \A u \in Threads \ {t} : pc'[u] = pc[u]
         /\ \A u \in (Threads \cup {"main"}) \ {t} : left'[u] = left[u]
         /\ created' = created /\ exited' = exited /\ worst' = worst
  BY DEF Go, StartTypeOK

LEMMA GoKeeps ==
  ASSUME StartInv, NEW t \in Threads, NEW l \in {"sleep", "assign", "loop"},
         NEW d \in Nat, pc[t] \in {"start", "sleep", "assign"}, Go(t, l, d)
  PROVE  /\ InOrder' /\ OnTime'
         /\ left[t] \in Int /\ -worst <= left[t] /\ left[t] <= 0
         /\ \A u \in Threads : left[u] \in Int
         /\ worst \in Nat
  <1> USE GoSteps DEF StartInv
  <1>1. InOrder'
    BY DEF InOrder
  <1>2. OnTime'
    BY DEF OnTime, Pending, StartTypeOK
  <1>3. /\ left[t] \in Int /\ -worst <= left[t] /\ left[t] <= 0
        /\ \A u \in Threads : left[u] \in Int
        /\ worst \in Nat
    BY DEF OnTime, Pending, StartTypeOK
  <1>4. QED
    BY <1>1, <1>2, <1>3

\* A thread that uses both lists finds them, or a step was late.
LEMMA UseOk ==
  ASSUME StartInv, NEW x \in {"event", "data"}, NEW s \in Nat, s >= EventSleep,
         pc[x] = "sleep", left[x] <= 0, Gap(x, s)
  PROVE  (nodeHeadP /\ alarmHeadP) \/ 3 * worst >= EventSleep - AlarmSleep
  <1>1. /\ {"tcp", "alarm", x} \subseteq Threads
        /\ pc["tcp"] # "none" /\ pc["alarm"] # "none"
        /\ pc["tcp"] \in {"start", "assign", "loop"}
        /\ pc["alarm"] \in {"start", "sleep", "assign", "loop"}
    BY DEF StartInv, StartTypeOK, InOrder, Made, Threads, Rank
  <1>2. \A t \in {"tcp", "alarm"} :
          pc[t] \in {"start", "sleep", "assign"} => left[t] >= -worst
    BY <1>1 DEF StartInv, OnTime, Pending
  <1>3. worst \in Nat /\ left["tcp"] \in Int /\ left["alarm"] \in Int
        /\ left[x] \in Int
    BY <1>1 DEF StartInv, StartTypeOK
  <1>4. CASE pc["tcp"] \in {"start", "assign"}
    BY <1>1, <1>2, <1>3, <1>4, Sleeps DEF Gap
  <1>5. CASE pc["alarm"] \in {"start", "sleep", "assign"}
    BY <1>1, <1>2, <1>3, <1>5, Sleeps DEF Gap
  <1>6. QED
    BY <1>1, <1>4, <1>5 DEF StartInv, Made

LEMMA TcpListInv == StartInv /\ TcpList => StartInv'
  <1> SUFFICES ASSUME StartInv, TcpList PROVE StartInv'
    OBVIOUS
  <1>1. "tcp" \in Threads /\ Go("tcp", "assign", 0)
    BY DEF TcpList, Threads
  <1>2. /\ InOrder' /\ OnTime'
        /\ left["tcp"] \in Int /\ -worst <= left["tcp"] /\ left["tcp"] <= 0
        /\ \A u \in Threads : left[u] \in Int
        /\ worst \in Nat
    BY <1>1, GoKeeps, Sleeps DEF TcpList
  <1>3. StartTypeOK'
    BY <1>1, GoSteps, Sleeps
    DEF TcpList, StartInv, StartTypeOK, listVars
  <1>4. LeftBound' /\ Made' /\ PulseGap' /\ Gap("event", EventSleep)'
        /\ Gap("data", DataSleep)' /\ NoNullList'
    <2>1. /\ pc'["tcp"] = "assign" /\ left'["tcp"] = 0
          /\ \A u \in Threads \ {"tcp"} : pc'[u] = pc[u] /\ left'[u] = left[u]
          /\ worst' = worst
      BY <1>1, GoSteps, Sleeps DEF StartInv
    <2>2. LeftBound'
      BY <2>1, Sleeps DEF TcpList, StartInv, Threads, LeftBound
    <2>3. Made' /\ PulseGap'
      BY <1>2, <2>1, Sleeps
      DEF TcpList, StartInv, Threads, Made, PulseGap, listVars
    <2>4. Gap("event", EventSleep)' /\ Gap("data", DataSleep)'
      BY <1>2, <2>1, Sleeps DEF TcpList, StartInv, Threads, LeftBound, Gap
    <2>5. NoNullList'
      BY <2>1 DEF TcpList, StartInv, NoNullList, listVars
    <2>6. QED
      BY <2>2, <2>3, <2>4, <2>5
  <1>5. QED
    BY <1>2, <1>3, <1>4 DEF StartInv

LEMMA TcpListPInv == StartInv /\ TcpListP => StartInv'
  <1> SUFFICES ASSUME StartInv, TcpListP PROVE StartInv'
    OBVIOUS
  <1>1. "tcp" \in Threads /\ Go("tcp", "loop", 0)
    BY DEF TcpListP, Threads
  <1>2. /\ InOrder' /\ OnTime'
        /\ left["tcp"] \in Int /\ -worst <= left["tcp"] /\ left["tcp"] <= 0
        /\ \A u \in Threads : left[u] \in Int
        /\ worst \in Nat
    BY <1>1, GoKeeps, Sleeps DEF TcpListP
  <1>3. StartTypeOK'
    BY <1>1, GoSteps, Sleeps
    DEF TcpListP, StartInv, StartTypeOK, listVars
  <1>4. LeftBound' /\ Made' /\ PulseGap' /\ Gap("event", EventSleep)'
        /\ Gap("data", DataSleep)' /\ NoNullList'
    <2>1. /\ pc'["tcp"] = "loop" /\ left'["tcp"] = 0
          /\ \A u \in Threads \ {"tcp"} : pc'[u] = pc[u] /\ left'[u] = left[u]
          /\ worst' = worst
      BY <1>1, GoSteps, Sleeps DEF StartInv
    <2>2. LeftBound'
      BY <2>1, Sleeps DEF TcpListP, StartInv, Threads, LeftBound
    <2>3. Made' /\ PulseGap'
      BY <1>2, <2>1, Sleeps
      DEF TcpListP, StartInv, Threads, Made, PulseGap, listVars
    <2>4. Gap("event", EventSleep)' /\ Gap("data", DataSleep)'
      BY <1>2, <2>1, Sleeps DEF TcpListP, StartInv, Threads, LeftBound, Gap
    <2>5. NoNullList'
      BY <2>1 DEF TcpListP, StartInv, NoNullList, listVars
    <2>6. QED
      BY <2>2, <2>3, <2>4, <2>5
  <1>5. QED
    BY <1>2, <1>3, <1>4 DEF StartInv

LEMMA LoraPulseInv == StartInv /\ LoraPulse => StartInv'
  <1> SUFFICES ASSUME StartInv, LoraPulse PROVE StartInv'
    OBVIOUS
  <1>1. "lora" \in Threads /\ Go("lora", "sleep", PulseTime)
    BY DEF LoraPulse, Threads
  <1>2. /\ InOrder' /\ OnTime'
        /\ left["lora"] \in Int /\ -worst <= left["lora"] /\ left["lora"] <= 0
        /\ \A u \in Threads : left[u] \in Int
        /\ worst \in Nat
    BY <1>1, GoKeeps, Sleeps DEF LoraPulse
  <1>3. StartTypeOK'
    BY <1>1, GoSteps, Sleeps
    DEF LoraPulse, StartInv, StartTypeOK, listVars
  <1>4. LeftBound' /\ Made' /\ PulseGap' /\ Gap("event", EventSleep)'
        /\ Gap("data", DataSleep)' /\ NoNullList'
    <2>1. /\ pc'["lora"] = "sleep" /\ left'["lora"] = PulseTime
          /\ \A u \in Threads \ {"lora"} : pc'[u] = pc[u] /\ left'[u] = left[u]
          /\ worst' = worst
      BY <1>1, GoSteps, Sleeps DEF StartInv
    <2>2. LeftBound'
      BY <2>1, Sleeps DEF LoraPulse, StartInv, Threads, LeftBound
    <2>3. Made' /\ PulseGap'
      <3>1. Made'
        BY <2>1 DEF LoraPulse, StartInv, Threads, Made, listVars
      <3>2. PulseGap'
        BY <1>2, <2>1, Sleeps
        DEF LoraPulse, StartInv, Threads, LeftBound, PulseGap
      <3>3. QED
        BY <3>1, <3>2
    <2>4. Gap("event", EventSleep)' /\ Gap("data", DataSleep)'
      BY <1>2, <2>1, Sleeps DEF LoraPulse, StartInv, Threads, LeftBound, Gap
    <2>5. NoNullList'
      BY <2>1 DEF LoraPulse, StartInv, NoNullList, listVars
    <2>6. QED
      BY <2>2, <2>3, <2>4, <2>5
  <1>5. QED
    BY <1>2, <1>3, <1>4 DEF StartInv

LEMMA LoraLoopInv == StartInv /\ LoraLoop => StartInv'
  <1> SUFFICES ASSUME StartInv, LoraLoop PROVE StartInv'
    OBVIOUS
  <1>1. "lora" \in Threads /\ Go("lora", "loop", 0)
    BY DEF LoraLoop, Threads
  <1>2. /\ InOrder' /\ OnTime'
        /\ left["lora"] \in Int /\ -worst <= left["lora"] /\ left["lora"] <= 0
        /\ \A u \in Threads : left[u] \in Int
        /\ worst \in Nat
    BY <1>1, GoKeeps, Sleeps DEF LoraLoop
  <1>3. StartTypeOK'
    BY <1>1, GoSteps, Sleeps
    DEF LoraLoop, StartInv, StartTypeOK, listVars
  <1>4. LeftBound' /\ Made' /\ PulseGap' /\ Gap("event", EventSleep)'
        /\ Gap("data", DataSleep)' /\ NoNullList'
    <2>1. /\ pc'["lora"] = "loop" /\ left'["lora"] = 0
          /\ \A u \in Threads \ {"lora"} : pc'[u] = pc[u] /\ left'[u] = left[u]
          /\ worst' = worst
      BY <1>1, GoSteps, Sleeps DEF StartInv
    <2>2. LeftBound'
      BY <2>1, Sleeps DEF LoraLoop, StartInv, Threads, LeftBound
    <2>3. Made' /\ PulseGap'
      <3>1. Made'
        BY <2>1 DEF LoraLoop, StartInv, Threads, Made, listVars
      <3>2. PulseGap'
        <4>1. pc["tcp"] = "start" => left["tcp"] >= -worst
          BY DEF StartInv, OnTime, Pending, Threads
        <4>2. pc["lora"] = "sleep" /\ left["lora"] <= 0
          BY <1>2 DEF LoraLoop
        <4>3. "tcp" \in Threads /\ left["tcp"] \in Int
          BY <1>2 DEF Threads
        <4>4. pc["tcp"] = "start" => worst >= PulseTime
          BY <1>2, <4>1, <4>2, <4>3, Sleeps DEF StartInv, PulseGap
        <4>5. QED
          BY <2>1, <4>3, <4>4 DEF PulseGap
      <3>3. QED
        BY <3>1, <3>2
    <2>4. Gap("event", EventSleep)' /\ Gap("data", DataSleep)'
      BY <1>2, <2>1, Sleeps DEF LoraLoop, StartInv, Threads, LeftBound, Gap
    <2>5. NoNullList'
      BY <2>1 DEF LoraLoop, StartInv, NoNullList, listVars
    <2>6. QED
      BY <2>2, <2>3, <2>4, <2>5
  <1>5. QED
    BY <1>2, <1>3, <1>4 DEF StartInv

LEMMA AlarmWaitInv == StartInv /\ AlarmWait => StartInv'
  <1> SUFFICES ASSUME StartInv, AlarmWait PROVE StartInv'
    OBVIOUS
  <1>1. "alarm" \in Threads /\ Go("alarm", "sleep", AlarmSleep)
    BY DEF AlarmWait, Threads
  <1>2. /\ InOrder' /\ OnTime'
        /\ left["alarm"] \in Int
        /\ -worst <= left["alarm"] /\ left["alarm"] <= 0
        /\ \A u \in Threads : left[u] \in Int
        /\ worst \in Nat
    BY <1>1, GoKeeps, Sleeps DEF AlarmWait
  <1>3. StartTypeOK'
    BY <1>1, GoSteps, Sleeps
    DEF AlarmWait, StartInv, StartTypeOK, listVars
  <1>4. LeftBound' /\ Made' /\ PulseGap' /\ Gap("event", EventSleep)'
        /\ Gap("data", DataSleep)' /\ NoNullList'
    <2>1. /\ pc'["alarm"] = "sleep" /\ left'["alarm"] = AlarmSleep
          /\ \A u \in Threads \ {"alarm"} : pc'[u] = pc[u] /\ left'[u] = left[u]
          /\ worst' = worst
      BY <1>1, GoSteps, Sleeps DEF StartInv
    <2>2. LeftBound'
      BY <2>1, Sleeps DEF AlarmWait, StartInv, Threads, LeftBound
    <2>3. Made' /\ PulseGap'
      BY <1>2, <2>1, Sleeps
      DEF AlarmWait, StartInv, Threads, Made, PulseGap, listVars
    <2>4. Gap("event", EventSleep)' /\ Gap("data", DataSleep)'
      BY <1>2, <2>1, Sleeps DEF AlarmWait, StartInv, Threads, LeftBound, Gap
    <2>5. NoNullList'
      BY <2>1 DEF AlarmWait, StartInv, NoNullList, listVars
    <2>6. QED
      BY <2>2, <2>3, <2>4, <2>5
  <1>5. QED
    BY <1>2, <1>3, <1>4 DEF StartInv

LEMMA AlarmListInv == StartInv /\ AlarmList => StartInv'
  <1> SUFFICES ASSUME StartInv, AlarmList PROVE StartInv'
    OBVIOUS
  <1>1. "alarm" \in Threads /\ Go("alarm", "assign", 0)
    BY DEF AlarmList, Threads
  <1>2. /\ InOrder' /\ OnTime'
        /\ left["alarm"] \in Int
        /\ -worst <= left["alarm"] /\ left["alarm"] <= 0
        /\ \A u \in Threads : left[u] \in Int
        /\ worst \in Nat
    BY <1>1, GoKeeps, Sleeps DEF AlarmList
  <1>3. StartTypeOK'
    BY <1>1, GoSteps, Sleeps
    DEF AlarmList, StartInv, StartTypeOK, listVars
  <1>4. LeftBound' /\ Made' /\ PulseGap' /\ Gap("event", EventSleep)'
        /\ Gap("data", DataSleep)' /\ NoNullList'
    <2>1. /\ pc'["alarm"] = "assign" /\ left'["alarm"] = 0
          /\ \A u \in Threads \ {"alarm"} : pc'[u] = pc[u] /\ left'[u] = left[u]
          /\ worst' = worst
      BY <1>1, GoSteps, Sleeps DEF StartInv
    <2>2. LeftBound'
      BY <2>1, Sleeps DEF AlarmList, StartInv, Threads, LeftBound
    <2>3. Made' /\ PulseGap'
      BY <1>2, <2>1, Sleeps
      DEF AlarmList, StartInv, Threads, Made, PulseGap, listVars
    <2>4. Gap("event", EventSleep)' /\ Gap("data", DataSleep)'
      BY <1>2, <2>1, Sleeps DEF AlarmList, StartInv, Threads, LeftBound, Gap
    <2>5. NoNullList'
      BY <2>1 DEF AlarmList, StartInv, NoNullList, listVars
    <2>6. QED
      BY <2>2, <2>3, <2>4, <2>5
  <1>5. QED
    BY <1>2, <1>3, <1>4 DEF StartInv

LEMMA AlarmListPInv == StartInv /\ AlarmListP => StartInv'
  <1> SUFFICES ASSUME StartInv, AlarmListP PROVE StartInv'
    OBVIOUS
  <1>1. "alarm" \in Threads /\ Go("alarm", "loop", 0)
    BY DEF AlarmListP, Threads
  <1>2. /\ InOrder' /\ OnTime'
        /\ left["alarm"] \in Int
        /\ -worst <= left["alarm"] /\ left["alarm"] <= 0
        /\ \A u \in Threads : left[u] \in Int
        /\ worst \in Nat
    BY <1>1, GoKeeps, Sleeps DEF AlarmListP
  <1>3. StartTypeOK'
    BY <1>1, GoSteps, Sleeps
    DEF AlarmListP, StartInv, StartTypeOK, listVars
  <1>4. LeftBound' /\ Made' /\ PulseGap' /\ Gap("event", EventSleep)'
        /\ Gap("data", DataSleep)' /\ NoNullList'
    <2>1. /\ pc'["alarm"] = "loop" /\ left'["alarm"] = 0
          /\ \A u \in Threads \ {"alarm"} : pc'[u] = pc[u] /\ left'[u] = left[u]
          /\ worst' = worst
      BY <1>1, GoSteps, Sleeps DEF StartInv
    <2>2. LeftBound'
      BY <2>1, Sleeps DEF AlarmListP, StartInv, Threads, LeftBound
    <2>3. Made' /\ PulseGap'
      BY <1>2, <2>1, Sleeps
      DEF AlarmListP, StartInv, Threads, Made, PulseGap, listVars
    <2>4. Gap("event", EventSleep)' /\ Gap("data", DataSleep)'
      BY <1>2, <2>1, Sleeps DEF AlarmListP, StartInv, Threads, LeftBound, Gap
    <2>5. NoNullList'
      BY <2>1 DEF AlarmListP, StartInv, NoNullList, listVars
    <2>6. QED
      BY <2>2, <2>3, <2>4, <2>5
  <1>5. QED
    BY <1>2, <1>3, <1>4 DEF StartInv

LEMMA EventWaitInv == StartInv /\ EventWait => StartInv'
  <1> SUFFICES ASSUME StartInv, EventWait PROVE StartInv'
    OBVIOUS
  <1>1. "event" \in Threads /\ Go("event", "sleep", EventSleep)
    BY DEF EventWait, Threads
  <1>2. /\ InOrder' /\ OnTime'
        /\ left["event"] \in Int
        /\ -worst <= left["event"] /\ left["event"] <= 0
        /\ \A u \in Threads : left[u] \in Int
        /\ worst \in Nat
    BY <1>1, GoKeeps, Sleeps DEF EventWait
  <1>3. StartTypeOK'
    BY <1>1, GoSteps, Sleeps
    DEF EventWait, StartInv, StartTypeOK, listVars
  <1>4. LeftBound' /\ Made' /\ PulseGap' /\ Gap("event", EventSleep)'
        /\ Gap("data", DataSleep)' /\ NoNullList'
    <2>1. /\ pc'["event"] = "sleep" /\ left'["event"] = EventSleep
          /\ \A u \in Threads \ {"event"} : pc'[u] = pc[u] /\ left'[u] = left[u]
          /\ worst' = worst
      BY <1>1, GoSteps, Sleeps DEF StartInv
    <2>2. LeftBound'
      BY <2>1, Sleeps DEF EventWait, StartInv, Threads, LeftBound
    <2>3. Made' /\ PulseGap'
      BY <1>2, <2>1, Sleeps
      DEF EventWait, StartInv, Threads, Made, PulseGap, listVars
    <2>4. Gap("event", EventSleep)' /\ Gap("data", DataSleep)'
      BY <1>2, <2>1, Sleeps DEF EventWait, StartInv, Threads, LeftBound, Gap
    <2>5. NoNullList'
      BY <2>1 DEF EventWait, StartInv, NoNullList, listVars
    <2>6. QED
      BY <2>2, <2>3, <2>4, <2>5
  <1>5. QED
    BY <1>2, <1>3, <1>4 DEF StartInv

LEMMA EventInsertInv == StartInv /\ EventInsert => StartInv'
  <1> SUFFICES ASSUME StartInv, EventInsert PROVE StartInv'
    OBVIOUS
  <1>1. "event" \in Threads /\ Go("event", "loop", 0)
    BY DEF EventInsert, Threads
  <1>2. /\ InOrder' /\ OnTime'
        /\ left["event"] \in Int
        /\ -worst <= left["event"] /\ left["event"] <= 0
        /\ \A u \in Threads : left[u] \in Int
        /\ worst \in Nat
    BY <1>1, GoKeeps, Sleeps DEF EventInsert
  <1>3. StartTypeOK'
    BY <1>1, GoSteps, Sleeps
    DEF EventInsert, StartInv, StartTypeOK, listVars, Use
  <1>4. LeftBound' /\ Made' /\ PulseGap' /\ Gap("event", EventSleep)'
        /\ Gap("data", DataSleep)'
    <2>1. /\ pc'["event"] = "loop" /\ left'["event"] = 0
          /\ \A u \in Threads \ {"event"} : pc'[u] = pc[u] /\ left'[u] = left[u]
          /\ worst' = worst
      BY <1>1, GoSteps, Sleeps DEF StartInv
    <2>2. LeftBound'
      BY <2>1, Sleeps DEF EventInsert, StartInv, Threads, LeftBound
    <2>3. Made' /\ PulseGap'
      BY <1>2, <2>1, Sleeps
      DEF EventInsert, StartInv, Threads, Made, PulseGap, listVars
    <2>4. Gap("event", EventSleep)' /\ Gap("data", DataSleep)'
      BY <1>2, <2>1, Sleeps DEF EventInsert, StartInv, Threads, LeftBound, Gap
    <2>5. QED
      BY <2>2, <2>3, <2>4
  <1>5. (nodeHeadP /\ alarmHeadP) \/ 3 * worst >= EventSleep - AlarmSleep
    BY <1>1, GoSteps, UseOk, Sleeps DEF EventInsert, StartInv
  <1>6. NoNullList'
    BY <1>1, <1>5, GoSteps DEF EventInsert, Use, NoNullList, StartInv
  <1>7. QED
    BY <1>2, <1>3, <1>4, <1>6 DEF StartInv

LEMMA DataWaitInv == StartInv /\ DataWait => StartInv'
  <1> SUFFICES ASSUME StartInv, DataWait PROVE StartInv'
    OBVIOUS
  <1>1. "data" \in Threads /\ Go("data", "sleep", DataSleep)
    BY DEF DataWait, Threads
  <1>2. /\ InOrder' /\ OnTime'
        /\ left["data"] \in Int /\ -worst <= left["data"] /\ left["data"] <= 0
        /\ \A u \in Threads : left[u] \in Int
        /\ worst \in Nat
    BY <1>1, GoKeeps, Sleeps DEF DataWait
  <1>3. StartTypeOK'
    BY <1>1, GoSteps, Sleeps
    DEF DataWait, StartInv, StartTypeOK, listVars
  <1>4. LeftBound' /\ Made' /\ PulseGap' /\ Gap("event", EventSleep)'
        /\ Gap("data", DataSleep)' /\ NoNullList'
    <2>1. /\ pc'["data"] = "sleep" /\ left'["data"] = DataSleep
          /\ \A u \in Threads \ {"data"} : pc'[u] = pc[u] /\ left'[u] = left[u]
          /\ worst' = worst
      BY <1>1, GoSteps, Sleeps DEF StartInv
    <2>2. LeftBound'
      BY <2>1, Sleeps DEF DataWait, StartInv, Threads, LeftBound
    <2>3. Made' /\ PulseGap'
      BY <1>2, <2>1, Sleeps
      DEF DataWait, StartInv, Threads, Made, PulseGap, listVars
    <2>4. Gap("event", EventSleep)' /\ Gap("data", DataSleep)'
      BY <1>2, <2>1, Sleeps DEF DataWait, StartInv, Threads, LeftBound, Gap
    <2>5. NoNullList'
      BY <2>1 DEF DataWait, StartInv, NoNullList, listVars
    <2>6. QED
      BY <2>2, <2>3, <2>4, <2>5
  <1>5. QED
    BY <1>2, <1>3, <1>4 DEF StartInv

LEMMA DataInsertInv == StartInv /\ DataInsert => StartInv'
  <1> SUFFICES ASSUME StartInv, DataInsert PROVE StartInv'
    OBVIOUS
  <1>1. "data" \in Threads /\ Go("data", "loop", 0)
    BY DEF DataInsert, Threads
  <1>2. /\ InOrder' /\ OnTime'
        /\ left["data"] \in Int /\ -worst <= left["data"] /\ left["data"] <= 0
        /\ \A u \in Threads : left[u] \in Int
        /\ worst \in Nat
    BY <1>1, GoKeeps, Sleeps DEF DataInsert
  <1>3. StartTypeOK'
    BY <1>1, GoSteps, Sleeps
    DEF DataInsert, StartInv, StartTypeOK, listVars, Use
  <1>4. LeftBound' /\ Made' /\ PulseGap' /\ Gap("event", EventSleep)'
        /\ Gap("data", DataSleep)'
    <2>1. /\ pc'["data"] = "loop" /\ left'["data"] = 0
          /\ \A u \in Threads \ {"data"} : pc'[u] = pc[u] /\ left'[u] = left[u]
          /\ worst' = worst
      BY <1>1, GoSteps, Sleeps DEF StartInv
    <2>2. LeftBound'
      BY <2>1, Sleeps DEF DataInsert, StartInv, Threads, LeftBound
    <2>3. Made' /\ PulseGap'
      BY <1>2, <2>1, Sleeps
      DEF DataInsert, StartInv, Threads, Made, PulseGap, listVars
    <2>4. Gap("event", EventSleep)' /\ Gap("data", DataSleep)'
      BY <1>2, <2>1, Sleeps DEF DataInsert, StartInv, Threads, LeftBound, Gap
    <2>5. QED
      BY <2>2, <2>3, <2>4
  <1>5. (nodeHeadP /\ alarmHeadP) \/ 3 * worst >= EventSleep - AlarmSleep
    BY <1>1, GoSteps, UseOk, Sleeps DEF DataInsert, StartInv
  <1>6. NoNullList'
    BY <1>1, <1>5, GoSteps DEF DataInsert, Use, NoNullList, StartInv
  <1>7. QED
    BY <1>2, <1>3, <1>4, <1>6 DEF StartInv

LEMMA RouteInv == StartInv /\ Route => StartInv'
  <1> SUFFICES ASSUME StartInv, Route PROVE StartInv'
    OBVIOUS
  <1>1. UNCHANGED <<created, pc, left, listVars, exited, worst>>
    BY DEF Route
  <1>2. InOrder' /\ OnTime' /\ LeftBound' /\ Made' /\ PulseGap'
        /\ Gap("event", EventSleep)' /\ Gap("data", DataSleep)'
    BY <1>1 DEF StartInv, InOrder, OnTime, Pending, LeftBound, Made, PulseGap,
                Gap, listVars
  <1>3. StartTypeOK'
    BY <1>1 DEF Route, Use, StartInv, StartTypeOK, listVars
  <1>4. NoNullList'
    <2>1. nodeHead \/ pc["tcp"] = "start"
      BY DEF Route, StartInv, StartTypeOK, InOrder, Made, Threads, Rank
    <2>2. nodeHead \/ worst >= PulseTime
      BY <2>1 DEF Route, StartInv, PulseGap
    <2>3. QED
      BY <1>1, <2>2 DEF Route, Use, StartInv, NoNullList
  <1>5. QED
    BY <1>2, <1>3, <1>4 DEF StartInv

\* A thread is created after those of a lower rank.
LEMMA CreateInv == StartInv /\ Create => StartInv'
  <1> SUFFICES ASSUME StartInv, Create PROVE StartInv'
    OBVIOUS
  <1> PICK t \in Threads :
        /\ Rank[t] = created + 1
        /\ created' = created + 1
        /\ pc' = [pc EXCEPT ![t] = IF t \in {"recv", "send", "user", "gets"}
                                  THEN "loop" ELSE "start"]
        /\ left' = [left EXCEPT !["main"] = 0]
        /\ UNCHANGED <<listVars, exited, nulled, worst>>
    BY DEF Create
  <1>1. pc[t] = "none" /\ created < 9
    BY DEF StartInv, InOrder, StartTypeOK, Threads, Rank
  <1>2. StartTypeOK'
    BY <1>1 DEF StartInv, StartTypeOK, listVars
  <1>3. InOrder'
    BY <1>1 DEF StartInv, StartTypeOK, InOrder, Threads, Rank
  <1>4. /\ \A u \in Threads : left'[u] = left[u]
        /\ \A u \in Threads \ {t} : pc'[u] = pc[u]
        /\ pc'[t] \in {"start", "loop"}
        /\ left'["main"] = 0
        /\ t \notin {"recv", "send", "user", "gets"} => pc'[t] = "start"
        /\ worst' = worst
    <2>1. "main" \notin Threads
      BY DEF Threads
    <2>2. QED
      BY <2>1 DEF StartInv, StartTypeOK
  <1>5. OnTime'
    BY <1>1, <1>4 DEF StartInv, StartTypeOK, OnTime, LeftBound, Pending
  <1>6. LeftBound'
    BY <1>1, <1>4 DEF StartInv, LeftBound, Threads
  <1>7. Made'
    BY <1>1, <1>4 DEF StartInv, Made, Threads, listVars
  <1>8. pc["lora"] # "none" => t # "tcp"
    BY <1>1 DEF StartInv, StartTypeOK, InOrder, Threads, Rank
  <1>9. PulseGap'
    BY <1>1, <1>4, <1>8 DEF StartInv, PulseGap, Threads
  <1>10. \A x \in {"event", "data"} :
           pc[x] # "none" => t \notin {"tcp", "alarm"}
    BY <1>1 DEF StartInv, StartTypeOK, InOrder, Threads, Rank
  <1>11. Gap("event", EventSleep)' /\ Gap("data", DataSleep)'
    BY <1>1, <1>4, <1>10 DEF StartInv, Gap, Threads
  <1>12. NoNullList'
    BY DEF StartInv, NoNullList
  <1>13. QED
    BY <1>2, <1>3, <1>5, <1>6, <1>7, <1>9, <1>11, <1>12 DEF StartInv

\* Time passes alike for all that is pending.
LEMMA TickInv == StartInv /\ ~nulled /\ Tick => StartInv'
  <1> SUFFICES ASSUME StartInv, ~nulled, Tick PROVE StartInv'
    OBVIOUS
  <1>1. /\ \A t \in Pending : left'[t] = left[t] - 1
        /\ \A t \in (Threads \cup {"main"}) \ Pending : left'[t] = left[t]
        /\ left' \in [Threads \cup {"main"} -> Int]
    BY DEF Tick, StartInv, StartTypeOK, Pending
  <1>2. UNCHANGED <<created, pc, listVars, exited, nulled>>
    BY DEF Tick
  <1>3. /\ worst \in Nat /\ worst' \in Nat /\ worst <= worst'
        /\ \A t \in Pending : left'[t] >= -worst'
    <2>1. worst \in Nat /\ worst' \in {worst, worst + 1}
      BY DEF Tick, StartInv, StartTypeOK
    <2>2. \A t \in Pending : left[t] \in Int /\ left[t] >= -worst
      BY DEF StartInv, StartTypeOK, OnTime, Pending
    <2>3. CASE \E t \in Pending : left'[t] < -worst
      <3>1. worst' = worst + 1
        BY <2>3 DEF Tick
      <3>2. QED
        BY <1>1, <2>1, <2>2, <3>1
    <2>4. CASE ~ \E t \in Pending : left'[t] < -worst
      <3>1. worst' = worst
        BY <2>4 DEF Tick
      <3>2. QED
        BY <1>1, <2>1, <2>2, <2>4, <3>1
    <2>5. QED
      BY <2>3, <2>4
  <1>4. StartTypeOK'
    BY <1>1, <1>2, <1>3 DEF StartInv, StartTypeOK, listVars
  <1>5. InOrder' /\ Made' /\ NoNullList'
    BY <1>2 DEF StartInv, InOrder, Made, NoNullList, listVars
  <1>6. Pending' = Pending
    BY <1>2 DEF Pending
  <1>7. OnTime'
    BY <1>3, <1>6 DEF OnTime
  <1>8. \A t \in Threads :
          /\ pc[t] \in {"start", "sleep", "assign"} => left'[t] = left[t] - 1
          /\ pc[t] = "none" => left'[t] = left[t]
          /\ left[t] \in Int
    BY <1>1 DEF Pending, StartInv, StartTypeOK, Threads
  <1>9. LeftBound'
    BY <1>2, <1>8, Sleeps DEF StartInv, LeftBound, Threads
  <1>10. PulseGap'
    BY <1>2, <1>3, <1>8, Sleeps DEF StartInv, PulseGap, Threads
  <1>11. Gap("event", EventSleep)' /\ Gap("data", DataSleep)'
    BY <1>2, <1>3, <1>8, Sleeps DEF StartInv, Gap, Threads
  <1>12. QED
    BY <1>4, <1>5, <1>7, <1>9, <1>10, <1>11 DEF StartInv

LEMMA StartInvNext == StartInv /\ [StartNext]_startVars => StartInv'
  <1> SUFFICES ASSUME StartInv, [StartNext]_startVars PROVE StartInv'
    OBVIOUS
  <1>1. CASE StartNext
    <2>1. CASE CreateFails
      BY <2>1 DEF CreateFails, listVars, StartInv, StartTypeOK, InOrder,
         OnTime, Pending, LeftBound, Made, PulseGap, Gap, NoNullList
    <2>2. QED
      BY <1>1, <2>1, CreateInv, TickInv, TcpListInv, TcpListPInv, LoraPulseInv,
         LoraLoopInv, RouteInv, AlarmWaitInv, AlarmListInv, AlarmListPInv,
         EventWaitInv, EventInsertInv, DataWaitInv, DataInsertInv
      DEF StartNext, StartThread
  <1>2. CASE UNCHANGED startVars
    BY <1>2 DEF startVars, listVars, StartInv, StartTypeOK, InOrder, OnTime,
                Pending, LeftBound, Made, PulseGap, Gap, NoNullList
  <1>3. QED
    BY <1>1, <1>2

\* Nobody follows a null list pointer unless a step of the start was late by
\* the reset pulse of the radio, or by a third of what thread_alarm sleeps less
\* than thread_alarm_event, whatever the sleeps are.
THEOREM NoNull == StartSpec => []NoNullList
  <1>1. StartInv => NoNullList
    BY DEF StartInv
  <1>2. QED
    BY <1>1, StartInitInv, StartInvNext, PTL DEF StartSpec

-----------------------------------------------------------------------------
(* The process                                                             *)

\* A step of the process is one of the start, or none of it.
LEMMA StartOfProcess == [ProcessNext]_processVars => [StartNext]_startVars
  BY DEF ProcessNext, Welcome, Start, Run, processVars

\* A step of the process is one of the log, or none of it.
LEMMA LogOfProcess == LogInv /\ [ProcessNext]_processVars => LogInv'
  <1> SUFFICES ASSUME LogInv, [ProcessNext]_processVars PROVE LogInv'
    OBVIOUS
  <1>1. CASE Welcome
    BY <1>1, LogAssumption, BeginInv, LocaltimeInv, TestInv, SetDateInv,
       CloseInv, CheckInv, PathInv, OpenInv, PrintLineInv, FlushInv
    DEF Welcome, Line
  <1>2. CASE Start \/ UNCHANGED processVars
    BY <1>2, LogInvNext DEF Start, processVars
  <1>3. CASE Run
    BY <1>3, LogInvNext DEF Run
  <1>4. QED
    BY <1>1, <1>2, <1>3 DEF ProcessNext

\* From main's first line on, a null list pointer is followed only after a late
\* step, and the log keeps its promises under their provisos.
THEOREM ProcessSafe == ProcessSpec => [](NoNullList /\ FileSafe /\ RightDay)
  <1>1. ProcessInit => StartInv /\ LogInv
    BY StartInitInv, LogInitInv DEF ProcessInit
  <1>2. StartInv /\ LogInv /\ [ProcessNext]_processVars => StartInv' /\ LogInv'
    BY StartOfProcess, LogOfProcess, StartInvNext
  <1>3. StartInv /\ LogInv => NoNullList /\ FileSafe /\ RightDay
    BY LogInvProperties DEF StartInv
  <1>4. QED
    BY <1>1, <1>2, <1>3, PTL DEF ProcessSpec
=============================================================================
