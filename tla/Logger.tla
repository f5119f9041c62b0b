------------------------------- MODULE Logger -------------------------------
(***************************************************************************)
(* A logger, its appenders, and the log file that changes with the day     *)
(* (base/Logger.h, base/Logger.cpp; FileUtil and Time of base/util.cpp).   *)
(*                                                                         *)
(* Threads create lines, with the time of their creation, and hand them to *)
(* log(), which writes them to one appender after the other under the      *)
(* mutex of the logger.  One step writes to one appender: its own mutex is *)
(* held for the whole of that.  Time is counted in ticks, and a day has    *)
(* DaySeconds of them; a day on which the clock is changed has more or     *)
(* less.  A file is known by the dates that its name is made of, and a     *)
(* date by the number of its day.                                          *)
(***************************************************************************)
EXTENDS Integers, Sequences, FiniteSets, SequencesExt

CONSTANTS
  Threads,
  Lines,       \* each is logged once
  Levels,      \* a set of natural numbers
  LevelOf,     \* the level of a line
  Console,     \* appenders that write to the console ...
  Files,       \* ... and to a file
  Formats,     \* formatters
  DaySeconds,  \* Time::daySeconds
  DayLengths,  \* how long a day may be
  ClockChange, \* when the clock is changed, in ticks after midnight
  Days,        \* bound: the days are 1 .. Days; day 0 is the one before
  None

Appenders == Console \cup Files

ASSUME LoggerAssumption ==
  /\ Levels \subseteq Nat
  /\ LevelOf \in [Lines -> Levels]
  /\ Console \cap Files = {}
  /\ DaySeconds \in Nat \ {0}
  /\ DayLengths \subseteq Nat
  /\ DaySeconds \in DayLengths
  /\ ClockChange \in 1 .. DaySeconds
  /\ \A n \in DayLengths : ClockChange < n /\ n <= DaySeconds + ClockChange
  /\ \A n, m \in DayLengths : DaySeconds <= n + m
  /\ Days \in Nat \ {0}
  /\ None \notin Threads \cup Lines \cup Formats \cup Nat

VARIABLES
  level,      \* level_
  appenders,  \* appenders_, a sequence
  formater,   \* formater_
  mutex,      \* the holder of the logger's mutex_, or None
  format,     \* format_ of each appender, or None
  lastOpen,   \* lastOpenTime_ of a file appender
  name,       \* the dates in filename_
  stream,     \* filestream_: "good", "bad" (a write has failed), or "closed"
              \* (the file could not be opened)
  midnight,   \* the first tick of each day
  now,        \* the time
  pc,         \* where a thread is in log()
  line,       \* the line it logs
  made,       \* when a line was created, or None
  rest,       \* the appenders that the loop has still to visit
  output      \* the lines that an appender has written

loggerVars == <<level, appenders, formater, mutex, format>>
fileVars   == <<lastOpen, name, stream>>
timeVars   == <<midnight, now>>
logVars    == <<pc, line, made, rest>>
vars == <<loggerVars, fileVars, timeVars, logVars, output>>

\* The day of a tick.
Day(t) == CHOOSE d \in 0 .. Days : midnight[d] <= t /\ t < midnight[d + 1]

\* The length of day d.
Length(d) == midnight[d + 1] - midnight[d]

\* Time::getTodayMidnightTimestamp: mktime() is told whether summer time is in
\* force at t, not whether it was at midnight.  After the clock has been changed
\* the result is 01:00 of a day of 25 hours, and 23:00 of the day before one of
\* 23 hours.
Midnight(t) ==
  LET d == Day(t)
  IN  IF t < midnight[d] + ClockChange
      THEN midnight[d]
      ELSE midnight[d] + (Length(d) - DaySeconds)

\* The date that strTime() makes of it.
Date(t) == Day(Midnight(t))

\* The constructor of FileLogAppend has tried to open the first file, at some time
\* of day 1; the logger has no appender yet, and an appender has a formatter of its
\* own or none.
Init ==
  /\ level \in Levels
  /\ appenders = <<>>
  /\ formater \in Formats
  /\ mutex = None
  /\ format \in [Appenders -> Formats \cup {None}]
  /\ midnight \in [0 .. Days + 1 -> 0 .. (Days + 1) * (DaySeconds + ClockChange)]
  /\ midnight[0] = 0
  /\ Length(0) = DaySeconds
  /\ \A d \in 1 .. Days : Length(d) \in DayLengths
  /\ now \in midnight[1] .. midnight[2] - 1
  /\ lastOpen = [f \in Files |-> Midnight(now)]
  /\ name = [f \in Files |-> <<Date(now)>>]
  /\ stream \in [Files -> {"good", "closed"}]
  /\ pc = [t \in Threads |-> "out"]
  /\ line = [t \in Threads |-> None]
  /\ made = [l \in Lines |-> None]
  /\ rest = [t \in Threads |-> <<>>]
  /\ output = [a \in Appenders |-> <<>>]

-----------------------------------------------------------------------------
(* The operations of a logger that are one step under its mutex *)

\* A new appender gets the formatter of the logger if it has none.
AddAppend(a) ==
  /\ mutex = None
  /\ a \notin Range(appenders)   \* nobody adds it twice
  /\ format' = [format EXCEPT ![a] = IF @ = None THEN formater ELSE @]
  /\ appenders' = Append(appenders, a)
  /\ UNCHANGED <<level, formater, mutex, fileVars, timeVars, logVars, output>>

\* The first entry of a in the list is erased.
Erase(a) ==
  \E i \in DOMAIN appenders :
    /\ appenders[i] = a
    /\ \A k \in 1 .. i - 1 : appenders[k] # a
    /\ appenders' = RemoveAt(appenders, i)

\* Mutant: an appender is erased without the mutex.
DelAppendUnlocked(a) ==
  /\ Erase(a)
  /\ UNCHANGED <<level, formater, mutex, format, fileVars, timeVars, logVars, output>>

DelAppend(a) ==
  /\ mutex = None
  /\ Erase(a)
  /\ UNCHANGED <<level, formater, mutex, format, fileVars, timeVars, logVars, output>>

\* Every appender that is there now, and no other, gets the new formatter.
SetFormatter(f) ==
  /\ mutex = None
  /\ formater' = f
  /\ format' = [a \in Appenders |-> IF a \in Range(appenders) THEN f ELSE format[a]]
  /\ UNCHANGED <<level, appenders, mutex, fileVars, timeVars, logVars, output>>

\* setLevel() and getLevel() take no lock.
SetLevel(v) ==
  /\ level' = v
  /\ UNCHANGED <<appenders, formater, mutex, format, fileVars, timeVars, logVars, output>>

-----------------------------------------------------------------------------
(* A line, from the LOG_ macro to the appenders *)

\* The macro: the line is created, with the time, if its level is enabled.
Make(t, l) ==
  /\ pc[t] = "out"
  /\ made[l] = None
  /\ level <= LevelOf[l]
  /\ made' = [made EXCEPT ![l] = now]
  /\ line' = [line EXCEPT ![t] = l]
  /\ pc' = [pc EXCEPT ![t] = "check"]
  /\ UNCHANGED <<loggerVars, fileVars, timeVars, rest, output>>

\* log() looks at the level again, without the mutex.
Check(t) ==
  /\ pc[t] = "check"
  /\ pc' = [pc EXCEPT ![t] = IF LevelOf[line[t]] < level THEN "out" ELSE "lock"]
  /\ UNCHANGED <<loggerVars, fileVars, timeVars, line, made, rest, output>>

\* Mutant: log() does not take the mutex.
EnterUnlocked(t) ==
  /\ pc[t] = "lock"
  /\ rest' = [rest EXCEPT ![t] = appenders]
  /\ pc' = [pc EXCEPT ![t] = "loop"]
  /\ UNCHANGED <<loggerVars, fileVars, timeVars, line, made, output>>

Enter(t) ==
  /\ pc[t] = "lock"
  /\ mutex = None
  /\ mutex' = t
  /\ rest' = [rest EXCEPT ![t] = appenders]
  /\ pc' = [pc EXCEPT ![t] = "loop"]
  /\ UNCHANGED <<level, appenders, formater, format, fileVars, timeVars, line, made, output>>

\* The loop has come to appender a.
Visits(t, a) ==
  /\ pc[t] = "loop"
  /\ rest[t] # <<>>
  /\ a = Head(rest[t])
  /\ rest' = [rest EXCEPT ![t] = Tail(@)]

ConsoleLog(t, a) ==
  /\ a \in Console
  /\ Visits(t, a)
  /\ output' = [output EXCEPT ![a] = Append(@, line[t])]
  /\ UNCHANGED <<loggerVars, fileVars, timeVars, pc, line, made>>

\* Mutant: the first second of a day is counted to the day before.
DayIsOverLate(f, l) == lastOpen[f] + DaySeconds < made[l]

\* Has the day of the open file passed when line l was created?
DayIsOver(f, l) == lastOpen[f] + DaySeconds <= made[l]

\* Mutant: the date is added whatever the state of the stream, while the time
\* of the last opening is not.
RenameAlways(f) ==
  /\ lastOpen' = [lastOpen EXCEPT ![f] = IF stream[f] = "good" THEN Midnight(now) ELSE @]
  /\ name' = [name EXCEPT ![f] = Append(@, Date(now))]

\* reopen(): only a good stream is closed and gets a new date, which is that of
\* the present.
Rename(f) ==
  IF stream[f] = "good"
  THEN /\ lastOpen' = [lastOpen EXCEPT ![f] = Midnight(now)]
       /\ name' = [name EXCEPT ![f] = Append(@, Date(now))]
  ELSE UNCHANGED <<lastOpen, name>>

\* open() works or does not; on a stream that is bad, and was not closed, it
\* fails.
Opened(f) == IF stream[f] = "bad" THEN {"bad"} ELSE {"good", "closed"}

\* A write works or does not; what is written to any other stream is dropped.
Written(s) == IF s = "good" THEN {"good", "bad"} ELSE {s}

FileLog(t, f) ==
  /\ f \in Files
  /\ Visits(t, f)
  /\ IF DayIsOver(f, line[t])
     THEN /\ Rename(f)
          /\ \E s \in Opened(f) : stream' \in {[stream EXCEPT ![f] = w] : w \in Written(s)}
     ELSE /\ UNCHANGED <<lastOpen, name>>
          /\ stream' \in {[stream EXCEPT ![f] = w] : w \in Written(stream[f])}
  /\ output' = IF stream'[f] = "good" THEN [output EXCEPT ![f] = Append(@, line[t])]
                                      ELSE output
  /\ UNCHANGED <<loggerVars, timeVars, pc, line, made>>

\* Mutant: the mutex is kept when there is no appender.
LeaveUnlessEmpty(t) ==
  /\ pc[t] = "loop"
  /\ rest[t] = <<>>
  /\ mutex' = IF appenders = <<>> THEN mutex ELSE None
  /\ pc' = [pc EXCEPT ![t] = "out"]
  /\ UNCHANGED <<level, appenders, formater, format, fileVars, timeVars, line, made, rest, output>>

Leave(t) ==
  /\ pc[t] = "loop"
  /\ rest[t] = <<>>
  /\ mutex' = None
  /\ pc' = [pc EXCEPT ![t] = "out"]
  /\ UNCHANGED <<level, appenders, formater, format, fileVars, timeVars, line, made, rest, output>>

-----------------------------------------------------------------------------

Tick ==
  /\ now + 1 < midnight[Days + 1]
  /\ now' = now + 1
  /\ UNCHANGED <<loggerVars, fileVars, midnight, logVars, output>>

Next ==
  \/ \E a \in Appenders : AddAppend(a) \/ DelAppend(a)
  \/ \E f \in Formats : SetFormatter(f)
  \/ \E v \in Levels : SetLevel(v)
  \/ \E t \in Threads, l \in Lines : Make(t, l)
  \/ \E t \in Threads : Check(t) \/ Enter(t) \/ Leave(t)
  \/ \E t \in Threads, a \in Appenders : ConsoleLog(t, a) \/ FileLog(t, a)
  \/ Tick

Spec == Init /\ [][Next]_vars

-----------------------------------------------------------------------------
(* Properties *)

\* Types; a thread in the loop, and no other, holds the mutex.
TypeOK ==
  /\ level \in Levels
  /\ appenders \in Seq(Appenders)
  /\ formater \in Formats
  /\ mutex \in Threads \cup {None}
  /\ format \in [Appenders -> Formats \cup {None}]
  /\ lastOpen \in [Files -> Nat]
  /\ name \in [Files -> Seq(Nat)]
  /\ stream \in [Files -> {"good", "bad", "closed"}]
  /\ midnight \in [0 .. Days + 1 -> Nat]
  /\ now \in Nat
  /\ pc \in [Threads -> {"out", "check", "lock", "loop"}]
  /\ line \in [Threads -> Lines \cup {None}]
  /\ made \in [Lines -> Nat \cup {None}]
  /\ rest \in [Threads -> Seq(Appenders)]
  /\ output \in [Appenders -> Seq(Lines)]
  /\ \A t \in Threads : pc[t] = "loop" <=> mutex = t

\* While log() walks along the list of appenders nobody changes the list: the
\* iterator is valid, and every appender on the way has a formatter.
IteratorValid == \A t \in Threads : pc[t] = "loop" =>
  /\ IsSuffix(rest[t], appenders)
  /\ \A i \in 1 .. Len(rest[t]) : format[rest[t][i]] # None

Place(a, l) == {i \in 1 .. Len(output[a]) : output[a][i] = l}

\* Two appenders write the lines that reach both in the same order, whatever
\* threads log them and whatever is added, deleted, or fails in between.
SameOrder == \A a, b \in Appenders, k, l \in Lines :
  \A i \in Place(a, k), j \in Place(a, l), m \in Place(b, k), n \in Place(b, l) :
    i < j => m < n

\* Day d is shorter than daySeconds.
Short(d) == d \in 0 .. Days /\ Length(d) < DaySeconds

\* A line that is written to a file whose stream was good before is written to
\* a file that has the date of its own day or of a later one, unless that day or
\* the one after it is short.  (The first line after a failure goes to the file
\* of the day of the failure.  A file that was opened before the clock was
\* changed on a short day is changed too late, and one that is opened after
\* that gets the date of the day before.)
DayFits == [][
  \A f \in Files : (stream[f] = "good" /\ output'[f] # output[f]) =>
    LET d == Last(name'[f])
    IN  Short(d) \/ Short(d + 1) \/ Day(made[Last(output'[f])]) <= d ]_vars

\* How often the date of day d comes in a name: once more if the day is long,
\* because the file is opened again in its last hour, and once more if the next
\* day is short.
FilesOf(d) ==
  1 + (IF Length(d) > DaySeconds THEN 1 ELSE 0) + (IF Short(d + 1) THEN 1 ELSE 0)

\* A file appender opens one file for a day: the dates in a name do not decrease,
\* none comes more often than the calendar explains, and the last is that of the
\* time which reopen() compares with.
OneFilePerDay == \A f \in Files :
  /\ Day(lastOpen[f]) = Last(name[f])
  /\ \A i \in DOMAIN name[f] : \A j \in 1 .. i - 1 :
       /\ name[f][j] <= name[f][i]
       /\ j + FilesOf(name[f][i]) <= i => name[f][j] < name[f][i]
=============================================================================
