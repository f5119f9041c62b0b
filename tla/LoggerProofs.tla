---------------------------- MODULE LoggerProofs ----------------------------
\* What holds of a logger for every number of threads, lines, appenders and
\* days: the types and the days of the files, the list that log() walks, and
\* the order of the lines.  Each invariant is inductive together with the ones
\* before it.
EXTENDS Logger, SequenceTheorems, WellFoundedInduction, TLAPS

\* None stands for no thread, no line, no formatter and no time.
LEMMA NoneIsNothing ==
  None \notin Threads /\ None \notin Lines /\ None \notin Formats /\ None \notin Nat
  BY LoggerAssumption

-----------------------------------------------------------------------------
(* Sequences and numbers *)

\* What the list of appenders is when DelAppend has erased an entry.
LEMMA RemoveAtProps ==
  ASSUME NEW S, NEW s \in Seq(S), NEW i \in 1 .. Len(s)
  PROVE  /\ RemoveAt(s, i) \in Seq(S)
         /\ Len(RemoveAt(s, i)) = Len(s) - 1
         /\ \A k \in 1 .. Len(s) - 1 :
              RemoveAt(s, i)[k] = IF k < i THEN s[k] ELSE s[k + 1]
  <1> DEFINE a == SubSeq(s, 1, i - 1)
             b == SubSeq(s, i + 1, Len(s))
  <1>1. a \in Seq(S) /\ Len(a) = i - 1 /\ \A k \in 1 .. i - 1 : a[k] = s[k]
    OBVIOUS
  <1>2. b \in Seq(S) /\ Len(b) = Len(s) - i /\ \A k \in 1 .. Len(s) - i : b[k] = s[k + i]
    OBVIOUS
  <1>3. RemoveAt(s, i) = a \o b
    BY DEF RemoveAt
  <1> HIDE DEF a, b
  <1>4. /\ a \o b \in Seq(S) /\ Len(a \o b) = Len(a) + Len(b)
        /\ \A k \in 1 .. Len(a) + Len(b) :
             (a \o b)[k] = IF k <= Len(a) THEN a[k] ELSE b[k - Len(a)]
    BY <1>1, <1>2, ConcatProperties
  <1>5. \A k \in 1 .. Len(s) - 1 : ~(k <= i - 1) =>
          (k - (i - 1)) + i = k + 1 /\ k - (i - 1) \in 1 .. Len(s) - i
    OBVIOUS
  <1> QED
    BY <1>1, <1>2, <1>3, <1>4, <1>5

\* Every set of natural numbers that has a member has a least one.  Where one
\* would argue by induction over the days of Logger, a proof takes the first
\* day that is an exception.
LEMMA LeastNatural ==
  ASSUME NEW T \in SUBSET Nat, T # {}
  PROVE  \E x \in T : \A y \in T : x <= y
  <1>1. PICK x \in T : \A y \in T : ~ (<<y, x>> \in OpToRel(<, Nat))
    BY NatLessThanWellFounded, WFMin, Zenon
  <1>2. \A y \in T : ~ (y < x)
    <2> SUFFICES ASSUME NEW y \in T, y < x
                 PROVE  FALSE
      BY Zenon
    <2>1. <<y, x>> \in OpToRel(<, Nat)
      BY Zenon DEF OpToRel
    <2> QED
      BY <1>1, <2>1, Zenon
  <1>3. \A y \in T : x <= y
    <2>1. x \in Nat /\ T \subseteq Nat
      OBVIOUS
    <2>2. \A u, v \in Nat : ~ (u < v) => v <= u
      OBVIOUS
    <2> HIDE <1>1
    <2> QED
      BY <1>2, <2>1, <2>2, Zenon
  <1> QED
    BY <1>3, Zenon

-----------------------------------------------------------------------------
(* Days *)

\* The days follow each other.
Calendar ==
  /\ midnight \in [0 .. Days + 1 -> Nat]
  /\ midnight[0] = 0
  /\ \A d \in 0 .. Days : Length(d) \in DayLengths

InDay(x, d) == midnight[d] <= x /\ x < midnight[d + 1]

\* The days exist, and a later day begins later.
LEMMA DaysIncrease ==
  ASSUME Calendar
  PROVE  /\ Days \in Nat \ {0}
         /\ \A d \in 0 .. Days : midnight[d] \in Nat /\ midnight[d + 1] \in Nat /\ midnight[d] < midnight[d + 1]
         /\ \A d, e \in 0 .. Days + 1 : d <= e => midnight[d] <= midnight[e]
  <1>1. Days \in Nat \ {0}
    BY LoggerAssumption
  <1>2. ASSUME NEW d \in 0 .. Days
        PROVE  midnight[d] \in Nat /\ midnight[d + 1] \in Nat /\ midnight[d] < midnight[d + 1]
    <2>1. d \in 0 .. Days + 1 /\ d + 1 \in 0 .. Days + 1
      BY <1>1
    <2>2. midnight[d] \in Nat /\ midnight[d + 1] \in Nat
      BY <2>1 DEF Calendar
    <2>3. midnight[d + 1] - midnight[d] \in Nat \ {0}
      BY LoggerAssumption DEF Calendar, Length
    <2> QED
      BY <2>2, <2>3
  <1>3. ASSUME NEW d \in 0 .. Days + 1, NEW e \in 0 .. Days + 1, d <= e,
               ~ (midnight[d] <= midnight[e])
        PROVE  FALSE
    <2> DEFINE T == {x \in 0 .. Days + 1 : d <= x /\ ~ (midnight[d] <= midnight[x])}
    <2>1. T \in SUBSET Nat /\ T # {}
      BY <1>1, <1>3
    <2>2. PICK x \in T : \A y \in T : x <= y
      <3> HIDE DEF T
      <3> QED
        BY <2>1, LeastNatural
    <2>3. x \in 0 .. Days + 1 /\ d < x
      BY <1>1 DEF Calendar
    <2>4. x - 1 \in 0 .. Days /\ d <= x - 1 /\ (x - 1) + 1 = x /\ ~ (x <= x - 1)
      BY <1>1, <2>3
    <2>5. x - 1 \notin T
      BY <2>2, <2>4
    <2>6. midnight[d] <= midnight[x - 1]
      BY <1>1, <2>4, <2>5
    <2>7. midnight[x - 1] < midnight[x] /\ midnight[x - 1] \in Nat /\ midnight[x] \in Nat
      BY <1>2, <2>4
    <2>8. midnight[d] \in Nat
      BY DEF Calendar
    <2>9. ~ (midnight[d] <= midnight[x])
      BY <2>2
    <2> QED
      BY <2>6, <2>7, <2>8, <2>9
  <1> QED
    BY <1>1, <1>2, <1>3

\* A time before the end of the last day is in one day, which is the one that
\* Day returns.
LEMMA DayProps ==
  ASSUME Calendar, NEW x \in Nat, x < midnight[Days + 1]
  PROVE  /\ Day(x) \in 0 .. Days
         /\ InDay(x, Day(x))
         /\ \A d \in 0 .. Days : InDay(x, d) => d = Day(x)
  <1>1. /\ Days \in Nat \ {0}
        /\ \A d \in 0 .. Days : midnight[d] \in Nat /\ midnight[d + 1] \in Nat /\ midnight[d] < midnight[d + 1]
        /\ \A d, e \in 0 .. Days + 1 : d <= e => midnight[d] <= midnight[e]
    BY DaysIncrease
  <1>2. \E d \in 0 .. Days : InDay(x, d)
    <2> DEFINE T == {d \in 0 .. Days + 1 : x < midnight[d]}
    <2>1. Days + 1 \in T
      BY <1>1
    <2>2. T \in SUBSET Nat /\ T # {}
      BY <1>1, <2>1
    <2>3. PICK d \in T : \A y \in T : d <= y
      <3> HIDE DEF T
      <3> QED
        BY <2>2, LeastNatural
    <2>4. d \in 0 .. Days + 1 /\ x < midnight[d] /\ d # 0
      BY DEF Calendar
    <2>5. d - 1 \in 0 .. Days /\ (d - 1) + 1 = d /\ d - 1 \in 0 .. Days + 1 /\ ~ (d <= d - 1)
      BY <1>1, <2>4
    <2>6. ~ (x < midnight[d - 1])
      BY <2>3, <2>5
    <2>7. midnight[d - 1] \in Nat
      BY <1>1, <2>5
    <2>8. InDay(x, d - 1)
      BY <2>4, <2>5, <2>6, <2>7 DEF InDay
    <2> QED
      BY <2>5, <2>8
  <1>3. Day(x) \in 0 .. Days /\ InDay(x, Day(x))
    BY <1>2 DEF Day, InDay
  <1>4. ASSUME NEW d \in 0 .. Days, NEW e \in 0 .. Days, InDay(x, d), InDay(x, e)
        PROVE  d <= e
    <2> SUFFICES ASSUME e + 1 <= d
                 PROVE  FALSE
      OBVIOUS
    <2>1. midnight[e + 1] <= midnight[d]
      BY <1>1
    <2> QED
      BY <1>1, <1>4, <2>1 DEF InDay
  <1>5. \A d \in 0 .. Days : InDay(x, d) => d = Day(x)
    <2> SUFFICES ASSUME NEW d \in 0 .. Days, InDay(x, d)
                 PROVE  d = Day(x)
      OBVIOUS
    <2>1. d <= Day(x) /\ Day(x) <= d
      BY <1>3, <1>4
    <2> QED
      BY <1>1, <1>3, <2>1
  <1> QED
    BY <1>3, <1>5

-----------------------------------------------------------------------------
(* What getTodayMidnightTimestamp() may return *)

\* The times with the date of day k that a file can have been opened for.
Starts(k) ==
  {midnight[k]}
  \cup (IF Length(k) > DaySeconds THEN {midnight[k] + (Length(k) - DaySeconds)} ELSE {})
  \cup (IF Short(k + 1) THEN {midnight[k + 1] + (Length(k + 1) - DaySeconds)} ELSE {})

\* The numbers of a day and of the next.
LEMMA DayNumbers ==
  ASSUME Calendar, NEW k \in 0 .. Days
  PROVE  /\ DaySeconds \in Nat \ {0} /\ ClockChange \in 1 .. DaySeconds
         /\ midnight[k] \in Nat /\ Length(k) \in Nat
         /\ midnight[k + 1] = midnight[k] + Length(k)
         /\ ClockChange < Length(k) /\ Length(k) <= DaySeconds + ClockChange
         /\ k + 1 \in 0 .. Days => /\ Length(k + 1) \in Nat /\ 0 < Length(k + 1)
                                  /\ midnight[k + 1 + 1] = midnight[k + 1] + Length(k + 1)
                                  /\ DaySeconds <= Length(k) + Length(k + 1)
  <1>1. /\ \A d \in 0 .. Days : midnight[d] \in Nat /\ midnight[d + 1] \in Nat
        /\ \A d \in 0 .. Days : Length(d) \in DayLengths
    BY DaysIncrease DEF Calendar
  <1>2. \A d \in 0 .. Days : /\ Length(d) \in Nat
                            /\ midnight[d + 1] = midnight[d] + Length(d)
    BY <1>1, LoggerAssumption DEF Length
  <1>3. /\ DaySeconds \in Nat \ {0} /\ ClockChange \in 1 .. DaySeconds
        /\ \A n \in DayLengths : ClockChange < n /\ n <= DaySeconds + ClockChange
        /\ \A n, m \in DayLengths : DaySeconds <= n + m
    BY LoggerAssumption
  <1> QED
    BY <1>1, <1>2, <1>3

\* Such a time lies in day k.
LEMMA StartsInDay ==
  ASSUME Calendar, NEW k \in 0 .. Days, NEW x \in Starts(k)
  PROVE  x \in Nat /\ InDay(x, k) /\ Day(x) = k
  <1>1. /\ DaySeconds \in Nat \ {0}
        /\ midnight[k] \in Nat /\ Length(k) \in Nat /\ 0 < Length(k)
        /\ midnight[k + 1] = midnight[k] + Length(k)
        /\ k + 1 \in 0 .. Days => /\ Length(k + 1) \in Nat
                                 /\ DaySeconds <= Length(k) + Length(k + 1)
    BY DayNumbers
  <1>2. \/ x = midnight[k]
        \/ Length(k) > DaySeconds /\ x = midnight[k] + (Length(k) - DaySeconds)
        \/ Short(k + 1) /\ x = midnight[k + 1] + (Length(k + 1) - DaySeconds)
    BY DEF Starts
  <1>3. x \in Nat /\ InDay(x, k)
    <2>1. CASE x = midnight[k]
      BY <1>1, <2>1 DEF InDay
    <2>2. CASE Length(k) > DaySeconds /\ x = midnight[k] + (Length(k) - DaySeconds)
      BY <1>1, <2>2 DEF InDay
    <2>3. CASE Short(k + 1) /\ x = midnight[k + 1] + (Length(k + 1) - DaySeconds)
      BY <1>1, <2>3 DEF InDay, Short
    <2> QED
      BY <1>2, <2>1, <2>2, <2>3
  <1>4. x < midnight[Days + 1]
    <2>1. k + 1 \in 0 .. Days + 1 /\ Days + 1 \in 0 .. Days + 1 /\ k + 1 <= Days + 1
      BY DaysIncrease
    <2>2. midnight[k + 1] <= midnight[Days + 1]
      BY <2>1, DaysIncrease
    <2>3. midnight[Days + 1] \in Nat /\ midnight[k + 1] \in Nat
      BY <2>1 DEF Calendar
    <2> QED
      BY <1>3, <2>2, <2>3 DEF InDay
  <1> QED
    BY <1>3, <1>4, DayProps

\* From day 1 on, the result is one of these times: of the same day, or, when
\* that is short, of the day before.
LEMMA MidnightStarts ==
  ASSUME Calendar, NEW x \in Nat, x < midnight[Days + 1], midnight[1] <= x
  PROVE  /\ Date(x) \in 0 .. Days /\ Midnight(x) \in Starts(Date(x)) /\ Midnight(x) \in Nat
         /\ \/ /\ Date(x) = Day(x) /\ ~ Short(Day(x))
               /\ \/ Midnight(x) = midnight[Day(x)]
                     /\ (x < midnight[Day(x)] + ClockChange \/ Length(Day(x)) = DaySeconds)
                  \/ /\ Length(Day(x)) > DaySeconds
                     /\ Midnight(x) = midnight[Day(x)] + (Length(Day(x)) - DaySeconds)
            \/ /\ Date(x) = Day(x) /\ Midnight(x) = midnight[Day(x)]
               /\ x < midnight[Day(x)] + ClockChange
            \/ /\ Short(Day(x)) /\ Date(x) + 1 = Day(x)
               /\ Midnight(x) = midnight[Day(x)] + (Length(Day(x)) - DaySeconds)
  <1> DEFINE d == Day(x)
  <1>1. Days \in Nat \ {0} /\ d \in 0 .. Days /\ InDay(x, d)
    BY DayProps, DaysIncrease
  <1>2. d \in 1 .. Days
    <2>1. 0 + 1 = 1 /\ 1 \in 0 .. Days
      BY <1>1
    <2>2. midnight[1] \in Nat
      BY <2>1, DaysIncrease
    <2>3. d # 0
      BY <1>1, <2>1, <2>2 DEF InDay
    <2> QED
      BY <1>1, <2>3
  <1>3. /\ DaySeconds \in Nat \ {0} /\ ClockChange \in Nat
        /\ midnight[d] \in Nat /\ Length(d) \in Nat
    BY <1>1, DayNumbers
  <1> HIDE DEF d
  <1>4. CASE x < midnight[d] + ClockChange \/ Length(d) = DaySeconds
    <2>1. Midnight(x) = midnight[d]
      BY <1>3, <1>4 DEF Midnight, d
    <2>2. Midnight(x) \in Starts(d)
      BY <2>1 DEF Starts
    <2>3. Date(x) = d /\ Midnight(x) \in Nat
      BY <1>1, <2>2, StartsInDay DEF Date
    <2>4. Length(d) = DaySeconds => ~ Short(d)
      BY <1>3 DEF Short
    <2> QED
      BY <1>1, <1>4, <2>1, <2>2, <2>3, <2>4 DEF d
  <1>5. CASE ~ (x < midnight[d] + ClockChange) /\ Length(d) > DaySeconds
    <2>1. Midnight(x) = midnight[d] + (Length(d) - DaySeconds)
      BY <1>5 DEF Midnight, d
    <2>2. Midnight(x) \in Starts(d)
      BY <1>5, <2>1 DEF Starts
    <2>3. Date(x) = d /\ Midnight(x) \in Nat
      BY <1>1, <2>2, StartsInDay DEF Date
    <2>4. ~ Short(d)
      BY <1>3, <1>5 DEF Short
    <2> QED
      BY <1>1, <1>5, <2>1, <2>2, <2>3, <2>4 DEF d
  <1>6. CASE ~ (x < midnight[d] + ClockChange) /\ Length(d) < DaySeconds
    <2>1. Midnight(x) = midnight[d] + (Length(d) - DaySeconds)
      BY <1>6 DEF Midnight, d
    <2>2. Short(d) /\ d - 1 \in 0 .. Days /\ (d - 1) + 1 = d
      BY <1>1, <1>2, <1>6 DEF Short
    <2>3. Midnight(x) \in Starts(d - 1)
      BY <2>1, <2>2 DEF Starts
    <2>4. Date(x) = d - 1 /\ Midnight(x) \in Nat
      BY <2>2, <2>3, StartsInDay DEF Date
    <2> QED
      BY <2>1, <2>2, <2>3, <2>4 DEF d
  <1> QED
    BY <1>3, <1>4, <1>5, <1>6

-----------------------------------------------------------------------------
(* Types, and the times of lines and files *)

\* A line is logged after it was made, and no line was made in the future.
MadeInv ==
  /\ \A t \in Threads : pc[t] # "out" => line[t] \in Lines /\ made[line[t]] # None
  /\ \A l \in Lines : made[l] # None => made[l] <= now

\* The time with which reopen() compares is one with the date that the name ends
\* with.
FileInv == \A f \in Files :
  /\ name[f] # <<>>
  /\ Last(name[f]) \in 0 .. Days
  /\ lastOpen[f] \in Starts(Last(name[f]))

\* The time is within the calendar.
InTime == midnight[1] <= now /\ now < midnight[Days + 1]

TimeInv ==
  /\ TypeOK
  /\ Calendar
  /\ InTime
  /\ MadeInv
  /\ FileInv

LEMMA InitTime == Init => TimeInv
  <1> SUFFICES ASSUME Init
               PROVE  TimeInv
    OBVIOUS
  <1>1. midnight \in [0 .. Days + 1 -> Nat] /\ Calendar
    <2>1. (Days + 1) * (DaySeconds + ClockChange) \in Int
      BY LoggerAssumption
    <2>2. midnight \in [0 .. Days + 1 -> Nat]
      BY <2>1 DEF Init
    <2>3. \A d \in 0 .. Days : d = 0 \/ d \in 1 .. Days
      OBVIOUS
    <2> QED
      BY <2>2, <2>3, LoggerAssumption DEF Init, Calendar
  <1>2. /\ 1 \in 0 .. Days /\ 1 + 1 = 2
        /\ midnight[1] \in Nat /\ midnight[2] \in Nat /\ midnight[Days + 1] \in Nat
        /\ midnight[2] <= midnight[Days + 1]
    <2>1. /\ 1 \in 0 .. Days + 1 /\ 2 \in 0 .. Days + 1 /\ Days + 1 \in 0 .. Days + 1
          /\ 2 <= Days + 1 /\ 1 \in 0 .. Days /\ 1 + 1 = 2
      BY LoggerAssumption
    <2> QED
      BY <1>1, <2>1, DaysIncrease
  <1>3. now \in Nat /\ midnight[1] <= now /\ now < midnight[Days + 1]
    <2>1. now \in midnight[1] .. midnight[2] - 1
      BY DEF Init
    <2> QED
      BY <1>2, <2>1
  <1>4. TypeOK
    <2>1. Midnight(now) \in Nat /\ \A f \in Files : <<Date(now)>> \in Seq(Nat)
      BY <1>1, <1>3, MidnightStarts
    <2>2. \A t \in Threads : pc[t] # "loop" /\ mutex # t
      BY NoneIsNothing DEF Init
    <2> QED
      BY <1>1, <1>3, <2>1, <2>2 DEF Init, TypeOK
  <1>5. MadeInv
    BY DEF Init, MadeInv
  <1>6. FileInv
    <2> SUFFICES ASSUME NEW f \in Files
                 PROVE  /\ name[f] # <<>>
                        /\ Last(name[f]) \in 0 .. Days
                        /\ lastOpen[f] \in Starts(Last(name[f]))
      BY DEF FileInv
    <2>1. name[f] = <<Date(now)>> /\ lastOpen[f] = Midnight(now)
      BY DEF Init
    <2>2. Last(name[f]) = Date(now) /\ name[f] # <<>>
      BY <2>1 DEF Last
    <2> QED
      BY <1>1, <1>3, <2>1, <2>2, MidnightStarts
  <1> QED
    BY <1>1, <1>3, <1>4, <1>5, <1>6 DEF TimeInv, InTime

\* The days stay what they are.
LEMMA SameStarts ==
  ASSUME midnight' = midnight
  PROVE  \A k : (Starts(k))' = Starts(k)
  BY DEF Starts, Short, Length

\* What a step leaves alone when it is not about time, lines or files.
LEMMA TimeUnchanged ==
  ASSUME TimeInv, UNCHANGED <<timeVars, lastOpen, name>>,
         UNCHANGED <<pc, line, made>>
  PROVE  Calendar' /\ InTime' /\ MadeInv' /\ FileInv'
  <1>1. FileInv'
    BY SameStarts DEF TimeInv, FileInv, timeVars, Last
  <1> QED
    BY <1>1 DEF TimeInv, InTime, Calendar, Length, MadeInv, timeVars

LEMMA TimeStep == TimeInv /\ [Next]_vars => TimeInv'
  <1> SUFFICES ASSUME TimeInv, [Next]_vars
               PROVE  TimeInv'
    OBVIOUS
  <1> USE DEF loggerVars, fileVars, timeVars, logVars
  <1>1. ASSUME NEW a \in Appenders, AddAppend(a)
        PROVE  TimeInv'
    <2>1. TypeOK'
      BY <1>1 DEF TimeInv, TypeOK, AddAppend
    <2> QED
      BY <1>1, <2>1, TimeUnchanged DEF AddAppend, TimeInv
  <1>2. ASSUME NEW a \in Appenders, DelAppend(a)
        PROVE  TimeInv'
    <2>1. PICK i \in DOMAIN appenders : appenders' = RemoveAt(appenders, i)
      BY <1>2 DEF DelAppend, Erase
    <2>2. i \in 1 .. Len(appenders) /\ appenders \in Seq(Appenders)
      BY <2>1 DEF TimeInv, TypeOK
    <2>3. appenders' \in Seq(Appenders)
      BY <2>1, <2>2, RemoveAtProps
    <2>4. TypeOK'
      BY <1>2, <2>3 DEF TimeInv, TypeOK, DelAppend
    <2> QED
      BY <1>2, <2>4, TimeUnchanged DEF DelAppend, TimeInv
  <1>3. ASSUME NEW f \in Formats, SetFormatter(f)
        PROVE  TimeInv'
    <2>1. TypeOK'
      BY <1>3 DEF TimeInv, TypeOK, SetFormatter
    <2> QED
      BY <1>3, <2>1, TimeUnchanged DEF SetFormatter, TimeInv
  <1>4. ASSUME NEW v \in Levels, SetLevel(v)
        PROVE  TimeInv'
    <2>1. TypeOK'
      BY <1>4 DEF TimeInv, TypeOK, SetLevel
    <2> QED
      BY <1>4, <2>1, TimeUnchanged DEF SetLevel, TimeInv
  <1>5. ASSUME NEW t \in Threads, NEW l \in Lines, Make(t, l)
        PROVE  TimeInv'
    <2>1. TypeOK'
      BY <1>5, NoneIsNothing DEF TimeInv, TypeOK, Make
    <2>2. MadeInv'
      <3>1. now \in Nat /\ made \in [Lines -> Nat \cup {None}] /\ line \in [Threads -> Lines \cup {None}]
        BY DEF TimeInv, TypeOK
      <3>2. made'[l] = now /\ \A k \in Lines : k # l => made'[k] = made[k]
        BY <1>5, <3>1 DEF Make
      <3>3. \A k \in Lines : made[k] # None => made'[k] # None
        BY <1>5, <3>2 DEF Make
      <3>4. line'[t] = l /\ \A u \in Threads : u # t => line'[u] = line[u] /\ pc'[u] = pc[u]
        BY <1>5, <3>1 DEF Make, TimeInv, TypeOK
      <3>5. now' = now /\ now # None
        BY <1>5, <3>1, NoneIsNothing DEF Make
      <3> QED
        BY <3>1, <3>2, <3>3, <3>4, <3>5 DEF TimeInv, MadeInv
    <2>3. Calendar' /\ InTime' /\ FileInv'
      BY <1>5, SameStarts DEF Make, TimeInv, InTime, Calendar, Length, FileInv, Last
    <2> QED
      BY <2>1, <2>2, <2>3 DEF TimeInv
  <1>6. ASSUME NEW t \in Threads, Check(t)
        PROVE  TimeInv'
    <2>1. TypeOK'
      BY <1>6, NoneIsNothing DEF TimeInv, TypeOK, Check
    <2>2. MadeInv'
      BY <1>6 DEF Check, TimeInv, TypeOK, MadeInv
    <2>3. Calendar' /\ InTime' /\ FileInv'
      BY <1>6, SameStarts DEF Check, TimeInv, InTime, Calendar, Length, FileInv, Last
    <2> QED
      BY <2>1, <2>2, <2>3 DEF TimeInv
  <1>7. ASSUME NEW t \in Threads, Enter(t)
        PROVE  TimeInv'
    <2>1. TypeOK'
      BY <1>7, NoneIsNothing DEF TimeInv, TypeOK, Enter
    <2>2. MadeInv'
      BY <1>7 DEF Enter, TimeInv, TypeOK, MadeInv
    <2>3. Calendar' /\ InTime' /\ FileInv'
      BY <1>7, SameStarts DEF Enter, TimeInv, InTime, Calendar, Length, FileInv, Last
    <2> QED
      BY <2>1, <2>2, <2>3 DEF TimeInv
  <1>8. ASSUME NEW t \in Threads, Leave(t)
        PROVE  TimeInv'
    <2>1. TypeOK'
      BY <1>8, NoneIsNothing DEF TimeInv, TypeOK, Leave
    <2>2. MadeInv'
      BY <1>8 DEF Leave, TimeInv, TypeOK, MadeInv
    <2>3. Calendar' /\ InTime' /\ FileInv'
      BY <1>8, SameStarts DEF Leave, TimeInv, InTime, Calendar, Length, FileInv, Last
    <2> QED
      BY <2>1, <2>2, <2>3 DEF TimeInv
  <1>9. ASSUME NEW t \in Threads, NEW a \in Appenders, ConsoleLog(t, a)
        PROVE  TimeInv'
    <2>1. rest'[t] \in Seq(Appenders)
      BY <1>9 DEF ConsoleLog, Visits, TimeInv, TypeOK
    <2>2. line[t] \in Lines
      BY <1>9 DEF ConsoleLog, Visits, TimeInv, MadeInv
    <2>3. output' \in [Appenders -> Seq(Lines)]
      BY <1>9, <2>2 DEF ConsoleLog, TimeInv, TypeOK
    <2>4. TypeOK'
      BY <1>9, <2>1, <2>3 DEF TimeInv, TypeOK, ConsoleLog, Visits
    <2> QED
      BY <1>9, <2>4, TimeUnchanged DEF ConsoleLog, TimeInv
  <1>10. ASSUME NEW t \in Threads, NEW f \in Appenders, FileLog(t, f)
         PROVE  TimeInv'
    <2>1. f \in Files /\ Visits(t, f)
      BY <1>10 DEF FileLog
    <2>2. rest'[t] \in Seq(Appenders) /\ rest' \in [Threads -> Seq(Appenders)]
      BY <2>1 DEF Visits, TimeInv, TypeOK
    <2>3. stream' \in [Files -> {"good", "bad", "closed"}]
      <3>1. \A s \in {"good", "bad", "closed"} : Written(s) \subseteq {"good", "bad", "closed"}
        BY DEF Written
      <3>2. stream[f] \in {"good", "bad", "closed"} /\ Opened(f) \subseteq {"good", "bad", "closed"}
        BY <2>1 DEF Opened, TimeInv, TypeOK
      <3>3. PICK w \in {"good", "bad", "closed"} : stream' = [stream EXCEPT ![f] = w]
        BY <1>10, <3>1, <3>2 DEF FileLog
      <3> QED
        BY <3>3 DEF TimeInv, TypeOK
    <2>4. \/ lastOpen' = lastOpen /\ name' = name
          \/ /\ lastOpen' = [lastOpen EXCEPT ![f] = Midnight(now)]
             /\ name' = [name EXCEPT ![f] = Append(@, Date(now))]
      BY <1>10 DEF FileLog, Rename
    <2>5. /\ now' = now
          /\ midnight' = midnight
          /\ UNCHANGED <<loggerVars, pc, line, made>>
      BY <1>10 DEF FileLog
    <2>6. /\ Midnight(now) \in Nat /\ Midnight(now) \in Starts(Date(now))
          /\ Date(now) \in 0 .. Days
      BY MidnightStarts DEF TimeInv, TypeOK, InTime
    <2>7. lastOpen' \in [Files -> Nat] /\ name' \in [Files -> Seq(Nat)] /\ FileInv'
      <3>1. lastOpen \in [Files -> Nat] /\ name \in [Files -> Seq(Nat)] /\ FileInv
        BY DEF TimeInv, TypeOK
      <3>2. CASE lastOpen' = lastOpen /\ name' = name
        BY <3>1, <3>2, <2>5, SameStarts DEF FileInv, Last
      <3>3. CASE /\ lastOpen' = [lastOpen EXCEPT ![f] = Midnight(now)]
                 /\ name' = [name EXCEPT ![f] = Append(@, Date(now))]
        <4>1. name[f] \in Seq(Nat)
          BY <2>1, <3>1
        <4>2. /\ Append(name[f], Date(now)) \in Seq(Nat)
              /\ Append(name[f], Date(now)) # <<>>
              /\ Last(Append(name[f], Date(now))) = Date(now)
          BY <4>1, <2>6 DEF Last
        <4>3. lastOpen'[f] = Midnight(now) /\ name'[f] = Append(name[f], Date(now))
          BY <2>1, <3>1, <3>3
        <4>4. \A g \in Files : g # f => lastOpen'[g] = lastOpen[g] /\ name'[g] = name[g]
          BY <3>1, <3>3
        <4>5. lastOpen' \in [Files -> Nat] /\ name' \in [Files -> Seq(Nat)]
          BY <2>6, <3>1, <3>3, <4>2
        <4>6. ASSUME NEW g \in Files
              PROVE  /\ name'[g] # <<>>
                     /\ Last(name'[g]) \in 0 .. Days
                     /\ lastOpen'[g] \in Starts(Last(name'[g]))
          <5>1. CASE g = f
            BY <5>1, <4>2, <4>3, <2>6
          <5>2. CASE g # f
            BY <5>2, <4>4, <3>1 DEF FileInv, Last
          <5> QED
            BY <5>1, <5>2
        <4> QED
          BY <4>5, <4>6, <2>5, SameStarts DEF FileInv, Last
      <3> QED
        BY <2>4, <3>2, <3>3
    <2>8. TypeOK'
      <3>1. line[t] \in Lines
        BY <2>1 DEF Visits, TimeInv, MadeInv
      <3>2. output' = [output EXCEPT ![f] = Append(@, line[t])] \/ output' = output
        <4>1. output' = IF stream'[f] = "good" THEN [output EXCEPT ![f] = Append(@, line[t])]
                                               ELSE output
          BY <1>10 DEF FileLog
        <4> QED
          BY <4>1
      <3>3. output \in [Appenders -> Seq(Lines)] /\ Append(output[f], line[t]) \in Seq(Lines)
        BY <3>1 DEF TimeInv, TypeOK
      <3>4. output' \in [Appenders -> Seq(Lines)]
        BY <3>2, <3>3
      <3> QED
        BY <2>2, <2>3, <2>5, <2>7, <3>4 DEF TimeInv, TypeOK
    <2>9. Calendar' /\ InTime' /\ MadeInv'
      BY <2>5 DEF TimeInv, InTime, Calendar, Length, MadeInv
    <2> QED
      BY <2>7, <2>8, <2>9 DEF TimeInv
  <1>11. CASE Tick
    <2>1. TypeOK'
      BY <1>11 DEF Tick, TimeInv, TypeOK
    <2>2. MadeInv'
      <3>1. \A l \in Lines : made[l] # None => made[l] \in Nat /\ made[l] <= now
        BY DEF TimeInv, TypeOK, MadeInv
      <3>2. \A x \in Nat : x <= now => x <= now + 1
        BY DEF TimeInv, TypeOK
      <3>3. \A l \in Lines : made[l] # None => made[l] <= now + 1
        BY <3>1, <3>2
      <3> QED
        BY <1>11, <3>3 DEF Tick, TimeInv, MadeInv
    <2>3. Calendar' /\ InTime' /\ FileInv'
      <3>1. /\ now \in Nat /\ midnight[1] <= now /\ now' = now + 1
            /\ now' < midnight[Days + 1]
            /\ UNCHANGED <<midnight, lastOpen, name>>
        BY <1>11 DEF Tick, TimeInv, TypeOK, InTime, fileVars
      <3>2. 1 \in 0 .. Days + 1 /\ midnight[1] \in Nat
        BY LoggerAssumption DEF TimeInv, Calendar
      <3>3. InTime'
        BY <3>1, <3>2 DEF InTime
      <3> QED
        BY <3>1, <3>3, SameStarts DEF TimeInv, Calendar, Length, FileInv, Last
    <2> QED
      BY <2>1, <2>2, <2>3 DEF TimeInv
  <1>12. CASE UNCHANGED vars
    <2>1. TypeOK'
      BY <1>12 DEF vars, TimeInv, TypeOK
    <2> QED
      BY <1>12, <2>1, TimeUnchanged DEF vars, TimeInv
  <1> QED
    BY <1>1, <1>2, <1>3, <1>4, <1>5, <1>6, <1>7, <1>8, <1>9, <1>10, <1>11, <1>12 DEF Next

LEMMA TimeInvariant == Spec => []TimeInv
  BY InitTime, TimeStep, PTL DEF Spec

\* TypeOK: every variable of the logger, of its appenders and of the threads
\* keeps its type, and the mutex is held by the thread in the loop.
THEOREM LoggerTypes == Spec => []TypeOK
  <1>1. TimeInv => TypeOK
    BY DEF TimeInv
  <1> QED
    BY <1>1, TimeInvariant, PTL

-----------------------------------------------------------------------------
(* The files and the days *)

\* Neither the date of the open file nor that of the present is before the day of
\* a line that the open file is not too old for, when no short day is involved.
LEMMA OfTheDay ==
  ASSUME TimeInv, NEW f \in Files, NEW l \in Lines, made[l] # None
  PROVE  /\ ~ Short(Date(now) + 1) => Day(made[l]) <= Date(now)
         /\ LET d == Last(name[f])
            IN  ~ DayIsOver(f, l) /\ ~ Short(d) /\ ~ Short(d + 1) => Day(made[l]) <= d
  <1>1. /\ Days \in Nat \ {0}
        /\ \A d \in 0 .. Days : midnight[d] \in Nat /\ midnight[d + 1] \in Nat /\ midnight[d] < midnight[d + 1]
        /\ \A d, e \in 0 .. Days + 1 : d <= e => midnight[d] <= midnight[e]
    BY DaysIncrease DEF TimeInv
  <1>2. /\ now \in Nat /\ now < midnight[Days + 1] /\ midnight[1] <= now
        /\ midnight[Days + 1] \in Nat
        /\ made[l] \in Nat /\ made[l] <= now
    BY <1>1 DEF TimeInv, TypeOK, MadeInv, InTime
  <1>3. /\ Day(made[l]) \in 0 .. Days
        /\ InDay(made[l], Day(made[l]))
    BY <1>2, DayProps DEF TimeInv
  <1>4. ASSUME NEW d \in 0 .. Days, made[l] < midnight[d + 1]
        PROVE  Day(made[l]) <= d
    <2> SUFFICES ASSUME d + 1 <= Day(made[l])
                 PROVE  FALSE
      BY <1>1, <1>3
    <2>1. midnight[d + 1] <= midnight[Day(made[l])]
      BY <1>1, <1>3
    <2> QED
      BY <1>1, <1>2, <1>3, <1>4, <2>1 DEF InDay
  <1>5. ASSUME ~ Short(Date(now) + 1)
        PROVE  Day(made[l]) <= Date(now)
    <2>1. Day(now) \in 0 .. Days /\ InDay(now, Day(now))
      BY <1>2, DayProps DEF TimeInv
    <2>2. Date(now) = Day(now)
      BY <1>2, <1>5, MidnightStarts DEF TimeInv
    <2>3. made[l] < midnight[Day(now) + 1]
      BY <1>1, <1>2, <2>1 DEF InDay
    <2> QED
      BY <1>4, <2>1, <2>2, <2>3
  <1>6. ASSUME NEW d, d = Last(name[f]), ~ DayIsOver(f, l), ~ Short(d), ~ Short(d + 1)
        PROVE  Day(made[l]) <= d
    <2>1. d \in 0 .. Days /\ lastOpen[f] \in Starts(d)
      BY <1>6 DEF TimeInv, FileInv
    <2>2. /\ DaySeconds \in Nat /\ midnight[d] \in Nat /\ Length(d) \in Nat
          /\ midnight[d + 1] = midnight[d] + Length(d)
      BY <2>1, DayNumbers DEF TimeInv
    <2>3. DaySeconds <= Length(d)
      BY <1>6, <2>1, <2>2 DEF Short
    <2>4. lastOpen[f] = midnight[d] \/ lastOpen[f] = midnight[d] + (Length(d) - DaySeconds)
      BY <1>6, <2>1 DEF Starts
    <2>5. ~ (lastOpen[f] + DaySeconds <= made[l])
      BY <1>6 DEF DayIsOver
    <2>6. made[l] < midnight[d + 1]
      BY <1>2, <2>2, <2>3, <2>4, <2>5
    <2> QED
      BY <1>4, <2>1, <2>6
  <1> QED
    BY <1>5, <1>6

\* DayFits: whatever the clock and the threads do, and however often an open or
\* a write fails, a line that a good stream takes is not in the file of an
\* earlier date, but for the days that are too short (FileLogAppend::log,
\* reopen, Time::getTodayMidnightTimestamp).
THEOREM LinesFitTheirDay == Spec => DayFits
  <1>1. ASSUME TimeInv, [Next]_vars,
               NEW f \in Files, stream[f] = "good", output'[f] # output[f],
               NEW d, d = Last(name'[f]), ~ Short(d), ~ Short(d + 1)
        PROVE  Day(made[Last(output'[f])]) <= d
    <2>1. PICK t \in Threads, a \in Appenders : ConsoleLog(t, a) \/ FileLog(t, a)
      BY <1>1 DEF Next, vars, AddAppend, DelAppend, SetFormatter, SetLevel, Make, Check,
                  Enter, Leave, Tick
    <2>2. a = f /\ FileLog(t, f) /\ pc[t] = "loop"
      <3>1. CASE ConsoleLog(t, a)
        <4>1. a # f
          BY <3>1, LoggerAssumption DEF ConsoleLog
        <4> QED
          BY <1>1, <3>1, <4>1 DEF ConsoleLog
      <3>2. CASE FileLog(t, a)
        <4>1. pc[t] = "loop"
          BY <3>2 DEF FileLog, Visits
        <4>2. output' = IF stream'[a] = "good" THEN [output EXCEPT ![a] = Append(@, line[t])]
                                               ELSE output
          BY <3>2 DEF FileLog
        <4>3. a = f
          BY <1>1, <4>2
        <4> QED
          BY <3>2, <4>1, <4>3
      <3> QED
        BY <2>1, <3>1, <3>2
    <2>3. line[t] \in Lines /\ made[line[t]] # None
      BY <1>1, <2>2 DEF TimeInv, MadeInv
    <2>4. output' = [output EXCEPT ![f] = Append(@, line[t])]
      BY <1>1, <2>2 DEF FileLog
    <2>5. Last(output'[f]) = line[t]
      <3>1. f \in Appenders /\ output \in [Appenders -> Seq(Lines)]
        BY <1>1 DEF Appenders, TimeInv, TypeOK
      <3>2. output'[f] = Append(output[f], line[t]) /\ output[f] \in Seq(Lines)
        BY <2>4, <3>1
      <3> QED
        BY <2>3, <3>2 DEF Last
    <2>6. CASE DayIsOver(f, line[t])
      <3>1. name \in [Files -> Seq(Nat)] /\ Date(now) \in Nat
        BY <1>1, MidnightStarts DEF TimeInv, TypeOK, InTime
      <3>2. name'[f] = Append(name[f], Date(now))
        BY <1>1, <2>2, <2>6, <3>1 DEF FileLog, Rename
      <3>3. d = Date(now)
        BY <1>1, <3>1, <3>2 DEF Last
      <3> QED
        BY <1>1, <2>3, <2>5, <3>3, OfTheDay
    <2>7. CASE ~ DayIsOver(f, line[t])
      <3>1. d = Last(name[f])
        BY <1>1, <2>2, <2>7 DEF FileLog, Last
      <3> QED
        BY <1>1, <2>3, <2>5, <2>7, <3>1, OfTheDay
    <2> QED
      BY <2>6, <2>7
  <1>2. TimeInv /\ [Next]_vars =>
          \A f \in Files : (stream[f] = "good" /\ output'[f] # output[f]) =>
            LET d == Last(name'[f])
            IN  Short(d) \/ Short(d + 1) \/ Day(made[Last(output'[f])]) <= d
    BY <1>1
  <1> QED
    BY <1>2, TimeInvariant, PTL DEF Spec, DayFits

\* Which of the files with the date of day k it is at most that a time x belongs
\* to: the first if x is the midnight, the second if x is the one of a long day
\* after the clock has been changed.
Turn(x, k) ==
  IF x = midnight[k] THEN 1
  ELSE IF x = midnight[k] + (Length(k) - DaySeconds) THEN 2 ELSE FilesOf(k)

\* A date has come as often as the time of its last file allows.
DatesInv == \A f \in Files : \A j \in 1 .. Len(name[f]) :
  /\ name[f][j] <= Last(name[f])
  /\ j + Turn(lastOpen[f], Last(name[f])) <= Len(name[f]) => name[f][j] < Last(name[f])

\* What OneFilePerDay says of the dates.
DatesIncrease == \A f \in Files : \A i \in DOMAIN name[f] : \A j \in 1 .. i - 1 :
  /\ name[f][j] <= name[f][i]
  /\ j + FilesOf(name[f][i]) <= i => name[f][j] < name[f][i]

\* The first file is one, and no file is more than the calendar explains.
LEMMA TurnBounds ==
  ASSUME Calendar, NEW k \in 0 .. Days, NEW x \in Starts(k)
  PROVE  /\ FilesOf(k) \in 1 .. 3
         /\ Turn(x, k) \in 1 .. FilesOf(k)
  <1>1. /\ DaySeconds \in Nat /\ Length(k) \in Nat /\ midnight[k] \in Nat
    BY DayNumbers
  <1>2. /\ FilesOf(k) \in 1 .. 3
        /\ Length(k) > DaySeconds => FilesOf(k) >= 2
        /\ Short(k + 1) => FilesOf(k) >= 2
    BY <1>1 DEF FilesOf
  <1>3. \/ x = midnight[k]
        \/ Length(k) > DaySeconds
        \/ Short(k + 1)
    BY DEF Starts
  <1> QED
    BY <1>2, <1>3 DEF Turn

\* A file that is reopened because a line is a day late gets a later date, or
\* the same date in a later turn.
LEMMA NewDay ==
  ASSUME TimeInv, NEW f \in Files, NEW l \in Lines, made[l] # None, DayIsOver(f, l),
         NEW k, k = Last(name[f])
  PROVE  /\ k <= Date(now)
         /\ k = Date(now) => Turn(lastOpen[f], k) + 1 <= Turn(Midnight(now), k)
  <1> DEFINE n == Day(now)
             e == Date(now)
             x == lastOpen[f]
             y == Midnight(now)
             D == DaySeconds
  <1>1. /\ Days \in Nat \ {0}
        /\ \A d, c \in 0 .. Days + 1 : d <= c => midnight[d] <= midnight[c]
    BY DaysIncrease DEF TimeInv
  <1>2. k \in 0 .. Days /\ x \in Starts(k)
    BY DEF TimeInv, FileInv
  <1>3. now \in Nat /\ now < midnight[Days + 1] /\ midnight[1] <= now
    BY DEF TimeInv, TypeOK, InTime
  <1>4. n \in 0 .. Days /\ midnight[n] <= now /\ now < midnight[n + 1]
    BY <1>3, DayProps DEF TimeInv, InDay
  <1>5. /\ D \in Nat \ {0} /\ ClockChange \in 1 .. D
        /\ midnight[k] \in Nat /\ Length(k) \in Nat /\ 0 < Length(k)
        /\ midnight[k + 1] = midnight[k] + Length(k)
        /\ k + 1 \in 0 .. Days => /\ Length(k + 1) \in Nat /\ 0 < Length(k + 1)
                                 /\ midnight[k + 1 + 1] = midnight[k + 1] + Length(k + 1)
                                 /\ D <= Length(k) + Length(k + 1)
    BY <1>2, DayNumbers DEF TimeInv
  <1>6. x \in Nat /\ midnight[k] <= x
    BY <1>2, StartsInDay DEF TimeInv, InDay
  <1>7. x + D <= now
    <2>1. made[l] \in Nat /\ made[l] <= now
      BY DEF TimeInv, TypeOK, MadeInv
    <2>2. x + D <= made[l]
      BY DEF DayIsOver
    <2> QED
      BY <1>3, <1>5, <1>6, <2>1, <2>2
  <1>8. \/ /\ e = n /\ ~ Short(n)
           /\ \/ y = midnight[n] /\ (now < midnight[n] + ClockChange \/ Length(n) = D)
              \/ Length(n) > D /\ y = midnight[n] + (Length(n) - D)
        \/ e = n /\ y = midnight[n] /\ now < midnight[n] + ClockChange
        \/ /\ Short(n) /\ e + 1 = n
           /\ y = midnight[n] + (Length(n) - D)
    BY <1>3, MidnightStarts DEF TimeInv
  <1>9. e \in 0 .. Days /\ y \in Starts(e)
    BY <1>3, MidnightStarts DEF TimeInv
  <1> HIDE DEF n, e, x, y, D
  <1>10. k <= n
    <2> SUFFICES ASSUME n + 1 <= k
                 PROVE  FALSE
      BY <1>2, <1>4
    <2>1. n + 1 \in 0 .. Days + 1 /\ k \in 0 .. Days + 1
      BY <1>1, <1>2, <1>4
    <2>2. midnight[n + 1] <= midnight[k]
      BY <1>1, <2>1
    <2>3. midnight[n + 1] \in Nat
      BY <2>1 DEF TimeInv, Calendar
    <2> QED
      BY <1>3, <1>4, <1>5, <1>6, <1>7, <2>2, <2>3
  <1>11. k <= e
    <2>1. CASE e = n
      BY <1>10, <2>1
    <2>2. CASE Short(n) /\ e + 1 = n
      <3>1. k # n
        <4> SUFFICES ASSUME k = n
                     PROVE  FALSE
          OBVIOUS
        <4>1. Length(k) < D
          BY <2>2 DEF Short, D
        <4> QED
          BY <1>3, <1>4, <1>5, <1>6, <1>7, <4>1
      <3> QED
        BY <1>2, <1>4, <1>9, <1>10, <2>2, <3>1
    <2> QED
      BY <1>8, <2>1, <2>2
  <1>12. ASSUME k = e
         PROVE  Turn(x, k) + 1 <= Turn(y, k)
    <2>1. x = midnight[k] \/ (Length(k) > D /\ x = midnight[k] + (Length(k) - D))
          \/ (Short(k + 1) /\ x = midnight[k + 1] + (Length(k + 1) - D))
      BY <1>2 DEF Starts, D
    <2>2. CASE n = k
      <3>1. now < midnight[k] + Length(k)
        BY <1>4, <1>5, <2>2
      <3>2. Length(k) > D /\ y = midnight[k] + (Length(k) - D)
        BY <1>3, <1>5, <1>6, <1>7, <1>8, <1>12, <2>2, <3>1
      <3>3. y # midnight[k] /\ Turn(y, k) = 2
        BY <1>5, <3>2 DEF Turn, D
      <3>4. x # midnight[k] + (Length(k) - D)
        BY <1>3, <1>5, <1>6, <1>7, <3>1
      <3>5. ~ (Short(k + 1) /\ x = midnight[k + 1] + (Length(k + 1) - D))
        <4> SUFFICES ASSUME Short(k + 1), x = midnight[k + 1] + (Length(k + 1) - D)
                     PROVE  FALSE
          OBVIOUS
        <4>1. k + 1 \in 0 .. Days
          BY DEF Short
        <4> QED
          BY <1>3, <1>5, <1>6, <1>7, <3>1, <4>1
      <3>6. x = midnight[k] /\ Turn(x, k) = 1
        BY <2>1, <3>4, <3>5 DEF Turn
      <3> QED
        BY <3>3, <3>6
    <2>3. CASE n # k
      <3>1. Short(n) /\ k + 1 = n /\ y = midnight[n] + (Length(n) - D)
        BY <1>8, <1>12, <2>3
      <3>2. k + 1 \in 0 .. Days /\ Short(k + 1)
        BY <3>1 DEF Short
      <3>3. /\ Length(k + 1) \in Nat /\ 0 < Length(k + 1)
            /\ now < midnight[k] + Length(k) + Length(k + 1)
            /\ y = midnight[k] + Length(k) + Length(k + 1) - D
        BY <1>4, <1>5, <3>1, <3>2
      <3>4. y # midnight[k] /\ y # midnight[k] + (Length(k) - D)
        BY <1>3, <1>5, <1>6, <1>7, <3>3
      <3>5. Turn(y, k) = FilesOf(k)
        BY <3>4 DEF Turn, D
      <3>6. ~ (x = midnight[k + 1] + (Length(k + 1) - D))
        BY <1>3, <1>5, <1>6, <1>7, <3>3
      <3>7. CASE x = midnight[k]
        <4>1. Turn(x, k) = 1
          BY <3>7 DEF Turn
        <4>2. FilesOf(k) >= 2
          BY <1>5, <3>2 DEF FilesOf, D
        <4> QED
          BY <3>5, <4>1, <4>2
      <3>8. CASE Length(k) > D /\ x = midnight[k] + (Length(k) - D)
        <4>1. Turn(x, k) = 2
          BY <1>5, <3>8 DEF Turn, D
        <4>2. FilesOf(k) = 3
          BY <1>5, <3>2, <3>8 DEF FilesOf, D
        <4> QED
          BY <3>5, <4>1, <4>2
      <3> QED
        BY <2>1, <3>6, <3>7, <3>8
    <2> QED
      BY <2>2, <2>3
  <1> QED
    BY <1>11, <1>12 DEF e, x, y

\* A name that a date is added to keeps what the two say of it.
LEMMA AddDate ==
  ASSUME TimeInv, NEW f \in Files, NEW l \in Lines, made[l] # None, DayIsOver(f, l),
         DatesInv, DatesIncrease,
         NEW s, s = Append(name[f], Date(now))
  PROVE  /\ \A j \in 1 .. Len(s) :
              /\ s[j] <= Last(s)
              /\ j + Turn(Midnight(now), Last(s)) <= Len(s) => s[j] < Last(s)
         /\ \A i \in DOMAIN s : \A j \in 1 .. i - 1 :
              /\ s[j] <= s[i]
              /\ j + FilesOf(s[i]) <= i => s[j] < s[i]
  <1> DEFINE q == name[f]
             m == Len(q)
             k == Last(q)
             e == Date(now)
  <1>1. q \in Seq(Nat) /\ m \in Nat \ {0} /\ k \in 0 .. Days /\ lastOpen[f] \in Starts(k)
        /\ \A j \in 1 .. m : q[j] \in Nat
    BY DEF TimeInv, TypeOK, FileInv
  <1>2. e \in 0 .. Days /\ Midnight(now) \in Starts(e)
    BY MidnightStarts DEF TimeInv, TypeOK, InTime
  <1>3. /\ k <= e
        /\ k = e => Turn(lastOpen[f], k) + 1 <= Turn(Midnight(now), k)
    BY NewDay
  <1>4. \A j \in 1 .. m : q[j] <= k /\ (j + Turn(lastOpen[f], k) <= m => q[j] < k)
    BY DEF DatesInv
  <1>5. /\ Turn(lastOpen[f], k) \in Nat
        /\ FilesOf(e) \in 1 .. 3 /\ Turn(Midnight(now), e) \in 1 .. FilesOf(e)
    BY <1>1, <1>2, TurnBounds DEF TimeInv
  <1> HIDE DEF q, m, k, e
  <1>6. /\ Len(s) = m + 1 /\ DOMAIN s = 1 .. m + 1 /\ s[m + 1] = e /\ Last(s) = e
        /\ \A j \in 1 .. m : s[j] = q[j]
    BY <1>1, <1>2 DEF q, m, e, Last
  <1>7. ASSUME NEW j \in 1 .. m
        PROVE  s[j] <= e /\ (j + Turn(Midnight(now), e) <= m + 1 => s[j] < e)
    <2>1. q[j] <= k /\ q[j] \in Nat /\ s[j] = q[j]
      BY <1>1, <1>4, <1>6
    <2>2. CASE k < e
      BY <1>1, <1>2, <2>1, <2>2
    <2>3. CASE k = e
      <3>1. j + Turn(Midnight(now), e) <= m + 1 => j + Turn(lastOpen[f], k) <= m
        BY <1>1, <1>3, <1>5, <2>3
      <3> QED
        BY <1>4, <2>1, <2>3, <3>1
    <2>4. k < e \/ k = e
      BY <1>1, <1>2, <1>3
    <2> QED
      BY <2>2, <2>3, <2>4
  <1>8. ASSUME NEW j \in 1 .. Len(s)
        PROVE  s[j] <= Last(s) /\ (j + Turn(Midnight(now), Last(s)) <= Len(s) => s[j] < Last(s))
    <2>1. CASE j = m + 1
      <3>1. ~ (j + Turn(Midnight(now), e) <= m + 1)
        BY <1>1, <1>5, <2>1
      <3> QED
        BY <1>2, <1>6, <2>1, <3>1
    <2>2. CASE j # m + 1
      BY <1>1, <1>6, <1>7, <2>2
    <2> QED
      BY <2>1, <2>2
  <1>9. ASSUME NEW i \in DOMAIN s, NEW j \in 1 .. i - 1
        PROVE  s[j] <= s[i] /\ (j + FilesOf(s[i]) <= i => s[j] < s[i])
    <2>1. CASE i = m + 1
      <3>1. j \in 1 .. m
        BY <1>1, <2>1
      <3>2. j + FilesOf(e) <= m + 1 => j + Turn(Midnight(now), e) <= m + 1
        BY <1>1, <1>5, <3>1
      <3> QED
        BY <1>6, <1>7, <2>1, <3>1, <3>2
    <2>2. CASE i # m + 1
      <3>1. i \in 1 .. m /\ j \in 1 .. m
        BY <1>1, <1>6, <2>2
      <3>2. i \in DOMAIN q
        BY <1>1, <3>1 DEF m
      <3>3. q[j] <= q[i] /\ (j + FilesOf(q[i]) <= i => q[j] < q[i])
        BY <3>2 DEF DatesIncrease, q
      <3> QED
        BY <1>6, <3>1, <3>3
    <2> QED
      BY <2>1, <2>2
  <1> QED
    BY <1>8, <1>9

LEMMA OneFileStep ==
  TimeInv /\ DatesInv /\ DatesIncrease /\ [Next]_vars => DatesInv' /\ DatesIncrease'
  <1> SUFFICES ASSUME TimeInv, DatesInv, DatesIncrease, [Next]_vars
               PROVE  DatesInv' /\ DatesIncrease'
    OBVIOUS
  <1>1. midnight' = midnight
    BY DEF Next, vars, fileVars, timeVars, AddAppend, DelAppend, SetFormatter,
       SetLevel, Make, Check, Enter, Leave, ConsoleLog, FileLog, Tick
  <1>2. \A k : (FilesOf(k))' = FilesOf(k)
    BY <1>1 DEF FilesOf, Short, Length
  <1>3. \A f \in Files : (Turn(lastOpen[f], Last(name[f])))' =
                           Turn(lastOpen'[f], Last(name'[f]))
    BY <1>1, <1>2 DEF Turn, Length, Last
  <1>4. ASSUME NEW f \in Files,
               \/ lastOpen'[f] = lastOpen[f] /\ name'[f] = name[f]
               \/ /\ lastOpen'[f] = Midnight(now)
                  /\ name'[f] = Append(name[f], Date(now))
                  /\ \E l \in Lines : made[l] # None /\ DayIsOver(f, l)
        PROVE  /\ \A j \in 1 .. Len(name'[f]) :
                    /\ name'[f][j] <= Last(name'[f])
                    /\ j + Turn(lastOpen'[f], Last(name'[f])) <= Len(name'[f])
                         => name'[f][j] < Last(name'[f])
               /\ \A i \in DOMAIN name'[f] : \A j \in 1 .. i - 1 :
                    /\ name'[f][j] <= name'[f][i]
                    /\ j + FilesOf(name'[f][i]) <= i => name'[f][j] < name'[f][i]
    <2>1. CASE lastOpen'[f] = lastOpen[f] /\ name'[f] = name[f]
      BY <2>1 DEF DatesInv, DatesIncrease
    <2>2. CASE /\ lastOpen'[f] = Midnight(now)
               /\ name'[f] = Append(name[f], Date(now))
               /\ \E l \in Lines : made[l] # None /\ DayIsOver(f, l)
      BY <2>2, AddDate
    <2> QED
      BY <1>4, <2>1, <2>2
  <1>5. ASSUME NEW f \in Files
        PROVE  \/ lastOpen'[f] = lastOpen[f] /\ name'[f] = name[f]
               \/ /\ lastOpen'[f] = Midnight(now)
                  /\ name'[f] = Append(name[f], Date(now))
                  /\ \E l \in Lines : made[l] # None /\ DayIsOver(f, l)
    <2>1. lastOpen \in [Files -> Nat] /\ name \in [Files -> Seq(Nat)]
      BY DEF TimeInv, TypeOK
    <2>2. CASE UNCHANGED <<lastOpen, name>>
      BY <2>2
    <2>3. ASSUME NEW t \in Threads, NEW g \in Appenders, FileLog(t, g),
                 ~ UNCHANGED <<lastOpen, name>>
          PROVE  \/ lastOpen'[f] = lastOpen[f] /\ name'[f] = name[f]
                 \/ /\ lastOpen'[f] = Midnight(now)
                    /\ name'[f] = Append(name[f], Date(now))
                    /\ \E l \in Lines : made[l] # None /\ DayIsOver(f, l)
      <3>1. /\ g \in Files /\ pc[t] = "loop" /\ DayIsOver(g, line[t])
            /\ lastOpen' = [lastOpen EXCEPT ![g] = Midnight(now)]
            /\ name' = [name EXCEPT ![g] = Append(@, Date(now))]
        BY <2>3 DEF FileLog, Visits, Rename
      <3>2. line[t] \in Lines /\ made[line[t]] # None
        BY <3>1 DEF TimeInv, MadeInv
      <3> QED
        BY <2>1, <3>1, <3>2
    <2>4. UNCHANGED <<lastOpen, name>> \/ \E t \in Threads, g \in Appenders : FileLog(t, g)
      BY DEF Next, vars, fileVars, timeVars, AddAppend, DelAppend, SetFormatter,
         SetLevel, Make, Check, Enter, Leave, ConsoleLog, Tick
    <2> QED
      BY <2>2, <2>3, <2>4
  <1>6. DatesInv'
    BY <1>3, <1>4, <1>5 DEF DatesInv, Last
  <1>7. DatesIncrease'
    BY <1>2, <1>4, <1>5 DEF DatesIncrease
  <1> QED
    BY <1>6, <1>7

\* OneFilePerDay: the dates of a name do not decrease, and each comes once, but
\* for a long day and the day before a short one, whatever fails (FileLogAppend,
\* Time::getTodayMidnightTimestamp).
THEOREM OneFileADay == Spec => []OneFilePerDay
  <1>1. TimeInv /\ Init => DatesInv /\ DatesIncrease
    <2> SUFFICES ASSUME Init, TimeInv, NEW f \in Files
                 PROVE  /\ \A j \in 1 .. Len(name[f]) :
                             /\ name[f][j] <= Last(name[f])
                             /\ ~ (j + Turn(lastOpen[f], Last(name[f])) <= Len(name[f]))
                        /\ \A i \in DOMAIN name[f] : \A j \in 1 .. i - 1 : FALSE
      BY DEF DatesInv, DatesIncrease
    <2>1. name[f] = <<Date(now)>> /\ lastOpen[f] = Midnight(now)
      BY DEF Init
    <2>2. Date(now) \in 0 .. Days /\ Midnight(now) \in Starts(Date(now))
      BY MidnightStarts DEF TimeInv, TypeOK, InTime
    <2>3. Turn(Midnight(now), Date(now)) \in Nat \ {0}
      BY <2>2, TurnBounds DEF TimeInv
    <2>4. Len(name[f]) = 1 /\ DOMAIN name[f] = 1 .. 1 /\ name[f][1] = Date(now)
          /\ Last(name[f]) = Date(now)
      BY <2>1 DEF Last
    <2> QED
      BY <2>1, <2>2, <2>3, <2>4
  <1>2. TimeInv /\ DatesInv /\ DatesIncrease /\ [Next]_vars => DatesInv' /\ DatesIncrease'
    BY OneFileStep
  <1>3. TimeInv /\ DatesIncrease => OneFilePerDay
    <2>1. TimeInv => \A f \in Files : Day(lastOpen[f]) = Last(name[f])
      BY StartsInDay DEF TimeInv, FileInv
    <2> QED
      BY <2>1 DEF DatesIncrease, OneFilePerDay
  <1> QED
    BY <1>1, <1>2, <1>3, TimeInvariant, PTL DEF Spec

-----------------------------------------------------------------------------
(* The list of appenders and the loop of log() *)

\* When two sequences agree at their ends, the shorter is a suffix.
LEMMA SuffixByElements ==
  ASSUME NEW S, NEW s \in Seq(S), NEW u \in Seq(S), Len(s) <= Len(u),
         \A i \in 1 .. Len(s) : s[i] = u[Len(u) - Len(s) + i]
  PROVE  IsSuffix(s, u)
  <1> DEFINE p == Reverse(s)
             q == Reverse(u)
  <1>1. Len(s) \in Nat /\ Len(u) \in Nat
    OBVIOUS
  <1>2. /\ p \in Seq(S) /\ Len(p) = Len(s)
        /\ \A i \in 1 .. Len(s) : p[i] = s[(Len(s) - i) + 1]
    BY <1>1 DEF Reverse
  <1>3. /\ q \in Seq(S) /\ Len(q) = Len(u)
        /\ \A i \in 1 .. Len(u) : q[i] = u[(Len(u) - i) + 1]
    BY <1>1 DEF Reverse
  <1>4. \A i \in 1 .. Len(s) : p[i] = q[i]
    <2> SUFFICES ASSUME NEW i \in 1 .. Len(s)
                 PROVE  p[i] = q[i]
      OBVIOUS
    <2>1. /\ (Len(s) - i) + 1 \in 1 .. Len(s)
          /\ i \in 1 .. Len(u)
          /\ Len(u) - Len(s) + ((Len(s) - i) + 1) = (Len(u) - i) + 1
      BY <1>1
    <2> HIDE DEF p, q
    <2> QED
      BY <1>2, <1>3, <2>1
  <1> HIDE DEF p, q
  <1>5. SubSeq(p, 1, Len(p)) = SubSeq(q, 1, Len(p))
    BY <1>1, <1>2, <1>3, <1>4
  <1> QED
    BY <1>1, <1>2, <1>3, <1>5 DEF IsSuffix, IsPrefix, p, q

\* An appender is in the list once, and has a formatter there.
ListInv ==
  /\ \A i, j \in 1 .. Len(appenders) : appenders[i] = appenders[j] => i = j
  /\ \A i \in 1 .. Len(appenders) : format[appenders[i]] # None

\* What the loop has still to visit is the end of the list.
RestInv == \A t \in Threads : pc[t] = "loop" =>
  /\ Len(rest[t]) <= Len(appenders)
  /\ \A i \in 1 .. Len(rest[t]) : rest[t][i] = appenders[Len(appenders) - Len(rest[t]) + i]

LoopInv == ListInv /\ RestInv

\* An appender is visited, and the loop goes on to the next.
LEMMA VisitsProps ==
  ASSUME TypeOK, NEW t \in Threads, NEW a \in Appenders, Visits(t, a)
  PROVE  /\ pc[t] = "loop" /\ mutex = t
         /\ 1 \in 1 .. Len(rest[t]) /\ a = rest[t][1]
         /\ rest'[t] \in Seq(Appenders)
         /\ Len(rest'[t]) = Len(rest[t]) - 1
         /\ \A i \in 1 .. Len(rest'[t]) : i + 1 \in 1 .. Len(rest[t]) /\ rest'[t][i] = rest[t][i + 1]
         /\ \A u \in Threads : u # t => rest'[u] = rest[u]
  <1>1. /\ pc[t] = "loop" /\ rest[t] # <<>> /\ rest[t] \in Seq(Appenders)
        /\ a = Head(rest[t]) /\ rest'[t] = Tail(rest[t])
        /\ \A u \in Threads : u # t => rest'[u] = rest[u]
    BY DEF Visits, TypeOK
  <1>2. Len(rest[t]) \in Nat \ {0}
    BY <1>1
  <1> QED
    BY <1>1, <1>2 DEF TypeOK

LEMMA LoopStep == TimeInv /\ LoopInv /\ [Next]_vars => LoopInv'
  <1> SUFFICES ASSUME TimeInv, LoopInv, [Next]_vars
               PROVE  LoopInv'
    OBVIOUS
  <1>1. /\ appenders \in Seq(Appenders) /\ Len(appenders) \in Nat
        /\ format \in [Appenders -> Formats \cup {None}]
        /\ \A i \in 1 .. Len(appenders) : appenders[i] \in Appenders
        /\ \A t \in Threads : pc[t] = "loop" <=> mutex = t
        /\ mutex \in Threads \cup {None} /\ None \notin Threads
    BY NoneIsNothing DEF TimeInv, TypeOK
  <1>2. CASE UNCHANGED <<appenders, format, pc, rest>>
    BY <1>2 DEF LoopInv, ListInv, RestInv
  <1>3. ASSUME UNCHANGED <<pc, rest>>, mutex = None
        PROVE  RestInv'
    BY <1>1, <1>3 DEF RestInv
  <1>4. ASSUME NEW a \in Appenders, AddAppend(a)
        PROVE  LoopInv'
    <2>1. /\ appenders' = Append(appenders, a)
          /\ format' = [format EXCEPT ![a] = IF @ = None THEN formater ELSE @]
          /\ formater \in Formats
          /\ UNCHANGED <<pc, rest>> /\ mutex = None
      BY <1>4 DEF AddAppend, logVars, TimeInv, TypeOK
    <2>2. /\ Len(appenders') = Len(appenders) + 1
          /\ appenders'[Len(appenders) + 1] = a
          /\ \A i \in 1 .. Len(appenders) : appenders'[i] = appenders[i]
      BY <1>1, <2>1
    <2>3. \A i \in 1 .. Len(appenders) : appenders[i] # a
      BY <1>1, <1>4 DEF AddAppend, Range
    <2>4. \A i \in 1 .. Len(appenders') : i \in 1 .. Len(appenders) \/ i = Len(appenders) + 1
      BY <1>1, <2>2
    <2>5. \A b \in Appenders : b = a \/ format[b] # None => format'[b] # None
      BY <1>1, <2>1, NoneIsNothing
    <2>6. ListInv'
      <3>1. ASSUME NEW i \in 1 .. Len(appenders'), NEW j \in 1 .. Len(appenders'),
                   appenders'[i] = appenders'[j]
            PROVE  i = j
        BY <2>2, <2>3, <2>4, <3>1 DEF LoopInv, ListInv
      <3>2. ASSUME NEW i \in 1 .. Len(appenders')
            PROVE  format'[appenders'[i]] # None
        <4>1. CASE i \in 1 .. Len(appenders)
          BY <1>1, <2>2, <2>5, <4>1 DEF LoopInv, ListInv
        <4>2. CASE i = Len(appenders) + 1
          BY <2>2, <2>5, <4>2
        <4> QED
          BY <2>4, <4>1, <4>2
      <3> QED
        BY <3>1, <3>2 DEF ListInv
    <2> QED
      BY <1>3, <2>1, <2>6 DEF LoopInv
  <1>5. ASSUME NEW a \in Appenders, DelAppend(a)
        PROVE  LoopInv'
    <2>1. PICK i \in 1 .. Len(appenders) : appenders' = RemoveAt(appenders, i)
      BY <1>1, <1>5 DEF DelAppend, Erase
    <2>2. UNCHANGED <<pc, rest, format>> /\ mutex = None
      BY <1>5 DEF DelAppend, logVars
    <2>3. /\ Len(appenders') = Len(appenders) - 1
          /\ \A k \in 1 .. Len(appenders) - 1 :
               appenders'[k] = IF k < i THEN appenders[k] ELSE appenders[k + 1]
      BY <1>1, <2>1, RemoveAtProps
    <2>4. \A k \in 1 .. Len(appenders) - 1 : k \in 1 .. Len(appenders) /\ k + 1 \in 1 .. Len(appenders)
      BY <1>1
    <2>5. \A j, k \in 1 .. Len(appenders') : appenders'[j] = appenders'[k] => j = k
      <3> SUFFICES ASSUME NEW j \in 1 .. Len(appenders'), NEW k \in 1 .. Len(appenders'),
                          appenders'[j] = appenders'[k], j < k
                   PROVE  FALSE
        BY <1>1, <2>3
      <3> DEFINE x == IF j < i THEN j ELSE j + 1
                 y == IF k < i THEN k ELSE k + 1
      <3>1. j \in 1 .. Len(appenders) - 1 /\ k \in 1 .. Len(appenders) - 1
        BY <2>3
      <3>2. appenders[x] = appenders[y]
        BY <2>3, <3>1
      <3>3. x < y /\ x \in 1 .. Len(appenders) /\ y \in 1 .. Len(appenders)
        BY <1>1, <2>4, <3>1
      <3> HIDE DEF x, y
      <3>4. x = y
        BY <3>2, <3>3 DEF LoopInv, ListInv
      <3> QED
        BY <3>3, <3>4
    <2>6. \A k \in 1 .. Len(appenders') : format'[appenders'[k]] # None
      <3>1. \A k \in 1 .. Len(appenders) : format'[appenders[k]] # None
        BY <2>2 DEF LoopInv, ListInv
      <3> QED
        BY <2>3, <2>4, <3>1
    <2> QED
      BY <1>3, <2>2, <2>5, <2>6 DEF LoopInv, ListInv
  <1>6. ASSUME NEW f \in Formats, SetFormatter(f)
        PROVE  LoopInv'
    <2>1. /\ UNCHANGED <<pc, rest, appenders>> /\ mutex = None
          /\ format' = [a \in Appenders |-> IF a \in Range(appenders) THEN f ELSE format[a]]
      BY <1>6 DEF SetFormatter, logVars
    <2>2. \A i \in 1 .. Len(appenders) : appenders[i] \in Range(appenders) /\ f # None
      BY <1>1, NoneIsNothing DEF Range
    <2>3. ListInv'
      BY <1>1, <2>1, <2>2 DEF LoopInv, ListInv
    <2> QED
      BY <1>3, <2>1, <2>3 DEF LoopInv
  <1>7. ASSUME NEW t \in Threads, Enter(t)
        PROVE  LoopInv'
    <2>1. /\ UNCHANGED <<appenders, format>> /\ mutex = None
          /\ rest' = [rest EXCEPT ![t] = appenders] /\ pc' = [pc EXCEPT ![t] = "loop"]
      BY <1>7 DEF Enter
    <2>2. \A u \in Threads : pc'[u] = "loop" => u = t
      BY <1>1, <2>1 DEF TimeInv, TypeOK
    <2>3. rest'[t] = appenders
      BY <2>1 DEF TimeInv, TypeOK
    <2>4. RestInv'
      <3>1. \A i \in 1 .. Len(appenders) : Len(appenders) - Len(appenders) + i = i
        BY <1>1
      <3>2. Len(appenders) <= Len(appenders)
        BY <1>1
      <3> QED
        BY <2>1, <2>2, <2>3, <3>1, <3>2 DEF RestInv
    <2> QED
      BY <2>1, <2>4 DEF LoopInv, ListInv
  <1>8. ASSUME NEW t \in Threads, NEW a \in Appenders, Visits(t, a),
               UNCHANGED <<appenders, format, pc>>
        PROVE  LoopInv'
    <2>1. /\ pc[t] = "loop" /\ rest[t] \in Seq(Appenders)
          /\ Len(rest'[t]) = Len(rest[t]) - 1
          /\ \A i \in 1 .. Len(rest'[t]) : i + 1 \in 1 .. Len(rest[t]) /\ rest'[t][i] = rest[t][i + 1]
          /\ \A u \in Threads : u # t => rest'[u] = rest[u]
      BY <1>8, VisitsProps DEF TimeInv, TypeOK
    <2>2. /\ Len(rest'[t]) <= Len(appenders)
          /\ \A i \in 1 .. Len(rest'[t]) : rest'[t][i] = appenders[Len(appenders) - Len(rest'[t]) + i]
      <3>1. /\ Len(rest[t]) <= Len(appenders) /\ Len(rest[t]) \in Nat
            /\ \A i \in 1 .. Len(rest[t]) : rest[t][i] = appenders[Len(appenders) - Len(rest[t]) + i]
        <4>1. RestInv
          BY DEF LoopInv
        <4>2. Len(rest[t]) \in Nat
          BY <2>1
        <4> QED
          BY <2>1, <4>1, <4>2 DEF RestInv
      <3>2. \A i \in 1 .. Len(rest'[t]) :
              Len(appenders) - Len(rest[t]) + (i + 1) = Len(appenders) - Len(rest'[t]) + i
        BY <1>1, <2>1, <3>1
      <3>3. Len(rest'[t]) <= Len(appenders)
        BY <1>1, <2>1, <3>1
      <3> QED
        BY <2>1, <3>1, <3>2, <3>3
    <2>3. RestInv'
      <3>1. RestInv /\ appenders' = appenders /\ pc' = pc
        BY <1>8 DEF LoopInv
      <3>2. ASSUME NEW u \in Threads, pc'[u] = "loop"
            PROVE  /\ Len(rest'[u]) <= Len(appenders)
                   /\ \A i \in 1 .. Len(rest'[u]) :
                        rest'[u][i] = appenders[Len(appenders) - Len(rest'[u]) + i]
        <4>1. CASE u = t
          BY <2>2, <4>1
        <4>2. CASE u # t
          <5>1. rest'[u] = rest[u] /\ pc[u] = "loop"
            BY <2>1, <3>1, <3>2, <4>2
          <5> QED
            BY <3>1, <5>1 DEF RestInv
        <4> QED
          BY <4>1, <4>2
      <3> QED
        BY <3>1, <3>2 DEF RestInv
    <2> QED
      BY <1>8, <2>3 DEF LoopInv, ListInv
  <1>9. ASSUME NEW t \in Threads, NEW a \in Appenders, ConsoleLog(t, a) \/ FileLog(t, a)
        PROVE  LoopInv'
    <2>1. Visits(t, a) /\ UNCHANGED <<appenders, format, pc>>
      BY <1>9 DEF ConsoleLog, FileLog, loggerVars
    <2> QED
      BY <1>8, <2>1
  <1>10. ASSUME NEW t \in Threads, (\E l \in Lines : Make(t, l)) \/ Check(t) \/ Leave(t)
         PROVE  LoopInv'
    <2>1. /\ UNCHANGED <<appenders, format, rest>>
          /\ \A u \in Threads : pc'[u] = "loop" => pc[u] = "loop"
      BY <1>10 DEF Make, Check, Leave, loggerVars, TimeInv, TypeOK
    <2> QED
      BY <2>1 DEF LoopInv, ListInv, RestInv
  <1> QED
    BY <1>2, <1>4, <1>5, <1>6, <1>7, <1>9, <1>10
       DEF Next, vars, loggerVars, logVars, SetLevel, Tick

LEMMA LoopInvariant == Spec => [](TimeInv /\ LoopInv)
  <1>1. Init => LoopInv
    BY DEF Init, LoopInv, ListInv, RestInv
  <1> QED
    BY <1>1, InitTime, TimeStep, LoopStep, PTL DEF Spec

\* IteratorValid: while a thread is in the loop of log(), what it has still to
\* visit is the end of the list of appenders, whatever other threads add, delete
\* and set, and each of these appenders has a formatter.
THEOREM ListStaysValid == Spec => []IteratorValid
  <1>1. TimeInv /\ LoopInv => IteratorValid
    <2> SUFFICES ASSUME TimeInv, LoopInv, NEW t \in Threads, pc[t] = "loop"
                 PROVE  /\ IsSuffix(rest[t], appenders)
                        /\ \A i \in 1 .. Len(rest[t]) : format[rest[t][i]] # None
      BY DEF IteratorValid
    <2>1. /\ rest[t] \in Seq(Appenders) /\ appenders \in Seq(Appenders)
          /\ Len(rest[t]) \in Nat /\ Len(appenders) \in Nat
      BY DEF TimeInv, TypeOK
    <2>2. /\ Len(rest[t]) <= Len(appenders)
          /\ \A i \in 1 .. Len(rest[t]) : rest[t][i] = appenders[Len(appenders) - Len(rest[t]) + i]
      BY DEF LoopInv, RestInv
    <2>3. IsSuffix(rest[t], appenders)
      BY <2>1, <2>2, SuffixByElements
    <2>4. ASSUME NEW i \in 1 .. Len(rest[t])
          PROVE  format[rest[t][i]] # None
      <3>1. Len(appenders) - Len(rest[t]) + i \in 1 .. Len(appenders)
        BY <2>1, <2>2
      <3>2. rest[t][i] = appenders[Len(appenders) - Len(rest[t]) + i]
        BY <2>2
      <3> QED
        BY <3>1, <3>2 DEF LoopInv, ListInv
    <2> QED
      BY <2>3, <2>4
  <1> QED
    BY <1>1, LoopInvariant, PTL

-----------------------------------------------------------------------------
(* The order of the lines *)

\* A line is logged by one thread.
OneLogger == \A t, u \in Threads :
  (pc[t] # "out" /\ pc[u] # "out" /\ t # u) => line[t] # line[u]

\* An appender has a line once, and only lines that were made.
OnceInv == \A a \in Appenders : \A i \in 1 .. Len(output[a]) :
  /\ made[output[a][i]] # None
  /\ \A j \in 1 .. Len(output[a]) : output[a][i] = output[a][j] => i = j

\* The line of a thread is in no output before the loop; in the loop it is the
\* last line of the appenders that have it, and those ahead do not.
LastInv == \A t \in Threads, a \in Appenders : \A i \in 1 .. Len(output[a]) :
  (pc[t] # "out" /\ output[a][i] = line[t]) =>
    /\ pc[t] = "loop"
    /\ i = Len(output[a])
    /\ \A k \in 1 .. Len(rest[t]) : rest[t][k] # a

LineInv == OneLogger /\ OnceInv /\ LastInv /\ SameOrder

\* One appender writes one line, or none does.
LEMMA WriteCases ==
  ASSUME TimeInv, NEW t \in Threads, NEW a \in Appenders, ConsoleLog(t, a) \/ FileLog(t, a)
  PROVE  /\ Visits(t, a) /\ UNCHANGED <<pc, line, made, mutex>>
         /\ output' = output \/ output' = [output EXCEPT ![a] = Append(@, line[t])]
  <1>1. CASE ConsoleLog(t, a)
    BY <1>1 DEF ConsoleLog, loggerVars
  <1>2. CASE FileLog(t, a)
    <2>1. output' = IF stream'[a] = "good" THEN [output EXCEPT ![a] = Append(@, line[t])]
                                           ELSE output
      BY <1>2 DEF FileLog
    <2>2. Visits(t, a) /\ UNCHANGED <<pc, line, made, mutex>>
      BY <1>2 DEF FileLog, loggerVars
    <2> QED
      BY <2>1, <2>2
  <1> QED
    BY <1>1, <1>2

\* Nothing is written, and no thread begins to log or visits an appender again.
LEMMA LineUnchanged ==
  ASSUME LineInv, UNCHANGED <<line, made, output>>,
         \A t \in Threads : pc'[t] # "out" => pc[t] # "out",
         \A t \in Threads : pc[t] = "loop" /\ pc'[t] # "out" =>
            /\ pc'[t] = "loop"
            /\ \A k \in 1 .. Len(rest'[t]) : \E m \in 1 .. Len(rest[t]) : rest'[t][k] = rest[t][m]
  PROVE  LineInv'
  <1>1. OneLogger' /\ OnceInv'
    BY DEF LineInv, OneLogger, OnceInv
  <1>2. SameOrder'
    BY DEF LineInv, SameOrder, Place
  <1>3. ASSUME NEW t \in Threads, NEW a \in Appenders, NEW i \in 1 .. Len(output[a]),
               pc'[t] # "out", output[a][i] = line[t]
        PROVE  /\ pc'[t] = "loop"
               /\ i = Len(output[a])
               /\ \A k \in 1 .. Len(rest'[t]) : rest'[t][k] # a
    <2>1. pc[t] # "out"
      BY <1>3
    <2>2. /\ pc[t] = "loop"
          /\ i = Len(output[a])
          /\ \A k \in 1 .. Len(rest[t]) : rest[t][k] # a
      BY <1>3, <2>1 DEF LineInv, LastInv
    <2> QED
      BY <1>3, <2>2
  <1>4. LastInv'
    BY <1>3 DEF LastInv
  <1> QED
    BY <1>1, <1>2, <1>4 DEF LineInv

LEMMA WriteStep ==
  ASSUME TimeInv, LoopInv, LineInv, NEW t \in Threads, NEW a \in Appenders,
         ConsoleLog(t, a) \/ FileLog(t, a)
  PROVE  LineInv'
  <1> DEFINE n == Len(output[a])
  <1>1. /\ Visits(t, a) /\ UNCHANGED <<pc, line, made, mutex>>
        /\ output' = output \/ output' = [output EXCEPT ![a] = Append(@, line[t])]
    BY WriteCases
  <1>2. /\ pc[t] = "loop" /\ mutex = t
        /\ 1 \in 1 .. Len(rest[t]) /\ a = rest[t][1]
        /\ rest[t] \in Seq(Appenders)
        /\ Len(rest'[t]) = Len(rest[t]) - 1
        /\ \A i \in 1 .. Len(rest'[t]) : i + 1 \in 1 .. Len(rest[t]) /\ rest'[t][i] = rest[t][i + 1]
        /\ \A u \in Threads : u # t => rest'[u] = rest[u]
    BY <1>1, VisitsProps DEF TimeInv, TypeOK
  <1>3. CASE output' = output
    <2>1. \A u \in Threads : \A k \in 1 .. Len(rest'[u]) :
             \E m \in 1 .. Len(rest[u]) : rest'[u][k] = rest[u][m]
      BY <1>2
    <2> QED
      BY <1>1, <1>3, <2>1, LineUnchanged
  <1>4. CASE output' = [output EXCEPT ![a] = Append(@, line[t])]
    <2>1. /\ line[t] \in Lines /\ made[line[t]] # None
          /\ output \in [Appenders -> Seq(Lines)]
      BY <1>2 DEF TimeInv, MadeInv, TypeOK
    <2>2. /\ n \in Nat
          /\ Len(output'[a]) = n + 1
          /\ output'[a][n + 1] = line[t]
          /\ \A i \in 1 .. n : output'[a][i] = output[a][i] /\ output[a][i] \in Lines
          /\ \A b \in Appenders : b # a => output'[b] = output[b]
      BY <1>4, <2>1
    <2>3. \A i \in 1 .. n + 1 : i \in 1 .. n \/ i = n + 1
      BY <2>2
    \* the line is new to this appender, which is ahead
    <2>4. \A i \in 1 .. n : output[a][i] # line[t]
      BY <1>2 DEF LineInv, LastInv
    \* and not behind again
    <2>5. \A k \in 1 .. Len(rest'[t]) : rest'[t][k] # a
      <3> SUFFICES ASSUME NEW k \in 1 .. Len(rest'[t]), rest'[t][k] = a
                   PROVE  FALSE
        OBVIOUS
      <3> DEFINE m == Len(appenders) - Len(rest[t])
      <3>1. /\ Len(rest[t]) <= Len(appenders) /\ Len(rest[t]) \in Nat /\ Len(appenders) \in Nat
            /\ \A i \in 1 .. Len(rest[t]) : rest[t][i] = appenders[m + i]
        <4>1. Len(rest[t]) \in Nat /\ Len(appenders) \in Nat
          BY DEF TimeInv, TypeOK
        <4> QED
          BY <1>2, <4>1 DEF LoopInv, RestInv
      <3>2. k + 1 \in 1 .. Len(rest[t]) /\ rest[t][k + 1] = rest[t][1]
        BY <1>2
      <3>3. m + 1 \in 1 .. Len(appenders) /\ m + (k + 1) \in 1 .. Len(appenders) /\ m + 1 # m + (k + 1)
        BY <1>2, <3>1, <3>2
      <3>4. appenders[m + 1] = appenders[m + (k + 1)]
        BY <1>2, <3>1, <3>2
      <3> HIDE DEF m
      <3> QED
        BY <3>3, <3>4 DEF LoopInv, ListInv
    <2>6. OneLogger'
      BY <1>1 DEF LineInv, OneLogger
    <2>7. OnceInv'
      <3> SUFFICES ASSUME NEW b \in Appenders, NEW i \in 1 .. Len(output'[b])
                   PROVE  /\ made[output'[b][i]] # None
                          /\ \A j \in 1 .. Len(output'[b]) : output'[b][i] = output'[b][j] => i = j
        BY <1>1 DEF OnceInv
      <3>1. CASE b # a
        BY <2>2, <3>1 DEF LineInv, OnceInv
      <3>2. CASE b = a
        <4>1. i \in 1 .. n + 1 /\ \A j \in 1 .. Len(output'[a]) : j \in 1 .. n + 1
          BY <2>2, <3>2
        <4>2. CASE i = n + 1
          <5>1. output'[a][i] = line[t]
            BY <2>2, <4>2
          <5>2. \A j \in 1 .. n : output'[a][j] # line[t]
            BY <2>2, <2>4
          <5> QED
            BY <2>1, <2>3, <3>2, <4>1, <4>2, <5>1, <5>2
        <4>3. CASE i \in 1 .. n
          <5>1. output'[a][i] = output[a][i] /\ output'[a][n + 1] = line[t] /\ output[a][i] # line[t]
            BY <2>2, <2>4, <4>3
          <5>2. /\ made[output[a][i]] # None
                /\ \A j \in 1 .. n : output[a][i] = output'[a][j] => i = j
            BY <2>2, <4>3 DEF LineInv, OnceInv
          <5> QED
            BY <2>3, <3>2, <4>1, <5>1, <5>2
        <4> QED
          BY <2>3, <4>1, <4>2, <4>3
      <3> QED
        BY <3>1, <3>2
    <2>8. LastInv'
      <3> SUFFICES ASSUME NEW u \in Threads, NEW b \in Appenders, NEW i \in 1 .. Len(output'[b]),
                          pc[u] # "out", output'[b][i] = line[u]
                   PROVE  /\ pc[u] = "loop"
                          /\ i = Len(output'[b])
                          /\ \A k \in 1 .. Len(rest'[u]) : rest'[u][k] # b
        BY <1>1 DEF LastInv
      <3>1. CASE u # t
        <4>1. line[u] # line[t] /\ rest'[u] = rest[u]
          BY <1>2, <3>1 DEF LineInv, OneLogger
        <4>2. pc[u] # "loop"
          BY <1>2, <3>1 DEF TimeInv, TypeOK
        <4>3. i \in 1 .. Len(output[b]) /\ output[b][i] = line[u]
          BY <2>2, <2>3, <4>1
        <4> QED
          BY <4>2, <4>3 DEF LineInv, LastInv
      <3>2. CASE u = t /\ b = a
        BY <1>2, <2>2, <2>3, <2>4, <2>5, <3>2
      <3>3. CASE u = t /\ b # a
        <4>1. i \in 1 .. Len(output[b]) /\ output[b][i] = line[t] /\ output'[b] = output[b]
          BY <2>2, <3>3
        <4>2. i = Len(output[b]) /\ \A k \in 1 .. Len(rest[t]) : rest[t][k] # b
          BY <1>2, <4>1 DEF LineInv, LastInv
        <4> QED
          BY <1>2, <3>3, <4>1, <4>2
      <3> QED
        BY <3>1, <3>2, <3>3
    <2>9. SameOrder'
      <3> SUFFICES ASSUME NEW b \in Appenders, NEW c \in Appenders, NEW k \in Lines, NEW l \in Lines,
                          NEW i \in 1 .. Len(output'[b]), NEW j \in 1 .. Len(output'[b]),
                          NEW m \in 1 .. Len(output'[c]), NEW o \in 1 .. Len(output'[c]),
                          output'[b][i] = k, output'[b][j] = l,
                          output'[c][m] = k, output'[c][o] = l,
                          i < j
                   PROVE  m < o
        BY DEF SameOrder, Place
      \* the line of t is the last of an appender that has it
      <3>1. \A d \in Appenders : \A x \in 1 .. Len(output'[d]) :
               output'[d][x] = line[t] => x = Len(output'[d])
        <4>1. pc'[t] # "out" /\ line'[t] = line[t]
          BY <1>1, <1>2
        <4> QED
          BY <2>8, <4>1 DEF LastInv
      <3>2. k # line[t]
        <4>1. \A d \in Appenders : Len(output'[d]) \in Nat
          BY <2>2, <2>1
        <4> QED
          BY <3>1, <4>1
      <3>3. CASE l = line[t]
        <4>1. o = Len(output'[c])
          BY <3>1, <3>3
        <4>2. Len(output'[c]) \in Nat
          <5>1. CASE c = a
            BY <2>2, <5>1
          <5>2. CASE c # a
            BY <2>1, <2>2, <5>2
          <5> QED
            BY <5>1, <5>2
        <4>3. m # o
          BY <3>2, <3>3
        <4> QED
          BY <4>1, <4>2, <4>3
      <3>4. CASE l # line[t]
        <4>1. \A d \in Appenders : \A x \in 1 .. Len(output'[d]) :
                 output'[d][x] # line[t] => x \in 1 .. Len(output[d]) /\ output[d][x] = output'[d][x]
          BY <2>2, <2>3
        <4>2. /\ i \in Place(b, k) /\ j \in Place(b, l)
              /\ m \in Place(c, k) /\ o \in Place(c, l)
          BY <3>2, <3>4, <4>1 DEF Place
        <4> QED
          BY <4>2 DEF LineInv, SameOrder
      <3> QED
        BY <3>3, <3>4
    <2> QED
      BY <2>6, <2>7, <2>8, <2>9 DEF LineInv
  <1> QED
    BY <1>1, <1>3, <1>4

LEMMA LineStep == TimeInv /\ LoopInv /\ LineInv /\ [Next]_vars => LineInv'
  <1> SUFFICES ASSUME TimeInv, LoopInv, LineInv, [Next]_vars
               PROVE  LineInv'
    OBVIOUS
  <1>1. /\ pc \in [Threads -> {"out", "check", "lock", "loop"}]
        /\ line \in [Threads -> Lines \cup {None}]
        /\ made \in [Lines -> Nat \cup {None}]
        /\ output \in [Appenders -> Seq(Lines)]
        /\ now \in Nat /\ now # None
    BY NoneIsNothing DEF TimeInv, TypeOK
  <1>2. CASE UNCHANGED <<line, made, output, rest, pc>>
    BY <1>2, LineUnchanged
  <1>3. ASSUME NEW t \in Threads, NEW l \in Lines, Make(t, l)
        PROVE  LineInv'
    <2>1. /\ pc[t] = "out" /\ made[l] = None
          /\ made' = [made EXCEPT ![l] = now]
          /\ line' = [line EXCEPT ![t] = l]
          /\ pc' = [pc EXCEPT ![t] = "check"]
          /\ UNCHANGED <<rest, output>>
      BY <1>3 DEF Make
    <2>2. /\ line'[t] = l /\ pc'[t] = "check"
          /\ \A u \in Threads : u # t => line'[u] = line[u] /\ pc'[u] = pc[u]
          /\ \A k \in Lines : made[k] # None => made'[k] # None
      BY <1>1, <2>1
    \* a line that was not made is in nobody's hands and in no output
    <2>3. \A u \in Threads : pc[u] # "out" => line[u] # l
      BY <2>1 DEF TimeInv, MadeInv
    <2>4. \A a \in Appenders : \A i \in 1 .. Len(output[a]) : output[a][i] # l
      BY <2>1 DEF LineInv, OnceInv
    <2>5. OneLogger'
      BY <2>2, <2>3 DEF LineInv, OneLogger
    <2>6. OnceInv'
      <3>1. \A a \in Appenders : \A i \in 1 .. Len(output[a]) : output[a][i] \in Lines
        BY <1>1
      <3> QED
        BY <2>1, <2>2, <3>1 DEF LineInv, OnceInv
    <2>7. ASSUME NEW u \in Threads, NEW a \in Appenders, NEW i \in 1 .. Len(output[a]),
                 pc'[u] # "out", output[a][i] = line'[u]
          PROVE  /\ pc'[u] = "loop"
                 /\ i = Len(output[a])
                 /\ \A k \in 1 .. Len(rest[u]) : rest[u][k] # a
      <3>1. u # t
        BY <2>2, <2>4, <2>7
      <3>2. pc'[u] = pc[u] /\ line'[u] = line[u]
        BY <2>2, <3>1
      <3> QED
        BY <2>7, <3>2 DEF LineInv, LastInv
    <2>8. LastInv'
      BY <2>1, <2>7 DEF LastInv
    <2>9. SameOrder'
      BY <2>1 DEF LineInv, SameOrder, Place
    <2> QED
      BY <2>5, <2>6, <2>8, <2>9 DEF LineInv
  <1>4. ASSUME NEW t \in Threads, Check(t)
        PROVE  LineInv'
    <2>1. /\ pc[t] = "check" /\ UNCHANGED <<line, made, rest, output>>
          /\ \A u \in Threads : u # t => pc'[u] = pc[u]
      BY <1>1, <1>4 DEF Check
    <2> QED
      BY <2>1, LineUnchanged
  <1>5. ASSUME NEW t \in Threads, Enter(t)
        PROVE  LineInv'
    <2>1. /\ pc[t] = "lock" /\ UNCHANGED <<line, made, output>>
          /\ \A u \in Threads : u # t => pc'[u] = pc[u] /\ rest'[u] = rest[u]
      BY <1>1, <1>5 DEF Enter, TimeInv, TypeOK
    <2> QED
      BY <2>1, LineUnchanged
  <1>6. ASSUME NEW t \in Threads, Leave(t)
        PROVE  LineInv'
    <2>1. /\ pc'[t] = "out" /\ UNCHANGED <<line, made, rest, output>>
          /\ \A u \in Threads : u # t => pc'[u] = pc[u]
      BY <1>1, <1>6 DEF Leave
    <2> QED
      BY <2>1, LineUnchanged
  <1>7. ASSUME NEW t \in Threads, NEW a \in Appenders, ConsoleLog(t, a) \/ FileLog(t, a)
        PROVE  LineInv'
    BY <1>7, WriteStep
  <1> QED
    BY <1>2, <1>3, <1>4, <1>5, <1>6, <1>7
       DEF Next, vars, logVars, AddAppend, DelAppend, SetFormatter, SetLevel, Tick

\* SameOrder: two appenders write the lines that reach both in the same order,
\* for every number of threads that log and whatever is added, deleted or fails
\* meanwhile (Logger::log holds the mutex for the whole loop).
THEOREM AppendersAgree == Spec => []SameOrder
  <1>1. Init => LineInv
    <2> SUFFICES ASSUME Init
                 PROVE  LineInv
      OBVIOUS
    <2>1. \A a \in Appenders : output[a] = <<>>
      BY DEF Init
    <2>2. \A t \in Threads : pc[t] = "out"
      BY DEF Init
    <2>3. \A a \in Appenders, l \in Lines : Place(a, l) = {}
      BY <2>1 DEF Place
    <2> QED
      BY <2>1, <2>2, <2>3 DEF LineInv, OneLogger, OnceInv, LastInv, SameOrder
  <1>2. LineInv => SameOrder
    BY DEF LineInv
  <1> QED
    BY <1>1, <1>2, LineStep, LoopInvariant, PTL DEF Spec
=============================================================================
