------------------------- MODULE LoggerFormatProofs -------------------------
\* The parser of the pattern, for patterns of any length over any characters:
\* its indices stay in the pattern and what it collects is made of its
\* characters.
EXTENDS LoggerFormat, Integers, SequenceTheorems, TLAPS

\* What the tuples of init() are, which TypeOK says of each one there is.
Entries == [type : {"text", "item", PatternError}, str : Seq(Char), fmt : Seq(Char)]

FormatInv == TypeOK /\ res \in Seq(Entries)

\* Every part of a pattern that substr() is asked for lies in the pattern.
LEMMA PartOfPattern ==
  ASSUME pattern \in Seq(Char), NEW a \in 0 .. Len(pattern), NEW b \in 1 .. Len(pattern) + 1
  PROVE  Between(a, b) \in Seq(Char)
  <1>1. Len(pattern) \in Nat /\ a + 1 \in 1 .. Len(pattern) + 1 /\ b - 1 \in 0 .. Len(pattern)
    OBVIOUS
  <1>2. \A k \in a + 1 .. b - 1 : pattern[k] \in Char
    BY <1>1
  <1> QED
    BY <1>1, <1>2, SubSeqProperties DEF Between

\* The pending text becomes an entry.
LEMMA FlushedIsEntries ==
  ASSUME FormatInv
  PROVE  Flushed \in Seq(Entries)
  <1>1. Text(originStr) \in Entries
    BY DEF FormatInv, TypeOK, Entries, Text
  <1> QED
    BY <1>1 DEF Flushed, FormatInv

\* Entries have a name and a format, which is all that TypeOK says of them.
LEMMA EntriesAreStrings ==
  ASSUME NEW s \in Seq(Entries)
  PROVE  \A k \in DOMAIN s : s[k].str \in Seq(Char) /\ s[k].fmt \in Seq(Char)
  <1>1. \A k \in DOMAIN s : s[k] \in Entries
    OBVIOUS
  <1> QED
    BY <1>1 DEF Entries

\* A pattern is given, and nothing has been read.
LEMMA InitFormat == Init => FormatInv
  <1> SUFFICES ASSUME Init PROVE FormatInv
    OBVIOUS
  <1>1. pattern \in Seq(Char)
    <2>1. PICK m \in 0 .. MaxLength : pattern \in [1 .. m -> Char]
      BY DEF Init, Strings
    <2>2. m \in Nat
      BY LoggerFormatAssumption
    <2> QED
      BY <2>1, <2>2, IsASeq
  <1>2. Len(pattern) \in Nat
    BY <1>1
  <1>3. /\ pc = "outer" /\ i = 1 /\ n = 1 /\ isStart = FALSE /\ formatStart = 0
        /\ str = <<>> /\ fmt = <<>> /\ originStr = <<>> /\ res = <<>>
    BY DEF Init
  <1>4. str \in Seq(Char) /\ fmt \in Seq(Char) /\ originStr \in Seq(Char) /\ res \in Seq(Entries)
    BY <1>3
  <1>5. \A k \in DOMAIN res : res[k].str \in Seq(Char) /\ res[k].fmt \in Seq(Char)
    BY <1>4, EntriesAreStrings
  <1>6. isStart \in BOOLEAN
    BY <1>3, Zenon
  <1> QED
    BY <1>1, <1>2, <1>3, <1>4, <1>5, <1>6 DEF FormatInv, TypeOK

\* Every branch of the two loops keeps the indices in the pattern: the inner
\* loop is entered, and goes on, only before its end.
LEMMA FormatStep == FormatInv /\ [Next]_vars => FormatInv'
  <1> SUFFICES ASSUME FormatInv, [Next]_vars PROVE FormatInv'
    OBVIOUS
  <1> DEFINE L == Len(pattern)
  <1>0. /\ pattern \in Seq(Char) /\ L \in Nat
        /\ i \in 1 .. L + 1 /\ n \in 1 .. L + 1
        /\ isStart \in BOOLEAN /\ formatStart \in 0 .. L
        /\ str \in Seq(Char) /\ fmt \in Seq(Char) /\ originStr \in Seq(Char)
        /\ res \in Seq(Entries)
        /\ pc = "inner" => i < n /\ n <= L
        /\ pc = "end" => i < n
    BY DEF FormatInv, TypeOK
  <1>1. ASSUME pattern' = pattern, pc' \in {"outer", "inner", "end", "done"},
               i' \in 1 .. L + 1, n' \in 1 .. L + 1,
               isStart' \in BOOLEAN, formatStart' \in 0 .. L,
               str' \in Seq(Char), fmt' \in Seq(Char), originStr' \in Seq(Char),
               res' \in Seq(Entries),
               pc' = "inner" => i' < n' /\ n' <= L,
               pc' = "end" => i' < n'
        PROVE  FormatInv'
    <2>1. \A k \in DOMAIN res' : res'[k].str \in Seq(Char) /\ res'[k].fmt \in Seq(Char)
      BY <1>1, EntriesAreStrings
    <2> QED
      BY <1>0, <1>1, <2>1 DEF FormatInv, TypeOK
  <1>2. CASE Plain
    <2>1. /\ i \in 1 .. L /\ pc = "outer"
          /\ originStr' = Append(originStr, pattern[i]) /\ i' = i + 1
          /\ UNCHANGED <<pattern, pc, n, isStart, formatStart, str, fmt, res>>
      BY <1>0, <1>2 DEF Plain, InOuter, scanVars
    <2>2. originStr' \in Seq(Char)
      BY <1>0, <2>1
    <2> QED
      BY <1>0, <1>1, <2>1, <2>2
  <1>3. CASE Percent
    <2>1. /\ i \in 1 .. L /\ n' = i + 1 /\ pc' = IF i < L THEN "inner" ELSE "end"
          /\ isStart' = FALSE /\ formatStart' = 0 /\ str' = <<>> /\ fmt' = <<>>
          /\ UNCHANGED <<pattern, i, originStr, res>>
      BY <1>0, <1>3 DEF Percent, InOuter
    <2>2. str' \in Seq(Char) /\ fmt' \in Seq(Char)
      BY <2>1
    <2>3. isStart' \in BOOLEAN
      BY <2>1, Zenon
    <2> QED
      BY <1>0, <1>1, <2>1, <2>2, <2>3
  <1>4. CASE NameEnds
    <2>1. /\ pc = "inner" /\ str' = Between(i, n) /\ pc' = "end"
          /\ UNCHANGED <<pattern, i, n, isStart, formatStart, fmt, originStr, res>>
      BY <1>4 DEF NameEnds
    <2>2. i \in 0 .. L /\ n \in 1 .. L + 1
      BY <1>0, <2>1
    <2>3. str' \in Seq(Char)
      BY <1>0, <2>1, <2>2, PartOfPattern
    <2> QED
      BY <1>0, <1>1, <2>1, <2>3
  <1>5. CASE BraceCloses
    <2>1. /\ pc = "inner" /\ isStart' = FALSE /\ fmt' = Between(formatStart, n)
          /\ formatStart' = n /\ n' = n + 1 /\ pc' = "end"
          /\ UNCHANGED <<pattern, i, str, originStr, res>>
      BY <1>5 DEF BraceCloses
    <2>2. formatStart \in 0 .. L /\ n \in 1 .. L + 1
      BY <1>0, <2>1
    <2>3. fmt' \in Seq(Char)
      BY <1>0, <2>1, <2>2, PartOfPattern
    <2>4. isStart' \in BOOLEAN
      BY <2>1, Zenon
    <2> QED
      BY <1>0, <1>1, <2>1, <2>3, <2>4
  <1>6. CASE Advance
    <2>1. /\ pc = "inner" /\ n' = n + 1
          /\ pc' = IF n = L THEN "end" ELSE "inner"
          /\ isStart' \in BOOLEAN
          /\ formatStart' \in {n, formatStart}
          /\ str' \in {Between(i, n + 1), Between(i, n), str}
          /\ UNCHANGED <<pattern, i, fmt, originStr, res>>
      BY <1>0, <1>6 DEF Advance
    <2>2. i \in 0 .. L /\ n \in 1 .. L + 1 /\ n + 1 \in 1 .. L + 1
      BY <1>0, <2>1
    <2>3. str' \in Seq(Char)
      BY <1>0, <2>1, <2>2, PartOfPattern
    <2> QED
      BY <1>0, <1>1, <2>1, <2>3
  <1>7. CASE Unterminated
    <2>1. /\ pc = "end" /\ res' = Append(res, Broken) /\ i' = i + 1 /\ pc' = "outer"
          /\ UNCHANGED <<pattern, n, isStart, formatStart, str, fmt, originStr>>
      BY <1>7 DEF Unterminated, scanVars
    <2>2. Broken \in Entries
      BY DEF Broken, Entries
    <2>3. res' \in Seq(Entries)
      BY <1>0, <2>1, <2>2
    <2> QED
      BY <1>0, <1>1, <2>1, <2>3
  <1>8. CASE Directive
    <2>1. /\ res' = Append(Flushed, Item(str, fmt)) /\ originStr' = <<>> /\ i' = n /\ pc' = "outer"
          /\ UNCHANGED <<pattern, n, isStart, formatStart, str, fmt>>
      BY <1>8 DEF Directive, scanVars
    <2>2. Item(str, fmt) \in Entries
      BY <1>0 DEF Item, Entries
    <2>3. res' \in Seq(Entries)
      BY <2>1, <2>2, FlushedIsEntries
    <2>4. originStr' \in Seq(Char)
      BY <2>1
    <2> QED
      BY <1>0, <1>1, <2>1, <2>3, <2>4
  <1>9. CASE Finish
    <2>1. /\ res' = Flushed /\ originStr' = <<>> /\ pc' = "done"
          /\ UNCHANGED <<pattern, i, n, isStart, formatStart, str, fmt>>
      BY <1>9 DEF Finish, scanVars
    <2>2. res' \in Seq(Entries) /\ originStr' \in Seq(Char)
      BY <2>1, FlushedIsEntries
    <2> QED
      BY <1>0, <1>1, <2>1, <2>2
  <1>10. CASE UNCHANGED vars
    BY <1>10 DEF vars, scanVars, FormatInv, TypeOK
  <1> QED
    BY <1>2, <1>3, <1>4, <1>5, <1>6, <1>7, <1>8, <1>9, <1>10 DEF Next

\* init() reads no character outside of the pattern, whatever the pattern: the
\* indices of both loops are in it wherever they are used.
THEOREM FormatTypes == Spec => []TypeOK
  <1>1. FormatInv => TypeOK
    BY DEF FormatInv
  <1> QED
    BY <1>1, InitFormat, FormatStep, PTL DEF Spec

\* How far the parser is: by the character of the outer loop, then by the part
\* of the pass, then by the character of the inner loop.
Rank(p) == CASE p = "outer" -> 0 [] p = "inner" -> 1 [] p = "end" -> 2 [] p = "done" -> 3

Forward ==
  \/ i' > i
  \/ i' = i /\ Rank(pc') > Rank(pc)
  \/ i' = i /\ pc' = pc /\ n' > n

\* init() does not run for ever, although an item that is broken sends it back
\* to the character after "%": every step leads forward, and by FormatTypes
\* both indices are bounded.  This is the half of Terminates that is no liveness.
THEOREM StepsLeadForward == Spec => [][Forward]_vars
  <1>1. FormatInv /\ [Next]_vars => [Forward]_vars
    <2> SUFFICES ASSUME FormatInv, Next PROVE Forward
      OBVIOUS
    <2>1. /\ Len(pattern) \in Nat /\ i \in Nat /\ n \in Nat
          /\ pc = "end" => i < n
      BY DEF FormatInv, TypeOK
    <2>2. CASE Plain
      BY <2>1, <2>2 DEF Plain, Forward
    <2>3. CASE Percent
      <3>1. pc = "outer" /\ pc' \in {"inner", "end"} /\ i' = i
        BY <2>3 DEF Percent, InOuter
      <3> QED
        BY <3>1 DEF Forward, Rank
    <2>4. CASE NameEnds
      BY <2>4 DEF NameEnds, Forward, Rank
    <2>5. CASE BraceCloses
      BY <2>5 DEF BraceCloses, Forward, Rank
    <2>6. CASE Advance
      <3>1. pc = "inner" /\ pc' \in {"inner", "end"} /\ i' = i /\ n' = n + 1
        BY <2>6 DEF Advance
      <3> QED
        BY <2>1, <3>1 DEF Forward, Rank
    <2>7. CASE Unterminated
      BY <2>1, <2>7 DEF Unterminated, Forward
    <2>8. CASE Directive
      BY <2>1, <2>8 DEF Directive, Forward
    <2>9. CASE Finish
      BY <2>9 DEF Finish, Forward, Rank
    <2> QED
      BY <2>2, <2>3, <2>4, <2>5, <2>6, <2>7, <2>8, <2>9 DEF Next
  <1> QED
    BY <1>1, InitFormat, FormatStep, PTL DEF Spec
=============================================================================
