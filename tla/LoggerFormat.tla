---------------------------- MODULE LoggerFormat ----------------------------
(***************************************************************************)
(* The parser of the pattern of a log line: LoggerFormat::init() of        *)
(* base/Logger.cpp, one action for each branch of its two loops.  A        *)
(* pattern is a sequence of characters, counted from 1.                    *)
(***************************************************************************)
EXTENDS Naturals, Sequences, SequencesExt

CONSTANTS
  Letters,   \* what isalpha() accepts
  Others,    \* characters other than letters, "%", "{" and "}"
  Known,     \* the letters that name an item
  MaxLength, \* bound: the length of a pattern
  MaxFormat  \* bound: the length of a format in the reference

\* The characters that mean something: the sign of an item, and the braces
\* around its format.
Sign == "%"
Open == "{"
Close == "}"

Strings(S, k) == UNION {[1 .. m -> S] : m \in 0 .. k}

Char == Letters \cup Others \cup {Sign, Open, Close}

ASSUME LoggerFormatAssumption ==
  /\ Letters \cap (Others \cup {Sign, Open, Close}) = {}
  /\ Others \cap {Sign, Open, Close} = {}
  /\ Known \subseteq Letters
  /\ MaxLength \in Nat
  /\ MaxFormat \in Nat

VARIABLES
  pattern,      \* pattern_
  pc,           \* "outer" or "inner" loop, its "end", or "done"
  i, n,         \* the indices of the two loops
  isStart,      \* a brace has been opened
  formatStart,  \* where
  str, fmt,     \* what is found after a "%"
  originStr,    \* text that is output as it is
  res,          \* the vector of tuples
  formats       \* formats_

scanVars == <<n, isStart, formatStart, str, fmt>>
vars == <<pattern, pc, i, scanVars, originStr, res, formats>>

Text(s) == [type |-> "text", str |-> s, fmt |-> <<>>]
Item(s, f) == [type |-> "item", str |-> s, fmt |-> f]
\* The tuple for a brace without its end.
PatternError == "<<pattern_error>>"
Broken == [type |-> PatternError, str |-> <<>>, fmt |-> <<>>]

Init ==
  /\ pattern \in Strings(Char, MaxLength)
  /\ pc = "outer"
  /\ i = 1
  /\ n = 1
  /\ isStart = FALSE
  /\ formatStart = 0
  /\ str = <<>>
  /\ fmt = <<>>
  /\ originStr = <<>>
  /\ res = <<>>
  /\ formats = <<>>

-----------------------------------------------------------------------------
(* The outer loop *)

InOuter == pc = "outer" /\ i <= Len(pattern)

\* A character that is not "%", or a "%" before another one: only the first of
\* the two is stepped over.
Plain ==
  /\ InOuter
  /\ pattern[i] # Sign \/ (i < Len(pattern) /\ pattern[i + 1] = Sign)
  /\ originStr' = Append(originStr, pattern[i])
  /\ i' = i + 1
  /\ UNCHANGED <<pattern, pc, scanVars, res, formats>>

\* Mutant: the character after the last is read.
PercentReadsOn ==
  /\ InOuter
  /\ pattern[i] = Sign
  /\ ~(i < Len(pattern) /\ pattern[i + 1] = Sign)
  /\ n' = i + 1
  /\ isStart' = FALSE
  /\ formatStart' = 0
  /\ str' = <<>>
  /\ fmt' = <<>>
  /\ pc' = "inner"
  /\ UNCHANGED <<pattern, i, originStr, res, formats>>

\* A "%" that is followed by another character, or ends the pattern.
Percent ==
  /\ InOuter
  /\ pattern[i] = Sign
  /\ ~(i < Len(pattern) /\ pattern[i + 1] = Sign)
  /\ n' = i + 1
  /\ isStart' = FALSE
  /\ formatStart' = 0
  /\ str' = <<>>
  /\ fmt' = <<>>
  /\ pc' = IF i < Len(pattern) THEN "inner" ELSE "end"
  /\ UNCHANGED <<pattern, i, originStr, res, formats>>

-----------------------------------------------------------------------------
(* The inner loop: from the character after "%" *)

Between(a, b) == SubSeq(pattern, a + 1, b - 1)

\* Outside of braces a character other than a letter ends the name.
NameEnds ==
  /\ pc = "inner"
  /\ ~isStart
  /\ pattern[n] \notin Letters \cup {Open, Close}
  /\ str' = Between(i, n)
  /\ pc' = "end"
  /\ UNCHANGED <<pattern, i, n, isStart, formatStart, fmt, originStr, res, formats>>

\* Mutant: the closing brace is not stepped over.
BraceClosesShort ==
  /\ pc = "inner"
  /\ isStart
  /\ pattern[n] = Close
  /\ isStart' = FALSE
  /\ fmt' = Between(formatStart, n)
  /\ formatStart' = n
  /\ pc' = "end"
  /\ UNCHANGED <<pattern, i, n, str, originStr, res, formats>>

BraceCloses ==
  /\ pc = "inner"
  /\ isStart
  /\ pattern[n] = Close
  /\ isStart' = FALSE
  /\ fmt' = Between(formatStart, n)
  /\ formatStart' = n
  /\ n' = n + 1
  /\ pc' = "end"
  /\ UNCHANGED <<pattern, i, str, originStr, res, formats>>

\* Any other character is stepped over; the name ends at an opening brace, and
\* at the end of the pattern if it has not ended before.
Advance ==
  /\ pc = "inner"
  /\ IF isStart THEN pattern[n] # Close ELSE pattern[n] \in Letters \cup {Open, Close}
  /\ LET opens == ~isStart /\ pattern[n] = Open
         name == IF opens THEN Between(i, n) ELSE str
         last == n = Len(pattern)
     IN /\ isStart' = (isStart \/ opens)
        /\ formatStart' = IF opens THEN n ELSE formatStart
        /\ str' = IF last /\ name = <<>> THEN Between(i, n + 1) ELSE name
        /\ n' = n + 1
        /\ pc' = IF last THEN "end" ELSE "inner"
  /\ UNCHANGED <<pattern, i, fmt, originStr, res, formats>>

-----------------------------------------------------------------------------
(* After the inner loop, and after the outer one *)

Flushed == IF originStr = <<>> THEN res ELSE Append(res, Text(originStr))

\* Mutant: the directive that is broken is stepped over as a whole.
UnterminatedSkips ==
  /\ pc = "end"
  /\ isStart
  /\ res' = Append(res, Broken)
  /\ i' = n
  /\ pc' = "outer"
  /\ UNCHANGED <<pattern, scanVars, originStr, formats>>

\* A brace without its end: the error comes before the text that is pending,
\* and the loop goes on with the character after "%".
Unterminated ==
  /\ pc = "end"
  /\ isStart
  /\ res' = Append(res, Broken)
  /\ i' = i + 1
  /\ pc' = "outer"
  /\ UNCHANGED <<pattern, scanVars, originStr, formats>>

\* Mutant: an item without a name is dropped, and not stepped over.
DirectiveUnlessEmpty ==
  /\ pc = "end"
  /\ ~isStart
  /\ res' = IF str = <<>> THEN res ELSE Append(Flushed, Item(str, fmt))
  /\ originStr' = IF str = <<>> THEN originStr ELSE <<>>
  /\ i' = IF str = <<>> THEN i ELSE n
  /\ pc' = "outer"
  /\ UNCHANGED <<pattern, scanVars, formats>>

Directive ==
  /\ pc = "end"
  /\ ~isStart
  /\ res' = Append(Flushed, Item(str, fmt))
  /\ originStr' = <<>>
  /\ i' = n
  /\ pc' = "outer"
  /\ UNCHANGED <<pattern, scanVars, formats>>

\* Mutant: an item without a format is looked up, others are taken as known.
LookUpBare(e) ==
  IF e.type = "item" /\ e.fmt = <<>> /\ e.str \notin {<<c>> : c \in Known}
  THEN [e EXCEPT !.type = "<<error_format>>"] ELSE e

\* s_formatItems: a name that is not in it becomes the text of an error.
LookUp(e) ==
  IF e.type = "item" /\ e.str \notin {<<c>> : c \in Known}
  THEN [e EXCEPT !.type = "<<error_format>>"] ELSE e

Finish ==
  /\ pc = "outer"
  /\ i > Len(pattern)
  /\ res' = Flushed
  /\ originStr' = <<>>
  /\ formats' = [k \in DOMAIN Flushed |-> LookUp(Flushed[k])]
  /\ pc' = "done"
  /\ UNCHANGED <<pattern, i, scanVars>>

Next ==
  \/ Plain \/ Percent
  \/ NameEnds \/ BraceCloses \/ Advance
  \/ Unterminated \/ Directive \/ Finish

Spec == Init /\ [][Next]_vars /\ WF_vars(Next)

-----------------------------------------------------------------------------
(* What a pattern means *)

\* A pattern is written with characters of text, and with items that have a
\* format in braces or do not.
Tokens ==
  {[entry |-> Text(<<c>>), written |-> <<c>>] : c \in Char \ {Sign}} \cup
  {[entry |-> Item(<<c>>, <<>>), written |-> <<Sign, c>>] : c \in Known} \cup
  {[entry |-> Item(<<c>>, f), written |-> <<Sign, c, Open>> \o f \o <<Close>>] :
     c \in Known, f \in Strings(Char \ {Close}, MaxFormat)}

\* An item without braces goes on with a letter or a brace that comes next.
MayPrecede(t, p) ==
  (t.entry.type = "item" /\ Last(t.written) # Close /\ p # <<>>) =>
     p[1] \notin Letters \cup {Open, Close}

\* Text that is not interrupted is one entry.
AddEntry(e, es) ==
  IF es # <<>> /\ {e.type, es[1].type} = {"text"}
  THEN <<Text(e.str \o es[1].str)>> \o Tail(es)
  ELSE <<e>> \o es

TokensOf(m) == {t \in Tokens : Len(t.written) = m}

\* The patterns of k characters that can be written, each with its meaning.
Writings[k \in 0 .. MaxLength] ==
  IF k = 0 THEN {<<<<>>, <<>>>>}
  ELSE UNION {{<<x[1].written \o x[2][1], AddEntry(x[1].entry, x[2][2])>> :
                 x \in {y \in TokensOf(m) \X Writings[k - m] : MayPrecede(y[1], y[2][1])}} :
                m \in 1 .. k}

Reference == UNION {Writings[k] : k \in 0 .. MaxLength}
WellFormed == {w[1] : w \in Reference}

-----------------------------------------------------------------------------
(* Properties *)

\* Types, and the bounds of the indices.
TypeOK ==
  /\ pattern \in Seq(Char)
  /\ pc \in {"outer", "inner", "end", "done"}
  /\ i \in 1 .. Len(pattern) + 1
  /\ n \in 1 .. Len(pattern) + 1
  /\ isStart \in BOOLEAN
  /\ formatStart \in 0 .. Len(pattern)
  /\ str \in Seq(Char) /\ fmt \in Seq(Char) /\ originStr \in Seq(Char)
  /\ \A k \in DOMAIN res : res[k].str \in Seq(Char) /\ res[k].fmt \in Seq(Char)
  /\ pc = "inner" => i < n /\ n <= Len(pattern)
  /\ pc = "end" => i < n

\* A pattern that is written from text and known items is understood as what it
\* was written from.
UnderstoodAsWritten ==
  pc = "done" /\ pattern \in WellFormed => <<pattern, formats>> \in Reference

Doubled == \E k \in 1 .. Len(pattern) - 1 : pattern[k] = Sign /\ pattern[k + 1] = Sign

\* Any other pattern shows an error in every line of the log, unless it has a
\* "%" before another one.  (The second is parsed again: "%%d" is a "%" and the
\* item d, "%%" is a "%" and an error.)
MistakesShow ==
  pc = "done" /\ pattern \notin WellFormed /\ ~Doubled =>
    \E k \in DOMAIN formats : formats[k].type \notin {"text", "item"}

Visible(s) == SelectSeq(s, LAMBDA c : c \notin {Sign, Open, Close})
Parts(e) == Visible(e.str) \o Visible(e.fmt)

\* No character is lost or read twice, in patterns with mistakes too: the
\* entries so far and the pending text are what has been read, in its order.
NothingLost == pc = "outer" =>
  FlattenSeq([k \in DOMAIN res |-> Parts(res[k])]) \o Visible(originStr)
    = Visible(SubSeq(pattern, 1, i - 1))

\* The parser comes to an end, with every pattern.
Terminates == <>(pc = "done")
=============================================================================
