---------------------------- MODULE SpanExplain -----------------------------
(***************************************************************************)
(* parse_error.rs shows the operator where the configuration is wrong: the *)
(* number of the line, the lines around it, and a row of carets under the  *)
(* span.  The program is started on a configuration it refuses, prints     *)
(* this when its errors go to a terminal, and stops.                       *)
(*                                                                         *)
(* Offsets count bytes from 0, as in the code.  A line is known by the     *)
(* offset it begins at and a slice by its two ends: source[a..b] is        *)
(* <<a, b>>.  A row is looked at in characters, of which one outside ASCII *)
(* takes more bytes than one.                                              *)
(***************************************************************************)
EXTENDS Integers, FiniteSets, Sequences

CONSTANTS MaxLength,  \* bound of the run: bytes of a configuration file
          MaxOdd      \* bound of the run: tabs and continued bytes in it

ASSUME LengthAssumption == MaxLength \in Nat \ {0} /\ MaxOdd \in Nat

VARIABLES source,  \* the bytes of the file
          span,    \* <<start, end>> of the entry or the name that is wrong
          output   \* what the program ended with

explainVars == <<source, span, output>>

newline   == "newline"
tab       == "tab"
other     == "other"      \* any other byte that a character begins with
continued == "continued"  \* second to fourth byte of a character outside ASCII

Newlines == {o \in 0..(Len(source) - 1) : source[o + 1] = newline}

\* No character is cut by a slice that begins or ends at o.
Boundary(s, o) == o = Len(s) \/ s[o + 1] # continued

\* Entries and names have a character, begin with one that shows, and stand on
\* one line.
Spans(s) ==
  {p \in (0..Len(s)) \X (0..Len(s)) :
     /\ p[1] < p[2] /\ s[p[1] + 1] = other /\ Boundary(s, p[2])
     /\ \A o \in p[1]..(p[2] - 1) : s[o + 1] # newline}

-----------------------------------------------------------------------------
(* Explain::fmt.                                                           *)

\* Where the lines of source[a..b].lines() begin.
LineStarts(a, b) == {o \in a..(b - 1) : o = a \/ o - 1 \in Newlines}

\* Line i of them, from 0.
LineStart(a, b, i) ==
  CHOOSE o \in LineStarts(a, b) : Cardinality({p \in LineStarts(a, b) : p < o}) = i

\* Counting one newline too few on the way back.
BackOneLess(count, from) ==
  LET before == {o \in Newlines : o < from}
  IN  IF Cardinality(before) < count - 1 \/ count = 1 THEN 0
      ELSE 1 + CHOOSE o \in before : Cardinality({p \in before : p >= o}) = count - 1

Back(count, from) ==
  LET before == {o \in Newlines : o < from}
  IN  IF Cardinality(before) < count THEN 0
      ELSE 1 + CHOOSE o \in before : Cardinality({p \in before : p >= o}) = count

Forward(count, from) ==
  LET after == {o \in Newlines : o >= from}
  IN  IF Cardinality(after) < count THEN Len(source)
      ELSE CHOOSE o \in after : Cardinality({p \in after : p <= o}) = count

AtLeast1(n) == IF n < 1 THEN 1 ELSE n

Line == AtLeast1(Cardinality(LineStarts(0, span[1])))
Col  == span[1] - Back(1, span[1])

Snippet == <<Back(3, span[1]), Forward(3, span[2]) + 1>>

\* Numbering the rows from 0 where there is nothing to leave out.
RowsFromZero(line) == IF line < 2 THEN 0 ELSE line - 2

StartingLine(line) == AtLeast1(line - 2)

\* Slicing past the end of the text is a panic.
Panics == Snippet[2] > Len(source)

\* annotate_span: the numbered rows, and behind the one that has the number of
\* the error's line a row of carets: a blank for every byte before the span, a
\* caret for every byte of it.
Explained ==
  LET starts == LineStarts(Snippet[1], Snippet[2])
      first  == StartingLine(Line)
      rows   == first..(first + Cardinality(starts) - 1)
      Row(n) == LineStart(Snippet[1], Snippet[2], n - first)
  IN  [kind   |-> "explained", line |-> Line,
       rows   |-> [n \in rows |-> Row(n)],
       carets |-> {[row |-> Row(n), from |-> Col, to |-> Col + (span[2] - span[1])] :
                     n \in rows \cap {Line}}]

-----------------------------------------------------------------------------
None  == [kind |-> "none"]
Plain == [kind |-> "plain"]
Panic == [kind |-> "panic"]

\* A byte continues a character that has begun, up to its fourth.
WellFormed(s) ==
  \A i \in 1..Len(s) : s[i] = continued =>
     \E b \in (i - 3)..(i - 1) :
        b >= 1 /\ s[b] = other /\ \A j \in (b + 1)..i : s[j] = continued

Files ==
  {s \in UNION {[1..n -> {newline, tab, other, continued}] : n \in 1..MaxLength} :
     /\ WellFormed(s)
     /\ Cardinality({i \in DOMAIN s : s[i] \in {tab, continued}}) <= MaxOdd}

ExplainInit ==
  /\ source \in Files /\ span \in Spans(source)
  /\ output = None

\* main: the file is read and refused; errors that go to a pipe or a file are
\* only named.
Start ==
  /\ output = None
  /\ output' \in {Plain, IF Panics THEN Panic ELSE Explained}
  /\ UNCHANGED <<source, span>>

ExplainSpec == ExplainInit /\ [][Start]_explainVars

-----------------------------------------------------------------------------
(* Properties.                                                             *)

TrueLine(o) == 1 + Cardinality({p \in Newlines : p < o})

BeginsLine(o) == o = 0 \/ o - 1 \in Newlines

\* Where the byte at o stands in its row: the characters before it.
Column(row, o) == Cardinality({p \in row..(o - 1) : source[p + 1] # continued})

\* There is one row of carets, under the span's own line, unless the span begins
\* its line.  It never stands to the left of the span nor ends short of it, in
\* characters; where only characters of one byte that are as wide as a blank
\* come before the end of the span, it stands under the span exactly.
CaretsUnderSpan ==
  output.kind = "explained" /\ ~BeginsLine(span[1]) =>
    \E c \in output.carets :
       /\ output.carets = {c}
       /\ BeginsLine(c.row) /\ TrueLine(c.row) = TrueLine(span[1])
       /\ c.from >= Column(c.row, span[1]) /\ c.to >= Column(c.row, span[2])
       /\ (\A o \in c.row..(span[2] - 1) : source[o + 1] = other) =>
            c.from = Column(c.row, span[1]) /\ c.to = Column(c.row, span[2])

\* What is shown are whole lines: the span's own, up to two before it and two
\* after it, in their order and without a gap.
ShowsTheLinesAround ==
  output.kind = "explained" =>
    LET shown == {output.rows[n] : n \in DOMAIN output.rows}
    IN  /\ shown = {o \in 0..(Len(source) - 1) :
                      BeginsLine(o) /\ TrueLine(o) \in (TrueLine(span[1]) - 2)..(TrueLine(span[1]) + 2)}
        /\ \A m, n \in DOMAIN output.rows : m < n => output.rows[m] < output.rows[n]
=============================================================================
