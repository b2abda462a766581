--------------------------- MODULE TerminalProofs ---------------------------
(***************************************************************************)
(* What the operator reads: that an explanation shows the lines around the *)
(* error and has its carets under it, for files of any length, and that    *)
(* the date of a log line is the calendar's, for every instant of every    *)
(* year and units of any size.                                             *)
(***************************************************************************)
EXTENDS Terminal, FiniteSetTheorems, WellFoundedInduction, TLAPS

-----------------------------------------------------------------------------
(* Lines are counted by the newlines before them.                          *)

\* Induction from 0 to n, over the set of the numbers that have the property.
LEMMA InductionTo ==
  ASSUME NEW n \in Nat, NEW T, 0 \in T, \A k \in 0..(n-1) : k \in T => k + 1 \in T
  PROVE  n \in T
<1> DEFINE Rest == (0..n) \ T
<1>1. ASSUME Rest # {} PROVE FALSE
  <2> HIDE DEF Rest
  <2>1. Rest \subseteq Nat
    BY DEF Rest
  <2>2. PICK x \in Rest : \A y \in Rest : ~ (<<y, x>> \in OpToRel(<, Nat))
    BY <1>1, <2>1, NatLessThanWellFounded, WFMin
  <2>3. \A y \in Rest : ~(y < x)
    BY <2>1, <2>2 DEF OpToRel
  <2>4. x \in 1..n
    BY DEF Rest
  <2>5. x - 1 \in T /\ x - 1 \in 0..(n-1)
    BY <2>3, <2>4 DEF Rest
  <2> QED
    BY <2>4, <2>5 DEF Rest
<1> QED
  BY <1>1

NewlinesBefore(o) == {p \in Newlines : p < o}

LEMMA NewlinesFinite ==
  ASSUME Len(source) \in Nat
  PROVE  /\ Newlines \subseteq 0..(Len(source) - 1)
         /\ IsFiniteSet(Newlines)
         /\ \A S : S \subseteq Newlines => IsFiniteSet(S) /\ Cardinality(S) \in Nat
<1>1. Newlines \subseteq 0..(Len(source) - 1)
  BY DEF Newlines
<1>2. IsFiniteSet(0..(Len(source) - 1))
  BY FS_Interval
<1>3. IsFiniteSet(Newlines)
  BY <1>1, <1>2, FS_Subset
<1>4. \A S : S \subseteq Newlines => IsFiniteSet(S)
  BY <1>3, FS_Subset
<1> QED
  BY <1>1, <1>3, <1>4, FS_CardinalityType

\* A newline, and nothing else, begins a line.
LEMMA TrueLineStep ==
  ASSUME Len(source) \in Nat, NEW o \in Nat
  PROVE  /\ TrueLine(o) \in Nat /\ TrueLine(o) >= 1
         /\ o \in Newlines => TrueLine(o + 1) = TrueLine(o) + 1
         /\ o \notin Newlines => TrueLine(o + 1) = TrueLine(o)
<1> DEFINE b == NewlinesBefore(o)
<1>0. \A p \in Newlines : p \in Int
  BY NewlinesFinite
<1>1. /\ TrueLine(o) = 1 + Cardinality(b)
      /\ TrueLine(o + 1) = 1 + Cardinality(NewlinesBefore(o + 1))
  BY DEF TrueLine, NewlinesBefore
<1>2. IsFiniteSet(b) /\ Cardinality(b) \in Nat
  BY NewlinesFinite DEF NewlinesBefore
<1>3. CASE o \in Newlines
  <2>1. NewlinesBefore(o + 1) = b \cup {o} /\ o \notin b
    <3>1. \A p \in Newlines : (p < o + 1 <=> p < o \/ p = o)
      BY <1>0
    <3>2. ~(o < o)
      OBVIOUS
    <3> QED
      BY <1>3, <3>1, <3>2, Zenon DEF NewlinesBefore
  <2>2. Cardinality(b \cup {o}) = Cardinality(b) + 1
    BY <1>2, <2>1, FS_AddElement
  <2>3. Cardinality(NewlinesBefore(o + 1)) = Cardinality(b) + 1
    BY <2>1, <2>2, Zenon
  <2> HIDE DEF b
  <2> QED
    BY <1>1, <1>2, <1>3, <2>3
<1>4. CASE o \notin Newlines
  <2>1. NewlinesBefore(o + 1) = b
    <3>1. \A p \in Newlines : (p < o + 1 <=> p < o)
      BY <1>0, <1>4
    <3> QED
      BY <3>1, Zenon DEF NewlinesBefore
  <2> QED
    BY <1>1, <1>2, <1>4, <2>1
<1> QED
  BY <1>1, <1>2, <1>3, <1>4

LEMMA FirstLine ==
  ASSUME Len(source) \in Nat
  PROVE  TrueLine(0) = 1
<1>1. {p \in Newlines : p < 0} = {}
  BY NewlinesFinite
<1> QED
  BY <1>1, FS_EmptySet DEF TrueLine

\* How many newlines there are from one place to another.
LEMMA LinesBetween ==
  ASSUME Len(source) \in Nat, NEW p \in Nat, NEW o \in Nat, p <= o
  PROVE  LET between == {q \in Newlines : p <= q /\ q < o}
         IN  IsFiniteSet(between) /\ TrueLine(o) = TrueLine(p) + Cardinality(between)
<1> DEFINE c == {q \in Newlines : p <= q /\ q < o}
           a == NewlinesBefore(p)
           b == NewlinesBefore(o)
<1>1. /\ TrueLine(o) = 1 + Cardinality(b)
      /\ TrueLine(p) = 1 + Cardinality(a)
  BY DEF TrueLine, NewlinesBefore
<1>2. /\ IsFiniteSet(a) /\ IsFiniteSet(c)
      /\ Cardinality(a) \in Nat /\ Cardinality(c) \in Nat
  BY NewlinesFinite DEF NewlinesBefore
<1>3. b = a \cup c /\ a \cap c = {}
  BY NewlinesFinite DEF NewlinesBefore
<1>4. Cardinality(a \cup c) = Cardinality(a) + Cardinality(c) - Cardinality(a \cap c)
  BY <1>2, FS_Union
<1>5. Cardinality(a \cap c) = 0
  BY <1>3, FS_EmptySet
<1> HIDE DEF a, b, c
<1>6. TrueLine(o) = TrueLine(p) + Cardinality(c)
  BY <1>1, <1>2, <1>3, <1>4, <1>5
<1> QED
  BY <1>2, <1>6 DEF c

LEMMA LinesGrow ==
  ASSUME Len(source) \in Nat, NEW p \in Nat, NEW o \in Nat
  PROVE  /\ p <= o => TrueLine(p) <= TrueLine(o)
         /\ p < o /\ BeginsLine(o) => TrueLine(p) < TrueLine(o)
<1>1. ASSUME NEW x \in Nat, p <= x PROVE TrueLine(p) <= TrueLine(x)
  <2>1. PICK n : n = Cardinality({q \in Newlines : p <= q /\ q < x})
    OBVIOUS
  <2>2. n \in Nat
    BY <2>1, NewlinesFinite
  <2>3. TrueLine(x) = TrueLine(p) + n
    BY <1>1, <2>1, LinesBetween
  <2>4. TrueLine(p) \in Nat
    BY TrueLineStep
  <2> QED
    BY <2>2, <2>3, <2>4
<1>2. ASSUME p < o, BeginsLine(o) PROVE TrueLine(p) < TrueLine(o)
  <2>1. o - 1 \in Newlines /\ o - 1 \in Nat /\ p <= o - 1 /\ (o - 1) + 1 = o
    BY <1>2 DEF BeginsLine
  <2>2. TrueLine(o) = TrueLine(o - 1) + 1 /\ TrueLine(o - 1) \in Nat /\ TrueLine(p) \in Nat
    BY <2>1, TrueLineStep
  <2> QED
    BY <1>1, <2>1, <2>2
<1> QED
  BY <1>1, <1>2

\* Every line up to that of a place begins somewhere before it.
LEMMA LinesBegin ==
  ASSUME Len(source) \in Nat, NEW o \in Nat, NEW n \in 1..TrueLine(o)
  PROVE  \E q \in 0..o : BeginsLine(q) /\ TrueLine(q) = n
<1> DEFINE T == {x \in 0..o : \A i \in 1..TrueLine(x) : \E q \in 0..x : BeginsLine(q) /\ TrueLine(q) = i}
<1>1. 0 \in T
  BY FirstLine DEF BeginsLine
<1>2. ASSUME NEW k \in 0..(o-1), k \in T PROVE k + 1 \in T
  <2>0. k + 1 \in 0..o /\ k \in Nat
    OBVIOUS
  <2>1. TrueLine(k) \in Nat
    BY <2>0, TrueLineStep
  <2>2. /\ k \in Newlines => TrueLine(k + 1) = TrueLine(k) + 1
        /\ k \notin Newlines => TrueLine(k + 1) = TrueLine(k)
    BY <2>0, TrueLineStep
  <2>3. ASSUME NEW i \in 1..TrueLine(k + 1)
        PROVE  \E q \in 0..(k + 1) : BeginsLine(q) /\ TrueLine(q) = i
    <3>1. CASE i \in 1..TrueLine(k)
      BY <1>2, <2>0, <3>1
    <3>2. CASE i \notin 1..TrueLine(k)
      <4>1. k \in Newlines /\ i = TrueLine(k + 1)
        BY <2>0, <2>1, <2>2, <3>2
      <4>2. BeginsLine(k + 1)
        BY <2>0, <4>1 DEF BeginsLine
      <4> QED
        BY <2>0, <2>1, <4>1, <4>2
    <3> QED
      BY <3>1, <3>2
  <2> QED
    BY <2>0, <2>3
<1>3. o \in T
  <2> HIDE DEF T
  <2> QED
    BY <1>1, <1>2, InductionTo
<1> QED
  BY <1>3

\* As many lines begin in a slice as it ends further down than it begins, and
\* the one it begins with.
LEMMA CountStarts ==
  ASSUME Len(source) \in Nat, NEW a \in Nat, NEW b \in Nat, a <= b
  PROVE  /\ IsFiniteSet(LineStarts(a, b + 1))
         /\ Cardinality(LineStarts(a, b + 1)) = TrueLine(b) - TrueLine(a) + 1
<1> DEFINE n == b - a
           Counted(i) == /\ IsFiniteSet(LineStarts(a, a + i + 1))
                         /\ Cardinality(LineStarts(a, a + i + 1)) = TrueLine(a + i) - TrueLine(a) + 1
           T == {i \in 0..n : Counted(i)}
<1>1. n \in Nat /\ a + n = b
  OBVIOUS
<1>2. 0 \in T
  <2>1. LineStarts(a, a + 0 + 1) = {a}
    <3>1. a..(a + 0 + 1 - 1) = {a}
      OBVIOUS
    <3> QED
      BY <3>1 DEF LineStarts
  <2>2. IsFiniteSet({a}) /\ Cardinality({a}) = 1
    BY FS_Singleton
  <2>3. TrueLine(a) \in Nat /\ TrueLine(a + 0) = TrueLine(a)
    BY TrueLineStep
  <2>4. IsFiniteSet(LineStarts(a, a + 0 + 1)) /\ Cardinality(LineStarts(a, a + 0 + 1)) = 1
    BY <2>1, <2>2, Zenon
  <2> QED
    BY <1>1, <2>3, <2>4
<1>3. ASSUME NEW i \in 0..(n-1), i \in T PROVE i + 1 \in T
  <2> DEFINE c == a + i + 1
             S == LineStarts(a, c)
  <2>1. /\ c \in Nat /\ a < c /\ c - 1 = a + i /\ c - 1 \in Nat /\ c = a + (i + 1) /\ i + 1 \in 0..n
        /\ a + (i + 1) + 1 = c + 1
    BY <1>1
  <2>2. IsFiniteSet(S) /\ Cardinality(S) = TrueLine(c - 1) - TrueLine(a) + 1
    BY <1>3, <2>1
  <2> HIDE DEF c
  <2>3. /\ TrueLine(c - 1) \in Nat /\ TrueLine(a) \in Nat
        /\ c - 1 \in Newlines => TrueLine(c) = TrueLine(c - 1) + 1
        /\ c - 1 \notin Newlines => TrueLine(c) = TrueLine(c - 1)
    <3>1. (c - 1) + 1 = c
      BY <2>1
    <3> QED
      BY <2>1, <3>1, TrueLineStep
  <2>4. \A o : o \in a..((c + 1) - 1) <=> o \in a..(c - 1) \/ o = c
    BY <2>1
  <2>5. c \notin a..(c - 1) /\ c # a
    BY <2>1
  <2>6. CASE c - 1 \in Newlines
    <3>1. LineStarts(a, c + 1) = S \cup {c} /\ c \notin S
      BY <2>4, <2>5, <2>6, Zenon DEF LineStarts
    <3>2. IsFiniteSet(S \cup {c}) /\ Cardinality(S \cup {c}) = Cardinality(S) + 1
      BY <2>2, <3>1, FS_AddElement
    <3>3. IsFiniteSet(LineStarts(a, c + 1)) /\ Cardinality(LineStarts(a, c + 1)) = Cardinality(S) + 1
      BY <3>1, <3>2, Zenon
    <3> HIDE DEF S
    <3> QED
      BY <2>1, <2>2, <2>3, <2>6, <3>3
  <2>7. CASE c - 1 \notin Newlines
    <3>1. LineStarts(a, c + 1) = S
      BY <2>4, <2>5, <2>7, Zenon DEF LineStarts
    <3>3. IsFiniteSet(LineStarts(a, c + 1)) /\ Cardinality(LineStarts(a, c + 1)) = Cardinality(S)
      BY <2>2, <3>1, Zenon
    <3> HIDE DEF S
    <3> QED
      BY <2>1, <2>2, <2>3, <2>7, <3>3
  <2> QED
    BY <2>6, <2>7
<1>4. n \in T
  <2> HIDE DEF T, n
  <2> QED
    BY <1>1, <1>2, <1>3, InductionTo
<1> QED
  BY <1>1, <1>4

LEMMA NoStarts == \A a \in Nat : LineStarts(a, a) = {} /\ Cardinality(LineStarts(a, a)) = 0
<1>1. \A a \in Nat : LineStarts(a, a) = {}
  BY DEF LineStarts
<1> QED
  BY <1>1, FS_EmptySet

\* As many newlines back as there are lines, or to the beginning.
LEMMA BackIs ==
  ASSUME Len(source) \in Nat, NEW from \in Nat, NEW count \in Nat \ {0}
  PROVE  /\ Back(count, from) \in 0..from /\ BeginsLine(Back(count, from))
         /\ TrueLine(from) <= count => Back(count, from) = 0
         /\ TrueLine(from) > count => TrueLine(Back(count, from)) = TrueLine(from) - count + 1
<1> DEFINE before == {o \in Newlines : o < from}
<1>1. /\ TrueLine(from) = 1 + Cardinality(before) /\ TrueLine(from) \in Nat
      /\ Cardinality(before) \in Nat
  BY NewlinesFinite, TrueLineStep DEF TrueLine
<1>2. CASE TrueLine(from) <= count
  <2>1. Cardinality(before) < count
    BY <1>1, <1>2
  <2>2. Back(count, from) = 0
    BY <2>1 DEF Back
  <2> QED
    BY <1>1, <1>2, <2>2 DEF BeginsLine
<1>3. CASE TrueLine(from) > count
  <2>1. ~(Cardinality(before) < count)
    BY <1>1, <1>3
  <2> DEFINE Has(o) == Cardinality({p \in before : p >= o}) = count
             b == CHOOSE o \in before : Has(o)
  <2>2. Back(count, from) = 1 + b
    BY <2>1, Zenon DEF Back
  <2>3. ASSUME NEW o \in before
        PROVE  Has(o) <=> TrueLine(from) = TrueLine(o) + count
    <3>1. o \in Nat /\ o <= from /\ \A p \in Newlines : p \in Int
      BY NewlinesFinite
    <3>2. {p \in before : p >= o} = {q \in Newlines : o <= q /\ q < from}
      BY <3>1
    <3>3. PICK k : k = Cardinality({q \in Newlines : o <= q /\ q < from})
      OBVIOUS
    <3>4. TrueLine(from) = TrueLine(o) + k /\ k \in Nat /\ TrueLine(o) \in Nat
      BY <3>1, <3>3, LinesBetween, NewlinesFinite, TrueLineStep
    <3>5. Has(o) <=> k = count
      BY <3>2, <3>3, Zenon
    <3> HIDE DEF Has
    <3> QED
      BY <1>1, <3>4, <3>5
  <2>4. \E o \in before : Has(o)
    <3> DEFINE n == TrueLine(from) - count + 1
    <3>1. n \in 1..TrueLine(from) /\ n > 1
      BY <1>1, <1>3
    <3>2. PICK q \in 0..from : BeginsLine(q) /\ TrueLine(q) = n
      BY <3>1, LinesBegin
    <3>3. q # 0
      BY <3>1, <3>2, FirstLine
    <3>4. q - 1 \in Newlines /\ q - 1 \in before /\ q - 1 \in Nat /\ (q - 1) + 1 = q
      BY <3>2, <3>3 DEF BeginsLine
    <3>5. TrueLine(q) = TrueLine(q - 1) + 1 /\ TrueLine(q - 1) \in Nat
      BY <3>4, TrueLineStep
    <3>6. TrueLine(from) = TrueLine(q - 1) + count
      BY <1>1, <3>2, <3>5
    <3> HIDE DEF Has, before
    <3> QED
      BY <2>3, <3>4, <3>6
  <2>5. b \in before /\ Has(b)
    BY <2>4, Zenon
  <2>6. TrueLine(from) = TrueLine(b) + count
    <3> HIDE DEF b, before, Has
    <3> QED
      BY <2>3, <2>5
  <2> HIDE DEF b
  <2>7. b \in Newlines /\ b \in Nat /\ b < from /\ (1 + b) - 1 = b /\ 1 + b = b + 1
    BY <2>5, NewlinesFinite
  <2>8. TrueLine(b + 1) = TrueLine(b) + 1 /\ TrueLine(b) \in Nat
    BY <2>7, TrueLineStep
  <2>9. 1 + b \in 0..from /\ BeginsLine(1 + b)
    BY <2>7 DEF BeginsLine
  <2>10. TrueLine(1 + b) = TrueLine(from) - count + 1
    BY <1>1, <2>6, <2>7, <2>8
  <2> QED
    BY <1>1, <1>3, <2>2, <2>9, <2>10
<1> QED
  BY <1>1, <1>2, <1>3

\* As many newlines on as there are lines, or to the end.
LEMMA ForwardIs ==
  ASSUME Len(source) \in Nat, NEW from \in Nat, NEW count \in Nat \ {0},
         Forward(count, from) # Len(source)
  PROVE  LET f == Forward(count, from)
         IN  f \in Newlines /\ from <= f /\ TrueLine(f) = TrueLine(from) + count - 1
<1> DEFINE after == {o \in Newlines : o >= from}
           Has(o) == Cardinality({p \in after : p <= o}) = count
           f == CHOOSE o \in after : Has(o)
<1>1. IsFiniteSet(after) /\ Cardinality(after) \in Nat /\ TrueLine(from) \in Nat
  BY NewlinesFinite, TrueLineStep
<1>2. ~(Cardinality(after) < count) /\ Forward(count, from) = f
  BY Zenon DEF Forward
<1>3. ASSUME NEW o \in after
      PROVE  Has(o) <=> TrueLine(o + 1) = TrueLine(from) + count
  <2>1. o \in Nat /\ o + 1 \in Nat /\ from <= o + 1 /\ \A p \in Newlines : p \in Int
    BY NewlinesFinite
  <2>2. {p \in after : p <= o} = {q \in Newlines : from <= q /\ q < o + 1}
    <3>1. \A p \in Newlines : (p <= o <=> p < o + 1) /\ (p >= from <=> from <= p)
      BY <2>1
    <3> QED
      BY <3>1, Zenon
  <2>3. PICK k : k = Cardinality({q \in Newlines : from <= q /\ q < o + 1})
    OBVIOUS
  <2>4. TrueLine(o + 1) = TrueLine(from) + k /\ k \in Nat
    BY <2>1, <2>3, LinesBetween, NewlinesFinite
  <2>5. Has(o) <=> k = count
    BY <2>2, <2>3, Zenon
  <2> HIDE DEF Has
  <2> QED
    BY <1>1, <2>4, <2>5
<1>4. \E o \in after : Has(o)
  <2> DEFINE n == TrueLine(from) + count
  <2>1. PICK m \in Nat : m = Len(source) + from
    OBVIOUS
  <2>2. PICK k : k = Cardinality({q \in Newlines : from <= q /\ q < m})
    OBVIOUS
  <2>3. TrueLine(m) = TrueLine(from) + k
    BY <2>1, <2>2, LinesBetween
  <2>4. {q \in Newlines : from <= q /\ q < m} = after
    BY <2>1, NewlinesFinite
  <2>5. k = Cardinality(after)
    BY <2>2, <2>4, Zenon
  <2>6. n \in 1..TrueLine(m) /\ n > TrueLine(from)
    BY <1>1, <1>2, <2>3, <2>5
  <2>7. PICK q \in 0..m : BeginsLine(q) /\ TrueLine(q) = n
    BY <2>1, <2>6, LinesBegin
  <2>8. q > from
    BY <1>1, <2>6, <2>7, LinesGrow
  <2>9. q - 1 \in Newlines /\ q - 1 \in after /\ (q - 1) + 1 = q
    BY <2>7, <2>8 DEF BeginsLine
  <2>10. TrueLine((q - 1) + 1) = TrueLine(from) + count
    BY <2>7, <2>9
  <2> HIDE DEF Has, after
  <2> QED
    BY <1>3, <2>9, <2>10
<1>5. f \in after /\ Has(f)
  BY <1>4, Zenon
<1>6. TrueLine(f + 1) = TrueLine(from) + count
  <2> HIDE DEF f, after, Has
  <2> QED
    BY <1>3, <1>5
<1> HIDE DEF f
<1>7. f \in Newlines /\ f \in Nat /\ from <= f
  BY <1>5, NewlinesFinite
<1>8. TrueLine(f + 1) = TrueLine(f) + 1 /\ TrueLine(f) \in Nat
  BY <1>7, TrueLineStep
<1>9. TrueLine(f) = TrueLine(from) + count - 1
  BY <1>1, <1>6, <1>8
<1> QED
  BY <1>2, <1>7, <1>9

\* The lines of a slice that begins a line are found by their numbers.
LEMMA LineStartIs ==
  ASSUME Len(source) \in Nat, NEW a \in Nat, NEW b \in Nat, a <= b, BeginsLine(a),
         NEW i \in 0..(TrueLine(b) - TrueLine(a))
  PROVE  LET o == LineStart(a, b + 1, i)
         IN  o \in LineStarts(a, b + 1) /\ BeginsLine(o) /\ TrueLine(o) = TrueLine(a) + i
<1> DEFINE Earlier(o) == {p \in LineStarts(a, b + 1) : p < o}
           o0 == CHOOSE o \in LineStarts(a, b + 1) : Cardinality(Earlier(o)) = i
<1>1. ASSUME NEW o \in LineStarts(a, b + 1)
      PROVE  /\ o \in Nat /\ BeginsLine(o)
             /\ Cardinality(Earlier(o)) = TrueLine(o) - TrueLine(a)
  <2>1. o \in a..b /\ o \in Nat /\ BeginsLine(o) /\ (o = a \/ o - 1 \in Newlines)
    BY DEF LineStarts, BeginsLine
  <2>2. Cardinality(Earlier(o)) = Cardinality(LineStarts(a, o))
    <3>1. Earlier(o) = LineStarts(a, o)
      BY <2>1 DEF LineStarts
    <3> QED
      BY <3>1, Zenon
  <2>3. CASE o = a
    <3>1. Cardinality(LineStarts(a, o)) = 0 /\ TrueLine(a) \in Nat
      BY <2>3, NoStarts, TrueLineStep
    <3>2. Cardinality(LineStarts(a, o)) = TrueLine(o) - TrueLine(a)
      BY <2>3, <3>1
    <3> QED
      BY <2>1, <2>2, <3>2, Zenon
  <2>4. CASE o # a
    <3>1. o - 1 \in Newlines /\ o - 1 \in Nat /\ a <= o - 1 /\ (o - 1) + 1 = o
      BY <2>1, <2>4
    <3>2. Cardinality(LineStarts(a, (o - 1) + 1)) = TrueLine(o - 1) - TrueLine(a) + 1
      BY <3>1, CountStarts
    <3>3. TrueLine((o - 1) + 1) = TrueLine(o - 1) + 1 /\ TrueLine(o - 1) \in Nat /\ TrueLine(a) \in Nat
      BY <3>1, TrueLineStep
    <3>4. Cardinality(LineStarts(a, o)) = TrueLine(o) - TrueLine(a)
      BY <3>1, <3>2, <3>3
    <3> QED
      BY <2>1, <2>2, <3>4, Zenon
  <2> QED
    BY <2>3, <2>4
<1>2. \E o \in LineStarts(a, b + 1) : Cardinality(Earlier(o)) = i
  <2>1. TrueLine(a) \in Nat /\ TrueLine(b) \in Nat /\ TrueLine(a) >= 1
    BY TrueLineStep
  <2>2. TrueLine(a) + i \in 1..TrueLine(b)
    BY <2>1
  <2>3. PICK q \in 0..b : BeginsLine(q) /\ TrueLine(q) = TrueLine(a) + i
    BY <2>2, LinesBegin
  <2>4. q \in Nat /\ a <= q
    <3>1. q < a => TrueLine(q) < TrueLine(a)
      BY <2>3, LinesGrow
    <3> QED
      BY <2>1, <2>3, <3>1
  <2>5. q \in LineStarts(a, b + 1)
    BY <2>3, <2>4 DEF LineStarts, BeginsLine
  <2>6. Cardinality(Earlier(q)) = TrueLine(q) - TrueLine(a)
    BY <1>1, <2>5
  <2>7. Cardinality(Earlier(q)) = i
    BY <2>1, <2>3, <2>6
  <2> QED
    BY <2>5, <2>7
<1>3. LineStart(a, b + 1, i) = o0
  BY DEF LineStart
<1>4. o0 \in LineStarts(a, b + 1) /\ Cardinality(Earlier(o0)) = i
  BY <1>2, Zenon
<1> HIDE DEF o0
<1>5. o0 \in Nat /\ BeginsLine(o0) /\ Cardinality(Earlier(o0)) = TrueLine(o0) - TrueLine(a)
  BY <1>1, <1>4
<1>6. TrueLine(o0) \in Nat /\ TrueLine(a) \in Nat
  BY <1>5, TrueLineStep
<1> QED
  BY <1>3, <1>4, <1>5, <1>6

-----------------------------------------------------------------------------
(* What is shown of a file.                                                *)

\* A line is known by its number.
LEMMA OneStart ==
  ASSUME Len(source) \in Nat, NEW p \in Nat, NEW o \in Nat,
         BeginsLine(p), BeginsLine(o), TrueLine(p) = TrueLine(o)
  PROVE  p = o
<1>1. TrueLine(p) \in Nat
  BY TrueLineStep
<1>2. (p < o => TrueLine(p) < TrueLine(o)) /\ (o < p => TrueLine(o) < TrueLine(p))
  BY LinesGrow
<1> QED
  BY <1>1, <1>2

\* What is cut out: from two lines before the span's line, or the first, to the
\* newline at the end of the second one behind it.
Around(a, f, t) ==
  /\ Snippet = <<a, f + 1>>
  /\ a \in Nat /\ BeginsLine(a) /\ a <= f
  /\ f \in Nat /\ f + 1 <= Len(source)
  /\ TrueLine(span[1]) = t /\ t \in Nat /\ t >= 1
  /\ TrueLine(a) = AtLeast1(t - 2)
  /\ TrueLine(f) = t + 2

LEMMA SnippetIs ==
  ASSUME Len(source) \in Nat, span \in Spans(source), ~Panics
  PROVE  \E a, f, t : Around(a, f, t)
<1>0. PICK s, e : s = span[1] /\ e = span[2]
  OBVIOUS
<1> DEFINE a == Back(3, s)
           f == Forward(3, e)
           t == TrueLine(s)
<1>1. s \in Nat /\ e \in Nat /\ s < e /\ \A o \in s..(e - 1) : source[o + 1] # newline
  BY <1>0 DEF Spans
<1>2. Snippet = <<a, f + 1>> /\ ~(f + 1 > Len(source))
  BY <1>0 DEF Snippet, Panics
<1>3. TrueLine(e) = t /\ t \in Nat /\ t >= 1
  <2>1. {q \in Newlines : s <= q /\ q < e} = {}
    <3>1. ASSUME NEW q \in Newlines, s <= q, q < e PROVE FALSE
      <4>1. source[q + 1] = newline /\ q \in Int
        BY DEF Newlines
      <4>2. q \in s..(e - 1)
        BY <1>1, <3>1, <4>1
      <4> QED
        BY <1>1, <4>1, <4>2
    <3> QED
      BY <3>1
  <2>2. PICK k : k = Cardinality({q \in Newlines : s <= q /\ q < e})
    OBVIOUS
  <2>3. TrueLine(e) = TrueLine(s) + k
    <3>1. s \in Nat /\ e \in Nat /\ s <= e
      BY <1>1
    <3> QED
      BY <2>2, <3>1, LinesBetween
  <2>4. k = 0
    BY <2>1, <2>2, FS_EmptySet, Zenon
  <2>5. t \in Nat /\ t >= 1
    BY <1>1, TrueLineStep
  <2> HIDE DEF t
  <2> QED
    BY <2>3, <2>4, <2>5 DEF t
<1>4. f # Len(source)
  BY <1>2
<1>5. f \in Newlines /\ e <= f /\ TrueLine(f) = t + 2
  <2>1. f \in Newlines /\ e <= f /\ TrueLine(f) = TrueLine(e) + 3 - 1
    BY <1>1, <1>4, ForwardIs
  <2> HIDE DEF f
  <2> QED
    BY <1>3, <2>1
<1>6. f \in 0..(Len(source) - 1)
  BY <1>5, NewlinesFinite
<1>7. /\ a \in 0..s /\ BeginsLine(a)
      /\ TrueLine(s) <= 3 => a = 0
      /\ TrueLine(s) > 3 => TrueLine(a) = TrueLine(s) - 3 + 1
  BY <1>1, BackIs
<1> HIDE DEF a, f
<1>8. TrueLine(a) = AtLeast1(t - 2)
  <2>1. CASE t <= 3
    BY <1>3, <1>7, <2>1, FirstLine DEF AtLeast1
  <2>2. CASE t > 3
    BY <1>3, <1>7, <2>2 DEF AtLeast1
  <2> QED
    BY <1>3, <2>1, <2>2
<1>9. a \in Nat /\ a <= f /\ f \in Nat /\ f + 1 <= Len(source)
  BY <1>1, <1>5, <1>6, <1>7
<1>10. TrueLine(span[1]) = t
  BY <1>0
<1> HIDE DEF t
<1> QED
  BY <1>2, <1>3, <1>5, <1>7, <1>8, <1>9, <1>10 DEF Around

\* Each row has its own line, and the rows follow each other.
RowsFollow(a, f, t) ==
  LET first == StartingLine(Line)
      rows  == Explained.rows
  IN  /\ DOMAIN rows = first..(first + (t + 2 - TrueLine(a)))
      /\ first \in Nat
      /\ \A n \in DOMAIN rows :
           /\ rows[n] \in a..f /\ BeginsLine(rows[n])
           /\ TrueLine(rows[n]) = TrueLine(a) + (n - first)

LEMMA RowsAre ==
  ASSUME Len(source) \in Nat, NEW a, NEW f, NEW t, Around(a, f, t), Line \in Nat
  PROVE  RowsFollow(a, f, t)
<1> DEFINE first == StartingLine(Line)
           rows  == Explained.rows
           count == Cardinality(LineStarts(a, f + 1))
<1>1. first \in Nat
  BY DEF StartingLine, AtLeast1
<1>2. TrueLine(a) \in Nat
  BY TrueLineStep DEF Around
<1>3. count = t + 2 - TrueLine(a) + 1
  <2>1. a \in Nat /\ f \in Nat /\ a <= f /\ TrueLine(f) = t + 2 /\ t \in Nat
    BY DEF Around
  <2>2. count = TrueLine(f) - TrueLine(a) + 1
    BY <2>1, CountStarts
  <2> HIDE DEF count
  <2> QED
    BY <1>2, <2>1, <2>2
<1>4. rows = [n \in first..(first + count - 1) |-> LineStart(a, f + 1, n - first)]
  BY DEF Around, Explained
<1> HIDE DEF first, count
<1>5. DOMAIN rows = first..(first + (t + 2 - TrueLine(a)))
  <2>1. first + count - 1 = first + (t + 2 - TrueLine(a))
    BY <1>1, <1>2, <1>3 DEF Around
  <2> QED
    BY <1>4, <2>1
<1>6. ASSUME NEW n \in DOMAIN rows
      PROVE  /\ rows[n] \in a..f /\ BeginsLine(rows[n])
             /\ TrueLine(rows[n]) = TrueLine(a) + (n - first)
  <2>1. rows[n] = LineStart(a, f + 1, n - first)
    BY <1>4
  <2>2. PICK i : i = n - first
    OBVIOUS
  <2>3. a \in Nat /\ f \in Nat /\ a <= f /\ BeginsLine(a) /\ TrueLine(f) = t + 2 /\ t \in Nat
    BY DEF Around
  <2>4. i \in 0..(TrueLine(f) - TrueLine(a))
    BY <1>1, <1>2, <1>5, <2>2, <2>3
  <2>5. PICK o : o = LineStart(a, f + 1, i)
    OBVIOUS
  <2>6. o \in LineStarts(a, f + 1) /\ BeginsLine(o) /\ TrueLine(o) = TrueLine(a) + i
    BY <2>3, <2>4, <2>5, LineStartIs
  <2>7. o \in a..f
    BY <2>3, <2>6 DEF LineStarts
  <2> QED
    BY <2>1, <2>2, <2>5, <2>6, <2>7
<1> QED
  BY <1>1, <1>5, <1>6 DEF RowsFollow, first

\* The line that the message names, and the one the span is on.
LEMMA LineIs ==
  ASSUME Len(source) \in Nat, span[1] \in Nat
  PROVE  /\ Line \in Nat
         /\ ~BeginsLine(span[1]) => Line = TrueLine(span[1])
<1> DEFINE s == span[1]
<1>1. CASE s = 0
  BY <1>1, NoStarts DEF Line, AtLeast1, BeginsLine
<1>2. CASE s # 0
  <2>1. s - 1 \in Nat /\ (s - 1) + 1 = s
    BY <1>2
  <2>2. Cardinality(LineStarts(0, (s - 1) + 1)) = TrueLine(s - 1) - TrueLine(0) + 1
    <3>1. PICK z \in Nat : z = 0
      OBVIOUS
    <3>2. PICK b \in Nat : b = s - 1 /\ z <= b
      BY <2>1, <3>1
    <3>3. Cardinality(LineStarts(z, b + 1)) = TrueLine(b) - TrueLine(z) + 1
      BY <3>2, CountStarts
    <3> QED
      BY <3>1, <3>2, <3>3
  <2>3. TrueLine(s - 1) \in Nat /\ TrueLine(s - 1) >= 1 /\ TrueLine(0) = 1
    BY <2>1, TrueLineStep, FirstLine
  <2>4. Line = TrueLine(s - 1)
    BY <2>1, <2>2, <2>3 DEF Line, AtLeast1
  <2>5. ASSUME ~BeginsLine(s) PROVE TrueLine(s) = TrueLine(s - 1)
    <3>1. s - 1 \notin Newlines
      BY <2>5 DEF BeginsLine
    <3>2. TrueLine((s - 1) + 1) = TrueLine(s - 1)
      BY <2>1, <3>1, TrueLineStep
    <3> QED
      BY <2>1, <3>2
  <2> QED
    BY <2>3, <2>4, <2>5
<1> QED
  BY <1>1, <1>2

LEMMA ShowsLines ==
  ASSUME Len(source) \in Nat, span \in Spans(source), ~Panics, output = Explained
  PROVE  ShowsTheLinesAround
<1>1. span[1] \in Nat
  BY DEF Spans
<1>2. PICK a, f, t : Around(a, f, t)
  BY SnippetIs
<1>3. Line \in Nat
  BY <1>1, LineIs
<1>4. RowsFollow(a, f, t)
  BY <1>2, <1>3, RowsAre
<1>5. PICK rows, first, k : rows = Explained.rows /\ first = StartingLine(Line) /\ k = TrueLine(a)
  OBVIOUS
<1>6. /\ DOMAIN rows = first..(first + (t + 2 - k))
      /\ first \in Nat
      /\ \A n \in DOMAIN rows :
           /\ rows[n] \in a..f /\ BeginsLine(rows[n])
           /\ TrueLine(rows[n]) = k + (n - first)
  BY <1>4, <1>5 DEF RowsFollow
<1>7. /\ a \in Nat /\ BeginsLine(a) /\ a <= f /\ f \in Nat /\ f + 1 <= Len(source)
      /\ TrueLine(span[1]) = t /\ t \in Nat /\ t >= 1
      /\ TrueLine(f) = t + 2
  BY <1>2 DEF Around
<1>8. /\ k \in Nat
      /\ t <= 3 => k = 1
      /\ t > 3 => k = t - 2
  BY <1>2, <1>5, <1>7 DEF Around, AtLeast1
<1> DEFINE Near == {o \in 0..(Len(source) - 1) :
                      BeginsLine(o) /\ TrueLine(o) \in (t - 2)..(t + 2)}
<1>9. ASSUME NEW n \in DOMAIN rows PROVE rows[n] \in Near
  <2>1. rows[n] \in 0..(Len(source) - 1) /\ BeginsLine(rows[n])
    BY <1>6, <1>7
  <2>2. n \in first..(first + (t + 2 - k)) /\ TrueLine(rows[n]) = k + (n - first)
    BY <1>6
  <2>3. TrueLine(rows[n]) \in (t - 2)..(t + 2)
    BY <1>6, <1>7, <1>8, <2>2
  <2> QED
    BY <2>1, <2>3
<1>10. ASSUME NEW o \in Near PROVE \E n \in DOMAIN rows : rows[n] = o
  <2>1. o \in Nat /\ BeginsLine(o) /\ TrueLine(o) \in (t - 2)..(t + 2) /\ TrueLine(o) >= 1
    BY TrueLineStep
  <2>2. PICK n : n = first + (TrueLine(o) - k)
    OBVIOUS
  <2>3. n \in DOMAIN rows
    <3>1. PICK i : i = TrueLine(o)
      OBVIOUS
    <3>2. i \in (t - 2)..(t + 2) /\ i >= 1 /\ n = first + (i - k) /\ first \in Nat
      BY <1>6, <2>1, <2>2, <3>1
    <3>3. n \in first..(first + (t + 2 - k))
      BY <1>7, <1>8, <3>2
    <3> QED
      BY <1>6, <3>3, Zenon
  <2>4. rows[n] \in Nat /\ BeginsLine(rows[n]) /\ TrueLine(rows[n]) = k + (n - first)
    BY <1>6, <1>7, <2>3
  <2>5. TrueLine(rows[n]) = TrueLine(o)
    <3>1. PICK i \in Int : i = TrueLine(o)
      <4>1. t - 2 \in Int /\ t + 2 \in Int
        BY <1>7
      <4>2. TrueLine(o) \in Int
        BY <2>1, <4>1
      <4> QED
        BY <4>2
    <3>2. first \in Int /\ k \in Int /\ n = first + (i - k)
      BY <1>6, <1>8, <2>2, <3>1
    <3>3. k + (n - first) = i
      BY <3>2
    <3> QED
      BY <2>4, <3>1, <3>3
  <2>6. rows[n] = o
    BY <2>1, <2>4, <2>5, OneStart
  <2> QED
    BY <2>3, <2>6
<1>11. ASSUME NEW m \in DOMAIN rows, NEW n \in DOMAIN rows, m < n PROVE rows[m] < rows[n]
  <2>1. rows[m] \in Nat /\ rows[n] \in Nat
    <3>1. rows[m] \in a..f /\ rows[n] \in a..f
      BY <1>6, Zenon
    <3> QED
      BY <1>7, <3>1
  <2>2. rows[n] <= rows[m] => TrueLine(rows[n]) <= TrueLine(rows[m])
    BY <2>1, LinesGrow
  <2>3. /\ TrueLine(rows[m]) = k + (m - first) /\ TrueLine(rows[n]) = k + (n - first)
        /\ m \in Int /\ n \in Int /\ first \in Int /\ k \in Int
    BY <1>6, <1>7, <1>8
  <2>4. TrueLine(rows[m]) < TrueLine(rows[n])
    BY <1>11, <2>3
  <2> QED
    BY <2>1, <2>2, <2>3, <2>4
<1>12. {rows[n] : n \in DOMAIN rows} = Near
  <2> HIDE DEF Near
  <2> QED
    BY <1>9, <1>10, Zenon
<1>13. output.rows = rows
  BY <1>5
<1>14. {output.rows[n] : n \in DOMAIN output.rows} =
         {o \in 0..(Len(source) - 1) :
            BeginsLine(o) /\ TrueLine(o) \in (TrueLine(span[1]) - 2)..(TrueLine(span[1]) + 2)}
  BY <1>7, <1>12, <1>13, Zenon
<1>15. \A m, n \in DOMAIN output.rows : m < n => output.rows[m] < output.rows[n]
  BY <1>11, <1>13, Zenon
<1> QED
  BY <1>14, <1>15, Zenon DEF ShowsTheLinesAround

\* A row has at most as many characters before a byte as it has bytes, and as
\* many where each is a byte of its own.
LEMMA ColumnIs ==
  ASSUME NEW r \in Nat, NEW o \in Nat, r <= o
  PROVE  /\ Column(r, o) \in Nat /\ Column(r, o) <= o - r
         /\ (\A p \in r..(o - 1) : source[p + 1] # continued) => Column(r, o) = o - r
<1> DEFINE begun == {p \in r..(o - 1) : source[p + 1] # continued}
<1>1. IsFiniteSet(r..(o - 1)) /\ Cardinality(r..(o - 1)) = o - r
  <2>1. o - 1 \in Int /\ r \in Int
    OBVIOUS
  <2>2. /\ IsFiniteSet(r..(o - 1))
        /\ Cardinality(r..(o - 1)) = IF r > o - 1 THEN 0 ELSE (o - 1) - r + 1
    BY <2>1, FS_Interval
  <2> QED
    BY <2>2
<1>2. begun \subseteq r..(o - 1)
  OBVIOUS
<1>3. /\ IsFiniteSet(begun) /\ Cardinality(begun) <= Cardinality(r..(o - 1))
      /\ Cardinality(begun) \in Nat
  BY <1>1, <1>2, FS_Subset, FS_CardinalityType
<1>4. Column(r, o) = Cardinality(begun)
  BY DEF Column
<1>5. ASSUME \A p \in r..(o - 1) : source[p + 1] # continued PROVE begun = r..(o - 1)
  BY <1>5
<1> HIDE DEF begun
<1> QED
  BY <1>1, <1>3, <1>4, <1>5

LEMMA PointsUnder ==
  ASSUME Len(source) \in Nat, span \in Spans(source), ~Panics, output = Explained
  PROVE  CaretsUnderSpan
<1> SUFFICES ASSUME ~BeginsLine(span[1]) PROVE CaretsUnderSpan
  BY DEF CaretsUnderSpan
<1>1. PICK s, e : s = span[1] /\ e = span[2]
  OBVIOUS
<1>2. s \in Nat /\ span[1] \in Nat /\ e \in Nat /\ s < e
  BY <1>1 DEF Spans
<1>3. PICK a, f, t : Around(a, f, t)
  BY SnippetIs
<1>4. Line \in Nat /\ Line = TrueLine(s)
  BY <1>1, <1>2, LineIs
<1>5. RowsFollow(a, f, t)
  BY <1>3, <1>4, RowsAre
<1>6. PICK rows, first, k : rows = Explained.rows /\ first = StartingLine(Line) /\ k = TrueLine(a)
  OBVIOUS
<1>7. /\ DOMAIN rows = first..(first + (t + 2 - k))
      /\ first \in Nat
      /\ \A n \in DOMAIN rows :
           /\ rows[n] \in a..f /\ BeginsLine(rows[n])
           /\ TrueLine(rows[n]) = k + (n - first)
  BY <1>5, <1>6 DEF RowsFollow
<1>8. /\ a \in Nat /\ f \in Nat /\ TrueLine(s) = t /\ t \in Nat /\ t >= 1
      /\ k = AtLeast1(t - 2)
  BY <1>1, <1>3, <1>6 DEF Around
<1>9. first = k /\ k \in Nat /\ k <= t
  BY <1>4, <1>6, <1>8 DEF StartingLine, AtLeast1
<1>10. t \in DOMAIN rows /\ Line = t
  BY <1>4, <1>7, <1>8, <1>9
<1>11. rows[t] \in Nat /\ BeginsLine(rows[t]) /\ TrueLine(rows[t]) = t
  <2>1. rows[t] \in a..f /\ BeginsLine(rows[t]) /\ TrueLine(rows[t]) = k + (t - first)
    BY <1>7, <1>10
  <2>2. k + (t - first) = t
    BY <1>8, <1>9
  <2>3. rows[t] \in Nat
    BY <1>8, <2>1
  <2> QED
    BY <2>1, <2>2, <2>3, Zenon
<1>12. Back(1, s) \in Nat /\ BeginsLine(Back(1, s)) /\ TrueLine(Back(1, s)) = t
  <2>1. PICK b : b = Back(1, s)
    OBVIOUS
  <2>2. /\ b \in 0..s /\ BeginsLine(b)
        /\ TrueLine(s) <= 1 => b = 0
        /\ TrueLine(s) > 1 => TrueLine(b) = TrueLine(s) - 1 + 1
    BY <1>2, <2>1, BackIs
  <2>3. TrueLine(b) = t
    BY <1>8, <2>2, FirstLine
  <2> QED
    BY <1>2, <2>1, <2>2, <2>3
<1>13. rows[t] = Back(1, s)
  BY <1>8, <1>11, <1>12, OneStart
<1>14. rows[t] <= s /\ Col = s - rows[t]
  <2>1. PICK b : b = Back(1, s)
    OBVIOUS
  <2>2. b \in 0..s
    BY <1>2, <2>1, BackIs
  <2> QED
    BY <1>1, <1>2, <1>13, <2>1, <2>2 DEF Col
<1> DEFINE c == [row |-> rows[t], from |-> Col, to |-> Col + (span[2] - span[1])]
<1>15. Explained.carets = {c}
  <2>1. Explained.carets = {[row |-> rows[n], from |-> Col, to |-> Col + (span[2] - span[1])] :
                              n \in DOMAIN rows \cap {Line}}
    BY <1>6 DEF Explained
  <2>2. DOMAIN rows \cap {Line} = {t}
    BY <1>10
  <2>3. Explained.carets = {[row |-> rows[n], from |-> Col, to |-> Col + (span[2] - span[1])] :
                              n \in {t}}
    BY <2>1, <2>2, Zenon
  <2> QED
    BY <2>3, Zenon
<1>16. PICK r : r = rows[t]
  OBVIOUS
<1>17. c.row = r /\ c.from = s - r /\ c.to = e - r
  BY <1>1, <1>2, <1>11, <1>14, <1>16
<1>18. r \in Nat /\ r <= s /\ BeginsLine(r) /\ TrueLine(r) = TrueLine(span[1])
  BY <1>1, <1>8, <1>11, <1>14, <1>16
<1> HIDE DEF c
<1>19. /\ Column(r, s) \in Nat /\ Column(r, s) <= s - r
       /\ Column(r, e) \in Nat /\ Column(r, e) <= e - r
       /\ (\A o \in r..(e - 1) : source[o + 1] = other) =>
            Column(r, s) = s - r /\ Column(r, e) = e - r
  <2>0. r \in Nat /\ s \in Nat /\ e \in Nat /\ r <= s /\ r <= e
    BY <1>1, <1>2, <1>18
  <2>1. /\ Column(r, s) \in Nat /\ Column(r, s) <= s - r
        /\ Column(r, e) \in Nat /\ Column(r, e) <= e - r
    BY <2>0, ColumnIs, Zenon
  <2>2. ASSUME \A o \in r..(e - 1) : source[o + 1] = other
        PROVE  Column(r, s) = s - r /\ Column(r, e) = e - r
    <3>1. \A o \in r..(e - 1) : source[o + 1] # continued
      BY <2>2 DEF other, continued
    <3>2. \A o \in r..(s - 1) : source[o + 1] # continued
      BY <1>2, <1>18, <3>1
    <3> QED
      BY <2>0, <3>1, <3>2, ColumnIs, Zenon
  <2> QED
    BY <2>1, <2>2
<1>20. c.from >= Column(c.row, span[1]) /\ c.to >= Column(c.row, span[2])
  BY <1>1, <1>2, <1>17, <1>18, <1>19
<1>21. (\A o \in c.row..(span[2] - 1) : source[o + 1] = other) =>
         c.from = Column(c.row, span[1]) /\ c.to = Column(c.row, span[2])
  BY <1>1, <1>17, <1>19
<1>22. output.carets = {c}
  BY <1>15
<1>23. BeginsLine(c.row) /\ TrueLine(c.row) = TrueLine(span[1])
  BY <1>17, <1>18
<1> QED
  BY <1>20, <1>21, <1>22, <1>23 DEF CaretsUnderSpan

-----------------------------------------------------------------------------
(* The program explains what it was started on.                            *)

\* What it ended with is about the file and the span it began with.
ExplainInv ==
  /\ Len(source) \in Nat
  /\ output # None => span \in Spans(source)
  /\ ~Accepted /\ output = None => span \in Spans(source)
  /\ output.kind = "explained" => ~Panics /\ output = Explained

LEMMA ExplainInvariant == Spec => []ExplainInv
<1>1. TerminalInit => ExplainInv
  <2>1. ASSUME ExplainInit PROVE ExplainInv
    <3>1. Len(source) \in Nat
      BY <2>1 DEF ExplainInit, Files
    <3> QED
      BY <2>1, <3>1 DEF ExplainInit, ExplainInv, None
  <2>2. ASSUME Accepted PROVE ExplainInv
    BY <2>2 DEF Accepted, ExplainInv, None
  <2> QED
    BY <2>1, <2>2 DEF TerminalInit
<1>2. ExplainInv /\ [Next]_vars => ExplainInv'
  <2> SUFFICES ASSUME ExplainInv, [Next]_vars PROVE ExplainInv'
    OBVIOUS
  <2>1. CASE Refuse
    <3>1. source' = source /\ span' = span
      BY <2>1 DEF Refuse, Start
    <3>2. span \in Spans(source) /\ Len(source) \in Nat
      BY <2>1 DEF Refuse, Start, ExplainInv
    <3>3. /\ Panics' <=> Panics
          /\ Explained' = Explained /\ Spans(source)' = Spans(source)
      BY <3>1 DEF Panics, Snippet, Back, Forward, Newlines, Explained, LineStarts, LineStart,
                  Line, Col, AtLeast1, StartingLine, Spans, Boundary, newline, other, continued
    <3>4. output'.kind = "explained" => ~Panics /\ output' = Explained
      BY <2>1 DEF Refuse, Start, Plain, Panic
    <3> QED
      BY <3>1, <3>2, <3>3, <3>4 DEF ExplainInv
  <2>2. CASE UNCHANGED explainVars
    <3>1. source' = source /\ span' = span /\ output' = output
      BY <2>2 DEF explainVars
    <3>3. /\ Panics' <=> Panics
          /\ Explained' = Explained /\ Spans(source)' = Spans(source)
      BY <3>1 DEF Panics, Snippet, Back, Forward, Newlines, Explained, LineStarts, LineStart,
                  Line, Col, AtLeast1, StartingLine, Spans, Boundary, newline, other, continued
    <3> QED
      BY <3>1, <3>3 DEF ExplainInv, Accepted, None
  <2> QED
    BY <2>1, <2>2 DEF Next, Run, vars
<1> QED
  BY <1>1, <1>2, PTL DEF Spec

\* What is shown are the span's own line, two before it and two after it.
THEOREM ShowsCorrect == Spec => []ShowsTheLinesAround
<1>1. ExplainInv => ShowsTheLinesAround
  <2> SUFFICES ASSUME ExplainInv, output.kind = "explained" PROVE ShowsTheLinesAround
    BY DEF ShowsTheLinesAround
  <2>1. output # None
    BY DEF None
  <2> QED
    BY <2>1, ShowsLines DEF ExplainInv
<1> QED
  BY <1>1, ExplainInvariant, PTL

\* There is one row of carets, under the span's line; it is never to the left of
\* the span, counted in characters, and exactly under it where each character up
\* to its end is one byte and as wide as a blank.
THEOREM CaretsCorrect == Spec => []CaretsUnderSpan
<1>1. ExplainInv => CaretsUnderSpan
  <2> SUFFICES ASSUME ExplainInv, output.kind = "explained" PROVE CaretsUnderSpan
    BY DEF CaretsUnderSpan
  <2>1. output # None
    BY DEF None
  <2> QED
    BY <2>1, PointsUnder DEF ExplainInv
<1> QED
  BY <1>1, ExplainInvariant, PTL

-----------------------------------------------------------------------------
(* Division.                                                               *)

LEMMA TimesAtLeast ==
  ASSUME NEW b \in Nat \ {0}, NEW k \in Int
  PROVE  /\ k >= 1 => b * k >= b
         /\ k <= -1 => b * k <= -b
<1>1. ASSUME NEW j \in Nat PROVE b * j >= 0
  OBVIOUS
<1>2. CASE k >= 1
  <2>1. k - 1 \in Nat /\ b * k = b * (k - 1) + b
    BY <1>2
  <2> QED
    BY <1>1, <1>2, <2>1
<1>3. CASE k <= -1
  <2>1. -1 - k \in Nat /\ b * k = -(b * (-1 - k)) - b
    BY <1>3
  <2>2. b * (-1 - k) >= 0
    BY <1>1, <2>1
  <2> QED
    BY <1>3, <2>1, <2>2
<1> QED
  BY <1>2, <1>3

\* There is one quotient and one remainder.
LEMMA DivIs ==
  ASSUME NEW b \in Nat \ {0}, NEW q \in Int, NEW r \in Nat, r < b
  PROVE  (q * b + r) \div b = q /\ (q * b + r) % b = r
<1>1. PICK a \in Int : a = q * b + r
  OBVIOUS
<1>2. PICK d \in Int, m \in Int : d = a \div b /\ m = a % b
  BY <1>1
<1>3. a = b * d + m /\ m \in Nat /\ m < b
  BY <1>1, <1>2
<1>4. b * (q - d) = m - r
  <2>1. b * (q - d) = q * b - b * d
    OBVIOUS
  <2> QED
    BY <1>1, <1>3, <2>1
<1>5. q = d
  <2>1. q - d \in Int /\ b * (q - d) > -b /\ b * (q - d) < b
    BY <1>3, <1>4
  <2>2. ~(q - d >= 1) /\ ~(q - d <= -1)
    BY <2>1, TimesAtLeast
  <2> QED
    BY <2>2
<1> QED
  BY <1>1, <1>2, <1>3, <1>5

Splits(a, b) == \E q \in Int, r \in Nat : r < b /\ a = b * q + r

LEMMA Divided ==
  ASSUME NEW b \in Nat \ {0}, NEW a \in Int
  PROVE  Splits(a, b)
<1>1. PICK d \in Int, m \in Int : d = a \div b /\ m = a % b
  OBVIOUS
<1>2. a = b * d + m /\ m \in Nat /\ m < b
  BY <1>1
<1> QED
  BY <1>2 DEF Splits

\* Of a negative number the code corrects what truncation leaves.
LEMMA FlooredIs ==
  ASSUME NEW b \in Nat \ {0}, NEW q \in Int, NEW r \in Nat, r < b
  PROVE  Floored(q * b + r, b) = <<q, r>>
<1>1. PICK a \in Int : a = q * b + r
  OBVIOUS
<1>2. CASE a >= 0
  <2>1. Quot(a, b) = q
    BY <1>1, <1>2, DivIs DEF Quot
  <2>2. Rem(a, b) = r
    BY <1>1, <2>1 DEF Rem
  <2> QED
    BY <1>1, <2>1, <2>2 DEF Floored
<1>3. CASE a < 0 /\ r = 0
  <2>1. -a = (-q) * b + 0 /\ -q \in Int /\ 0 < b
    BY <1>1, <1>3
  <2>2. (-a) \div b = -q
    BY <2>1, DivIs
  <2>3. Quot(a, b) = q
    BY <1>1, <1>3, <2>2 DEF Quot
  <2>4. Rem(a, b) = r
    BY <1>1, <2>3 DEF Rem
  <2> QED
    BY <1>1, <2>3, <2>4 DEF Floored
<1>4. CASE a < 0 /\ r # 0
  <2>1. -a = (-q - 1) * b + (b - r) /\ -q - 1 \in Int /\ b - r \in Nat /\ b - r < b
    BY <1>1, <1>4
  <2>2. (-a) \div b = -q - 1
    BY <2>1, DivIs
  <2>3. Quot(a, b) = q + 1
    BY <1>1, <1>4, <2>2 DEF Quot
  <2>4. Rem(a, b) = r - b
    BY <1>1, <2>3 DEF Rem
  <2> QED
    BY <1>1, <1>4, <2>3, <2>4 DEF Floored
<1> QED
  BY <1>2, <1>3, <1>4

LEMMA SinceIs ==
  ASSUME NEW q \in Int, NEW r \in Nat, r < NanosPerSecond
  PROVE  SinceEpoch(q * NanosPerSecond + r) = <<q, r>>
<1> DEFINE b == NanosPerSecond
<1>0. b \in Nat \ {0}
  BY UnitsAssumption
<1>1. PICK a \in Int : a = q * b + r
  BY <1>0
<1>2. CASE a >= 0
  <2>1. a \div b = q /\ a % b = r
    BY <1>0, <1>1, DivIs
  <2> QED
    BY <1>1, <1>2, <2>1 DEF SinceEpoch
<1>3. CASE a < 0 /\ r = 0
  <2>1. -a = (-q) * b + 0 /\ -q \in Int /\ 0 < b
    BY <1>0, <1>1, <1>3
  <2>2. (-a) \div b = -q /\ (-a) % b = 0
    BY <1>0, <2>1, DivIs
  <2> QED
    BY <1>1, <1>3, <2>2 DEF SinceEpoch
<1>4. CASE a < 0 /\ r # 0
  <2>1. -a = (-q - 1) * b + (b - r) /\ -q - 1 \in Int /\ b - r \in Nat /\ b - r < b
    BY <1>0, <1>1, <1>4
  <2>2. (-a) \div b = -q - 1 /\ (-a) % b = b - r
    BY <1>0, <2>1, DivIs
  <2> QED
    BY <1>0, <1>1, <1>4, <2>2 DEF SinceEpoch
<1> QED
  BY <1>2, <1>3, <1>4

-----------------------------------------------------------------------------
(* Years and months.                                                       *)

\* Days from 1 March of year 0 of a cycle to 1 March of year n.
DaysBefore(n) == 365 * n + n \div 4 - n \div 100 + n \div 400

\* Year n in the cycle of four hundred: centuries, fours and years of it.
Parted(n, a, c, q, y) ==
  /\ a \in Int /\ c \in 0..3 /\ q \in Nat /\ q < 25 /\ y \in 0..3
  /\ n = 400 * a + 100 * c + 4 * q + y

LEMMA Parts ==
  ASSUME NEW n \in Int
  PROVE  \E a, c, q, y : Parted(n, a, c, q, y)
<1>1. PICK a \in Int, k \in Nat : k < 400 /\ n = 400 * a + k
  <2>1. Splits(n, 400)
    BY Divided
  <2> QED
    BY <2>1 DEF Splits
<1>2. PICK c \in Int, j \in Nat : j < 100 /\ k = 100 * c + j
  <2>1. Splits(k, 100)
    BY Divided
  <2> QED
    BY <2>1 DEF Splits
<1>3. PICK q \in Int, y \in Nat : y < 4 /\ j = 4 * q + y
  <2>1. Splits(j, 4)
    BY Divided
  <2> QED
    BY <2>1 DEF Splits
<1>4. c \in 0..3 /\ q \in Nat /\ q < 25 /\ y \in 0..3
  BY <1>1, <1>2, <1>3
<1>5. Parted(n, a, c, q, y)
  BY <1>1, <1>2, <1>3, <1>4 DEF Parted
<1> QED
  BY <1>5

LEMMA DaysOfParts ==
  ASSUME NEW n \in Int, NEW a, NEW c, NEW q, NEW y, Parted(n, a, c, q, y)
  PROVE  DaysBefore(n) = 146097 * a + 36524 * c + 1461 * q + 365 * y
<1>1. n \div 4 = 100 * a + 25 * c + q
  BY DEF Parted
<1>2. n \div 100 = 4 * a + c
  BY DEF Parted
<1>3. n \div 400 = a
  BY DEF Parted
<1> QED
  BY <1>1, <1>2, <1>3 DEF Parted, DaysBefore

\* The year that begins in March has its leap day at its end, if the next one
\* is a leap year.
LEMMA LeapOfParts ==
  ASSUME NEW n \in Int, NEW a, NEW c, NEW q, NEW y, Parted(n, a, c, q, y)
  PROVE  LeapYear(n + 2001) <=> y = 3 /\ (q # 24 \/ c = 3)
<1>1. (n + 2001) % 4 = 0 <=> y = 3
  BY DEF Parted
<1>2. (n + 2001) % 100 = 0 <=> y = 3 /\ q = 24
  BY DEF Parted
<1>3. (n + 2001) % 400 = 0 <=> y = 3 /\ q = 24 /\ c = 3
  BY DEF Parted
<1> QED
  BY <1>1, <1>2, <1>3 DEF LeapYear

LEMMA NextYear ==
  ASSUME NEW n \in Int
  PROVE  /\ LeapYear(n + 2001) => DaysBefore(n + 1) = DaysBefore(n) + 366
         /\ ~LeapYear(n + 2001) => DaysBefore(n + 1) = DaysBefore(n) + 365
<1>1. PICK a, c, q, y : Parted(n, a, c, q, y)
  BY Parts
<1>2. /\ DaysBefore(n) = 146097 * a + 36524 * c + 1461 * q + 365 * y
      /\ LeapYear(n + 2001) <=> y = 3 /\ (q # 24 \/ c = 3)
  BY <1>1, DaysOfParts, LeapOfParts
<1>3. CASE y # 3
  <2>1. Parted(n + 1, a, c, q, y + 1)
    BY <1>1, <1>3 DEF Parted
  <2>2. DaysBefore(n + 1) = 146097 * a + 36524 * c + 1461 * q + 365 * (y + 1)
    BY <2>1, DaysOfParts
  <2> QED
    BY <1>1, <1>2, <1>3, <2>2 DEF Parted
<1>4. CASE y = 3 /\ q # 24
  <2>1. Parted(n + 1, a, c, q + 1, 0)
    BY <1>1, <1>4 DEF Parted
  <2>2. DaysBefore(n + 1) = 146097 * a + 36524 * c + 1461 * (q + 1) + 365 * 0
    BY <2>1, DaysOfParts
  <2> QED
    BY <1>1, <1>2, <1>4, <2>2 DEF Parted
<1>5. CASE y = 3 /\ q = 24 /\ c # 3
  <2>1. Parted(n + 1, a, c + 1, 0, 0)
    BY <1>1, <1>5 DEF Parted
  <2>2. DaysBefore(n + 1) = 146097 * a + 36524 * (c + 1) + 1461 * 0 + 365 * 0
    BY <2>1, DaysOfParts
  <2> QED
    BY <1>1, <1>2, <1>5, <2>2 DEF Parted
<1>6. CASE y = 3 /\ q = 24 /\ c = 3
  <2>1. Parted(n + 1, a + 1, 0, 0, 0)
    BY <1>1, <1>6 DEF Parted
  <2>2. DaysBefore(n + 1) = 146097 * (a + 1) + 36524 * 0 + 1461 * 0 + 365 * 0
    BY <2>1, DaysOfParts
  <2> QED
    BY <1>1, <1>2, <1>6, <2>2 DEF Parted
<1> QED
  BY <1>3, <1>4, <1>5, <1>6

\* The table of months, added up.
LEMMA BeforeIs ==
  /\ Before[0] = 0 /\ Before[1] = 31 /\ Before[2] = 61 /\ Before[3] = 92
  /\ Before[4] = 122 /\ Before[5] = 153 /\ Before[6] = 184 /\ Before[7] = 214
  /\ Before[8] = 245 /\ Before[9] = 275 /\ Before[10] = 306 /\ Before[11] = 337
  /\ Before[12] = 366
<1> DEFINE Sums(g) == g = [m \in 0..12 |-> IF m = 0 THEN 0 ELSE g[m - 1] + DAYS_IN_MONTH[m]]
           t == <<0, 31, 61, 92, 122, 153, 184, 214, 245, 275, 306, 337, 366>>
           W == [m \in 0..12 |-> t[m + 1]]
<1>1. Sums(W)
  <2>1. ASSUME NEW m \in 0..12
        PROVE  W[m] = IF m = 0 THEN 0 ELSE W[m - 1] + DAYS_IN_MONTH[m]
    <3>1. \/ m = 0 \/ m = 1 \/ m = 2 \/ m = 3 \/ m = 4 \/ m = 5 \/ m = 6 \/ m = 7 \/ m = 8
          \/ m = 9 \/ m = 10 \/ m = 11 \/ m = 12
      OBVIOUS
    <3> QED
      BY <3>1 DEF DAYS_IN_MONTH
  <2> HIDE DEF t
  <2> QED
    BY <2>1
<1>2. Before = CHOOSE g : Sums(g)
  BY DEF Before
<1> HIDE DEF W
<1>3. Sums(Before)
  BY <1>1, <1>2, Zenon
<1>4. ASSUME NEW m \in 1..12 PROVE Before[m] = Before[m - 1] + DAYS_IN_MONTH[m]
  BY <1>3
<1>5. Before[0] = 0
  BY <1>3
<1>6. Before[1] = 31 /\ Before[2] = 61 /\ Before[3] = 92
  BY <1>4, <1>5 DEF DAYS_IN_MONTH
<1>7. Before[4] = 122 /\ Before[5] = 153 /\ Before[6] = 184
  BY <1>4, <1>6 DEF DAYS_IN_MONTH
<1>8. Before[7] = 214 /\ Before[8] = 245 /\ Before[9] = 275
  BY <1>4, <1>7 DEF DAYS_IN_MONTH
<1>9. Before[10] = 306 /\ Before[11] = 337 /\ Before[12] = 366
  BY <1>4, <1>8 DEF DAYS_IN_MONTH
<1> QED
  BY <1>5, <1>6, <1>7, <1>8, <1>9

LEMMA BeforeType ==
  ASSUME NEW m \in 0..12
  PROVE  Before[m] \in Nat /\ Before[m] <= 366 /\ (m < 12 => Before[m] <= Before[m + 1])
<1>1. \/ m = 0 \/ m = 1 \/ m = 2 \/ m = 3 \/ m = 4 \/ m = 5 \/ m = 6 \/ m = 7 \/ m = 8
      \/ m = 9 \/ m = 10 \/ m = 11 \/ m = 12
  OBVIOUS
<1> QED
  BY <1>1, BeforeIs

LEMMA BeforeGrows ==
  ASSUME NEW i \in 0..12, NEW j \in 0..12
  PROVE  Before[i] \in Nat /\ Before[i] <= 366 /\ (i <= j => Before[i] <= Before[j])
<1>1. \A m \in 0..12 : Before[m] \in Nat /\ Before[m] <= 366 /\ (m < 12 => Before[m] <= Before[m + 1])
  BY BeforeType
<1>2. ASSUME i <= j PROVE Before[i] <= Before[j]
  <2> DEFINE T == {k \in 0..(j - i) : Before[i] <= Before[i + k]}
  <2>1. 0 \in T
    <3>1. i + 0 = i /\ 0 \in 0..(j - i)
      BY <1>2
    <3>2. Before[i] <= Before[i]
      <4>1. Before[i] \in Nat
        BY <1>1, Zenon
      <4> QED
        BY <4>1
    <3> QED
      BY <3>1, <3>2
  <2>2. ASSUME NEW k \in 0..((j - i) - 1), k \in T PROVE k + 1 \in T
    <3>1. i + k \in 0..12 /\ i + k < 12 /\ (i + k) + 1 = i + (k + 1) /\ i + (k + 1) \in 0..12
      BY <2>2
    <3>2. Before[i] <= Before[i + k] /\ Before[i + k] <= Before[i + (k + 1)]
      BY <1>1, <2>2, <3>1
    <3>3. Before[i] \in Nat /\ Before[i + k] \in Nat /\ Before[i + (k + 1)] \in Nat
      BY <1>1, <3>1, Zenon
    <3>4. PICK x, z, w : x = Before[i] /\ z = Before[i + k] /\ w = Before[i + (k + 1)]
      OBVIOUS
    <3>5. x \in Nat /\ z \in Nat /\ w \in Nat /\ x <= z /\ z <= w
      BY <3>2, <3>3, <3>4, Zenon
    <3>6. x <= w
      BY <3>5
    <3>7. k + 1 \in 0..(j - i)
      BY <1>2
    <3> QED
      BY <3>4, <3>6, <3>7, Zenon
  <2>3. j - i \in Nat /\ i + (j - i) = j
    BY <1>2
  <2>4. j - i \in T
    <3> HIDE DEF T
    <3> QED
      BY <2>1, <2>2, <2>3, InductionTo
  <2> QED
    BY <2>3, <2>4
<1> QED
  BY <1>1, <1>2

\* The month is found again.
LEMMA MonthIs ==
  ASSUME NEW m \in 0..11, NEW r \in Int, Before[m] <= r, r < Before[m + 1]
  PROVE  (CHOOSE i \in 0..11 : Before[i] <= r /\ r < Before[i + 1]) = m
<1>1. ASSUME NEW i \in 0..11, Before[i] <= r, r < Before[i + 1] PROVE i = m
  <2>1. i \in 0..12 /\ i + 1 \in 0..12 /\ m \in 0..12 /\ m + 1 \in 0..12
    OBVIOUS
  <2>2. PICK bi \in Nat, bm \in Nat, ai \in Nat, am \in Nat :
          bi = Before[i] /\ bm = Before[m] /\ ai = Before[i + 1] /\ am = Before[m + 1]
    BY <2>1, BeforeGrows, Zenon
  <2>3. (i + 1 <= m => ai <= bm) /\ (m + 1 <= i => am <= bi)
    BY <2>1, <2>2, BeforeGrows, Zenon
  <2>4. bi <= r /\ r < ai /\ bm <= r /\ r < am
    BY <1>1, <2>2, Zenon
  <2> QED
    BY <2>3, <2>4
<1> QED
  BY <1>1

\* The years of each kind of cycle are found again, on the last day of the
\* longest ones too.
CyclesFound(a, c, q, y, r) ==
  /\ Floored(DAYS_PER_400Y * a + (DAYS_PER_100Y * c + DAYS_PER_4Y * q + 365 * y + r), DAYS_PER_400Y) =
       <<a, DAYS_PER_100Y * c + DAYS_PER_4Y * q + 365 * y + r>>
  /\ Capped(DAYS_PER_100Y * c + DAYS_PER_4Y * q + 365 * y + r, DAYS_PER_100Y, 4) = c
  /\ Capped(DAYS_PER_4Y * q + 365 * y + r, DAYS_PER_4Y, 25) = q
  /\ Capped(365 * y + r, 365, 4) = y

LEMMA CyclesAre ==
  ASSUME NEW a \in Int, NEW c \in 0..3, NEW q \in Nat, q < 25, NEW y \in 0..3,
         NEW r \in Nat, r <= 365, r = 365 => y = 3 /\ (q # 24 \/ c = 3)
  PROVE  CyclesFound(a, c, q, y, r)
<1>1. DAYS_PER_400Y \in Nat \ {0} /\ DAYS_PER_100Y \in Nat \ {0} /\ DAYS_PER_4Y \in Nat \ {0}
  BY SMT DEF DAYS_PER_400Y, DAYS_PER_100Y, DAYS_PER_4Y
<1>0. DAYS_PER_400Y = 146097 /\ DAYS_PER_100Y = 36524 /\ DAYS_PER_4Y = 1461
  BY SMT DEF DAYS_PER_400Y, DAYS_PER_100Y, DAYS_PER_4Y
<1>2. PICK f \in Nat : f = 365 * y + r
  OBVIOUS
<1>3. PICK e \in Nat : e = DAYS_PER_4Y * q + f
  BY <1>1
<1>4. PICK d \in Nat : d = DAYS_PER_100Y * c + e
  BY <1>1
<1>5. f < DAYS_PER_4Y
  BY <1>0, <1>1, <1>2, SMT
<1>6. e <= DAYS_PER_100Y /\ (e = DAYS_PER_100Y => c = 3)
  BY <1>0, <1>1, <1>2, <1>3, SMT
<1>7. d < DAYS_PER_400Y
  BY <1>0, <1>1, <1>4, <1>6, SMT
<1>8. Floored(DAYS_PER_400Y * a + d, DAYS_PER_400Y) = <<a, d>>
  <2>1. PICK b \in Nat \ {0} : b = DAYS_PER_400Y
    BY <1>1
  <2>2. d < b
    BY <1>7, <2>1
  <2>3. Floored(a * b + d, b) = <<a, d>>
    BY <2>2, FlooredIs
  <2>4. b * a = a * b
    OBVIOUS
  <2> QED
    BY <2>1, <2>3, <2>4
<1>9. Capped(d, DAYS_PER_100Y, 4) = c
  <2>1. CASE e = DAYS_PER_100Y
    <3>1. d = 4 * DAYS_PER_100Y + 0 /\ c = 3
      BY <1>1, <1>4, <1>6, <2>1
    <3>2. (4 * DAYS_PER_100Y + 0) \div DAYS_PER_100Y = 4
      BY <1>1, DivIs
    <3> QED
      BY <3>1, <3>2 DEF Capped
  <2>2. CASE e # DAYS_PER_100Y
    <3>1. e < DAYS_PER_100Y /\ d = c * DAYS_PER_100Y + e /\ c \in Int
      BY <1>1, <1>4, <1>6, <2>2
    <3>2. (c * DAYS_PER_100Y + e) \div DAYS_PER_100Y = c
      BY <1>1, <3>1, DivIs
    <3> QED
      BY <3>1, <3>2 DEF Capped
  <2> QED
    BY <2>1, <2>2
<1>10. Capped(e, DAYS_PER_4Y, 25) = q
  <2>1. e = q * DAYS_PER_4Y + f /\ q \in Int
    BY <1>1, <1>3
  <2>2. (q * DAYS_PER_4Y + f) \div DAYS_PER_4Y = q
    BY <1>1, <1>5, <2>1, DivIs
  <2> QED
    BY <2>1, <2>2 DEF Capped
<1>11. Capped(f, 365, 4) = y
  <2>1. CASE r = 365
    <3>1. f = 4 * 365 + 0 /\ y = 3
      BY <1>2, <2>1
    <3>2. (4 * 365 + 0) \div 365 = 4
      BY DivIs
    <3> QED
      BY <3>1, <3>2 DEF Capped
  <2>2. CASE r # 365
    <3>1. f = y * 365 + r /\ r < 365 /\ y \in Int
      BY <1>2, <2>2
    <3>2. (y * 365 + r) \div 365 = y
      BY <3>1, DivIs
    <3> QED
      BY <3>1, <3>2 DEF Capped
  <2> QED
    BY <2>1, <2>2
<1>12. /\ DAYS_PER_100Y * c + DAYS_PER_4Y * q + 365 * y + r = d
       /\ DAYS_PER_4Y * q + 365 * y + r = e
  BY <1>1, <1>2, <1>3, <1>4
<1> QED
  BY <1>2, <1>8, <1>9, <1>10, <1>11, <1>12 DEF CyclesFound

\* A day of a month that has it is found again.
LEMMA CivilIs ==
  ASSUME NEW n \in Int, NEW m \in 0..11, NEW d \in Nat, d < Before[m + 1] - Before[m],
         Before[m] + d = 365 => LeapYear(n + 2001)
  PROVE  Civil(DaysBefore(n) + (Before[m] + d)) = [years |-> n, months |-> m, days |-> d]
<1>1. PICK a, c, q, y : Parted(n, a, c, q, y)
  BY Parts
<1>2. PICK r : r = Before[m] + d
  OBVIOUS
<1>3. Before[m] \in Nat /\ Before[m + 1] \in Nat /\ Before[m + 1] <= 366
  <2>1. m \in 0..12 /\ m + 1 \in 0..12
    OBVIOUS
  <2> QED
    BY <2>1, BeforeType
<1>4. r \in Nat /\ r <= 365 /\ (r = 365 => LeapYear(n + 2001)) /\ Before[m] <= r /\ r < Before[m + 1]
  <2>1. PICK x \in Nat, z \in Nat : x = Before[m] /\ z = Before[m + 1] /\ z <= 366
    BY <1>3
  <2>2. r = x + d /\ d < z - x
    BY <1>2, <2>1
  <2>3. r \in Nat /\ r <= 365 /\ x <= r /\ r < z
    BY <2>1, <2>2
  <2> QED
    BY <1>2, <2>1, <2>3
<1>7. /\ a \in Int /\ c \in 0..3 /\ q \in Nat /\ q < 25 /\ y \in 0..3
      /\ n = y + 4 * q + 100 * c + 400 * a
  BY <1>1 DEF Parted
<1>21. r = 365 => y = 3 /\ (q # 24 \/ c = 3)
  BY <1>1, <1>4, LeapOfParts
<1>5. PICK days : days = DaysBefore(n) + r
  OBVIOUS
<1>8. /\ DAYS_PER_400Y \in Int /\ DAYS_PER_100Y \in Int /\ DAYS_PER_4Y \in Int
      /\ DAYS_PER_400Y = 146097 /\ DAYS_PER_100Y = 36524 /\ DAYS_PER_4Y = 1461
  BY DEF DAYS_PER_400Y, DAYS_PER_100Y, DAYS_PER_4Y
<1>6. /\ Floored(days, DAYS_PER_400Y) = <<a, DAYS_PER_100Y * c + DAYS_PER_4Y * q + 365 * y + r>>
      /\ Capped(DAYS_PER_100Y * c + DAYS_PER_4Y * q + 365 * y + r, DAYS_PER_100Y, 4) = c
      /\ Capped(DAYS_PER_4Y * q + 365 * y + r, DAYS_PER_4Y, 25) = q
      /\ Capped(365 * y + r, 365, 4) = y
  <2>1. DaysBefore(n) = 146097 * a + 36524 * c + 1461 * q + 365 * y
    BY <1>1, DaysOfParts
  <2>2. days = DAYS_PER_400Y * a + (DAYS_PER_100Y * c + DAYS_PER_4Y * q + 365 * y + r)
    BY <1>4, <1>5, <1>7, <1>8, <2>1, SMT
  <2>3. CyclesFound(a, c, q, y, r)
    BY <1>4, <1>7, <1>21, CyclesAre
  <2> QED
    BY <2>2, <2>3 DEF CyclesFound
<1>9. (CHOOSE i \in 0..11 : Before[i] <= r /\ r < Before[i + 1]) = m
  BY <1>4, MonthIs
<1> DEFINE qc == Floored(days, DAYS_PER_400Y)
           c1 == Capped(qc[2], DAYS_PER_100Y, 4)
           r1 == qc[2] - c1 * DAYS_PER_100Y
           q1 == Capped(r1, DAYS_PER_4Y, 25)
           r2 == r1 - q1 * DAYS_PER_4Y
           y1 == Capped(r2, 365, 4)
           r3 == r2 - y1 * 365
           m1 == CHOOSE i \in 0..11 : Before[i] <= r3 /\ r3 < Before[i + 1]
<1>10. Civil(days) = [years |-> y1 + 4 * q1 + 100 * c1 + 400 * qc[1], months |-> m1,
                      days |-> r3 - Before[m1]]
  BY DEF Civil
<1>11. qc[1] = a /\ qc[2] = DAYS_PER_100Y * c + DAYS_PER_4Y * q + 365 * y + r
  BY <1>6
<1>12. c1 = c
  BY <1>6, <1>11
<1> HIDE DEF qc, c1
<1>13. r1 = DAYS_PER_4Y * q + 365 * y + r
  BY <1>4, <1>7, <1>8, <1>11, <1>12
<1>14. q1 = q
  BY <1>6, <1>13
<1> HIDE DEF r1, q1
<1>15. r2 = 365 * y + r
  BY <1>4, <1>7, <1>8, <1>13, <1>14
<1>16. y1 = y
  BY <1>6, <1>15
<1> HIDE DEF r2, y1
<1>17. r3 = r
  BY <1>4, <1>7, <1>15, <1>16
<1>18. m1 = m
  BY <1>9, <1>17
<1> HIDE DEF r3, m1
<1>19. r3 - Before[m1] = d
  BY <1>2, <1>3, <1>17, <1>18
<1>20. y1 + 4 * q1 + 100 * c1 + 400 * qc[1] = n
  BY <1>7, <1>11, <1>12, <1>14, <1>16
<1> QED
  BY <1>2, <1>5, <1>10, <1>18, <1>19, <1>20

-----------------------------------------------------------------------------
(* Days of the calendar on the wall.                                       *)

\* Year and month as the code counts them, from March.
MarchYear(y, m)  == IF m >= 3 THEN y - 2000 ELSE y - 2001
MarchMonth(m)    == IF m >= 3 THEN m - 3 ELSE m + 9

\* Days of a date since the code's own epoch.
DayOf(y, m, d) == DaysBefore(MarchYear(y, m)) + (Before[MarchMonth(m)] + (d - 1))

LEMMA DaysBeforeType == \A n \in Int : DaysBefore(n) \in Int
<1> SUFFICES ASSUME NEW n \in Int PROVE DaysBefore(n) \in Int
  OBVIOUS
<1>1. PICK a, c, q, y : Parted(n, a, c, q, y)
  BY Parts
<1>2. DaysBefore(n) = 146097 * a + 36524 * c + 1461 * q + 365 * y
  BY <1>1, DaysOfParts
<1> QED
  BY <1>1, <1>2, SMT DEF Parted

LEMMA TwelveMonths ==
  ASSUME NEW m \in 1..12
  PROVE  \/ m = 1 \/ m = 2 \/ m = 3 \/ m = 4 \/ m = 5 \/ m = 6 \/ m = 7 \/ m = 8
         \/ m = 9 \/ m = 10 \/ m = 11 \/ m = 12
OBVIOUS

\* The months of the table have the lengths of the calendar's, but that the
\* table has a leap day at the end of every year.
TableFits(y, m, n, mm) ==
  /\ mm \in 0..11 /\ n \in Int /\ MonthLength(y, m) \in 28..31
  /\ m # 2 => MonthLength(y, m) = Before[mm + 1] - Before[mm]
  /\ m = 2 => /\ mm = 11 /\ n + 2001 = y
              /\ MonthLength(y, m) = IF LeapYear(y) THEN 29 ELSE 28

LEMMA MonthLengths ==
  ASSUME NEW y \in Int, NEW m \in 1..12
  PROVE  TableFits(y, m, MarchYear(y, m), MarchMonth(m))
<1>1. \/ m = 1 \/ m = 2 \/ m = 3 \/ m = 4 \/ m = 5 \/ m = 6 \/ m = 7 \/ m = 8
      \/ m = 9 \/ m = 10 \/ m = 11 \/ m = 12
  BY TwelveMonths
<1>2. MarchYear(y, m) \in Int
  BY DEF MarchYear
<1>3. CASE m = 2
  BY <1>2, <1>3 DEF MarchMonth, MarchYear, MonthLength, TableFits
<1>4. CASE m \in {4, 6, 9, 11}
  <2>1. MonthLength(y, m) = 30
    BY <1>4 DEF MonthLength
  <2> QED
    BY <1>2, <1>4, <2>1, BeforeIs DEF MarchMonth, TableFits
<1>5. CASE m \in {1, 3, 5, 7, 8, 10, 12}
  <2>1. MonthLength(y, m) = 31
    BY <1>5 DEF MonthLength
  <2> QED
    BY <1>2, <1>5, <2>1, BeforeIs DEF MarchMonth, TableFits
<1> QED
  BY <1>1, <1>3, <1>4, <1>5

\* The first day of the next month.
LEMMA MonthFollows ==
  ASSUME NEW y \in Int, NEW m \in 1..12
  PROVE  /\ m < 12 => DayOf(y, m + 1, 1) = DayOf(y, m, MonthLength(y, m)) + 1
         /\ m = 12 => DayOf(y + 1, 1, 1) = DayOf(y, m, MonthLength(y, m)) + 1
<1>0. PICK n, mm : n = MarchYear(y, m) /\ mm = MarchMonth(m)
  OBVIOUS
<1>1. /\ mm \in 0..11 /\ n \in Int /\ MonthLength(y, m) \in 28..31
      /\ m # 2 => MonthLength(y, m) = Before[mm + 1] - Before[mm]
      /\ m = 2 => /\ mm = 11 /\ n + 2001 = y
                  /\ MonthLength(y, m) = IF LeapYear(y) THEN 29 ELSE 28
  <2>1. TableFits(y, m, n, mm)
    BY <1>0, MonthLengths
  <2> QED
    BY <2>1 DEF TableFits
<1>2. Before[mm] \in Nat /\ Before[mm + 1] \in Nat /\ DaysBefore(n) \in Int
  <2>1. mm \in 0..12 /\ mm + 1 \in 0..12
    BY <1>1
  <2> QED
    BY <1>1, <2>1, BeforeType, DaysBeforeType
<1>3. CASE m = 2
  <2>1. MarchYear(y, m + 1) = n + 1 /\ MarchMonth(m + 1) = 0
    BY <1>0, <1>3 DEF MarchYear, MarchMonth
  <2>2. DayOf(y, m + 1, 1) = DaysBefore(n + 1)
    <3>1. DaysBefore(n + 1) \in Int
      BY <1>1, DaysBeforeType
    <3> QED
      BY <2>1, <3>1, BeforeIs DEF DayOf
  <2>3. DayOf(y, m, MonthLength(y, m)) = DaysBefore(n) + (337 + (MonthLength(y, m) - 1))
    BY <1>0, <1>1, <1>3, BeforeIs DEF DayOf
  <2>4. CASE LeapYear(y)
    <3>1. DaysBefore(n + 1) = DaysBefore(n) + 366 /\ MonthLength(y, m) = 29
      BY <1>1, <1>3, <2>4, NextYear
    <3> QED
      BY <1>2, <1>3, <2>2, <2>3, <3>1
  <2>5. CASE ~LeapYear(y)
    <3>1. DaysBefore(n + 1) = DaysBefore(n) + 365 /\ MonthLength(y, m) = 28
      BY <1>1, <1>3, <2>5, NextYear
    <3> QED
      BY <1>2, <1>3, <2>2, <2>3, <3>1
  <2> QED
    BY <2>4, <2>5
<1>4. CASE m # 2
  <2>1. DayOf(y, m, MonthLength(y, m)) + 1 = DaysBefore(n) + Before[mm + 1]
    BY <1>0, <1>1, <1>2, <1>4 DEF DayOf
  <2>2. m < 12 => MarchYear(y, m + 1) = n /\ MarchMonth(m + 1) = mm + 1
    BY <1>0, <1>4 DEF MarchYear, MarchMonth
  <2>3. m = 12 => MarchYear(y + 1, 1) = n /\ MarchMonth(1) = mm + 1
    BY <1>0 DEF MarchYear, MarchMonth
  <2>4. m < 12 => DayOf(y, m + 1, 1) = DaysBefore(n) + Before[mm + 1]
    BY <1>2, <2>2 DEF DayOf
  <2>5. m = 12 => DayOf(y + 1, 1, 1) = DaysBefore(n) + Before[mm + 1]
    BY <1>2, <2>3 DEF DayOf
  <2> QED
    BY <2>1, <2>4, <2>5
<1> QED
  BY <1>3, <1>4

LEMMA YearFollows ==
  ASSUME NEW y \in Int
  PROVE  /\ DayOf(y, 1, 1) \in Int
         /\ LeapYear(y) => DayOf(y + 1, 1, 1) = DayOf(y, 1, 1) + 366
         /\ ~LeapYear(y) => DayOf(y + 1, 1, 1) = DayOf(y, 1, 1) + 365
<1>1. PICK n \in Int : n = y - 2001
  OBVIOUS
<1>2. /\ DayOf(y, 1, 1) = DaysBefore(n) + (306 + (1 - 1))
      /\ DayOf(y + 1, 1, 1) = DaysBefore(n + 1) + (306 + (1 - 1))
  <2>1. /\ MarchYear(y, 1) = n /\ MarchYear(y + 1, 1) = n + 1
        /\ MarchMonth(1) = 10
    BY <1>1 DEF MarchYear, MarchMonth
  <2> QED
    BY <2>1, BeforeIs DEF DayOf
<1>3. DaysBefore(n) \in Int /\ DaysBefore(n + 1) \in Int /\ n + 2001 = y
  BY <1>1, DaysBeforeType
<1> QED
  BY <1>2, <1>3, NextYear

\* A date is found again from its day.
LEMMA CivilOf ==
  ASSUME NEW y \in Int, NEW m \in 1..12, NEW d \in Nat, 1 <= d, d <= MonthLength(y, m)
  PROVE  Civil(DayOf(y, m, d)) = [years |-> MarchYear(y, m), months |-> MarchMonth(m), days |-> d - 1]
<1>1. PICK n, mm : n = MarchYear(y, m) /\ mm = MarchMonth(m)
  OBVIOUS
<1>2. /\ mm \in 0..11 /\ n \in Int /\ MonthLength(y, m) \in 28..31
      /\ m # 2 => MonthLength(y, m) = Before[mm + 1] - Before[mm]
      /\ m = 2 => /\ mm = 11 /\ n + 2001 = y
                  /\ MonthLength(y, m) = IF LeapYear(y) THEN 29 ELSE 28
  <2>1. TableFits(y, m, n, mm)
    BY <1>1, MonthLengths
  <2> QED
    BY <2>1 DEF TableFits
<1>3. d - 1 \in Nat /\ d - 1 < Before[mm + 1] - Before[mm]
      /\ (Before[mm] + (d - 1) = 365 => LeapYear(n + 2001))
  <2>1. CASE m = 2
    <3>1. Before[mm] = 337 /\ Before[mm + 1] = 366
      BY <1>2, <2>1, BeforeIs
    <3>2. CASE LeapYear(y)
      <4>1. MonthLength(y, m) = 29
        BY <1>2, <2>1, <3>2
      <4> QED
        BY <1>2, <2>1, <3>1, <3>2, <4>1
    <3>3. CASE ~LeapYear(y)
      <4>1. MonthLength(y, m) = 28
        BY <1>2, <2>1, <3>3
      <4> QED
        BY <3>1, <4>1
    <3> QED
      BY <3>2, <3>3
  <2>2. CASE m # 2
    <3>1. mm # 11
      BY <1>1, <2>2 DEF MarchMonth
    <3>2. Before[mm] \in Nat /\ Before[mm + 1] \in Nat /\ Before[mm + 1] <= 337
      <4>1. mm \in 0..12 /\ mm + 1 \in 0..12 /\ 11 \in 0..12 /\ mm + 1 <= 11
        BY <1>2, <3>1
      <4>2. Before[mm + 1] <= Before[11]
        BY <4>1, BeforeGrows
      <4> QED
        BY <4>1, <4>2, BeforeType, BeforeIs
    <3> QED
      BY <1>2, <2>2, <3>2
  <2> QED
    BY <2>1, <2>2
<1>4. Civil(DaysBefore(n) + (Before[mm] + (d - 1))) = [years |-> n, months |-> mm, days |-> d - 1]
  <2>1. PICK e \in Nat : e = d - 1
    BY <1>3
  <2>2. e < Before[mm + 1] - Before[mm] /\ (Before[mm] + e = 365 => LeapYear(n + 2001))
    BY <1>3, <2>1
  <2>3. mm \in 0..11 /\ n \in Int
    BY <1>2
  <2>4. Civil(DaysBefore(n) + (Before[mm] + e)) = [years |-> n, months |-> mm, days |-> e]
    BY <2>2, <2>3, CivilIs
  <2> QED
    BY <2>1, <2>4
<1> QED
  BY <1>1, <1>4 DEF DayOf

-----------------------------------------------------------------------------
(* A date and its instant.                                                 *)

Instant(day, h, mi, s, ns) ==
  (((day * HoursPerDay + h) * MinutesPerHour + mi) * SecondsPerMinute + s) * NanosPerSecond + ns

OnTime(y, m, d, h, mi, s, ns) ==
  /\ y \in Int /\ m \in 1..12 /\ d \in Nat /\ 1 <= d /\ d <= MonthLength(y, m)
  /\ h \in Nat /\ h < HoursPerDay /\ mi \in Nat /\ mi < MinutesPerHour
  /\ s \in Nat /\ s < SecondsPerMinute /\ ns \in Nat /\ ns < NanosPerSecond
  /\ date = <<y, m, d, h, mi, s, ns>>
  /\ now = Instant(LEAPOCH + DayOf(y, m, d), h, mi, s, ns)

DayInv == \E y, m, d, h, mi, s, ns : OnTime(y, m, d, h, mi, s, ns)

LEMMA DayType ==
  ASSUME NEW y \in Int, NEW m \in 1..12, NEW d \in Int
  PROVE  /\ DayOf(y, m, d) \in Int
         /\ DayOf(y, m, d) = DayOf(y, m, 1) + (d - 1)
<1>1. PICK n, mm : n = MarchYear(y, m) /\ mm = MarchMonth(m)
  OBVIOUS
<1>2. TableFits(y, m, n, mm)
  BY <1>1, MonthLengths
<1>3. n \in Int /\ mm \in 0..12
  BY <1>2 DEF TableFits
<1>4. DaysBefore(n) \in Int /\ Before[mm] \in Nat
  BY <1>3, DaysBeforeType, BeforeType
<1> QED
  BY <1>1, <1>4 DEF DayOf

\* A smaller digit and a smaller rest make a smaller number.
LEMMA Smaller ==
  ASSUME NEW x \in Nat, NEW limit \in Nat, x < limit, NEW b \in Nat \ {0}, NEW z \in Nat, z < b
  PROVE  x * b + z \in Nat /\ x * b + z < limit * b
<1>1. limit - 1 - x \in Nat
  OBVIOUS
<1>2. b * (limit - 1 - x) >= 0 /\ b * x >= 0
  <2>1. \A j \in Nat : b * j >= 0
    OBVIOUS
  <2> QED
    BY <1>1, <2>1
<1>3. limit * b = b * (limit - 1 - x) + x * b + b
  OBVIOUS
<1>4. x * b = b * x
  OBVIOUS
<1> QED
  BY <1>2, <1>3, <1>4

\* The hours, minutes and seconds of a day.
LEMMA TimeOfDay ==
  ASSUME NEW h \in Nat, h < HoursPerDay, NEW mi \in Nat, mi < MinutesPerHour,
         NEW s \in Nat, s < SecondsPerMinute
  PROVE  LET time == (h * MinutesPerHour + mi) * SecondsPerMinute + s IN
         /\ time \in Nat /\ time < SECS_PER_DAY
         /\ time \div (MinutesPerHour * SecondsPerMinute) = h
         /\ (time \div SecondsPerMinute) % MinutesPerHour = mi
         /\ time % SecondsPerMinute = s
<1> DEFINE H == HoursPerDay
           M == MinutesPerHour
           S == SecondsPerMinute
<1>0. PICK b \in Nat, c \in Nat, e \in Nat : b = H /\ c = M /\ e = S /\ c # 0 /\ e # 0
  BY UnitsAssumption
<1>1. h * c + mi \in Nat /\ h * c + mi < b * c
  BY <1>0, Smaller
<1>2. b * c \in Nat
  OBVIOUS
<1>3. (h * c + mi) * e + s \in Nat /\ (h * c + mi) * e + s < (b * c) * e
  BY <1>0, <1>1, <1>2, Smaller
<1>4. c * e \in Nat /\ c * e # 0 /\ mi * e + s \in Nat /\ mi * e + s < c * e
  <2>1. mi * e + s \in Nat /\ mi * e + s < c * e
    BY <1>0, Smaller
  <2>2. c * e \in Nat
    OBVIOUS
  <2> QED
    BY <2>1, <2>2
<1>5. (h * c + mi) * e + s = h * (c * e) + (mi * e + s)
  OBVIOUS
<1>6. (h * (c * e) + (mi * e + s)) \div (c * e) = h
  BY <1>4, DivIs
<1>7. /\ ((h * c + mi) * e + s) \div e = h * c + mi
      /\ ((h * c + mi) * e + s) % e = s
  <2>1. h * c + mi \in Int /\ s < e /\ e \in Nat \ {0}
    BY <1>0
  <2> QED
    BY <2>1, DivIs
<1>8. (h * c + mi) % c = mi
  BY <1>0, DivIs
<1> QED
  BY <1>0, <1>3, <1>5, <1>6, <1>7, <1>8 DEF SECS_PER_DAY

\* What the code makes of an instant is its date.
LEMMA FromIs ==
  ASSUME NEW y, NEW m, NEW d, NEW h, NEW mi, NEW s, NEW ns, OnTime(y, m, d, h, mi, s, ns)
  PROVE  From(now) = <<y, m - 1, d, h, mi, s, ns>>
<1>1. /\ y \in Int /\ m \in 1..12 /\ d \in Nat /\ 1 <= d /\ d <= MonthLength(y, m)
      /\ h \in Nat /\ h < HoursPerDay /\ mi \in Nat /\ mi < MinutesPerHour
      /\ s \in Nat /\ s < SecondsPerMinute /\ ns \in Nat /\ ns < NanosPerSecond
      /\ now = Instant(LEAPOCH + DayOf(y, m, d), h, mi, s, ns)
  BY DEF OnTime
<1>2. /\ HoursPerDay \in Nat \ {0} /\ MinutesPerHour \in Nat \ {0}
      /\ SecondsPerMinute \in Nat \ {0} /\ NanosPerSecond \in Nat \ {0}
  BY UnitsAssumption
<1>3. PICK time : time = (h * MinutesPerHour + mi) * SecondsPerMinute + s
  OBVIOUS
<1>4. /\ time \in Nat /\ time < SECS_PER_DAY
      /\ time \div (MinutesPerHour * SecondsPerMinute) = h
      /\ (time \div SecondsPerMinute) % MinutesPerHour = mi
      /\ time % SecondsPerMinute = s
  BY <1>1, <1>3, TimeOfDay
<1>5. SECS_PER_DAY \in Nat \ {0} /\ LEAPOCH \in Int
  BY <1>2, <1>4, SMT DEF SECS_PER_DAY, LEAPOCH
<1>6. PICK day \in Int : day = DayOf(y, m, d)
  <2>1. d \in Int
    BY <1>1
  <2>2. DayOf(y, m, d) \in Int
    BY <1>1, <2>1, DayType
  <2> QED
    BY <2>2
<1>7. PICK secs \in Int : secs = (LEAPOCH + day) * SECS_PER_DAY + time
  BY <1>4, <1>5
<1>8. now = secs * NanosPerSecond + ns
  <2>1. (((LEAPOCH + day) * HoursPerDay + h) * MinutesPerHour + mi) * SecondsPerMinute + s = secs
    <3>1. PICK x \in Int, b \in Int, c \in Int, e \in Int :
            x = LEAPOCH + day /\ b = HoursPerDay /\ c = MinutesPerHour /\ e = SecondsPerMinute
      BY <1>2, <1>5
    <3>2. ((x * b + h) * c + mi) * e + s = x * (b * c * e) + ((h * c + mi) * e + s)
      BY <1>1
    <3> QED
      BY <1>3, <1>7, <3>1, <3>2 DEF SECS_PER_DAY
  <2> QED
    BY <1>1, <1>6, <2>1 DEF Instant
<1>9. SinceEpoch(now) = <<secs, ns>>
  BY <1>1, <1>8, SinceIs
<1>10. Floored(secs - LEAPOCH * SECS_PER_DAY, SECS_PER_DAY) = <<day, time>>
  <2>1. PICK b \in Nat \ {0}, p \in Int : b = SECS_PER_DAY /\ p = LEAPOCH
    BY <1>5
  <2>2. secs - p * b = day * b + time
    <3>1. (p + day) * b = p * b + day * b
      OBVIOUS
    <3> QED
      BY <1>4, <1>7, <2>1, <3>1
  <2>3. Floored(day * b + time, b) = <<day, time>>
    BY <1>4, <2>1, FlooredIs
  <2> QED
    BY <2>1, <2>2, <2>3
<1>11. Civil(day) = [years |-> MarchYear(y, m), months |-> MarchMonth(m), days |-> d - 1]
  BY <1>1, <1>6, CivilOf
<1>12. PICK civil : civil = Civil(day)
  OBVIOUS
<1>13. From(now) =
         << civil.years + 2000 + (IF civil.months >= 10 THEN 1 ELSE 0),
            (IF civil.months >= 10 THEN civil.months - 12 ELSE civil.months) + 2,
            civil.days + 1, h, mi, s, ns >>
  BY <1>4, <1>9, <1>10, <1>12 DEF From
<1>14. /\ civil.years + 2000 + (IF civil.months >= 10 THEN 1 ELSE 0) = y
       /\ (IF civil.months >= 10 THEN civil.months - 12 ELSE civil.months) + 2 = m - 1
       /\ civil.days + 1 = d
  <2>1. civil.years = MarchYear(y, m) /\ civil.months = MarchMonth(m) /\ civil.days = d - 1
    BY <1>11, <1>12
  <2>2. CASE m >= 3
    BY <1>1, <2>1, <2>2 DEF MarchYear, MarchMonth
  <2>3. CASE m < 3
    BY <1>1, <2>1, <2>3 DEF MarchYear, MarchMonth
  <2> QED
    BY <1>1, <2>2, <2>3
<1> QED
  BY <1>13, <1>14

LEMMA StampOfDate == DayInv => StampIsCalendar
<1> SUFFICES ASSUME NEW y, NEW m, NEW d, NEW h, NEW mi, NEW s, NEW ns,
                    OnTime(y, m, d, h, mi, s, ns)
             PROVE  StampIsCalendar
  BY DEF DayInv
<1>1. From(now) = <<y, m - 1, d, h, mi, s, ns>>
  BY FromIs
<1>2. date = <<y, m, d, h, mi, s, ns>>
  BY DEF OnTime
<1>3. [date EXCEPT ![2] = @ - 1] = <<y, m - 1, d, h, mi, s, ns>>
  BY <1>2
<1> QED
  BY <1>1, <1>3 DEF StampIsCalendar

LEMMA InstantType ==
  ASSUME NEW day \in Int, NEW h \in Int, NEW mi \in Int, NEW s \in Int, NEW ns \in Int
  PROVE  Instant(day, h, mi, s, ns) \in Int
<1>1. PICK H \in Int, M \in Int, S \in Int, N \in Int :
        H = HoursPerDay /\ M = MinutesPerHour /\ S = SecondsPerMinute /\ N = NanosPerSecond
  BY UnitsAssumption
<1>2. (((day * H + h) * M + mi) * S + s) * N + ns \in Int
  OBVIOUS
<1> QED
  BY <1>1, <1>2 DEF Instant

\* One nanosecond later, with every carry.
LEMMA Carries ==
  ASSUME NEW day \in Int, NEW h \in Int, NEW mi \in Int, NEW s \in Int, NEW ns \in Int
  PROVE  /\ Instant(day, h, mi, s, ns + 1) = Instant(day, h, mi, s, ns) + 1
         /\ Instant(day, h, mi, s + 1, 0) = Instant(day, h, mi, s, NanosPerSecond - 1) + 1
         /\ Instant(day, h, mi + 1, 0, 0)
              = Instant(day, h, mi, SecondsPerMinute - 1, NanosPerSecond - 1) + 1
         /\ Instant(day, h + 1, 0, 0, 0)
              = Instant(day, h, MinutesPerHour - 1, SecondsPerMinute - 1, NanosPerSecond - 1) + 1
         /\ Instant(day + 1, 0, 0, 0, 0)
              = Instant(day, HoursPerDay - 1, MinutesPerHour - 1, SecondsPerMinute - 1,
                        NanosPerSecond - 1) + 1
<1>1. PICK H \in Int, M \in Int, S \in Int, N \in Int :
        H = HoursPerDay /\ M = MinutesPerHour /\ S = SecondsPerMinute /\ N = NanosPerSecond
  BY UnitsAssumption
<1>2. (((day * H + h) * M + mi) * S + s) * N + (ns + 1)
        = ((((day * H + h) * M + mi) * S + s) * N + ns) + 1
  OBVIOUS
<1>3. (((day * H + h) * M + mi) * S + (s + 1)) * N + 0
        = ((((day * H + h) * M + mi) * S + s) * N + (N - 1)) + 1
  OBVIOUS
<1>4. (((day * H + h) * M + (mi + 1)) * S + 0) * N + 0
        = ((((day * H + h) * M + mi) * S + (S - 1)) * N + (N - 1)) + 1
  OBVIOUS
<1>5. (((day * H + (h + 1)) * M + 0) * S + 0) * N + 0
        = ((((day * H + h) * M + (M - 1)) * S + (S - 1)) * N + (N - 1)) + 1
  OBVIOUS
<1>6. ((((day + 1) * H + 0) * M + 0) * S + 0) * N + 0
        = ((((day * H + (H - 1)) * M + (M - 1)) * S + (S - 1)) * N + (N - 1)) + 1
  OBVIOUS
<1> QED
  BY <1>1, <1>2, <1>3, <1>4, <1>5, <1>6 DEF Instant

\* A year's days are as many nanoseconds as they are.
LEMMA DaysLater ==
  ASSUME NEW day \in Int, NEW k \in Int
  PROVE  Instant(day + k, 0, 0, 0, 0)
           = Instant(day, 0, 0, 0, 0) + k * SECS_PER_DAY * NanosPerSecond
<1>1. PICK H \in Int, M \in Int, S \in Int, N \in Int :
        H = HoursPerDay /\ M = MinutesPerHour /\ S = SecondsPerMinute /\ N = NanosPerSecond
  BY UnitsAssumption
<1>2. ((((day + k) * H + 0) * M + 0) * S + 0) * N + 0
        = ((((day * H + 0) * M + 0) * S + 0) * N + 0) + k * (H * M * S) * N
  OBVIOUS
<1> QED
  BY <1>1, <1>2 DEF Instant, SECS_PER_DAY

LEMMA YearLater ==
  ASSUME NEW y \in Int
  PROVE  /\ NanosPerYear(y) \in Int
         /\ Instant(LEAPOCH + DayOf(y + 1, 1, 1), 0, 0, 0, 0)
              = Instant(LEAPOCH + DayOf(y, 1, 1), 0, 0, 0, 0) + NanosPerYear(y)
<1>1. PICK p \in Int : p = LEAPOCH
  BY DEF LEAPOCH
<1>2. PICK day \in Int : day = DayOf(y, 1, 1)
  BY YearFollows
<1>3. \A k \in Int : k * SECS_PER_DAY * NanosPerSecond \in Int
  <2>1. PICK H \in Int, M \in Int, S \in Int, N \in Int :
          H = HoursPerDay /\ M = MinutesPerHour /\ S = SecondsPerMinute /\ N = NanosPerSecond
    BY UnitsAssumption
  <2>2. \A k \in Int : k * (H * M * S) * N \in Int
    OBVIOUS
  <2> QED
    BY <2>1, <2>2 DEF SECS_PER_DAY
<1>4. p + day \in Int
  OBVIOUS
<1>5. CASE LeapYear(y)
  <2>1. NanosPerYear(y) = 366 * SECS_PER_DAY * NanosPerSecond
    BY <1>5 DEF NanosPerYear
  <2>2. DayOf(y + 1, 1, 1) = day + 366
    BY <1>2, <1>5, YearFollows
  <2>3. Instant((p + day) + 366, 0, 0, 0, 0)
          = Instant(p + day, 0, 0, 0, 0) + 366 * SECS_PER_DAY * NanosPerSecond
    BY <1>4, DaysLater
  <2>4. p + (day + 366) = (p + day) + 366
    OBVIOUS
  <2>5. 366 * SECS_PER_DAY * NanosPerSecond \in Int
    BY <1>3
  <2> QED
    BY <1>1, <1>2, <2>1, <2>2, <2>3, <2>4, <2>5
<1>6. CASE ~LeapYear(y)
  <2>1. NanosPerYear(y) = 365 * SECS_PER_DAY * NanosPerSecond
    BY <1>6 DEF NanosPerYear
  <2>2. DayOf(y + 1, 1, 1) = day + 365
    BY <1>2, <1>6, YearFollows
  <2>3. Instant((p + day) + 365, 0, 0, 0, 0)
          = Instant(p + day, 0, 0, 0, 0) + 365 * SECS_PER_DAY * NanosPerSecond
    BY <1>4, DaysLater
  <2>4. p + (day + 365) = (p + day) + 365
    OBVIOUS
  <2>5. 365 * SECS_PER_DAY * NanosPerSecond \in Int
    BY <1>3
  <2> QED
    BY <1>1, <1>2, <2>1, <2>2, <2>3, <2>4, <2>5
<1> QED
  BY <1>5, <1>6

\* What is left to show of a date that the clock comes to.
LEMMA OnTimeNext ==
  ASSUME NEW y \in Int, NEW m \in 1..12, NEW d \in Nat, 1 <= d, d <= MonthLength(y, m),
         NEW h \in Nat, h < HoursPerDay, NEW mi \in Nat, mi < MinutesPerHour,
         NEW s \in Nat, s < SecondsPerMinute, NEW ns \in Nat, ns < NanosPerSecond,
         date' = <<y, m, d, h, mi, s, ns>>,
         now' = Instant(LEAPOCH + DayOf(y, m, d), h, mi, s, ns)
  PROVE  DayInv'
<1>1. OnTime(y, m, d, h, mi, s, ns)'
  BY DEF OnTime
<1> QED
  BY <1>1 DEF DayInv

\* Midnight of New Year.
LEMMA AtNewYear ==
  ASSUME NEW y \in Int, date' = NewYear(y),
         now' = Instant(LEAPOCH + DayOf(y, 1, 1), 0, 0, 0, 0)
  PROVE  DayInv'
<1>1. date' = <<y, 1, 1, 0, 0, 0, 0>>
  BY DEF NewYear
<1>2. 1 <= 1 /\ 1 <= MonthLength(y, 1)
  BY DEF MonthLength
<1>3. 0 < HoursPerDay /\ 0 < MinutesPerHour /\ 0 < SecondsPerMinute /\ 0 < NanosPerSecond
  BY UnitsAssumption
<1>4. 1 \in 1..12 /\ 0 \in Nat /\ 1 \in Nat
  OBVIOUS
<1> QED
  BY <1>1, <1>2, <1>3, <1>4, OnTimeNext

\* The clock is set by a year's nanoseconds, forward or back.
LEMMA SetKeeps == DayInv /\ (SetForward \/ SetBack) => DayInv'
<1> SUFFICES ASSUME NEW y, NEW m, NEW d, NEW h, NEW mi, NEW s, NEW ns,
                    OnTime(y, m, d, h, mi, s, ns), SetForward \/ SetBack
             PROVE  DayInv'
  BY DEF DayInv
<1>1. date = <<y, m, d, h, mi, s, ns>> /\ y \in Int
      /\ now = Instant(LEAPOCH + DayOf(y, m, d), h, mi, s, ns)
  BY DEF OnTime
<1>2. date[1] = y
  BY <1>1
<1>3. date = NewYear(y)
  BY <1>2 DEF SetForward, SetBack
<1>4. m = 1 /\ d = 1 /\ h = 0 /\ mi = 0 /\ s = 0 /\ ns = 0
  <2>1. <<y, m, d, h, mi, s, ns>> = <<y, 1, 1, 0, 0, 0, 0>>
    BY <1>1, <1>3 DEF NewYear
  <2> QED
    BY <2>1
<1>5. now = Instant(LEAPOCH + DayOf(y, 1, 1), 0, 0, 0, 0)
  BY <1>1, <1>4
<1>6. CASE SetForward
  <2>1. now' = now + NanosPerYear(y) /\ date' = NewYear(y + 1)
    BY <1>2, <1>6 DEF SetForward
  <2>2. now' = Instant(LEAPOCH + DayOf(y + 1, 1, 1), 0, 0, 0, 0)
    BY <1>1, <1>5, <2>1, YearLater
  <2>3. y + 1 \in Int
    BY <1>1
  <2> QED
    BY <2>1, <2>2, <2>3, AtNewYear
<1>7. CASE SetBack
  <2>0. PICK x \in Int : x = y - 1 /\ x + 1 = y
    BY <1>1
  <2>1. now' = now - NanosPerYear(x) /\ date' = NewYear(x)
    BY <1>2, <1>7, <2>0 DEF SetBack
  <2>2. /\ NanosPerYear(x) \in Int
        /\ now = Instant(LEAPOCH + DayOf(x, 1, 1), 0, 0, 0, 0) + NanosPerYear(x)
    BY <1>5, <2>0, YearLater
  <2>3. Instant(LEAPOCH + DayOf(x, 1, 1), 0, 0, 0, 0) \in Int
    <3>1. LEAPOCH + DayOf(x, 1, 1) \in Int
      BY YearFollows DEF LEAPOCH
    <3> QED
      BY <3>1, InstantType
  <2>4. now' = Instant(LEAPOCH + DayOf(x, 1, 1), 0, 0, 0, 0)
    BY <2>1, <2>2, <2>3
  <2> QED
    BY <2>1, <2>4, AtNewYear
<1> QED
  BY <1>6, <1>7

\* 1 January 1970.
LEMMA EpochIs == LEAPOCH + DayOf(1970, 1, 1) = 0
<1>1. MarchYear(1970, 1) = -31 /\ MarchMonth(1) = 10
  BY DEF MarchYear, MarchMonth
<1>2. Parted(-31, -1, 3, 17, 1)
  BY DEF Parted
<1>3. DaysBefore(-31) = -11323
  BY <1>2, DaysOfParts, SMT
<1> QED
  BY <1>1, <1>3, BeforeIs, SMT DEF DayOf, LEAPOCH

LEMMA InitDay == CalendarInit => DayInv
<1> SUFFICES ASSUME CalendarInit PROVE DayInv
  OBVIOUS
<1>1. date = <<1970, 1, 1, 0, 0, 0, 0>> /\ now = 0
  BY DEF CalendarInit, NewYear
<1>2. 1 <= MonthLength(1970, 1)
  BY DEF MonthLength
<1>3. Instant(0, 0, 0, 0, 0) = 0
  <2>1. PICK H \in Int, M \in Int, S \in Int, N \in Int :
          H = HoursPerDay /\ M = MinutesPerHour /\ S = SecondsPerMinute /\ N = NanosPerSecond
    BY UnitsAssumption
  <2>2. (((0 * H + 0) * M + 0) * S + 0) * N + 0 = 0
    OBVIOUS
  <2> QED
    BY <2>1, <2>2 DEF Instant
<1>4. now = Instant(LEAPOCH + DayOf(1970, 1, 1), 0, 0, 0, 0)
  BY <1>1, <1>3, EpochIs
<1>5. 0 < HoursPerDay /\ 0 < MinutesPerHour /\ 0 < SecondsPerMinute /\ 0 < NanosPerSecond
  BY UnitsAssumption
<1>6. OnTime(1970, 1, 1, 0, 0, 0, 0)
  BY <1>1, <1>2, <1>4, <1>5 DEF OnTime
<1> QED
  BY <1>6 DEF DayInv

LEMMA MonthLengthType ==
  ASSUME NEW y \in Int, NEW m \in 1..12
  PROVE  MonthLength(y, m) \in Nat /\ 1 <= MonthLength(y, m)
<1>1. TableFits(y, m, MarchYear(y, m), MarchMonth(m))
  BY MonthLengths
<1>2. MonthLength(y, m) \in 28..31
  BY <1>1 DEF TableFits
<1> QED
  BY <1>2

\* The days of a month follow one another.
LEMMA DayFollows ==
  ASSUME NEW y \in Int, NEW m \in 1..12, NEW d \in Nat
  PROVE  DayOf(y, m, d) \in Int /\ DayOf(y, m, d + 1) = DayOf(y, m, d) + 1
<1>1. PICK e \in Int : e = d
  OBVIOUS
<1>2. DayOf(y, m, e) \in Int /\ DayOf(y, m, e) = DayOf(y, m, 1) + (e - 1)
  BY DayType
<1>3. PICK f \in Int : f = e + 1
  OBVIOUS
<1>4. DayOf(y, m, f) = DayOf(y, m, 1) + (f - 1)
  BY DayType
<1>5. DayOf(y, m, 1) \in Int
  <2>1. \A k \in Int : DayOf(y, m, k) \in Int
    BY DayType
  <2> QED
    BY <2>1
<1> QED
  BY <1>1, <1>2, <1>3, <1>4, <1>5

\* A nanosecond passes, and whatever fields it carries into.
LEMMA TickKeeps == DayInv /\ Tick => DayInv'
<1> SUFFICES ASSUME NEW y, NEW m, NEW d, NEW h, NEW mi, NEW s, NEW ns,
                    OnTime(y, m, d, h, mi, s, ns), Tick
             PROVE  DayInv'
  BY DEF DayInv
<1>1. /\ y \in Int /\ m \in 1..12 /\ d \in Nat /\ 1 <= d /\ d <= MonthLength(y, m)
      /\ h \in Nat /\ h < HoursPerDay /\ mi \in Nat /\ mi < MinutesPerHour
      /\ s \in Nat /\ s < SecondsPerMinute /\ ns \in Nat /\ ns < NanosPerSecond
  BY DEF OnTime
<1>2. date = <<y, m, d, h, mi, s, ns>> /\ now = Instant(LEAPOCH + DayOf(y, m, d), h, mi, s, ns)
  BY DEF OnTime
<1>3. /\ date[1] = y /\ date[2] = m /\ date[3] = d /\ date[4] = h
      /\ date[5] = mi /\ date[6] = s /\ date[7] = ns
  BY <1>2
<1>4. now' = now + 1 /\ date' = NextDate(date)
  BY DEF Tick
<1>5. /\ 0 < HoursPerDay /\ 0 < MinutesPerHour /\ 0 < SecondsPerMinute /\ 0 < NanosPerSecond
      /\ HoursPerDay \in Nat /\ MinutesPerHour \in Nat
      /\ SecondsPerMinute \in Nat /\ NanosPerSecond \in Nat
  BY UnitsAssumption
<1>6. DayOf(y, m, d) \in Int
  BY <1>1, DayFollows
<1>7. PICK day \in Int : day = LEAPOCH + DayOf(y, m, d)
  BY <1>6 DEF LEAPOCH
<1>8. now = Instant(day, h, mi, s, ns)
  BY <1>2, <1>7
<1>9. h \in Int /\ mi \in Int /\ s \in Int /\ ns \in Int /\ 0 \in Nat /\ 1 \in Nat
  BY <1>1
<1>10. CASE ns < NanosPerSecond - 1
  <2>1. NextDate(date) = [date EXCEPT ![7] = @ + 1]
    BY <1>3, <1>10 DEF NextDate
  <2>2. date' = <<y, m, d, h, mi, s, ns + 1>>
    BY <1>2, <1>4, <2>1
  <2>3. now' = Instant(day, h, mi, s, ns + 1)
    BY <1>4, <1>8, <1>9, Carries
  <2>4. ns + 1 \in Nat /\ ns + 1 < NanosPerSecond
    BY <1>1, <1>5, <1>10
  <2> QED
    BY <1>1, <1>7, <2>2, <2>3, <2>4, OnTimeNext
<1>11. CASE ~(ns < NanosPerSecond - 1) /\ s < SecondsPerMinute - 1
  <2>0. ns = NanosPerSecond - 1
    BY <1>1, <1>5, <1>11
  <2>1. NextDate(date) = [date EXCEPT ![6] = @ + 1, ![7] = 0]
    BY <1>3, <1>11 DEF NextDate
  <2>2. date' = <<y, m, d, h, mi, s + 1, 0>>
    BY <1>2, <1>4, <2>1
  <2>3. now' = Instant(day, h, mi, s + 1, 0)
    BY <1>4, <1>8, <1>9, <2>0, Carries
  <2>4. s + 1 \in Nat /\ s + 1 < SecondsPerMinute
    BY <1>1, <1>5, <1>11
  <2> QED
    BY <1>1, <1>5, <1>7, <1>9, <2>2, <2>3, <2>4, OnTimeNext
<1>12. CASE /\ ~(ns < NanosPerSecond - 1) /\ ~(s < SecondsPerMinute - 1)
            /\ mi < MinutesPerHour - 1
  <2>0. ns = NanosPerSecond - 1 /\ s = SecondsPerMinute - 1
    BY <1>1, <1>5, <1>12
  <2>1. NextDate(date) = [date EXCEPT ![5] = @ + 1, ![6] = 0, ![7] = 0]
    BY <1>3, <1>12 DEF NextDate
  <2>2. date' = <<y, m, d, h, mi + 1, 0, 0>>
    BY <1>2, <1>4, <2>1
  <2>3. now' = Instant(day, h, mi + 1, 0, 0)
    BY <1>4, <1>8, <1>9, <2>0, Carries
  <2>4. mi + 1 \in Nat /\ mi + 1 < MinutesPerHour
    BY <1>1, <1>5, <1>12
  <2> QED
    BY <1>1, <1>5, <1>7, <1>9, <2>2, <2>3, <2>4, OnTimeNext
<1>13. CASE /\ ~(ns < NanosPerSecond - 1) /\ ~(s < SecondsPerMinute - 1)
            /\ ~(mi < MinutesPerHour - 1) /\ h < HoursPerDay - 1
  <2>0. ns = NanosPerSecond - 1 /\ s = SecondsPerMinute - 1 /\ mi = MinutesPerHour - 1
    BY <1>1, <1>5, <1>13
  <2>1. NextDate(date) = <<date[1], date[2], date[3], date[4] + 1, 0, 0, 0>>
    BY <1>3, <1>13 DEF NextDate
  <2>2. date' = <<y, m, d, h + 1, 0, 0, 0>>
    BY <1>3, <1>4, <2>1
  <2>3. now' = Instant(day, h + 1, 0, 0, 0)
    BY <1>4, <1>8, <1>9, <2>0, Carries
  <2>4. h + 1 \in Nat /\ h + 1 < HoursPerDay
    BY <1>1, <1>5, <1>13
  <2> QED
    BY <1>1, <1>5, <1>7, <1>9, <2>2, <2>3, <2>4, OnTimeNext
<1>14. CASE /\ ~(ns < NanosPerSecond - 1) /\ ~(s < SecondsPerMinute - 1)
            /\ ~(mi < MinutesPerHour - 1) /\ ~(h < HoursPerDay - 1)
  <2>0. /\ ns = NanosPerSecond - 1 /\ s = SecondsPerMinute - 1
        /\ mi = MinutesPerHour - 1 /\ h = HoursPerDay - 1
    BY <1>1, <1>5, <1>14
  <2>1. now' = Instant(day + 1, 0, 0, 0, 0)
    BY <1>4, <1>8, <1>9, <2>0, Carries
  <2>2. MonthLength(y, m) \in Nat
    BY <1>1, MonthLengthType
  <2>3. CASE d < MonthLength(y, m)
    <3>1. NextDate(date) = <<date[1], date[2], date[3] + 1, 0, 0, 0, 0>>
      BY <1>3, <1>14, <2>3 DEF NextDate
    <3>2. date' = <<y, m, d + 1, 0, 0, 0, 0>>
      BY <1>3, <1>4, <3>1
    <3>3. LEAPOCH + DayOf(y, m, d + 1) = day + 1
      <4>1. DayOf(y, m, d + 1) = DayOf(y, m, d) + 1
        BY <1>1, DayFollows
      <4> QED
        BY <1>6, <1>7, <4>1 DEF LEAPOCH
    <3>4. d + 1 \in Nat /\ 1 <= d + 1 /\ d + 1 <= MonthLength(y, m)
      BY <1>1, <2>2, <2>3
    <3> QED
      BY <1>1, <1>5, <1>9, <2>1, <3>2, <3>3, <3>4, OnTimeNext
  <2>4. CASE ~(d < MonthLength(y, m)) /\ m < 12
    <3>1. NextDate(date) = <<date[1], date[2] + 1, 1, 0, 0, 0, 0>>
      BY <1>3, <1>14, <2>4 DEF NextDate
    <3>2. date' = <<y, m + 1, 1, 0, 0, 0, 0>>
      BY <1>3, <1>4, <3>1
    <3>3. LEAPOCH + DayOf(y, m + 1, 1) = day + 1
      <4>1. d = MonthLength(y, m)
        BY <1>1, <2>2, <2>4
      <4>2. DayOf(y, m + 1, 1) = DayOf(y, m, d) + 1
        BY <1>1, <2>4, <4>1, MonthFollows
      <4> QED
        BY <1>6, <1>7, <4>2 DEF LEAPOCH
    <3>4. m + 1 \in 1..12 /\ 1 <= 1
      BY <1>1, <2>4
    <3>5. 1 <= MonthLength(y, m + 1)
      BY <1>1, <3>4, MonthLengthType
    <3> QED
      BY <1>1, <1>5, <1>9, <2>1, <3>2, <3>3, <3>4, <3>5, OnTimeNext
  <2>5. CASE ~(d < MonthLength(y, m)) /\ ~(m < 12)
    <3>1. NextDate(date) = NewYear(date[1] + 1)
      BY <1>3, <1>14, <2>5 DEF NextDate
    <3>2. date' = NewYear(y + 1) /\ y + 1 \in Int
      BY <1>1, <1>3, <1>4, <3>1
    <3>3. LEAPOCH + DayOf(y + 1, 1, 1) = day + 1
      <4>1. d = MonthLength(y, m) /\ m = 12
        BY <1>1, <2>2, <2>5
      <4>2. DayOf(y + 1, 1, 1) = DayOf(y, m, d) + 1
        BY <1>1, <4>1, MonthFollows
      <4> QED
        BY <1>6, <1>7, <4>2 DEF LEAPOCH
    <3> QED
      BY <2>1, <3>2, <3>3, AtNewYear
  <2> QED
    BY <2>3, <2>4, <2>5
<1> QED
  BY <1>10, <1>11, <1>12, <1>13, <1>14

\* What a log line's stamp says is the calendar's date, in every year and on both
\* sides of 1970, whatever the clock was set to.
THEOREM StampCorrect == Spec => []StampIsCalendar
<1>1. TerminalInit => DayInv
  BY InitDay DEF TerminalInit
<1>2. DayInv /\ [Next]_vars => DayInv'
  <2>1. ASSUME DayInv, CalendarNext PROVE DayInv'
    BY <2>1, SetKeeps, TickKeeps DEF CalendarNext
  <2>2. ASSUME DayInv, UNCHANGED calendarVars PROVE DayInv'
    BY <2>2 DEF DayInv, OnTime, calendarVars
  <2> QED
    BY <2>1, <2>2 DEF Next, Refuse, Run, vars
<1> QED
  BY <1>1, <1>2, StampOfDate, PTL DEF Spec
=============================================================================
