----------------------------- MODULE ProseProofs -----------------------------
(***************************************************************************)
(* What the reader makes of a text and the generator of its words, for     *)
(* every text.  Sequences that recursion builds are reasoned about by      *)
(* induction over the set of numbers, or of sequences, that have the       *)
(* property to be shown.                                                   *)
(***************************************************************************)
EXTENDS Prose, SequenceTheorems, WellFoundedInduction, TLAPS

-----------------------------------------------------------------------------
(* Induction, and flattened sequences.                                     *)

\* Induction from 0 to n, over the set of the numbers that have the property.
LEMMA InductionTo ==
  ASSUME NEW n \in Nat, NEW T, 0 \in T, \A k \in 0..(n-1) : k \in T => k + 1 \in T
  PROVE  0..n \subseteq T
<1> DEFINE Rest == (0..n) \ T
<1>1. ASSUME Rest # {} PROVE FALSE
  <2> HIDE DEF Rest
  <2>1. Rest \subseteq Nat
    BY DEF Rest
  <2>2. PICK x \in Rest : \A y \in Rest : ~ (<<y, x>> \in OpToRel(<, Nat))
    BY <1>1, <2>1, NatLessThanWellFounded, WFMin
  <2>3. \A y \in Rest : ~(y < x)
    BY <2>1, <2>2 DEF OpToRel
  <2>4. x \in 1..n
    BY DEF Rest
  <2>5. x - 1 \in T /\ x - 1 \in 0..(n-1)
    BY <2>3, <2>4 DEF Rest
  <2> QED
    BY <2>4, <2>5 DEF Rest
<1> QED
  BY <1>1

\* FlattenSeq adds one sequence after the other.
Flattens(g, ss, k) == g = [i \in 1..k |-> IF i = 1 THEN ss[i] ELSE g[i-1] \o ss[i]]

LEMMA FlattensAt ==
  ASSUME NEW g, NEW ss, NEW k \in Nat, Flattens(g, ss, k), NEW i \in 1..k
  PROVE  g[i] = IF i = 1 THEN ss[i] ELSE g[i-1] \o ss[i]
<1> DEFINE F == [j \in 1..k |-> IF j = 1 THEN ss[j] ELSE g[j-1] \o ss[j]]
<1>1. g = F
  BY Zenon DEF Flattens
<1>2. F[i] = IF i = 1 THEN ss[i] ELSE g[i-1] \o ss[i]
  OBVIOUS
<1> HIDE DEF F
<1>3. g[i] = F[i]
  BY <1>1
<1> QED
  BY <1>2, <1>3, Zenon

\* The function that it is computed by exists.
LEMMA FlattensExists ==
  ASSUME NEW S, NEW n \in Nat, NEW ss \in [1..n -> Seq(S)]
  PROVE  \E g : Flattens(g, ss, n)
<1> DEFINE T == {k \in 0..n : \E g : Flattens(g, ss, k)}
<1>1. 0 \in T
  <2> DEFINE e == [i \in 1..0 |-> <<>>]
  <2>1. Flattens(e, ss, 0)
    BY DEF Flattens
  <2> QED
    BY <2>1
<1>2. ASSUME NEW k \in 0..(n-1), k \in T PROVE k + 1 \in T
  <2>1. PICK h : Flattens(h, ss, k)
    BY <1>2
  <2> DEFINE g == [i \in 1..(k+1) |->
                     IF i <= k THEN h[i] ELSE IF i = 1 THEN ss[i] ELSE h[k] \o ss[i]]
  <2>2. ASSUME NEW i \in 1..(k+1) PROVE g[i] = IF i = 1 THEN ss[i] ELSE g[i-1] \o ss[i]
    <3>1. CASE i <= k
      <4>1. g[i] = h[i] /\ (i # 1 => g[i-1] = h[i-1])
        BY <3>1
      <4>2. h[i] = IF i = 1 THEN ss[i] ELSE h[i-1] \o ss[i]
        BY <2>1, <3>1, FlattensAt
      <4> QED
        BY <4>1, <4>2
    <3>2. CASE i = k + 1
      BY <3>2
    <3> QED
      BY <3>1, <3>2
  <2>3. g = [i \in 1..(k+1) |-> g[i]]
    OBVIOUS
  <2> HIDE DEF g
  <2>4. Flattens(g, ss, k + 1)
    BY <2>2, <2>3 DEF Flattens
  <2> QED
    BY <2>4
<1>3. 0..n \subseteq T
  <2> HIDE DEF T
  <2> QED
    BY <1>1, <1>2, InductionTo
<1> QED
  BY <1>3

\* What is flattened is a sequence of the same things.
LEMMA FlattenType ==
  ASSUME NEW S, NEW n \in Nat, NEW ss \in [1..n -> Seq(S)]
  PROVE  FlattenSeq(ss) \in Seq(S)
<1>1. Len(ss) = n
  OBVIOUS
<1>2. CASE n = 0
  <2>1. ss = <<>>
    BY <1>2
  <2> QED
    BY <1>1, <1>2, <2>1 DEF FlattenSeq
<1>3. CASE n # 0
  <2> DEFINE f == CHOOSE g : Flattens(g, ss, n)
             T == {k \in 0..n : k = 0 \/ f[k] \in Seq(S)}
  <2>1. FlattenSeq(ss) = f[n]
    BY <1>1, <1>3, Zenon DEF FlattenSeq, Flattens
  <2>2. Flattens(f, ss, n)
    BY FlattensExists, Zenon
  <2> HIDE DEF f
  <2>3. 0 \in T
    OBVIOUS
  <2>4. ASSUME NEW k \in 0..(n-1), k \in T PROVE k + 1 \in T
    <3>1. f[k+1] = IF k + 1 = 1 THEN ss[k+1] ELSE f[(k+1)-1] \o ss[k+1]
      BY <2>2, FlattensAt
    <3>2. (k+1)-1 = k /\ ss[k+1] \in Seq(S)
      OBVIOUS
    <3>3. k # 0 => f[k] \in Seq(S)
      BY <2>4
    <3>4. f[k+1] \in Seq(S)
      BY <3>1, <3>2, <3>3, ConcatProperties
    <3> QED
      BY <3>4
  <2>5. 0..n \subseteq T
    <3> HIDE DEF T
    <3> QED
      BY <2>3, <2>4, InductionTo
  <2> QED
    BY <1>3, <2>1, <2>5
<1> QED
  BY <1>2, <1>3

LEMMA Initials ==
  ASSUME NEW S, NEW s \in Seq(S)
  PROVE  /\ SubSeq(s, 1, 0) = <<>> /\ SubSeq(s, 1, Len(s)) = s
         /\ \A k \in 0..Len(s) : SubSeq(s, 1, k) \in Seq(S) /\ Len(SubSeq(s, 1, k)) = k
         /\ \A k \in 0..(Len(s)-1) : SubSeq(s, 1, k+1) = Append(SubSeq(s, 1, k), s[k+1])
<1>1. Len(s) \in Nat /\ \A i \in 1..Len(s) : s[i] \in S
  OBVIOUS
<1>2. SubSeq(s, 1, 0) = <<>>
  BY SubSeqEmpty
<1>3. ASSUME NEW k \in 0..Len(s)
      PROVE  SubSeq(s, 1, k) \in Seq(S) /\ Len(SubSeq(s, 1, k)) = k
  <2>1. \A i \in 1..k : s[i] \in S
    BY <1>1
  <2> QED
    BY <1>1, <2>1, SubSeqProperties
<1>4. ASSUME NEW k \in 0..(Len(s)-1)
      PROVE  SubSeq(s, 1, k+1) = Append(SubSeq(s, 1, k), s[k+1])
  <2>1. 1 \in 1..Len(s) /\ k + 1 \in 1..Len(s) /\ (k+1)-1 = k /\ k \in 0..Len(s)
    BY <1>1
  <2>2. SubSeq(s, 1, k+1) = SubSeq(s, 1, (k+1)-1) \o <<s[k+1]>>
    BY <2>1, SubSeqRecursiveSecond
  <2>3. SubSeq(s, 1, k) \in Seq(S) /\ s[k+1] \in S
    BY <1>1, <1>3, <2>1
  <2>4. Append(SubSeq(s, 1, k), s[k+1]) = SubSeq(s, 1, k) \o <<s[k+1]>>
    BY <2>3, AppendIsConcat
  <2> QED
    BY <2>1, <2>2, <2>4
<1>5. SubSeq(s, 1, Len(s)) = s
  BY SubSeqFull
<1> QED
  BY <1>2, <1>3, <1>4, <1>5

\* Induction over sequences: the empty one, and one more element.
LEMMA SequenceInduction ==
  ASSUME NEW S, NEW T, <<>> \in T, \A s \in Seq(S) : \A c \in S : s \in T => Append(s, c) \in T
  PROVE  Seq(S) \subseteq T
<1> SUFFICES ASSUME NEW s \in Seq(S) PROVE s \in T
  OBVIOUS
<1> DEFINE K == {k \in 0..Len(s) : SubSeq(s, 1, k) \in T}
<1>1. Len(s) \in Nat /\ 0 \in K
  <2>1. SubSeq(s, 1, 0) = <<>>
    BY Initials
  <2>2. SubSeq(s, 1, 0) \in T
    BY <2>1, Zenon
  <2> QED
    BY <2>2
<1>2. ASSUME NEW k \in 0..(Len(s)-1), k \in K PROVE k + 1 \in K
  <2>1. /\ SubSeq(s, 1, k) \in Seq(S) /\ s[k+1] \in S /\ SubSeq(s, 1, k) \in T
        /\ k + 1 \in 0..Len(s)
    BY <1>1, <1>2, Initials
  <2>2. Append(SubSeq(s, 1, k), s[k+1]) \in T
    BY <2>1
  <2>3. SubSeq(s, 1, k+1) \in T
    BY <2>2, Initials
  <2> QED
    BY <2>1, <2>3
<1>3. Len(s) \in K
  <2> DEFINE n == Len(s)
  <2> HIDE DEF K, n
  <2>1. 0..n \subseteq K
    BY <1>1, <1>2, InductionTo DEF n
  <2> QED
    BY <1>1, <2>1 DEF n
<1>4. SubSeq(s, 1, Len(s)) \in T
  BY <1>3
<1> QED
  BY <1>4, SubSeqFull

\* FlattenSeq is the last value of the function it is computed by.
LEMMA FlattenLast ==
  ASSUME NEW S, NEW n \in Nat \ {0}, NEW ss \in [1..n -> Seq(S)]
  PROVE  \E g : Flattens(g, ss, n) /\ FlattenSeq(ss) = g[n]
<1> DEFINE f == CHOOSE g : Flattens(g, ss, n)
<1>1. Len(ss) = n
  OBVIOUS
<1>2. FlattenSeq(ss) = f[n]
  BY <1>1, Zenon DEF FlattenSeq, Flattens
<1>3. Flattens(f, ss, n)
  BY FlattensExists, Zenon
<1> QED
  BY <1>2, <1>3

LEMMA FlattenEmpty == FlattenSeq(<<>>) = <<>>
BY DEF FlattenSeq

LEMMA FlattenAppend ==
  ASSUME NEW S, NEW ss \in Seq(Seq(S)), NEW x \in Seq(S)
  PROVE  FlattenSeq(Append(ss, x)) = FlattenSeq(ss) \o x
<1> DEFINE n  == Len(ss)
           tt == Append(ss, x)
<1>1. /\ n \in Nat /\ ss \in [1..n -> Seq(S)] /\ tt \in [1..(n+1) -> Seq(S)]
      /\ \A i \in 1..n : ss[i] = tt[i]
      /\ tt[n+1] = x
  <2>1. n \in Nat /\ ss \in [1..n -> Seq(S)]
    BY LenProperties
  <2>2. /\ tt \in Seq(Seq(S)) /\ Len(tt) = n + 1 /\ tt[n+1] = x
        /\ \A i \in 1..n : tt[i] = ss[i]
    BY AppendProperties
  <2>3. tt \in [1..(n+1) -> Seq(S)]
    <3> HIDE DEF tt
    <3> QED
      BY <2>1, <2>2, LenProperties
  <2> QED
    BY <2>1, <2>2, <2>3
<1> HIDE DEF n, tt
<1>a. n + 1 \in Nat \ {0} /\ tt \in [1..(n+1) -> Seq(S)]
  BY <1>1
<1>2. PICK h : Flattens(h, tt, n+1) /\ FlattenSeq(tt) = h[n+1]
  BY <1>a, FlattenLast, Zenon
<1>3. h[n+1] = IF n + 1 = 1 THEN tt[n+1] ELSE h[(n+1)-1] \o tt[n+1]
  BY <1>1, <1>2, FlattensAt
<1>4. CASE n = 0
  <2>1. ss = <<>> /\ FlattenSeq(ss) = <<>>
    BY <1>4, FlattenEmpty DEF n
  <2>2. FlattenSeq(tt) = x
    BY <1>1, <1>2, <1>3, <1>4
  <2>3. <<>> \o x = x
    OBVIOUS
  <2> QED
    BY <2>1, <2>2, <2>3 DEF tt
<1>5. CASE n # 0
  <2>1. PICK g : Flattens(g, ss, n) /\ FlattenSeq(ss) = g[n]
    BY <1>1, <1>5, FlattenLast
  <2>2. g[n] = h[n]
    <3> DEFINE T == {k \in 0..n : k = 0 \/ g[k] = h[k]}
    <3>1. 0 \in T
      BY <1>1
    <3>2. ASSUME NEW k \in 0..(n-1), k \in T PROVE k + 1 \in T
      <4>1. k + 1 \in 1..n /\ k + 1 \in 1..(n+1) /\ n + 1 \in Nat /\ (k+1)-1 = k
        BY <1>1
      <4>2. g[k+1] = IF k + 1 = 1 THEN ss[k+1] ELSE g[(k+1)-1] \o ss[k+1]
        BY <1>1, <2>1, <4>1, FlattensAt
      <4>3. h[k+1] = IF k + 1 = 1 THEN tt[k+1] ELSE h[(k+1)-1] \o tt[k+1]
        BY <1>2, <4>1, FlattensAt
      <4>4. ss[k+1] = tt[k+1] /\ (k # 0 => g[k] = h[k])
        BY <1>1, <3>2, <4>1
      <4>5. g[k+1] = h[k+1]
        BY <4>1, <4>2, <4>3, <4>4
      <4> QED
        BY <4>1, <4>5
    <3>3. 0..n \subseteq T
      <4> HIDE DEF T
      <4> QED
        BY <1>1, <3>1, <3>2, InductionTo
    <3> QED
      BY <1>1, <1>5, <3>3
  <2>3. FlattenSeq(tt) = h[n] \o x
    BY <1>1, <1>2, <1>3, <1>5
  <2> QED
    BY <2>1, <2>2, <2>3 DEF tt
<1> QED
  BY <1>4, <1>5

\* Only keeps of a character itself or nothing.
One(set, c) == IF c \in set THEN <<c>> ELSE <<>>

Ones(set, s) == [i \in DOMAIN s |-> One(set, s[i])]

LEMMA OnesType ==
  ASSUME NEW S, NEW set, NEW s \in Seq(S)
  PROVE  Ones(set, s) \in Seq(Seq(S)) /\ Only(set, s) = FlattenSeq(Ones(set, s))
<1>1. Len(s) \in Nat /\ DOMAIN s = 1..Len(s) /\ \A i \in 1..Len(s) : s[i] \in S
  OBVIOUS
<1>2. \A i \in 1..Len(s) : One(set, s[i]) \in Seq(S)
  BY <1>1 DEF One
<1>3. Ones(set, s) \in [1..Len(s) -> Seq(S)]
  BY <1>1, <1>2 DEF Ones
<1>4. Ones(set, s) \in Seq(Seq(S))
  <2> HIDE DEF Ones
  <2> QED
    BY <1>1, <1>3
<1>5. Only(set, s) = FlattenSeq(Ones(set, s))
  BY Zenon DEF Only, Ones, One
<1> QED
  BY <1>4, <1>5

LEMMA OnlyEmpty == ASSUME NEW set PROVE Only(set, <<>>) = <<>>
<1>1. Ones(set, <<>>) = <<>>
  BY DEF Ones
<1> QED
  BY <1>1, FlattenEmpty, Zenon DEF Only, Ones, One

LEMMA OnlyType ==
  ASSUME NEW S, NEW set, NEW s \in Seq(S)
  PROVE  Only(set, s) \in Seq(S)
<1>1. Ones(set, s) \in Seq(Seq(S)) /\ Only(set, s) = FlattenSeq(Ones(set, s))
  BY OnesType
<1>2. Len(Ones(set, s)) \in Nat /\ Ones(set, s) \in [1..Len(Ones(set, s)) -> Seq(S)]
  BY <1>1, LenProperties
<1> QED
  BY <1>1, <1>2, FlattenType

LEMMA OnlyKept ==
  ASSUME NEW S, NEW set, NEW s \in Seq(S)
  PROVE  Only(set, s) \in Seq(set)
<1>1. Len(s) \in Nat /\ DOMAIN s = 1..Len(s)
  OBVIOUS
<1>2. \A c : One(set, c) \in Seq(set)
  BY DEF One
<1>3. Ones(set, s) \in [1..Len(s) -> Seq(set)]
  BY <1>1, <1>2 DEF Ones
<1>4. FlattenSeq(Ones(set, s)) \in Seq(set)
  <2> HIDE DEF Ones
  <2> QED
    BY <1>1, <1>3, FlattenType
<1> QED
  BY <1>4, Zenon DEF Only, Ones, One

LEMMA OnlyAppend ==
  ASSUME NEW S, NEW set, NEW s \in Seq(S), NEW c \in S
  PROVE  Only(set, Append(s, c)) = Only(set, s) \o One(set, c)
<1> DEFINE t == Append(s, c)
<1>1. t \in Seq(S) /\ Len(t) = Len(s) + 1 /\ t[Len(s) + 1] = c /\ \A i \in 1..Len(s) : t[i] = s[i]
  BY AppendProperties
<1>2. One(set, c) \in Seq(S)
  BY DEF One
<1> HIDE DEF t
<1>3. Ones(set, t) = Append(Ones(set, s), One(set, c))
  <2> DEFINE a == Ones(set, t)
             b == Append(Ones(set, s), One(set, c))
  <2>1. Len(s) \in Nat /\ DOMAIN s = 1..Len(s) /\ DOMAIN t = 1..(Len(s)+1)
    BY <1>1
  <2>2. /\ Len(Ones(set, s)) = Len(s)
        /\ \A i \in 1..Len(s) : Ones(set, s)[i] = One(set, s[i])
    BY <2>1 DEF Ones
  <2>3. /\ Len(a) = Len(s) + 1
        /\ \A i \in 1..(Len(s)+1) : a[i] = One(set, t[i])
    BY <2>1 DEF Ones
  <2>4. a \in Seq(Seq(S)) /\ Ones(set, s) \in Seq(Seq(S))
    BY <1>1, OnesType
  <2>5. /\ b \in Seq(Seq(S)) /\ Len(b) = Len(s) + 1 /\ b[Len(s)+1] = One(set, c)
        /\ \A i \in 1..Len(s) : b[i] = One(set, s[i])
    BY <1>2, <2>2, <2>4, AppendProperties
  <2> HIDE DEF a, b
  <2>6. \A i \in 1..(Len(s)+1) : a[i] = b[i]
    <3> TAKE i \in 1..(Len(s)+1)
    <3>1. i = Len(s) + 1 \/ i \in 1..Len(s)
      BY <2>1
    <3>2. i \in 1..Len(s) => b[i] = One(set, s[i]) /\ t[i] = s[i]
      BY <1>1, <2>5
    <3>3. a[i] = One(set, t[i])
      BY <2>3
    <3> QED
      BY <1>1, <2>5, <3>1, <3>2, <3>3
  <2>7. a = b
    BY <2>3, <2>4, <2>5, <2>6, SeqEqual
  <2> QED
    BY <2>7 DEF a, b
<1>4. /\ Only(set, t) = FlattenSeq(Ones(set, t)) /\ Only(set, s) = FlattenSeq(Ones(set, s))
      /\ Ones(set, s) \in Seq(Seq(S))
  BY <1>1, OnesType
<1>5. FlattenSeq(Append(Ones(set, s), One(set, c))) = FlattenSeq(Ones(set, s)) \o One(set, c)
  BY <1>2, <1>4, FlattenAppend
<1> QED
  BY <1>3, <1>4, <1>5 DEF t

\* What is kept of two sequences one behind the other.
LEMMA OnlyConcat ==
  ASSUME NEW S, NEW set, NEW s \in Seq(S), NEW u \in Seq(S)
  PROVE  Only(set, s \o u) = Only(set, s) \o Only(set, u)
<1> DEFINE T == {t \in Seq(S) : Only(set, s \o t) = Only(set, s) \o Only(set, t)}
<1>1. <<>> \in T
  <2>1. s \o <<>> = s /\ Only(set, s) \o <<>> = Only(set, s) /\ <<>> \in Seq(S)
    BY OnlyType, ConcatEmptySeq, EmptySeq
  <2> QED
    BY <2>1, OnlyEmpty
<1>2. ASSUME NEW t \in Seq(S), NEW c \in S, t \in T PROVE Append(t, c) \in T
  <2>1. /\ s \o t \in Seq(S) /\ Append(t, c) \in Seq(S)
        /\ s \o Append(t, c) = Append(s \o t, c)
    OBVIOUS
  <2>2. Only(set, s \o Append(t, c)) = Only(set, s \o t) \o One(set, c)
    BY <2>1, OnlyAppend
  <2>3. /\ Only(set, s \o t) = Only(set, s) \o Only(set, t)
        /\ Only(set, Append(t, c)) = Only(set, t) \o One(set, c)
    BY <1>2, OnlyAppend
  <2>4. /\ Only(set, s) \in Seq(S) /\ Only(set, t) \in Seq(S) /\ One(set, c) \in Seq(S)
    BY OnlyType DEF One
  <2>5. (Only(set, s) \o Only(set, t)) \o One(set, c) = Only(set, s) \o (Only(set, t) \o One(set, c))
    <3> DEFINE p == Only(set, s)
               q == Only(set, t)
               r == One(set, c)
               Assoc(a, b, d) == (a \o b) \o d = a \o (b \o d)
    <3>1. \A a, b, d \in Seq(S) : Assoc(a, b, d)
      BY ConcatAssociative, SMTT(30)
    <3> HIDE DEF Assoc
    <3>2. Assoc(p, q, r)
      BY <2>4, <3>1, Zenon
    <3> QED
      BY <3>2, Zenon DEF Assoc
  <2>6. Only(set, s \o Append(t, c)) = Only(set, s) \o Only(set, Append(t, c))
    BY <2>2, <2>3, <2>5, Zenon
  <2> QED
    BY <2>1, <2>6
<1>3. Seq(S) \subseteq T
  <2> HIDE DEF T
  <2> QED
    BY <1>1, <1>2, SequenceInduction
<1> QED
  BY <1>3

\* All is kept, or nothing is.
LEMMA OnlyAll ==
  ASSUME NEW set, NEW s \in Seq(set)
  PROVE  Only(set, s) = s
<1> DEFINE T == {t \in Seq(set) : Only(set, t) = t}
<1>1. <<>> \in T
  BY OnlyEmpty, EmptySeq
<1>2. ASSUME NEW t \in Seq(set), NEW c \in set, t \in T PROVE Append(t, c) \in T
  <2>1. Only(set, Append(t, c)) = t \o <<c>>
    BY <1>2, OnlyAppend DEF One
  <2>2. Append(t, c) = t \o <<c>> /\ Append(t, c) \in Seq(set)
    BY AppendIsConcat, AppendProperties
  <2> QED
    BY <2>1, <2>2
<1>3. Seq(set) \subseteq T
  <2> HIDE DEF T
  <2> QED
    BY <1>1, <1>2, SequenceInduction
<1> QED
  BY <1>3

LEMMA OnlyNone ==
  ASSUME NEW S, NEW set, S \cap set = {}, NEW s \in Seq(S)
  PROVE  Only(set, s) = <<>>
<1> DEFINE T == {t \in Seq(S) : Only(set, t) = <<>>}
<1>1. <<>> \in T
  BY OnlyEmpty, EmptySeq
<1>2. ASSUME NEW t \in Seq(S), NEW c \in S, t \in T PROVE Append(t, c) \in T
  <2>0. One(set, c) = <<>>
    BY DEF One
  <2>1. Only(set, Append(t, c)) = <<>> \o <<>>
    BY <1>2, <2>0, OnlyAppend
  <2>2. <<>> \o <<>> = <<>> /\ Append(t, c) \in Seq(S)
    BY AppendProperties
  <2> QED
    BY <2>1, <2>2
<1>3. Seq(S) \subseteq T
  <2> HIDE DEF T
  <2> QED
    BY <1>1, <1>2, SequenceInduction
<1> QED
  BY <1>3

-----------------------------------------------------------------------------
(* Case.                                                                   *)

\* Lowering a capital makes a small letter of it, and nothing of anything else.
LEMMA SmallFacts ==
  ASSUME NEW c \in AllChars
  PROVE  /\ Small(c) \in AllChars /\ Small(c) \notin Capitals /\ Small(Small(c)) = Small(c)
         /\ c \in AllLetters <=> Small(c) \in AllLetters
         /\ c \notin Capitals => Small(c) = c
         /\ Small(c) = "space" <=> c = "space"
         /\ Small(c) = "." <=> c = "."
         /\ Small(c) = "rdquo" <=> c = "rdquo"
         /\ Small(c) = ")" <=> c = ")"
         /\ Small(c) \in Splits <=> c \in Splits
<1>1. CASE c = "A"
  BY <1>1 DEF Small, AllChars, AllLetters, Capitals, Splits, JOIN_BEFORE, JOIN_AFTER
<1>2. CASE c = "Eacute"
  BY <1>2 DEF Small, AllChars, AllLetters, Capitals, Splits, JOIN_BEFORE, JOIN_AFTER
<1>3. CASE c \notin Capitals
  BY <1>3 DEF Small, Capitals
<1> QED
  BY <1>1, <1>2, <1>3 DEF Capitals

\* No letter is white space, or punctuation.
LEMMA LettersApart ==
  ASSUME NEW c \in AllLetters
  PROVE  c \in AllChars /\ c # "space" /\ c \notin Splits /\ c \notin Ascii
         /\ c \notin {".", "rdquo", ")"}
BY DEF AllChars, AllLetters, Capitals, Splits, JOIN_BEFORE, JOIN_AFTER, Ascii

LEMMA LoweredType ==
  ASSUME NEW s \in Seq(AllChars)
  PROVE  /\ Lowered(s) \in Seq(AllChars) /\ Len(Lowered(s)) = Len(s)
         /\ \A i \in 1..Len(s) : Lowered(s)[i] = Small(s[i])
<1>1. Len(s) \in Nat /\ DOMAIN s = 1..Len(s) /\ \A i \in 1..Len(s) : s[i] \in AllChars
  OBVIOUS
<1> DEFINE l == [i \in 1..Len(s) |-> Small(s[i])]
<1>2. l \in [1..Len(s) -> AllChars]
  <2>1. \A i \in 1..Len(s) : Small(s[i]) \in AllChars
    BY <1>1, SmallFacts
  <2> QED
    BY <2>1
<1>3. Lowered(s) = l
  BY <1>1 DEF Lowered
<1>4. \A i \in 1..Len(s) : l[i] = Small(s[i])
  OBVIOUS
<1> HIDE DEF l
<1>5. l \in Seq(AllChars) /\ Len(l) = Len(s)
  BY <1>1, <1>2
<1> QED
  BY <1>3, <1>4, <1>5

LEMMA LoweredTwice ==
  ASSUME NEW s \in Seq(AllChars) PROVE Lowered(Lowered(s)) = Lowered(s)
<1> DEFINE l == Lowered(s)
<1>1. l \in Seq(AllChars) /\ Len(l) = Len(s) /\ \A i \in 1..Len(s) : l[i] = Small(s[i])
  BY LoweredType
<1> HIDE DEF l
<1>2. Lowered(l) \in Seq(AllChars) /\ Len(Lowered(l)) = Len(l) /\ \A i \in 1..Len(l) : Lowered(l)[i] = Small(l[i])
  BY <1>1, LoweredType
<1>3. \A i \in 1..Len(l) : Lowered(l)[i] = l[i]
  <2> TAKE i \in 1..Len(l)
  <2>1. s[i] \in AllChars
    BY <1>1
  <2> QED
    BY <1>1, <1>2, <2>1, SmallFacts
<1> QED
  BY <1>1, <1>2, <1>3, SeqEqual DEF l

LEMMA LoweredConcat ==
  ASSUME NEW s \in Seq(AllChars), NEW t \in Seq(AllChars)
  PROVE  Lowered(s \o t) = Lowered(s) \o Lowered(t)
<1> DEFINE u == s \o t
           a == Lowered(u)
           b == Lowered(s) \o Lowered(t)
<1>1. /\ u \in Seq(AllChars) /\ Len(u) = Len(s) + Len(t)
      /\ \A i \in 1..(Len(s) + Len(t)) : u[i] = IF i <= Len(s) THEN s[i] ELSE t[i - Len(s)]
      /\ Len(s) \in Nat /\ Len(t) \in Nat
  BY ConcatProperties
<1>2. /\ a \in Seq(AllChars) /\ Len(a) = Len(u)
      /\ \A i \in 1..Len(u) : a[i] = Small(u[i])
  <2> HIDE DEF u
  <2> QED
    BY <1>1, LoweredType
<1>3. /\ b \in Seq(AllChars) /\ Len(b) = Len(s) + Len(t)
      /\ \A i \in 1..(Len(s) + Len(t)) : b[i] = IF i <= Len(s) THEN Lowered(s)[i] ELSE Lowered(t)[i - Len(s)]
  <2> DEFINE p == Lowered(s)
             q == Lowered(t)
  <2>1. p \in Seq(AllChars) /\ q \in Seq(AllChars) /\ Len(p) = Len(s) /\ Len(q) = Len(t)
    BY LoweredType
  <2> HIDE DEF p, q
  <2>2. /\ p \o q \in Seq(AllChars) /\ Len(p \o q) = Len(s) + Len(t)
        /\ \A i \in 1..(Len(s) + Len(t)) : (p \o q)[i] = IF i <= Len(s) THEN p[i] ELSE q[i - Len(s)]
    <3>1. /\ p \o q \in Seq(AllChars) /\ Len(p \o q) = Len(p) + Len(q)
          /\ \A i \in 1..(Len(p) + Len(q)) : (p \o q)[i] = IF i <= Len(p) THEN p[i] ELSE q[i - Len(p)]
      BY <2>1, ConcatProperties
    <3> QED
      BY <2>1, <3>1
  <2> QED
    BY <2>2 DEF p, q
<1> HIDE DEF u, a, b
<1>4. \A i \in 1..Len(a) : a[i] = b[i]
  <2> TAKE i \in 1..Len(a)
  <2>1. CASE i <= Len(s)
    <3>1. i \in 1..Len(s) /\ i \in 1..(Len(s) + Len(t)) /\ i \in 1..Len(u)
      BY <1>1, <1>2, <2>1
    <3>2. u[i] = s[i] /\ b[i] = Lowered(s)[i]
      BY <1>1, <1>3, <2>1, <3>1
    <3>3. Lowered(s)[i] = Small(s[i])
      BY <3>1, LoweredType
    <3>4. a[i] = Small(u[i])
      BY <1>2, <3>1
    <3> QED
      BY <3>2, <3>3, <3>4, Zenon
  <2>2. CASE ~(i <= Len(s))
    <3>1. i - Len(s) \in 1..Len(t) /\ i \in 1..(Len(s) + Len(t))
      BY <1>1, <1>2, <2>2
    <3>2. Lowered(t)[i - Len(s)] = Small(t[i - Len(s)])
      BY <3>1, LoweredType
    <3> QED
      BY <1>1, <1>2, <1>3, <2>2, <3>1, <3>2
  <2> QED
    BY <2>1, <2>2
<1>5. a = b
  BY <1>1, <1>2, <1>3, <1>4, SeqEqual
<1> QED
  BY <1>5 DEF a, b, u

-----------------------------------------------------------------------------
(* A word in a text.                                                       *)

LEMMA Smallest ==
  ASSUME NEW T \in SUBSET Nat, T # {}
  PROVE  Min(T) \in T /\ \A y \in T : Min(T) <= y
<1>1. PICK x \in T : \A y \in T : ~ (<<y, x>> \in OpToRel(<, Nat))
  BY NatLessThanWellFounded, WFMin
<1>2. ASSUME NEW y \in T PROVE x <= y
  <2>1. x \in Nat /\ y \in Nat
    OBVIOUS
  <2>2. ~(y < x)
    BY <1>1, <2>1 DEF OpToRel
  <2> QED
    BY <2>1, <2>2
<1> QED
  BY <1>2 DEF Min

LEMMA Part ==
  ASSUME NEW S, NEW s \in Seq(S), NEW m \in 0..Len(s), NEW n \in m..Len(s)
  PROVE  /\ SubSeq(s, m + 1, n) \in Seq(S) /\ Len(SubSeq(s, m + 1, n)) = n - m
         /\ \A i \in 1..(n - m) : SubSeq(s, m + 1, n)[i] = s[m + i]
<1>1. Len(s) \in Nat /\ m \in Nat /\ n \in Nat /\ m <= n /\ n <= Len(s)
  OBVIOUS
<1>2. \A i \in (m+1)..n : s[i] \in S
  BY <1>1
<1>3. /\ SubSeq(s, m + 1, n) \in Seq(S)
      /\ Len(SubSeq(s, m + 1, n)) = IF m + 1 <= n THEN n - (m + 1) + 1 ELSE 0
      /\ \A i \in 1..(n - (m + 1) + 1) : SubSeq(s, m + 1, n)[i] = s[(m + 1) + i - 1]
  BY <1>1, <1>2, SubSeqProperties
<1> QED
  BY <1>1, <1>3

Characters == AllChars \ {"space"}

\* What read_text.rs takes for a word: no white space, and either every
\* character splits words or none does.
Words ==
  {w \in Seq(Characters) : w # <<>> /\ \A i \in 1..Len(w) : w[i] \in Splits <=> w[1] \in Splits}

Begin == Min({i \in pos..Len(source) : source[i] # "space"})
End   == EndOf(Begin)
Word  == SubSeq(source, Begin, End - 1)
Taken == IF Normal(Word) THEN Lowered(Word) ELSE Word

LEMMA ReadStep ==
  ASSUME ReadWord
  PROVE  /\ Reading /\ source' = source /\ pos' = AfterEnd(Begin, End)
         /\ words' = Append(words, Taken) /\ Intern(Taken)
         /\ sentenceStart' = ((sentenceStart /\ source[Begin] \in Splits) \/ IsEnding(Word))
BY Zenon DEF ReadWord, Begin, End, Word, Taken

TextType == source \in Seq(AllChars) /\ pos \in 1..(Len(source) + 1)

LEMMA WordPlace ==
  ASSUME TextType, Reading
  PROVE  /\ Begin \in pos..Len(source) /\ End \in (Begin + 1)..(Len(source) + 1)
         /\ \A i \in pos..(Begin - 1) : source[i] = "space"
         /\ \A i \in Begin..(End - 1) :
              source[i] # "space" /\ (source[i] \in Splits <=> source[Begin] \in Splits)
         /\ AfterEnd(Begin, End) \in End..(Len(source) + 1)
         /\ \A i \in End..(AfterEnd(Begin, End) - 1) : source[i] = "space"
<1> DEFINE n == Len(source)
           T == {i \in pos..n : source[i] # "space"}
           U == {i \in (Begin + 1)..n :
                   source[i] = "space" \/ ((source[i] \in Splits) # (source[Begin] \in Splits))}
<1>1. n \in Nat /\ pos \in Nat /\ pos >= 1
  BY DEF TextType
<1>2. T \in SUBSET Nat /\ T # {}
  BY <1>1 DEF Reading
<1>3. Begin \in T /\ \A y \in T : Begin <= y
  BY <1>2, Smallest DEF Begin
<1>4. Begin \in pos..n /\ source[Begin] # "space"
  BY <1>3
<1>5. \A i \in pos..(Begin - 1) : source[i] = "space"
  BY <1>1, <1>3
<1>6. End = IF U = {} THEN n + 1 ELSE Min(U)
  BY Zenon DEF End, EndOf
<1>7. /\ End \in (Begin + 1)..(n + 1)
      /\ \A i \in (Begin + 1)..(End - 1) : i \notin U
  <2>1. CASE U = {}
    BY <1>1, <1>4, <1>6, <2>1
  <2>2. CASE U # {}
    <3>1. U \in SUBSET Nat /\ U \subseteq (Begin + 1)..n
      BY <1>1, <1>4
    <3> HIDE DEF U
    <3>2. Min(U) \in U /\ \A y \in U : Min(U) <= y
      BY <2>2, <3>1, Smallest
    <3> QED
      BY <1>1, <1>4, <1>6, <2>2, <3>1, <3>2
  <2> QED
    BY <2>1, <2>2
<1>8. ASSUME NEW i \in Begin..(End - 1)
      PROVE  source[i] # "space" /\ (source[i] \in Splits <=> source[Begin] \in Splits)
  <2>1. CASE i = Begin
    BY <1>4, <2>1
  <2>2. CASE i # Begin
    <3>1. i \in (Begin + 1)..(End - 1) /\ i \in (Begin + 1)..n
      BY <1>1, <1>4, <1>7, <2>2
    <3>2. i \notin U
      BY <1>7, <3>1
    <3> QED
      BY <3>1, <3>2
  <2> QED
    BY <2>1, <2>2
<1>9. /\ AfterEnd(Begin, End) \in End..(n + 1)
      /\ \A i \in End..(AfterEnd(Begin, End) - 1) : source[i] = "space"
  <2>1. CASE End <= Len(source) /\ source[End] = "space" /\ source[Begin] \notin Splits
    <3>1. AfterEnd(Begin, End) = End + 1
      BY <2>1 DEF AfterEnd
    <3> QED
      BY <1>1, <1>4, <1>7, <2>1, <3>1
  <2>2. CASE ~(End <= Len(source) /\ source[End] = "space" /\ source[Begin] \notin Splits)
    <3>1. AfterEnd(Begin, End) = End
      BY <2>2 DEF AfterEnd
    <3> QED
      BY <1>1, <1>4, <1>7, <3>1
  <2> QED
    BY <2>1, <2>2
<1> QED
  BY <1>4, <1>5, <1>7, <1>8, <1>9

LEMMA WordType ==
  ASSUME TextType, Reading
  PROVE  /\ Word \in Words /\ Len(Word) = End - Begin
         /\ \A i \in 1..Len(Word) : Word[i] = source[Begin - 1 + i]
<1> DEFINE m == Begin - 1
           n == End - 1
<1>1. /\ m \in 0..Len(source) /\ n \in m..Len(source) /\ m + 1 = Begin /\ n - m = End - Begin
      /\ n - m \in Nat /\ n - m >= 1 /\ source \in Seq(AllChars) /\ m \in Nat /\ n \in Nat
  BY WordPlace DEF TextType
<1>2. Word = SubSeq(source, m + 1, n)
  BY <1>1 DEF Word
<1>3. \A i \in 1..(n - m) : m + i \in Begin..(End - 1)
  BY <1>1
<1> HIDE DEF m, n
<1>4. /\ Word \in Seq(AllChars) /\ Len(Word) = n - m
      /\ \A i \in 1..(n - m) : Word[i] = source[m + i]
  BY <1>1, <1>2, Part
<1>5. \A i \in 1..(n - m) : Word[i] \in Characters /\ (Word[i] \in Splits <=> source[Begin] \in Splits)
  BY <1>3, <1>4, WordPlace DEF Characters
<1>6. Word \in Seq(Characters)
  BY <1>4, <1>5
<1>7. Word # <<>> /\ 1 \in 1..(n - m)
  BY <1>1, <1>4
<1>8. Word \in Words
  BY <1>4, <1>5, <1>6, <1>7 DEF Words
<1> QED
  BY <1>1, <1>4, <1>8 DEF m, n

LEMMA LoweredWord ==
  ASSUME NEW w \in Words PROVE Lowered(w) \in Words
<1>1. w \in Seq(AllChars) /\ w \in Seq(Characters)
  BY DEF Words, Characters
<1>2. /\ Lowered(w) \in Seq(AllChars) /\ Len(Lowered(w)) = Len(w)
      /\ \A i \in 1..Len(w) : Lowered(w)[i] = Small(w[i])
  BY <1>1, LoweredType
<1>3. \A i \in 1..Len(w) :
        Lowered(w)[i] \in Characters /\ (Lowered(w)[i] \in Splits <=> w[i] \in Splits)
  <2> TAKE i \in 1..Len(w)
  <2>1. w[i] \in Characters
    BY <1>1
  <2>2. w[i] \in AllChars /\ w[i] # "space"
    BY <2>1 DEF Characters
  <2>3. Small(w[i]) \in AllChars /\ Small(w[i]) # "space" /\ (Small(w[i]) \in Splits <=> w[i] \in Splits)
    BY <2>2, SmallFacts
  <2> QED
    BY <1>2, <2>3 DEF Characters
<1>4. Lowered(w) \in Seq(Characters)
  BY <1>2, <1>3
<1>5. w # <<>> /\ Len(w) >= 1 /\ \A i \in 1..Len(w) : w[i] \in Splits <=> w[1] \in Splits
  BY <1>1 DEF Words
<1> QED
  BY <1>2, <1>3, <1>4, <1>5 DEF Words

LEMMA TakenType ==
  ASSUME TextType, Reading PROVE Taken \in Words /\ Lowered(Taken) = Lowered(Word)
<1>1. Word \in Seq(AllChars)
  BY WordType DEF Words, Characters
<1> QED
  BY <1>1, WordType, LoweredWord, LoweredTwice DEF Taken

-----------------------------------------------------------------------------
(* The reader.                                                             *)

ReaderType == TextType /\ words \in Seq(Words)

LEMMA ReaderStart == ASSUME Init PROVE ReaderType /\ source \in Seq(AllChars) /\ words = <<>> /\ pos = 1
<1>1. PICK m \in 0..MaxLength : source \in [1..m -> Chars]
  BY Zenon DEF Init, ReaderInit, BoundedSeq, SeqOf
<1>2. m \in Nat /\ \A i \in 1..m : source[i] \in AllChars
  BY <1>1, CharsAssumption
<1>3. source \in [1..m -> AllChars]
  BY <1>1, <1>2
<1>4. source \in Seq(AllChars) /\ Len(source) \in Nat
  BY <1>2, <1>3
<1>5. words = <<>> /\ pos = 1
  BY DEF Init, ReaderInit
<1>6. pos \in 1..(Len(source) + 1)
  BY <1>4, <1>5
<1> QED
  BY <1>4, <1>5, <1>6, EmptySeq DEF ReaderType, TextType

\* The generator leaves the reader's state alone.
LEMMA ReadsOrNot == ASSUME [Next]_vars PROVE ReadWord \/ UNCHANGED readerVars
<1>1. CASE UNCHANGED vars
  BY <1>1 DEF vars
<1>2. CASE Read
  BY <1>2 DEF Read
<1>3. CASE Generate
  BY <1>3 DEF Generate
<1>4. CASE Skip
  BY <1>4 DEF Skip
<1>5. CASE Take
  BY <1>5, Zenon DEF Take
<1>6. CASE TakeEmpty
  BY <1>6, Zenon DEF TakeEmpty
<1>7. CASE Close
  BY <1>7 DEF Close
<1> QED
  BY <1>1, <1>2, <1>3, <1>4, <1>5, <1>6, <1>7 DEF Next

LEMMA ReaderTypeStep == ASSUME ReaderType, [Next]_vars PROVE ReaderType'
<1>1. CASE UNCHANGED readerVars
  BY <1>1 DEF ReaderType, TextType, readerVars
<1>2. CASE ReadWord
  <2>1. Reading /\ source' = source /\ pos' = AfterEnd(Begin, End) /\ words' = Append(words, Taken)
    BY <1>2, ReadStep
  <2>2. Taken \in Words /\ words \in Seq(Words) /\ TextType
    BY <2>1, TakenType DEF ReaderType
  <2>3. words' \in Seq(Words)
    BY <2>1, <2>2, AppendProperties
  <2>4. pos' \in End..(Len(source) + 1) /\ End \in (Begin + 1)..(Len(source) + 1) /\ Begin \in pos..Len(source)
    BY <2>1, <2>2, WordPlace
  <2>5. pos' \in 1..(Len(source') + 1)
    BY <2>1, <2>2, <2>4 DEF TextType
  <2> QED
    BY <2>1, <2>2, <2>3, <2>5 DEF ReaderType, TextType
<1> QED
  BY <1>1, <1>2, ReadsOrNot

\* Words are sequences of characters.
LEMMA WordsFlatten ==
  ASSUME NEW ws \in Seq(Words)
  PROVE  ws \in Seq(Seq(Characters)) /\ FlattenSeq(ws) \in Seq(Characters)
<1>1. ws \in Seq(Seq(Characters))
  BY SeqMonotonic DEF Words
<1>2. Len(ws) \in Nat /\ ws \in [1..Len(ws) -> Seq(Characters)]
  BY <1>1, LenProperties
<1> QED
  BY <1>1, <1>2, FlattenType

LEMMA PrintedConcat ==
  ASSUME NEW s \in Seq(AllChars), NEW u \in Seq(AllChars)
  PROVE  Printed(s \o u) = Printed(s) \o Printed(u)
<1> DEFINE C == AllChars \ {"space"}
<1> HIDE DEF C
<1>1. Only(C, s \o u) = Only(C, s) \o Only(C, u)
  BY OnlyConcat
<1> QED
  BY <1>1, Zenon DEF Printed, C

\* What is printed of the text up to the end of the next word.
LEMMA PrintedOn ==
  ASSUME TextType, Reading
  PROVE  Printed(SubSeq(source, 1, AfterEnd(Begin, End) - 1)) =
           Printed(SubSeq(source, 1, pos - 1)) \o Word
<1> DEFINE p == pos - 1
           m == Begin - 1
           n == End - 1
           q == AfterEnd(Begin, End) - 1
           P == SubSeq(source, 1, p)
           A == SubSeq(source, p + 1, m)
           Z == SubSeq(source, n + 1, q)
<1>1. /\ p \in 0..Len(source) /\ m \in p..Len(source) /\ n \in m..Len(source) /\ q \in n..Len(source)
      /\ source \in Seq(AllChars) /\ Len(source) \in Nat /\ m + 1 = Begin
      /\ pos \in Nat /\ Begin \in Nat /\ End \in Nat /\ AfterEnd(Begin, End) \in Nat
  BY WordPlace DEF TextType
<1>2. Word = SubSeq(source, m + 1, n)
  BY <1>1 DEF Word
<1>3. /\ \A i \in 1..(m - p) : source[p + i] = "space"
      /\ \A i \in 1..(q - n) : source[n + i] = "space"
  <2>1. \A i \in 1..(m - p) : p + i \in pos..(Begin - 1)
    BY <1>1
  <2>2. \A i \in 1..(q - n) : n + i \in End..(AfterEnd(Begin, End) - 1)
    BY <1>1
  <2> QED
    BY <2>1, <2>2, WordPlace
<1> HIDE DEF p, m, n, q
<1>4. /\ P \in Seq(AllChars) /\ A \in Seq(AllChars) /\ Z \in Seq(AllChars)
      /\ Len(A) = m - p /\ Len(Z) = q - n
      /\ \A i \in 1..(m - p) : A[i] = source[p + i]
      /\ \A i \in 1..(q - n) : Z[i] = source[n + i]
  <2>1. /\ n \in 0..Len(source) /\ p \in Nat
    BY <1>1
  <2>2. P \in Seq(AllChars)
    BY <1>1, Initials
  <2> QED
    BY <1>1, <2>1, <2>2, Part
<1>5. SubSeq(source, 1, q) = ((P \o A) \o Word) \o Z
  <2>1. /\ 1 \in 1..(Len(source)+1) /\ p \in (1-1)..Len(source) /\ m \in (1-1)..Len(source)
        /\ n \in (1-1)..Len(source) /\ q \in n..Len(source)
    BY <1>1
  <2>2. P \o A = SubSeq(source, 1, m)
    BY <1>1, <2>1, ConcatAdjacentSubSeq
  <2>3. SubSeq(source, 1, m) \o Word = SubSeq(source, 1, n)
    BY <1>1, <1>2, <2>1, ConcatAdjacentSubSeq
  <2>4. SubSeq(source, 1, n) \o Z = SubSeq(source, 1, q)
    BY <1>1, <2>1, ConcatAdjacentSubSeq
  <2> QED
    BY <2>2, <2>3, <2>4
<1> HIDE DEF P, A, Z
<1>6. Printed(A) = <<>> /\ Printed(Z) = <<>>
  <2>1. \A i \in 1..(m - p) : A[i] \in {"space"}
    BY <1>3, <1>4
  <2>2. \A i \in 1..(q - n) : Z[i] \in {"space"}
    BY <1>3, <1>4
  <2>3. A \in Seq({"space"}) /\ Z \in Seq({"space"})
    BY <1>4, <2>1, <2>2
  <2>4. {"space"} \cap (AllChars \ {"space"}) = {}
    OBVIOUS
  <2> QED
    BY <2>3, <2>4, OnlyNone DEF Printed
<1>7. Word \in Seq(Characters) /\ Word \in Seq(AllChars) /\ Printed(Word) = Word
  <2>1. Word \in Seq(Characters) /\ Word \in Seq(AllChars)
    BY WordType DEF Words, Characters
  <2> QED
    BY <2>1, OnlyAll DEF Printed, Characters
<1>8. Printed(((P \o A) \o Word) \o Z) = ((Printed(P) \o Printed(A)) \o Printed(Word)) \o Printed(Z)
  <2>1. P \o A \in Seq(AllChars) /\ (P \o A) \o Word \in Seq(AllChars)
    BY <1>4, <1>7, ConcatProperties
  <2>2. Printed(P \o A) = Printed(P) \o Printed(A)
    BY <1>4, PrintedConcat
  <2>3. Printed((P \o A) \o Word) = Printed(P \o A) \o Printed(Word)
    BY <1>7, <2>1, PrintedConcat
  <2>4. Printed(((P \o A) \o Word) \o Z) = Printed((P \o A) \o Word) \o Printed(Z)
    BY <1>4, <2>1, PrintedConcat
  <2> QED
    BY <2>2, <2>3, <2>4
<1>9. Printed(P) \in Seq(AllChars)
  BY <1>4, OnlyType DEF Printed
<1>10. ((Printed(P) \o <<>>) \o Word) \o <<>> = Printed(P) \o Word
  <2>1. Printed(P) \o <<>> = Printed(P) /\ Printed(P) \o Word \in Seq(AllChars)
    BY <1>7, <1>9, ConcatEmptySeq, ConcatProperties
  <2>2. (Printed(P) \o Word) \o <<>> = Printed(P) \o Word
    BY <2>1, ConcatEmptySeq
  <2> QED
    BY <2>1, <2>2
<1>11. Printed(SubSeq(source, 1, q)) = Printed(P) \o Word
  BY <1>5, <1>6, <1>7, <1>8, <1>10
<1> QED
  BY <1>11 DEF q, P, p

LEMMA LostStep ==
  ASSUME ReaderType, NothingLost, [Next]_vars PROVE NothingLost'
<1>1. CASE UNCHANGED readerVars
  BY <1>1 DEF NothingLost, readerVars
<1>2. CASE ReadWord
  <2>1. Reading /\ source' = source /\ pos' = AfterEnd(Begin, End) /\ words' = Append(words, Taken)
    BY <1>2, ReadStep
  <2> DEFINE F == FlattenSeq(words)
             P == Printed(SubSeq(source, 1, pos - 1))
  <2>2. TextType /\ words \in Seq(Words) /\ F \in Seq(AllChars) /\ P \in Seq(AllChars)
    <3>1. F \in Seq(Characters)
      BY WordsFlatten DEF ReaderType
    <3>2. F \in Seq(AllChars)
      <4> HIDE DEF F
      <4> QED
        BY <3>1, SeqMonotonic DEF Characters
    <3>3. pos - 1 \in 0..Len(source) /\ source \in Seq(AllChars)
      BY DEF ReaderType, TextType
    <3>4. P \in Seq(AllChars)
      BY <3>3, Initials, OnlyType DEF Printed
    <3> QED
      BY <3>2, <3>4 DEF ReaderType
  <2>3. Taken \in Words /\ Lowered(Taken) = Lowered(Word)
    BY <2>1, <2>2, TakenType
  <2>4. Taken \in Seq(Characters) /\ Taken \in Seq(AllChars) /\ Word \in Seq(AllChars)
    BY <2>1, <2>2, <2>3, WordType DEF Words, Characters
  <2>5. FlattenSeq(words') = F \o Taken
    BY <2>1, <2>2, <2>4, WordsFlatten, FlattenAppend
  <2>6. Printed(SubSeq(source', 1, pos' - 1)) = P \o Word
    BY <2>1, <2>2, PrintedOn
  <2> HIDE DEF F, P
  <2>7. Lowered(F \o Taken) = Lowered(F) \o Lowered(Taken) /\ Lowered(P \o Word) = Lowered(P) \o Lowered(Word)
    BY <2>2, <2>4, LoweredConcat
  <2>8. Lowered(F) = Lowered(P)
    BY DEF F, P, NothingLost
  <2> QED
    BY <2>3, <2>5, <2>6, <2>7, <2>8 DEF NothingLost
<1> QED
  BY <1>1, <1>2, ReadsOrNot

THEOREM ReaderTypeCorrect == Spec => []ReaderType
BY ReaderStart, ReaderTypeStep, PTL DEF Spec

\* Splitting a text into words and lowering their capitals loses no character of
\* it, doubles none and changes no order, whatever the text.
THEOREM NothingLostCorrect == Spec => []NothingLost
<1>1. Init => NothingLost
  <2> SUFFICES ASSUME Init PROVE NothingLost
    OBVIOUS
  <2>1. words = <<>> /\ SubSeq(source, 1, pos - 1) = <<>>
    BY ReaderStart, SubSeqEmpty
  <2> QED
    BY <2>1, FlattenEmpty, OnlyEmpty DEF NothingLost, Printed
<1> QED
  BY <1>1, LostStep, ReaderTypeCorrect, PTL DEF Spec
-----------------------------------------------------------------------------
(* Interning.                                                              *)

\* A place in a text at which a word stands.
StandsAt(text, place, w) ==
  /\ place \in Nat \X Nat
  /\ place[1] <= place[2] /\ place[2] <= Len(text)
  /\ SubSeq(text, place[1] + 1, place[2]) = w

\* Text is only put behind the text there is.
LEMMA StandsStill ==
  ASSUME NEW S, NEW s \in Seq(S), NEW t \in Seq(S), NEW place, NEW w, StandsAt(s, place, w)
  PROVE  StandsAt(s \o t, place, w)
<1> DEFINE u == s \o t
           m == place[1]
           n == place[2]
           a == SubSeq(s, m + 1, n)
           b == SubSeq(u, m + 1, n)
<1>1. /\ u \in Seq(S) /\ Len(u) = Len(s) + Len(t)
      /\ \A i \in 1..(Len(s) + Len(t)) : u[i] = IF i <= Len(s) THEN s[i] ELSE t[i - Len(s)]
      /\ Len(s) \in Nat /\ Len(t) \in Nat
  BY ConcatProperties
<1>2. m \in Nat /\ n \in Nat /\ m <= n /\ n <= Len(s) /\ a = w
  BY DEF StandsAt
<1> HIDE DEF u, m, n
<1>3. m \in 0..Len(s) /\ n \in m..Len(s) /\ m \in 0..Len(u) /\ n \in m..Len(u)
  BY <1>1, <1>2
<1>4. /\ a \in Seq(S) /\ Len(a) = n - m /\ \A i \in 1..(n - m) : a[i] = s[m + i]
      /\ b \in Seq(S) /\ Len(b) = n - m /\ \A i \in 1..(n - m) : b[i] = u[m + i]
  BY <1>1, <1>3, Part
<1> HIDE DEF a, b
<1>5. \A i \in 1..Len(a) : a[i] = b[i]
  <2> TAKE i \in 1..Len(a)
  <2>1. m + i \in 1..Len(s) /\ m + i \in 1..(Len(s) + Len(t)) /\ i \in 1..(n - m)
    BY <1>1, <1>2, <1>4
  <2> QED
    BY <1>1, <1>4, <2>1
<1>6. a = b
  BY <1>4, <1>5, SeqEqual
<1>7. place \in Nat \X Nat
  BY DEF StandsAt
<1> QED
  BY <1>1, <1>2, <1>6, <1>7 DEF StandsAt, u, m, n, b

\* What is put there stands at the place that is noted for it.
LEMMA StandsBehind ==
  ASSUME NEW S, NEW s \in Seq(S), NEW w \in Seq(S)
  PROVE  StandsAt(s \o w, StoredAt(s, w), w)
<1> DEFINE u == s \o w
           m == Len(s)
           n == Len(s) + Len(w)
           b == SubSeq(u, m + 1, n)
<1>1. /\ u \in Seq(S) /\ Len(u) = n
      /\ \A i \in 1..n : u[i] = IF i <= m THEN s[i] ELSE w[i - m]
      /\ m \in Nat /\ n \in Nat /\ m <= n /\ n - m = Len(w) /\ Len(w) \in Nat
  BY ConcatProperties
<1>2. StoredAt(s, w) = <<m, n>>
  BY DEF StoredAt
<1> HIDE DEF u, m, n
<1>3. b \in Seq(S) /\ Len(b) = n - m /\ \A i \in 1..(n - m) : b[i] = u[m + i]
  <2>1. m \in 0..Len(u) /\ n \in m..Len(u)
    BY <1>1
  <2> QED
    BY <1>1, <2>1, Part
<1> HIDE DEF b
<1>4. \A i \in 1..Len(b) : b[i] = w[i]
  <2> TAKE i \in 1..Len(b)
  <2>1. m + i \in 1..n /\ ~(m + i <= m) /\ (m + i) - m = i /\ i \in 1..(n - m)
    BY <1>1, <1>3
  <2> QED
    BY <1>1, <1>3, <2>1
<1>5. b = w
  BY <1>1, <1>3, <1>4, SeqEqual
<1>6. <<m, n>> \in Nat \X Nat /\ <<m, n>>[1] = m /\ <<m, n>>[2] = n
  BY <1>1
<1> QED
  BY <1>1, <1>2, <1>5, <1>6 DEF StandsAt, u, b

\* What is interned stands where it says, for all the words there are.
Stored ==
  /\ compressed \in Seq(Characters)
  /\ DOMAIN interned \subseteq Seq(Characters)
  /\ \A w \in DOMAIN interned : StandsAt(compressed, interned[w], w)
  /\ \A k \in 1..Len(words) : words[k] \in DOMAIN interned

LEMMA InternStores ==
  ASSUME Stored, NEW w \in Seq(Characters), Intern(w)
  PROVE  /\ compressed' \in Seq(Characters)
         /\ DOMAIN interned' = DOMAIN interned \cup {w}
         /\ \A v \in DOMAIN interned' : StandsAt(compressed', interned'[v], v)
<1>1. CASE w \in DOMAIN interned
  <2>1. compressed' = compressed /\ interned' = interned
    BY <1>1 DEF Intern
  <2> QED
    BY <1>1, <2>1 DEF Stored
<1>2. CASE w \notin DOMAIN interned
  <2>1. /\ compressed' = compressed \o w
        /\ interned' = [v \in DOMAIN interned \cup {w} |->
                          IF v = w THEN StoredAt(compressed, w) ELSE interned[v]]
    BY <1>2, Zenon DEF Intern
  <2>2. DOMAIN interned' = DOMAIN interned \cup {w}
    BY <2>1
  <2>3. compressed \in Seq(Characters) /\ compressed' \in Seq(Characters)
    BY <2>1, ConcatProperties DEF Stored
  <2>4. ASSUME NEW v \in DOMAIN interned' PROVE StandsAt(compressed', interned'[v], v)
    <3>1. CASE v = w
      <4>1. interned'[v] = StoredAt(compressed, w)
        BY <2>1, <2>2, <3>1
      <4>2. StandsAt(compressed \o w, StoredAt(compressed, w), w)
        BY <2>3, StandsBehind
      <4> QED
        BY <2>1, <3>1, <4>1, <4>2
    <3>2. CASE v # w
      <4>1. v \in DOMAIN interned /\ interned'[v] = interned[v]
        BY <2>1, <2>2, <3>2
      <4>2. StandsAt(compressed, interned[v], v)
        BY <4>1 DEF Stored
      <4>3. StandsAt(compressed \o w, interned[v], v)
        BY <2>3, <4>2, StandsStill
      <4> QED
        BY <2>1, <4>1, <4>3
    <3> QED
      BY <3>1, <3>2
  <2> QED
    BY <2>2, <2>3, <2>4
<1> QED
  BY <1>1, <1>2

LEMMA StoredStep == ASSUME ReaderType, Stored, [Next]_vars PROVE Stored'
<1>1. CASE UNCHANGED readerVars
  BY <1>1 DEF Stored, StandsAt, readerVars
<1>2. CASE ReadWord
  <2>1. Reading /\ words' = Append(words, Taken) /\ Intern(Taken)
    BY <1>2, ReadStep
  <2>2. words \in Seq(Words) /\ Taken \in Words /\ Taken \in Seq(Characters)
    BY <2>1, TakenType DEF ReaderType, Words
  <2>3. /\ compressed' \in Seq(Characters)
        /\ DOMAIN interned' = DOMAIN interned \cup {Taken}
        /\ \A v \in DOMAIN interned' : StandsAt(compressed', interned'[v], v)
    BY <2>1, <2>2, InternStores
  <2>4. DOMAIN interned' \subseteq Seq(Characters)
    BY <2>2, <2>3 DEF Stored
  <2>5. ASSUME NEW k \in 1..Len(words') PROVE words'[k] \in DOMAIN interned'
    <3>1. /\ Len(words') = Len(words) + 1 /\ words'[Len(words) + 1] = Taken /\ Len(words) \in Nat
          /\ \A i \in 1..Len(words) : words'[i] = words[i]
      BY <2>1, <2>2, AppendProperties
    <3>2. CASE k = Len(words) + 1
      BY <2>3, <3>1, <3>2
    <3>3. CASE k # Len(words) + 1
      <4>1. k \in 1..Len(words)
        BY <3>1, <3>3
      <4> QED
        BY <2>3, <3>1, <4>1 DEF Stored
    <3> QED
      BY <3>2, <3>3
  <2> QED
    BY <2>3, <2>4, <2>5 DEF Stored
<1> QED
  BY <1>1, <1>2, ReadsOrNot

\* Every word of a text can be found again where it is stored, and no two words
\* share a place, whatever the text and however often a word comes up in it.
THEOREM InternedCorrect == Spec => []InternedWordsAreWords
<1>1. Init => Stored
  <2> SUFFICES ASSUME Init PROVE Stored
    OBVIOUS
  <2>1. words = <<>> /\ compressed = <<>> /\ interned = [w \in {<<>>} |-> <<0, 0>>]
    BY DEF Init, ReaderInit
  <2>2. compressed \in Seq(Characters) /\ <<>> \in Seq(Characters) /\ Len(words) = 0
    BY <2>1, EmptySeq
  <2>3. DOMAIN interned = {<<>>} /\ interned[<<>>] = <<0, 0>>
    BY <2>1
  <2>4. StandsAt(compressed, <<0, 0>>, <<>>)
    <3>1. SubSeq(compressed, 0 + 1, 0) = <<>>
      BY SubSeqEmpty
    <3> QED
      BY <2>1, <3>1 DEF StandsAt
  <2> QED
    BY <2>2, <2>3, <2>4 DEF Stored
<1>2. ReaderType /\ Stored => InternedWordsAreWords
  <2> SUFFICES ASSUME ReaderType, Stored PROVE InternedWordsAreWords
    OBVIOUS
  <2>1. \A w \in DOMAIN interned : SubSeq(compressed, interned[w][1] + 1, interned[w][2]) = w
    BY DEF Stored, StandsAt
  <2>2. Range(words) \subseteq DOMAIN interned
    <3>1. DOMAIN words = 1..Len(words)
      BY LenProperties DEF ReaderType
    <3> QED
      BY <3>1 DEF Stored, Range
  <2>3. ASSUME NEW v \in DOMAIN interned, NEW w \in DOMAIN interned, interned[v] = interned[w]
        PROVE  v = w
    BY <2>1, <2>3
  <2> QED
    BY <2>1, <2>2, <2>3 DEF InternedWordsAreWords
<1> QED
  BY <1>1, <1>2, StoredStep, ReaderTypeCorrect, PTL DEF Spec
-----------------------------------------------------------------------------
(* Capitals.                                                               *)

\* What IsEnding looks for at place n.
EndsAt(s, n) == s[n] = "." \/ (n > 1 /\ s[n - 1] = "." /\ s[n] \in {"rdquo", ")"})

LEMMA EndingEmpty == IsEnding(<<>>)
<1>1. Len(<<>>) = 0
  OBVIOUS
<1>2. Trimmed(<<>>) = SubSeq(<<>>, 1, 0)
  BY <1>1 DEF Trimmed, SelectLastInSeq
<1>3. SubSeq(<<>>, 1, 0) = <<>>
  BY SubSeqEmpty
<1>4. Trimmed(<<>>) = <<>>
  BY <1>2, <1>3
<1> QED
  BY <1>4, Zenon DEF IsEnding

LEMMA EndingAt ==
  ASSUME NEW s \in Seq(AllChars), NEW n \in 1..Len(s), s[n] # "space",
         \A i \in (n + 1)..Len(s) : s[i] = "space"
  PROVE  IsEnding(s) <=> EndsAt(s, n)
<1> DEFINE I == {i \in 1..Len(s) : s[i] # "space"}
           last == IF I # {} THEN Max(I) ELSE 0
           t == SubSeq(s, 1, n)
<1>1. Len(s) \in Nat /\ n \in Nat /\ n >= 1 /\ n <= Len(s)
  OBVIOUS
<1>2. n \in I /\ \A y \in I : y \in Nat /\ n >= y
  BY <1>1
<1>3. Trimmed(s) = SubSeq(s, 1, last)
  BY Zenon DEF Trimmed, SelectLastInSeq
<1>4. last = n
  <2> HIDE DEF I
  <2>1. \E x \in I : \A y \in I : x >= y
    BY <1>2
  <2>2. Max(I) \in I /\ \A y \in I : Max(I) >= y
    BY <2>1 DEF Max
  <2> DEFINE m == Max(I)
  <2>3. m \in Nat /\ n >= m /\ m >= n
    BY <1>2, <2>2
  <2> HIDE DEF m
  <2>4. m = n
    BY <1>1, <2>3
  <2> QED
    BY <1>2, <2>4 DEF m
<1>5. t \in Seq(AllChars) /\ Len(t) = n /\ \A i \in 1..n : t[i] = s[i]
  <2>1. 0 \in 0..Len(s) /\ n \in 0..Len(s) /\ n - 0 = n /\ 0 + 1 = 1 /\ \A i \in 1..n : 0 + i = i
    BY <1>1
  <2>2. /\ SubSeq(s, 0 + 1, n) \in Seq(AllChars) /\ Len(SubSeq(s, 0 + 1, n)) = n - 0
        /\ \A i \in 1..(n - 0) : SubSeq(s, 0 + 1, n)[i] = s[0 + i]
    BY <2>1, Part
  <2> QED
    BY <2>1, <2>2
<1> HIDE DEF last
<1>6. Trimmed(s) = t
  BY <1>3, <1>4
<1> HIDE DEF t
<1>7. t # <<>> /\ Last(t) = s[n] /\ (n > 1 => t[n - 1] = s[n - 1])
  BY <1>1, <1>5 DEF Last
<1> QED
  BY <1>1, <1>5, <1>6, <1>7 DEF IsEnding, EndsAt

\* A text of nothing but white space, or the last of its other characters.
LEMMA LastPrinted ==
  ASSUME NEW s \in Seq(AllChars)
  PROVE  \/ (\A i \in 1..Len(s) : s[i] = "space") /\ IsEnding(s)
         \/ \E n \in 1..Len(s) : s[n] # "space" /\ \A i \in (n + 1)..Len(s) : s[i] = "space"
<1> DEFINE m == Len(s)
           I == {i \in 1..m : s[i] # "space"}
           T == {m - i : i \in I}
<1>1. m \in Nat
  OBVIOUS
<1>2. CASE I = {}
  <2>1. \A i \in 1..m : s[i] = "space"
    BY <1>2
  <2>2. Trimmed(s) = SubSeq(s, 1, IF I # {} THEN Max(I) ELSE 0)
    BY Zenon DEF Trimmed, SelectLastInSeq
  <2>3. Trimmed(s) = <<>>
    BY <1>2, <2>2, SubSeqEmpty
  <2> QED
    BY <2>1, <2>3 DEF IsEnding
<1>3. CASE I # {}
  <2>1. T \in SUBSET Nat /\ T # {}
    BY <1>1, <1>3
  <2> HIDE DEF T
  <2>2. Min(T) \in T /\ \A y \in T : Min(T) <= y
    BY <2>1, Smallest
  <2>3. PICK n \in I : Min(T) = m - n
    BY <2>2 DEF T
  <2>4. n \in 1..m /\ s[n] # "space"
    OBVIOUS
  <2>5. ASSUME NEW i \in (n + 1)..m PROVE s[i] = "space"
    <3> SUFFICES ASSUME s[i] # "space" PROVE FALSE
      OBVIOUS
    <3>1. i \in 1..m /\ i > n /\ i \in Nat /\ n \in Nat
      BY <1>1, <2>4, <2>5
    <3>2. m - i \in T
      BY <3>1 DEF T
    <3>3. m - n <= m - i
      BY <2>2, <2>3, <3>2
    <3> HIDE DEF m
    <3> QED
      BY <1>1, <3>1, <3>3
  <2> QED
    BY <2>4, <2>5
<1> QED
  BY <1>2, <1>3

\* Nor is it a question of white space behind it.
LEMMA EndsPadded ==
  ASSUME NEW s \in Seq(AllChars)
  PROVE  /\ Append(s, "space") \in Seq(AllChars)
         /\ IsEnding(Append(s, "space")) <=> IsEnding(s)
<1> DEFINE u == Append(s, "space")
           m == Len(s)
<1>1. "space" \in AllChars
  BY DEF AllChars
<1>2. /\ u \in Seq(AllChars) /\ Len(u) = m + 1 /\ u[m + 1] = "space" /\ m \in Nat
      /\ \A i \in 1..m : u[i] = s[i]
  BY <1>1, AppendProperties
<1> HIDE DEF u
<1>3. CASE (\A i \in 1..m : s[i] = "space") /\ IsEnding(s)
  <2>1. \A i \in 1..Len(u) : u[i] = "space"
    <3> TAKE i \in 1..Len(u)
    <3>1. i = m + 1 \/ i \in 1..m
      BY <1>2
    <3> QED
      BY <1>2, <1>3, <3>1
  <2>2. IsEnding(u)
    BY <1>2, <2>1, LastPrinted
  <2> QED
    BY <1>2, <1>3, <2>2 DEF u
<1>4. CASE \E n \in 1..m : s[n] # "space" /\ \A i \in (n + 1)..m : s[i] = "space"
  <2>1. PICK n \in 1..m : s[n] # "space" /\ \A i \in (n + 1)..m : s[i] = "space"
    BY <1>4
  <2>2. n \in 1..Len(u) /\ u[n] = s[n] /\ (n > 1 => u[n-1] = s[n-1])
    BY <1>2
  <2>3. ASSUME NEW i \in (n + 1)..Len(u) PROVE u[i] = "space"
    <3>1. i = m + 1 \/ (i \in (n + 1)..m /\ i \in 1..m)
      BY <1>2, <2>2
    <3> QED
      BY <1>2, <2>1, <3>1
  <2>4. IsEnding(s) <=> EndsAt(s, n)
    BY <2>1, EndingAt
  <2>5. IsEnding(u) <=> EndsAt(u, n)
    BY <1>2, <2>1, <2>2, <2>3, EndingAt
  <2> QED
    BY <1>2, <2>2, <2>4, <2>5 DEF EndsAt, u
<1> QED
  BY <1>3, <1>4, LastPrinted

\* Whether a sentence ends with a word is not a question of case.
LEMMA EndsLowered == ASSUME NEW w \in Words PROVE IsEnding(Lowered(w)) <=> IsEnding(w)
<1> DEFINE l == Lowered(w)
           n == Len(w)
<1>1. w \in Seq(AllChars) /\ n \in Nat /\ n >= 1 /\ \A i \in 1..n : w[i] # "space"
  BY DEF Words, Characters
<1>2. l \in Seq(AllChars) /\ Len(l) = n /\ \A i \in 1..n : l[i] = Small(w[i])
  BY <1>1, LoweredType
<1> HIDE DEF l
<1>3. \A i \in 1..n : l[i] # "space" /\ \A c \in {".", "rdquo", ")"} : l[i] = c <=> w[i] = c
  <2> TAKE i \in 1..n
  <2>1. w[i] \in AllChars
    BY <1>1
  <2> QED
    BY <1>1, <1>2, <2>1, SmallFacts
<1>4. n \in 1..n /\ (n > 1 => n - 1 \in 1..n) /\ (n + 1)..n = {}
  BY <1>1
<1>5. IsEnding(w) <=> EndsAt(w, n)
  BY <1>1, <1>4, EndingAt
<1>6. IsEnding(l) <=> EndsAt(l, n)
  BY <1>2, <1>3, <1>4, EndingAt
<1>7. /\ l[n] = "." <=> w[n] = "."
      /\ n > 1 => (l[n-1] = "." <=> w[n-1] = ".")
      /\ l[n] \in {"rdquo", ")"} <=> w[n] \in {"rdquo", ")"}
  BY <1>3, <1>4
<1> QED
  BY <1>5, <1>6, <1>7 DEF EndsAt, l

\* BeginsSentence and what is lost of a word, for any sequence of words.
BeginsIn(ws, k) ==
  \E j \in 0..(k - 1) :
    /\ j = 0 \/ IsEnding(ws[j])
    /\ \A i \in (j + 1)..(k - 1) : SplitsOnly(ws[i])

KeptIn(ws, text, k) ==
  \A i \in DOMAIN ws[k] :
    text[Len(FlattenSeq(SubSeq(ws, 1, k - 1))) + i] # ws[k][i] =>
      i = 1 /\ BeginsIn(ws, k) /\ Range(ws[k]) \cap Capitals = {}

LEMMA Kept == OnlySentenceCapitalsAreLost <=> \A k \in DOMAIN words : KeptIn(words, Printed(source), k)
<1>1. \A k : BeginsSentence(k) <=> BeginsIn(words, k)
  BY Zenon DEF BeginsSentence, BeginsIn
<1> QED
  BY <1>1, Zenon DEF OnlySentenceCapitalsAreLost, KeptIn, Offset

LEMMA BeginsStays ==
  ASSUME NEW k \in Nat, NEW ws, NEW vs, \A i \in 1..(k - 1) : vs[i] = ws[i], BeginsIn(ws, k)
  PROVE  BeginsIn(vs, k)
<1>1. PICK j \in 0..(k - 1) :
        /\ j = 0 \/ IsEnding(ws[j])
        /\ \A i \in (j + 1)..(k - 1) : SplitsOnly(ws[i])
  BY DEF BeginsIn
<1>2. j = 0 \/ vs[j] = ws[j]
  OBVIOUS
<1>3. j = 0 \/ IsEnding(vs[j])
  BY <1>1, <1>2
<1>4. \A i \in (j + 1)..(k - 1) : SplitsOnly(vs[i])
  <2> TAKE i \in (j + 1)..(k - 1)
  <2>1. vs[i] = ws[i]
    BY <1>1
  <2> QED
    BY <1>1, <2>1
<1> QED
  BY <1>3, <1>4 DEF BeginsIn

\* A word that is put behind others changes nothing of what is said of those.
LEMMA KeptStays ==
  ASSUME NEW ws \in Seq(Words), NEW w \in Words, NEW text, NEW k \in 1..Len(ws), KeptIn(ws, text, k)
  PROVE  KeptIn(Append(ws, w), text, k)
<1> DEFINE vs == Append(ws, w)
<1>1. /\ vs \in Seq(Words) /\ Len(vs) = Len(ws) + 1 /\ Len(ws) \in Nat
      /\ \A i \in 1..Len(ws) : vs[i] = ws[i]
  BY AppendProperties
<1> HIDE DEF vs
<1> DEFINE a == SubSeq(ws, 1, k - 1)
           b == SubSeq(vs, 1, k - 1)
<1>2. k \in Nat /\ k - 1 \in 0..Len(ws) /\ k - 1 \in 0..Len(vs) /\ 0 \in 0..Len(ws) /\ 0 \in 0..Len(vs)
  BY <1>1
<1>3. a = b
  <2> DEFINE n == k - 1
  <2>1. n \in 0..Len(ws) /\ n \in 0..Len(vs) /\ n - 0 = n /\ n \in Nat
    BY <1>2
  <2>2. /\ SubSeq(ws, 0 + 1, n) \in Seq(Words) /\ Len(SubSeq(ws, 0 + 1, n)) = n - 0
        /\ \A i \in 1..(n - 0) : SubSeq(ws, 0 + 1, n)[i] = ws[0 + i]
    BY <1>2, <2>1, Part
  <2>3. /\ SubSeq(vs, 0 + 1, n) \in Seq(Words) /\ Len(SubSeq(vs, 0 + 1, n)) = n - 0
        /\ \A i \in 1..(n - 0) : SubSeq(vs, 0 + 1, n)[i] = vs[0 + i]
    BY <1>1, <1>2, <2>1, Part
  <2>4. 0 + 1 = 1 /\ \A i \in 1..n : i \in 1..Len(ws) /\ 0 + i = i
    BY <1>1, <2>1
  <2> HIDE DEF n
  <2>5. /\ SubSeq(ws, 1, n) \in Seq(Words) /\ Len(SubSeq(ws, 1, n)) = n
        /\ SubSeq(vs, 1, n) \in Seq(Words) /\ Len(SubSeq(vs, 1, n)) = n
        /\ \A i \in 1..n : SubSeq(ws, 1, n)[i] = SubSeq(vs, 1, n)[i]
    BY <1>1, <2>1, <2>2, <2>3, <2>4
  <2>6. SubSeq(ws, 1, n) = SubSeq(vs, 1, n)
    BY <2>5, SeqEqual
  <2> QED
    BY <2>6 DEF n
<1>4. vs[k] = ws[k]
  BY <1>1
<1>5. BeginsIn(ws, k) => BeginsIn(vs, k)
  <2>1. \A i \in 1..(k - 1) : vs[i] = ws[i]
    BY <1>1
  <2> QED
    BY <1>2, <2>1, BeginsStays
<1>6. KeptIn(vs, text, k)
  <2>1. ASSUME NEW i \in DOMAIN vs[k], text[Len(FlattenSeq(b)) + i] # vs[k][i]
        PROVE  i = 1 /\ BeginsIn(vs, k) /\ Range(vs[k]) \cap Capitals = {}
    <3> HIDE DEF a, b
    <3>1. i \in DOMAIN ws[k] /\ text[Len(FlattenSeq(a)) + i] # ws[k][i]
      BY <1>3, <1>4, <2>1
    <3>2. i = 1 /\ BeginsIn(ws, k) /\ Range(ws[k]) \cap Capitals = {}
      BY <3>1, Zenon DEF KeptIn, a
    <3> QED
      BY <1>4, <1>5, <3>2
  <2> QED
    BY <2>1, Zenon DEF KeptIn
<1> QED
  BY <1>6 DEF vs

\* The place of the next word in what is printed of the text.
LEMMA PrintedPlace ==
  ASSUME ReaderType, NothingLost, Reading
  PROVE  \A i \in 1..Len(Word) : Printed(source)[Len(FlattenSeq(words)) + i] = Word[i]
<1> DEFINE F == FlattenSeq(words)
           P == Printed(SubSeq(source, 1, pos - 1))
           q == AfterEnd(Begin, End) - 1
           R == SubSeq(source, q + 1, Len(source))
           X == Printed(R)
<1>1. TextType /\ q \in 0..Len(source) /\ pos - 1 \in 0..Len(source)
  <2>1. TextType
    BY DEF ReaderType
  <2>2. /\ Begin \in pos..Len(source) /\ End \in (Begin + 1)..(Len(source) + 1)
        /\ AfterEnd(Begin, End) \in End..(Len(source) + 1)
    BY <2>1, WordPlace
  <2> QED
    BY <2>1, <2>2 DEF TextType
<1>2. source \in Seq(AllChars) /\ Len(source) \in Nat
  BY <1>1 DEF TextType
<1>3. Printed(SubSeq(source, 1, q)) = P \o Word
  BY <1>1, PrintedOn
<1>4. F \in Seq(AllChars) /\ P \in Seq(AllChars) /\ Word \in Seq(AllChars)
  <2>1. F \in Seq(Characters)
    BY WordsFlatten DEF ReaderType
  <2>2. F \in Seq(AllChars)
    <3> HIDE DEF F
    <3> QED
      BY <2>1, SeqMonotonic DEF Characters
  <2>3. P \in Seq(AllChars)
    BY <1>1, <1>2, Initials, OnlyType DEF Printed
  <2>4. Word \in Seq(AllChars)
    BY <1>1, WordType DEF Words, Characters
  <2> QED
    BY <2>2, <2>3, <2>4
<1>5. Len(F) = Len(P)
  <2>1. Lowered(F) = Lowered(P)
    BY DEF NothingLost
  <2> HIDE DEF F, P
  <2> QED
    BY <1>4, <2>1, LoweredType
<1> HIDE DEF q, F, P
<1>6. /\ SubSeq(source, 1, q) \in Seq(AllChars) /\ R \in Seq(AllChars)
      /\ source = SubSeq(source, 1, q) \o R
  <2>1. /\ 1 \in 1..(Len(source) + 1) /\ q \in (1 - 1)..Len(source)
        /\ Len(source) \in q..Len(source)
    BY <1>1, <1>2
  <2>2. SubSeq(source, 1, q) \in Seq(AllChars) /\ R \in Seq(AllChars)
    BY <1>1, <1>2, <2>1, Initials, Part
  <2>3. SubSeq(source, 1, q) \o R = SubSeq(source, 1, Len(source))
    BY <1>2, <2>1, ConcatAdjacentSubSeq
  <2>4. SubSeq(source, 1, Len(source)) = source
    BY <1>2, SubSeqFull
  <2> QED
    BY <2>2, <2>3, <2>4
<1> HIDE DEF R
<1>7. Printed(source) = (P \o Word) \o X
  BY <1>3, <1>6, PrintedConcat
<1>8. X \in Seq(AllChars)
  BY <1>6, OnlyType DEF Printed
<1> HIDE DEF X
<1>9. ASSUME NEW i \in 1..Len(Word) PROVE ((P \o Word) \o X)[Len(P) + i] = Word[i]
  <2>1. /\ P \o Word \in Seq(AllChars) /\ Len(P \o Word) = Len(P) + Len(Word)
        /\ \A j \in 1..(Len(P) + Len(Word)) : (P \o Word)[j] = IF j <= Len(P) THEN P[j] ELSE Word[j - Len(P)]
    BY <1>4, ConcatProperties
  <2>2. Len(P) \in Nat /\ Len(Word) \in Nat /\ Len(X) \in Nat
    BY <1>4, <1>8
  <2>3. Len(P) + i \in 1..(Len(P) + Len(Word)) /\ ~(Len(P) + i <= Len(P)) /\ (Len(P) + i) - Len(P) = i
    BY <2>2
  <2>4. (P \o Word)[Len(P) + i] = Word[i]
    BY <2>1, <2>3
  <2> DEFINE u == P \o Word
             v == u \o X
  <2>5. u \in Seq(AllChars) /\ Len(u) = Len(P) + Len(Word) /\ u[Len(P) + i] = Word[i]
    BY <2>1, <2>4
  <2> HIDE DEF u
  <2>6. \A j \in 1..(Len(u) + Len(X)) : v[j] = IF j <= Len(u) THEN u[j] ELSE X[j - Len(u)]
    BY <1>8, <2>5, ConcatProperties
  <2> HIDE DEF v
  <2>7. Len(P) + i \in 1..(Len(u) + Len(X)) /\ Len(P) + i <= Len(u)
    BY <2>2, <2>3, <2>5
  <2>8. v[Len(P) + i] = Word[i]
    BY <2>5, <2>6, <2>7
  <2> QED
    BY <2>8 DEF u, v
<1> QED
  BY <1>5, <1>7, <1>9 DEF F

\* The reader's flag is what it says it is.
SentenceStarts == sentenceStart => BeginsIn(words, Len(words) + 1)

LEMMA CapitalsStep ==
  ASSUME ReaderType, NothingLost, SentenceStarts, OnlySentenceCapitalsAreLost, [Next]_vars
  PROVE  SentenceStarts' /\ OnlySentenceCapitalsAreLost'
<1>1. CASE UNCHANGED readerVars
  <2>1. SentenceStarts'
    BY <1>1 DEF SentenceStarts, BeginsIn, SplitsOnly, readerVars
  <2>2. words' = words /\ source' = source
    BY <1>1 DEF readerVars
  <2>3. OnlySentenceCapitalsAreLost'
    BY <2>2, Zenon DEF OnlySentenceCapitalsAreLost, Printed, Offset, BeginsSentence, SplitsOnly
  <2> QED
    BY <2>1, <2>3
<1>2. CASE ReadWord
  <2>1. /\ Reading /\ source' = source /\ words' = Append(words, Taken)
        /\ sentenceStart' = ((sentenceStart /\ source[Begin] \in Splits) \/ IsEnding(Word))
    BY <1>2, ReadStep
  <2>2. TextType /\ words \in Seq(Words) /\ Taken \in Words /\ Word \in Words
    BY <2>1, TakenType, WordType DEF ReaderType
  <2> DEFINE n == Len(words)
             vs == Append(words, Taken)
  <2>3. /\ vs \in Seq(Words) /\ Len(vs) = n + 1 /\ n \in Nat /\ vs[n + 1] = Taken
        /\ \A i \in 1..n : vs[i] = words[i]
    BY <2>2, AppendProperties
  <2>4. BeginsIn(words, n + 1) => BeginsIn(vs, n + 1)
    <3> HIDE DEF vs, n
    <3>1. n + 1 \in Nat /\ \A i \in 1..((n + 1) - 1) : vs[i] = words[i]
      BY <2>3
    <3> QED
      BY <3>1, BeginsStays
  <2>5. Taken[1] \in Splits <=> source[Begin] \in Splits
    <3>1. Word[1] = source[Begin]
      <4>1. 1 \in 1..Len(Word) /\ Begin - 1 + 1 = Begin
        BY <2>1, <2>2, WordPlace DEF Words, TextType
      <4> QED
        BY <2>1, <2>2, <4>1, WordType
    <3>2. 1 \in 1..Len(Word) /\ Word \in Seq(AllChars)
      BY <2>2 DEF Words, Characters
    <3>3. Lowered(Word)[1] = Small(Word[1])
      BY <3>2, LoweredType
    <3>4. Lowered(Word)[1] \in Splits <=> Word[1] \in Splits
      <4>1. Word[1] \in AllChars
        BY <3>2
      <4> QED
        BY <3>3, <4>1, SmallFacts
    <3> QED
      BY <3>1, <3>4 DEF Taken
  <2>6. IsEnding(Taken) <=> IsEnding(Word)
    BY <2>2, EndsLowered DEF Taken
  <2>7. ASSUME sentenceStart' PROVE BeginsIn(vs, n + 2)
    <3>1. (sentenceStart /\ source[Begin] \in Splits) \/ IsEnding(Word)
      BY <2>1, <2>7, Zenon
    <3>2. CASE IsEnding(Word)
      <4>1. IsEnding(vs[n + 1])
        BY <2>3, <2>6, <3>2
      <4> HIDE DEF vs, n
      <4>2. n + 1 \in 0..((n + 2) - 1) /\ ((n + 1) + 1)..((n + 2) - 1) = {}
        BY <2>3
      <4> QED
        BY <4>1, <4>2 DEF BeginsIn
    <3>3. CASE sentenceStart /\ source[Begin] \in Splits
      <4>1. BeginsIn(words, n + 1)
        BY <3>3 DEF SentenceStarts
      <4>2. SplitsOnly(vs[n + 1])
        BY <2>3, <2>5, <3>3 DEF SplitsOnly
      <4> HIDE DEF vs, n
      <4>3. BeginsIn(vs, n + 1)
        BY <2>4, <4>1
      <4>4. PICK j \in 0..((n + 1) - 1) :
              /\ j = 0 \/ IsEnding(vs[j])
              /\ \A i \in (j + 1)..((n + 1) - 1) : SplitsOnly(vs[i])
        BY <4>3 DEF BeginsIn
      <4>5. j \in 0..((n + 2) - 1)
        BY <2>3
      <4>6. ASSUME NEW i \in (j + 1)..((n + 2) - 1) PROVE SplitsOnly(vs[i])
        <5>1. i = n + 1 \/ i \in (j + 1)..((n + 1) - 1)
          BY <2>3
        <5> QED
          BY <4>2, <4>4, <5>1
      <4> QED
        BY <4>4, <4>5, <4>6 DEF BeginsIn
    <3> QED
      BY <3>1, <3>2, <3>3
  <2>8. SentenceStarts'
    <3> SUFFICES ASSUME sentenceStart' PROVE BeginsIn(words', Len(words') + 1)
      BY Zenon DEF SentenceStarts, BeginsIn, SplitsOnly
    <3>1. words' = vs
      BY <2>1
    <3>2. Len(words') + 1 = n + 2
      BY <2>3, <3>1
    <3>3. BeginsIn(vs, n + 2)
      BY <2>7
    <3> HIDE DEF vs, n
    <3> QED
      BY <3>1, <3>2, <3>3
  <2>9. KeptIn(vs, Printed(source), n + 1)
    <3> SUFFICES ASSUME NEW i \in DOMAIN Taken,
                        Printed(source)[Len(FlattenSeq(words)) + i] # Taken[i]
                 PROVE  i = 1 /\ BeginsIn(vs, n + 1) /\ Range(Taken) \cap Capitals = {}
      <4>1. SubSeq(vs, 1, (n + 1) - 1) = words
        <5>1. (n + 1) - 1 = n
          BY <2>3
        <5>2. 1 \in 1..(Len(words) + 1)
          BY <2>3
        <5>3. SubSeq(vs, 1, n) = words
          <6> DEFINE u == SubSeq(vs, 1, n)
          <6>1. /\ u \in Seq(Words) /\ Len(u) = n
            <7> HIDE DEF vs
            <7>1. n \in 0..Len(vs)
              BY <2>3
            <7> QED
              BY <2>3, <7>1, Initials
          <6>2. \A k \in 1..n : u[k] = words[k]
            <7> HIDE DEF vs
            <7>1. /\ n \in 0..Len(vs) /\ 0 \in 0..Len(vs) /\ n - 0 = n /\ 0 + 1 = 1
                  /\ \A k \in 1..n : 0 + k = k
              BY <2>3
            <7>2. \A k \in 1..(n - 0) : SubSeq(vs, 0 + 1, n)[k] = vs[0 + k]
              BY <2>3, <7>1, Part
            <7> QED
              BY <2>3, <7>1, <7>2
          <6> HIDE DEF u
          <6>3. u = words
            BY <2>2, <2>3, <6>1, <6>2, SeqEqual
          <6> QED
            BY <6>3 DEF u
        <5> QED
          BY <5>1, <5>3
      <4>2. vs[n + 1] = Taken
        BY <2>3
      <4> HIDE DEF vs, n
      <4> QED
        BY <4>1, <4>2, Zenon DEF KeptIn
    <3>1. /\ Len(Taken) = Len(Word) /\ DOMAIN Taken = 1..Len(Word) /\ Word \in Seq(AllChars)
      <4>1. Word \in Seq(AllChars)
        BY <2>2 DEF Words, Characters
      <4>2. Len(Taken) = Len(Word)
        BY <4>1, LoweredType DEF Taken
      <4> QED
        BY <2>2, <4>1, <4>2 DEF Words
    <3>2. Printed(source)[Len(FlattenSeq(words)) + i] = Word[i]
      BY <2>1, <3>1, PrintedPlace
    <3>3. Taken[i] # Word[i]
      BY <3>2
    <3>4. Normal(Word) /\ Taken = Lowered(Word)
      BY <3>3 DEF Taken
    <3>5. \A k \in 1..Len(Word) : Taken[k] = Small(Word[k])
      BY <3>1, <3>4, LoweredType
    <3>6. Word[i] \in Capitals /\ i \in DOMAIN Word
      <4>1. i \in 1..Len(Word) /\ Word[i] \in AllChars /\ DOMAIN Word = 1..Len(Word)
        BY <3>1
      <4>2. Taken[i] = Small(Word[i])
        BY <3>5, <4>1
      <4> QED
        BY <3>3, <4>1, <4>2, SmallFacts
    <3>7. i = 1 /\ sentenceStart
      BY <3>4, <3>6 DEF Normal
    <3>8. Range(Taken) \cap Capitals = {}
      <4>1. \A k \in 1..Len(Word) : Word[k] \in AllChars
        BY <3>1
      <4>2. \A k \in 1..Len(Word) : Taken[k] \notin Capitals
        BY <3>5, <4>1, SmallFacts
      <4> QED
        BY <3>1, <4>2 DEF Range
    <3> QED
      BY <2>4, <3>7, <3>8 DEF SentenceStarts
  <2>10. ASSUME NEW k \in 1..(n + 1) PROVE KeptIn(vs, Printed(source), k)
    <3>1. CASE k = n + 1
      BY <2>9, <3>1
    <3>2. CASE k # n + 1
      <4>1. k \in 1..Len(words) /\ k \in DOMAIN words
        BY <2>2, <2>3, <3>2
      <4>2. KeptIn(words, Printed(source), k)
        BY <4>1, Kept
      <4> QED
        BY <2>2, <4>1, <4>2, KeptStays
    <3> QED
      BY <3>1, <3>2
  <2>11. OnlySentenceCapitalsAreLost'
    <3>1. DOMAIN vs = 1..(n + 1)
      BY <2>3, LenProperties
    <3>2. words' = vs /\ source' = source
      BY <2>1
    <3>3. \A k \in DOMAIN words' : KeptIn(words', Printed(source'), k)
      <4> HIDE DEF vs, n
      <4>1. Printed(source') = Printed(source)
        BY <3>2
      <4> QED
        BY <2>10, <3>1, <3>2, <4>1
    <3>4. (OnlySentenceCapitalsAreLost <=> \A k \in DOMAIN words : KeptIn(words, Printed(source), k))'
      BY Kept, PTL
    <3> QED
      BY <3>3, <3>4, Zenon DEF Printed, KeptIn, BeginsIn, SplitsOnly
  <2> QED
    BY <2>8, <2>11
<1> QED
  BY <1>1, <1>2, ReadsOrNot

\* A capital is only lost by the first letter of a word that begins a sentence
\* and has no other capital: a name keeps its own, in any text.
THEOREM CapitalsCorrect == Spec => []OnlySentenceCapitalsAreLost
<1>1. Init => SentenceStarts /\ OnlySentenceCapitalsAreLost
  <2> SUFFICES ASSUME Init PROVE SentenceStarts /\ OnlySentenceCapitalsAreLost
    OBVIOUS
  <2>1. words = <<>>
    BY ReaderStart
  <2>2. DOMAIN words = {} /\ Len(words) + 1 = 1
    BY <2>1
  <2>3. SentenceStarts
    <3>1. 0 \in 0..(1 - 1) /\ (0 + 1)..(1 - 1) = {}
      OBVIOUS
    <3> QED
      BY <2>2, <3>1 DEF SentenceStarts, BeginsIn
  <2>4. OnlySentenceCapitalsAreLost
    BY <2>2, Kept
  <2> QED
    BY <2>3, <2>4
<1> QED
  BY <1>1, CapitalsStep, ReaderTypeCorrect, NothingLostCorrect, PTL DEF Spec

-----------------------------------------------------------------------------
(* The generator.                                                          *)

ProseType ==
  /\ output \in Seq(AllChars)
  /\ output # <<>> /\ output[Len(output)] = "space" => ~IsEnding(output)
  /\ next \in 1..(Len(words) + 1) /\ (phase = "reading" => next = 1)
  /\ phase \in {"reading", "skipping"} => output = <<>>

\* The word that the walk puts out next, as it is printed, and what is put
\* between it and the output.
Said == IF MustCapitalize(must_capitalize, words[next], output)
        THEN Capitalized(words[next]) ELSE words[next]
Gap  == Spacing(output, Said)

LEMMA TakeStep ==
  ASSUME Take
  PROVE  /\ next <= Len(words) /\ words' = words /\ source' = source /\ phase' = "taking"
         /\ next' = next + 1 /\ output' = (output \o Gap) \o Said /\ gaps' = gaps
<1>1. output' = (output \o Gap) \o Said
  BY Zenon DEF Take, Gap, Said
<1>2. next <= Len(words) /\ readerVars' = readerVars /\ phase' = "taking" /\ next' = next + 1 /\ gaps' = gaps
  BY DEF Take
<1> QED
  BY <1>1, <1>2 DEF readerVars

\* An empty word is a panic where a sentence begins, and white space or nothing
\* everywhere else.
LEMMA EmptyStep ==
  ASSUME TakeEmpty, ProseType
  PROVE  /\ words' = words /\ source' = source /\ pos' = pos /\ next' = next
         /\ phase \in {"skipping", "taking"} /\ phase' \in {"panicked", "taking"}
         /\ \/ output' = output /\ gaps' = gaps /\ (phase' = "taking" => output # <<>>)
            \/ /\ output # <<>> /\ ~IsEnding(output) /\ output[Len(output)] \notin JOIN_AFTER
               /\ output' = Append(output, "space") /\ gaps' = gaps \cup {Len(output) + 1}
<1>1. /\ words' = words /\ source' = source /\ pos' = pos /\ next' = next
      /\ phase \in {"skipping", "taking"}
  BY Zenon DEF TakeEmpty, readerVars
<1>2. CASE MustCapitalize(must_capitalize, <<>>, output)
  <2>1. phase' = "panicked" /\ output' = output /\ gaps' = gaps
    BY <1>2, Zenon DEF TakeEmpty
  <2> QED
    BY <1>1, <2>1
<1>3. CASE ~MustCapitalize(must_capitalize, <<>>, output)
  <2>1. /\ phase' = "taking" /\ output' = output \o Spacing(output, <<>>)
        /\ gaps' = gaps \cup (Len(output) + 1)..Len(output')
    BY <1>3, Zenon DEF TakeEmpty
  <2>2. ~IsEnding(output)
    BY <1>3, Zenon DEF MustCapitalize
  <2>3. output # <<>>
    BY <2>2, EndingEmpty
  <2>4. output \in Seq(AllChars) /\ Len(output) \in Nat
    BY DEF ProseType
  <2>5. CASE output[Len(output)] \in JOIN_AFTER
    <3>1. Spacing(output, <<>>) = <<>>
      BY <2>5 DEF Spacing, Last
    <3>2. output' = output
      BY <2>1, <2>4, <3>1, ConcatEmptySeq
    <3>3. (Len(output) + 1)..Len(output') = {}
      BY <2>4, <3>2
    <3> QED
      BY <1>1, <2>1, <2>3, <3>2, <3>3
  <2>6. CASE output[Len(output)] \notin JOIN_AFTER
    <3>1. Spacing(output, <<>>) = <<"space">>
      BY <2>3, <2>6 DEF Spacing, Last
    <3>2. output' = Append(output, "space") /\ Len(output') = Len(output) + 1
      <4>1. "space" \in AllChars
        BY DEF AllChars
      <4>2. Append(output, "space") = output \o <<"space">>
        BY <2>4, <4>1, AppendIsConcat
      <4>3. output' = Append(output, "space")
        BY <2>1, <3>1, <4>2
      <4>4. \A u \in {Append(output, "space")} : Len(u) = Len(output) + 1
        BY <2>4, <4>1, AppendProperties
      <4> QED
        BY <4>3, <4>4
    <3>3. (Len(output) + 1)..Len(output') = {Len(output) + 1}
      BY <2>4, <3>2
    <3> QED
      BY <1>1, <2>1, <2>2, <2>3, <2>6, <3>2, <3>3
  <2> QED
    BY <2>5, <2>6
<1> QED
  BY <1>2, <1>3

LEMMA CapitalizedType ==
  ASSUME NEW w \in Words
  PROVE  /\ Capitalized(w) \in Words /\ Len(Capitalized(w)) = Len(w)
         /\ \A i \in 1..Len(w) : Capitalized(w)[i] = IF i = 1 /\ w[1] = "a" THEN "A" ELSE w[i]
<1> DEFINE c == Capitalized(w)
           n == Len(w)
<1>1. /\ n \in Nat /\ n >= 1 /\ DOMAIN w = 1..n /\ w \in Seq(Characters)
      /\ \A i \in 1..n : w[i] \in Characters /\ (w[i] \in Splits <=> w[1] \in Splits)
  BY DEF Words
<1>2. /\ DOMAIN c = 1..n
      /\ \A i \in 1..n : c[i] = IF i = 1 /\ w[1] = "a" THEN "A" ELSE w[i]
  BY <1>1 DEF Capitalized
<1>3. \A i \in 1..n : c[i] \in Characters /\ (c[i] \in Splits <=> w[1] \in Splits)
  <2> TAKE i \in 1..n
  <2>1. CASE i = 1 /\ w[1] = "a"
    <3>1. c[i] = "A" /\ w[1] = "a"
      BY <1>2, <2>1
    <3>2. "A" \in AllLetters /\ "a" \in AllLetters
      BY DEF AllLetters, Capitals
    <3> QED
      BY <3>1, <3>2, LettersApart DEF Characters
  <2>2. CASE ~(i = 1 /\ w[1] = "a")
    <3>1. c[i] = w[i]
      BY <1>2, <2>2
    <3> QED
      BY <1>1, <3>1
  <2> QED
    BY <2>1, <2>2
<1>4. c \in Seq(Characters) /\ Len(c) = n
  <2>1. c = [i \in 1..n |-> IF i = 1 /\ w[1] = "a" THEN "A" ELSE w[i]]
    BY <1>1 DEF Capitalized
  <2> HIDE DEF c
  <2>2. c \in [1..n -> Characters]
    BY <1>2, <1>3, <2>1
  <2> QED
    BY <1>1, <2>2
<1> HIDE DEF c
<1>5. c # <<>> /\ 1 \in 1..n
  BY <1>1, <1>4
<1>6. c \in Words
  BY <1>1, <1>3, <1>4, <1>5 DEF Words
<1> QED
  BY <1>2, <1>4, <1>6 DEF c

LEMMA SaidType ==
  ASSUME ReaderType, ProseType, next <= Len(words)
  PROVE  /\ words[next] \in Words /\ Said \in Words /\ Len(Said) = Len(words[next])
         /\ \A i \in 1..Len(Said) :
              \/ Said[i] = words[next][i]
              \/ i = 1 /\ Said[1] = "A" /\ words[next][1] = "a"
         /\ Said[1] = "a" => ~IsEnding(output)
         /\ Gap \in {<<>>, <<"space">>}
         /\ Gap # <<>> =>
              output # <<>> /\ Said[1] \notin JOIN_BEFORE /\ output[Len(output)] \notin JOIN_AFTER
<1> DEFINE w == words[next]
<1>1. w \in Words
  BY DEF ReaderType, ProseType
<1>2. /\ Capitalized(w) \in Words /\ Len(Capitalized(w)) = Len(w)
      /\ \A i \in 1..Len(w) : Capitalized(w)[i] = IF i = 1 /\ w[1] = "a" THEN "A" ELSE w[i]
  BY <1>1, CapitalizedType
<1>3. 1 \in 1..Len(w)
  BY <1>1 DEF Words
<1>4. Gap = IF output = <<>> \/ (Said # <<>> /\ Said[1] \in JOIN_BEFORE) \/ output[Len(output)] \in JOIN_AFTER
            THEN <<>> ELSE <<"space">>
  BY Zenon DEF Gap, Spacing, Last
<1>5. Said[1] = "a" => ~IsEnding(output)
  <2> SUFFICES ASSUME Said[1] = "a", IsEnding(output) PROVE FALSE
    OBVIOUS
  <2>1. Said = Capitalized(w)
    BY Zenon DEF Said, MustCapitalize
  <2>2. Capitalized(w)[1] # "a"
    BY <1>2, <1>3
  <2> QED
    BY <2>1, <2>2
<1>6. CASE MustCapitalize(must_capitalize, w, output)
  <2>1. Said = Capitalized(w)
    BY <1>6 DEF Said
  <2> HIDE DEF w
  <2>2. \A i \in 1..Len(Said) : Said[i] = w[i] \/ (i = 1 /\ Said[1] = "A" /\ w[1] = "a")
    BY <1>2, <2>1
  <2> QED
    BY <1>1, <1>2, <1>4, <1>5, <2>1, <2>2 DEF w, Words
<1>7. CASE ~MustCapitalize(must_capitalize, w, output)
  <2>1. Said = w
    BY <1>7 DEF Said
  <2> QED
    BY <1>1, <1>4, <1>5, <2>1 DEF Words
<1> QED
  BY <1>6, <1>7

\* Where everything stands in three sequences one behind the other.
LEMMA Laid ==
  ASSUME NEW S, NEW o \in Seq(S), NEW g \in Seq(S), NEW w \in Seq(S), NEW r, r = (o \o g) \o w
  PROVE  /\ r \in Seq(S) /\ Len(r) = Len(o) + Len(g) + Len(w)
         /\ \A i \in 1..Len(o) : r[i] = o[i]
         /\ \A i \in 1..Len(g) : r[Len(o) + i] = g[i]
         /\ \A i \in 1..Len(w) : r[Len(o) + Len(g) + i] = w[i]
<1> DEFINE a == o \o g
<1>1. /\ a \in Seq(S) /\ Len(a) = Len(o) + Len(g)
      /\ \A i \in 1..(Len(o) + Len(g)) : a[i] = IF i <= Len(o) THEN o[i] ELSE g[i - Len(o)]
      /\ Len(o) \in Nat /\ Len(g) \in Nat /\ Len(w) \in Nat
  BY ConcatProperties
<1> HIDE DEF a
<1>2. /\ r \in Seq(S) /\ Len(r) = Len(a) + Len(w)
      /\ \A i \in 1..(Len(a) + Len(w)) : r[i] = IF i <= Len(a) THEN a[i] ELSE w[i - Len(a)]
  <2> DEFINE c == a \o w
  <2>0. a \in Seq(S)
    BY <1>1
  <2>1. /\ c \in Seq(S) /\ Len(c) = Len(a) + Len(w)
        /\ \A i \in 1..(Len(a) + Len(w)) : c[i] = IF i <= Len(a) THEN a[i] ELSE w[i - Len(a)]
    BY <2>0, ConcatProperties
  <2> HIDE DEF c
  <2>2. r = c
    BY DEF a, c
  <2> QED
    BY <2>1, <2>2
<1>3. \A i \in 1..Len(o) : r[i] = o[i]
  BY <1>1, <1>2
<1>4. \A i \in 1..Len(g) : r[Len(o) + i] = g[i]
  <2> TAKE i \in 1..Len(g)
  <2>1. /\ Len(o) + i \in 1..(Len(a) + Len(w)) /\ Len(o) + i <= Len(a)
        /\ Len(o) + i \in 1..(Len(o) + Len(g)) /\ ~(Len(o) + i <= Len(o)) /\ (Len(o) + i) - Len(o) = i
    BY <1>1
  <2> QED
    BY <1>1, <1>2, <2>1
<1>5. \A i \in 1..Len(w) : r[Len(o) + Len(g) + i] = w[i]
  <2> TAKE i \in 1..Len(w)
  <2> DEFINE k == Len(o) + Len(g) + i
  <2>1. k \in 1..(Len(a) + Len(w)) /\ ~(k <= Len(a)) /\ k - Len(a) = i
    BY <1>1
  <2> HIDE DEF k
  <2>2. r[k] = w[i]
    BY <1>2, <2>1
  <2> QED
    BY <2>2 DEF k
<1> QED
  BY <1>1, <1>2, <1>3, <1>4, <1>5

\* What a paragraph is closed to.
LEMMA ClosedType ==
  ASSUME NEW out \in Seq(AllChars)
  PROVE  /\ Closed(out) \in Seq(AllChars) /\ IsEnding(Closed(out))
         /\ Closed(out) = out \/ Closed(out)[Len(Closed(out))] # "space"
         /\ \/ Closed(out) = out
            \/ out # <<>> /\ out[Len(out)] \in Ascii /\ Closed(out) = Append(Front(out), ".")
            \/ out # <<>> /\ Closed(out) = Append(out, ".")
<1>1. CASE IsEnding(out)
  BY <1>1 DEF Closed
<1>2. CASE ~IsEnding(out)
  <2>1. out # <<>>
    BY <1>2, EndingEmpty
  <2>2. \A x \in Seq(AllChars) : /\ Append(x, ".") \in Seq(AllChars) /\ IsEnding(Append(x, "."))
                                 /\ Append(x, ".")[Len(Append(x, "."))] # "space"
    <3> TAKE x \in Seq(AllChars)
    <3> DEFINE y == Append(x, ".")
               n == Len(x) + 1
    <3>1. "." \in AllChars
      BY DEF AllChars
    <3>2. y \in Seq(AllChars) /\ Len(y) = n /\ y[n] = "." /\ Len(x) \in Nat
      BY <3>1, AppendProperties
    <3> HIDE DEF y
    <3>3. n \in 1..Len(y) /\ (n + 1)..Len(y) = {}
      BY <3>2
    <3> HIDE DEF n
    <3>4. IsEnding(y) <=> EndsAt(y, n)
      BY <3>2, <3>3, EndingAt
    <3> QED
      BY <3>2, <3>4 DEF EndsAt, y
  <2>3. Front(out) \in Seq(AllChars)
    <3>1. Len(out) - 1 \in 0..Len(out)
      BY <2>1
    <3> QED
      BY <3>1, Initials DEF Front
  <2>4. CASE out[Len(out)] \in Ascii
    <3>1. Closed(out) = Append(Front(out), ".")
      BY <1>2, <2>4 DEF Closed, Last
    <3> QED
      BY <2>1, <2>2, <2>3, <2>4, <3>1
  <2>5. CASE out[Len(out)] \notin Ascii
    <3>1. Closed(out) = Append(out, ".")
      BY <1>2, <2>5 DEF Closed, Last
    <3> QED
      BY <2>1, <2>2, <3>1
  <2> QED
    BY <2>4, <2>5
<1> QED
  BY <1>1, <1>2

LEMMA ProseTypeStep == ASSUME ReaderType, ProseType, [Next]_vars PROVE ProseType'
<1>1. CASE UNCHANGED vars
  BY <1>1 DEF ProseType, vars, readerVars, proseVars
<1>2. CASE Read
  <2>1. ReadWord /\ UNCHANGED proseVars /\ phase = "reading"
    BY <1>2 DEF Read
  <2>2. words' = Append(words, Taken) /\ Taken \in Words
    BY <2>1, ReadStep, TakenType DEF ReaderType
  <2>3. Len(words') = Len(words) + 1 /\ Len(words) \in Nat
    BY <2>2, AppendProperties DEF ReaderType
  <2> QED
    BY <2>1, <2>3 DEF ProseType, proseVars
<1>3. CASE Generate
  BY <1>3 DEF Generate, ProseType, readerVars
<1>4. CASE Skip
  BY <1>4 DEF Skip, ProseType, ReaderType, readerVars
<1>5. CASE Take
  <2>1. /\ next <= Len(words) /\ words' = words /\ phase' = "taking"
        /\ next' = next + 1 /\ output' = (output \o Gap) \o Said
    BY <1>5, TakeStep
  <2>2. Said \in Words /\ Gap \in {<<>>, <<"space">>}
    BY <2>1, SaidType
  <2>3. /\ Said \in Seq(AllChars) /\ Gap \in Seq(AllChars) /\ output \in Seq(AllChars)
        /\ Len(Said) \in Nat \ {0} /\ \A i \in 1..Len(Said) : Said[i] # "space"
    <3>1. /\ Said \in Seq(AllChars) /\ Len(Said) \in Nat \ {0}
          /\ \A i \in 1..Len(Said) : Said[i] # "space"
      BY <2>2 DEF Words, Characters
    <3>2. <<>> \in Seq(AllChars) /\ <<"space">> \in Seq(AllChars)
      BY DEF AllChars
    <3> QED
      BY <2>2, <3>1, <3>2 DEF ProseType
  <2>4. /\ output' \in Seq(AllChars) /\ Len(output') = Len(output) + Len(Gap) + Len(Said)
        /\ \A i \in 1..Len(Said) : output'[Len(output) + Len(Gap) + i] = Said[i]
    BY <2>1, <2>3, Laid
  <2>5. output'[Len(output')] # "space"
    BY <2>3, <2>4
  <2>6. next' \in 1..(Len(words') + 1)
    BY <2>1 DEF ProseType, ReaderType
  <2> QED
    BY <2>1, <2>4, <2>5, <2>6 DEF ProseType
<1>6. CASE Close
  <2>1. output' = Closed(output) /\ phase' = "closed" /\ words' = words /\ next' = next
    BY <1>6 DEF Close, readerVars
  <2>2. /\ Closed(output) \in Seq(AllChars)
        /\ Closed(output) = output \/ Closed(output)[Len(Closed(output))] # "space"
    BY ClosedType DEF ProseType
  <2>3. output' # <<>> /\ output'[Len(output')] = "space" => ~IsEnding(output')
    <3> SUFFICES ASSUME output' # <<>>, output'[Len(output')] = "space" PROVE ~IsEnding(output')
      BY Zenon DEF IsEnding, Trimmed
    <3>1. output' = output
      BY <2>1, <2>2
    <3>2. output # <<>> /\ output[Len(output)] = "space"
      BY <3>1
    <3> QED
      BY <3>1, <3>2 DEF ProseType
  <2> QED
    BY <2>1, <2>2, <2>3 DEF ProseType
<1>7. CASE TakeEmpty
  <2>1. /\ words' = words /\ next' = next /\ phase \in {"skipping", "taking"} /\ phase' \in {"panicked", "taking"}
        /\ \/ output' = output
           \/ ~IsEnding(output) /\ output' = Append(output, "space")
    BY <1>7, EmptyStep
  <2>2. output \in Seq(AllChars) /\ (output # <<>> /\ output[Len(output)] = "space" => ~IsEnding(output))
    BY DEF ProseType
  <2>3. CASE output' = output
    <3>1. output' \in Seq(AllChars) /\ (output' # <<>> /\ output'[Len(output')] = "space" => ~IsEnding(output'))
      BY <2>2, <2>3
    <3> QED
      BY <2>1, <3>1 DEF ProseType
  <2>4. CASE ~IsEnding(output) /\ output' = Append(output, "space")
    <3>1. output' \in Seq(AllChars) /\ ~IsEnding(output')
      <4>1. \A u \in {Append(output, "space")} : u \in Seq(AllChars) /\ ~IsEnding(u)
        BY <2>2, <2>4, EndsPadded
      <4> QED
        BY <2>4, <4>1
    <3> QED
      BY <2>1, <3>1 DEF ProseType
  <2> QED
    BY <2>1, <2>3, <2>4
<1> QED
  BY <1>1, <1>2, <1>3, <1>4, <1>5, <1>6, <1>7 DEF Next

THEOREM ProseTypeCorrect == Spec => []ProseType
<1>1. Init => ProseType
  <2> SUFFICES ASSUME Init PROVE ProseType
    OBVIOUS
  <2>1. output = <<>> /\ next = 1 /\ words = <<>>
    BY ReaderStart DEF Init
  <2>2. output \in Seq(AllChars) /\ Len(words) = 0
    BY <2>1, EmptySeq
  <2> QED
    BY <2>1, <2>2 DEF ProseType
<1> QED
  BY <1>1, ProseTypeStep, ReaderTypeCorrect, PTL DEF Spec

-----------------------------------------------------------------------------
(* Paragraphs that are set well.                                           *)

\* What WellSet says of the output, place by place.
LettersSet(s) == \A i \in 1..Len(s) : s[i] = "a" => ~IsEnding(SubSeq(s, 1, i - 1))

SpacesSet(s, g, k) ==
  \A i \in 1..Len(s) : s[i] = "space" =>
    /\ i > 1 /\ s[i-1] \notin JOIN_AFTER
    /\ \/ i \in g /\ ~IsEnding(SubSeq(s, 1, i - 1))
       \/ i < Len(s) /\ s[i+1] # "space" /\ (i < k => s[i+1] \notin JOIN_BEFORE)

SetWell ==
  /\ LettersSet(output)
  /\ SpacesSet(output, gaps, IF phase = "closed" THEN Len(output) - 1 ELSE Len(output))

LEMMA Beginning ==
  ASSUME NEW S
  PROVE  \A u \in Seq(S) : \A x \in Nat : x <= Len(u) =>
           /\ SubSeq(u, 1, x) \in Seq(S) /\ Len(SubSeq(u, 1, x)) = x
           /\ \A y \in 1..x : SubSeq(u, 1, x)[y] = u[y]
<1> TAKE u \in Seq(S)
<1> TAKE x \in Nat
<1> HAVE x <= Len(u)
<1>1. 0 \in 0..Len(u) /\ x \in 0..Len(u) /\ x - 0 = x /\ 0 + 1 = 1 /\ \A y \in 1..x : 0 + y = y
  OBVIOUS
<1>2. /\ SubSeq(u, 0 + 1, x) \in Seq(S) /\ Len(SubSeq(u, 0 + 1, x)) = x - 0
      /\ \A y \in 1..(x - 0) : SubSeq(u, 0 + 1, x)[y] = u[0 + y]
  BY <1>1, Part
<1> QED
  BY <1>1, <1>2

\* Two sequences that begin in the same way.
LEMMA SameFirst ==
  ASSUME NEW S, NEW s \in Seq(S), NEW t \in Seq(S), NEW k \in Nat, k <= Len(s), k <= Len(t),
         \A i \in 1..k : s[i] = t[i]
  PROVE  SubSeq(s, 1, k) = SubSeq(t, 1, k)
<1> DEFINE a == SubSeq(s, 1, k)
           b == SubSeq(t, 1, k)
<1>1. 0 \in 0..Len(s) /\ 0 \in 0..Len(t) /\ k \in 0..Len(s) /\ k \in 0..Len(t) /\ k - 0 = k /\ 0 + 1 = 1
      /\ \A i \in 1..k : 0 + i = i
  OBVIOUS
<1>2. /\ SubSeq(s, 0 + 1, k) \in Seq(S) /\ Len(SubSeq(s, 0 + 1, k)) = k - 0
      /\ \A i \in 1..(k - 0) : SubSeq(s, 0 + 1, k)[i] = s[0 + i]
      /\ SubSeq(t, 0 + 1, k) \in Seq(S) /\ Len(SubSeq(t, 0 + 1, k)) = k - 0
      /\ \A i \in 1..(k - 0) : SubSeq(t, 0 + 1, k)[i] = t[0 + i]
  BY <1>1, Part
<1>3. /\ a \in Seq(S) /\ Len(a) = k /\ \A i \in 1..k : a[i] = s[i]
      /\ b \in Seq(S) /\ Len(b) = k /\ \A i \in 1..k : b[i] = t[i]
  BY <1>1, <1>2
<1> HIDE DEF a, b
<1>4. a = b
  BY <1>3, SeqEqual
<1> QED
  BY <1>4 DEF a, b

\* The last place of white space is that of an empty word.
LEMMA SetBefore ==
  ASSUME NEW o \in Seq(AllChars), NEW g, LettersSet(o), SpacesSet(o, g, Len(o)),
         NEW r \in Seq(AllChars), NEW h, g \subseteq h, NEW k \in Nat, k <= Len(o), k <= Len(r),
         \A i \in 1..k : r[i] = o[i], NEW i \in 1..k
  PROVE  /\ r[i] = "a" => ~IsEnding(SubSeq(r, 1, i - 1))
         /\ r[i] = "space" =>
              /\ i > 1 /\ r[i-1] \notin JOIN_AFTER
              /\ \/ i \in h /\ ~IsEnding(SubSeq(r, 1, i - 1))
                 \/ i < Len(o) /\ o[i+1] # "space" /\ o[i+1] \notin JOIN_BEFORE
<1>1. /\ i \in Nat /\ i >= 1 /\ i - 1 \in Nat /\ i - 1 <= k /\ i - 1 <= Len(o) /\ i - 1 <= Len(r)
      /\ i \in 1..Len(o) /\ r[i] = o[i] /\ Len(o) \in Nat /\ Len(r) \in Nat
  OBVIOUS
<1>2. SubSeq(r, 1, i - 1) = SubSeq(o, 1, i - 1)
  <2> DEFINE m == i - 1
  <2>1. m \in Nat /\ m <= Len(o) /\ m <= Len(r) /\ \A j \in 1..m : r[j] = o[j]
    BY <1>1
  <2> HIDE DEF m
  <2>2. SubSeq(r, 1, m) = SubSeq(o, 1, m)
    BY <2>1, SameFirst
  <2> QED
    BY <2>2 DEF m
<1>3. r[i] = "a" => ~IsEnding(SubSeq(r, 1, i - 1))
  BY <1>1, <1>2 DEF LettersSet
<1>4. ASSUME r[i] = "space"
      PROVE  /\ i > 1 /\ r[i-1] \notin JOIN_AFTER
             /\ \/ i \in h /\ ~IsEnding(SubSeq(r, 1, i - 1))
                \/ i < Len(o) /\ o[i+1] # "space" /\ o[i+1] \notin JOIN_BEFORE
  <2>1. /\ i > 1 /\ o[i-1] \notin JOIN_AFTER
        /\ \/ i \in g /\ ~IsEnding(SubSeq(o, 1, i - 1))
           \/ i < Len(o) /\ o[i+1] # "space" /\ (i < Len(o) => o[i+1] \notin JOIN_BEFORE)
    BY <1>1, <1>4 DEF SpacesSet
  <2>2. i - 1 \in 1..k /\ r[i-1] = o[i-1]
    BY <1>1, <2>1
  <2> QED
    BY <1>2, <2>1, <2>2
<1> QED
  BY <1>3, <1>4

\* Words that are put behind a paragraph that is set well.
LEMMA LaidWell ==
  ASSUME NEW o \in Seq(AllChars), NEW gs, LettersSet(o), SpacesSet(o, gs, Len(o)),
         NEW w \in Words, w[1] = "a" => ~IsEnding(o),
         NEW g \in {<<>>, <<"space">>},
         g # <<>> => o # <<>> /\ w[1] \notin JOIN_BEFORE /\ o[Len(o)] \notin JOIN_AFTER,
         NEW r, r = (o \o g) \o w
  PROVE  LettersSet(r) /\ SpacesSet(r, gs, Len(r))
<1> DEFINE n == Len(o)
           e == Len(g)
           m == Len(w)
<1>1. /\ w \in Seq(AllChars) /\ m \in Nat /\ m >= 1 /\ n \in Nat
      /\ \A i \in 1..m : w[i] # "space" /\ (w[i] \in Splits <=> w[1] \in Splits)
  BY DEF Words, Characters
<1>2. g \in Seq(AllChars) /\ ((e = 0 /\ g = <<>>) \/ (e = 1 /\ g[1] = "space" /\ g # <<>>))
  <2>1. CASE g = <<>>
    BY <2>1
  <2>2. CASE g = <<"space">>
    <3>1. "space" \in AllChars
      BY DEF AllChars
    <3> QED
      BY <2>2, <3>1
  <2> QED
    BY <2>1, <2>2
<1>3. /\ r \in Seq(AllChars) /\ Len(r) = n + e + m
      /\ \A i \in 1..n : r[i] = o[i]
      /\ \A i \in 1..e : r[n + i] = g[i]
      /\ \A i \in 1..m : r[n + e + i] = w[i]
  BY <1>1, <1>2, Laid
<1>4. (n = 0 <=> o = <<>>) /\ e \in {0, 1}
  BY <1>2
<1>5. e = 1 => n > 0 /\ r[n + 1] = "space" /\ w[1] \notin JOIN_BEFORE /\ o[n] \notin JOIN_AFTER
  BY <1>2, <1>3, <1>4
<1>6. \A i \in 1..Len(r) : i \in 1..n \/ (i = n + 1 /\ e = 1) \/ \E j \in 1..m : i = n + e + j
  <2> TAKE i \in 1..Len(r)
  <2>1. CASE i > n + e
    <3>1. i - (n + e) \in 1..m /\ i = n + e + (i - (n + e))
      BY <1>1, <1>3, <1>4, <2>1
    <3> QED
      BY <3>1
  <2>2. CASE ~(i > n + e)
    <3>1. i \in Nat /\ i >= 1
      OBVIOUS
    <3> HIDE DEF n, e
    <3>2. i \in 1..n \/ (i = n + 1 /\ e = 1)
      BY <1>1, <1>4, <2>2, <3>1
    <3> QED
      BY <3>2
  <2> QED
    BY <2>1, <2>2
<1>7. ASSUME NEW i \in 1..n
      PROVE  /\ r[i] = "a" => ~IsEnding(SubSeq(r, 1, i - 1))
             /\ r[i] = "space" =>
                  /\ i > 1 /\ r[i-1] \notin JOIN_AFTER
                  /\ \/ i \in gs /\ ~IsEnding(SubSeq(r, 1, i - 1))
                     \/ i < Len(o) /\ o[i+1] # "space" /\ o[i+1] \notin JOIN_BEFORE
  <2>1. gs \subseteq gs /\ n <= Len(o) /\ n <= Len(r)
    BY <1>1, <1>3, <1>4
  <2> QED
    BY <1>1, <1>3, <2>1, SetBefore
\* What stands in front of the first letter of the word.
<1>8. w[1] = "a" => ~IsEnding(SubSeq(r, 1, n + e))
  <2> SUFFICES ASSUME w[1] = "a" PROVE ~IsEnding(SubSeq(r, 1, n + e))
    OBVIOUS
  <2>1. CASE e = 0
    <3>1. SubSeq(r, 1, n) = SubSeq(o, 1, n)
      <4>1. n <= Len(o) /\ n <= Len(r)
        BY <1>1, <1>3, <2>1
      <4> QED
        BY <1>1, <1>3, <4>1, SameFirst
    <3>2. SubSeq(o, 1, n) = o
      BY SubSeqFull
    <3>3. n + e = n
      BY <1>1, <2>1
    <3> QED
      BY <3>1, <3>2, <3>3
  <2>2. CASE e = 1
    <3> DEFINE u == Append(o, "space")
    <3>1. u \in Seq(AllChars) /\ ~IsEnding(u)
      BY EndsPadded
    <3>2. /\ Len(u) = n + 1 /\ u[n + 1] = "space" /\ \A i \in 1..n : u[i] = o[i]
      <4>1. "space" \in AllChars
        BY DEF AllChars
      <4> QED
        BY <4>1, AppendProperties
    <3> HIDE DEF u
    <3>3. \A i \in 1..(n + 1) : r[i] = u[i]
      <4> TAKE i \in 1..(n + 1)
      <4>1. i = n + 1 \/ i \in 1..n
        BY <1>1
      <4> QED
        BY <1>3, <1>5, <2>2, <3>2, <4>1
    <3>4. SubSeq(r, 1, n + 1) = SubSeq(u, 1, n + 1)
      <4>1. n + 1 \in Nat /\ n + 1 <= Len(u) /\ n + 1 <= Len(r)
        BY <1>1, <1>3, <2>2, <3>2
      <4> QED
        BY <1>3, <3>1, <3>3, <4>1, SameFirst
    <3>5. SubSeq(u, 1, n + 1) = u
      BY <3>1, <3>2, SubSeqFull
    <3> QED
      BY <2>2, <3>1, <3>4, <3>5
  <2> QED
    BY <1>4, <2>1, <2>2
<1> HIDE DEF n, e, m
<1>9. LettersSet(r)
  <2> SUFFICES ASSUME NEW i \in 1..Len(r), r[i] = "a" PROVE ~IsEnding(SubSeq(r, 1, i - 1))
    BY DEF LettersSet
  <2>1. CASE i \in 1..n
    BY <1>7, <2>1, <2>1
  <2>2. CASE i = n + 1 /\ e = 1
    BY <1>5, <2>2
  <2>3. ASSUME NEW j \in 1..m, i = n + e + j PROVE ~IsEnding(SubSeq(r, 1, i - 1))
    <3>1. w[j] = "a"
      BY <1>3, <2>3
    <3>2. CASE j = 1
      <4>1. i - 1 = n + e
        BY <1>1, <1>4, <2>3, <3>2
      <4> QED
        BY <1>8, <3>1, <3>2, <4>1
    <3>3. CASE j # 1
      <4> DEFINE k == i - 1
                 t == SubSeq(r, 1, k)
      <4>1. /\ j - 1 \in 1..m /\ k = n + e + (j - 1) /\ k \in Nat /\ k >= 1 /\ k <= Len(r)
            /\ k \in 1..Len(r) /\ Len(r) \in Nat
        BY <1>1, <1>3, <1>4, <2>3, <3>3
      <4>2. r[k] = w[j-1]
        BY <1>3, <4>1
      <4>3. w[j-1] # "space" /\ w[j-1] \notin Splits
        BY <1>1, <3>1, <4>1 DEF Splits, JOIN_BEFORE, JOIN_AFTER
      <4>4. w[j-1] \notin {".", "rdquo", ")"}
        BY <4>3 DEF Splits, JOIN_BEFORE, JOIN_AFTER
      <4> HIDE DEF k
      <4>5. t \in Seq(AllChars) /\ Len(t) = k /\ t[k] = r[k]
        <5>1. r \in Seq(AllChars)
          BY <1>3
        <5>2. k \in 1..k
          BY <4>1
        <5>3. \A u \in Seq(AllChars) : \A x \in Nat : x <= Len(u) =>
                /\ SubSeq(u, 1, x) \in Seq(AllChars) /\ Len(SubSeq(u, 1, x)) = x
                /\ \A y \in 1..x : SubSeq(u, 1, x)[y] = u[y]
          BY Beginning
        <5> QED
          BY <4>1, <5>1, <5>2, <5>3
      <4> HIDE DEF t
      <4>6. k \in 1..Len(t) /\ (k + 1)..Len(t) = {} /\ t[k] # "space"
        BY <4>1, <4>2, <4>3, <4>5
      <4>7. IsEnding(t) <=> EndsAt(t, k)
        BY <4>5, <4>6, EndingAt
      <4>8. ~EndsAt(t, k)
        BY <4>2, <4>4, <4>5 DEF EndsAt
      <4> QED
        BY <4>7, <4>8 DEF t, k
    <3> QED
      BY <3>2, <3>3
  <2> QED
    BY <1>6, <2>1, <2>2, <2>3
<1>10. SpacesSet(r, gs, Len(r))
  <2> SUFFICES ASSUME NEW i \in 1..Len(r), r[i] = "space"
               PROVE  /\ i > 1 /\ r[i-1] \notin JOIN_AFTER
                      /\ \/ i \in gs /\ ~IsEnding(SubSeq(r, 1, i - 1))
                         \/ i < Len(r) /\ r[i+1] # "space" /\ r[i+1] \notin JOIN_BEFORE
    BY DEF SpacesSet
  <2>1. CASE i \in 1..n
    <3>1. /\ i > 1 /\ r[i-1] \notin JOIN_AFTER
          /\ \/ i \in gs /\ ~IsEnding(SubSeq(r, 1, i - 1))
             \/ i < n /\ o[i+1] # "space" /\ o[i+1] \notin JOIN_BEFORE
      BY <1>7, <2>1 DEF n
    <3>2. i < n => i + 1 \in 1..n /\ i < Len(r)
      BY <1>1, <1>3, <1>4, <2>1
    <3>3. i < n => r[i+1] = o[i+1]
      BY <1>3, <3>2
    <3> QED
      BY <3>1, <3>2, <3>3
  <2>2. CASE i = n + 1 /\ e = 1
    <3>1. n > 0 /\ o[n] \notin JOIN_AFTER /\ n \in 1..n /\ i - 1 = n /\ 1 \in 1..m /\ i + 1 = n + e + 1
      BY <1>1, <1>5, <2>2
    <3>2. r[n] = o[n] /\ r[i+1] = w[1]
      BY <1>3, <3>1
    <3>4. i > 1 /\ i < Len(r)
      <4>1. Len(r) = n + e + m
        BY <1>3
      <4> QED
        BY <1>1, <2>2, <3>1, <4>1
    <3>3. w[1] # "space" /\ w[1] \notin JOIN_BEFORE
      BY <1>1, <1>5, <2>2, <3>1
    <3> QED
      BY <3>1, <3>2, <3>3, <3>4
  <2>3. ~ \E j \in 1..m : i = n + e + j
    <3>1. ASSUME NEW j \in 1..m, i = n + e + j PROVE FALSE
      <4>1. r[i] = w[j]
        BY <1>3, <3>1
      <4>2. w[j] # "space"
        BY <1>1
      <4> QED
        BY <4>1, <4>2
    <3> QED
      BY <3>1
  <2> QED
    BY <1>6, <2>1, <2>2, <2>3
<1> QED
  BY <1>9, <1>10

\* White space that an empty word puts behind it.
LEMMA PaddedWell ==
  ASSUME NEW o \in Seq(AllChars), NEW gs, LettersSet(o), SpacesSet(o, gs, Len(o)),
         o # <<>>, ~IsEnding(o), o[Len(o)] \notin JOIN_AFTER,
         NEW r, r = Append(o, "space"), NEW hs, hs = gs \cup {Len(o) + 1}
  PROVE  LettersSet(r) /\ SpacesSet(r, hs, Len(r))
<1> DEFINE n == Len(o)
<1>1. n \in Nat /\ n >= 1 /\ gs \subseteq hs
  OBVIOUS
<1>2. /\ r \in Seq(AllChars) /\ Len(r) = n + 1 /\ r[n + 1] = "space"
      /\ \A i \in 1..n : r[i] = o[i]
  <2>1. "space" \in AllChars
    BY DEF AllChars
  <2> QED
    BY <2>1, AppendProperties
<1>3. ASSUME NEW i \in 1..n
      PROVE  /\ r[i] = "a" => ~IsEnding(SubSeq(r, 1, i - 1))
             /\ r[i] = "space" =>
                  /\ i > 1 /\ r[i-1] \notin JOIN_AFTER
                  /\ \/ i \in hs /\ ~IsEnding(SubSeq(r, 1, i - 1))
                     \/ i < Len(o) /\ o[i+1] # "space" /\ o[i+1] \notin JOIN_BEFORE
  <2>1. n <= Len(o) /\ n <= Len(r)
    BY <1>1, <1>2
  <2> QED
    BY <1>1, <1>2, <2>1, SetBefore
<1>4. SubSeq(r, 1, n) = o
  <2>1. SubSeq(r, 1, n) = SubSeq(o, 1, n)
    <3>1. n <= Len(o) /\ n <= Len(r)
      BY <1>1, <1>2
    <3> QED
      BY <1>1, <1>2, <3>1, SameFirst
  <2> QED
    BY <2>1, SubSeqFull
<1> HIDE DEF n
<1>5. \A i \in 1..Len(r) : i \in 1..n \/ i = n + 1
  BY <1>1, <1>2
<1>6. LettersSet(r)
  <2> SUFFICES ASSUME NEW i \in 1..Len(r), r[i] = "a" PROVE ~IsEnding(SubSeq(r, 1, i - 1))
    BY DEF LettersSet
  <2>1. i \in 1..n
    BY <1>2, <1>5
  <2> QED
    BY <1>3, <2>1
<1>7. SpacesSet(r, hs, Len(r))
  <2> SUFFICES ASSUME NEW i \in 1..Len(r), r[i] = "space"
               PROVE  /\ i > 1 /\ r[i-1] \notin JOIN_AFTER
                      /\ \/ i \in hs /\ ~IsEnding(SubSeq(r, 1, i - 1))
                         \/ i < Len(r) /\ r[i+1] # "space" /\ r[i+1] \notin JOIN_BEFORE
    BY DEF SpacesSet
  <2>1. CASE i \in 1..n
    <3>1. /\ i > 1 /\ r[i-1] \notin JOIN_AFTER
          /\ \/ i \in hs /\ ~IsEnding(SubSeq(r, 1, i - 1))
             \/ i < n /\ o[i+1] # "space" /\ o[i+1] \notin JOIN_BEFORE
      BY <1>3, <2>1 DEF n
    <3>2. i < n => i + 1 \in 1..n /\ i < Len(r)
      BY <1>1, <1>2, <2>1
    <3>3. i < n => r[i+1] = o[i+1]
      BY <1>2, <3>2
    <3> QED
      BY <3>1, <3>2, <3>3
  <2>2. CASE i = n + 1
    <3>1. i > 1 /\ i - 1 = n /\ n \in 1..n /\ i \in hs
      BY <1>1, <2>2 DEF n
    <3>2. r[n] = o[n] /\ r[n] \notin JOIN_AFTER
      BY <1>2, <3>1 DEF n
    <3> QED
      BY <1>4, <3>1, <3>2
  <2> QED
    BY <1>5, <2>1, <2>2
<1> QED
  BY <1>6, <1>7

\* A paragraph that a stop is put behind, or in the place of its last character.
LEMMA ClosedWell ==
  ASSUME NEW o \in Seq(AllChars), NEW gs, LettersSet(o), SpacesSet(o, gs, Len(o))
  PROVE  LettersSet(Closed(o)) /\ SpacesSet(Closed(o), gs, Len(Closed(o)) - 1)
<1> DEFINE c == Closed(o)
           n == Len(o)
<1>1. n \in Nat
  OBVIOUS
<1>2. CASE c = o
  <2>1. SpacesSet(o, gs, n - 1)
    <3> SUFFICES ASSUME NEW i \in 1..Len(o), o[i] = "space"
                 PROVE  /\ i > 1 /\ o[i-1] \notin JOIN_AFTER
                        /\ \/ i \in gs /\ ~IsEnding(SubSeq(o, 1, i - 1))
                           \/ i < Len(o) /\ o[i+1] # "space" /\ (i < n - 1 => o[i+1] \notin JOIN_BEFORE)
      BY DEF SpacesSet
    <3>1. /\ i > 1 /\ o[i-1] \notin JOIN_AFTER
          /\ \/ i \in gs /\ ~IsEnding(SubSeq(o, 1, i - 1))
             \/ i < Len(o) /\ o[i+1] # "space" /\ (i < Len(o) => o[i+1] \notin JOIN_BEFORE)
      BY DEF SpacesSet
    <3> QED
      BY <3>1
  <2> HIDE DEF c
  <2>2. LettersSet(c) /\ SpacesSet(c, gs, Len(c) - 1)
    BY <1>2, <2>1
  <2> QED
    BY <2>2 DEF c
<1>3. ASSUME NEW k \in {n - 1, n}, c \in Seq(AllChars), Len(c) = k + 1, c[k + 1] = ".",
             \A i \in 1..k : c[i] = o[i], n > 0
      PROVE  LettersSet(c) /\ SpacesSet(c, gs, Len(c) - 1)
  <2> HIDE DEF c
  <2>1. /\ k \in Nat /\ k <= n /\ k <= Len(c) /\ \A i \in 1..k : i \in 1..n
        /\ \A i \in 1..Len(c) : i \in 1..k \/ i = k + 1
    BY <1>1, <1>3
  <2>2. ASSUME NEW i \in 1..k
        PROVE  /\ c[i] = "a" => ~IsEnding(SubSeq(c, 1, i - 1))
               /\ c[i] = "space" =>
                    /\ i > 1 /\ c[i-1] \notin JOIN_AFTER
                    /\ \/ i \in gs /\ ~IsEnding(SubSeq(c, 1, i - 1))
                       \/ i < Len(o) /\ o[i+1] # "space" /\ o[i+1] \notin JOIN_BEFORE
    <3>1. gs \subseteq gs /\ k <= Len(o)
      BY <2>1
    <3> QED
      BY <1>3, <2>1, <3>1, SetBefore
  <2> HIDE DEF n
  <2>3. LettersSet(c)
    <3> SUFFICES ASSUME NEW i \in 1..Len(c), c[i] = "a" PROVE ~IsEnding(SubSeq(c, 1, i - 1))
      BY DEF LettersSet
    <3>1. i \in 1..k
      BY <1>3, <2>1
    <3> QED
      BY <2>2, <3>1
  <2>4. SpacesSet(c, gs, Len(c) - 1)
    <3> SUFFICES ASSUME NEW i \in 1..Len(c), c[i] = "space"
                 PROVE  /\ i > 1 /\ c[i-1] \notin JOIN_AFTER
                        /\ \/ i \in gs /\ ~IsEnding(SubSeq(c, 1, i - 1))
                           \/ /\ i < Len(c) /\ c[i+1] # "space"
                              /\ i < Len(c) - 1 => c[i+1] \notin JOIN_BEFORE
      BY DEF SpacesSet
    <3>1. i \in 1..k
      BY <1>3, <2>1
    <3>2. /\ i > 1 /\ c[i-1] \notin JOIN_AFTER
          /\ \/ i \in gs /\ ~IsEnding(SubSeq(c, 1, i - 1))
             \/ o[i+1] # "space" /\ o[i+1] \notin JOIN_BEFORE
      BY <2>2, <3>1
    <3>3. i < Len(c)
      BY <1>3, <2>1, <3>1
    <3>4. CASE i = k
      <4>1. c[i+1] # "space" /\ ~(i < Len(c) - 1)
        BY <1>3, <2>1, <3>4
      <4> QED
        BY <3>2, <3>3, <4>1
    <3>5. CASE i # k
      <4>1. i + 1 \in 1..k
        BY <2>1, <3>1, <3>5
      <4>2. c[i+1] = o[i+1]
        BY <1>3, <4>1
      <4> QED
        BY <3>2, <3>3, <4>2
    <3> QED
      BY <3>4, <3>5
  <2> QED
    BY <2>3, <2>4
<1>4. "." \in AllChars /\ c \in Seq(AllChars)
  BY ClosedType DEF AllChars
<1>5. CASE o # <<>> /\ c = Append(o, ".")
  <2>1. Len(c) = n + 1 /\ c[n + 1] = "." /\ (\A i \in 1..n : c[i] = o[i]) /\ n > 0
    BY <1>4, <1>5, AppendProperties
  <2> QED
    BY <1>3, <1>4, <2>1
<1>6. CASE o # <<>> /\ c = Append(Front(o), ".")
  <2> DEFINE f == Front(o)
  <2>1. f \in Seq(AllChars) /\ Len(f) = n - 1 /\ (\A i \in 1..(n - 1) : f[i] = o[i]) /\ n > 0
    <3>1. n > 0 /\ 0 \in 0..Len(o) /\ n - 1 \in 0..Len(o) /\ n - 1 - 0 = n - 1 /\ 0 + 1 = 1
          /\ \A i \in 1..(n-1) : 0 + i = i
      BY <1>1, <1>6
    <3>2. /\ SubSeq(o, 0 + 1, n - 1) \in Seq(AllChars) /\ Len(SubSeq(o, 0 + 1, n - 1)) = n - 1 - 0
          /\ \A i \in 1..(n - 1 - 0) : SubSeq(o, 0 + 1, n - 1)[i] = o[0 + i]
      BY <3>1, Part
    <3> QED
      BY <3>1, <3>2 DEF Front
  <2> HIDE DEF f
  <2>2. c = Append(f, ".")
    BY <1>6 DEF f
  <2> HIDE DEF c
  <2>3. Len(c) = Len(f) + 1 /\ c[Len(f) + 1] = "." /\ (\A i \in 1..Len(f) : c[i] = f[i])
    BY <1>4, <2>1, <2>2, AppendProperties
  <2>4. Len(c) = (n - 1) + 1 /\ c[(n - 1) + 1] = "." /\ (\A i \in 1..(n - 1) : c[i] = o[i]) /\ n > 0
    BY <2>1, <2>3
  <2>5. LettersSet(c) /\ SpacesSet(c, gs, Len(c) - 1)
    BY <1>3, <1>4, <2>4
  <2> QED
    BY <2>5 DEF c
<1> QED
  BY <1>2, <1>5, <1>6, ClosedType

\* For one paragraph and the next.
LEMMA SetWellNext ==
  ASSUME NEW s, s = output', NEW g, g = gaps', LettersSet(s),
         SpacesSet(s, g, IF phase' = "closed" THEN Len(s) - 1 ELSE Len(s))
  PROVE  SetWell'
<1>1. LettersSet(output')
  OBVIOUS
<1>2. SpacesSet(output', gaps', IF phase' = "closed" THEN Len(output') - 1 ELSE Len(output'))
  OBVIOUS
<1> QED
  BY <1>1, <1>2 DEF SetWell

LEMMA SetWellStep == ASSUME ReaderType, ProseType, SetWell, [Next]_vars PROVE SetWell'
<1>0. phase # "closed" => /\ output \in Seq(AllChars) /\ LettersSet(output)
                          /\ SpacesSet(output, gaps, Len(output))
  BY DEF ProseType, SetWell
<1>1. CASE UNCHANGED <<output, gaps, phase>>
  BY <1>1 DEF SetWell
<1>2. CASE Generate
  <2>1. output' = output /\ gaps' = gaps /\ phase # "closed" /\ phase' # "closed"
    BY <1>2 DEF Generate
  <2> QED
    BY <1>0, <2>1, SetWellNext
<1>3. CASE Take
  <2>1. /\ next <= Len(words) /\ phase' = "taking" /\ output' = (output \o Gap) \o Said /\ gaps' = gaps
        /\ phase # "closed"
    <3>1. phase # "closed"
      BY <1>3 DEF Take
    <3> QED
      BY <1>3, <3>1, TakeStep
  <2>2. /\ Said \in Words /\ (Said[1] = "a" => ~IsEnding(output)) /\ Gap \in {<<>>, <<"space">>}
        /\ Gap # <<>> =>
             output # <<>> /\ Said[1] \notin JOIN_BEFORE /\ output[Len(output)] \notin JOIN_AFTER
    BY <2>1, SaidType
  <2>3. \A r \in {output'} : LettersSet(r) /\ SpacesSet(r, gaps, Len(r))
    BY <1>0, <2>1, <2>2, LaidWell
  <2> QED
    BY <2>1, <2>3, SetWellNext
<1>4. CASE Close
  <2>1. output' = Closed(output) /\ phase' = "closed" /\ phase # "closed" /\ gaps' = gaps
    BY <1>4 DEF Close
  <2>2. \A r \in {output'} : LettersSet(r) /\ SpacesSet(r, gaps, Len(r) - 1)
    BY <1>0, <2>1, ClosedWell
  <2> QED
    BY <2>1, <2>2, SetWellNext
<1>5. CASE Read \/ Skip
  BY <1>1, <1>5 DEF Read, Skip, proseVars
<1>6. CASE UNCHANGED vars
  BY <1>1, <1>6 DEF vars, proseVars
<1>7. CASE TakeEmpty
  <2>1. /\ phase # "closed" /\ phase' # "closed"
        /\ \/ output' = output /\ gaps' = gaps
           \/ /\ output # <<>> /\ ~IsEnding(output) /\ output[Len(output)] \notin JOIN_AFTER
              /\ output' = Append(output, "space") /\ gaps' = gaps \cup {Len(output) + 1}
    BY <1>7, EmptyStep
  <2>2. CASE output' = output /\ gaps' = gaps
    BY <1>0, <2>1, <2>2, SetWellNext
  <2>3. CASE /\ output # <<>> /\ ~IsEnding(output) /\ output[Len(output)] \notin JOIN_AFTER
             /\ output' = Append(output, "space") /\ gaps' = gaps \cup {Len(output) + 1}
    <3>1. \A r \in {output'} : \A g \in {gaps'} : LettersSet(r) /\ SpacesSet(r, g, Len(r))
      BY <1>0, <2>1, <2>3, PaddedWell
    <3> QED
      BY <2>1, <3>1, SetWellNext
  <2> QED
    BY <2>1, <2>2, <2>3
<1> QED
  BY <1>2, <1>3, <1>4, <1>5, <1>6, <1>7 DEF Next

\* The letter behind the end of a sentence is a capital, if it is of ASCII, and
\* white space stands between words and nowhere else, but for what an empty word
\* leaves inside of a sentence: in every paragraph made of any text.
THEOREM WellSetCorrect == Spec => []WellSet
<1>1. Init => SetWell
  <2> SUFFICES ASSUME Init PROVE SetWell
    OBVIOUS
  <2>1. output = <<>> /\ Len(output) = 0 /\ phase # "closed"
    BY DEF Init
  <2> QED
    BY <2>1 DEF SetWell, LettersSet, SpacesSet
<1>2. ProseType /\ SetWell => WellSet
  <2> SUFFICES ASSUME ProseType, SetWell PROVE WellSet
    OBVIOUS
  <2> DEFINE n == Len(output)
  <2>1. output \in Seq(AllChars) /\ n \in Nat /\ DOMAIN output = 1..n
    BY DEF ProseType
  <2>2. \A i \in 1..n : output[i] = "a" => ~IsEnding(SubSeq(output, 1, i - 1))
    BY DEF SetWell, LettersSet
  <2>3. ASSUME NEW i \in 1..n, output[i] = "space"
        PROVE  /\ i > 1 /\ output[i - 1] \notin JOIN_AFTER
               /\ \/ i \in gaps /\ ~IsEnding(SubSeq(output, 1, i - 1))
                  \/ /\ i < n /\ output[i + 1] # "space"
                     /\ output[i + 1] \notin JOIN_BEFORE \/ (phase = "closed" /\ i + 1 = n)
    <3>1. CASE phase = "closed"
      <4>1. SpacesSet(output, gaps, n - 1)
        BY <3>1 DEF SetWell
      <4>2. i < n => i < n - 1 \/ i + 1 = n
        <5>1. n \in Nat /\ i \in 1..n
          BY <2>1
        <5> HIDE DEF n
        <5> QED
          BY <5>1
      <4> QED
        BY <2>3, <3>1, <4>1, <4>2 DEF SpacesSet
    <3>2. CASE phase # "closed"
      <4>1. SpacesSet(output, gaps, n)
        BY <3>2 DEF SetWell
      <4> QED
        BY <2>3, <4>1 DEF SpacesSet
    <3> QED
      BY <3>1, <3>2
  <2> QED
    BY <2>1, <2>2, <2>3, Zenon DEF WellSet
<1> QED
  BY <1>1, <1>2, SetWellStep, ReaderTypeCorrect, ProseTypeCorrect, PTL DEF Spec

-----------------------------------------------------------------------------
(* The letters of a paragraph.                                             *)

Letters(s) == Only(AllLetters, s)

LEMMA LettersConcat ==
  ASSUME NEW s \in Seq(AllChars), NEW u \in Seq(AllChars)
  PROVE  Letters(s \o u) = Letters(s) \o Letters(u)
<1> DEFINE L == AllLetters
<1> HIDE DEF L
<1>1. Only(L, s \o u) = Only(L, s) \o Only(L, u)
  BY OnlyConcat
<1> QED
  BY <1>1, Zenon DEF Letters, L

\* Case does not make or unmake a letter.
LEMMA LettersLowered ==
  ASSUME NEW s \in Seq(AllChars) PROVE Lowered(Letters(s)) = Letters(Lowered(s))
<1> DEFINE T == {t \in Seq(AllChars) : Lowered(Letters(t)) = Letters(Lowered(t))}
<1>1. <<>> \in T
  <2>1. Lowered(<<>>) = <<>> /\ <<>> \in Seq(AllChars)
    BY EmptySeq DEF Lowered
  <2>2. Letters(<<>>) = <<>>
    BY OnlyEmpty DEF Letters
  <2> QED
    BY <2>1, <2>2
<1>2. ASSUME NEW t \in Seq(AllChars), NEW c \in AllChars, t \in T PROVE Append(t, c) \in T
  <2> DEFINE d == Small(c)
  <2>1. d \in AllChars /\ (c \in AllLetters <=> d \in AllLetters)
    BY SmallFacts
  <2>2. /\ Append(t, c) = t \o <<c>> /\ Append(t, c) \in Seq(AllChars)
        /\ <<c>> \in Seq(AllChars) /\ <<d>> \in Seq(AllChars)
    BY <2>1, AppendIsConcat, AppendProperties
  <2>3. Lowered(<<c>>) = <<d>>
    <3> DEFINE x == Lowered(<<c>>)
               y == <<d>>
    <3>1. x \in Seq(AllChars) /\ Len(x) = 1 /\ \A h \in 1..1 : x[h] = d
      <4> DEFINE z == <<c>>
      <4>1. z \in Seq(AllChars) /\ Len(z) = 1 /\ \A h \in 1..1 : z[h] = c
        BY <2>2
      <4> HIDE DEF z
      <4>2. /\ Lowered(z) \in Seq(AllChars) /\ Len(Lowered(z)) = Len(z)
            /\ \A h \in 1..Len(z) : Lowered(z)[h] = Small(z[h])
        BY <4>1, LoweredType
      <4>3. Lowered(z) \in Seq(AllChars) /\ Len(Lowered(z)) = 1 /\ \A h \in 1..1 : Lowered(z)[h] = Small(c)
        BY <4>1, <4>2
      <4> QED
        BY <4>3 DEF z
    <3>2. y \in Seq(AllChars) /\ Len(y) = 1 /\ \A h \in 1..1 : y[h] = d
      BY <2>2
    <3> HIDE DEF x, y, d
    <3>3. x = y
      BY <3>1, <3>2, SeqEqual
    <3> QED
      BY <3>3 DEF x, y
  <2>4. Lowered(t) \in Seq(AllChars) /\ Letters(t) \in Seq(AllChars)
    BY LoweredType, OnlyType DEF Letters
  <2> HIDE DEF d
  <2>5. \A b \in AllChars : Letters(<<b>>) = One(AllLetters, b)
    <3> TAKE b \in AllChars
    <3>1. <<b>> = Append(<<>>, b) /\ <<>> \in Seq(AllChars)
      BY EmptySeq
    <3>2. Letters(<<b>>) = <<>> \o One(AllLetters, b)
      BY <3>1, OnlyAppend, OnlyEmpty DEF Letters
    <3>3. One(AllLetters, b) \in Seq(AllChars)
      BY DEF One
    <3> QED
      BY <3>2, <3>3, ConcatEmptySeq
  <2>6. Lowered(Letters(<<c>>)) = Letters(<<d>>) /\ Letters(<<c>>) \in Seq(AllChars)
    <3>1. CASE c \in AllLetters
      <4>1. Letters(<<c>>) = <<c>> /\ Letters(<<d>>) = <<d>>
        BY <2>1, <2>5, <3>1 DEF One
      <4> QED
        BY <2>2, <2>3, <4>1
    <3>2. CASE c \notin AllLetters
      <4>1. Letters(<<c>>) = <<>> /\ Letters(<<d>>) = <<>>
        BY <2>1, <2>5, <3>2 DEF One
      <4>2. Lowered(<<>>) = <<>> /\ <<>> \in Seq(AllChars)
        BY EmptySeq DEF Lowered
      <4> QED
        BY <4>1, <4>2
    <3> QED
      BY <3>1, <3>2
  <2>7. Lowered(t \o <<c>>) = Lowered(t) \o <<d>>
    BY <2>2, <2>3, LoweredConcat
  <2>8. Letters(Lowered(t) \o <<d>>) = Letters(Lowered(t)) \o Letters(<<d>>)
    BY <2>2, <2>4, LettersConcat
  <2>9. Lowered(Letters(t \o <<c>>)) = Lowered(Letters(t)) \o Lowered(Letters(<<c>>))
    <3>1. Letters(t \o <<c>>) = Letters(t) \o Letters(<<c>>)
      BY <2>2, LettersConcat
    <3> QED
      BY <2>4, <2>6, <3>1, LoweredConcat
  <2>10. Lowered(Letters(t)) = Letters(Lowered(t))
    BY <1>2
  <2>11. Lowered(Letters(Append(t, c))) = Letters(Lowered(Append(t, c)))
    BY <2>2, <2>6, <2>7, <2>8, <2>9, <2>10
  <2> QED
    BY <2>2, <2>11
<1>3. Seq(AllChars) \subseteq T
  <2> HIDE DEF T
  <2> QED
    BY <1>1, <1>2, SequenceInduction
<1> QED
  BY <1>3

LEMMA NoLetters ==
  ASSUME NEW s \in Seq(AllChars), \A i \in 1..Len(s) : s[i] \notin AllLetters
  PROVE  Letters(s) = <<>>
<1>1. s \in Seq(AllChars \ AllLetters)
  <2>1. Len(s) \in Nat /\ \A i \in 1..Len(s) : s[i] \in AllChars \ AllLetters
    OBVIOUS
  <2> QED
    BY <2>1
<1>2. (AllChars \ AllLetters) \cap AllLetters = {}
  OBVIOUS
<1> QED
  BY <1>1, <1>2, OnlyNone DEF Letters

LEMMA NoLetter ==
  ASSUME NEW c \in AllChars \ AllLetters
  PROVE  <<c>> \in Seq(AllChars) /\ Letters(<<c>>) = <<>>
<1>1. <<c>> \in Seq(AllChars) /\ Len(<<c>>) = 1 /\ <<c>>[1] = c
  OBVIOUS
<1>2. \A i \in 1..Len(<<c>>) : <<c>>[i] \notin AllLetters
  BY <1>1
<1> QED
  BY <1>1, <1>2, NoLetters

\* Closing a paragraph takes no letter away.
LEMMA LettersClosed ==
  ASSUME NEW out \in Seq(AllChars)
  PROVE  Letters(Closed(out)) = Letters(out)
<1>1. \A c \in AllChars : <<c>> \in Seq(AllChars)
  OBVIOUS
<1>2. Letters(<<".">>) = <<>> /\ <<".">> \in Seq(AllChars)
  <2>1. "." \in AllChars \ AllLetters
    BY DEF AllChars, AllLetters, Capitals
  <2> QED
    BY <2>1, NoLetter
<1>3. \A x \in Seq(AllChars) : Letters(Append(x, ".")) = Letters(x)
  <2> TAKE x \in Seq(AllChars)
  <2>1. Append(x, ".") = x \o <<".">>
    BY AppendIsConcat DEF AllChars
  <2>2. Letters(x \o <<".">>) = Letters(x) \o Letters(<<".">>)
    BY <1>2, LettersConcat
  <2>3. Letters(x) \o <<>> = Letters(x)
    <3>1. Letters(x) \in Seq(AllChars)
      BY OnlyType DEF Letters
    <3> QED
      BY <3>1, ConcatEmptySeq
  <2> QED
    BY <1>2, <2>1, <2>2, <2>3
<1>4. CASE Closed(out) = out
  BY <1>4
<1>5. CASE out # <<>> /\ Closed(out) = Append(out, ".")
  BY <1>3, <1>5
<1>6. CASE out # <<>> /\ out[Len(out)] \in Ascii /\ Closed(out) = Append(Front(out), ".")
  <2> DEFINE n == Len(out)
             last == out[n]
             f == SubSeq(out, 1, n - 1)
  <2>1. n \in Nat \ {0} /\ n - 1 \in 0..n /\ (n - 1) + 1 = n /\ n - 1 \in 0..(n - 1) /\ last \in AllChars
    BY <1>6
  <2>2. SubSeq(out, 1, (n - 1) + 1) = Append(f, out[(n - 1) + 1]) /\ f \in Seq(AllChars)
    BY <2>1, Initials
  <2>3. SubSeq(out, 1, n) = out
    BY SubSeqFull
  <2>4. out = Append(f, last)
    BY <2>1, <2>2, <2>3
  <2>5. Letters(<<last>>) = <<>> /\ <<last>> \in Seq(AllChars)
    <3>1. last \in AllChars \ AllLetters
      BY <1>6, <2>1, LettersApart
    <3> HIDE DEF last
    <3> QED
      BY <3>1, NoLetter
  <2>6. Letters(out) = Letters(f)
    <3> HIDE DEF f, last
    <3>1. Append(f, last) = f \o <<last>>
      BY <2>1, <2>2, AppendIsConcat
    <3>2. Letters(f \o <<last>>) = Letters(f) \o Letters(<<last>>)
      BY <2>2, <2>5, LettersConcat
    <3>3. Letters(f) \in Seq(AllChars)
      BY <2>2, OnlyType DEF Letters
    <3>4. Letters(f) \o <<>> = Letters(f)
      BY <3>3, ConcatEmptySeq
    <3> QED
      BY <2>4, <2>5, <3>1, <3>2, <3>4
  <2>7. Closed(out) = Append(f, ".")
    BY <1>6 DEF Front
  <2> HIDE DEF f
  <2>8. Letters(Append(f, ".")) = Letters(f)
    BY <1>3, <2>2
  <2> QED
    BY <2>6, <2>7, <2>8
<1> QED
  BY <1>4, <1>5, <1>6, ClosedType

\* The letters printed so far are those of the words passed so far.
LettersKept == Lowered(Letters(output)) = Lowered(Letters(FlattenSeq(SubSeq(words, 1, next - 1))))

LEMMA PassedOn ==
  ASSUME ReaderType, ProseType, next <= Len(words)
  PROVE  /\ FlattenSeq(SubSeq(words, 1, next)) = FlattenSeq(SubSeq(words, 1, next - 1)) \o words[next]
         /\ FlattenSeq(SubSeq(words, 1, next - 1)) \in Seq(AllChars)
         /\ words[next] \in Words /\ words[next] \in Seq(AllChars)
<1> DEFINE k == next - 1
           ws == SubSeq(words, 1, k)
<1>1. k \in 0..(Len(words) - 1) /\ k \in 0..Len(words) /\ k + 1 = next /\ words \in Seq(Words) /\ next \in 1..Len(words)
  BY DEF ReaderType, ProseType
<1>2. words[next] \in Words
  BY <1>1
<1>3. words[next] \in Seq(Characters) /\ words[next] \in Seq(AllChars)
  BY <1>2 DEF Words, Characters
<1> HIDE DEF k
<1>4. SubSeq(words, 1, k + 1) = Append(SubSeq(words, 1, k), words[k+1]) /\ ws \in Seq(Words)
  BY <1>1, Initials
<1> HIDE DEF ws
<1>5. ws \in Seq(Seq(Characters)) /\ FlattenSeq(ws) \in Seq(Characters)
  BY <1>4, WordsFlatten
<1>6. FlattenSeq(Append(ws, words[next])) = FlattenSeq(ws) \o words[next]
  BY <1>3, <1>5, FlattenAppend
<1>7. FlattenSeq(ws) \in Seq(AllChars)
  <2> DEFINE F == FlattenSeq(ws)
  <2>1. F \in Seq(Characters)
    BY <1>5
  <2> HIDE DEF F
  <2>2. F \in Seq(AllChars)
    BY <2>1, SeqMonotonic DEF Characters
  <2> QED
    BY <2>2 DEF F
<1>8. SubSeq(words, 1, next) = Append(ws, words[next])
  BY <1>1, <1>4 DEF ws
<1> QED
  BY <1>2, <1>3, <1>6, <1>7, <1>8 DEF ws, k

LEMMA LettersStep == ASSUME ReaderType, ProseType, LettersKept, [Next]_vars PROVE LettersKept'
<1> DEFINE F == FlattenSeq(SubSeq(words, 1, next - 1))
<1>1. CASE UNCHANGED <<output, words, next>>
  BY <1>1, Zenon DEF LettersKept, Letters
<1>2. CASE Read
  <2>1. output' = <<>> /\ next' = 1 /\ output = <<>> /\ next = 1
    BY <1>2 DEF Read, ProseType, proseVars
  <2>2. SubSeq(words', 1, next' - 1) = <<>>
    BY <2>1, SubSeqEmpty
  <2> QED
    BY <2>1, <2>2, FlattenEmpty DEF LettersKept
<1>3. CASE Skip
  <2>1. /\ next <= Len(words) /\ words' = words /\ output' = output /\ next' = next + 1
        /\ words[next][1] \in JOIN_BEFORE
    BY <1>3 DEF Skip, readerVars
  <2>2. /\ FlattenSeq(SubSeq(words, 1, next)) = F \o words[next]
        /\ F \in Seq(AllChars) /\ words[next] \in Words /\ words[next] \in Seq(AllChars)
    BY <2>1, PassedOn
  <2>3. Letters(words[next]) = <<>>
    <3>1. \A i \in 1..Len(words[next]) : words[next][i] \notin AllLetters
      <4> TAKE i \in 1..Len(words[next])
      <4>1. words[next][i] \in Splits
        BY <2>1, <2>2 DEF Words, Splits
      <4> QED
        BY <4>1, LettersApart
    <3> QED
      BY <2>2, <3>1, NoLetters
  <2> HIDE DEF F
  <2>4. Letters(F \o words[next]) = Letters(F) \o Letters(words[next])
    BY <2>2, LettersConcat
  <2>5. Letters(F) \o <<>> = Letters(F)
    <3>1. Letters(F) \in Seq(AllChars)
      BY <2>2, OnlyType DEF Letters
    <3> QED
      BY <3>1, ConcatEmptySeq
  <2>6. (next + 1) - 1 = next
    BY DEF ProseType
  <2>7. Lowered(Letters(output)) = Lowered(Letters(F))
    BY DEF LettersKept, F
  <2> QED
    BY <2>1, <2>2, <2>3, <2>4, <2>5, <2>6, <2>7 DEF LettersKept
<1>4. CASE Take
  <2>1. next <= Len(words) /\ words' = words /\ next' = next + 1 /\ output' = (output \o Gap) \o Said
    BY <1>4, TakeStep
  <2> DEFINE w == words[next]
  <2>2. /\ FlattenSeq(SubSeq(words, 1, next)) = F \o w
        /\ F \in Seq(AllChars) /\ w \in Words /\ w \in Seq(AllChars) /\ output \in Seq(AllChars)
    BY <2>1, PassedOn DEF ProseType
  <2>3. /\ Said \in Words /\ Len(Said) = Len(w) /\ Gap \in {<<>>, <<"space">>}
        /\ \A i \in 1..Len(Said) : Said[i] = w[i] \/ (i = 1 /\ Said[1] = "A" /\ w[1] = "a")
    BY <2>1, SaidType
  <2>4. Said \in Seq(AllChars) /\ Gap \in Seq(AllChars) /\ Letters(Gap) = <<>>
    <3>1. Said \in Seq(AllChars)
      BY <2>3 DEF Words, Characters
    <3>2. /\ Gap \in Seq(AllChars) /\ \A i \in 1..Len(Gap) : Gap[i] \notin AllLetters
      <4>1. CASE Gap = <<>>
        BY <4>1
      <4>2. CASE Gap = <<"space">>
        <5>1. "space" \in AllChars /\ "space" \notin AllLetters
          BY DEF AllChars, AllLetters, Capitals
        <5> QED
          BY <4>2, <5>1
      <4> QED
        BY <2>3, <4>1, <4>2
    <3> QED
      BY <3>1, <3>2, NoLetters
  <2> HIDE DEF F, w
  <2>5. Lowered(Said) = Lowered(w)
    <3> DEFINE x == Lowered(Said)
               y == Lowered(w)
    <3>1. /\ x \in Seq(AllChars) /\ Len(x) = Len(Said)
          /\ \A i \in 1..Len(Said) : x[i] = Small(Said[i])
          /\ y \in Seq(AllChars) /\ Len(y) = Len(w)
          /\ \A i \in 1..Len(w) : y[i] = Small(w[i])
      BY <2>2, <2>4, LoweredType
    <3> HIDE DEF x, y
    <3>2. \A i \in 1..Len(x) : x[i] = y[i]
      <4>1. Small("A") = Small("a")
        BY DEF Small
      <4> QED
        BY <2>3, <3>1, <4>1
    <3>3. x = y
      BY <2>3, <3>1, <3>2, SeqEqual
    <3> QED
      BY <3>3 DEF x, y
  <2>6. Lowered(Letters(Said)) = Lowered(Letters(w))
    BY <2>2, <2>4, <2>5, LettersLowered
  <2>7. Letters((output \o Gap) \o Said) = Letters(output) \o Letters(Said)
    <3>1. output \o Gap \in Seq(AllChars)
      BY <2>2, <2>4, ConcatProperties
    <3>2. Letters(output \o Gap) = Letters(output) \o Letters(Gap)
      BY <2>2, <2>4, LettersConcat
    <3>3. Letters(output) \in Seq(AllChars)
      BY <2>2, OnlyType DEF Letters
    <3>4. Letters(output) \o <<>> = Letters(output)
      BY <3>3, ConcatEmptySeq
    <3> DEFINE p == output \o Gap
    <3>5. p \in Seq(AllChars) /\ Letters(p) = Letters(output)
      BY <2>4, <3>1, <3>2, <3>4
    <3> HIDE DEF p
    <3>6. Letters(p \o Said) = Letters(p) \o Letters(Said)
      BY <2>4, <3>5, LettersConcat
    <3> QED
      BY <3>5, <3>6 DEF p
  <2>8. Letters(F \o w) = Letters(F) \o Letters(w)
    BY <2>2, LettersConcat
  <2>9. /\ Letters(output) \in Seq(AllChars) /\ Letters(Said) \in Seq(AllChars)
        /\ Letters(F) \in Seq(AllChars) /\ Letters(w) \in Seq(AllChars)
    BY <2>2, <2>4, OnlyType DEF Letters
  <2>10. /\ Lowered(Letters(output) \o Letters(Said)) = Lowered(Letters(output)) \o Lowered(Letters(Said))
         /\ Lowered(Letters(F) \o Letters(w)) = Lowered(Letters(F)) \o Lowered(Letters(w))
    BY <2>9, LoweredConcat
  <2>11. Lowered(Letters(output)) = Lowered(Letters(F))
    BY DEF LettersKept, F
  <2>12. Lowered(Letters((output \o Gap) \o Said)) = Lowered(Letters(F \o w))
    BY <2>6, <2>7, <2>8, <2>10, <2>11
  <2>13. (next + 1) - 1 = next
    BY DEF ProseType
  <2> QED
    BY <2>1, <2>2, <2>12, <2>13 DEF LettersKept
<1>5. CASE Close
  <2>1. output' = Closed(output) /\ words' = words /\ next' = next
    BY <1>5 DEF Close, readerVars
  <2>2. Letters(output') = Letters(output)
    BY <2>1, LettersClosed DEF ProseType
  <2> QED
    BY <2>1, <2>2 DEF LettersKept
<1>6. CASE Generate \/ UNCHANGED vars
  BY <1>1, <1>6 DEF Generate, vars, readerVars, proseVars
<1>7. CASE TakeEmpty
  <2>1. /\ words' = words /\ next' = next
        /\ output' = output \/ output' = Append(output, "space")
    BY <1>7, EmptyStep
  <2>2. output \in Seq(AllChars) /\ "space" \in AllChars \ AllLetters
    BY DEF ProseType, AllChars, AllLetters, Capitals
  <2>3. Letters(Append(output, "space")) = Letters(output)
    <3>1. Append(output, "space") = output \o <<"space">>
      BY <2>2, AppendIsConcat
    <3>2. <<"space">> \in Seq(AllChars) /\ Letters(<<"space">>) = <<>>
      BY <2>2, NoLetter
    <3>3. Letters(output \o <<"space">>) = Letters(output) \o Letters(<<"space">>)
      BY <2>2, <3>2, LettersConcat
    <3>4. Letters(output) \in Seq(AllChars)
      BY <2>2, OnlyType DEF Letters
    <3> QED
      BY <3>1, <3>2, <3>3, <3>4, ConcatEmptySeq
  <2>4. Letters(output') = Letters(output)
    BY <2>1, <2>3
  <2> QED
    BY <2>1, <2>4 DEF LettersKept
<1> QED
  BY <1>2, <1>3, <1>4, <1>5, <1>6, <1>7 DEF Next

Ended == phase = "closed" => IsEnding(output)

LEMMA EndedStep == ASSUME ProseType, Ended, [Next]_vars PROVE Ended'
<1>1. CASE Close
  <2>1. output' = Closed(output) /\ IsEnding(Closed(output))
    BY <1>1, ClosedType DEF Close, ProseType
  <2>2. IsEnding(output')
    BY <2>1
  <2> QED
    BY <2>2, Zenon DEF Ended, IsEnding, Trimmed, SelectLastInSeq
<1>2. CASE Read \/ Skip \/ UNCHANGED vars
  <2>1. output' = output /\ phase' = phase
    BY <1>2 DEF Read, Skip, vars, proseVars
  <2> QED
    BY <2>1 DEF Ended
<1>3. CASE Generate \/ Take \/ TakeEmpty
  <2>1. phase' # "closed"
    BY <1>3, EmptyStep DEF Generate, Take
  <2> QED
    BY <2>1 DEF Ended
<1> QED
  BY <1>1, <1>2, <1>3 DEF Next

\* A paragraph is empty or ends as a sentence does, and neither skipping words
\* nor closing it takes a letter away, whatever the words.
THEOREM EndsCorrect == Spec => []ParagraphEndsWithSentence
<1>1. Init => Ended /\ LettersKept
  <2> SUFFICES ASSUME Init PROVE Ended /\ LettersKept
    OBVIOUS
  <2>1. output = <<>> /\ next = 1 /\ phase # "closed"
    BY DEF Init
  <2>2. SubSeq(words, 1, next - 1) = <<>>
    BY <2>1, SubSeqEmpty
  <2> QED
    BY <2>1, <2>2, FlattenEmpty DEF Ended, LettersKept
<1>2. Ended /\ LettersKept => ParagraphEndsWithSentence
  BY Zenon DEF Ended, LettersKept, Letters, ParagraphEndsWithSentence
<1> QED
  BY <1>1, <1>2, EndedStep, LettersStep, ReaderTypeCorrect, ProseTypeCorrect, PTL DEF Spec

-----------------------------------------------------------------------------
(* Orderly texts.                                                          *)

\* The first k words, one behind the other.
Passed(k) == FlattenSeq(SubSeq(words, 1, k))

LEMMA PassedType ==
  ASSUME ReaderType
  PROVE  /\ \A k \in 0..Len(words) : Passed(k) \in Seq(Characters) /\ Passed(k) \in Seq(AllChars)
         /\ \A k \in 0..(Len(words) - 1) :
              /\ Passed(k + 1) = Passed(k) \o words[k + 1]
              /\ words[k + 1] \in Words /\ words[k + 1] \in Seq(Characters)
              /\ words[k + 1] \in Seq(AllChars)
         /\ Passed(0) = <<>> /\ Passed(Len(words)) = FlattenSeq(words)
<1>0. words \in Seq(Words)
  BY DEF ReaderType
<1>1. ASSUME NEW k \in 0..Len(words)
      PROVE  Passed(k) \in Seq(Characters) /\ Passed(k) \in Seq(AllChars)
  <2>1. SubSeq(words, 1, k) \in Seq(Words)
    BY <1>0, Initials
  <2>2. Passed(k) \in Seq(Characters)
    BY <2>1, WordsFlatten DEF Passed
  <2>3. Passed(k) \in Seq(AllChars)
    BY <2>2, SeqMonotonic DEF Characters
  <2> QED
    BY <2>2, <2>3
<1>2. ASSUME NEW k \in 0..(Len(words) - 1)
      PROVE  /\ Passed(k + 1) = Passed(k) \o words[k + 1]
             /\ words[k + 1] \in Words /\ words[k + 1] \in Seq(Characters)
             /\ words[k + 1] \in Seq(AllChars)
  <2>1. k + 1 \in 1..Len(words) /\ k \in 0..Len(words)
    BY <1>0
  <2>2. words[k + 1] \in Words
    BY <1>0, <2>1
  <2>3. words[k + 1] \in Seq(Characters) /\ words[k + 1] \in Seq(AllChars)
    BY <2>2 DEF Words, Characters
  <2> DEFINE ws == SubSeq(words, 1, k)
  <2>4. SubSeq(words, 1, k + 1) = Append(ws, words[k + 1]) /\ ws \in Seq(Words)
    BY <1>0, <2>1, Initials
  <2> HIDE DEF ws
  <2>5. ws \in Seq(Seq(Characters))
    BY <2>4, WordsFlatten
  <2>6. FlattenSeq(Append(ws, words[k + 1])) = FlattenSeq(ws) \o words[k + 1]
    BY <2>3, <2>5, FlattenAppend
  <2> QED
    BY <2>2, <2>3, <2>4, <2>6 DEF Passed, ws
<1>3. Passed(0) = <<>>
  <2>1. SubSeq(words, 1, 0) = <<>>
    BY SubSeqEmpty
  <2> QED
    BY <2>1, FlattenEmpty DEF Passed
<1>4. Passed(Len(words)) = FlattenSeq(words)
  BY <1>0, SubSeqFull DEF Passed
<1> QED
  BY <1>1, <1>2, <1>3, <1>4

IsPrefixOf(s, t) == Len(s) <= Len(t) /\ \A i \in 1..Len(s) : t[i] = s[i]

\* The first words are how all the words begin.
LEMMA PassedFirst ==
  ASSUME ReaderType, NEW j \in 0..Len(words)
  PROVE  IsPrefixOf(Passed(j), FlattenSeq(words))
<1> DEFINE n == Len(words) - j
           T == {k \in 0..n : IsPrefixOf(Passed(j), Passed(j + k))}
<1>1. n \in Nat /\ Len(words) \in Nat /\ j \in Nat /\ j + n = Len(words)
  BY DEF ReaderType
<1>2. 0 \in T
  <2>1. j + 0 = j /\ Len(Passed(j)) \in Nat
    BY <1>1, PassedType
  <2> QED
    BY <1>1, <2>1 DEF IsPrefixOf
<1>3. ASSUME NEW k \in 0..(n-1), k \in T PROVE k + 1 \in T
  <2> DEFINE q == j + k
             a == Passed(j)
             b == Passed(q)
             w == words[q + 1]
             c == Passed(q + 1)
  <2>1. q \in 0..(Len(words) - 1) /\ q \in 0..Len(words) /\ j + (k + 1) = q + 1 /\ k + 1 \in 0..n
    BY <1>1
  <2> HIDE DEF q, n
  <2>2. a \in Seq(AllChars) /\ b \in Seq(AllChars) /\ w \in Seq(AllChars) /\ c = b \o w
    BY <2>1, PassedType
  <2>3. IsPrefixOf(a, b)
    BY <1>3 DEF q
  <2> HIDE DEF a, b, c, w
  <2>4. /\ Len(c) = Len(b) + Len(w)
        /\ \A i \in 1..(Len(b) + Len(w)) : c[i] = IF i <= Len(b) THEN b[i] ELSE w[i - Len(b)]
    BY <2>2, ConcatProperties
  <2>5. Len(a) \in Nat /\ Len(b) \in Nat /\ Len(w) \in Nat
    BY <2>2
  <2>6. IsPrefixOf(a, c)
    BY <2>3, <2>4, <2>5 DEF IsPrefixOf
  <2> QED
    BY <2>1, <2>6 DEF a, c
<1>4. 0..n \subseteq T
  <2> HIDE DEF T, n
  <2> QED
    BY <1>1, <1>2, <1>3, InductionTo
<1>5. IsPrefixOf(Passed(j), Passed(j + n))
  <2> HIDE DEF n
  <2>1. n \in T
    BY <1>1, <1>4
  <2> QED
    BY <2>1
<1> HIDE DEF n
<1> QED
  BY <1>1, <1>5, PassedType

\* What OrderlyTextComesBack expects.
Returned ==
  [i \in DOMAIN Printed(source) |->
     IF FlattenSeq(words)[i] \in {"eacute", "Eacute"} THEN FlattenSeq(words)[i] ELSE Printed(source)[i]]

\* A text that is read to its end has the characters of its words, but for case.
LEMMA TextOfWords ==
  ASSUME ReaderType, NothingLost, ~Reading
  PROVE  /\ Printed(source) \in Seq(AllChars) /\ Len(Printed(source)) = Len(FlattenSeq(words))
         /\ FlattenSeq(words) \in Seq(AllChars)
         /\ \A i \in 1..Len(FlattenSeq(words)) : Small(Printed(source)[i]) = Small(FlattenSeq(words)[i])
         /\ Returned \in Seq(AllChars) /\ Len(Returned) = Len(FlattenSeq(words))
         /\ \A i \in 1..Len(FlattenSeq(words)) :
              Returned[i] = IF FlattenSeq(words)[i] \in {"eacute", "Eacute"}
                            THEN FlattenSeq(words)[i] ELSE Printed(source)[i]
<1> DEFINE p == pos - 1
           n == Len(source)
           P == SubSeq(source, 1, p)
           R == SubSeq(source, p + 1, n)
           F == FlattenSeq(words)
           t == Printed(source)
<1>1. /\ p \in 0..n /\ n \in p..n /\ n \in Nat /\ pos \in Nat /\ p + 1 = pos
      /\ source \in Seq(AllChars)
  BY DEF ReaderType, TextType
<1>2. \A i \in 1..(n - p) : source[p + i] = "space"
  <2>1. \A i \in 1..(n - p) : p + i \in pos..n
    BY <1>1
  <2> QED
    BY <2>1 DEF Reading
<1> HIDE DEF p
<1>3. P \in Seq(AllChars) /\ R \in Seq(AllChars) /\ Len(R) = n - p /\ \A i \in 1..(n - p) : R[i] = source[p + i]
  BY <1>1, Initials, Part
<1>4. source = P \o R
  <2>1. 1 \in 1..(n + 1) /\ p \in (1 - 1)..n /\ n \in p..n
    BY <1>1
  <2>2. P \o R = SubSeq(source, 1, n)
    BY <1>1, <2>1, ConcatAdjacentSubSeq
  <2>3. SubSeq(source, 1, n) = source
    BY <1>1, SubSeqFull
  <2> QED
    BY <2>2, <2>3
<1> HIDE DEF P, R
<1>5. Printed(R) = <<>>
  <2>1. \A i \in 1..Len(R) : R[i] \in {"space"}
    BY <1>2, <1>3
  <2>2. R \in Seq({"space"}) /\ {"space"} \cap (AllChars \ {"space"}) = {}
    BY <1>3, <2>1
  <2> QED
    BY <2>2, OnlyNone DEF Printed
<1>6. Printed(P) \in Seq(AllChars) /\ t = Printed(P)
  <2>1. Printed(P) \in Seq(AllChars)
    BY <1>3, OnlyType DEF Printed
  <2>2. Printed(P \o R) = Printed(P) \o Printed(R)
    BY <1>3, PrintedConcat
  <2>3. Printed(P) \o <<>> = Printed(P)
    BY <2>1, ConcatEmptySeq
  <2> QED
    BY <1>4, <1>5, <2>1, <2>2, <2>3
<1>7. F \in Seq(AllChars) /\ Lowered(F) = Lowered(t)
  <2>1. F \in Seq(Characters)
    BY WordsFlatten DEF ReaderType
  <2>2. Lowered(F) = Lowered(t)
    BY <1>6 DEF NothingLost, P, p
  <2> HIDE DEF F, t
  <2>3. F \in Seq(AllChars)
    BY <2>1, SeqMonotonic DEF Characters
  <2> QED
    BY <2>2, <2>3
<1> HIDE DEF F, t
<1>8. /\ t \in Seq(AllChars)
      /\ Len(Lowered(F)) = Len(F) /\ Len(Lowered(t)) = Len(t)
      /\ \A i \in 1..Len(F) : Lowered(F)[i] = Small(F[i])
      /\ \A i \in 1..Len(t) : Lowered(t)[i] = Small(t[i])
  BY <1>6, <1>7, LoweredType
<1>9. \A i \in 1..Len(F) : Small(t[i]) = Small(F[i])
  BY <1>7, <1>8
<1> DEFINE R0 == [i \in 1..Len(t) |-> IF F[i] \in {"eacute", "Eacute"} THEN F[i] ELSE t[i]]
<1>10. Len(F) = Len(t) /\ Len(t) \in Nat /\ DOMAIN t = 1..Len(t)
  BY <1>7, <1>8
<1>11. R0 \in Seq(AllChars) /\ Len(R0) = Len(F)
  <2>1. \A i \in 1..Len(t) : F[i] \in AllChars /\ t[i] \in AllChars
    BY <1>7, <1>8, <1>10
  <2>2. R0 \in [1..Len(t) -> AllChars]
    BY <2>1
  <2> HIDE DEF R0
  <2> QED
    BY <1>10, <2>2
<1>12. \A i \in 1..Len(F) : R0[i] = IF F[i] \in {"eacute", "Eacute"} THEN F[i] ELSE t[i]
  BY <1>10
<1>13. Returned = R0
  BY <1>10 DEF Returned, F, t
<1> HIDE DEF R0
<1> QED
  BY <1>7, <1>8, <1>9, <1>11, <1>12, <1>13 DEF F, t

\* White space is not printed, and everything else is.
LEMMA PrintedAppend ==
  /\ \A u \in Seq(AllChars) : Printed(u) \in Seq(AllChars)
  /\ \A u \in Seq(AllChars) : \A c \in AllChars :
       Printed(Append(u, c)) = IF c = "space" THEN Printed(u) ELSE Append(Printed(u), c)
<1> DEFINE C == AllChars \ {"space"}
<1>3. \A u \in Seq(AllChars) : Printed(u) \in Seq(AllChars)
  BY OnlyType DEF Printed
<1>4. \A u \in Seq(AllChars) : \A c \in AllChars :
        Printed(Append(u, c)) = IF c = "space" THEN Printed(u) ELSE Append(Printed(u), c)
  <2> TAKE u \in Seq(AllChars)
  <2> TAKE c \in AllChars
  <2> DEFINE x == Printed(u)
  <2>1. x \in Seq(AllChars)
    BY <1>3
  <2>2. Printed(Append(u, c)) = x \o One(C, c)
    <3> HIDE DEF C
    <3>1. Only(C, Append(u, c)) = Only(C, u) \o One(C, c)
      BY OnlyAppend
    <3> QED
      BY <3>1, Zenon DEF Printed, C
  <2> HIDE DEF x
  <2>3. CASE c = "space"
    <3>1. One(C, c) = <<>>
      BY <2>3 DEF One
    <3> QED
      BY <2>1, <2>2, <2>3, <3>1, ConcatEmptySeq DEF x
  <2>4. CASE c # "space"
    <3>1. One(C, c) = <<c>>
      BY <2>4 DEF One
    <3>2. Append(x, c) = x \o <<c>>
      BY <2>1, AppendIsConcat
    <3> QED
      BY <2>2, <2>4, <3>1, <3>2 DEF x
  <2> QED
    BY <2>3, <2>4
<1> QED
  BY <1>3, <1>4

LEMMA LastTwo ==
  ASSUME NEW s \in Seq(AllChars), NEW w \in Seq(AllChars), w # <<>>, NEW u, u = s \o w
  PROVE  /\ u \in Seq(AllChars) /\ Len(u) = Len(s) + Len(w) /\ u[Len(u)] = w[Len(w)]
         /\ Len(w) > 1 => u[Len(u) - 1] = w[Len(w) - 1]
         /\ Len(w) = 1 /\ Len(s) > 0 => u[Len(u) - 1] = s[Len(s)]
<1>1. /\ s \o w \in Seq(AllChars) /\ Len(s \o w) = Len(s) + Len(w)
      /\ \A i \in 1..(Len(s) + Len(w)) : (s \o w)[i] = IF i <= Len(s) THEN s[i] ELSE w[i - Len(s)]
  BY ConcatProperties
<1> DEFINE n == Len(s)
           m == Len(w)
<1>2. n \in Nat /\ m \in Nat /\ m >= 1
  OBVIOUS
<1>3. /\ u \in Seq(AllChars) /\ Len(u) = n + m
      /\ \A i \in 1..(n + m) : u[i] = IF i <= n THEN s[i] ELSE w[i - n]
  BY <1>1
<1> HIDE DEF n, m
<1>4. u[n + m] = w[m]
  <2>1. n + m \in 1..(n + m) /\ ~(n + m <= n) /\ (n + m) - n = m
    BY <1>2
  <2> QED
    BY <1>3, <2>1
<1>5. ASSUME m > 1 PROVE u[(n + m) - 1] = w[m - 1]
  <2>1. (n + m) - 1 \in 1..(n + m) /\ ~((n + m) - 1 <= n) /\ ((n + m) - 1) - n = m - 1
    BY <1>2, <1>5
  <2> QED
    BY <1>3, <2>1
<1>6. ASSUME m = 1, n > 0 PROVE u[(n + m) - 1] = s[n]
  <2>1. (n + m) - 1 = n /\ n \in 1..(n + m) /\ n <= n
    BY <1>2, <1>6
  <2> QED
    BY <1>3, <2>1
<1>7. Len(u) = n + m
  BY <1>3
<1> QED
  BY <1>3, <1>4, <1>5, <1>6, <1>7 DEF n, m

\* Words that are put behind a paragraph are printed behind it.
LEMMA PrintedLaid ==
  ASSUME NEW o \in Seq(AllChars), NEW w \in Words, NEW g \in {<<>>, <<"space">>},
         NEW r, r = (o \o g) \o w
  PROVE  /\ w \in Seq(AllChars) /\ w # <<>> /\ Len(w) \in Nat /\ g \in Seq(AllChars)
         /\ o \o g \in Seq(AllChars) /\ Printed(r) = Printed(o) \o w
<1>1. w \in Seq(Characters) /\ w \in Seq(AllChars) /\ w # <<>> /\ Len(w) \in Nat
  BY DEF Words, Characters
<1>2. g \in Seq(AllChars)
  <2>1. "space" \in AllChars
    BY DEF AllChars
  <2>2. <<>> \in Seq(AllChars) /\ <<"space">> \in Seq(AllChars)
    BY <2>1
  <2> QED
    BY <2>2
<1> DEFINE h == o \o g
           p == Printed(o)
<1>3. h \in Seq(AllChars) /\ Printed(h) = p \o Printed(g)
  BY <1>2, ConcatProperties, PrintedConcat
<1>4. Printed(g) = <<>>
  <2>1. <<>> \in Seq({"space"}) /\ <<"space">> \in Seq({"space"})
    OBVIOUS
  <2>2. g \in Seq({"space"})
    BY <2>1
  <2>3. {"space"} \cap (AllChars \ {"space"}) = {}
    OBVIOUS
  <2> QED
    BY <2>2, <2>3, OnlyNone DEF Printed
<1>5. p \in Seq(AllChars)
  BY PrintedAppend
<1>6. Printed(w) = w
  BY <1>1, OnlyAll DEF Printed, Characters
<1> HIDE DEF h
<1>7. Printed(h \o w) = Printed(h) \o Printed(w)
  BY <1>1, <1>3, PrintedConcat
<1> HIDE DEF p
<1>8. Printed(h) = p
  BY <1>3, <1>4, <1>5, ConcatEmptySeq
<1> QED
  BY <1>1, <1>2, <1>3, <1>6, <1>7, <1>8 DEF h, p

\* The end of a sentence can be told from what is printed, without white space.
EndsSame(s) == IsEnding(s) <=> (Printed(s) = <<>> \/ EndsAt(Printed(s), Len(Printed(s))))

\* A word that is put behind two texts ends a sentence in both or in neither,
\* unless it is a mark that closes, and a stop is at the end of one of them only.
LEMMA EndsBehind ==
  ASSUME NEW h \in Seq(AllChars), NEW p \in Seq(AllChars), NEW w \in Words,
         NEW r, r = h \o w, NEW q, q = p \o w,
         w[1] \in {"rdquo", ")"} =>
           ((Len(h) > 0 /\ h[Len(h)] = ".") <=> (Len(p) > 0 /\ p[Len(p)] = "."))
  PROVE  IsEnding(r) <=> (q = <<>> \/ EndsAt(q, Len(q)))
<1> DEFINE m == Len(w)
<1>1. /\ w \in Seq(AllChars) /\ w # <<>> /\ m \in Nat /\ m >= 1
      /\ \A i \in 1..m : w[i] # "space"
  BY DEF Words, Characters
<1>2. /\ r \in Seq(AllChars) /\ Len(r) = Len(h) + m /\ r[Len(r)] = w[m]
      /\ m > 1 => r[Len(r) - 1] = w[m - 1]
      /\ m = 1 /\ Len(h) > 0 => r[Len(r) - 1] = h[Len(h)]
  BY <1>1, LastTwo
<1>3. /\ q \in Seq(AllChars) /\ Len(q) = Len(p) + m /\ q[Len(q)] = w[m]
      /\ m > 1 => q[Len(q) - 1] = w[m - 1]
      /\ m = 1 /\ Len(p) > 0 => q[Len(q) - 1] = p[Len(p)]
  BY <1>1, LastTwo
<1>4. Len(h) \in Nat /\ Len(p) \in Nat /\ m \in 1..m
  BY <1>1
<1> HIDE DEF m
<1>5. IsEnding(r) <=> EndsAt(r, Len(r))
  <2>1. Len(r) \in 1..Len(r) /\ (Len(r) + 1)..Len(r) = {} /\ r[Len(r)] # "space"
    BY <1>1, <1>2, <1>4
  <2> QED
    BY <1>2, <2>1, EndingAt
<1>6. EndsAt(r, Len(r)) <=> EndsAt(q, Len(q))
  <2>1. CASE w[m] \notin {".", "rdquo", ")"}
    BY <1>2, <1>3, <2>1 DEF EndsAt
  <2>2. CASE w[m] = "."
    BY <1>2, <1>3, <2>2 DEF EndsAt
  <2>3. CASE w[m] \in {"rdquo", ")"} /\ m > 1
    <3>1. Len(r) > 1 /\ Len(q) > 1
      <4>1. Len(r) = Len(h) + m /\ Len(q) = Len(p) + m
        BY <1>2, <1>3
      <4> QED
        BY <1>1, <1>4, <2>3, <4>1
    <3> QED
      BY <1>2, <1>3, <2>3, <3>1 DEF EndsAt
  <2>4. CASE w[m] \in {"rdquo", ")"} /\ m = 1
    <3>1. (Len(r) > 1 <=> Len(h) > 0) /\ (Len(q) > 1 <=> Len(p) > 0)
      <4>1. Len(r) = Len(h) + 1 /\ Len(q) = Len(p) + 1
        BY <1>2, <1>3, <2>4
      <4> QED
        BY <1>4, <4>1
    <3>2. EndsAt(r, Len(r)) <=> (Len(h) > 0 /\ h[Len(h)] = ".")
      BY <1>2, <2>4, <3>1 DEF EndsAt
    <3>3. EndsAt(q, Len(q)) <=> (Len(p) > 0 /\ p[Len(p)] = ".")
      BY <1>3, <2>4, <3>1 DEF EndsAt
    <3> QED
      BY <2>4, <3>2, <3>3
  <2>5. m > 1 \/ m = 1
    BY <1>1
  <2> QED
    BY <2>1, <2>2, <2>3, <2>4, <2>5, Zenon
<1>7. q # <<>>
  <2>1. Len(q) > 0
    BY <1>1, <1>3, <1>4
  <2> QED
    BY <1>3, <2>1
<1> QED
  BY <1>5, <1>6, <1>7

LEMMA SaidEnds ==
  ASSUME NEW o \in Seq(AllChars), o # <<>> /\ o[Len(o)] = "space" => ~IsEnding(o), EndsSame(o),
         NEW w \in Words, NEW g \in {<<>>, <<"space">>}, g # <<>> => w[1] \notin JOIN_BEFORE,
         NEW r, r = (o \o g) \o w
  PROVE  EndsSame(r)
<1> DEFINE h == o \o g
           p == Printed(o)
           q == p \o w
           n == Len(o)
<1>1. h \in Seq(AllChars) /\ Printed(r) = q /\ p \in Seq(AllChars) /\ n \in Nat /\ r = h \o w
  <2>1. h \in Seq(AllChars) /\ Printed(r) = q /\ r = h \o w
    BY PrintedLaid
  <2>2. p \in Seq(AllChars) /\ n \in Nat
    BY PrintedAppend
  <2> QED
    BY <2>1, <2>2
<1>2. g = <<>> => h = o
  BY ConcatEmptySeq
<1>3. n > 0 /\ o[n] # "space" => Len(p) > 0 /\ p[Len(p)] = o[n]
  <2> SUFFICES ASSUME n > 0, o[n] # "space" PROVE Len(p) > 0 /\ p[Len(p)] = o[n]
    OBVIOUS
  <2> DEFINE f == SubSeq(o, 1, n - 1)
             c == o[n]
             x == Printed(f)
  <2>1. c \in AllChars /\ n - 1 \in 0..n /\ n - 1 \in 0..(n - 1) /\ (n - 1) + 1 = n
    BY <1>1
  <2>2. SubSeq(o, 1, (n - 1) + 1) = Append(f, o[(n - 1) + 1]) /\ f \in Seq(AllChars)
    BY <2>1, Initials
  <2>3. SubSeq(o, 1, n) = o
    BY SubSeqFull
  <2>4. o = Append(f, c)
    BY <2>1, <2>2, <2>3
  <2> HIDE DEF f, c
  <2>5. c # "space"
    BY DEF c
  <2>6. p = Append(x, c) /\ x \in Seq(AllChars)
    BY <2>1, <2>2, <2>4, <2>5, PrintedAppend
  <2> HIDE DEF x, p
  <2>7. Len(p) = Len(x) + 1 /\ p[Len(x) + 1] = c /\ Len(x) \in Nat
    BY <2>1, <2>6, AppendProperties
  <2> QED
    BY <2>7 DEF c
<1> HIDE DEF h, p, n
\* A mark that closes stands behind a stop in both, or in neither.
<1>4. ASSUME w[1] \in {"rdquo", ")"}
      PROVE  (Len(h) > 0 /\ h[Len(h)] = ".") <=> (Len(p) > 0 /\ p[Len(p)] = ".")
  <2>1. h = o
    BY <1>2, <1>4 DEF JOIN_BEFORE
  <2>2. CASE n = 0
    <3>1. o = <<>>
      BY <2>2 DEF n
    <3>2. p = <<>>
      BY <3>1, OnlyEmpty DEF p, Printed
    <3>3. Len(p) = 0 /\ Len(h) = 0
      BY <2>1, <3>1, <3>2
    <3> QED
      BY <3>3
  <2>3. CASE n > 0 /\ o[n] # "space"
    BY <1>3, <2>1, <2>3 DEF n
  <2>4. CASE n > 0 /\ o[n] = "space"
    <3>1. o # <<>> /\ ~IsEnding(o)
      BY <2>4 DEF n
    <3>2. ~EndsAt(p, Len(p))
      BY <3>1 DEF EndsSame, p
    <3>3. p[Len(p)] # "."
      BY <3>2 DEF EndsAt
    <3> QED
      BY <2>1, <2>4, <3>3 DEF n
  <2> QED
    BY <1>1, <2>2, <2>3, <2>4
<1>5. IsEnding(r) <=> (q = <<>> \/ EndsAt(q, Len(q)))
  BY <1>1, <1>4, EndsBehind
<1> QED
  BY <1>1, <1>5 DEF EndsSame

EndsKept == phase # "closed" => EndsSame(output)

LEMMA EndsKeptStep == ASSUME ReaderType, ProseType, EndsKept, [Next]_vars PROVE EndsKept'
<1>1. CASE UNCHANGED output /\ (phase' # "closed" => phase # "closed")
  <2> SUFFICES ASSUME phase' # "closed" PROVE EndsSame(output')
    BY DEF EndsKept
  <2> QED
    BY <1>1 DEF EndsKept
<1>2. CASE Take
  <2>1. next <= Len(words) /\ output' = (output \o Gap) \o Said /\ phase # "closed"
    <3>1. phase # "closed"
      BY <1>2 DEF Take
    <3> QED
      BY <1>2, <3>1, TakeStep
  <2>2. /\ Said \in Words /\ Gap \in {<<>>, <<"space">>} /\ (Gap # <<>> => Said[1] \notin JOIN_BEFORE)
        /\ output \in Seq(AllChars) /\ (output # <<>> /\ output[Len(output)] = "space" => ~IsEnding(output))
        /\ EndsSame(output)
    BY <2>1, SaidType DEF ProseType, EndsKept
  <2>3. EndsSame(output')
    BY <2>1, <2>2, SaidEnds
  <2> QED
    BY <2>3 DEF EndsKept
<1>3. CASE TakeEmpty
  <2>1. phase # "closed" /\ (output' = output \/ output' = Append(output, "space"))
    BY <1>3, EmptyStep
  <2>2. output \in Seq(AllChars) /\ EndsSame(output) /\ "space" \in AllChars
    BY <2>1 DEF ProseType, EndsKept, AllChars
  <2>3. Printed(Append(output, "space")) = Printed(output)
    BY <2>2, PrintedAppend
  <2>4. IsEnding(Append(output, "space")) <=> IsEnding(output)
    BY <2>2, EndsPadded
  <2>5. EndsSame(Append(output, "space"))
    BY <2>2, <2>3, <2>4 DEF EndsSame
  <2>6. EndsSame(output')
    BY <2>1, <2>2, <2>5
  <2> QED
    BY <2>6 DEF EndsKept
<1>4. CASE Close
  <2>1. phase' = "closed"
    BY <1>4 DEF Close
  <2> QED
    BY <2>1 DEF EndsKept
<1>5. CASE Generate
  BY <1>1, <1>5 DEF Generate
<1>6. CASE Read \/ Skip \/ UNCHANGED vars
  BY <1>1, <1>6 DEF Read, Skip, vars, proseVars
<1> QED
  BY <1>2, <1>3, <1>4, <1>5, <1>6 DEF Next

\* A word ends a sentence where it is read as where it is printed.
LEMMA WordEnds ==
  ASSUME NEW w \in Words
  PROVE  /\ w \in Seq(AllChars) /\ w # <<>> /\ Len(w) \in Nat /\ Len(w) >= 1
         /\ IsEnding(w) <=> EndsAt(w, Len(w))
<1>1. w \in Seq(AllChars) /\ Len(w) \in Nat /\ Len(w) >= 1 /\ w # <<>> /\ \A i \in 1..Len(w) : w[i] # "space"
  BY DEF Words, Characters
<1>2. Len(w) \in 1..Len(w) /\ (Len(w) + 1)..Len(w) = {}
  BY <1>1
<1> QED
  BY <1>1, <1>2, EndingAt

\* The first k words end a sentence if and only if the word behind them begins one.
LEMMA PassedEnds ==
  ASSUME ReaderType, NEW k \in 1..Len(words)
  PROVE  /\ Len(Passed(k)) >= 1
         /\ IsEnding(words[k]) => EndsAt(Passed(k), Len(Passed(k)))
         /\ EndsAt(Passed(k), Len(Passed(k))) => BeginsSentence(k + 1)
<1> DEFINE j == k - 1
           w == words[k]
           s == Passed(j)
           u == Passed(k)
<1>0. Len(words) \in Nat /\ k \in Nat /\ k >= 1
  BY DEF ReaderType
<1>1. /\ j \in 0..(Len(words) - 1) /\ j \in 0..Len(words) /\ j + 1 = k
      /\ k + 1 \in Nat /\ k \in 0..((k + 1) - 1) /\ (k + 1)..((k + 1) - 1) = {}
  BY <1>0
<1>2. w \in Words /\ s \in Seq(AllChars) /\ u = s \o w
  <2> HIDE DEF j
  <2>1. Passed(j + 1) = Passed(j) \o words[j + 1] /\ words[j + 1] \in Words /\ Passed(j) \in Seq(AllChars)
    BY <1>1, PassedType
  <2> QED
    BY <1>1, <2>1
<1> HIDE DEF s, u
<1>3. /\ w \in Seq(AllChars) /\ w # <<>> /\ Len(w) \in Nat /\ Len(w) >= 1
      /\ IsEnding(w) <=> EndsAt(w, Len(w))
  BY <1>2, WordEnds
<1> HIDE DEF w, j
<1>4. /\ Len(u) = Len(s) + Len(w) /\ u[Len(u)] = w[Len(w)]
      /\ Len(w) > 1 => u[Len(u) - 1] = w[Len(w) - 1]
      /\ Len(w) = 1 /\ Len(s) > 0 => u[Len(u) - 1] = s[Len(s)]
      /\ Len(s) \in Nat
  BY <1>2, <1>3, LastTwo
<1>5. IsEnding(w) => EndsAt(u, Len(u))
  BY <1>3, <1>4 DEF EndsAt
<1>6. ASSUME IsEnding(w) PROVE BeginsSentence(k + 1)
  <2>1. IsEnding(words[k])
    BY <1>6 DEF w
  <2> QED
    BY <1>1, <2>1 DEF BeginsSentence
<1>7. ASSUME EndsAt(u, Len(u)), ~IsEnding(w) PROVE BeginsSentence(k + 1)
  <2>1. Len(w) = 1 /\ Len(s) > 0 /\ w[1] \in {"rdquo", ")"} /\ s[Len(s)] = "."
    <3>1. ~EndsAt(w, Len(w))
      BY <1>3, <1>7
    <3>2. u[Len(u)] # "."
      BY <1>4, <3>1 DEF EndsAt
    <3>3. Len(u) > 1 /\ u[Len(u) - 1] = "." /\ u[Len(u)] \in {"rdquo", ")"}
      BY <1>7, <3>2 DEF EndsAt
    <3>4. ~(Len(w) > 1)
      BY <1>4, <3>1, <3>3 DEF EndsAt
    <3>5. Len(w) = 1 /\ Len(s) > 0
      <4>1. Len(u) > 1 /\ Len(u) = Len(s) + Len(w) /\ Len(s) \in Nat
        BY <1>4, <3>3
      <4>2. Len(w) \in Nat /\ Len(w) >= 1
        BY <1>3
      <4> DEFINE m == Len(w)
      <4>3. m \in Nat /\ m >= 1 /\ ~(m > 1)
        BY <3>4, <4>2
      <4> HIDE DEF m
      <4>4. m = 1
        BY <4>3
      <4>5. Len(s) + 1 > 1 /\ Len(s) \in Nat
        BY <4>1, <4>4 DEF m
      <4>6. Len(s) > 0
        BY <4>5
      <4> QED
        BY <4>4, <4>6 DEF m
    <3> QED
      BY <1>4, <3>3, <3>5
  <2>2. SplitsOnly(words[k])
    BY <2>1 DEF SplitsOnly, w, Splits, JOIN_BEFORE, JOIN_AFTER
  <2>3. j # 0
    <3>1. Len(Passed(0)) = 0
      BY PassedType
    <3> QED
      BY <2>1, <3>1 DEF s
  <2> DEFINE i == j - 1
             v == words[j]
             t == Passed(i)
  <2>4. i \in 0..(Len(words) - 1) /\ i \in 0..Len(words) /\ i + 1 = j
    BY <1>0, <1>1, <2>3
  <2>5. v \in Words /\ t \in Seq(AllChars) /\ s = t \o v
    <3> HIDE DEF i
    <3>1. Passed(i + 1) = Passed(i) \o words[i + 1] /\ words[i + 1] \in Words /\ Passed(i) \in Seq(AllChars)
      BY <2>4, PassedType
    <3> QED
      BY <2>4, <3>1 DEF s
  <2> HIDE DEF t, v, i
  <2>6. /\ v \in Seq(AllChars) /\ v # <<>> /\ (IsEnding(v) <=> EndsAt(v, Len(v)))
    BY <2>5, WordEnds
  <2>7. s[Len(s)] = v[Len(v)]
    BY <2>5, <2>6, LastTwo
  <2>8. IsEnding(words[j])
    BY <2>1, <2>6, <2>7 DEF EndsAt, v
  <2>9. j \in 0..((k + 1) - 1) /\ (j + 1)..((k + 1) - 1) = {k}
    BY <1>0, <1>1
  <2> QED
    BY <2>2, <2>8, <2>9 DEF BeginsSentence
<1>8. Len(u) >= 1
  BY <1>3, <1>4
<1> QED
  BY <1>5, <1>6, <1>7, <1>8 DEF u, w

LEMMA OrderlyBegins ==
  ASSUME Orderly, ReaderType, NEW k \in 1..Len(words), BeginsSentence(k)
  PROVE  /\ k = 1 \/ IsEnding(words[k - 1])
         /\ ~SplitsOnly(words[k]) /\ Printed(source)[Len(Passed(k - 1)) + 1] # "a"
<1>0. /\ DOMAIN words = 1..Len(words) /\ Len(words) \in Nat
      /\ \A j \in 1..Len(words) : BeginsSentence(j) =>
           ~SplitsOnly(words[j]) /\ Printed(source)[Len(Passed(j - 1)) + 1] # "a"
  <2>1. DOMAIN words = 1..Len(words) /\ Len(words) \in Nat
    BY DEF ReaderType
  <2>2. \A j \in DOMAIN words : BeginsSentence(j) =>
          ~SplitsOnly(words[j]) /\ Printed(source)[Len(Passed(j - 1)) + 1] # "a"
    BY Zenon DEF Orderly, Offset, Passed
  <2> QED
    BY <2>1, <2>2
<1>1. PICK j \in 0..(k - 1) :
        /\ j = 0 \/ IsEnding(words[j])
        /\ \A i \in (j + 1)..(k - 1) : SplitsOnly(words[i])
  BY DEF BeginsSentence
<1>2. j + 1 \in 1..Len(words) /\ j \in 0..((j + 1) - 1) /\ (j + 1)..((j + 1) - 1) = {}
  BY <1>0
<1>3. BeginsSentence(j + 1)
  BY <1>1, <1>2 DEF BeginsSentence
<1>4. ~SplitsOnly(words[j + 1])
  BY <1>0, <1>2, <1>3
<1>5. j = k - 1
  <2> SUFFICES ASSUME j # k - 1 PROVE FALSE
    OBVIOUS
  <2>1. j + 1 \in (j + 1)..(k - 1)
    BY <1>0
  <2> QED
    BY <1>1, <1>4, <2>1
<1>6. k = 1 \/ IsEnding(words[k - 1])
  BY <1>0, <1>1, <1>5
<1> QED
  BY <1>0, <1>6

\* What is printed so far is how the text begins, up to the next word.
AsRead ==
  /\ Len(Printed(output)) = Len(Passed(next - 1))
  /\ IsPrefixOf(Printed(output), Returned)

\* A letter that is not the small one of a pair is the capital, or has none.
LEMMA SmallSame ==
  ASSUME NEW c \in AllChars, NEW d \in AllChars, Small(c) = Small(d),
         d \notin {"eacute", "Eacute"}, c # "a"
  PROVE  c = IF d = "a" THEN "A" ELSE d
BY DEF Small

LEMMA EndsAsRead ==
  ASSUME ReaderType, NothingLost, ~Reading, ProseType, EndsKept, phase # "closed", AsRead
  PROVE  IsEnding(output) <=> (next = 1 \/ EndsAt(Passed(next - 1), Len(Passed(next - 1))))
<1> DEFINE p == Printed(output)
           u == Passed(next - 1)
           l == Len(u)
           F == FlattenSeq(words)
<1>1. /\ p \in Seq(AllChars) /\ next \in 1..(Len(words) + 1) /\ Len(words) \in Nat
      /\ IsEnding(output) <=> (p = <<>> \/ EndsAt(p, Len(p)))
  BY PrintedAppend DEF ProseType, ReaderType, EndsKept, EndsSame
<1>2. Len(p) = l /\ IsPrefixOf(p, Returned)
  BY DEF AsRead
<1>3. CASE next = 1
  <2>1. next - 1 = 0 /\ Passed(0) = <<>>
    BY <1>3, PassedType
  <2>2. p = <<>>
    BY <1>1, <1>2, <2>1
  <2> QED
    BY <1>1, <1>3, <2>2
<1>4. CASE next # 1
  <2>1. next - 1 \in 1..Len(words) /\ next - 1 \in 0..Len(words)
    BY <1>1, <1>4
  <2>2. u \in Seq(AllChars) /\ l >= 1 /\ l \in Nat /\ IsPrefixOf(u, F)
    <3> DEFINE k == next - 1
    <3> HIDE DEF k
    <3>1. Passed(k) \in Seq(AllChars) /\ Len(Passed(k)) >= 1 /\ IsPrefixOf(Passed(k), FlattenSeq(words))
      BY <2>1, PassedType, PassedEnds, PassedFirst DEF k
    <3> QED
      BY <3>1 DEF k
  <2>3. /\ F \in Seq(AllChars) /\ \A i \in 1..Len(F) : Small(Returned[i]) = Small(F[i])
    <3>1. /\ F \in Seq(AllChars)
          /\ \A i \in 1..Len(F) : Small(Printed(source)[i]) = Small(F[i])
          /\ \A i \in 1..Len(F) :
               Returned[i] = IF F[i] \in {"eacute", "Eacute"} THEN F[i] ELSE Printed(source)[i]
      BY TextOfWords
    <3> HIDE DEF F
    <3> QED
      BY <3>1
  <2> HIDE DEF p, u, F
  <2>4. \A i \in 1..l : /\ p[i] \in AllChars /\ u[i] \in AllChars /\ Small(p[i]) = Small(u[i])
    <3> TAKE i \in 1..l
    <3>1. i \in 1..Len(p) /\ i \in 1..Len(u) /\ l <= Len(F) /\ i \in 1..Len(F)
      BY <1>2, <2>2, <2>3 DEF IsPrefixOf
    <3>2. Returned[i] = p[i] /\ F[i] = u[i]
      BY <1>2, <2>2, <3>1 DEF IsPrefixOf
    <3> QED
      BY <1>1, <2>2, <2>3, <3>1, <3>2
  <2>5. \A i \in 1..l : \A c \in {".", "rdquo", ")"} : p[i] = c <=> u[i] = c
    <3> TAKE i \in 1..l
    <3> TAKE c \in {".", "rdquo", ")"}
    <3> QED
      BY <2>4, SmallFacts
  <2> HIDE DEF l
  <2>6. l \in 1..l /\ (l > 1 => l - 1 \in 1..l)
    BY <2>2
  <2>7. EndsAt(p, l) <=> EndsAt(u, l)
    BY <2>5, <2>6 DEF EndsAt
  <2>8. p # <<>>
    BY <1>2, <2>2
  <2> QED
    BY <1>1, <1>2, <1>4, <2>7, <2>8 DEF u, l
<1> QED
  BY <1>3, <1>4

\* The next word is printed as it stands in the text.
LEMMA SaidAsRead ==
  ASSUME ReaderType, NothingLost, OnlySentenceCapitalsAreLost, ~Reading, ProseType, EndsKept, AsRead,
         Orderly, phase # "closed", next <= Len(words)
  PROVE  /\ Len(Said) = Len(words[next])
         /\ \A i \in 1..Len(Said) : Returned[Len(Passed(next - 1)) + i] = Said[i]
<1> DEFINE w == words[next]
           o == Len(Passed(next - 1))
           t == Printed(source)
           F == FlattenSeq(words)
<1>1. next \in 1..Len(words) /\ Len(words) \in Nat /\ DOMAIN words = 1..Len(words) /\ w \in Words
  BY DEF ReaderType, ProseType
<1>2. /\ w \in Seq(AllChars) /\ DOMAIN w = 1..Len(w) /\ Len(w) \in Nat /\ 1 \in 1..Len(w)
      /\ \A i \in 1..Len(w) : w[i] \in Splits <=> w[1] \in Splits
  BY <1>1 DEF Words, Characters
<1>3. Len(Said) = Len(w)
  BY SaidType
<1>4. /\ Capitalized(w) \in Words /\ Len(Capitalized(w)) = Len(w)
      /\ \A i \in 1..Len(w) : Capitalized(w)[i] = IF i = 1 /\ w[1] = "a" THEN "A" ELSE w[i]
  BY <1>1, CapitalizedType
\* But for the case of letters, the word stands in the text.
<1>5. ASSUME NEW i \in 1..Len(w)
      PROVE  /\ t[o + i] \in AllChars /\ Small(t[o + i]) = Small(w[i])
             /\ Returned[o + i] = IF w[i] \in {"eacute", "Eacute"} THEN w[i] ELSE t[o + i]
  <2> DEFINE k == next - 1
             u == Passed(k)
             v == Passed(k + 1)
             x == words[k + 1]
  <2>1. k \in 0..(Len(words) - 1) /\ k \in 0..Len(words) /\ k + 1 \in 0..Len(words) /\ k + 1 = next
    BY <1>1
  <2> HIDE DEF k
  <2>2. v = u \o x /\ u \in Seq(AllChars) /\ x \in Seq(AllChars) /\ IsPrefixOf(v, F)
    BY <2>1, PassedType, PassedFirst
  <2>3. /\ t \in Seq(AllChars) /\ Len(t) = Len(F)
        /\ \A h \in 1..Len(F) : Small(t[h]) = Small(F[h])
        /\ \A h \in 1..Len(F) : Returned[h] = IF F[h] \in {"eacute", "Eacute"} THEN F[h] ELSE t[h]
    BY TextOfWords
  <2>4. Len(F) \in Nat
    BY WordsFlatten DEF ReaderType
  <2>5. x = w /\ Len(u) = o /\ o \in Nat
    BY <2>1, <2>2 DEF k
  <2> HIDE DEF u, v, x, w, o, F, t
  <2>6. Len(v) = o + Len(w) /\ v[o + i] = w[i]
    <3>1. /\ Len(u \o x) = Len(u) + Len(x)
          /\ \A h \in 1..(Len(u) + Len(x)) : (u \o x)[h] = IF h <= Len(u) THEN u[h] ELSE x[h - Len(u)]
      BY <2>2, ConcatProperties
    <3>2. o + i \in 1..(o + Len(w)) /\ ~(o + i <= o) /\ (o + i) - o = i
      BY <1>2, <2>5
    <3> QED
      BY <2>2, <2>5, <3>1, <3>2
  <2>7. o + i \in 1..Len(v) /\ o + i \in 1..Len(F)
    BY <1>2, <2>2, <2>4, <2>5, <2>6 DEF IsPrefixOf
  <2>8. F[o + i] = w[i]
    BY <2>2, <2>6, <2>7 DEF IsPrefixOf
  <2>9. t[o + i] \in AllChars
    BY <2>3, <2>7
  <2> QED
    BY <2>3, <2>7, <2>8, <2>9
<1>6. ASSUME NEW i \in 1..Len(w), t[o + i] # w[i] PROVE i = 1 /\ BeginsSentence(next)
  <2>1. KeptIn(words, t, next)
    BY <1>1, Kept
  <2>2. i = 1 /\ BeginsIn(words, next)
    BY <1>2, <1>6, <2>1, Zenon DEF KeptIn, Passed
  <2> QED
    BY <2>2, Zenon DEF BeginsSentence, BeginsIn
<1>7. IsEnding(output) <=> (next = 1 \/ EndsAt(Passed(next - 1), o))
  BY EndsAsRead
<1>8. CASE BeginsSentence(next)
  <2>1. /\ next = 1 \/ IsEnding(words[next - 1])
        /\ ~SplitsOnly(w) /\ t[o + 1] # "a"
    BY <1>1, <1>8, OrderlyBegins
  <2>2. IsEnding(output)
    <3>1. next # 1 => EndsAt(Passed(next - 1), o)
      <4> SUFFICES ASSUME next # 1 PROVE EndsAt(Passed(next - 1), o)
        OBVIOUS
      <4> DEFINE k == next - 1
      <4>1. k \in 1..Len(words) /\ IsEnding(words[k])
        BY <1>1, <2>1
      <4> HIDE DEF k
      <4>2. EndsAt(Passed(k), Len(Passed(k)))
        BY <4>1, PassedEnds
      <4> QED
        BY <4>2 DEF k
    <3> QED
      BY <1>7, <3>1
  <2>3. Said = Capitalized(w)
    BY <2>2, Zenon DEF Said, MustCapitalize
  <2>4. ASSUME NEW i \in 1..Len(w) PROVE Returned[o + i] = Said[i]
    <3>1. CASE i = 1
      <4>1. /\ w[1] \in AllChars /\ t[o + 1] \in AllChars /\ Small(t[o + 1]) = Small(w[1]) /\ t[o + 1] # "a"
            /\ Returned[o + 1] = IF w[1] \in {"eacute", "Eacute"} THEN w[1] ELSE t[o + 1]
        BY <1>2, <1>5, <2>1
      <4>2. Said[1] = IF w[1] = "a" THEN "A" ELSE w[1]
        BY <1>2, <1>4, <2>3
      <4>3. CASE w[1] \in {"eacute", "Eacute"}
        BY <3>1, <4>1, <4>2, <4>3
      <4>4. CASE w[1] \notin {"eacute", "Eacute"}
        <5>1. t[o + 1] = IF w[1] = "a" THEN "A" ELSE w[1]
          BY <4>1, <4>4, SmallSame
        <5> QED
          BY <3>1, <4>1, <4>2, <4>4, <5>1
      <4> QED
        BY <4>3, <4>4
    <3>2. CASE i # 1
      <4>1. t[o + i] = w[i]
        BY <1>6, <3>2
      <4>2. Said[i] = w[i]
        BY <1>4, <2>3, <3>2
      <4>3. Returned[o + i] = w[i]
        BY <1>5, <4>1
      <4> QED
        BY <4>2, <4>3
    <3> QED
      BY <3>1, <3>2
  <2> QED
    BY <1>3, <2>4
<1>9. CASE ~BeginsSentence(next)
  <2>1. ASSUME NEW i \in 1..Len(w) PROVE Returned[o + i] = w[i]
    <3>1. t[o + i] = w[i]
      BY <1>6, <1>9
    <3> QED
      BY <1>5, <3>1
  <2>2. ~IsEnding(output)
    <3> SUFFICES ASSUME IsEnding(output) PROVE FALSE
      OBVIOUS
    <3>1. CASE next = 1
      <4>1. BeginsSentence(1)
        <5>1. 0 \in 0..(1 - 1) /\ (0 + 1)..(1 - 1) = {}
          OBVIOUS
        <5> QED
          BY <5>1 DEF BeginsSentence
      <4> QED
        BY <1>9, <3>1, <4>1
    <3>2. CASE next # 1
      <4> DEFINE k == next - 1
      <4>1. k \in 1..Len(words) /\ k + 1 = next /\ EndsAt(Passed(k), Len(Passed(k)))
        BY <1>1, <1>7, <3>2
      <4> HIDE DEF k
      <4>2. BeginsSentence(k + 1)
        BY <4>1, PassedEnds
      <4> QED
        BY <1>9, <4>1, <4>2
    <3> QED
      BY <3>1, <3>2
  <2>3. Said = w
    <3>1. CASE MustCapitalize(must_capitalize, w, output)
      <4>1. IsPunct(w)
        BY <2>2, <3>1, Zenon DEF MustCapitalize
      <4>2. w[1] # "a"
        BY <1>2, <4>1 DEF IsPunct, Range, Ascii
      <4>3. Said = Capitalized(w)
        BY <3>1 DEF Said
      <4> DEFINE c == Capitalized(w)
      <4>4. \A i \in 1..Len(c) : c[i] = w[i]
        BY <1>4, <4>2
      <4>5. c \in Seq(AllChars) /\ Len(c) = Len(w)
        BY <1>4 DEF Words, Characters
      <4> HIDE DEF c
      <4>6. c = w
        BY <1>2, <4>4, <4>5, SeqEqual
      <4> QED
        BY <4>3, <4>6 DEF c
    <3>2. CASE ~MustCapitalize(must_capitalize, w, output)
      BY <3>2 DEF Said
    <3> QED
      BY <3>1, <3>2
  <2> QED
    BY <1>3, <2>1, <2>3
<1> QED
  BY <1>8, <1>9

\* An orderly text is being printed as it was read, and is printed to its end.
ComesBack ==
  /\ phase # "reading" => ~Reading
  /\ Orderly /\ phase \in {"skipping", "taking"} => (phase = "skipping" => next = 1) /\ AsRead
  /\ OrderlyTextComesBack

LEMMA OrderlyStays == ASSUME words' = words, source' = source PROVE Orderly' <=> Orderly
BY Zenon DEF Orderly, Printed, Offset, BeginsSentence, SplitsOnly

LEMMA ReturnedStays == ASSUME words' = words, source' = source PROVE Returned' = Returned
BY Zenon DEF Returned, Printed

LEMMA AsReadFrom ==
  ASSUME words' = words, source' = source, Len(Printed(output')) = Len(Passed(next' - 1)),
         IsPrefixOf(Printed(output'), Returned)
  PROVE  AsRead'
<1>1. Returned' = Returned
  BY ReturnedStays
<1> QED
  BY <1>1, Zenon DEF AsRead, Passed, Printed, IsPrefixOf

LEMMA AsReadFirst ==
  ASSUME ReaderType, NothingLost, ~Reading
  PROVE  \A u \in {<<>>} : Len(Printed(u)) = Len(Passed(0)) /\ IsPrefixOf(Printed(u), Returned)
<1>1. Printed(<<>>) = <<>> /\ Passed(0) = <<>> /\ Len(<<>>) = 0
  BY OnlyEmpty, PassedType DEF Printed
<1>2. Len(Returned) \in Nat
  <2>1. Returned \in Seq(AllChars)
    BY TextOfWords
  <2> QED
    BY <2>1
<1> QED
  BY <1>1, <1>2 DEF IsPrefixOf

LEMMA ComesBackStep ==
  ASSUME ReaderType, NothingLost, OnlySentenceCapitalsAreLost, ProseType, EndsKept, ComesBack, [Next]_vars
  PROVE  ComesBack'
<1>0. ASSUME words' = words, source' = source, UNCHANGED proseVars, pos' = pos PROVE ComesBack'
  <2>1. (Orderly' <=> Orderly) /\ output' = output /\ next' = next /\ phase' = phase /\ wanted' = wanted
    BY <1>0, OrderlyStays DEF proseVars
  <2>2. AsRead => AsRead'
    BY <1>0, <2>1, AsReadFrom DEF AsRead
  <2>3. Reading' <=> Reading
    BY <1>0 DEF Reading
  <2>4. OrderlyTextComesBack'
    BY <1>0, <2>1, Zenon DEF ComesBack, OrderlyTextComesBack, Printed
  <2> QED
    BY <2>1, <2>2, <2>3, <2>4 DEF ComesBack
<1>1. CASE UNCHANGED vars
  BY <1>0, <1>1 DEF vars, readerVars
<1>2. CASE Read
  <2>1. phase' = "reading"
    BY <1>2 DEF Read, proseVars
  <2> QED
    BY <2>1 DEF ComesBack, OrderlyTextComesBack
<1>3. CASE Generate
  <2>1. /\ ~Reading /\ words' = words /\ source' = source /\ pos' = pos /\ phase' = "skipping"
        /\ output' = <<>> /\ next' = 1
    BY <1>3 DEF Generate, ProseType, readerVars
  <2>2. ~Reading'
    BY <2>1 DEF Reading
  <2>3. AsRead'
    <3>1. Len(Printed(output')) = Len(Passed(next' - 1)) /\ IsPrefixOf(Printed(output'), Returned)
      <4>1. next' - 1 = 0 /\ output' \in {<<>>}
        BY <2>1
      <4> QED
        BY <2>1, <4>1, AsReadFirst
    <3> QED
      BY <2>1, <3>1, AsReadFrom
  <2> QED
    BY <2>1, <2>2, <2>3 DEF ComesBack, OrderlyTextComesBack
<1>4. CASE Skip
  <2>1. /\ phase = "skipping" /\ phase' = phase /\ words' = words /\ source' = source /\ pos' = pos
        /\ next <= Len(words) /\ words[next][1] \in JOIN_BEFORE
    BY <1>4 DEF Skip, readerVars
  <2>2. ~Reading'
    BY <2>1 DEF ComesBack, Reading
  <2>3. ~Orderly
    <3> SUFFICES ASSUME Orderly PROVE FALSE
      OBVIOUS
    <3>1. next = 1 /\ 1 \in 1..Len(words)
      BY <2>1 DEF ComesBack, ReaderType
    <3>2. BeginsSentence(1)
      <4>1. 0 \in 0..(1 - 1) /\ (0 + 1)..(1 - 1) = {}
        OBVIOUS
      <4> QED
        BY <4>1 DEF BeginsSentence
    <3>3. ~SplitsOnly(words[1])
      BY <3>1, <3>2, OrderlyBegins
    <3> QED
      BY <2>1, <3>1, <3>3 DEF SplitsOnly, Splits
  <2>4. ~Orderly'
    BY <2>1, <2>3, OrderlyStays
  <2> QED
    BY <2>1, <2>2, <2>4 DEF ComesBack, OrderlyTextComesBack
<1>5. CASE Take
  <2>1. /\ next <= Len(words) /\ words' = words /\ source' = source /\ phase' = "taking"
        /\ next' = next + 1 /\ output' = (output \o Gap) \o Said /\ phase \in {"skipping", "taking"}
    BY <1>5, TakeStep DEF Take
  <2>2. pos' = pos /\ ~Reading /\ ~Reading'
    <3>1. pos' = pos
      BY <1>5 DEF Take, readerVars
    <3> QED
      BY <2>1, <3>1 DEF ComesBack, Reading
  <2>3. ASSUME Orderly PROVE AsRead'
    <3> DEFINE p == Printed(output)
               o == Len(Passed(next - 1))
               t == Returned
    <3>1. AsRead
      BY <2>1, <2>3 DEF ComesBack
    <3>2. Len(Said) = Len(words[next]) /\ \A i \in 1..Len(Said) : t[o + i] = Said[i]
      BY <2>1, <2>2, <2>3, <3>1, SaidAsRead
    <3>3. /\ Said \in Words /\ Gap \in {<<>>, <<"space">>}
      BY <2>1, SaidType
    <3>4. output \in Seq(AllChars) /\ Said \in Seq(AllChars) /\ Printed(output') = p \o Said
      <4>1. output \in Seq(AllChars)
        BY DEF ProseType
      <4> QED
        BY <2>1, <3>3, <4>1, PrintedLaid
    <3>6. p \in Seq(AllChars) /\ t \in Seq(AllChars)
      BY <2>2, <3>4, PrintedAppend, TextOfWords
    <3>7. Len(p) = o /\ IsPrefixOf(p, t)
      BY <3>1 DEF AsRead
    <3>8. /\ Len(Passed(next)) = o + Len(Said)
          /\ Len(Passed(next)) <= Len(t)
      <4> DEFINE k == next - 1
      <4>1. k \in 0..(Len(words) - 1) /\ k \in 0..Len(words) /\ k + 1 = next /\ next \in 0..Len(words)
        BY <2>1 DEF ProseType, ReaderType
      <4> HIDE DEF k
      <4>2. Passed(k + 1) = Passed(k) \o words[k + 1] /\ Passed(k) \in Seq(AllChars) /\ words[k + 1] \in Seq(AllChars)
        BY <4>1, PassedType
      <4>3. Len(Passed(k + 1)) = Len(Passed(k)) + Len(words[k + 1])
        BY <4>2, ConcatProperties
      <4>4. Len(Passed(next)) = o + Len(Said)
        BY <3>2, <4>1, <4>3 DEF k
      <4>5. Len(Passed(next)) <= Len(FlattenSeq(words))
        BY <4>1, PassedFirst DEF IsPrefixOf
      <4>6. Len(t) = Len(FlattenSeq(words))
        BY <2>2, TextOfWords
      <4> QED
        BY <4>4, <4>5, <4>6
    <3> DEFINE q == p \o Said
    <3> HIDE DEF p, o, t
    <3>9. /\ Len(q) = o + Len(Said)
          /\ \A i \in 1..(o + Len(Said)) : q[i] = IF i <= o THEN p[i] ELSE Said[i - o]
      BY <3>4, <3>6, <3>7, ConcatProperties
    <3> HIDE DEF q
    <3>10. o \in Nat /\ Len(Said) \in Nat /\ Len(t) \in Nat
      BY <3>4, <3>6, <3>7
    <3>11. \A i \in 1..Len(q) : t[i] = q[i]
      <4> TAKE i \in 1..Len(q)
      <4>1. CASE i <= o
        <5>1. q[i] = p[i] /\ t[i] = p[i]
          BY <3>7, <3>9, <3>10, <4>1 DEF IsPrefixOf
        <5> QED
          BY <5>1
      <4>2. CASE ~(i <= o)
        <5>1. i - o \in 1..Len(Said) /\ o + (i - o) = i
          BY <3>9, <3>10, <4>2
        <5>2. q[i] = Said[i - o]
          BY <3>9, <3>10, <4>2
        <5>3. t[o + (i - o)] = Said[i - o]
          BY <3>2, <5>1
        <5> QED
          BY <5>1, <5>2, <5>3
      <4> QED
        BY <4>1, <4>2
    <3>12. IsPrefixOf(q, t)
      BY <3>8, <3>9, <3>11 DEF IsPrefixOf
    <3>13. (next + 1) - 1 = next
      BY DEF ProseType
    <3>14. Len(Printed(output')) = Len(Passed(next' - 1)) /\ IsPrefixOf(Printed(output'), Returned)
      BY <2>1, <3>4, <3>8, <3>9, <3>12, <3>13 DEF q, t
    <3> QED
      BY <2>1, <3>14, AsReadFrom
  <2>4. Orderly' <=> Orderly
    BY <2>1, OrderlyStays
  <2> QED
    BY <2>1, <2>2, <2>3, <2>4 DEF ComesBack, OrderlyTextComesBack
<1>6. CASE Close
  <2>1. /\ phase \in {"skipping", "taking"} /\ output' = Closed(output) /\ phase' = "closed"
        /\ words' = words /\ source' = source /\ pos' = pos /\ wanted' = wanted /\ next' = next
    BY <1>6 DEF Close, readerVars
  <2>2. ~Reading /\ ~Reading'
    BY <2>1 DEF ComesBack, Reading
  <2>3. ASSUME next > Len(words), Orderly PROVE Printed(Closed(output)) = Returned
    <3>1. AsRead /\ phase # "closed"
      BY <2>1, <2>3 DEF ComesBack
    <3>2. /\ words # <<>> /\ IsEnding(Last(words)) /\ Len(words) \in 1..Len(words)
          /\ next - 1 = Len(words)
      BY <2>3 DEF Orderly, ReaderType, ProseType
    <3>3. IsEnding(output)
      <4>1. IsEnding(words[Len(words)])
        BY <3>2 DEF Last
      <4>2. EndsAt(Passed(Len(words)), Len(Passed(Len(words))))
        BY <3>2, <4>1, PassedEnds
      <4>3. EndsAt(Passed(next - 1), Len(Passed(next - 1)))
        BY <3>2, <4>2
      <4> QED
        BY <2>2, <3>1, <4>3, EndsAsRead
    <3>4. Closed(output) = output
      BY <3>3 DEF Closed
    <3> DEFINE p == Printed(output)
               t == Returned
    <3>5. p \in Seq(AllChars) /\ t \in Seq(AllChars)
      BY <2>2, PrintedAppend, TextOfWords DEF ProseType
    <3>6. Len(p) = Len(t)
      <4>1. Len(p) = Len(Passed(Len(words)))
        BY <3>1, <3>2 DEF AsRead
      <4>2. Len(t) = Len(FlattenSeq(words))
        BY <2>2, TextOfWords
      <4> QED
        BY <4>1, <4>2, PassedType
    <3>7. IsPrefixOf(p, t)
      BY <3>1 DEF AsRead
    <3> HIDE DEF p, t
    <3>8. \A i \in 1..Len(p) : p[i] = t[i]
      BY <3>7 DEF IsPrefixOf
    <3>9. p = t
      BY <3>5, <3>6, <3>8, SeqEqual
    <3> QED
      BY <3>4, <3>9 DEF p, t
  <2>4. Orderly' <=> Orderly
    BY <2>1, OrderlyStays
  <2>5. OrderlyTextComesBack'
    <3>1. ASSUME next' > Len(words'), Orderly' PROVE Printed(output') = Returned'
      <4>1. next > Len(words) /\ Orderly
        BY <2>1, <2>4, <3>1
      <4>2. Returned' = Returned
        BY <2>1, ReturnedStays
      <4> QED
        BY <2>1, <2>3, <4>1, <4>2
    <3> QED
      BY <3>1, Zenon DEF OrderlyTextComesBack, Returned, Printed
  <2> QED
    BY <2>1, <2>2, <2>5 DEF ComesBack
<1>7. CASE TakeEmpty
  <2>1. /\ words' = words /\ source' = source /\ pos' = pos /\ next' = next
        /\ phase \in {"skipping", "taking"} /\ phase' \in {"panicked", "taking"}
        /\ output' = output \/ output' = Append(output, "space")
    BY <1>7, EmptyStep
  <2>2. ~Reading'
    BY <2>1 DEF ComesBack, Reading
  <2>3. Printed(output') = Printed(output)
    <3>1. output \in Seq(AllChars) /\ "space" \in AllChars
      BY DEF ProseType, AllChars
    <3> QED
      BY <2>1, <3>1, PrintedAppend
  <2>4. Orderly' <=> Orderly
    BY <2>1, OrderlyStays
  <2>5. ASSUME Orderly PROVE AsRead'
    <3>1. AsRead
      BY <2>1, <2>5 DEF ComesBack
    <3> QED
      BY <2>1, <2>3, <3>1, AsReadFrom DEF AsRead
  <2> QED
    BY <2>1, <2>2, <2>4, <2>5 DEF ComesBack, OrderlyTextComesBack
<1> QED
  BY <1>1, <1>2, <1>3, <1>4, <1>5, <1>6, <1>7 DEF Next

\* Reading a text and printing its words undo each other, in every text of whole
\* sentences: it comes out again character by character, with its capitals.  Only
\* letters outside of ASCII stay as they were read, whatever the text.
THEOREM ComesBackCorrect == Spec => []OrderlyTextComesBack
<1>1. Init => ComesBack
  <2> SUFFICES ASSUME Init PROVE ComesBack
    OBVIOUS
  <2>1. phase = "reading"
    BY DEF Init
  <2> QED
    BY <2>1 DEF ComesBack, OrderlyTextComesBack
<1>2. Init => EndsKept
  <2> SUFFICES ASSUME Init PROVE EndsKept
    OBVIOUS
  <2>1. output = <<>>
    BY DEF Init
  <2>2. Printed(<<>>) = <<>> /\ IsEnding(<<>>)
    BY OnlyEmpty, EndingEmpty DEF Printed
  <2> QED
    BY <2>1, <2>2 DEF EndsKept, EndsSame
<1>3. ComesBack => OrderlyTextComesBack
  BY DEF ComesBack
<1> QED
  BY <1>1, <1>2, <1>3, EndsKeptStep, ComesBackStep, ReaderTypeCorrect, ProseTypeCorrect,
     NothingLostCorrect, CapitalsCorrect, PTL DEF Spec
=============================================================================
