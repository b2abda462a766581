---------------------------- MODULE ConfigProofs -----------------------------
(***************************************************************************)
(* Whatever nodes stand in the file: the parser refuses it, or makes a     *)
(* configuration in which every setting has its type, every number is a    *)
(* default or one that was written, and nothing has panicked.  A file that *)
(* is refused stays refused whatever is put into it, and a line put into   *)
(* one that is read changes the settings it names and no others.           *)
(***************************************************************************)
EXTENDS ConfigParse, FiniteSetTheorems, SequenceTheorems, WellFoundedInduction, TLAPS

-----------------------------------------------------------------------------
(* Sections and their types: of each setting, the values it may have.  W   *)
(* are the numbers that stand in the file.                                 *)

Typed(T) == {s \in [DOMAIN T -> UNION {T[f] : f \in DOMAIN T}] : \A f \in DOMAIN T : s[f] \in T[f]}

OrRefused(S) == S \cup {Refused}

Limit(default, W) == {default} \cup (W \cap (0..MaxUsize))

ServerType(W) ==
  [listen |-> Addresses \cup {"127.0.0.1:4000"}, mode |-> {"proxy", "preflight"},
   valid |-> {200} \cup (W \cap (100..999)), spam |-> {401} \cup (W \cap (100..999))]

ClassifierType(W) ==
  [header |-> HeaderNames \cup {Unset}, robots |-> Strings \cup {Unset},
   asnsDb |-> Strings \cup {Unset}, unwantedAgents |-> Seq(Strings),
   trustedAgents |-> Seq(Strings), trustedPaths |-> Seq(Strings),
   unwantedAsns |-> Seq(W \cap (0..MaxU32))]

GarbageType(W) ==
  [corpus |-> Seq(Strings), wordsFile |-> Strings \cup {Unset}, template |-> Strings \cup {Unset},
   poisons |-> Seq(Strings),
   paraMin |-> Limit(4, W), paraMax |-> Limit(6, W),
   paraWordsMin |-> Limit(16, W), paraWordsMax |-> Limit(32, W),
   linkMin |-> Limit(2, W), linkMax |-> Limit(5, W),
   linkWordsMin |-> Limit(2, W), linkWordsMax |-> Limit(4, W),
   separator |-> Range(FirstChar) \cup {"-"}, slash |-> BOOLEAN]

LoggingType ==
  [level |-> Levels \cup {"off"}, target |-> {"stdout", "stderr"}, color |-> BOOLEAN,
   timestamps |-> BOOLEAN, handler |-> BOOLEAN]

MetricsType ==
  [listen |-> Addresses \cup {"127.0.0.1:4001"}, persist |-> Strings \cup {Unset}]

ConfigType(W) ==
  [server |-> Typed(ServerType(W)), classifier |-> Typed(ClassifierType(W)),
   garbage |-> Typed(GarbageType(W)), logging |-> Typed(LoggingType),
   metrics |-> {Unset} \cup Typed(MetricsType)]

-----------------------------------------------------------------------------
(* Files.                                                                  *)

WritableEntries == UNION {Range(n.entries) : n \in Blocks \cup Lines \cup NestedLines}

EntriesIn(W) == {e \in WritableEntries : e.kind = "int" => e.value \in W}

NestedIn(W) ==
  [name : {n.name : n \in NestedLines}, entries : Seq(EntriesIn(W)), children : {<<>>}]
LineIn(W) ==
  [name : {l.name : l \in Lines}, entries : Seq(EntriesIn(W)), children : Seq(NestedIn(W))]
BlockIn(W) ==
  [name : {b.name : b \in Blocks}, entries : Seq(EntriesIn(W)), children : Seq(LineIn(W))]

LEMMA EntryFacts ==
  ASSUME NEW W, NEW e \in EntriesIn(W)
  PROVE  /\ e.kind = "string" => e.value \in Strings
         /\ e.kind = "bool" => e.value \in BOOLEAN
         /\ e.kind = "int" => e.value \in Int /\ e.value \in W
  BY NodesAssumption DEF EntriesIn, WritableEntries

LEMMA NestedFacts ==
  ASSUME NEW W, NEW n \in NestedIn(W)
  PROVE  n.entries \in Seq(EntriesIn(W))
  BY DEF NestedIn

-----------------------------------------------------------------------------
(* One setting.                                                            *)

LEMMA SetTyped ==
  ASSUME NEW T, NEW s \in OrRefused(Typed(T)), NEW f \in DOMAIN T, NEW v \in OrRefused(T[f])
  PROVE  Set(s, f, v) \in OrRefused(Typed(T))
<1>1. CASE s = Refused \/ v = Refused
  BY <1>1 DEF Set, OrRefused
<1>2. CASE s # Refused /\ v # Refused
  <2> DEFINE t == [s EXCEPT ![f] = v]
             U == UNION {T[g] : g \in DOMAIN T}
  <2>1. s \in Typed(T) /\ v \in T[f]
    BY <1>2 DEF OrRefused
  <2>2. s \in [DOMAIN T -> U] /\ \A g \in DOMAIN T : s[g] \in T[g]
    BY <2>1 DEF Typed
  <2>3. v \in U
    BY <2>1
  <2> HIDE DEF U
  <2>4. t \in [DOMAIN T -> U] /\ \A g \in DOMAIN T : t[g] \in T[g]
    BY <2>1, <2>2, <2>3
  <2>5. t \in Typed(T)
    BY <2>4 DEF Typed, U
  <2> QED
    BY <1>2, <2>5 DEF Set, OrRefused
<1> QED
  BY <1>1, <1>2

-----------------------------------------------------------------------------
(* The values a node holds.                                                *)

\* A set of numbers has a least one.
LEMMA LeastOf ==
  ASSUME NEW S \in SUBSET Nat, S # {}
  PROVE  Min(S) \in S
<1>1. PICK x \in S : \A y \in S : ~ (<<y, x>> \in OpToRel(<, Nat))
  BY NatLessThanWellFounded, WFMin
<1>2. \A y \in S : ~(y < x)
  BY <1>1 DEF OpToRel
<1>3. \E z \in S : \A y \in S : z =< y
  <2>1. S \subseteq Int
    OBVIOUS
  <2> QED
    BY <1>2, <2>1
<1> QED
  BY <1>3, Zenon DEF Min

LEMMA FirstEntry ==
  ASSUME NEW W, NEW n, n.entries \in Seq(EntriesIn(W)), Arguments(n) # {}
  PROVE  n.entries[Min(Arguments(n))] \in EntriesIn(W)
<1>1. Arguments(n) \subseteq DOMAIN n.entries /\ DOMAIN n.entries \subseteq Nat
  BY DEF Arguments
<1>2. Min(Arguments(n)) \in Arguments(n)
  BY <1>1, LeastOf
<1> QED
  BY <1>1, <1>2

LEMMA OneStringType ==
  ASSUME NEW W, NEW n, n.entries \in Seq(EntriesIn(W))
  PROVE  OneString(n) \in OrRefused(Strings)
<1>1. CASE FirstIs(n, "string")
  <2>1. FirstValue(n) \in Strings
    BY <1>1, FirstEntry, EntryFacts DEF FirstIs, FirstValue
  <2> QED
    BY <1>1, <2>1 DEF OneString, OrRefused
<1>2. CASE ~FirstIs(n, "string")
  BY <1>2 DEF OneString, OrRefused
<1> QED
  BY <1>1, <1>2

LEMMA OneOfType ==
  ASSUME NEW S, NEW n
  PROVE  OneOf(S, n) \in OrRefused(S)
  BY DEF OneOf, OrRefused

LEMMA OneStringArgType ==
  ASSUME NEW W, NEW n, n.entries \in Seq(EntriesIn(W))
  PROVE  /\ OneStringArg(n) \in OrRefused(Strings)
         /\ OneStringArg(n) \in OrRefused(DOMAIN FirstChar)
<1>1. OneString(n) \in OrRefused(Strings)
  BY OneStringType
<1> QED
  BY <1>1 DEF OneStringArg, OrRefused, Strings

LEMMA OneBooleanishType ==
  ASSUME NEW W, NEW n, n.entries \in Seq(EntriesIn(W))
  PROVE  OneBooleanish(n) \in OrRefused(BOOLEAN)
<1>1. CASE FirstIs(n, "bool")
  <2>1. FirstValue(n) \in BOOLEAN
    BY <1>1, FirstEntry, EntryFacts DEF FirstIs, FirstValue
  <2> QED
    BY <1>1, <2>1 DEF OneBooleanish, OrRefused
<1>2. CASE ~FirstIs(n, "bool")
  BY <1>2 DEF OneBooleanish, OrRefused
<1> QED
  BY <1>1, <1>2

\* A number is taken as it is written, or refused.
LEMMA IntOfType ==
  ASSUME NEW W, NEW e \in EntriesIn(W), NEW max
  PROVE  IntOf(e, max) \in OrRefused(W \cap (0..max))
<1>1. CASE e.kind = "int" /\ e.value \in 0..max
  BY <1>1, EntryFacts DEF IntOf, OrRefused
<1>2. CASE ~(e.kind = "int" /\ e.value \in 0..max)
  BY <1>2 DEF IntOf, OrRefused
<1> QED
  BY <1>1, <1>2

LEMMA IntPropType ==
  ASSUME NEW W, NEW n, n.entries \in Seq(EntriesIn(W)), NEW name, NEW max,
         NEW S, W \cap (0..max) \subseteq S, NEW old \in S
  PROVE  IntProp(n, name, max, old) \in OrRefused(S)
<1> DEFINE named == {i \in DOMAIN n.entries : n.entries[i].name = name}
<1>1. CASE named = {}
  BY <1>1 DEF IntProp, OrRefused
<1>2. CASE named # {}
  <2>1. named \subseteq DOMAIN n.entries /\ DOMAIN n.entries \subseteq Nat
    OBVIOUS
  <2>2. IntProp(n, name, max, old) = IntOf(n.entries[Min(named)], max)
    BY <1>2 DEF IntProp
  <2> HIDE DEF named
  <2>3. Min(named) \in named
    BY <1>2, <2>1, LeastOf
  <2>4. n.entries[Min(named)] \in EntriesIn(W)
    BY <2>1, <2>3
  <2>5. IntOf(n.entries[Min(named)], max) \in OrRefused(W \cap (0..max))
    BY <2>4, IntOfType
  <2> QED
    BY <2>2, <2>5 DEF OrRefused
<1> QED
  BY <1>1, <1>2

LEMMA StatusType ==
  ASSUME NEW W, NEW n, n.entries \in Seq(EntriesIn(W)), NEW name,
         NEW S, W \cap (100..999) \subseteq S, NEW old \in S
  PROVE  Status(n, name, old) \in OrRefused(S)
<1> DEFINE v == IntProp(n, name, MaxU16, old)
           U == S \cup (W \cap (0..MaxU16))
<1>1. v \in OrRefused(U)
  BY IntPropType
<1>2. Status(n, name, old) = IF v \in 100..999 THEN v ELSE Refused
  BY DEF Status
<1> HIDE DEF v
<1>3. CASE v \in 100..999
  <2>1. Status(n, name, old) = v
    BY <1>2, <1>3
  <2>2. v \in W => v \in S
    BY <1>3
  <2>3. v = Refused \/ v \in S \/ v \in W
    BY <1>1 DEF OrRefused
  <2> HIDE DEF U
  <2> QED
    BY <2>1, <2>2, <2>3 DEF OrRefused
<1>4. CASE v \notin 100..999
  BY <1>2, <1>4 DEF OrRefused
<1> QED
  BY <1>3, <1>4

\* The values of a list, if none of them is refused.
LEMMA ListType ==
  ASSUME NEW n \in Nat, NEW S, NEW values, DOMAIN values = 1..n,
         values = [i \in 1..n |-> values[i]], \A i \in 1..n : values[i] \in OrRefused(S)
  PROVE  (\E i \in DOMAIN values : values[i] = Refused) \/ values \in Seq(S)
<1>1. ASSUME ~\E i \in DOMAIN values : values[i] = Refused
      PROVE  values \in Seq(S)
  <2>1. \A i \in 1..n : values[i] \in S
    BY <1>1 DEF OrRefused
  <2>2. values \in [1..n -> S]
    BY <2>1
  <2> QED
    BY <2>2
<1> QED
  BY <1>1

LEMMA StringSeqType ==
  ASSUME NEW W, NEW n, n.entries \in Seq(EntriesIn(W))
  PROVE  StringSeq(n) \in OrRefused(Seq(Strings))
<1> DEFINE values == [i \in DOMAIN n.entries |->
                        IF n.entries[i].name = NoName
                        THEN IF n.entries[i].kind = "string" THEN n.entries[i].value ELSE Refused
                        ELSE Refused]
           m == Len(n.entries)
<1>1. m \in Nat /\ DOMAIN n.entries = 1..m /\ \A i \in 1..m : n.entries[i] \in EntriesIn(W)
  OBVIOUS
<1> HIDE DEF m
<1>2. ASSUME NEW i \in 1..m PROVE values[i] \in OrRefused(Strings)
  <2>1. n.entries[i] \in EntriesIn(W)
    BY <1>1
  <2> QED
    BY <1>1, <2>1, EntryFacts DEF OrRefused
<1>3. DOMAIN values = 1..m /\ values = [i \in 1..m |-> values[i]]
  BY <1>1
<1>4. StringSeq(n) = IF \E i \in DOMAIN values : values[i] = Refused THEN Refused ELSE values
  BY Zenon DEF StringSeq, SeqOfEntries
<1> HIDE DEF values
<1>5. (\E i \in DOMAIN values : values[i] = Refused) \/ values \in Seq(Strings)
  BY <1>1, <1>2, <1>3, ListType
<1> QED
  BY <1>4, <1>5 DEF OrRefused

LEMMA IntSeqType ==
  ASSUME NEW W, NEW n, n.entries \in Seq(EntriesIn(W))
  PROVE  IntSeq(n) \in OrRefused(Seq(W \cap (0..MaxU32)))
<1> DEFINE values == [i \in DOMAIN n.entries |->
                        IF n.entries[i].name = NoName THEN IntOf(n.entries[i], MaxU32) ELSE Refused]
           m == Len(n.entries)
<1>1. m \in Nat /\ DOMAIN n.entries = 1..m /\ \A i \in 1..m : n.entries[i] \in EntriesIn(W)
  OBVIOUS
<1> HIDE DEF m
<1>2. ASSUME NEW i \in 1..m PROVE values[i] \in OrRefused(W \cap (0..MaxU32))
  <2>1. IntOf(n.entries[i], MaxU32) \in OrRefused(W \cap (0..MaxU32))
    BY <1>1, IntOfType
  <2> QED
    BY <1>1, <2>1 DEF OrRefused
<1>3. DOMAIN values = 1..m /\ values = [i \in 1..m |-> values[i]]
  BY <1>1
<1>4. IntSeq(n) = IF \E i \in DOMAIN values : values[i] = Refused THEN Refused ELSE values
  BY Zenon DEF IntSeq, SeqOfEntries
<1> HIDE DEF values
<1>5. (\E i \in DOMAIN values : values[i] = Refused) \/ values \in Seq(W \cap (0..MaxU32))
  BY <1>1, <1>2, <1>3, ListType
<1> QED
  BY <1>4, <1>5 DEF OrRefused

-----------------------------------------------------------------------------
(* A block or a line with lines of its own: each is read after the one     *)
(* before it, until one is refused.                                        *)

\* Induction from 0 to n, over the set of the numbers that have the property.
LEMMA InductionTo ==
  ASSUME NEW n \in Nat, NEW T, 0 \in T, \A k \in 0..(n-1) : k \in T => k + 1 \in T
  PROVE  n \in T
<1> DEFINE Rest == {k \in 0..n : k \notin T}
<1>1. ASSUME Rest # {} PROVE FALSE
  <2> HIDE DEF Rest
  <2>1. Rest \subseteq Nat
    BY DEF Rest
  <2>2. PICK x \in Rest : \A y \in Rest : ~ (<<y, x>> \in OpToRel(<, Nat))
    BY <1>1, <2>1, NatLessThanWellFounded, WFMin
  <2>3. \A y \in Rest : ~(y < x)
    BY <2>1, <2>2 DEF OpToRel
  <2>4. x \in 1..n
    BY DEF Rest
  <2>5. x - 1 \in T /\ x - 1 \in 0..(n-1)
    BY <2>3, <2>4 DEF Rest
  <2> QED
    BY <2>4, <2>5 DEF Rest
<1> QED
  BY <1>1

\* One reading after the other, as a sequence of sections.
ReadsWith(f, g, b, n) ==
  /\ f[0] = b
  /\ \A i \in 1..n : f[i] = IF f[i-1] = Refused THEN Refused ELSE g[<<i, f[i-1]>>]

LEMMA ReadingExists ==
  ASSUME NEW n \in Nat, NEW G, NEW b \in OrRefused(G), NEW g,
         \A i \in 1..n : \A s \in G : g[<<i, s>>] \in OrRefused(G)
  PROVE  \E f \in [0..n -> OrRefused(G)] : ReadsWith(f, g, b, n)
<1> DEFINE R(f, k) == f \in [0..k -> OrRefused(G)] /\ ReadsWith(f, g, b, k)
           T == {k \in 0..n : \E f : R(f, k)}
<1>1. 0 \in T
  <2> DEFINE e == [i \in 0..0 |-> b]
  <2>1. R(e, 0)
    BY DEF ReadsWith
  <2> HIDE DEF e, R
  <2> QED
    BY <2>1
<1>2. ASSUME NEW k \in 0..(n-1), k \in T PROVE k + 1 \in T
  <2>1. PICK h : R(h, k)
    BY <1>2
  <2> DEFINE next == IF h[k] = Refused THEN Refused ELSE g[<<k + 1, h[k]>>]
             f == [i \in 0..(k+1) |-> IF i <= k THEN h[i] ELSE next]
  <2>2. next \in OrRefused(G)
    <3>1. h[k] \in OrRefused(G) /\ k + 1 \in 1..n
      BY <2>1
    <3>2. CASE h[k] = Refused
      BY <3>2 DEF OrRefused
    <3>3. CASE h[k] # Refused
      <4>1. h[k] \in G
        BY <3>1, <3>3 DEF OrRefused
      <4>2. g[<<k + 1, h[k]>>] \in OrRefused(G)
        BY <3>1, <4>1
      <4> QED
        BY <3>3, <4>2
    <3> QED
      BY <3>2, <3>3
  <2>3. f \in [0..(k+1) -> OrRefused(G)] /\ f[0] = b
    <3> HIDE DEF next
    <3> QED
      BY <2>1, <2>2 DEF ReadsWith
  <2>4. ASSUME NEW i \in 1..(k+1)
        PROVE  f[i] = IF f[i-1] = Refused THEN Refused ELSE g[<<i, f[i-1]>>]
    <3>1. CASE i <= k
      <4>1. f[i] = h[i] /\ f[i-1] = h[i-1]
        BY <3>1
      <4>2. h[i] = IF h[i-1] = Refused THEN Refused ELSE g[<<i, h[i-1]>>]
        BY <2>1, <3>1 DEF ReadsWith
      <4> QED
        BY <4>1, <4>2
    <3>2. CASE i = k + 1
      <4>1. f[i] = next /\ f[i-1] = h[k]
        BY <3>2
      <4> QED
        BY <3>2, <4>1
    <3> QED
      BY <3>1, <3>2
  <2> HIDE DEF f
  <2>5. R(f, k + 1)
    BY <2>3, <2>4 DEF ReadsWith
  <2> HIDE DEF R
  <2> QED
    BY <2>5
<1>3. n \in T
  <2> HIDE DEF T
  <2> QED
    BY <1>1, <1>2, InductionTo
<1> QED
  BY <1>3

\* What holds of the first section and is kept by each reading holds of the last.
LEMMA ReadingKeeps ==
  ASSUME NEW n \in Nat, NEW G, NEW f, f[0] \in G, \A i \in 1..n : f[i-1] \in G => f[i] \in G
  PROVE  f[n] \in G
<1> DEFINE T == {k \in 0..n : f[k] \in G}
<1>1. 0 \in T
  OBVIOUS
<1>2. ASSUME NEW k \in 0..(n-1), k \in T PROVE k + 1 \in T
  <2>1. k + 1 \in 1..n /\ (k + 1) - 1 = k
    OBVIOUS
  <2> QED
    BY <1>2, <2>1
<1>3. n \in T
  <2> HIDE DEF T
  <2> QED
    BY <1>1, <1>2, InductionTo
<1> QED
  BY <1>3

\* The readers of lines and blocks, by the node whose children they read.
ReadBy(k, s, n) ==
  CASE k = "doc"         -> Block(s, n)
    [] k = "server"      -> ServerLine(s, n)
    [] k = "classifier"  -> ClassifierLine(s, n)
    [] k = "user-agents" -> AgentsLine(s, n)
    [] k = "asns"        -> AsnsLine(s, n)
    [] k = "garbage"     -> GarbageLine(s, n)
    [] k = "paragraphs"  -> ParagraphsLine(s, n)
    [] k = "links"       -> LinksLine(s, n)
    [] k = "logging"     -> LoggingLine(s, n)
    [] k = "metrics"     -> MetricsLine(s, n)

\* f is what Children computes of lines c, section b and that reader.
Reads(f, k, b, c) ==
  f = [i \in 0..Len(c) |->
         IF i = 0 THEN b ELSE IF f[i-1] = Refused THEN Refused ELSE ReadBy(k, f[i-1], c[i])]

LEMMA ReadsAt ==
  ASSUME NEW f, NEW k, NEW b, NEW c, Len(c) \in Nat, Reads(f, k, b, c)
  PROVE  /\ f[0] = b
         /\ \A i \in 1..Len(c) :
              f[i] = IF f[i-1] = Refused THEN Refused ELSE ReadBy(k, f[i-1], c[i])
<1> DEFINE h == [i \in 0..Len(c) |->
                   IF i = 0 THEN b
                   ELSE IF f[i-1] = Refused THEN Refused ELSE ReadBy(k, f[i-1], c[i])]
<1>1. f = h
  BY Zenon DEF Reads
<1>2. h[0] = b
  OBVIOUS
<1>3. ASSUME NEW i \in 1..Len(c)
      PROVE  h[i] = IF f[i-1] = Refused THEN Refused ELSE ReadBy(k, f[i-1], c[i])
  OBVIOUS
<1> HIDE DEF h
<1>4. f[0] = h[0] /\ \A i \in 1..Len(c) : f[i] = h[i]
  BY <1>1
<1> QED
  BY <1>2, <1>3, <1>4, Zenon

\* If each line makes a section of its type of one, or is refused, so do they all.
LEMMA ReadsTyped ==
  ASSUME NEW k, NEW c, Len(c) \in Nat, NEW G, NEW b \in OrRefused(G),
         \A i \in 1..Len(c) : \A s \in G : ReadBy(k, s, c[i]) \in OrRefused(G)
  PROVE  /\ \E f : Reads(f, k, b, c)
         /\ \A f : Reads(f, k, b, c) => f[Len(c)] \in OrRefused(G)
<1> DEFINE m == Len(c)
           g == [p \in (1..m) \X G |-> ReadBy(k, p[2], c[p[1]])]
<1>1. \A i \in 1..m : \A s \in G : g[<<i, s>>] = ReadBy(k, s, c[i])
  OBVIOUS
<1>2. \A i \in 1..m : \A s \in G : g[<<i, s>>] \in OrRefused(G)
  BY <1>1
<1>a. m \in Nat
  OBVIOUS
<1> HIDE DEF g, m
<1>3. \E f : Reads(f, k, b, c)
  <2>1. PICK f \in [0..m -> OrRefused(G)] : ReadsWith(f, g, b, m)
    BY <1>2, <1>a, ReadingExists
  <2>2. ASSUME NEW i \in 1..m
        PROVE  f[i] = IF f[i-1] = Refused THEN Refused ELSE ReadBy(k, f[i-1], c[i])
    <3>1. CASE f[i-1] = Refused
      BY <2>1, <3>1 DEF ReadsWith
    <3>2. CASE f[i-1] # Refused
      <4>1. i - 1 \in 0..m
        BY <1>a
      <4>5. f[i-1] \in OrRefused(G)
        BY <4>1
      <4>2. f[i-1] \in G
        BY <3>2, <4>5 DEF OrRefused
      <4>3. f[i] = g[<<i, f[i-1]>>]
        BY <2>1, <3>2 DEF ReadsWith
      <4> QED
        BY <1>1, <3>2, <4>2, <4>3
    <3> QED
      BY <3>1, <3>2
  <2>3. Reads(f, k, b, c)
    BY <2>1, <2>2 DEF Reads, ReadsWith, m
  <2> QED
    BY <2>3
<1> USE DEF m
<1>4. ASSUME NEW f, Reads(f, k, b, c) PROVE f[m] \in OrRefused(G)
  <2>1. f[0] \in OrRefused(G)
    BY <1>4, ReadsAt
  <2>2. ASSUME NEW i \in 1..m, f[i-1] \in OrRefused(G) PROVE f[i] \in OrRefused(G)
    <3>1. f[i] = IF f[i-1] = Refused THEN Refused ELSE ReadBy(k, f[i-1], c[i])
      BY <1>4, ReadsAt
    <3>2. CASE f[i-1] = Refused
      BY <3>1, <3>2 DEF OrRefused
    <3>3. CASE f[i-1] # Refused
      <4>1. f[i-1] \in G
        BY <2>2, <3>3 DEF OrRefused
      <4> QED
        BY <3>1, <3>3, <4>1
    <3> QED
      BY <3>2, <3>3
  <2> QED
    BY <2>1, <2>2, ReadingKeeps
<1> QED
  BY <1>3, <1>4


\* One reading there is, and what it comes to.
After(k, b, c) == (CHOOSE f : Reads(f, k, b, c))[Len(c)]

LEMMA ReadsUnique ==
  ASSUME NEW k, NEW b, NEW c, Len(c) \in Nat, NEW f, Reads(f, k, b, c), NEW h, Reads(h, k, b, c)
  PROVE  f[Len(c)] = h[Len(c)]
<1> DEFINE m == Len(c)
           T == {i \in 0..m : f[i] = h[i]}
<1>1. f[0] = b /\ h[0] = b
  BY ReadsAt
<1>2. ASSUME NEW i \in 0..(m-1), i \in T PROVE i + 1 \in T
  <2>1. i + 1 \in 1..m /\ (i + 1) - 1 = i
    OBVIOUS
  <2>2. f[i+1] = IF f[i] = Refused THEN Refused ELSE ReadBy(k, f[i], c[i+1])
    BY <2>1, ReadsAt
  <2>3. h[i+1] = IF h[i] = Refused THEN Refused ELSE ReadBy(k, h[i], c[i+1])
    BY <2>1, ReadsAt
  <2>4. f[i] = h[i]
    BY <1>2
  <2>5. f[i+1] = h[i+1]
    BY <2>2, <2>3, <2>4
  <2> QED
    BY <2>1, <2>5
<1>3. 0 \in T
  BY <1>1
<1>4. m \in T
  <2> HIDE DEF T
  <2> QED
    BY <1>2, <1>3, InductionTo
<1> QED
  BY <1>4

LEMMA ReadsAfter ==
  ASSUME NEW k, NEW b, NEW c, Len(c) \in Nat, NEW f, Reads(f, k, b, c)
  PROVE  f[Len(c)] = After(k, b, c)
<1> DEFINE h == CHOOSE g : Reads(g, k, b, c)
<1>1. Reads(h, k, b, c)
  BY Zenon
<1>2. After(k, b, c) = h[Len(c)]
  BY DEF After
<1> HIDE DEF h
<1>3. f[Len(c)] = h[Len(c)]
  BY <1>1, ReadsUnique
<1> QED
  BY <1>2, <1>3

\* Each of these lines makes a section of its type of one, or is refused.
Reader(k, c, G) ==
  Len(c) \in Nat /\ \A i \in 1..Len(c) : \A s \in G : ReadBy(k, s, c[i]) \in OrRefused(G)

LEMMA AfterTyped ==
  ASSUME NEW k, NEW c, NEW G, Reader(k, c, G), NEW b \in OrRefused(G)
  PROVE  /\ \E f : Reads(f, k, b, c)
         /\ After(k, b, c) \in OrRefused(G)
<1>1. Len(c) \in Nat /\ \A i \in 1..Len(c) : \A s \in G : ReadBy(k, s, c[i]) \in OrRefused(G)
  BY DEF Reader
<1>2. /\ \E f : Reads(f, k, b, c)
      /\ \A f : Reads(f, k, b, c) => f[Len(c)] \in OrRefused(G)
  BY <1>1, ReadsTyped
<1>3. PICK f : Reads(f, k, b, c)
  BY <1>2
<1> QED
  BY <1>1, <1>2, <1>3, ReadsAfter

-----------------------------------------------------------------------------
(* The five sections.                                                      *)

\* Two limits of a range, by two properties of a node.
LEMMA MinMaxType ==
  ASSUME NEW W, NEW n, n.entries \in Seq(EntriesIn(W)),
         NEW T, NEW s \in Typed(T), NEW min \in DOMAIN T, NEW max \in DOMAIN T,
         NEW a, NEW b, T[min] = Limit(a, W), T[max] = Limit(b, W)
  PROVE  MinMax(s, n, min, max) \in OrRefused(Typed(T))
<1> DEFINE v == IntProp(n, "min", MaxUsize, s[min])
           w == IntProp(n, "max", MaxUsize, s[max])
<1>1. s[min] \in T[min] /\ s[max] \in T[max]
  BY DEF Typed
<1>2. W \cap (0..MaxUsize) \subseteq T[min] /\ W \cap (0..MaxUsize) \subseteq T[max]
  BY DEF Limit
<1>3. v \in OrRefused(T[min]) /\ w \in OrRefused(T[max])
  BY <1>1, <1>2, IntPropType
<1> HIDE DEF v, w
<1>4. s \in OrRefused(Typed(T))
  BY DEF OrRefused
<1>5. Set(Set(s, min, v), max, w) \in OrRefused(Typed(T))
  BY <1>3, <1>4, SetTyped
<1> QED
  BY <1>5 DEF MinMax, OrRefused, v, w

LEMMA CodesTyped ==
  ASSUME NEW W, NEW n, n.entries \in Seq(EntriesIn(W)), NEW s \in Typed(ServerType(W))
  PROVE  /\ Status(n, "valid", s.valid) \in OrRefused(ServerType(W)["valid"])
         /\ Status(n, "spam", s.spam) \in OrRefused(ServerType(W)["spam"])
<1> DEFINE T == ServerType(W)
<1>1. /\ "valid" \in DOMAIN T /\ T["valid"] = {200} \cup (W \cap (100..999))
      /\ "spam" \in DOMAIN T /\ T["spam"] = {401} \cup (W \cap (100..999))
  BY DEF ServerType
<1>2. s.valid \in T["valid"] /\ s.spam \in T["spam"]
  BY <1>1 DEF Typed
<1>3. W \cap (100..999) \subseteq T["valid"] /\ W \cap (100..999) \subseteq T["spam"]
  BY <1>1
<1> HIDE DEF T
<1>4. /\ Status(n, "valid", s.valid) \in OrRefused(T["valid"])
      /\ Status(n, "spam", s.spam) \in OrRefused(T["spam"])
  BY <1>2, <1>3, StatusType
<1> QED
  BY <1>4 DEF T

LEMMA ServerLineType ==
  ASSUME NEW W, NEW n, n.entries \in Seq(EntriesIn(W)), NEW s \in Typed(ServerType(W))
  PROVE  ServerLine(s, n) \in OrRefused(Typed(ServerType(W)))
<1> DEFINE T == ServerType(W)
           v == Status(n, "valid", s.valid)
           w == Status(n, "spam", s.spam)
<1>1. /\ DOMAIN T = {"listen", "mode", "valid", "spam"}
      /\ T["listen"] = Addresses \cup {"127.0.0.1:4000"}
      /\ T["valid"] = {200} \cup (W \cap (100..999))
      /\ T["spam"] = {401} \cup (W \cap (100..999))
  BY DEF ServerType
<1>3. s \in OrRefused(Typed(T))
  BY DEF OrRefused
<1>4. v \in OrRefused(T["valid"]) /\ w \in OrRefused(T["spam"])
  BY CodesTyped
<1>5. OneOf(Addresses, n) \in OrRefused(T["listen"])
  BY <1>1, OneOfType DEF OrRefused
<1> HIDE DEF T, v, w
<1>6. Set(s, "listen", OneOf(Addresses, n)) \in OrRefused(Typed(T))
  BY <1>1, <1>3, <1>5, SetTyped
<1>7. Set(Set(s, "valid", v), "spam", w) \in OrRefused(Typed(T))
  BY <1>1, <1>3, <1>4, SetTyped
<1> QED
  BY <1>3, <1>6, <1>7 DEF ServerLine, T, v, w

LEMMA ServerLines ==
  ASSUME NEW n, Len(n.children) \in Nat, NEW b, \E f : Reads(f, "server", b, n.children)
  PROVE  Children(n, b, ServerLine) = After("server", b, n.children)
<1> DEFINE c == n.children
           F(f) == f = [i \in 0..Len(c) |->
                          IF i = 0 THEN b
                          ELSE IF f[i-1] = Refused THEN Refused ELSE ServerLine(f[i-1], c[i])]
           after == CHOOSE f : F(f)
<1>1. \A s, x : ReadBy("server", s, x) = ServerLine(s, x)
  BY DEF ReadBy
<1>2. Children(n, b, ServerLine) = after[Len(c)]
  BY Zenon DEF Children
<1> HIDE DEF c
<1>3. \A f : F(f) <=> Reads(f, "server", b, c)
  BY <1>1 DEF Reads
<1>4. \E f : Reads(f, "server", b, c)
  BY DEF c
<1>5. F(after)
  BY <1>3, <1>4, Zenon
<1> HIDE DEF after, F
<1> QED
  BY <1>2, <1>3, <1>5, ReadsAfter DEF c

LEMMA ServerLinesType ==
  ASSUME NEW W, NEW n, n.children \in Seq(LineIn(W)), NEW b \in OrRefused(Typed(ServerType(W)))
  PROVE  /\ Reader("server", n.children, Typed(ServerType(W)))
         /\ Children(n, b, ServerLine) = After("server", b, n.children)
         /\ Children(n, b, ServerLine) \in OrRefused(Typed(ServerType(W)))
<1> DEFINE G == Typed(ServerType(W))
           c == n.children
<1>1. \A s, x : ReadBy("server", s, x) = ServerLine(s, x)
  BY DEF ReadBy
<1>2. Len(c) \in Nat /\ \A i \in 1..Len(c) : c[i] \in LineIn(W)
  OBVIOUS
<1>3. Reader("server", c, G)
  BY <1>1, <1>2, ServerLineType DEF Reader, LineIn
<1> HIDE DEF G
<1>4. (\E f : Reads(f, "server", b, c)) /\ After("server", b, c) \in OrRefused(G)
  BY <1>3, AfterTyped DEF G
<1>5. Children(n, b, ServerLine) = After("server", b, c)
  BY <1>2, <1>4, ServerLines
<1> QED
  BY <1>3, <1>4, <1>5 DEF G

LEMMA AgentsLineType ==
  ASSUME NEW W, NEW n, n.entries \in Seq(EntriesIn(W)), NEW s \in Typed(ClassifierType(W))
  PROVE  AgentsLine(s, n) \in OrRefused(Typed(ClassifierType(W)))
<1> DEFINE T == ClassifierType(W)
<1>1. /\ {"robots", "unwantedAgents", "trustedAgents"} \subseteq DOMAIN T
      /\ T["robots"] = Strings \cup {Unset}
      /\ T["unwantedAgents"] = Seq(Strings) /\ T["trustedAgents"] = Seq(Strings)
  BY DEF ClassifierType
<1>2. s \in OrRefused(Typed(T))
  BY DEF OrRefused
<1>3. OneStringArg(n) \in OrRefused(T["robots"])
  BY <1>1, OneStringArgType DEF OrRefused
<1>4. StringSeq(n) \in OrRefused(Seq(Strings))
  BY StringSeqType
<1> HIDE DEF T
<1>5. /\ Set(s, "robots", OneStringArg(n)) \in OrRefused(Typed(T))
      /\ Set(s, "unwantedAgents", StringSeq(n)) \in OrRefused(Typed(T))
      /\ Set(s, "trustedAgents", StringSeq(n)) \in OrRefused(Typed(T))
  BY <1>1, <1>2, <1>3, <1>4, SetTyped
<1> QED
  BY <1>2, <1>5 DEF AgentsLine, T

LEMMA AgentsLines ==
  ASSUME NEW n, Len(n.children) \in Nat, NEW b, \E f : Reads(f, "user-agents", b, n.children)
  PROVE  Children(n, b, AgentsLine) = After("user-agents", b, n.children)
<1> DEFINE c == n.children
           F(f) == f = [i \in 0..Len(c) |->
                          IF i = 0 THEN b
                          ELSE IF f[i-1] = Refused THEN Refused ELSE AgentsLine(f[i-1], c[i])]
           after == CHOOSE f : F(f)
<1>1. \A s, x : ReadBy("user-agents", s, x) = AgentsLine(s, x)
  BY DEF ReadBy
<1>2. Children(n, b, AgentsLine) = after[Len(c)]
  BY Zenon DEF Children
<1> HIDE DEF c
<1>3. \A f : F(f) <=> Reads(f, "user-agents", b, c)
  BY <1>1 DEF Reads
<1>4. \E f : Reads(f, "user-agents", b, c)
  BY DEF c
<1>5. F(after)
  BY <1>3, <1>4, Zenon
<1> HIDE DEF after, F
<1> QED
  BY <1>2, <1>3, <1>5, ReadsAfter DEF c

LEMMA AgentsLinesType ==
  ASSUME NEW W, NEW n, n.children \in Seq(NestedIn(W)), NEW b \in OrRefused(Typed(ClassifierType(W)))
  PROVE  /\ Reader("user-agents", n.children, Typed(ClassifierType(W)))
         /\ Children(n, b, AgentsLine) = After("user-agents", b, n.children)
         /\ Children(n, b, AgentsLine) \in OrRefused(Typed(ClassifierType(W)))
<1> DEFINE G == Typed(ClassifierType(W))
           c == n.children
<1>1. \A s, x : ReadBy("user-agents", s, x) = AgentsLine(s, x)
  BY DEF ReadBy
<1>2. Len(c) \in Nat /\ \A i \in 1..Len(c) : c[i] \in NestedIn(W)
  OBVIOUS
<1>3. Reader("user-agents", c, G)
  BY <1>1, <1>2, AgentsLineType, NestedFacts DEF Reader
<1> HIDE DEF G
<1>4. (\E f : Reads(f, "user-agents", b, c)) /\ After("user-agents", b, c) \in OrRefused(G)
  BY <1>3, AfterTyped DEF G
<1>5. Children(n, b, AgentsLine) = After("user-agents", b, c)
  BY <1>2, <1>4, AgentsLines
<1> QED
  BY <1>3, <1>4, <1>5 DEF G

LEMMA AsnsLineType ==
  ASSUME NEW W, NEW n, n.entries \in Seq(EntriesIn(W)), NEW s \in Typed(ClassifierType(W))
  PROVE  AsnsLine(s, n) \in OrRefused(Typed(ClassifierType(W)))
<1> DEFINE T == ClassifierType(W)
<1>1. /\ {"asnsDb", "unwantedAsns"} \subseteq DOMAIN T
      /\ T["asnsDb"] = Strings \cup {Unset}
      /\ T["unwantedAsns"] = Seq(W \cap (0..MaxU32))
  BY DEF ClassifierType
<1>2. s \in OrRefused(Typed(T))
  BY DEF OrRefused
<1>3. OneStringArg(n) \in OrRefused(T["asnsDb"])
  BY <1>1, OneStringArgType DEF OrRefused
<1>4. IntSeq(n) \in OrRefused(T["unwantedAsns"])
  BY <1>1, IntSeqType
<1> HIDE DEF T
<1>5. /\ Set(s, "asnsDb", OneStringArg(n)) \in OrRefused(Typed(T))
      /\ Set(s, "unwantedAsns", IntSeq(n)) \in OrRefused(Typed(T))
  BY <1>1, <1>2, <1>3, <1>4, SetTyped
<1> QED
  BY <1>2, <1>5 DEF AsnsLine, T

LEMMA AsnsLines ==
  ASSUME NEW n, Len(n.children) \in Nat, NEW b, \E f : Reads(f, "asns", b, n.children)
  PROVE  Children(n, b, AsnsLine) = After("asns", b, n.children)
<1> DEFINE c == n.children
           F(f) == f = [i \in 0..Len(c) |->
                          IF i = 0 THEN b
                          ELSE IF f[i-1] = Refused THEN Refused ELSE AsnsLine(f[i-1], c[i])]
           after == CHOOSE f : F(f)
<1>1. \A s, x : ReadBy("asns", s, x) = AsnsLine(s, x)
  BY DEF ReadBy
<1>2. Children(n, b, AsnsLine) = after[Len(c)]
  BY Zenon DEF Children
<1> HIDE DEF c
<1>3. \A f : F(f) <=> Reads(f, "asns", b, c)
  BY <1>1 DEF Reads
<1>4. \E f : Reads(f, "asns", b, c)
  BY DEF c
<1>5. F(after)
  BY <1>3, <1>4, Zenon
<1> HIDE DEF after, F
<1> QED
  BY <1>2, <1>3, <1>5, ReadsAfter DEF c

LEMMA AsnsLinesType ==
  ASSUME NEW W, NEW n, n.children \in Seq(NestedIn(W)), NEW b \in OrRefused(Typed(ClassifierType(W)))
  PROVE  /\ Reader("asns", n.children, Typed(ClassifierType(W)))
         /\ Children(n, b, AsnsLine) = After("asns", b, n.children)
         /\ Children(n, b, AsnsLine) \in OrRefused(Typed(ClassifierType(W)))
<1> DEFINE G == Typed(ClassifierType(W))
           c == n.children
<1>1. \A s, x : ReadBy("asns", s, x) = AsnsLine(s, x)
  BY DEF ReadBy
<1>2. Len(c) \in Nat /\ \A i \in 1..Len(c) : c[i] \in NestedIn(W)
  OBVIOUS
<1>3. Reader("asns", c, G)
  BY <1>1, <1>2, AsnsLineType, NestedFacts DEF Reader
<1> HIDE DEF G
<1>4. (\E f : Reads(f, "asns", b, c)) /\ After("asns", b, c) \in OrRefused(G)
  BY <1>3, AfterTyped DEF G
<1>5. Children(n, b, AsnsLine) = After("asns", b, c)
  BY <1>2, <1>4, AsnsLines
<1> QED
  BY <1>3, <1>4, <1>5 DEF G

LEMMA ClassifierLineType ==
  ASSUME NEW W, NEW n \in LineIn(W), NEW s \in Typed(ClassifierType(W))
  PROVE  ClassifierLine(s, n) \in OrRefused(Typed(ClassifierType(W)))
<1> DEFINE T == ClassifierType(W)
<1>1. /\ {"header", "trustedPaths"} \subseteq DOMAIN T
      /\ T["header"] = HeaderNames \cup {Unset} /\ T["trustedPaths"] = Seq(Strings)
  BY DEF ClassifierType
<1>2. s \in OrRefused(Typed(T))
  BY DEF OrRefused
<1>3. n.entries \in Seq(EntriesIn(W)) /\ n.children \in Seq(NestedIn(W))
  BY DEF LineIn
<1>4. OneOf(HeaderNames, n) \in OrRefused(T["header"])
  BY <1>1, OneOfType DEF OrRefused
<1>5. StringSeq(n) \in OrRefused(T["trustedPaths"])
  BY <1>1, <1>3, StringSeqType
<1>6. /\ Children(n, s, AgentsLine) \in OrRefused(Typed(T))
      /\ Children(n, s, AsnsLine) \in OrRefused(Typed(T))
  BY <1>2, <1>3, AgentsLinesType, AsnsLinesType
<1> HIDE DEF T
<1>7. /\ Set(s, "header", OneOf(HeaderNames, n)) \in OrRefused(Typed(T))
      /\ Set(s, "trustedPaths", StringSeq(n)) \in OrRefused(Typed(T))
  BY <1>1, <1>2, <1>4, <1>5, SetTyped
<1> QED
  BY <1>2, <1>6, <1>7 DEF ClassifierLine, T

LEMMA ClassifierLines ==
  ASSUME NEW n, Len(n.children) \in Nat, NEW b, \E f : Reads(f, "classifier", b, n.children)
  PROVE  Children(n, b, ClassifierLine) = After("classifier", b, n.children)
<1> DEFINE c == n.children
           F(f) == f = [i \in 0..Len(c) |->
                          IF i = 0 THEN b
                          ELSE IF f[i-1] = Refused THEN Refused ELSE ClassifierLine(f[i-1], c[i])]
           after == CHOOSE f : F(f)
<1>1. \A s, x : ReadBy("classifier", s, x) = ClassifierLine(s, x)
  BY DEF ReadBy
<1>2. Children(n, b, ClassifierLine) = after[Len(c)]
  BY Zenon DEF Children
<1> HIDE DEF c
<1>3. \A f : F(f) <=> Reads(f, "classifier", b, c)
  BY <1>1 DEF Reads
<1>4. \E f : Reads(f, "classifier", b, c)
  BY DEF c
<1>5. F(after)
  BY <1>3, <1>4, Zenon
<1> HIDE DEF after, F
<1> QED
  BY <1>2, <1>3, <1>5, ReadsAfter DEF c

LEMMA ClassifierLinesType ==
  ASSUME NEW W, NEW n, n.children \in Seq(LineIn(W)), NEW b \in OrRefused(Typed(ClassifierType(W)))
  PROVE  /\ Reader("classifier", n.children, Typed(ClassifierType(W)))
         /\ Children(n, b, ClassifierLine) = After("classifier", b, n.children)
         /\ Children(n, b, ClassifierLine) \in OrRefused(Typed(ClassifierType(W)))
<1> DEFINE G == Typed(ClassifierType(W))
           c == n.children
<1>1. \A s, x : ReadBy("classifier", s, x) = ClassifierLine(s, x)
  BY DEF ReadBy
<1>2. Len(c) \in Nat /\ \A i \in 1..Len(c) : c[i] \in LineIn(W)
  OBVIOUS
<1>3. Reader("classifier", c, G)
  BY <1>1, <1>2, ClassifierLineType DEF Reader, LineIn
<1> HIDE DEF G
<1>4. (\E f : Reads(f, "classifier", b, c)) /\ After("classifier", b, c) \in OrRefused(G)
  BY <1>3, AfterTyped DEF G
<1>5. Children(n, b, ClassifierLine) = After("classifier", b, c)
  BY <1>2, <1>4, ClassifierLines
<1> QED
  BY <1>3, <1>4, <1>5 DEF G

LEMMA ParagraphsLineType ==
  ASSUME NEW W, NEW n, n.entries \in Seq(EntriesIn(W)), NEW s \in Typed(GarbageType(W))
  PROVE  ParagraphsLine(s, n) \in OrRefused(Typed(GarbageType(W)))
<1> DEFINE T == GarbageType(W)
<1>1. /\ "paraWordsMin" \in DOMAIN T /\ "paraWordsMax" \in DOMAIN T
      /\ T["paraWordsMin"] = Limit(16, W) /\ T["paraWordsMax"] = Limit(32, W)
  BY DEF GarbageType
<1> HIDE DEF T
<1>2. MinMax(s, n, "paraWordsMin", "paraWordsMax") \in OrRefused(Typed(T))
  BY <1>1, MinMaxType DEF T
<1> QED
  BY <1>2 DEF ParagraphsLine, OrRefused, T

LEMMA ParagraphsLines ==
  ASSUME NEW n, Len(n.children) \in Nat, NEW b, \E f : Reads(f, "paragraphs", b, n.children)
  PROVE  Children(n, b, ParagraphsLine) = After("paragraphs", b, n.children)
<1> DEFINE c == n.children
           F(f) == f = [i \in 0..Len(c) |->
                          IF i = 0 THEN b
                          ELSE IF f[i-1] = Refused THEN Refused ELSE ParagraphsLine(f[i-1], c[i])]
           after == CHOOSE f : F(f)
<1>1. \A s, x : ReadBy("paragraphs", s, x) = ParagraphsLine(s, x)
  BY DEF ReadBy
<1>2. Children(n, b, ParagraphsLine) = after[Len(c)]
  BY Zenon DEF Children
<1> HIDE DEF c
<1>3. \A f : F(f) <=> Reads(f, "paragraphs", b, c)
  BY <1>1 DEF Reads
<1>4. \E f : Reads(f, "paragraphs", b, c)
  BY DEF c
<1>5. F(after)
  BY <1>3, <1>4, Zenon
<1> HIDE DEF after, F
<1> QED
  BY <1>2, <1>3, <1>5, ReadsAfter DEF c

LEMMA ParagraphsLinesType ==
  ASSUME NEW W, NEW n, n.children \in Seq(NestedIn(W)), NEW b \in OrRefused(Typed(GarbageType(W)))
  PROVE  /\ Reader("paragraphs", n.children, Typed(GarbageType(W)))
         /\ Children(n, b, ParagraphsLine) = After("paragraphs", b, n.children)
         /\ Children(n, b, ParagraphsLine) \in OrRefused(Typed(GarbageType(W)))
<1> DEFINE G == Typed(GarbageType(W))
           c == n.children
<1>1. \A s, x : ReadBy("paragraphs", s, x) = ParagraphsLine(s, x)
  BY DEF ReadBy
<1>2. Len(c) \in Nat /\ \A i \in 1..Len(c) : c[i] \in NestedIn(W)
  OBVIOUS
<1>3. Reader("paragraphs", c, G)
  BY <1>1, <1>2, ParagraphsLineType, NestedFacts DEF Reader
<1> HIDE DEF G
<1>4. (\E f : Reads(f, "paragraphs", b, c)) /\ After("paragraphs", b, c) \in OrRefused(G)
  BY <1>3, AfterTyped DEF G
<1>5. Children(n, b, ParagraphsLine) = After("paragraphs", b, c)
  BY <1>2, <1>4, ParagraphsLines
<1> QED
  BY <1>3, <1>4, <1>5 DEF G

\* A string that is empty is refused before its first character is asked for.
LEMMA SeparatorType ==
  ASSUME NEW W, NEW n, n.entries \in Seq(EntriesIn(W))
  PROVE  Separator(n) \in OrRefused(Range(FirstChar))
<1> DEFINE arg == OneStringArg(n)
<1>1. arg \in OrRefused(DOMAIN FirstChar)
  BY OneStringArgType
<1>2. Separator(n) = CASE arg = Refused            -> Refused
                       [] arg \in DOMAIN FirstChar -> FirstChar[arg]
                       [] OTHER                    -> Panicked
  BY DEF Separator
<1> HIDE DEF arg
<1>3. CASE arg = Refused
  <2>1. CASE arg \notin DOMAIN FirstChar
    BY <1>2, <1>3, <2>1 DEF OrRefused
  <2>2. CASE arg \in DOMAIN FirstChar
    BY <1>2, <1>3, <2>2 DEF OrRefused, Range
  <2> QED
    BY <2>1, <2>2
<1>4. CASE arg # Refused
  <2>1. arg \in DOMAIN FirstChar
    BY <1>1, <1>4 DEF OrRefused
  <2>2. Separator(n) = FirstChar[arg]
    BY <1>2, <1>4, <2>1
  <2> QED
    BY <2>1, <2>2 DEF OrRefused, Range
<1> QED
  BY <1>3, <1>4

LEMMA LinksLineType ==
  ASSUME NEW W, NEW n, n.entries \in Seq(EntriesIn(W)), NEW s \in Typed(GarbageType(W))
  PROVE  LinksLine(s, n) \in OrRefused(Typed(GarbageType(W)))
<1> DEFINE T == GarbageType(W)
<1>1. /\ "linkWordsMin" \in DOMAIN T /\ "linkWordsMax" \in DOMAIN T
      /\ T["linkWordsMin"] = Limit(2, W) /\ T["linkWordsMax"] = Limit(4, W)
      /\ "separator" \in DOMAIN T /\ T["separator"] = Range(FirstChar) \cup {"-"}
      /\ "slash" \in DOMAIN T /\ T["slash"] = BOOLEAN
  BY DEF GarbageType
<1> HIDE DEF T
<1>2. s \in Typed(T) /\ s \in OrRefused(Typed(T))
  BY DEF OrRefused, T
<1>3. MinMax(s, n, "linkWordsMin", "linkWordsMax") \in OrRefused(Typed(T))
  BY <1>1, <1>2, MinMaxType
<1>4. Separator(n) \in OrRefused(T["separator"])
  BY <1>1, SeparatorType DEF OrRefused
<1>5. OneBooleanish(n) \in OrRefused(T["slash"])
  BY <1>1, OneBooleanishType
<1>6. /\ Set(s, "separator", Separator(n)) \in OrRefused(Typed(T))
      /\ Set(s, "slash", OneBooleanish(n)) \in OrRefused(Typed(T))
  BY <1>1, <1>2, <1>4, <1>5, SetTyped
<1> QED
  BY <1>2, <1>3, <1>6 DEF LinksLine, T

LEMMA LinksLines ==
  ASSUME NEW n, Len(n.children) \in Nat, NEW b, \E f : Reads(f, "links", b, n.children)
  PROVE  Children(n, b, LinksLine) = After("links", b, n.children)
<1> DEFINE c == n.children
           F(f) == f = [i \in 0..Len(c) |->
                          IF i = 0 THEN b
                          ELSE IF f[i-1] = Refused THEN Refused ELSE LinksLine(f[i-1], c[i])]
           after == CHOOSE f : F(f)
<1>1. \A s, x : ReadBy("links", s, x) = LinksLine(s, x)
  BY DEF ReadBy
<1>2. Children(n, b, LinksLine) = after[Len(c)]
  BY Zenon DEF Children
<1> HIDE DEF c
<1>3. \A f : F(f) <=> Reads(f, "links", b, c)
  BY <1>1 DEF Reads
<1>4. \E f : Reads(f, "links", b, c)
  BY DEF c
<1>5. F(after)
  BY <1>3, <1>4, Zenon
<1> HIDE DEF after, F
<1> QED
  BY <1>2, <1>3, <1>5, ReadsAfter DEF c

LEMMA LinksLinesType ==
  ASSUME NEW W, NEW n, n.children \in Seq(NestedIn(W)), NEW b \in OrRefused(Typed(GarbageType(W)))
  PROVE  /\ Reader("links", n.children, Typed(GarbageType(W)))
         /\ Children(n, b, LinksLine) = After("links", b, n.children)
         /\ Children(n, b, LinksLine) \in OrRefused(Typed(GarbageType(W)))
<1> DEFINE G == Typed(GarbageType(W))
           c == n.children
<1>1. \A s, x : ReadBy("links", s, x) = LinksLine(s, x)
  BY DEF ReadBy
<1>2. Len(c) \in Nat /\ \A i \in 1..Len(c) : c[i] \in NestedIn(W)
  OBVIOUS
<1>3. Reader("links", c, G)
  BY <1>1, <1>2, LinksLineType, NestedFacts DEF Reader
<1> HIDE DEF G
<1>4. (\E f : Reads(f, "links", b, c)) /\ After("links", b, c) \in OrRefused(G)
  BY <1>3, AfterTyped DEF G
<1>5. Children(n, b, LinksLine) = After("links", b, c)
  BY <1>2, <1>4, LinksLines
<1> QED
  BY <1>3, <1>4, <1>5 DEF G

\* What links starts over from.
LEMMA FreshLinks ==
  ASSUME NEW W
  PROVE  \A f \in LinkFields : Default.garbage[f] \in GarbageType(W)[f]
<1> DEFINE d == Default.garbage
           T == GarbageType(W)
<1>1. /\ d["linkMin"] = 2 /\ d["linkMax"] = 5 /\ d["linkWordsMin"] = 2 /\ d["linkWordsMax"] = 4
      /\ d["separator"] = "-" /\ d["slash"] = FALSE
  BY DEF Default
<1>2. /\ 2 \in T["linkMin"] /\ 5 \in T["linkMax"] /\ 2 \in T["linkWordsMin"]
      /\ 4 \in T["linkWordsMax"] /\ "-" \in T["separator"]
  BY DEF GarbageType, Limit
<1>3. FALSE \in T["slash"]
  BY DEF GarbageType
<1> HIDE DEF d, T
<1>4. d["slash"] \in T["slash"]
  BY <1>1, <1>3, Zenon
<1>5. \A f \in LinkFields : d[f] \in T[f]
  BY <1>1, <1>2, <1>4 DEF LinkFields
<1> QED
  BY <1>5 DEF d, T

LEMMA FreshTyped ==
  ASSUME NEW W, NEW s \in Typed(GarbageType(W))
  PROVE  [f \in DOMAIN s |-> IF f \in LinkFields THEN Default.garbage[f] ELSE s[f]]
           \in Typed(GarbageType(W))
<1> DEFINE T == GarbageType(W)
           fresh == [f \in DOMAIN s |-> IF f \in LinkFields THEN Default.garbage[f] ELSE s[f]]
           U == UNION {T[f] : f \in DOMAIN T}
<1>1. \A f \in LinkFields : Default.garbage[f] \in T[f]
  BY FreshLinks
<1> HIDE DEF T
<1>2. s \in [DOMAIN T -> U] /\ \A f \in DOMAIN T : s[f] \in T[f]
  BY DEF Typed, T
<1>3. \A f \in DOMAIN T : fresh[f] \in T[f] /\ T[f] \subseteq U
  BY <1>1, <1>2
<1> HIDE DEF U
<1>4. fresh \in [DOMAIN T -> U]
  BY <1>2, <1>3
<1> HIDE DEF fresh
<1>5. fresh \in Typed(T)
  BY <1>3, <1>4 DEF Typed, U
<1> QED
  BY <1>5 DEF T, fresh

\* links starts over from its defaults, paragraphs goes on from what there is.
LEMMA GarbageLineType ==
  ASSUME NEW W, NEW n \in LineIn(W), NEW s \in Typed(GarbageType(W))
  PROVE  GarbageLine(s, n) \in OrRefused(Typed(GarbageType(W)))
<1> DEFINE T == GarbageType(W)
           fresh == [f \in DOMAIN s |-> IF f \in LinkFields THEN Default.garbage[f] ELSE s[f]]
<1>1. /\ {"corpus", "wordsFile", "template", "poisons", "paraMin", "paraMax",
          "linkMin", "linkMax"} \cup LinkFields \subseteq DOMAIN T
      /\ T["corpus"] = Seq(Strings) /\ T["poisons"] = Seq(Strings)
      /\ T["wordsFile"] = Strings \cup {Unset} /\ T["template"] = Strings \cup {Unset}
      /\ T["paraMin"] = Limit(4, W) /\ T["paraMax"] = Limit(6, W)
      /\ T["linkMin"] = Limit(2, W) /\ T["linkMax"] = Limit(5, W)
  BY DEF GarbageType, LinkFields
<1>2. \A f \in LinkFields : Default.garbage[f] \in T[f]
  BY FreshLinks
<1>3. s \in OrRefused(Typed(T))
  BY DEF OrRefused
<1>4. n.entries \in Seq(EntriesIn(W)) /\ n.children \in Seq(NestedIn(W))
  BY DEF LineIn
<1>5. StringSeq(n) \in OrRefused(Seq(Strings)) /\ OneStringArg(n) \in OrRefused(Strings)
  BY <1>4, StringSeqType, OneStringArgType
<1>6. OneStringArg(n) \in OrRefused(T["wordsFile"]) /\ OneStringArg(n) \in OrRefused(T["template"])
  BY <1>1, <1>5 DEF OrRefused
<1> HIDE DEF T
<1>7. fresh \in Typed(T)
  BY FreshTyped DEF T
<1>8. /\ Set(s, "corpus", StringSeq(n)) \in OrRefused(Typed(T))
      /\ Set(s, "poisons", StringSeq(n)) \in OrRefused(Typed(T))
      /\ Set(s, "wordsFile", OneStringArg(n)) \in OrRefused(Typed(T))
      /\ Set(s, "template", OneStringArg(n)) \in OrRefused(Typed(T))
  BY <1>1, <1>3, <1>5, <1>6, SetTyped
<1>9. Children(n, MinMax(s, n, "paraMin", "paraMax"), ParagraphsLine) \in OrRefused(Typed(T))
  <2>1. MinMax(s, n, "paraMin", "paraMax") \in OrRefused(Typed(T))
    BY <1>1, <1>4, MinMaxType DEF T
  <2> QED
    BY <1>4, <2>1, ParagraphsLinesType DEF T
<1> HIDE DEF fresh
<1>10. Children(n, MinMax(fresh, n, "linkMin", "linkMax"), LinksLine) \in OrRefused(Typed(T))
  <2>1. MinMax(fresh, n, "linkMin", "linkMax") \in OrRefused(Typed(T))
    BY <1>1, <1>4, <1>7, MinMaxType
  <2> QED
    BY <1>4, <2>1, LinksLinesType DEF T
<1>11. GarbageLine(s, n) \in
        {Set(s, "corpus", StringSeq(n)), Set(s, "wordsFile", OneStringArg(n)),
         Set(s, "template", OneStringArg(n)), Set(s, "poisons", StringSeq(n)),
         Children(n, MinMax(s, n, "paraMin", "paraMax"), ParagraphsLine),
         Children(n, MinMax(fresh, n, "linkMin", "linkMax"), LinksLine), s}
  BY DEF GarbageLine, fresh
<1> QED
  BY <1>3, <1>8, <1>9, <1>10, <1>11 DEF T

LEMMA GarbageLines ==
  ASSUME NEW n, Len(n.children) \in Nat, NEW b, \E f : Reads(f, "garbage", b, n.children)
  PROVE  Children(n, b, GarbageLine) = After("garbage", b, n.children)
<1> DEFINE c == n.children
           F(f) == f = [i \in 0..Len(c) |->
                          IF i = 0 THEN b
                          ELSE IF f[i-1] = Refused THEN Refused ELSE GarbageLine(f[i-1], c[i])]
           after == CHOOSE f : F(f)
<1>1. \A s, x : ReadBy("garbage", s, x) = GarbageLine(s, x)
  BY DEF ReadBy
<1>2. Children(n, b, GarbageLine) = after[Len(c)]
  BY Zenon DEF Children
<1> HIDE DEF c
<1>3. \A f : F(f) <=> Reads(f, "garbage", b, c)
  BY <1>1 DEF Reads
<1>4. \E f : Reads(f, "garbage", b, c)
  BY DEF c
<1>5. F(after)
  BY <1>3, <1>4, Zenon
<1> HIDE DEF after, F
<1> QED
  BY <1>2, <1>3, <1>5, ReadsAfter DEF c

LEMMA GarbageLinesType ==
  ASSUME NEW W, NEW n, n.children \in Seq(LineIn(W)), NEW b \in OrRefused(Typed(GarbageType(W)))
  PROVE  /\ Reader("garbage", n.children, Typed(GarbageType(W)))
         /\ Children(n, b, GarbageLine) = After("garbage", b, n.children)
         /\ Children(n, b, GarbageLine) \in OrRefused(Typed(GarbageType(W)))
<1> DEFINE G == Typed(GarbageType(W))
           c == n.children
<1>1. \A s, x : ReadBy("garbage", s, x) = GarbageLine(s, x)
  BY DEF ReadBy
<1>2. Len(c) \in Nat /\ \A i \in 1..Len(c) : c[i] \in LineIn(W)
  OBVIOUS
<1>3. Reader("garbage", c, G)
  BY <1>1, <1>2, GarbageLineType DEF Reader, LineIn
<1> HIDE DEF G
<1>4. (\E f : Reads(f, "garbage", b, c)) /\ After("garbage", b, c) \in OrRefused(G)
  BY <1>3, AfterTyped DEF G
<1>5. Children(n, b, GarbageLine) = After("garbage", b, c)
  BY <1>2, <1>4, GarbageLines
<1> QED
  BY <1>3, <1>4, <1>5 DEF G

LEMMA LoggingLineType ==
  ASSUME NEW W, NEW n \in LineIn(W), NEW s \in Typed(LoggingType)
  PROVE  LoggingLine(s, n) \in OrRefused(Typed(LoggingType))
<1> DEFINE T == LoggingType
<1>1. /\ DOMAIN T = {"level", "target", "color", "timestamps", "handler"}
      /\ T["level"] = Levels \cup {"off"} /\ T["target"] = {"stdout", "stderr"}
      /\ T["color"] = BOOLEAN /\ T["timestamps"] = BOOLEAN /\ T["handler"] = BOOLEAN
  BY DEF LoggingType
<1>2. s \in OrRefused(Typed(T)) /\ n.entries \in Seq(EntriesIn(W))
  BY DEF OrRefused, LineIn
<1>3. OneOf(Levels, n) \in OrRefused(T["level"])
  BY <1>1, OneOfType DEF OrRefused
<1>4. OneOf({"stdout", "stderr"}, n) \in OrRefused(T["target"])
  BY <1>1, OneOfType
<1>5. OneBooleanish(n) \in OrRefused(BOOLEAN)
  BY <1>2, OneBooleanishType
<1> HIDE DEF T
<1>6. /\ Set(s, "level", OneOf(Levels, n)) \in OrRefused(Typed(T))
      /\ Set(s, "target", OneOf({"stdout", "stderr"}, n)) \in OrRefused(Typed(T))
      /\ Set(s, "color", OneBooleanish(n)) \in OrRefused(Typed(T))
      /\ Set(s, "timestamps", OneBooleanish(n)) \in OrRefused(Typed(T))
      /\ Set(s, "handler", OneBooleanish(n)) \in OrRefused(Typed(T))
  BY <1>1, <1>2, <1>3, <1>4, <1>5, SetTyped
<1> QED
  BY <1>2, <1>6 DEF LoggingLine, T

LEMMA LoggingLines ==
  ASSUME NEW n, Len(n.children) \in Nat, NEW b, \E f : Reads(f, "logging", b, n.children)
  PROVE  Children(n, b, LoggingLine) = After("logging", b, n.children)
<1> DEFINE c == n.children
           F(f) == f = [i \in 0..Len(c) |->
                          IF i = 0 THEN b
                          ELSE IF f[i-1] = Refused THEN Refused ELSE LoggingLine(f[i-1], c[i])]
           after == CHOOSE f : F(f)
<1>1. \A s, x : ReadBy("logging", s, x) = LoggingLine(s, x)
  BY DEF ReadBy
<1>2. Children(n, b, LoggingLine) = after[Len(c)]
  BY Zenon DEF Children
<1> HIDE DEF c
<1>3. \A f : F(f) <=> Reads(f, "logging", b, c)
  BY <1>1 DEF Reads
<1>4. \E f : Reads(f, "logging", b, c)
  BY DEF c
<1>5. F(after)
  BY <1>3, <1>4, Zenon
<1> HIDE DEF after, F
<1> QED
  BY <1>2, <1>3, <1>5, ReadsAfter DEF c

LEMMA LoggingLinesType ==
  ASSUME NEW W, NEW n, n.children \in Seq(LineIn(W)), NEW b \in OrRefused(Typed(LoggingType))
  PROVE  /\ Reader("logging", n.children, Typed(LoggingType))
         /\ Children(n, b, LoggingLine) = After("logging", b, n.children)
         /\ Children(n, b, LoggingLine) \in OrRefused(Typed(LoggingType))
<1> DEFINE G == Typed(LoggingType)
           c == n.children
<1>1. \A s, x : ReadBy("logging", s, x) = LoggingLine(s, x)
  BY DEF ReadBy
<1>2. Len(c) \in Nat /\ \A i \in 1..Len(c) : c[i] \in LineIn(W)
  OBVIOUS
<1>3. Reader("logging", c, G)
  BY <1>1, <1>2, LoggingLineType DEF Reader, LineIn
<1> HIDE DEF G
<1>4. (\E f : Reads(f, "logging", b, c)) /\ After("logging", b, c) \in OrRefused(G)
  BY <1>3, AfterTyped DEF G
<1>5. Children(n, b, LoggingLine) = After("logging", b, c)
  BY <1>2, <1>4, LoggingLines
<1> QED
  BY <1>3, <1>4, <1>5 DEF G

LEMMA MetricsLineType ==
  ASSUME NEW W, NEW n \in LineIn(W), NEW s \in Typed(MetricsType)
  PROVE  MetricsLine(s, n) \in OrRefused(Typed(MetricsType))
<1> DEFINE T == MetricsType
<1>1. /\ DOMAIN T = {"listen", "persist"}
      /\ T["listen"] = Addresses \cup {"127.0.0.1:4001"} /\ T["persist"] = Strings \cup {Unset}
  BY DEF MetricsType
<1>2. s \in OrRefused(Typed(T)) /\ n.entries \in Seq(EntriesIn(W))
  BY DEF OrRefused, LineIn
<1>3. OneOf(Addresses, n) \in OrRefused(T["listen"])
  BY <1>1, OneOfType DEF OrRefused
<1>4. OneStringArg(n) \in OrRefused(T["persist"])
  BY <1>1, <1>2, OneStringArgType DEF OrRefused
<1> HIDE DEF T
<1>5. /\ Set(s, "listen", OneOf(Addresses, n)) \in OrRefused(Typed(T))
      /\ Set(s, "persist", OneStringArg(n)) \in OrRefused(Typed(T))
  BY <1>1, <1>2, <1>3, <1>4, SetTyped
<1> QED
  BY <1>2, <1>5 DEF MetricsLine, T

LEMMA MetricsLines ==
  ASSUME NEW n, Len(n.children) \in Nat, NEW b, \E f : Reads(f, "metrics", b, n.children)
  PROVE  Children(n, b, MetricsLine) = After("metrics", b, n.children)
<1> DEFINE c == n.children
           F(f) == f = [i \in 0..Len(c) |->
                          IF i = 0 THEN b
                          ELSE IF f[i-1] = Refused THEN Refused ELSE MetricsLine(f[i-1], c[i])]
           after == CHOOSE f : F(f)
<1>1. \A s, x : ReadBy("metrics", s, x) = MetricsLine(s, x)
  BY DEF ReadBy
<1>2. Children(n, b, MetricsLine) = after[Len(c)]
  BY Zenon DEF Children
<1> HIDE DEF c
<1>3. \A f : F(f) <=> Reads(f, "metrics", b, c)
  BY <1>1 DEF Reads
<1>4. \E f : Reads(f, "metrics", b, c)
  BY DEF c
<1>5. F(after)
  BY <1>3, <1>4, Zenon
<1> HIDE DEF after, F
<1> QED
  BY <1>2, <1>3, <1>5, ReadsAfter DEF c

LEMMA MetricsLinesType ==
  ASSUME NEW W, NEW n, n.children \in Seq(LineIn(W)), NEW b \in OrRefused(Typed(MetricsType))
  PROVE  /\ Reader("metrics", n.children, Typed(MetricsType))
         /\ Children(n, b, MetricsLine) = After("metrics", b, n.children)
         /\ Children(n, b, MetricsLine) \in OrRefused(Typed(MetricsType))
<1> DEFINE G == Typed(MetricsType)
           c == n.children
<1>1. \A s, x : ReadBy("metrics", s, x) = MetricsLine(s, x)
  BY DEF ReadBy
<1>2. Len(c) \in Nat /\ \A i \in 1..Len(c) : c[i] \in LineIn(W)
  OBVIOUS
<1>3. Reader("metrics", c, G)
  BY <1>1, <1>2, MetricsLineType DEF Reader, LineIn
<1> HIDE DEF G
<1>4. (\E f : Reads(f, "metrics", b, c)) /\ After("metrics", b, c) \in OrRefused(G)
  BY <1>3, AfterTyped DEF G
<1>5. Children(n, b, MetricsLine) = After("metrics", b, c)
  BY <1>2, <1>4, MetricsLines
<1> QED
  BY <1>3, <1>4, <1>5 DEF G

-----------------------------------------------------------------------------
(* Blocks, and the whole file.                                             *)

LEMMA TypedBy ==
  ASSUME NEW T, NEW s, s = [f \in DOMAIN T |-> s[f]], \A f \in DOMAIN T : s[f] \in T[f]
  PROVE  s \in Typed(T)
<1> DEFINE U == UNION {T[f] : f \in DOMAIN T}
<1>1. \A f \in DOMAIN T : s[f] \in U
  OBVIOUS
<1> HIDE DEF U
<1>2. s \in [DOMAIN T -> U]
  BY <1>1
<1> QED
  BY <1>2 DEF Typed, U

\* What the sections hold before anything is read.
LEMMA DefaultsTyped ==
  ASSUME NEW W
  PROVE  /\ Default.server \in Typed(ServerType(W))
         /\ Default.classifier \in Typed(ClassifierType(W))
         /\ Default.garbage \in Typed(GarbageType(W))
         /\ Default.logging \in Typed(LoggingType)
         /\ Metrics \in Typed(MetricsType)
<1>1. Default.server \in Typed(ServerType(W))
  <2> DEFINE T == ServerType(W)
             s == Default.server
  <2>1. s = [f \in DOMAIN T |-> s[f]]
    BY DEF Default, ServerType
  <2>2. \A f \in DOMAIN T : s[f] \in T[f]
    BY DEF Default, ServerType
  <2> QED
    BY <2>1, <2>2, TypedBy
<1>2. Default.classifier \in Typed(ClassifierType(W))
  <2> DEFINE T == ClassifierType(W)
             s == Default.classifier
  <2>1. s = [f \in DOMAIN T |-> s[f]]
    BY DEF Default, ClassifierType
  <2>2. /\ s["header"] = Unset /\ s["robots"] = Unset /\ s["asnsDb"] = Unset
        /\ s["unwantedAgents"] = <<>> /\ s["trustedAgents"] = <<>>
        /\ s["trustedPaths"] = <<>> /\ s["unwantedAsns"] = <<>>
    BY DEF Default
  <2>3. \A S : <<>> \in Seq(S)
    OBVIOUS
  <2>4. /\ Unset \in T["header"] /\ Unset \in T["robots"] /\ Unset \in T["asnsDb"]
        /\ <<>> \in T["unwantedAgents"] /\ <<>> \in T["trustedAgents"]
        /\ <<>> \in T["trustedPaths"] /\ <<>> \in T["unwantedAsns"]
    BY <2>3 DEF ClassifierType
  <2>5. DOMAIN T = {"header", "robots", "asnsDb", "unwantedAgents", "trustedAgents",
                    "trustedPaths", "unwantedAsns"}
    BY DEF ClassifierType
  <2> HIDE DEF T, s
  <2>6. \A f \in DOMAIN T : s[f] \in T[f]
    BY <2>2, <2>4, <2>5
  <2>7. s \in Typed(T)
    BY <2>1, <2>6, TypedBy
  <2> QED
    BY <2>7 DEF s, T
<1>3. Default.garbage \in Typed(GarbageType(W))
  <2> DEFINE T == GarbageType(W)
             s == Default.garbage
             Other == {"corpus", "wordsFile", "template", "poisons", "paraMin", "paraMax",
                       "paraWordsMin", "paraWordsMax"}
  <2>1. s = [f \in DOMAIN T |-> s[f]]
    BY DEF Default, GarbageType
  <2>2. DOMAIN T = Other \cup LinkFields
    BY DEF GarbageType, LinkFields
  <2>3. \A f \in LinkFields : s[f] \in T[f]
    BY FreshLinks
  <2>4. \A f \in Other : s[f] \in T[f]
    <3>1. /\ s["corpus"] = <<>> /\ s["wordsFile"] = Unset /\ s["template"] = Unset
          /\ s["poisons"] = <<>> /\ s["paraMin"] = 4 /\ s["paraMax"] = 6
          /\ s["paraWordsMin"] = 16 /\ s["paraWordsMax"] = 32
      BY DEF Default
    <3>2. /\ <<>> \in T["corpus"] /\ Unset \in T["wordsFile"] /\ Unset \in T["template"]
          /\ <<>> \in T["poisons"] /\ 4 \in T["paraMin"] /\ 6 \in T["paraMax"]
          /\ 16 \in T["paraWordsMin"] /\ 32 \in T["paraWordsMax"]
      BY DEF GarbageType, Limit
    <3> HIDE DEF T, s
    <3> QED
      BY <3>1, <3>2
  <2> HIDE DEF T, s, Other
  <2>5. \A f \in DOMAIN T : s[f] \in T[f]
    BY <2>2, <2>3, <2>4
  <2>6. s \in Typed(T)
    BY <2>1, <2>5, TypedBy
  <2> QED
    BY <2>6 DEF s, T
<1>4. Default.logging \in Typed(LoggingType)
  <2> DEFINE T == LoggingType
             s == Default.logging
             Other == {"level", "target"}
             Switch == {"color", "timestamps", "handler"}
  <2>1. s = [f \in DOMAIN T |-> s[f]]
    BY DEF Default, LoggingType
  <2>2. DOMAIN T = Other \cup Switch
    BY DEF LoggingType
  <2>3. \A f \in Other : s[f] \in T[f]
    BY DEF Default, LoggingType
  <2>4. \A f \in Switch : T[f] = BOOLEAN
    BY DEF LoggingType
  <2>5. s["color"] = FALSE /\ s["timestamps"] = TRUE /\ s["handler"] = FALSE
    BY Zenon DEF Default
  <2> HIDE DEF T, s
  <2>6. \A f \in Switch : s[f] \in BOOLEAN
    BY <2>5
  <2>7. \A f \in DOMAIN T : s[f] \in T[f]
    BY <2>2, <2>3, <2>4, <2>6
  <2>8. s \in Typed(T)
    BY <2>1, <2>7, TypedBy
  <2> QED
    BY <2>8 DEF s, T
<1>5. Metrics \in Typed(MetricsType)
  <2> DEFINE T == MetricsType
  <2>1. Metrics = [f \in DOMAIN T |-> Metrics[f]]
    BY DEF Metrics, MetricsType
  <2>2. \A f \in DOMAIN T : Metrics[f] \in T[f]
    BY DEF Metrics, MetricsType
  <2> QED
    BY <2>1, <2>2, TypedBy
<1> QED
  BY <1>1, <1>2, <1>3, <1>4, <1>5

LEMMA DefaultTyped ==
  ASSUME NEW W
  PROVE  Default \in Typed(ConfigType(W))
<1> DEFINE T == ConfigType(W)
<1>1. /\ DOMAIN T = {"server", "classifier", "garbage", "logging", "metrics"}
      /\ T["server"] = Typed(ServerType(W)) /\ T["classifier"] = Typed(ClassifierType(W))
      /\ T["garbage"] = Typed(GarbageType(W)) /\ T["logging"] = Typed(LoggingType)
      /\ T["metrics"] = {Unset} \cup Typed(MetricsType)
  BY DEF ConfigType
<1>2. /\ Default.server \in Typed(ServerType(W))
      /\ Default.classifier \in Typed(ClassifierType(W))
      /\ Default.garbage \in Typed(GarbageType(W))
      /\ Default.logging \in Typed(LoggingType)
  BY DefaultsTyped
<1>3. Default.metrics = Unset
  BY DEF Default
<1>4. Default = [f \in {"server", "classifier", "garbage", "logging", "metrics"} |-> Default[f]]
  BY DEF Default
<1> HIDE DEF T
<1>5. \A f \in DOMAIN T : Default[f] \in T[f]
  BY <1>1, <1>2, <1>3
<1>6. Default \in Typed(T)
  BY <1>1, <1>4, <1>5, TypedBy
<1> QED
  BY <1>6 DEF T

\* Where server starts from.
ServerFrom(n) == Set(Default.server, "mode", OneOf({"proxy", "preflight"}, n))

LEMMA ServerFromTyped ==
  ASSUME NEW W, NEW n
  PROVE  ServerFrom(n) \in OrRefused(Typed(ServerType(W)))
<1> DEFINE S == ServerType(W)
           mode == OneOf({"proxy", "preflight"}, n)
<1>1. "mode" \in DOMAIN S /\ S["mode"] = {"proxy", "preflight"}
  BY DEF ServerType
<1>2. mode \in OrRefused(S["mode"])
  BY <1>1, OneOfType
<1>3. Default.server \in OrRefused(Typed(S))
  BY DefaultsTyped DEF OrRefused
<1> HIDE DEF S, mode
<1>4. Set(Default.server, "mode", mode) \in OrRefused(Typed(S))
  BY <1>1, <1>2, <1>3, SetTyped
<1> QED
  BY <1>4 DEF ServerFrom, S, mode

\* What a block makes of its section.
LEMMA BlockParts ==
  ASSUME NEW W, NEW n \in BlockIn(W)
  PROVE  /\ ParseServer(n) \in OrRefused(Typed(ServerType(W)))
         /\ Children(n, Default.classifier, ClassifierLine) \in OrRefused(Typed(ClassifierType(W)))
         /\ Children(n, Default.garbage, GarbageLine) \in OrRefused(Typed(GarbageType(W)))
         /\ Children(n, Default.logging, LoggingLine) \in OrRefused(Typed(LoggingType))
         /\ Children(n, Metrics, MetricsLine) \in OrRefused(Typed(MetricsType))
<1>1. n.children \in Seq(LineIn(W))
  BY DEF BlockIn
<1>2. /\ Default.classifier \in OrRefused(Typed(ClassifierType(W)))
      /\ Default.garbage \in OrRefused(Typed(GarbageType(W)))
      /\ Default.logging \in OrRefused(Typed(LoggingType))
      /\ Metrics \in OrRefused(Typed(MetricsType))
  BY DefaultsTyped DEF OrRefused
<1>3. ParseServer(n) \in OrRefused(Typed(ServerType(W)))
  <2>1. ServerFrom(n) \in OrRefused(Typed(ServerType(W)))
    BY ServerFromTyped
  <2>2. Children(n, ServerFrom(n), ServerLine) \in OrRefused(Typed(ServerType(W)))
    BY <1>1, <2>1, ServerLinesType
  <2> QED
    BY <2>2, Zenon DEF ParseServer, ServerFrom
<1>4. Children(n, Default.classifier, ClassifierLine) \in OrRefused(Typed(ClassifierType(W)))
  BY <1>1, <1>2, ClassifierLinesType
<1>5. Children(n, Default.garbage, GarbageLine) \in OrRefused(Typed(GarbageType(W)))
  BY <1>1, <1>2, GarbageLinesType
<1>6. Children(n, Default.logging, LoggingLine) \in OrRefused(Typed(LoggingType))
  BY <1>1, <1>2, LoggingLinesType
<1>7. Children(n, Metrics, MetricsLine) \in OrRefused(Typed(MetricsType))
  BY <1>1, <1>2, MetricsLinesType
<1> QED
  BY <1>3, <1>4, <1>5, <1>6, <1>7

\* A block makes a configuration of a configuration, or is refused.
LEMMA BlockType ==
  ASSUME NEW W, NEW n \in BlockIn(W), NEW c \in Typed(ConfigType(W))
  PROVE  Block(c, n) \in OrRefused(Typed(ConfigType(W)))
<1> DEFINE T == ConfigType(W)
           server == ParseServer(n)
           classifier == Children(n, Default.classifier, ClassifierLine)
           garbage == Children(n, Default.garbage, GarbageLine)
           logging == Children(n, Default.logging, LoggingLine)
           metrics == Children(n, Metrics, MetricsLine)
<1>1. /\ DOMAIN T = {"server", "classifier", "garbage", "logging", "metrics"}
      /\ T["server"] = Typed(ServerType(W)) /\ T["classifier"] = Typed(ClassifierType(W))
      /\ T["garbage"] = Typed(GarbageType(W)) /\ T["logging"] = Typed(LoggingType)
      /\ T["metrics"] = {Unset} \cup Typed(MetricsType)
  BY DEF ConfigType
<1>2. /\ server \in OrRefused(T["server"]) /\ classifier \in OrRefused(T["classifier"])
      /\ garbage \in OrRefused(T["garbage"]) /\ logging \in OrRefused(T["logging"])
      /\ metrics \in OrRefused(Typed(MetricsType))
  BY <1>1, BlockParts
<1>3. metrics \in OrRefused(T["metrics"])
  BY <1>1, <1>2 DEF OrRefused
<1>9. c \in OrRefused(Typed(T))
  BY DEF OrRefused
<1>10. Block(c, n) \in {Set(c, "server", server), Set(c, "classifier", classifier),
                        Set(c, "garbage", garbage), Set(c, "logging", logging),
                        Set(c, "metrics", metrics), c}
  BY Zenon DEF Block
<1> HIDE DEF T, server, classifier, garbage, logging, metrics
<1>11. /\ Set(c, "server", server) \in OrRefused(Typed(T))
       /\ Set(c, "classifier", classifier) \in OrRefused(Typed(T))
       /\ Set(c, "garbage", garbage) \in OrRefused(Typed(T))
       /\ Set(c, "logging", logging) \in OrRefused(Typed(T))
       /\ Set(c, "metrics", metrics) \in OrRefused(Typed(T))
  BY <1>1, <1>2, <1>3, <1>9, SetTyped
<1> QED
  BY <1>9, <1>10, <1>11 DEF T

LEMMA DocBlocks ==
  ASSUME NEW d, Len(d) \in Nat, \E f : Reads(f, "doc", Default, d)
  PROVE  ParseDoc(d) = After("doc", Default, d)
<1> DEFINE F(f) == f = [i \in 0..Len(d) |->
                          IF i = 0 THEN Default
                          ELSE IF f[i-1] = Refused THEN Refused ELSE Block(f[i-1], d[i])]
           after == CHOOSE f : F(f)
           n == [children |-> d]
<1>1. \A s, x : ReadBy("doc", s, x) = Block(s, x)
  BY DEF ReadBy
<1>2. n.children = d
  OBVIOUS
<1>3. ParseDoc(d) = after[Len(d)]
  BY <1>2, Zenon DEF ParseDoc, Children
<1>4. \A f : F(f) <=> Reads(f, "doc", Default, d)
  BY <1>1 DEF Reads
<1>5. F(after)
  BY <1>4, Zenon
<1> HIDE DEF after, F
<1> QED
  BY <1>3, <1>4, <1>5, ReadsAfter

\* Whatever the file, it is refused or makes a configuration.
LEMMA DocTyped ==
  ASSUME NEW W, NEW d \in Seq(BlockIn(W))
  PROVE  /\ Reader("doc", d, Typed(ConfigType(W)))
         /\ ParseDoc(d) = After("doc", Default, d)
         /\ ParseDoc(d) \in OrRefused(Typed(ConfigType(W)))
<1> DEFINE G == Typed(ConfigType(W))
<1>1. \A s, x : ReadBy("doc", s, x) = Block(s, x)
  BY DEF ReadBy
<1>2. Len(d) \in Nat /\ \A i \in 1..Len(d) : d[i] \in BlockIn(W)
  OBVIOUS
<1>3. Reader("doc", d, G)
  BY <1>1, <1>2, BlockType DEF Reader
<1>4. Default \in OrRefused(G)
  BY DefaultTyped DEF OrRefused
<1> HIDE DEF G
<1>5. (\E f : Reads(f, "doc", Default, d)) /\ After("doc", Default, d) \in OrRefused(G)
  BY <1>3, <1>4, AfterTyped
<1>6. ParseDoc(d) = After("doc", Default, d)
  BY <1>2, <1>5, DocBlocks
<1> QED
  BY <1>3, <1>5, <1>6 DEF G

-----------------------------------------------------------------------------
(* An error stays one.  Whether a line is refused depends on what it says, *)
(* not on the section it is read into; and a reader that meets a refused   *)
(* line among others refuses them all.                                     *)

\* A reading of c without an error.
GoodReading(f, k, c, G) ==
  /\ \A i \in 0..Len(c) : f[i] \in G
  /\ \A i \in 1..Len(c) : f[i] = ReadBy(k, f[i-1], c[i])

\* What has not been refused in the end has not been on the way.
LEMMA ReadsGood ==
  ASSUME NEW k, NEW G, Refused \notin G, NEW c, Reader(k, c, G), NEW b \in OrRefused(G),
         NEW f, Reads(f, k, b, c), f[Len(c)] # Refused
  PROVE  GoodReading(f, k, c, G)
<1> DEFINE m == Len(c)
           T == {i \in 0..m : f[m - i] \in G}
<1>1. m \in Nat
  BY DEF Reader
<1>2. /\ f[0] = b
      /\ \A i \in 1..m : f[i] = IF f[i-1] = Refused THEN Refused ELSE ReadBy(k, f[i-1], c[i])
  BY <1>1, ReadsAt
<1>3. \A i \in 1..m : \A s \in G : ReadBy(k, s, c[i]) \in OrRefused(G)
  BY DEF Reader
<1> HIDE DEF m
<1>4. ASSUME NEW i \in 0..m PROVE f[i] \in OrRefused(G)
  <2> DEFINE P == OrRefused(G)
             S == {j \in 0..m : f[j] \in P}
  <2>1. 0 \in S
    BY <1>1, <1>2
  <2>2. ASSUME NEW j \in 0..(m-1), j \in S PROVE j + 1 \in S
    <3>1. j + 1 \in 1..m /\ (j + 1) - 1 = j /\ j + 1 \in 0..m
      BY <1>1
    <3>2. f[j+1] = IF f[j] = Refused THEN Refused ELSE ReadBy(k, f[j], c[j+1])
      BY <1>2, <3>1
    <3>3. CASE f[j] = Refused
      BY <3>1, <3>2, <3>3 DEF OrRefused
    <3>4. CASE f[j] # Refused
      <4>1. f[j] \in G
        BY <2>2, <3>4 DEF OrRefused
      <4>2. ReadBy(k, f[j], c[j+1]) \in P
        BY <1>3, <3>1, <4>1
      <4> QED
        BY <3>1, <3>2, <3>4, <4>2
    <3> QED
      BY <3>3, <3>4
  <2>3. i \in Nat /\ \A j \in 0..(i-1) : j \in 0..(m-1)
    BY <1>1
  <2>4. i \in S
    <3> HIDE DEF S
    <3> QED
      BY <2>1, <2>2, <2>3, InductionTo
  <2> QED
    BY <2>4
<1>5. 0 \in T
  <2>1. f[m] \in OrRefused(G) /\ f[m] # Refused
    BY <1>1, <1>4 DEF m
  <2> QED
    BY <1>1, <2>1 DEF OrRefused
<1>6. ASSUME NEW i \in 0..(m-1), i \in T PROVE i + 1 \in T
  <2>1. m - i \in 1..m /\ (m - i) - 1 = m - (i + 1) /\ m - (i + 1) \in 0..m /\ i + 1 \in 0..m
    BY <1>1
  <2>2. f[m - i] = IF f[m - (i + 1)] = Refused THEN Refused ELSE ReadBy(k, f[m - (i + 1)], c[m - i])
    BY <1>2, <2>1
  <2>3. f[m - i] # Refused
    BY <1>6
  <2>4. f[m - (i + 1)] # Refused
    BY <2>2, <2>3
  <2>5. f[m - (i + 1)] \in OrRefused(G)
    BY <1>4, <2>1
  <2> QED
    BY <2>1, <2>4, <2>5 DEF OrRefused
<1>7. ASSUME NEW i \in 0..m PROVE f[i] \in G
  <2>1. m - i \in Nat /\ m - i \in 0..m /\ m - (m - i) = i /\ \A j \in 0..((m-i)-1) : j \in 0..(m-1)
    BY <1>1
  <2>2. m - i \in T
    <3> HIDE DEF T
    <3> QED
      BY <1>5, <1>6, <2>1, InductionTo
  <2> QED
    BY <2>1, <2>2
<1>8. ASSUME NEW i \in 1..m
      PROVE  f[i] = ReadBy(k, f[i-1], c[i])
  <2>1. i - 1 \in 0..m /\ i \in 0..m
    BY <1>1
  <2>2. f[i-1] # Refused /\ f[i] # Refused
    BY <1>7, <2>1
  <2> QED
    BY <1>2, <2>2
<1> QED
  BY <1>7, <1>8 DEF m, GoodReading

\* Of each line of c there is one of e that is refused when it is.
Covered(k, c, e, G) ==
  \A i \in 1..Len(c) : \E j \in 1..Len(e) :
    \A s, t \in G : ReadBy(k, s, c[i]) = Refused => ReadBy(k, t, e[j]) = Refused

\* If of each line of c there is one of e that is refused when it is, and if e
\* goes on from an error when c does, then an error in c is one in e.
LEMMA AfterRefused ==
  ASSUME NEW k, NEW G, Refused \notin G, NEW c, Reader(k, c, G), NEW e, Reader(k, e, G),
         NEW b \in OrRefused(G), NEW d \in OrRefused(G), b = Refused => d = Refused,
         Covered(k, c, e, G),
         After(k, b, c) = Refused
  PROVE  After(k, d, e) = Refused
<1>1. SUFFICES ASSUME After(k, d, e) # Refused PROVE FALSE
  OBVIOUS
<1>2. Len(c) \in Nat /\ Len(e) \in Nat
  BY DEF Reader
<1>3. PICK f : Reads(f, k, b, c)
  BY AfterTyped
<1>4. PICK h : Reads(h, k, d, e)
  BY AfterTyped
<1>5. f[Len(c)] = Refused /\ h[Len(e)] # Refused
  BY <1>1, <1>2, <1>3, <1>4, ReadsAfter
<1>6. GoodReading(h, k, e, G)
  BY <1>4, <1>5, ReadsGood
<1>7. \A j \in 1..Len(e) : ReadBy(k, h[j-1], e[j]) # Refused
  <2> SUFFICES ASSUME NEW j \in 1..Len(e) PROVE ReadBy(k, h[j-1], e[j]) # Refused
    OBVIOUS
  <2>1. j \in 0..Len(e)
    BY <1>2
  <2>2. h[j] # Refused
    BY <1>6, <2>1 DEF GoodReading
  <2> QED
    BY <1>6, <2>2 DEF GoodReading
<1>8. f[0] \in G
  <2>1. f[0] = b /\ h[0] = d
    BY <1>2, <1>3, <1>4, ReadsAt
  <2>2. h[0] \in G
    BY <1>2, <1>6 DEF GoodReading
  <2> QED
    BY <2>1, <2>2 DEF OrRefused
<1>9. ASSUME NEW i \in 1..Len(c), f[i-1] \in G PROVE f[i] \in G
  <2>1. PICK j \in 1..Len(e) :
          \A s, t \in G : ReadBy(k, s, c[i]) = Refused => ReadBy(k, t, e[j]) = Refused
    BY DEF Covered
  <2>2. j - 1 \in 0..Len(e)
    BY <1>2
  <2>3. h[j-1] \in G
    BY <1>6, <2>2 DEF GoodReading
  <2>4. ReadBy(k, f[i-1], c[i]) # Refused
    BY <1>7, <1>9, <2>1, <2>3
  <2>5. ReadBy(k, f[i-1], c[i]) \in OrRefused(G)
    BY <1>9 DEF Reader
  <2>6. f[i] = ReadBy(k, f[i-1], c[i])
    <3>1. f[i-1] # Refused
      BY <1>9
    <3> QED
      BY <1>2, <1>3, <3>1, ReadsAt
  <2> QED
    BY <2>4, <2>5, <2>6 DEF OrRefused
<1>10. f[Len(c)] \in G
  BY <1>2, <1>8, <1>9, ReadingKeeps
<1> QED
  BY <1>5, <1>10

LEMMA TypedIn ==
  ASSUME NEW T, NEW S, \A f \in DOMAIN T : T[f] \subseteq S
  PROVE  Typed(T) \subseteq [DOMAIN T -> S]
<1> SUFFICES ASSUME NEW s \in Typed(T) PROVE s \in [DOMAIN T -> S]
  OBVIOUS
<1> DEFINE U == UNION {T[f] : f \in DOMAIN T}
<1>1. s \in [DOMAIN T -> U] /\ \A f \in DOMAIN T : s[f] \in T[f]
  BY DEF Typed
<1> HIDE DEF U
<1> QED
  BY <1>1

\* An error is no section.
LEMMA RefusedApart ==
  /\ Refused \notin Int
  /\ Refused \notin Typed(ServerType(Int))
  /\ Refused \notin Typed(ClassifierType(Int))
  /\ Refused \notin Typed(GarbageType(Int))
  /\ Refused \notin Typed(LoggingType)
  /\ Refused \notin Typed(MetricsType)
  /\ Refused \notin Typed(ConfigType(Int))
<1> DEFINE S == ServerType(Int)
           C == ClassifierType(Int)
           G == GarbageType(Int)
           V == Settings
<1>1. /\ Strings \subseteq V /\ Addresses \subseteq V /\ HeaderNames \subseteq V /\ Levels \subseteq V
      /\ Range(FirstChar) \subseteq V /\ BOOLEAN \subseteq V /\ Int \subseteq V
      /\ Seq(Strings) \subseteq V /\ Seq(Int) \subseteq V
      /\ {Unset, "-", "off", "127.0.0.1:4000", "127.0.0.1:4001", "proxy", "preflight",
          "stdout", "stderr"} \subseteq V
  BY DEF Settings
<1>2. \A N \in SUBSET Int : N \subseteq V /\ Seq(N) \subseteq V
  <2> SUFFICES ASSUME NEW N \in SUBSET Int PROVE N \subseteq V /\ Seq(N) \subseteq V
    OBVIOUS
  <2>1. ASSUME NEW q \in Seq(N) PROVE q \in Seq(Int)
    <3>1. Len(q) \in Nat /\ q = [i \in 1..Len(q) |-> q[i]] /\ \A i \in 1..Len(q) : q[i] \in N
      OBVIOUS
    <3>2. \A i \in 1..Len(q) : q[i] \in Int
      BY <3>1
    <3> QED
      BY <3>1, <3>2
  <2> QED
    BY <1>1, <2>1
<1> HIDE DEF V
<1>3. Typed(S) \subseteq Like(Default.server)
  <2>1. DOMAIN S = DOMAIN Default.server
    BY DEF ServerType, Default
  <2>2. \A f \in DOMAIN S : S[f] \subseteq V
    <3>1. /\ DOMAIN S = {"listen", "mode", "valid", "spam"}
          /\ S["listen"] = Addresses \cup {"127.0.0.1:4000"} /\ S["mode"] = {"proxy", "preflight"}
          /\ S["valid"] = {200} \cup (Int \cap (100..999)) /\ S["spam"] = {401} \cup (Int \cap (100..999))
      BY DEF ServerType
    <3> HIDE DEF S
    <3> QED
      BY <1>1, <3>1
  <2> HIDE DEF S
  <2> QED
    BY <2>1, <2>2, TypedIn DEF Like, V
<1>4. Typed(C) \subseteq Like(Default.classifier)
  <2>1. DOMAIN C = DOMAIN Default.classifier
    BY DEF ClassifierType, Default
  <2>2. \A f \in DOMAIN C : C[f] \subseteq V
    <3>1. /\ DOMAIN C = {"header", "robots", "asnsDb", "unwantedAgents", "trustedAgents",
                         "trustedPaths", "unwantedAsns"}
          /\ C["header"] = HeaderNames \cup {Unset}
          /\ C["robots"] = Strings \cup {Unset} /\ C["asnsDb"] = Strings \cup {Unset}
          /\ C["unwantedAgents"] = Seq(Strings) /\ C["trustedAgents"] = Seq(Strings)
          /\ C["trustedPaths"] = Seq(Strings) /\ C["unwantedAsns"] = Seq(Int \cap (0..MaxU32))
      BY DEF ClassifierType
    <3>2. Seq(Int \cap (0..MaxU32)) \subseteq V
      BY <1>2
    <3> HIDE DEF C
    <3> QED
      BY <1>1, <3>1, <3>2
  <2> HIDE DEF C
  <2> QED
    BY <2>1, <2>2, TypedIn DEF Like, V
<1>5. Typed(G) \subseteq Like(Default.garbage)
  <2>1. DOMAIN G = DOMAIN Default.garbage
    BY DEF GarbageType, Default
  <2>2. \A f \in DOMAIN G : G[f] \subseteq V
    <3> DEFINE Limits == {"paraMin", "paraMax", "paraWordsMin", "paraWordsMax",
                          "linkMin", "linkMax", "linkWordsMin", "linkWordsMax"}
               Other == {"corpus", "wordsFile", "template", "poisons", "separator", "slash"}
    <3>1. DOMAIN G = Limits \cup Other
      BY DEF GarbageType
    <3>2. /\ G["corpus"] = Seq(Strings) /\ G["poisons"] = Seq(Strings)
          /\ G["wordsFile"] = Strings \cup {Unset} /\ G["template"] = Strings \cup {Unset}
          /\ G["separator"] = Range(FirstChar) \cup {"-"} /\ G["slash"] = BOOLEAN
      BY DEF GarbageType
    <3>3. \A f \in Limits : G[f] \in {Limit(d, Int) : d \in Int}
      BY DEF GarbageType
    <3>4. \A d \in Int : Limit(d, Int) \subseteq V
      BY <1>1 DEF Limit
    <3> HIDE DEF G
    <3>5. \A f \in Other : G[f] \subseteq V
      BY <1>1, <3>2
    <3>6. \A f \in Limits : G[f] \subseteq V
      BY <3>3, <3>4
    <3> QED
      BY <3>1, <3>5, <3>6
  <2> HIDE DEF G
  <2> QED
    BY <2>1, <2>2, TypedIn DEF Like, V
<1>6. Typed(LoggingType) \subseteq Like(Default.logging)
  <2> DEFINE L == LoggingType
  <2>1. DOMAIN L = DOMAIN Default.logging
    BY DEF LoggingType, Default
  <2>2. \A f \in DOMAIN L : L[f] \subseteq V
    <3>1. /\ DOMAIN L = {"level", "target", "color", "timestamps", "handler"}
          /\ L["level"] = Levels \cup {"off"} /\ L["target"] = {"stdout", "stderr"}
          /\ L["color"] = BOOLEAN /\ L["timestamps"] = BOOLEAN /\ L["handler"] = BOOLEAN
      BY DEF LoggingType
    <3> HIDE DEF L
    <3> QED
      BY <1>1, <3>1
  <2> HIDE DEF L
  <2>3. Typed(L) \subseteq Like(Default.logging)
    BY <2>1, <2>2, TypedIn DEF Like, V
  <2> QED
    BY <2>3 DEF L
<1>7. Typed(MetricsType) \subseteq Like(Metrics)
  <2> DEFINE M == MetricsType
  <2>1. DOMAIN M = DOMAIN Metrics
    BY DEF MetricsType, Metrics
  <2>2. \A f \in DOMAIN M : M[f] \subseteq V
    <3>1. /\ DOMAIN M = {"listen", "persist"}
          /\ M["listen"] = Addresses \cup {"127.0.0.1:4001"} /\ M["persist"] = Strings \cup {Unset}
      BY DEF MetricsType
    <3> HIDE DEF M
    <3> QED
      BY <1>1, <3>1
  <2> HIDE DEF M
  <2>3. Typed(M) \subseteq Like(Metrics)
    BY <2>1, <2>2, TypedIn DEF Like, V
  <2> QED
    BY <2>3 DEF M
<1>8. /\ Typed(S) \subseteq AnySection /\ Typed(C) \subseteq AnySection /\ Typed(G) \subseteq AnySection
      /\ Typed(LoggingType) \subseteq AnySection /\ Typed(MetricsType) \subseteq AnySection
  BY <1>3, <1>4, <1>5, <1>6, <1>7 DEF AnySection
<1>9. Typed(ConfigType(Int)) \subseteq [DOMAIN Default -> AnySection \cup {Unset}]
  <2> DEFINE T == ConfigType(Int)
             A == AnySection \cup {Unset}
  <2>1. DOMAIN T = DOMAIN Default
    BY DEF ConfigType, Default
  <2>2. \A f \in DOMAIN T : T[f] \subseteq A
    <3>1. /\ DOMAIN T = {"server", "classifier", "garbage", "logging", "metrics"}
          /\ T["server"] = Typed(S) /\ T["classifier"] = Typed(C)
          /\ T["garbage"] = Typed(G) /\ T["logging"] = Typed(LoggingType)
          /\ T["metrics"] = {Unset} \cup Typed(MetricsType)
      BY DEF ConfigType
    <3> HIDE DEF T, S, C, G
    <3> QED
      BY <1>8, <3>1
  <2> HIDE DEF T, A
  <2>3. Typed(T) \subseteq [DOMAIN Default -> A]
    BY <2>1, <2>2, TypedIn
  <2> QED
    BY <2>3 DEF T, A
<1> HIDE DEF S, C, G
<1> QED
  BY <1>8, <1>9, RefusedAssumption DEF S, C, G

-----------------------------------------------------------------------------
(* What a node holds is in its name and its entries.                       *)

LEMMA SameValues ==
  ASSUME NEW n, NEW m, n.entries = m.entries
  PROVE  /\ OneString(n) = OneString(m) /\ OneStringArg(n) = OneStringArg(m)
         /\ OneBooleanish(n) = OneBooleanish(m) /\ \A S : OneOf(S, n) = OneOf(S, m)
         /\ StringSeq(n) = StringSeq(m) /\ IntSeq(n) = IntSeq(m)
         /\ \A name, max, old : IntProp(n, name, max, old) = IntProp(m, name, max, old)
<1>1. /\ OneString(n) = OneString(m) /\ FirstValue(n) = FirstValue(m)
      /\ \A kind : FirstIs(n, kind) <=> FirstIs(m, kind)
  <2>1. Arguments(n) = Arguments(m)
    BY Zenon DEF Arguments
  <2> QED
    BY <2>1, Zenon DEF OneString, FirstIs, FirstValue
<1>2. OneStringArg(n) = OneStringArg(m) /\ \A S : OneOf(S, n) = OneOf(S, m)
  BY <1>1 DEF OneStringArg, OneOf
<1>3. OneBooleanish(n) = OneBooleanish(m)
  <2>1. FirstIs(n, "bool") <=> FirstIs(m, "bool")
    BY <1>1
  <2> QED
    BY <1>1, <2>1 DEF OneBooleanish
<1>4. StringSeq(n) = StringSeq(m) /\ IntSeq(n) = IntSeq(m)
  BY Zenon DEF StringSeq, IntSeq, SeqOfEntries
<1>5. \A name, max, old : IntProp(n, name, max, old) = IntProp(m, name, max, old)
  BY Zenon DEF IntProp
<1> QED
  BY <1>1, <1>2, <1>3, <1>4, <1>5, Zenon

\* Whether a number is refused does not depend on what it replaces.
LEMMA IntPropRefused ==
  ASSUME NEW n, NEW name, NEW max, NEW old \in Int, NEW other,
         IntProp(n, name, max, old) = Refused
  PROVE  IntProp(n, name, max, other) = Refused
<1> DEFINE named == {i \in DOMAIN n.entries : n.entries[i].name = name}
<1>1. named # {}
  BY RefusedApart DEF IntProp
<1> QED
  BY <1>1 DEF IntProp

LEMMA StatusRefused ==
  ASSUME NEW n, NEW name, NEW old, old \in 100..999, NEW other,
         Status(n, name, old) = Refused
  PROVE  Status(n, name, other) = Refused
<1> DEFINE named == {i \in DOMAIN n.entries : n.entries[i].name = name}
<1>1. ASSUME named = {} PROVE FALSE
  <2>1. IntProp(n, name, MaxU16, old) = old
    BY <1>1 DEF IntProp
  <2>2. Status(n, name, old) = old
    BY <2>1 DEF Status
  <2>3. old \in Int
    OBVIOUS
  <2> QED
    BY <2>2, <2>3, RefusedApart
<1>2. IntProp(n, name, MaxU16, old) = IntProp(n, name, MaxU16, other)
  BY <1>1 DEF IntProp
<1> QED
  BY <1>2 DEF Status

LEMMA SetRefused ==
  ASSUME NEW T, Refused \notin Typed(T), NEW s \in OrRefused(Typed(T)),
         NEW f \in DOMAIN T, NEW v \in OrRefused(T[f])
  PROVE  Set(s, f, v) = Refused <=> s = Refused \/ v = Refused
<1>1. CASE s = Refused \/ v = Refused
  BY <1>1 DEF Set
<1>2. CASE s # Refused /\ v # Refused
  <2> DEFINE t == [s EXCEPT ![f] = v]
  <2>1. Set(s, f, v) = t /\ Set(s, f, v) \in OrRefused(Typed(T))
    BY <1>2, SetTyped DEF Set
  <2>2. s \in Typed(T) /\ v \in T[f]
    BY <1>2 DEF OrRefused
  <2>3. t \in Typed(T)
    <3> DEFINE U == UNION {T[g] : g \in DOMAIN T}
    <3>1. s \in [DOMAIN T -> U] /\ \A g \in DOMAIN T : s[g] \in T[g]
      BY <2>2 DEF Typed
    <3>2. v \in U
      BY <2>2
    <3> HIDE DEF U
    <3>3. t \in [DOMAIN T -> U] /\ \A g \in DOMAIN T : t[g] \in T[g]
      BY <2>2, <3>1, <3>2
    <3> HIDE DEF t
    <3> QED
      BY <3>3 DEF Typed, U
  <2> QED
    BY <1>2, <2>1, <2>3
<1> QED
  BY <1>1, <1>2

\* Setting it is refused of any section, if it is of one.
LEMMA SetRefuses ==
  ASSUME NEW T, Refused \notin Typed(T), NEW s \in Typed(T), NEW t,
         NEW f \in DOMAIN T, NEW v \in OrRefused(T[f]), Set(s, f, v) = Refused
  PROVE  Set(t, f, v) = Refused
<1>1. s \in OrRefused(Typed(T)) /\ s # Refused
  BY DEF OrRefused
<1>2. v = Refused
  BY <1>1, SetRefused
<1> QED
  BY <1>2 DEF Set

LEMMA MinMaxRefused ==
  ASSUME NEW n, n.entries \in Seq(EntriesIn(Int)),
         NEW T, Refused \notin Typed(T), NEW s \in Typed(T), NEW t \in Typed(T),
         NEW min \in DOMAIN T, NEW max \in DOMAIN T,
         NEW a \in Int, NEW b \in Int, T[min] = Limit(a, Int), T[max] = Limit(b, Int),
         MinMax(s, n, min, max) = Refused
  PROVE  MinMax(t, n, min, max) = Refused
<1> DEFINE v(x) == IntProp(n, "min", MaxUsize, x[min])
           w(x) == IntProp(n, "max", MaxUsize, x[max])
<1>1. ASSUME NEW x \in Typed(T)
      PROVE  /\ MinMax(x, n, min, max) = Refused <=> v(x) = Refused \/ w(x) = Refused
             /\ x[min] \in Int /\ x[max] \in Int
  <2>1. x[min] \in T[min] /\ x[max] \in T[max]
    BY DEF Typed
  <2>2. Int \cap (0..MaxUsize) \subseteq T[min] /\ Int \cap (0..MaxUsize) \subseteq T[max]
    BY DEF Limit
  <2>3. v(x) \in OrRefused(T[min]) /\ w(x) \in OrRefused(T[max])
    BY <2>1, <2>2, IntPropType
  <2>4. x[min] \in Int /\ x[max] \in Int
    BY <2>1 DEF Limit
  <2>5. x \in OrRefused(Typed(T)) /\ x # Refused
    BY DEF OrRefused
  <2>6. MinMax(x, n, min, max) = Set(Set(x, min, v(x)), max, w(x))
    BY <2>5 DEF MinMax
  <2> HIDE DEF v, w
  <2>7. Set(x, min, v(x)) \in OrRefused(Typed(T))
    BY <2>3, <2>5, SetTyped
  <2>8. Set(x, min, v(x)) = Refused <=> v(x) = Refused
    BY <2>3, <2>5, SetRefused
  <2>9. Set(Set(x, min, v(x)), max, w(x)) = Refused <=> Set(x, min, v(x)) = Refused \/ w(x) = Refused
    BY <2>3, <2>7, SetRefused
  <2> QED
    BY <2>4, <2>6, <2>8, <2>9
<1>2. v(s) = Refused => v(t) = Refused
  BY <1>1, IntPropRefused
<1>3. w(s) = Refused => w(t) = Refused
  BY <1>1, IntPropRefused
<1> HIDE DEF v, w
<1> QED
  BY <1>1, <1>2, <1>3

LEMMA AgentsRefused ==
  ASSUME NEW n, n.entries \in Seq(EntriesIn(Int)),
         NEW s \in Typed(ClassifierType(Int)), NEW t \in Typed(ClassifierType(Int)),
         AgentsLine(s, n) = Refused
  PROVE  AgentsLine(t, n) = Refused
<1> DEFINE T == ClassifierType(Int)
<1>1. /\ {"robots", "unwantedAgents", "trustedAgents"} \subseteq DOMAIN T
      /\ T["robots"] = Strings \cup {Unset}
      /\ T["unwantedAgents"] = Seq(Strings) /\ T["trustedAgents"] = Seq(Strings)
  BY DEF ClassifierType
<1>2. Refused \notin Typed(T)
  BY RefusedApart
<1>3. OneStringArg(n) \in OrRefused(T["robots"])
  BY <1>1, OneStringArgType DEF OrRefused
<1>4. StringSeq(n) \in OrRefused(Seq(Strings))
  BY StringSeqType
<1> HIDE DEF T
<1>5. s # Refused /\ s \in Typed(T)
  BY <1>2 DEF T
<1>5b. Set(s, "robots", OneStringArg(n)) = Refused => Set(t, "robots", OneStringArg(n)) = Refused
  BY <1>1, <1>2, <1>3, <1>4, <1>5, SetRefuses
<1>5c. Set(s, "unwantedAgents", StringSeq(n)) = Refused => Set(t, "unwantedAgents", StringSeq(n)) = Refused
  BY <1>1, <1>2, <1>3, <1>4, <1>5, SetRefuses
<1>5d. Set(s, "trustedAgents", StringSeq(n)) = Refused => Set(t, "trustedAgents", StringSeq(n)) = Refused
  BY <1>1, <1>2, <1>3, <1>4, <1>5, SetRefuses
<1> QED
  BY <1>5, <1>5b, <1>5c, <1>5d DEF AgentsLine, T

LEMMA AsnsRefused ==
  ASSUME NEW n, n.entries \in Seq(EntriesIn(Int)),
         NEW s \in Typed(ClassifierType(Int)), NEW t \in Typed(ClassifierType(Int)),
         AsnsLine(s, n) = Refused
  PROVE  AsnsLine(t, n) = Refused
<1> DEFINE T == ClassifierType(Int)
<1>1. /\ {"asnsDb", "unwantedAsns"} \subseteq DOMAIN T
      /\ T["asnsDb"] = Strings \cup {Unset}
      /\ T["unwantedAsns"] = Seq(Int \cap (0..MaxU32))
  BY DEF ClassifierType
<1>2. Refused \notin Typed(T)
  BY RefusedApart
<1>3. OneStringArg(n) \in OrRefused(T["asnsDb"])
  BY <1>1, OneStringArgType DEF OrRefused
<1>4. IntSeq(n) \in OrRefused(T["unwantedAsns"])
  BY <1>1, IntSeqType
<1> HIDE DEF T
<1>5. s # Refused /\ s \in Typed(T)
  BY <1>2 DEF T
<1>5b. Set(s, "asnsDb", OneStringArg(n)) = Refused => Set(t, "asnsDb", OneStringArg(n)) = Refused
  BY <1>1, <1>2, <1>3, <1>4, <1>5, SetRefuses
<1>5c. Set(s, "unwantedAsns", IntSeq(n)) = Refused => Set(t, "unwantedAsns", IntSeq(n)) = Refused
  BY <1>1, <1>2, <1>3, <1>4, <1>5, SetRefuses
<1> QED
  BY <1>5, <1>5b, <1>5c DEF AsnsLine, T

LEMMA ParagraphsRefused ==
  ASSUME NEW n, n.entries \in Seq(EntriesIn(Int)),
         NEW s \in Typed(GarbageType(Int)), NEW t \in Typed(GarbageType(Int)),
         ParagraphsLine(s, n) = Refused
  PROVE  ParagraphsLine(t, n) = Refused
<1> DEFINE T == GarbageType(Int)
<1>1. /\ "paraWordsMin" \in DOMAIN T /\ "paraWordsMax" \in DOMAIN T
      /\ T["paraWordsMin"] = Limit(16, Int) /\ T["paraWordsMax"] = Limit(32, Int)
  BY DEF GarbageType
<1>2. Refused \notin Typed(T)
  BY RefusedApart
<1> HIDE DEF T
<1>3. s # Refused /\ s \in Typed(T) /\ t \in Typed(T)
  BY <1>2 DEF T
<1>4. n.name = "words" /\ MinMax(s, n, "paraWordsMin", "paraWordsMax") = Refused
  BY <1>3 DEF ParagraphsLine
<1>5. MinMax(t, n, "paraWordsMin", "paraWordsMax") = Refused
  BY <1>1, <1>2, <1>3, <1>4, MinMaxRefused
<1> QED
  BY <1>4, <1>5 DEF ParagraphsLine

LEMMA LinksRefused ==
  ASSUME NEW n, n.entries \in Seq(EntriesIn(Int)),
         NEW s \in Typed(GarbageType(Int)), NEW t \in Typed(GarbageType(Int)),
         LinksLine(s, n) = Refused
  PROVE  LinksLine(t, n) = Refused
<1> DEFINE T == GarbageType(Int)
           Words(x) == MinMax(x, n, "linkWordsMin", "linkWordsMax")
<1>1. /\ "linkWordsMin" \in DOMAIN T /\ "linkWordsMax" \in DOMAIN T
      /\ T["linkWordsMin"] = Limit(2, Int) /\ T["linkWordsMax"] = Limit(4, Int)
      /\ "separator" \in DOMAIN T /\ T["separator"] = Range(FirstChar) \cup {"-"}
      /\ "slash" \in DOMAIN T /\ T["slash"] = BOOLEAN
  BY DEF GarbageType
<1>2. Refused \notin Typed(T)
  BY RefusedApart
<1> HIDE DEF T
<1>3. s \in Typed(T) /\ t \in Typed(T)
  BY DEF T
<1>4. Words(s) = Refused => Words(t) = Refused
  BY <1>1, <1>2, <1>3, MinMaxRefused
<1> HIDE DEF Words
<1>5. Separator(n) \in OrRefused(T["separator"])
  BY <1>1, SeparatorType DEF OrRefused
<1>6. OneBooleanish(n) \in OrRefused(T["slash"])
  BY <1>1, OneBooleanishType
<1>7. s # Refused /\ s \in Typed(T)
  BY <1>2 DEF T
<1>7b. Set(s, "separator", Separator(n)) = Refused => Set(t, "separator", Separator(n)) = Refused
  BY <1>1, <1>2, <1>5, <1>6, <1>7, SetRefuses
<1>7c. Set(s, "slash", OneBooleanish(n)) = Refused => Set(t, "slash", OneBooleanish(n)) = Refused
  BY <1>1, <1>2, <1>5, <1>6, <1>7, SetRefuses
<1>8. \A x : LinksLine(x, n) = CASE n.name = "words"          -> Words(x)
                                 [] n.name = "separator"      -> Set(x, "separator", Separator(n))
                                 [] n.name = "trailing-slash" -> Set(x, "slash", OneBooleanish(n))
                                 [] OTHER                     -> x
  BY DEF LinksLine, Words
<1> QED
  BY <1>3, <1>4, <1>7, <1>7b, <1>7c, <1>8

-----------------------------------------------------------------------------
(* A node, and the same with more lines.                                   *)

MoreLine(n, m) ==
  /\ n.name = m.name /\ n.entries = m.entries
  /\ \A i \in 1..Len(n.children) : \E j \in 1..Len(m.children) : n.children[i] = m.children[j]

MoreBlock(n, m) ==
  /\ n.name = m.name /\ n.entries = m.entries
  /\ \A i \in 1..Len(n.children) : \E j \in 1..Len(m.children) : MoreLine(n.children[i], m.children[j])

MoreDoc(d, e) == \A i \in 1..Len(d) : \E j \in 1..Len(e) : MoreBlock(d[i], e[j])

LEMMA ClassifierRefused ==
  ASSUME NEW n \in LineIn(Int), NEW m \in LineIn(Int), MoreLine(n, m),
         NEW s \in Typed(ClassifierType(Int)), NEW t \in Typed(ClassifierType(Int)),
         ClassifierLine(s, n) = Refused
  PROVE  ClassifierLine(t, m) = Refused
<1> DEFINE T == ClassifierType(Int)
           G == Typed(T)
           c == n.children
           e == m.children
<1>1. /\ {"header", "trustedPaths"} \subseteq DOMAIN T
      /\ T["header"] = HeaderNames \cup {Unset} /\ T["trustedPaths"] = Seq(Strings)
  BY DEF ClassifierType
<1>2. Refused \notin G /\ s \in OrRefused(G) /\ t \in OrRefused(G)
  BY RefusedApart DEF OrRefused
<1>3. /\ n.entries \in Seq(EntriesIn(Int)) /\ c \in Seq(NestedIn(Int)) /\ e \in Seq(NestedIn(Int))
      /\ m.entries = n.entries /\ m.name = n.name
      /\ \A i \in 1..Len(c) : \E j \in 1..Len(e) : c[i] = e[j]
  BY DEF LineIn, MoreLine
<1>4. /\ Reader("user-agents", c, G) /\ Reader("user-agents", e, G)
      /\ Children(n, s, AgentsLine) = After("user-agents", s, c)
      /\ Children(m, t, AgentsLine) = After("user-agents", t, e)
  BY <1>2, <1>3, AgentsLinesType
<1>5. /\ Reader("asns", c, G) /\ Reader("asns", e, G)
      /\ Children(n, s, AsnsLine) = After("asns", s, c)
      /\ Children(m, t, AsnsLine) = After("asns", t, e)
  BY <1>2, <1>3, AsnsLinesType
<1>6. \A i \in 1..Len(c) : c[i].entries \in Seq(EntriesIn(Int))
  BY <1>3, NestedFacts
<1>7. Covered("user-agents", c, e, G)
  BY <1>3, <1>6, AgentsRefused DEF Covered, ReadBy
<1>8. Covered("asns", c, e, G)
  BY <1>3, <1>6, AsnsRefused DEF Covered, ReadBy
<1>9. OneOf(HeaderNames, n) \in OrRefused(T["header"]) /\ StringSeq(n) \in OrRefused(T["trustedPaths"])
  BY <1>1, <1>3, OneOfType, StringSeqType DEF OrRefused
<1>10. OneOf(HeaderNames, m) = OneOf(HeaderNames, n) /\ StringSeq(m) = StringSeq(n)
  BY <1>3, SameValues
<1>a. s \in G /\ t \in G /\ G = Typed(T)
  OBVIOUS
<1> HIDE DEF T, G, c, e
<1>11. After("user-agents", s, c) = Refused => After("user-agents", t, e) = Refused
  BY <1>2, <1>4, <1>7, <1>a, AfterRefused
<1>12. After("asns", s, c) = Refused => After("asns", t, e) = Refused
  BY <1>2, <1>5, <1>8, <1>a, AfterRefused
<1>13. s # Refused /\ s \in Typed(T)
  BY <1>2, <1>a
<1>13b. Set(s, "header", OneOf(HeaderNames, n)) = Refused => Set(t, "header", OneOf(HeaderNames, n)) = Refused
  BY <1>1, <1>2, <1>9, <1>a, <1>13, SetRefuses
<1>13c. Set(s, "trustedPaths", StringSeq(n)) = Refused => Set(t, "trustedPaths", StringSeq(n)) = Refused
  BY <1>1, <1>2, <1>9, <1>a, <1>13, SetRefuses
<1> QED
  BY <1>3, <1>4, <1>5, <1>10, <1>11, <1>12, <1>13, <1>13b, <1>13c, <1>a DEF ClassifierLine

LEMMA ServerRefused ==
  ASSUME NEW n \in LineIn(Int), NEW m \in LineIn(Int), MoreLine(n, m),
         NEW s \in Typed(ServerType(Int)), NEW t \in Typed(ServerType(Int)),
         ServerLine(s, n) = Refused
  PROVE  ServerLine(t, m) = Refused
<1> DEFINE T == ServerType(Int)
           v(x) == Status(n, "valid", x.valid)
           w(x) == Status(n, "spam", x.spam)
           Codes(x) == Set(Set(x, "valid", v(x)), "spam", w(x))
<1>1. /\ DOMAIN T = {"listen", "mode", "valid", "spam"}
      /\ T["listen"] = Addresses \cup {"127.0.0.1:4000"}
      /\ T["valid"] = {200} \cup (Int \cap (100..999))
      /\ T["spam"] = {401} \cup (Int \cap (100..999))
  BY DEF ServerType
<1>2. Refused \notin Typed(T)
  BY RefusedApart
<1>a. n.entries \in Seq(EntriesIn(Int))
  BY DEF LineIn
<1> HIDE DEF T
<1>3. s # Refused /\ s \in Typed(T) /\ t \in Typed(T)
  BY <1>2 DEF T
<1>b. "listen" \in DOMAIN T /\ "valid" \in DOMAIN T /\ "spam" \in DOMAIN T
  BY <1>1
<1>4. OneOf(Addresses, n) \in OrRefused(T["listen"])
  BY <1>1, OneOfType DEF OrRefused
<1>5. Set(s, "listen", OneOf(Addresses, n)) = Refused => Set(t, "listen", OneOf(Addresses, n)) = Refused
  BY <1>2, <1>3, <1>4, <1>b, SetRefuses
<1>6. ASSUME NEW x \in Typed(T)
      PROVE  x.valid \in 100..999 /\ x.spam \in 100..999
  <2>1. x["valid"] \in T["valid"] /\ x["spam"] \in T["spam"]
    BY <1>1 DEF Typed
  <2> QED
    BY <1>1, <2>1
<1>7. Codes(s) = Refused => v(s) = Refused \/ w(s) = Refused
  <2>3. v(s) \in OrRefused(T["valid"]) /\ w(s) \in OrRefused(T["spam"])
    BY <1>a, CodesTyped DEF T
  <2>4. s \in OrRefused(Typed(T))
    BY <1>3 DEF OrRefused
  <2> HIDE DEF v, w
  <2>5. Set(s, "valid", v(s)) \in OrRefused(Typed(T))
    BY <1>b, <2>3, <2>4, SetTyped
  <2>6. Set(s, "valid", v(s)) = Refused => v(s) = Refused
    BY <1>2, <1>3, <1>b, <2>3, <2>4, SetRefused
  <2>7. Codes(s) = Refused => Set(s, "valid", v(s)) = Refused \/ w(s) = Refused
    BY <1>2, <1>b, <2>3, <2>5, SetRefused
  <2> QED
    BY <2>6, <2>7
<1>c. s.valid \in 100..999 /\ s.spam \in 100..999
  BY <1>3, <1>6
<1>8. v(s) = Refused => v(t) = Refused
  <2> SUFFICES ASSUME v(s) = Refused PROVE v(t) = Refused
    OBVIOUS
  <2>1. Status(n, "valid", s.valid) = Refused
    OBVIOUS
  <2>2. \A x : Status(n, "valid", x) = Refused
    BY <1>c, <2>1, StatusRefused, Zenon
  <2> QED
    BY <2>2
<1>9. w(s) = Refused => w(t) = Refused
  BY <1>c, StatusRefused
<1>10. Codes(s) = Refused => Codes(t) = Refused
  <2> HIDE DEF v, w
  <2> QED
    BY <1>7, <1>8, <1>9 DEF Set
<1> HIDE DEF Codes
<1>11. ServerLine(s, n) = CASE n.name = "listen"       -> Set(s, "listen", OneOf(Addresses, n))
                            [] n.name = "status-codes" -> Codes(s)
                            [] OTHER                   -> s
  BY DEF ServerLine, Codes
<1>12. ServerLine(t, m) = CASE n.name = "listen"       -> Set(t, "listen", OneOf(Addresses, n))
                            [] n.name = "status-codes" -> Codes(t)
                            [] OTHER                   -> t
  <2>1. m.name = n.name /\ n.entries = m.entries
    BY DEF MoreLine
  <2>2. OneOf(Addresses, m) = OneOf(Addresses, n)
    BY <2>1, SameValues
  <2>3. \A name, max, old : IntProp(n, name, max, old) = IntProp(m, name, max, old)
    BY <2>1, SameValues
  <2>4. \A name, old : Status(m, name, old) = Status(n, name, old)
    BY <2>3 DEF Status
  <2> QED
    BY <2>1, <2>2, <2>4 DEF ServerLine, Codes
<1> QED
  BY <1>3, <1>5, <1>10, <1>11, <1>12

LEMMA GarbageRefused ==
  ASSUME NEW n \in LineIn(Int), NEW m \in LineIn(Int), MoreLine(n, m),
         NEW s \in Typed(GarbageType(Int)), NEW t \in Typed(GarbageType(Int)),
         GarbageLine(s, n) = Refused
  PROVE  GarbageLine(t, m) = Refused
<1> DEFINE T == GarbageType(Int)
           G == Typed(T)
           c == n.children
           e == m.children
           Fresh(x) == [f \in DOMAIN x |-> IF f \in LinkFields THEN Default.garbage[f] ELSE x[f]]
           Para(x) == MinMax(x, n, "paraMin", "paraMax")
           Link(x) == MinMax(Fresh(x), n, "linkMin", "linkMax")
<1>1. /\ {"corpus", "wordsFile", "template", "poisons", "paraMin", "paraMax",
          "linkMin", "linkMax"} \subseteq DOMAIN T
      /\ T["corpus"] = Seq(Strings) /\ T["poisons"] = Seq(Strings)
      /\ T["wordsFile"] = Strings \cup {Unset} /\ T["template"] = Strings \cup {Unset}
      /\ T["paraMin"] = Limit(4, Int) /\ T["paraMax"] = Limit(6, Int)
      /\ T["linkMin"] = Limit(2, Int) /\ T["linkMax"] = Limit(5, Int)
  BY DEF GarbageType
<1>2. Refused \notin G
  BY RefusedApart
<1>3. /\ n.entries \in Seq(EntriesIn(Int)) /\ c \in Seq(NestedIn(Int)) /\ e \in Seq(NestedIn(Int))
      /\ m.entries = n.entries /\ m.name = n.name
      /\ \A i \in 1..Len(c) : \E j \in 1..Len(e) : c[i] = e[j]
  BY DEF LineIn, MoreLine
<1>4. \A x \in G : Fresh(x) \in G
  BY FreshTyped
<1>5. \A x \in G : Para(x) \in OrRefused(G) /\ Link(x) \in OrRefused(G)
  <2> SUFFICES ASSUME NEW x \in G PROVE Para(x) \in OrRefused(G) /\ Link(x) \in OrRefused(G)
    OBVIOUS
  <2>1. Fresh(x) \in G
    BY <1>4
  <2> HIDE DEF T, Fresh
  <2> QED
    BY <1>1, <1>3, <2>1, MinMaxType
<1>6. Para(s) = Refused => Para(t) = Refused
  <2> HIDE DEF T
  <2> QED
    BY <1>1, <1>2, <1>3, MinMaxRefused DEF T
<1>7. Link(s) = Refused => Link(t) = Refused
  <2>1. Fresh(s) \in G /\ Fresh(t) \in G
    BY <1>4
  <2> HIDE DEF T, Fresh
  <2> QED
    BY <1>1, <1>2, <1>3, <2>1, MinMaxRefused
<1>8. \A i \in 1..Len(c) : c[i].entries \in Seq(EntriesIn(Int))
  BY <1>3, NestedFacts
<1>9. Covered("paragraphs", c, e, G)
  BY <1>3, <1>8, ParagraphsRefused DEF Covered, ReadBy
<1>10. Covered("links", c, e, G)
  BY <1>3, <1>8, LinksRefused DEF Covered, ReadBy
<1>a. s \in G /\ t \in G /\ G = Typed(T)
  OBVIOUS
<1>b. /\ \A x : MinMax(x, m, "paraMin", "paraMax") = Para(x)
      /\ \A x : MinMax(Fresh(x), m, "linkMin", "linkMax") = Link(x)
  <2>1. \A name, max, old : IntProp(m, name, max, old) = IntProp(n, name, max, old)
    BY <1>3, SameValues
  <2> QED
    BY <2>1 DEF MinMax
<1> HIDE DEF Fresh, Para, Link
<1>11. /\ Reader("paragraphs", c, G) /\ Reader("paragraphs", e, G)
       /\ Children(n, Para(s), ParagraphsLine) = After("paragraphs", Para(s), c)
       /\ Children(m, Para(t), ParagraphsLine) = After("paragraphs", Para(t), e)
  BY <1>3, <1>5, ParagraphsLinesType
<1>12. /\ Reader("links", c, G) /\ Reader("links", e, G)
       /\ Children(n, Link(s), LinksLine) = After("links", Link(s), c)
       /\ Children(m, Link(t), LinksLine) = After("links", Link(t), e)
  BY <1>3, <1>5, LinksLinesType
<1> HIDE DEF G, c, e
<1>13. After("paragraphs", Para(s), c) = Refused => After("paragraphs", Para(t), e) = Refused
  BY <1>2, <1>5, <1>6, <1>9, <1>11, <1>a, AfterRefused
<1>14. After("links", Link(s), c) = Refused => After("links", Link(t), e) = Refused
  BY <1>2, <1>5, <1>7, <1>10, <1>12, <1>a, AfterRefused
<1>15. StringSeq(n) \in OrRefused(Seq(Strings)) /\ OneStringArg(n) \in OrRefused(Strings)
  BY <1>3, StringSeqType, OneStringArgType
<1>16. OneStringArg(n) \in OrRefused(T["wordsFile"]) /\ OneStringArg(n) \in OrRefused(T["template"])
  BY <1>1, <1>15 DEF OrRefused
<1> HIDE DEF T
<1>17. s # Refused /\ s \in Typed(T) /\ Refused \notin Typed(T)
  BY <1>2, <1>a
<1>18. \A f \in {"corpus", "poisons"} :
         Set(s, f, StringSeq(n)) = Refused => Set(t, f, StringSeq(n)) = Refused
  BY <1>1, <1>15, <1>17, SetRefuses
<1>19. Set(s, "wordsFile", OneStringArg(n)) = Refused => Set(t, "wordsFile", OneStringArg(n)) = Refused
  BY <1>1, <1>16, <1>17, SetRefuses
<1>22. Set(s, "template", OneStringArg(n)) = Refused => Set(t, "template", OneStringArg(n)) = Refused
  BY <1>1, <1>16, <1>17, SetRefuses
<1>20. GarbageLine(s, n) =
         CASE n.name = "corpus-files"  -> Set(s, "corpus", StringSeq(n))
           [] n.name = "words-file"    -> Set(s, "wordsFile", OneStringArg(n))
           [] n.name = "template-file" -> Set(s, "template", OneStringArg(n))
           [] n.name = "poisons"       -> Set(s, "poisons", StringSeq(n))
           [] n.name = "paragraphs"    -> Children(n, Para(s), ParagraphsLine)
           [] n.name = "links"         -> Children(n, Link(s), LinksLine)
           [] OTHER                    -> s
  BY DEF GarbageLine, Para, Link, Fresh
<1>21. GarbageLine(t, m) =
         CASE n.name = "corpus-files"  -> Set(t, "corpus", StringSeq(n))
           [] n.name = "words-file"    -> Set(t, "wordsFile", OneStringArg(n))
           [] n.name = "template-file" -> Set(t, "template", OneStringArg(n))
           [] n.name = "poisons"       -> Set(t, "poisons", StringSeq(n))
           [] n.name = "paragraphs"    -> Children(m, Para(t), ParagraphsLine)
           [] n.name = "links"         -> Children(m, Link(t), LinksLine)
           [] OTHER                    -> t
  <2>1. StringSeq(m) = StringSeq(n) /\ OneStringArg(m) = OneStringArg(n)
    BY <1>3, SameValues
  <2> QED
    BY <1>3, <1>b, <2>1 DEF GarbageLine, Fresh
<1> QED
  BY <1>11, <1>12, <1>13, <1>14, <1>17, <1>18, <1>19, <1>20, <1>21, <1>22

LEMMA LoggingRefused ==
  ASSUME NEW n \in LineIn(Int), NEW m \in LineIn(Int), MoreLine(n, m),
         NEW s \in Typed(LoggingType), NEW t \in Typed(LoggingType),
         LoggingLine(s, n) = Refused
  PROVE  LoggingLine(t, m) = Refused
<1> DEFINE T == LoggingType
           level == OneOf(Levels, n)
           target == OneOf({"stdout", "stderr"}, n)
           switch == OneBooleanish(n)
<1>1. /\ DOMAIN T = {"level", "target", "color", "timestamps", "handler"}
      /\ T["level"] = Levels \cup {"off"} /\ T["target"] = {"stdout", "stderr"}
      /\ T["color"] = BOOLEAN /\ T["timestamps"] = BOOLEAN /\ T["handler"] = BOOLEAN
  BY DEF LoggingType
<1>2. n.entries \in Seq(EntriesIn(Int)) /\ m.name = n.name /\ m.entries = n.entries
  BY DEF LineIn, MoreLine
<1>3. level \in OrRefused(T["level"])
  BY <1>1, OneOfType DEF OrRefused
<1>4. target \in OrRefused(T["target"])
  BY <1>1, OneOfType
<1>5. switch \in OrRefused(BOOLEAN)
  BY <1>2, OneBooleanishType
<1>6. OneOf(Levels, m) = level /\ OneOf({"stdout", "stderr"}, m) = target /\ OneBooleanish(m) = switch
  BY <1>2, SameValues
<1>7. s \in Typed(T) /\ s # Refused /\ Refused \notin Typed(T)
  BY RefusedApart
<1> HIDE DEF T, level, target, switch
<1>8. Set(s, "level", level) = Refused => Set(t, "level", level) = Refused
  BY <1>1, <1>3, <1>7, SetRefuses
<1>9. Set(s, "target", target) = Refused => Set(t, "target", target) = Refused
  BY <1>1, <1>4, <1>7, SetRefuses
<1>10. Set(s, "color", switch) = Refused => Set(t, "color", switch) = Refused
  BY <1>1, <1>5, <1>7, SetRefuses
<1>11. Set(s, "timestamps", switch) = Refused => Set(t, "timestamps", switch) = Refused
  BY <1>1, <1>5, <1>7, SetRefuses
<1>12. Set(s, "handler", switch) = Refused => Set(t, "handler", switch) = Refused
  BY <1>1, <1>5, <1>7, SetRefuses
<1>13. LoggingLine(s, n) = CASE n.name = "level"           -> Set(s, "level", level)
                             [] n.name = "target"          -> Set(s, "target", target)
                             [] n.name = "color"           -> Set(s, "color", switch)
                             [] n.name = "timestamps"      -> Set(s, "timestamps", switch)
                             [] n.name = "request-handler" -> Set(s, "handler", switch)
                             [] OTHER                      -> s
  BY DEF LoggingLine, level, target, switch
<1>14. LoggingLine(t, m) = CASE n.name = "level"           -> Set(t, "level", level)
                             [] n.name = "target"          -> Set(t, "target", target)
                             [] n.name = "color"           -> Set(t, "color", switch)
                             [] n.name = "timestamps"      -> Set(t, "timestamps", switch)
                             [] n.name = "request-handler" -> Set(t, "handler", switch)
                             [] OTHER                      -> t
  BY <1>2, <1>6 DEF LoggingLine
<1> QED
  BY <1>7, <1>8, <1>9, <1>10, <1>11, <1>12, <1>13, <1>14

LEMMA MetricsRefused ==
  ASSUME NEW n \in LineIn(Int), NEW m \in LineIn(Int), MoreLine(n, m),
         NEW s \in Typed(MetricsType), NEW t \in Typed(MetricsType),
         MetricsLine(s, n) = Refused
  PROVE  MetricsLine(t, m) = Refused
<1> DEFINE T == MetricsType
           listen == OneOf(Addresses, n)
           persist == OneStringArg(n)
<1>1. /\ DOMAIN T = {"listen", "persist"}
      /\ T["listen"] = Addresses \cup {"127.0.0.1:4001"} /\ T["persist"] = Strings \cup {Unset}
  BY DEF MetricsType
<1>2. n.entries \in Seq(EntriesIn(Int)) /\ m.name = n.name /\ m.entries = n.entries
  BY DEF LineIn, MoreLine
<1>3. listen \in OrRefused(T["listen"])
  BY <1>1, OneOfType DEF OrRefused
<1>4. persist \in OrRefused(T["persist"])
  BY <1>1, <1>2, OneStringArgType DEF OrRefused
<1>5. OneOf(Addresses, m) = listen /\ OneStringArg(m) = persist
  BY <1>2, SameValues
<1>6. s \in Typed(T) /\ s # Refused /\ Refused \notin Typed(T)
  BY RefusedApart
<1> HIDE DEF T, listen, persist
<1>7. Set(s, "listen", listen) = Refused => Set(t, "listen", listen) = Refused
  BY <1>1, <1>3, <1>6, SetRefuses
<1>8. Set(s, "persist", persist) = Refused => Set(t, "persist", persist) = Refused
  BY <1>1, <1>4, <1>6, SetRefuses
<1>9. MetricsLine(s, n) = CASE n.name = "listen"       -> Set(s, "listen", listen)
                            [] n.name = "persist-path" -> Set(s, "persist", persist)
                            [] OTHER                   -> s
  BY DEF MetricsLine, listen, persist
<1>10. MetricsLine(t, m) = CASE n.name = "listen"       -> Set(t, "listen", listen)
                             [] n.name = "persist-path" -> Set(t, "persist", persist)
                             [] OTHER                   -> t
  BY <1>2, <1>5 DEF MetricsLine
<1> QED
  BY <1>6, <1>7, <1>8, <1>9, <1>10

\* An error in a section is one in the section with more lines.
LEMMA SectionRefused ==
  ASSUME NEW k, NEW G, Refused \notin G, NEW n \in BlockIn(Int), NEW m \in BlockIn(Int),
         MoreBlock(n, m), Reader(k, n.children, G), Reader(k, m.children, G),
         NEW b \in OrRefused(G),
         \A x, y \in LineIn(Int) : \A s, t \in G :
           MoreLine(x, y) /\ ReadBy(k, s, x) = Refused => ReadBy(k, t, y) = Refused,
         After(k, b, n.children) = Refused
  PROVE  After(k, b, m.children) = Refused
<1> DEFINE c == n.children
           e == m.children
<1>1. c \in Seq(LineIn(Int)) /\ e \in Seq(LineIn(Int))
  BY DEF BlockIn
<1>2. \A i \in 1..Len(c) : \E j \in 1..Len(e) : MoreLine(c[i], e[j])
  BY DEF MoreBlock
<1>3. Covered(k, c, e, G)
  BY <1>1, <1>2 DEF Covered
<1> HIDE DEF c, e
<1> QED
  BY <1>3, AfterRefused DEF c, e

LEMMA PartsRefused ==
  ASSUME NEW n \in BlockIn(Int), NEW m \in BlockIn(Int), MoreBlock(n, m)
  PROVE  /\ ParseServer(n) = Refused => ParseServer(m) = Refused
         /\ Children(n, Default.classifier, ClassifierLine) = Refused
              => Children(m, Default.classifier, ClassifierLine) = Refused
         /\ Children(n, Default.garbage, GarbageLine) = Refused
              => Children(m, Default.garbage, GarbageLine) = Refused
         /\ Children(n, Default.logging, LoggingLine) = Refused
              => Children(m, Default.logging, LoggingLine) = Refused
         /\ Children(n, Metrics, MetricsLine) = Refused
              => Children(m, Metrics, MetricsLine) = Refused
<1>1. n.children \in Seq(LineIn(Int)) /\ m.children \in Seq(LineIn(Int))
  BY DEF BlockIn
<1>2. /\ Default.classifier \in OrRefused(Typed(ClassifierType(Int)))
      /\ Default.garbage \in OrRefused(Typed(GarbageType(Int)))
      /\ Default.logging \in OrRefused(Typed(LoggingType))
      /\ Metrics \in OrRefused(Typed(MetricsType))
  BY DefaultsTyped DEF OrRefused
<1>3. ParseServer(n) = Refused => ParseServer(m) = Refused
  <2> DEFINE G == Typed(ServerType(Int))
             b == ServerFrom(n)
  <2>1. ServerFrom(m) = b
    <3>1. m.entries = n.entries
      BY DEF MoreBlock
    <3>2. \A S : OneOf(S, m) = OneOf(S, n)
      BY <3>1, SameValues
    <3> QED
      BY <3>2 DEF ServerFrom
  <2>2. b \in OrRefused(G) /\ Refused \notin G
    BY ServerFromTyped, RefusedApart
  <2>3. /\ Reader("server", n.children, G) /\ Reader("server", m.children, G)
        /\ Children(n, b, ServerLine) = After("server", b, n.children)
        /\ Children(m, b, ServerLine) = After("server", b, m.children)
    BY <1>1, <2>2, ServerLinesType
  <2>4. \A x, y \in LineIn(Int) : \A s, t \in G :
          MoreLine(x, y) /\ ReadBy("server", s, x) = Refused => ReadBy("server", t, y) = Refused
    BY ServerRefused DEF ReadBy
  <2>5. ParseServer(n) = Children(n, b, ServerLine) /\ ParseServer(m) = Children(m, b, ServerLine)
    <3>1. ParseServer(n) = Children(n, ServerFrom(n), ServerLine)
      BY Zenon DEF ParseServer, ServerFrom
    <3>2. ParseServer(m) = Children(m, ServerFrom(m), ServerLine)
      BY Zenon DEF ParseServer, ServerFrom
    <3> QED
      BY <2>1, <3>1, <3>2
  <2> HIDE DEF G, b
  <2> QED
    BY <2>2, <2>3, <2>4, <2>5, SectionRefused
<1>4. Children(n, Default.classifier, ClassifierLine) = Refused
        => Children(m, Default.classifier, ClassifierLine) = Refused
  <2> DEFINE G == Typed(ClassifierType(Int))
             b == Default.classifier
  <2>1. b \in OrRefused(G) /\ Refused \notin G
    BY <1>2, RefusedApart
  <2>2. /\ Reader("classifier", n.children, G) /\ Reader("classifier", m.children, G)
        /\ Children(n, b, ClassifierLine) = After("classifier", b, n.children)
        /\ Children(m, b, ClassifierLine) = After("classifier", b, m.children)
    BY <1>1, <2>1, ClassifierLinesType
  <2>3. \A x, y \in LineIn(Int) : \A s, t \in G :
          MoreLine(x, y) /\ ReadBy("classifier", s, x) = Refused => ReadBy("classifier", t, y) = Refused
    BY ClassifierRefused DEF ReadBy
  <2> HIDE DEF G, b
  <2>4. Children(n, b, ClassifierLine) = Refused => Children(m, b, ClassifierLine) = Refused
    BY <2>1, <2>2, <2>3, SectionRefused
  <2> QED
    BY <2>4 DEF b
<1>5. Children(n, Default.garbage, GarbageLine) = Refused
        => Children(m, Default.garbage, GarbageLine) = Refused
  <2> DEFINE G == Typed(GarbageType(Int))
             b == Default.garbage
  <2>1. b \in OrRefused(G) /\ Refused \notin G
    BY <1>2, RefusedApart
  <2>2. /\ Reader("garbage", n.children, G) /\ Reader("garbage", m.children, G)
        /\ Children(n, b, GarbageLine) = After("garbage", b, n.children)
        /\ Children(m, b, GarbageLine) = After("garbage", b, m.children)
    BY <1>1, <2>1, GarbageLinesType
  <2>3. \A x, y \in LineIn(Int) : \A s, t \in G :
          MoreLine(x, y) /\ ReadBy("garbage", s, x) = Refused => ReadBy("garbage", t, y) = Refused
    BY GarbageRefused DEF ReadBy
  <2> HIDE DEF G, b
  <2>4. Children(n, b, GarbageLine) = Refused => Children(m, b, GarbageLine) = Refused
    BY <2>1, <2>2, <2>3, SectionRefused
  <2> QED
    BY <2>4 DEF b
<1>6. Children(n, Default.logging, LoggingLine) = Refused
        => Children(m, Default.logging, LoggingLine) = Refused
  <2> DEFINE G == Typed(LoggingType)
             b == Default.logging
  <2>1. b \in OrRefused(G) /\ Refused \notin G
    BY <1>2, RefusedApart
  <2>2. /\ Reader("logging", n.children, G) /\ Reader("logging", m.children, G)
        /\ Children(n, b, LoggingLine) = After("logging", b, n.children)
        /\ Children(m, b, LoggingLine) = After("logging", b, m.children)
    BY <1>1, <2>1, LoggingLinesType
  <2>3. \A x, y \in LineIn(Int) : \A s, t \in G :
          MoreLine(x, y) /\ ReadBy("logging", s, x) = Refused => ReadBy("logging", t, y) = Refused
    BY LoggingRefused DEF ReadBy
  <2> HIDE DEF G, b
  <2>4. Children(n, b, LoggingLine) = Refused => Children(m, b, LoggingLine) = Refused
    BY <2>1, <2>2, <2>3, SectionRefused
  <2> QED
    BY <2>4 DEF b
<1>7. Children(n, Metrics, MetricsLine) = Refused => Children(m, Metrics, MetricsLine) = Refused
  <2> DEFINE G == Typed(MetricsType)
  <2>1. Metrics \in OrRefused(G) /\ Refused \notin G
    BY <1>2, RefusedApart
  <2>2. /\ Reader("metrics", n.children, G) /\ Reader("metrics", m.children, G)
        /\ Children(n, Metrics, MetricsLine) = After("metrics", Metrics, n.children)
        /\ Children(m, Metrics, MetricsLine) = After("metrics", Metrics, m.children)
    BY <1>1, <2>1, MetricsLinesType
  <2>3. \A x, y \in LineIn(Int) : \A s, t \in G :
          MoreLine(x, y) /\ ReadBy("metrics", s, x) = Refused => ReadBy("metrics", t, y) = Refused
    BY MetricsRefused DEF ReadBy
  <2> HIDE DEF G
  <2> QED
    BY <2>1, <2>2, <2>3, SectionRefused
<1> QED
  BY <1>3, <1>4, <1>5, <1>6, <1>7

LEMMA BlockRefused ==
  ASSUME NEW n \in BlockIn(Int), NEW m \in BlockIn(Int), MoreBlock(n, m),
         NEW c \in Typed(ConfigType(Int)), NEW d \in Typed(ConfigType(Int)),
         Block(c, n) = Refused
  PROVE  Block(d, m) = Refused
<1> DEFINE T == ConfigType(Int)
           server(x) == ParseServer(x)
           classifier(x) == Children(x, Default.classifier, ClassifierLine)
           garbage(x) == Children(x, Default.garbage, GarbageLine)
           logging(x) == Children(x, Default.logging, LoggingLine)
           metrics(x) == Children(x, Metrics, MetricsLine)
<1>1. /\ DOMAIN T = {"server", "classifier", "garbage", "logging", "metrics"}
      /\ T["server"] = Typed(ServerType(Int)) /\ T["classifier"] = Typed(ClassifierType(Int))
      /\ T["garbage"] = Typed(GarbageType(Int)) /\ T["logging"] = Typed(LoggingType)
      /\ T["metrics"] = {Unset} \cup Typed(MetricsType)
  BY DEF ConfigType
<1>2. /\ server(n) \in OrRefused(T["server"]) /\ classifier(n) \in OrRefused(T["classifier"])
      /\ garbage(n) \in OrRefused(T["garbage"]) /\ logging(n) \in OrRefused(T["logging"])
      /\ metrics(n) \in OrRefused(Typed(MetricsType))
  BY <1>1, BlockParts
<1>3. metrics(n) \in OrRefused(T["metrics"])
  BY <1>1, <1>2 DEF OrRefused
<1>4. /\ server(n) = Refused => server(m) = Refused
      /\ classifier(n) = Refused => classifier(m) = Refused
      /\ garbage(n) = Refused => garbage(m) = Refused
      /\ logging(n) = Refused => logging(m) = Refused
      /\ metrics(n) = Refused => metrics(m) = Refused
  BY PartsRefused
<1>5. c \in Typed(T) /\ c # Refused /\ c \in OrRefused(Typed(T)) /\ Refused \notin Typed(T)
  BY RefusedApart DEF OrRefused
<1>6. \A x, y : Block(x, y) = CASE y.name = "server"     -> Set(x, "server", server(y))
                                [] y.name = "classifier" -> Set(x, "classifier", classifier(y))
                                [] y.name = "garbage"    -> Set(x, "garbage", garbage(y))
                                [] y.name = "logging"    -> Set(x, "logging", logging(y))
                                [] y.name = "metrics"    -> Set(x, "metrics", metrics(y))
                                [] OTHER                 -> x
  BY Zenon DEF Block
<1>7. m.name = n.name
  BY DEF MoreBlock
<1> HIDE DEF T, server, classifier, garbage, logging, metrics
<1>8. Set(c, "server", server(n)) = Refused => server(n) = Refused
  BY <1>1, <1>2, <1>5, SetRefused
<1>9. Set(c, "classifier", classifier(n)) = Refused => classifier(n) = Refused
  BY <1>1, <1>2, <1>5, SetRefused
<1>10. Set(c, "garbage", garbage(n)) = Refused => garbage(n) = Refused
  BY <1>1, <1>2, <1>5, SetRefused
<1>11. Set(c, "logging", logging(n)) = Refused => logging(n) = Refused
  BY <1>1, <1>2, <1>5, SetRefused
<1>12. Set(c, "metrics", metrics(n)) = Refused => metrics(n) = Refused
  <2>1. "metrics" \in DOMAIN T
    BY <1>1
  <2> QED
    BY <1>3, <1>5, <2>1, SetRefused
<1>13. \A f, v : v = Refused => Set(d, f, v) = Refused
  BY DEF Set
<1> QED
  BY <1>4, <1>5, <1>6, <1>7, <1>8, <1>9, <1>10, <1>11, <1>12, <1>13

LEMMA DocRefused ==
  ASSUME NEW d \in Seq(BlockIn(Int)), NEW e \in Seq(BlockIn(Int)), MoreDoc(d, e),
         ParseDoc(d) = Refused
  PROVE  ParseDoc(e) = Refused
<1> DEFINE G == Typed(ConfigType(Int))
<1>1. /\ Reader("doc", d, G) /\ Reader("doc", e, G)
      /\ ParseDoc(d) = After("doc", Default, d) /\ ParseDoc(e) = After("doc", Default, e)
  BY DocTyped
<1>2. Default \in OrRefused(G) /\ Refused \notin G
  BY DefaultTyped, RefusedApart DEF OrRefused
<1>3. Covered("doc", d, e, G)
  <2>1. \A i \in 1..Len(d) : d[i] \in BlockIn(Int)
    OBVIOUS
  <2>2. \A j \in 1..Len(e) : e[j] \in BlockIn(Int)
    OBVIOUS
  <2> QED
    BY <2>1, <2>2, BlockRefused DEF Covered, MoreDoc, ReadBy
<1> HIDE DEF G
<1> QED
  BY <1>1, <1>2, <1>3, AfterRefused

-----------------------------------------------------------------------------
(* The operator writes.  What stands in the file is made of nodes he may   *)
(* write, whatever numbers they hold.                                      *)
DocInv == doc \in Seq(BlockIn(Int)) /\ config = ParseDoc(doc)

LEMMA InsertType ==
  ASSUME NEW S, NEW seq \in Seq(S), NEW i \in Positions(seq), NEW x \in S
  PROVE  InsertAt(seq, i, x) \in Seq(S)
<1>1. i \in 1..(Len(seq) + 1) /\ Len(seq) \in Nat
  BY DEF Positions
<1>2. SubSeq(seq, 1, i - 1) \in Seq(S)
  BY <1>1
<1>3. SubSeq(seq, i, Len(seq)) \in Seq(S)
  BY <1>1
<1>4. <<x>> \in Seq(S)
  OBVIOUS
<1> QED
  BY <1>2, <1>3, <1>4 DEF InsertAt

LEMMA NodeFacts ==
  ASSUME NEW n \in Blocks \cup Lines \cup NestedLines
  PROVE  /\ n = [name |-> n.name, entries |-> n.entries, children |-> <<>>]
         /\ n.entries \in Seq(EntriesIn(Int))
<1>1. \A e \in Range(n.entries) : e \in EntriesIn(Int)
  <2> SUFFICES ASSUME NEW e \in Range(n.entries) PROVE e \in EntriesIn(Int)
    OBVIOUS
  <2>1. e \in WritableEntries
    BY DEF WritableEntries
  <2>2. \/ e.kind = "string" \/ e.kind = "bool" \/ e.kind = "null" \/ e.kind = "float"
        \/ e.kind = "int" /\ e.value \in Int
    BY NodesAssumption
  <2> QED
    BY <2>1, <2>2 DEF EntriesIn
<1>2. n.entries \in Seq(Range(n.entries))
  BY NodesAssumption
<1>3. n.entries \in Seq(EntriesIn(Int))
  <2> DEFINE R == Range(n.entries)
             E == EntriesIn(Int)
  <2> HIDE DEF R, E
  <2>1. R \subseteq E
    BY <1>1 DEF R, E
  <2>2. n.entries \in Seq(R)
    BY <1>2 DEF R
  <2>3. n.entries \in Seq(E)
    BY <2>1, <2>2
  <2> QED
    BY <2>3 DEF E
<1>4. n = [name |-> n.name, entries |-> n.entries, children |-> <<>>]
  BY NodesAssumption
<1> QED
  BY <1>3, <1>4

LEMMA WritableNested ==
  ASSUME NEW n \in NestedLines
  PROVE  n \in NestedIn(Int)
<1>1. /\ n = [name |-> n.name, entries |-> n.entries, children |-> <<>>]
      /\ n.entries \in Seq(EntriesIn(Int))
  BY NodeFacts
<1> QED
  BY <1>1 DEF NestedIn

LEMMA WritableLine ==
  ASSUME NEW n \in Lines
  PROVE  n \in LineIn(Int)
<1> DEFINE S == NestedIn(Int)
           m == [name |-> n.name, entries |-> n.entries, children |-> <<>>]
<1>1. n = m /\ n.entries \in Seq(EntriesIn(Int))
  BY NodeFacts
<1>2. <<>> \in Seq(S)
  OBVIOUS
<1> HIDE DEF S
<1>3. m \in LineIn(Int)
  BY <1>1, <1>2 DEF LineIn, S
<1> QED
  BY <1>1, <1>3, Zenon

LEMMA WritableBlock ==
  ASSUME NEW n \in Blocks
  PROVE  n \in BlockIn(Int)
<1> DEFINE S == LineIn(Int)
           m == [name |-> n.name, entries |-> n.entries, children |-> <<>>]
<1>1. n = m /\ n.entries \in Seq(EntriesIn(Int))
  BY NodeFacts
<1>2. <<>> \in Seq(S)
  OBVIOUS
<1> HIDE DEF S
<1>3. m \in BlockIn(Int)
  BY <1>1, <1>2 DEF BlockIn, S
<1> QED
  BY <1>1, <1>3, Zenon

\* A node with one more line is a node of its kind.
LEMMA MoreLines ==
  ASSUME NEW b \in BlockIn(Int), NEW c \in Seq(LineIn(Int))
  PROVE  [b EXCEPT !.children = c] \in BlockIn(Int)
  BY DEF BlockIn

LEMMA MoreNested ==
  ASSUME NEW l \in LineIn(Int), NEW c \in Seq(NestedIn(Int))
  PROVE  [l EXCEPT !.children = c] \in LineIn(Int)
  BY DEF LineIn

\* The file with one more line, in block k before line i, and with one more line
\* of line j of block k.
WithLine(d, k, i, l) ==
  [d EXCEPT ![k] = [d[k] EXCEPT !.children = InsertAt(d[k].children, i, l)]]

WithNested(d, k, j, i, l) ==
  LET line == [d[k].children[j] EXCEPT !.children = InsertAt(d[k].children[j].children, i, l)]
  IN  [d EXCEPT ![k] = [d[k] EXCEPT !.children = [d[k].children EXCEPT ![j] = line]]]

LEMMA WithLineIs ==
  ASSUME NEW d \in Seq(BlockIn(Int)), NEW k \in 1..Len(d), NEW i, i \in Positions(d[k].children),
         NEW l \in LineIn(Int), NEW e, e = WithLine(d, k, i, l)
  PROVE  /\ e \in Seq(BlockIn(Int)) /\ Len(e) = Len(d)
         /\ \A q \in 1..Len(d) : q # k => e[q] = d[q]
         /\ e[k].name = d[k].name /\ e[k].entries = d[k].entries
         /\ d[k].children \in Seq(LineIn(Int))
         /\ e[k].children = InsertAt(d[k].children, i, l)
<1> DEFINE B == BlockIn(Int)
           c == InsertAt(d[k].children, i, l)
           n == [d[k] EXCEPT !.children = c]
<1>1. d[k] \in B
  OBVIOUS
<1>2. d[k].children \in Seq(LineIn(Int))
  BY <1>1 DEF BlockIn
<1>3. c \in Seq(LineIn(Int))
  BY <1>2, InsertType
<1> HIDE DEF c
<1>4. n \in B
  BY <1>1, <1>3, MoreLines
<1>5. n.name = d[k].name /\ n.entries = d[k].entries /\ n.children = c
  BY <1>1 DEF BlockIn
<1>6. e = [d EXCEPT ![k] = n]
  BY Zenon DEF WithLine, c
<1> HIDE DEF n, B
<1>7. e \in Seq(B) /\ Len(e) = Len(d) /\ e[k] = n /\ \A q \in 1..Len(d) : q # k => e[q] = d[q]
  BY <1>4, <1>6 DEF B
<1> QED
  BY <1>2, <1>5, <1>7 DEF B, c

\* What that makes of the file.
NestedEdit(d, e, k, j, i, l) ==
  /\ e \in Seq(BlockIn(Int)) /\ Len(e) = Len(d)
  /\ \A q \in 1..Len(d) : q # k => e[q] = d[q]
  /\ e[k].name = d[k].name /\ e[k].entries = d[k].entries
  /\ d[k].children \in Seq(LineIn(Int)) /\ e[k].children \in Seq(LineIn(Int))
  /\ Len(e[k].children) = Len(d[k].children)
  /\ \A q \in 1..Len(d[k].children) : q # j => e[k].children[q] = d[k].children[q]
  /\ e[k].children[j].name = d[k].children[j].name
  /\ e[k].children[j].entries = d[k].children[j].entries
  /\ d[k].children[j].children \in Seq(NestedIn(Int))
  /\ e[k].children[j].children = InsertAt(d[k].children[j].children, i, l)

LEMMA WithNestedIs ==
  ASSUME NEW d \in Seq(BlockIn(Int)), NEW k \in 1..Len(d), NEW j, j \in 1..Len(d[k].children),
         NEW i, i \in Positions(d[k].children[j].children),
         NEW l \in NestedIn(Int), NEW e, e = WithNested(d, k, j, i, l)
  PROVE  NestedEdit(d, e, k, j, i, l)
<1> DEFINE B == BlockIn(Int)
           L == LineIn(Int)
           lines == d[k].children
           line == lines[j]
           c == InsertAt(line.children, i, l)
           m == [line EXCEPT !.children = c]
           ms == [lines EXCEPT ![j] = m]
           n == [d[k] EXCEPT !.children = ms]
<1>1. d[k] \in B
  OBVIOUS
<1>2. lines \in Seq(L)
  BY <1>1 DEF BlockIn
<1>3. line \in L
  <2> HIDE DEF lines, L
  <2>1. j \in 1..Len(lines)
    BY DEF lines
  <2> QED
    BY <1>2, <2>1
<1>4. line.children \in Seq(NestedIn(Int))
  BY <1>3 DEF LineIn
<1>5. c \in Seq(NestedIn(Int))
  BY <1>4, InsertType
<1> HIDE DEF c
<1>6. m \in L
  BY <1>3, <1>5, MoreNested
<1>7. m.name = line.name /\ m.entries = line.entries /\ m.children = c
  BY <1>3 DEF LineIn
<1>8. e = [d EXCEPT ![k] = n]
  BY Zenon DEF WithNested, c
<1>9. ms \in Seq(L) /\ Len(ms) = Len(lines) /\ ms[j] = m
      /\ \A q \in 1..Len(lines) : q # j => ms[q] = lines[q]
  <2> HIDE DEF m, lines, L
  <2> QED
    BY <1>2, <1>6 DEF lines
<1>10. n \in B
  <2> HIDE DEF ms
  <2> QED
    BY <1>1, <1>9, MoreLines
<1>11. n.name = d[k].name /\ n.entries = d[k].entries /\ n.children = ms
  <2> HIDE DEF ms
  <2> QED
    BY <1>1 DEF BlockIn
<1> HIDE DEF n, B
<1>12. e \in Seq(B) /\ Len(e) = Len(d) /\ e[k] = n /\ \A q \in 1..Len(d) : q # k => e[q] = d[q]
  BY <1>8, <1>10 DEF B
<1>13. e[k].children = ms
  BY <1>11, <1>12
<1> HIDE DEF m, ms, L
<1>14. /\ Len(e[k].children) = Len(lines) /\ e[k].children \in Seq(L) /\ e[k].children[j] = m
       /\ \A q \in 1..Len(lines) : q # j => e[k].children[q] = lines[q]
  BY <1>9, <1>13
<1> QED
  BY <1>2, <1>4, <1>7, <1>11, <1>12, <1>14 DEF NestedEdit, B, L, c

\* What an operator does.
LEMMA Edits ==
  ASSUME doc \in Seq(BlockIn(Int)), Next
  PROVE  /\ config' = ParseDoc(doc')
         /\ \/ \E b \in BlockIn(Int), i \in Positions(doc) : doc' = InsertAt(doc, i, b)
            \/ \E k \in 1..Len(doc), l \in Lines : \E i \in Positions(doc[k].children) :
                 doc' = WithLine(doc, k, i, l)
            \/ \E k \in 1..Len(doc), l \in NestedLines :
                 \E j \in 1..Len(doc[k].children) :
                   \E i \in Positions(doc[k].children[j].children) :
                     doc' = WithNested(doc, k, j, i, l)
<1> DEFINE B == BlockIn(Int)
<1>1. CASE AddBlock
  <2>1. PICK b \in Blocks, i \in Positions(doc) : Writes(InsertAt(doc, i, b))
    BY <1>1 DEF AddBlock
  <2>2. b \in B
    BY WritableBlock
  <2> QED
    BY <2>1, <2>2 DEF Writes
<1>2. CASE AddLine
  <2>1. PICK k \in DOMAIN doc :
          \E l \in LinesOf(doc[k].name), i \in Positions(doc[k].children) :
            Writes([doc EXCEPT ![k].children = InsertAt(@, i, l)])
    BY <1>2 DEF AddLine
  <2>2. PICK l \in LinesOf(doc[k].name), i \in Positions(doc[k].children) :
          Writes([doc EXCEPT ![k].children = InsertAt(@, i, l)])
    BY <2>1
  <2>3. k \in 1..Len(doc) /\ doc[k] \in B
    BY <2>1
  <2>4. PICK x \in Blocks : doc[k].name = x.name
    BY <2>3 DEF BlockIn
  <2>5. l \in Lines
    BY <2>2, <2>4 DEF Lines
  <2>6. Writes(WithLine(doc, k, i, l))
    BY <2>2, Zenon DEF WithLine
  <2> QED
    BY <2>2, <2>3, <2>5, <2>6 DEF Writes
<1>3. CASE AddNested
  <2>a. PICK k \in DOMAIN doc :
          \E j \in DOMAIN doc[k].children :
            \E l \in NestedOf(doc[k].children[j].name),
               i \in Positions(doc[k].children[j].children) :
              Writes([doc EXCEPT ![k].children[j].children = InsertAt(@, i, l)])
    BY <1>3 DEF AddNested
  <2>1. PICK j \in DOMAIN doc[k].children :
          \E l \in NestedOf(doc[k].children[j].name),
             i \in Positions(doc[k].children[j].children) :
            Writes([doc EXCEPT ![k].children[j].children = InsertAt(@, i, l)])
    BY <2>a
  <2>2. PICK l \in NestedOf(doc[k].children[j].name),
             i \in Positions(doc[k].children[j].children) :
          Writes([doc EXCEPT ![k].children[j].children = InsertAt(@, i, l)])
    BY <2>1
  <2>3. k \in 1..Len(doc) /\ doc[k] \in B
    BY <2>a
  <2> DEFINE lines == doc[k].children
  <2>4. lines \in Seq(LineIn(Int))
    BY <2>3 DEF BlockIn
  <2>5. j \in 1..Len(lines) /\ lines[j] \in LineIn(Int)
    BY <2>1, <2>4
  <2>6. PICK x \in Lines : lines[j].name = x.name
    BY <2>5 DEF LineIn
  <2>7. l \in NestedLines
    BY <2>2, <2>6 DEF NestedLines
  <2>8. Writes(WithNested(doc, k, j, i, l))
    BY <2>2, Zenon DEF WithNested
  <2> QED
    BY <2>2, <2>3, <2>5, <2>7, <2>8 DEF Writes
<1> QED
  BY <1>1, <1>2, <1>3 DEF Next

LEMMA NextDoc ==
  ASSUME doc \in Seq(BlockIn(Int)), Next
  PROVE  doc' \in Seq(BlockIn(Int)) /\ config' = ParseDoc(doc')
<1>1. ASSUME NEW b \in BlockIn(Int), NEW i \in Positions(doc), doc' = InsertAt(doc, i, b)
      PROVE  doc' \in Seq(BlockIn(Int))
  BY <1>1, InsertType
<1>2. ASSUME NEW k \in 1..Len(doc), NEW l \in Lines, NEW i \in Positions(doc[k].children),
             doc' = WithLine(doc, k, i, l)
      PROVE  doc' \in Seq(BlockIn(Int))
  BY <1>2, WritableLine, WithLineIs
<1>3. ASSUME NEW k \in 1..Len(doc), NEW l \in NestedLines, NEW j \in 1..Len(doc[k].children),
             NEW i \in Positions(doc[k].children[j].children), doc' = WithNested(doc, k, j, i, l)
      PROVE  doc' \in Seq(BlockIn(Int))
  BY <1>3, WritableNested, WithNestedIs DEF NestedEdit
<1> QED
  BY <1>1, <1>2, <1>3, Edits

LEMMA Invariance == Spec => []DocInv
<1>1. Init => DocInv
  <2>1. <<>> \in Seq(BlockIn(Int))
    OBVIOUS
  <2> QED
    BY <2>1 DEF Init, DocInv
<1>2. DocInv /\ [Next]_vars => DocInv'
  <2>1. CASE Next
    BY <2>1, NextDoc DEF DocInv
  <2>2. CASE UNCHANGED vars
    BY <2>2 DEF DocInv, vars
  <2> QED
    BY <2>1, <2>2
<1> QED
  BY <1>1, <1>2, PTL DEF Spec

\* The numbers of a file are those that were written in it.
LEMMA SameEntries ==
  ASSUME NEW s, s \in Seq(EntriesIn(Int)), Range(s) \subseteq AllEntries
  PROVE  s \in Seq(EntriesIn(Written))
<1>1. ASSUME NEW i \in 1..Len(s) PROVE s[i] \in EntriesIn(Written)
  <2>1. s[i] \in EntriesIn(Int) /\ s[i] \in AllEntries
    BY DEF Range
  <2>2. s[i].kind = "int" => s[i].value \in Written
    BY <2>1 DEF Written
  <2> QED
    BY <2>1, <2>2 DEF EntriesIn
<1>2. s = [i \in 1..Len(s) |-> s[i]] /\ Len(s) \in Nat
  OBVIOUS
<1> DEFINE E == EntriesIn(Written)
<1> HIDE DEF E
<1>3. \A i \in 1..Len(s) : s[i] \in E
  BY <1>1 DEF E
<1>4. s \in Seq(E)
  BY <1>2, <1>3
<1> QED
  BY <1>4 DEF E

LEMMA DocWritten ==
  ASSUME DocInv
  PROVE  doc \in Seq(BlockIn(Written))
<1> DEFINE W == Written
<1>1. doc \in Seq(BlockIn(Int))
  BY DEF DocInv
<1>2. ASSUME NEW k \in DOMAIN doc PROVE doc[k] \in BlockIn(W)
  <2>1. doc[k] \in BlockIn(Int)
    BY <1>1
  <2> DEFINE c == doc[k].children
  <2>2. c \in Seq(LineIn(Int)) /\ doc[k].entries \in Seq(EntriesIn(Int))
    BY <2>1 DEF BlockIn
  <2>3. Range(doc[k].entries) \subseteq AllEntries
    BY DEF AllEntries, Entries
  <2>4. doc[k].entries \in Seq(EntriesIn(W))
    BY <2>2, <2>3, SameEntries
  <2>5. ASSUME NEW j \in DOMAIN c PROVE c[j] \in LineIn(W)
    <3>1. c[j] \in LineIn(Int)
      BY <2>2
    <3> DEFINE e == c[j].children
    <3>2. e \in Seq(NestedIn(Int)) /\ c[j].entries \in Seq(EntriesIn(Int))
      BY <3>1 DEF LineIn
    <3>3. Range(c[j].entries) \subseteq AllEntries
      BY DEF AllEntries, Entries
    <3>4. c[j].entries \in Seq(EntriesIn(W))
      BY <3>2, <3>3, SameEntries
    <3>5. ASSUME NEW i \in DOMAIN e PROVE e[i] \in NestedIn(W)
      <4>1. e[i] \in NestedIn(Int)
        BY <3>2
      <4>2. Range(e[i].entries) \subseteq AllEntries
        BY DEF AllEntries, Entries
      <4>3. e[i].entries \in Seq(EntriesIn(W))
        BY <4>1, <4>2, SameEntries DEF NestedIn
      <4> QED
        BY <4>1, <4>3 DEF NestedIn
    <3>6. e \in Seq(NestedIn(W))
      <4> DEFINE N == NestedIn(W)
      <4> HIDE DEF N, e
      <4>1. \A i \in DOMAIN e : e[i] \in N
        BY <3>5 DEF N
      <4>2. e \in Seq(N)
        BY <3>2, <4>1
      <4> QED
        BY <4>2 DEF N
    <3> QED
      BY <3>1, <3>4, <3>6 DEF LineIn
  <2>6. c \in Seq(LineIn(W))
    <3> DEFINE N == LineIn(W)
    <3> HIDE DEF N, c
    <3>1. \A j \in DOMAIN c : c[j] \in N
      BY <2>5 DEF N
    <3>2. c \in Seq(N)
      BY <2>2, <3>1
    <3> QED
      BY <3>2 DEF N
  <2> QED
    BY <2>1, <2>4, <2>6 DEF BlockIn
<1> DEFINE B == BlockIn(W)
<1> HIDE DEF B
<1>3. \A k \in DOMAIN doc : doc[k] \in B
  BY <1>2 DEF B
<1>4. doc \in Seq(B)
  BY <1>1, <1>3
<1> QED
  BY <1>4 DEF B

-----------------------------------------------------------------------------
(* The theorems.                                                           *)

ConfigTyped == config \in OrRefused(Typed(ConfigType(Written)))

LEMMA TypedInv == DocInv => ConfigTyped
<1> SUFFICES ASSUME DocInv PROVE ConfigTyped
  OBVIOUS
<1>1. ParseDoc(doc) \in OrRefused(Typed(ConfigType(Written)))
  BY DocWritten, DocTyped
<1> QED
  BY <1>1 DEF DocInv, ConfigTyped

\* Every file is refused, or makes a configuration with a value of its type for
\* every setting of config.rs.
THEOREM TypeCorrect == Spec => []ConfigTyped
  BY Invariance, TypedInv, PTL

\* NumbersAsWritten: what parse.rs casts and bounds of the numbers of a file.
THEOREM NumbersCorrect == Spec => []NumbersAsWritten
<1>1. ConfigTyped => NumbersAsWritten
  <2> SUFFICES ASSUME ConfigTyped, config # Refused PROVE NumbersAsWritten
    BY DEF NumbersAsWritten
  <2> DEFINE T == ConfigType(Written)
             S == ServerType(Written)
             C == ClassifierType(Written)
             G == GarbageType(Written)
  <2>1. config \in Typed(T)
    BY DEF ConfigTyped, OrRefused
  <2>2. config.server \in Typed(S) /\ config.classifier \in Typed(C) /\ config.garbage \in Typed(G)
    BY <2>1 DEF Typed, ConfigType
  <2>3. \A f \in DOMAIN S : config.server[f] \in S[f]
    BY <2>2 DEF Typed
  <2>4. \A f \in DOMAIN C : config.classifier[f] \in C[f]
    BY <2>2 DEF Typed
  <2>5. \A f \in DOMAIN G : config.garbage[f] \in G[f]
    BY <2>2 DEF Typed
  <2>6. \A f \in {"valid", "spam"} :
          config.server[f] \in {Default.server[f]} \cup (Written \cap (100..999))
    <3>1. "valid" \in DOMAIN S /\ S["valid"] = {200} \cup (Written \cap (100..999))
      BY DEF ServerType
    <3>2. "spam" \in DOMAIN S /\ S["spam"] = {401} \cup (Written \cap (100..999))
      BY DEF ServerType
    <3>3. Default.server["valid"] = 200 /\ Default.server["spam"] = 401
      BY DEF Default
    <3> HIDE DEF S
    <3> QED
      BY <2>3, <3>1, <3>2, <3>3
  <2>7. \A f \in {"paraMin", "paraMax", "paraWordsMin", "paraWordsMax",
                  "linkMin", "linkMax", "linkWordsMin", "linkWordsMax"} :
          config.garbage[f] \in {Default.garbage[f]} \cup (Written \cap (0..MaxUsize))
    <3> DEFINE d == Default.garbage
               Limits == {"paraMin", "paraMax", "paraWordsMin", "paraWordsMax",
                          "linkMin", "linkMax", "linkWordsMin", "linkWordsMax"}
    <3>1. /\ d["paraMin"] = 4 /\ d["paraMax"] = 6 /\ d["paraWordsMin"] = 16 /\ d["paraWordsMax"] = 32
          /\ d["linkMin"] = 2 /\ d["linkMax"] = 5 /\ d["linkWordsMin"] = 2 /\ d["linkWordsMax"] = 4
      BY DEF Default
    <3>2. /\ G["paraMin"] = Limit(4, Written) /\ G["paraMax"] = Limit(6, Written)
          /\ G["paraWordsMin"] = Limit(16, Written) /\ G["paraWordsMax"] = Limit(32, Written)
          /\ G["linkMin"] = Limit(2, Written) /\ G["linkMax"] = Limit(5, Written)
          /\ G["linkWordsMin"] = Limit(2, Written) /\ G["linkWordsMax"] = Limit(4, Written)
      BY DEF GarbageType
    <3>3. Limits \subseteq DOMAIN G
      BY DEF GarbageType
    <3> HIDE DEF d, G
    <3>4. \A f \in Limits : G[f] = Limit(d[f], Written)
      BY <3>1, <3>2
    <3>5. \A f \in Limits : config.garbage[f] \in Limit(d[f], Written)
      BY <2>5, <3>3, <3>4
    <3> QED
      BY <3>5 DEF Limit, d
  <2>8. Range(config.classifier.unwantedAsns) \subseteq Written \cap (0..MaxU32)
    <3>1. "unwantedAsns" \in DOMAIN C /\ C["unwantedAsns"] = Seq(Written \cap (0..MaxU32))
      BY DEF ClassifierType
    <3> HIDE DEF C
    <3>2. config.classifier.unwantedAsns \in Seq(Written \cap (0..MaxU32))
      BY <2>4, <3>1
    <3> QED
      BY <3>2 DEF Range
  <2> QED
    BY <2>6, <2>7, <2>8 DEF NumbersAsWritten
<1> QED
  BY <1>1, TypeCorrect, PTL

\* ParserDoesNotPanic: the empty string is refused before its first character is
\* asked for, and no other string is without one.
THEOREM NoPanicCorrect == Spec => []ParserDoesNotPanic
<1>1. ConfigTyped => ParserDoesNotPanic
  <2> SUFFICES ASSUME ConfigTyped, config # Refused PROVE config.garbage.separator # Panicked
    BY DEF ParserDoesNotPanic
  <2> DEFINE G == GarbageType(Written)
  <2>1. config \in Typed(ConfigType(Written))
    BY DEF ConfigTyped, OrRefused
  <2>2. config.garbage \in Typed(G)
    BY <2>1 DEF Typed, ConfigType
  <2>3. "separator" \in DOMAIN G /\ G["separator"] = Range(FirstChar) \cup {"-"}
    BY DEF GarbageType
  <2> HIDE DEF G
  <2>4. config.garbage.separator \in Range(FirstChar) \cup {"-"}
    BY <2>2, <2>3 DEF Typed
  <2> QED
    BY <2>4, PanicAssumption
<1> QED
  BY <1>1, TypeCorrect, PTL

-----------------------------------------------------------------------------
(* An edit takes nothing away, so what was refused still is.               *)

LEMMA ConcatRight ==
  ASSUME NEW S, NEW c \in Seq(S), NEW b \in Seq(S), NEW j \in 1..Len(b)
  PROVE  (c \o b)[Len(c) + j] = b[j]
  OBVIOUS

\* What InsertAt makes of a sequence.
LEMMA InsertFacts ==
  ASSUME NEW S, NEW seq \in Seq(S), NEW i \in Positions(seq), NEW x \in S, NEW new, new = InsertAt(seq, i, x)
  PROVE  /\ Len(new) = Len(seq) + 1
         /\ new[i] = x
         /\ \A p \in 1..(i-1) : new[p] = seq[p]
         /\ \A p \in i..Len(seq) : new[p+1] = seq[p]
<1> DEFINE a == SubSeq(seq, 1, i - 1)
           b == SubSeq(seq, i, Len(seq))
<1>1. i \in 1..(Len(seq) + 1) /\ Len(seq) \in Nat
  BY DEF Positions
<1>2. a \in Seq(S) /\ Len(a) = i - 1 /\ \A p \in 1..(i-1) : a[p] = seq[p]
  BY <1>1
<1>3. b \in Seq(S) /\ Len(b) = Len(seq) - i + 1 /\ \A p \in 1..(Len(seq) - i + 1) : b[p] = seq[i + p - 1]
  BY <1>1
<1>4. new = (a \o <<x>>) \o b
  BY DEF InsertAt
<1> HIDE DEF a, b
<1> DEFINE c == a \o <<x>>
<1>5. c \in Seq(S) /\ Len(c) = i /\ c[i] = x /\ \A p \in 1..(i-1) : c[p] = seq[p]
  BY <1>1, <1>2
<1> HIDE DEF c
<1>6. new = c \o b
  BY <1>4 DEF c
<1>7. Len(new) = Len(seq) + 1
  BY <1>1, <1>3, <1>5, <1>6
<1>8. \A p \in 1..i : new[p] = c[p]
  BY <1>1, <1>3, <1>5, <1>6
<1>9. new[i] = x /\ \A p \in 1..(i-1) : new[p] = seq[p]
  BY <1>1, <1>5, <1>8
<1>10. ASSUME NEW p \in i..Len(seq) PROVE new[p+1] = seq[p]
  <2>1. p + 1 - i \in 1..Len(b) /\ p + 1 \in 1..(Len(c) + Len(b)) /\ p + 1 > Len(c)
    BY <1>1, <1>3, <1>5
  <2> DEFINE j == p + 1 - i
  <2>2. j \in 1..Len(b) /\ Len(c) + j = p + 1
    BY <1>5, <2>1
  <2> HIDE DEF j
  <2>5. (c \o b)[Len(c) + j] = b[j]
    BY <1>3, <1>5, <2>2, ConcatRight
  <2>4. new[p+1] = b[p + 1 - i]
    <3>1. new[p+1] = b[j]
      BY <1>6, <2>2, <2>5
    <3> QED
      BY <3>1 DEF j
  <2>3. i + (p + 1 - i) - 1 = p
    BY <1>1
  <2> QED
    BY <1>3, <2>1, <2>3, <2>4
<1> QED
  BY <1>7, <1>9, <1>10

\* Nothing that was there is lost.
LEMMA InsertMore ==
  ASSUME NEW S, NEW seq \in Seq(S), NEW i \in Positions(seq), NEW x \in S
  PROVE  \A p \in 1..Len(seq) : \E q \in 1..Len(InsertAt(seq, i, x)) : seq[p] = InsertAt(seq, i, x)[q]
<1> DEFINE new == InsertAt(seq, i, x)
<1>1. /\ Len(new) = Len(seq) + 1
      /\ \A p \in 1..(i-1) : new[p] = seq[p]
      /\ \A p \in i..Len(seq) : new[p+1] = seq[p]
  BY InsertFacts
<1>2. i \in 1..(Len(seq) + 1) /\ Len(seq) \in Nat
  BY DEF Positions
<1> HIDE DEF new
<1> SUFFICES ASSUME NEW p \in 1..Len(seq) PROVE \E q \in 1..Len(new) : seq[p] = new[q]
  BY DEF new
<1>3. CASE p < i
  BY <1>1, <1>2, <1>3
<1>4. CASE p >= i
  <2>1. p + 1 \in 1..Len(new) /\ seq[p] = new[p+1]
    BY <1>1, <1>2, <1>4
  <2> QED
    BY <2>1
<1> QED
  BY <1>2, <1>3, <1>4

LEMMA MoreSame ==
  ASSUME NEW n
  PROVE  MoreLine(n, n) /\ MoreBlock(n, n)
<1>1. \A x : MoreLine(x, x)
  BY DEF MoreLine
<1> QED
  BY <1>1 DEF MoreBlock

LEMMA LineMore ==
  ASSUME NEW d \in Seq(BlockIn(Int)), NEW k \in 1..Len(d), NEW i, i \in Positions(d[k].children),
         NEW l \in LineIn(Int), NEW e, e = WithLine(d, k, i, l)
  PROVE  MoreDoc(d, e)
<1> DEFINE c == d[k].children
           a == e[k].children
<1>1. /\ Len(e) = Len(d)
      /\ \A q \in 1..Len(d) : q # k => e[q] = d[q]
      /\ e[k].name = d[k].name /\ e[k].entries = d[k].entries
      /\ d[k].children \in Seq(LineIn(Int))
      /\ e[k].children = InsertAt(d[k].children, i, l)
  BY WithLineIs
<1>2. c \in Seq(LineIn(Int)) /\ a = InsertAt(c, i, l) /\ i \in Positions(c)
  BY <1>1
<1> HIDE DEF c, a
<1>3. \A p \in 1..Len(c) : \E q \in 1..Len(a) : c[p] = a[q]
  <2>1. \A p \in 1..Len(c) : \E q \in 1..Len(InsertAt(c, i, l)) : c[p] = InsertAt(c, i, l)[q]
    <3>1. PICK S : S = LineIn(Int)
      OBVIOUS
    <3>2. c \in Seq(S) /\ i \in Positions(c) /\ l \in S
      BY <1>2, <3>1
    <3> QED
      BY <3>2, InsertMore
  <2>2. a = InsertAt(c, i, l)
    BY <1>2
  <2> QED
    BY <2>1, <2>2, Zenon
<1>4. ASSUME NEW p \in 1..Len(c) PROVE \E q \in 1..Len(a) : MoreLine(c[p], a[q])
  <2>1. PICK q \in 1..Len(a) : c[p] = a[q]
    BY <1>3
  <2>2. MoreLine(c[p], c[p])
    BY MoreSame
  <2> QED
    BY <2>1, <2>2, Zenon
<1>5. MoreBlock(d[k], e[k])
  BY <1>1, <1>4 DEF MoreBlock, c, a
<1>6. \A q \in 1..Len(d) : MoreBlock(d[q], e[q])
  BY <1>1, <1>5, MoreSame
<1> QED
  BY <1>1, <1>6 DEF MoreDoc

LEMMA InsertMoreLine ==
  ASSUME NEW S, NEW n, NEW m, n.name = m.name, n.entries = m.entries, n.children \in Seq(S),
         NEW i \in Positions(n.children), NEW x \in S, m.children = InsertAt(n.children, i, x)
  PROVE  MoreLine(n, m)
<1> DEFINE c == n.children
<1>1. c \in Seq(S) /\ i \in Positions(c) /\ m.children = InsertAt(c, i, x)
  OBVIOUS
<1> HIDE DEF c
<1>2. \A p \in 1..Len(c) : \E q \in 1..Len(InsertAt(c, i, x)) : c[p] = InsertAt(c, i, x)[q]
  BY <1>1, InsertMore
<1> QED
  BY <1>1, <1>2 DEF MoreLine, c

LEMMA NestedMore ==
  ASSUME NEW d \in Seq(BlockIn(Int)), NEW k \in 1..Len(d), NEW j, j \in 1..Len(d[k].children),
         NEW i, i \in Positions(d[k].children[j].children),
         NEW l \in NestedIn(Int), NEW e, e = WithNested(d, k, j, i, l)
  PROVE  MoreDoc(d, e)
<1>1. /\ e \in Seq(BlockIn(Int)) /\ Len(e) = Len(d)
      /\ \A q \in 1..Len(d) : q # k => e[q] = d[q]
      /\ e[k].name = d[k].name /\ e[k].entries = d[k].entries
      /\ d[k].children \in Seq(LineIn(Int)) /\ e[k].children \in Seq(LineIn(Int))
      /\ Len(e[k].children) = Len(d[k].children)
      /\ \A q \in 1..Len(d[k].children) : q # j => e[k].children[q] = d[k].children[q]
      /\ e[k].children[j].name = d[k].children[j].name
      /\ e[k].children[j].entries = d[k].children[j].entries
      /\ d[k].children[j].children \in Seq(NestedIn(Int))
      /\ e[k].children[j].children = InsertAt(d[k].children[j].children, i, l)
  <2>1. NestedEdit(d, e, k, j, i, l)
    BY WithNestedIs
  <2> QED
    BY <2>1 DEF NestedEdit
<1> DEFINE c == d[k].children
           a == e[k].children
<1>4. MoreLine(c[j], a[j])
  <2> DEFINE n == c[j]
             m == a[j]
             S == NestedIn(Int)
  <2>1. /\ n.name = m.name /\ n.entries = m.entries /\ n.children \in Seq(S)
        /\ i \in Positions(n.children) /\ l \in S /\ m.children = InsertAt(n.children, i, l)
    BY <1>1
  <2> HIDE DEF n, m, S
  <2>2. MoreLine(n, m)
    BY <2>1, InsertMoreLine
  <2> QED
    BY <2>2 DEF n, m
<1> HIDE DEF c, a
<1>5. \A p \in 1..Len(c) : MoreLine(c[p], a[p])
  BY <1>1, <1>4, MoreSame DEF c, a
<1>6. MoreBlock(d[k], e[k])
  BY <1>1, <1>5 DEF MoreBlock, c, a
<1>7. \A q \in 1..Len(d) : MoreBlock(d[q], e[q])
  BY <1>1, <1>6, MoreSame
<1> QED
  BY <1>1, <1>7 DEF MoreDoc

\* An edit takes nothing away.
LEMMA NextMore ==
  ASSUME doc \in Seq(BlockIn(Int)), Next
  PROVE  MoreDoc(doc, doc')
<1>1. ASSUME NEW b \in BlockIn(Int), NEW i \in Positions(doc), doc' = InsertAt(doc, i, b)
      PROVE  MoreDoc(doc, doc')
  <2>1. \A p \in 1..Len(doc) : \E q \in 1..Len(doc') : doc[p] = doc'[q]
    BY <1>1, InsertMore
  <2> QED
    BY <2>1, MoreSame DEF MoreDoc
<1>2. ASSUME NEW k \in 1..Len(doc), NEW l \in Lines, NEW i \in Positions(doc[k].children),
             doc' = WithLine(doc, k, i, l)
      PROVE  MoreDoc(doc, doc')
  <2>1. l \in LineIn(Int)
    BY WritableLine
  <2>2. \A e : e = WithLine(doc, k, i, l) => MoreDoc(doc, e)
    BY <2>1, LineMore
  <2> QED
    BY <1>2, <2>2
<1>3. ASSUME NEW k \in 1..Len(doc), NEW l \in NestedLines, NEW j \in 1..Len(doc[k].children),
             NEW i \in Positions(doc[k].children[j].children), doc' = WithNested(doc, k, j, i, l)
      PROVE  MoreDoc(doc, doc')
  <2>1. l \in NestedIn(Int)
    BY WritableNested
  <2>2. \A e : e = WithNested(doc, k, j, i, l) => MoreDoc(doc, e)
    BY <2>1, NestedMore
  <2> QED
    BY <1>3, <2>2
<1> QED
  BY <1>1, <1>2, <1>3, Edits

\* An edit of a refused file leaves it refused: the lines it had are all there.
THEOREM RefusalFinal == Spec => RefusalIsFinal
<1>1. DocInv /\ [Next]_vars => [config = Refused => config' = Refused]_vars
  <2>1. ASSUME DocInv, Next, config = Refused PROVE config' = Refused
    <3>1. doc' \in Seq(BlockIn(Int)) /\ config' = ParseDoc(doc')
      BY <2>1, NextDoc DEF DocInv
    <3>2. MoreDoc(doc, doc')
      BY <2>1, NextMore DEF DocInv
    <3> QED
      BY <2>1, <3>1, <3>2, DocRefused DEF DocInv
  <2> QED
    BY <2>1
<1> QED
  BY <1>1, Invariance, PTL DEF Spec, RefusalIsFinal

-----------------------------------------------------------------------------
(* Two files that differ in one node are read side by side.  R is what the *)
(* sections, or configurations, have in common that are made of them.      *)

\* Where either has been refused nothing is asked of the other.
Lenient(R, G) == \A s \in OrRefused(G) : <<Refused, s>> \in R /\ <<s, Refused>> \in R

InStep(k, c, e, G, R) ==
  \A i \in 1..Len(c) : \A s, t \in G :
    <<s, t>> \in R => <<ReadBy(k, s, c[i]), ReadBy(k, t, e[i])>> \in R

\* A line that changes nothing R is about.
Passed(k, x, G, R) ==
  \A s, t \in G : <<s, t>> \in R => <<s, ReadBy(k, t, x)>> \in R

\* One more line read by each.
LEMMA BothRead ==
  ASSUME NEW k, NEW G, NEW R, Lenient(R, G), NEW s \in OrRefused(G), NEW t \in OrRefused(G),
         NEW x, NEW y, NEW a, NEW b,
         \A u \in G : ReadBy(k, u, x) \in OrRefused(G) /\ ReadBy(k, u, y) \in OrRefused(G),
         \A u, v \in G : <<u, v>> \in R => <<ReadBy(k, u, x), ReadBy(k, v, y)>> \in R,
         <<s, t>> \in R,
         a = IF s = Refused THEN Refused ELSE ReadBy(k, s, x),
         b = IF t = Refused THEN Refused ELSE ReadBy(k, t, y)
  PROVE  a \in OrRefused(G) /\ b \in OrRefused(G) /\ <<a, b>> \in R
<1>1. a \in OrRefused(G) /\ b \in OrRefused(G)
  BY DEF OrRefused
<1>2. CASE s = Refused
  BY <1>1, <1>2 DEF Lenient
<1>3. CASE t = Refused
  BY <1>1, <1>3 DEF Lenient
<1>4. CASE s # Refused /\ t # Refused
  BY <1>4 DEF OrRefused
<1> QED
  BY <1>2, <1>3, <1>4

\* One read by the second alone.
LEMMA OneReads ==
  ASSUME NEW k, NEW G, NEW R, Lenient(R, G), NEW s \in OrRefused(G), NEW t \in OrRefused(G),
         NEW x, NEW a, \A u \in G : ReadBy(k, u, x) \in OrRefused(G),
         Passed(k, x, G, R), <<s, t>> \in R,
         a = IF t = Refused THEN Refused ELSE ReadBy(k, t, x)
  PROVE  a \in OrRefused(G) /\ <<s, a>> \in R
<1>1. a \in OrRefused(G)
  BY DEF OrRefused
<1>2. CASE s = Refused
  BY <1>1, <1>2 DEF Lenient
<1>3. CASE t = Refused
  BY <1>3 DEF Lenient
<1>4. CASE s # Refused /\ t # Refused
  BY <1>4 DEF OrRefused, Passed
<1> QED
  BY <1>1, <1>2, <1>3, <1>4

Paired(f, i, h, j, G, R) ==
  f[i] \in OrRefused(G) /\ h[j] \in OrRefused(G) /\ <<f[i], h[j]>> \in R

LEMMA PairedStep ==
  ASSUME NEW k, NEW G, NEW R, Lenient(R, G), NEW c, NEW e, Reader(k, c, G), Reader(k, e, G),
         NEW b, NEW d, NEW f, Reads(f, k, b, c), NEW h, Reads(h, k, d, e),
         NEW i \in 1..Len(c), NEW j \in 1..Len(e), Paired(f, i - 1, h, j - 1, G, R),
         \A u, v \in G : <<u, v>> \in R => <<ReadBy(k, u, c[i]), ReadBy(k, v, e[j])>> \in R
  PROVE  Paired(f, i, h, j, G, R)
<1> DEFINE s == f[i-1]
           t == h[j-1]
<1>1. /\ f[i] = IF s = Refused THEN Refused ELSE ReadBy(k, s, c[i])
      /\ h[j] = IF t = Refused THEN Refused ELSE ReadBy(k, t, e[j])
  BY ReadsAt DEF Reader
<1>2. \A u \in G : ReadBy(k, u, c[i]) \in OrRefused(G) /\ ReadBy(k, u, e[j]) \in OrRefused(G)
  BY DEF Reader
<1>3. s \in OrRefused(G) /\ t \in OrRefused(G) /\ <<s, t>> \in R
  BY DEF Paired
<1> HIDE DEF s, t
<1> QED
  BY <1>1, <1>2, <1>3, BothRead DEF Paired

\* Files of the same length.
LEMMA AfterInStep ==
  ASSUME NEW k, NEW G, NEW R, Lenient(R, G), NEW c, NEW e, Reader(k, c, G), Reader(k, e, G),
         Len(c) = Len(e), InStep(k, c, e, G, R),
         NEW b \in OrRefused(G), NEW d \in OrRefused(G), <<b, d>> \in R
  PROVE  <<After(k, b, c), After(k, d, e)>> \in R
<1>1. Len(c) \in Nat /\ Len(e) = Len(c)
  BY DEF Reader
<1>2. PICK f : Reads(f, k, b, c)
  BY AfterTyped
<1>3. PICK h : Reads(h, k, d, e)
  BY AfterTyped
<1> DEFINE m == Len(c)
           T == {i \in 0..m : Paired(f, i, h, i, G, R)}
<1>4. 0 \in T
  <2>1. f[0] = b /\ h[0] = d
    BY <1>1, <1>2, <1>3, ReadsAt
  <2> QED
    BY <1>1, <2>1 DEF Paired
<1>5. ASSUME NEW i \in 0..(m-1), i \in T PROVE i + 1 \in T
  <2> DEFINE j == i + 1
  <2>1. j \in 1..Len(c) /\ j \in 1..Len(e) /\ j - 1 = i /\ j \in 0..m
    BY <1>1
  <2>2. Paired(f, j - 1, h, j - 1, G, R)
    BY <1>5, <2>1
  <2> HIDE DEF j
  <2>3. \A u, v \in G : <<u, v>> \in R => <<ReadBy(k, u, c[j]), ReadBy(k, v, e[j])>> \in R
    BY <2>1 DEF InStep
  <2>4. Paired(f, j, h, j, G, R)
    BY <1>2, <1>3, <2>1, <2>2, <2>3, PairedStep
  <2> QED
    BY <2>1, <2>4 DEF j
<1>6. m \in T
  <2> HIDE DEF T
  <2> QED
    BY <1>1, <1>4, <1>5, InductionTo
<1>7. <<f[Len(c)], h[Len(e)]>> \in R
  BY <1>1, <1>6 DEF Paired
<1> QED
  BY <1>1, <1>2, <1>3, <1>7, ReadsAfter

\* One line more.
LEMMA AfterInserted ==
  ASSUME NEW k, NEW G, NEW R, Lenient(R, G), NEW c, NEW e, Reader(k, c, G), Reader(k, e, G),
         InStep(k, c, c, G, R), NEW p \in 1..Len(e), Len(e) = Len(c) + 1,
         \A i \in 1..(p-1) : e[i] = c[i], \A i \in p..Len(c) : e[i+1] = c[i],
         Passed(k, e[p], G, R),
         NEW b \in OrRefused(G), NEW d \in OrRefused(G), <<b, d>> \in R
  PROVE  <<After(k, b, c), After(k, d, e)>> \in R
<1>1. Len(c) \in Nat /\ Len(e) \in Nat /\ p \in Int
  BY DEF Reader
<1>2. PICK f : Reads(f, k, b, c)
  BY AfterTyped
<1>3. PICK h : Reads(h, k, d, e)
  BY AfterTyped
<1> DEFINE m == Len(e)
           T == {i \in 0..m : /\ i < p => Paired(f, i, h, i, G, R)
                              /\ i >= p => Paired(f, i - 1, h, i, G, R)}
<1>4. 0 \in T
  <2>1. f[0] = b /\ h[0] = d
    BY <1>1, <1>2, <1>3, ReadsAt
  <2> QED
    BY <1>1, <2>1 DEF Paired
<1>5. ASSUME NEW i \in 0..(m-1), i \in T PROVE i + 1 \in T
  <2> DEFINE j == i + 1
  <2>1. j \in 1..Len(e) /\ j - 1 = i /\ j \in 0..m
    BY <1>1
  <2>2. CASE j < p
    <3>1. j \in 1..Len(c) /\ e[j] = c[j] /\ Paired(f, j - 1, h, j - 1, G, R)
      BY <1>1, <1>5, <2>1, <2>2
    <3> HIDE DEF j
    <3>2. \A u, v \in G : <<u, v>> \in R => <<ReadBy(k, u, c[j]), ReadBy(k, v, e[j])>> \in R
      BY <3>1 DEF InStep
    <3>3. Paired(f, j, h, j, G, R)
      BY <1>2, <1>3, <2>1, <3>1, <3>2, PairedStep
    <3>4. ~(j >= p)
      BY <1>1, <2>1, <2>2
    <3> QED
      BY <2>1, <3>3, <3>4 DEF j
  <2>3. CASE j = p
    <3>1. Paired(f, i, h, i, G, R)
      BY <1>1, <1>5, <2>3
    <3>2. h[p] = IF h[i] = Refused THEN Refused ELSE ReadBy(k, h[i], e[p])
      BY <1>1, <1>3, <2>1, <2>3, ReadsAt
    <3>3. f[i] \in OrRefused(G) /\ h[i] \in OrRefused(G) /\ <<f[i], h[i]>> \in R
      BY <3>1 DEF Paired
    <3>4. \A u \in G : ReadBy(k, u, e[p]) \in OrRefused(G)
      BY DEF Reader
    <3> DEFINE u == f[i]
               v == h[p]
               w == h[i]
               x == e[p]
    <3>5. /\ v = IF w = Refused THEN Refused ELSE ReadBy(k, w, x)
          /\ u \in OrRefused(G) /\ w \in OrRefused(G) /\ <<u, w>> \in R
          /\ Passed(k, x, G, R) /\ \A y \in G : ReadBy(k, y, x) \in OrRefused(G)
      BY <3>2, <3>3, <3>4
    <3> HIDE DEF u, v, w, x
    <3>6. v \in OrRefused(G) /\ <<u, v>> \in R
      BY <3>5, OneReads
    <3>7. Paired(f, i, h, p, G, R)
      BY <3>5, <3>6 DEF Paired, u, v
    <3> QED
      BY <1>1, <2>1, <2>3, <3>7
  <2>4. CASE j > p
    <3>1. i \in 1..Len(c) /\ e[j] = c[i] /\ Paired(f, i - 1, h, j - 1, G, R)
      BY <1>1, <1>5, <2>1, <2>4
    <3> HIDE DEF j
    <3>2. \A u, v \in G : <<u, v>> \in R => <<ReadBy(k, u, c[i]), ReadBy(k, v, e[j])>> \in R
      BY <3>1 DEF InStep
    <3>3. Paired(f, i, h, j, G, R)
      BY <1>2, <1>3, <2>1, <3>1, <3>2, PairedStep
    <3>4. Paired(f, j - 1, h, j, G, R) /\ ~(j < p)
      BY <1>1, <2>1, <2>4, <3>3
    <3> QED
      BY <2>1, <3>4 DEF j
  <2> QED
    BY <1>1, <2>1, <2>2, <2>3, <2>4
<1>6. m \in T
  <2> HIDE DEF T
  <2> QED
    BY <1>1, <1>4, <1>5, InductionTo
<1>7. m >= p /\ m - 1 = Len(c)
  BY <1>1
<1>8. <<f[Len(c)], h[Len(e)]>> \in R
  BY <1>6, <1>7 DEF Paired
<1> QED
  BY <1>1, <1>2, <1>3, <1>8, ReadsAfter

-----------------------------------------------------------------------------
(* Each line makes of a setting something that depends on that setting     *)
(* alone, and changes only those it names.                                 *)

\* Unless either has been refused, both have the same in g.
Agree(s, t, g) ==
  s # Refused /\ t # Refused => g \in DOMAIN s /\ g \in DOMAIN t /\ s[g] = t[g]

LEMMA SetAt ==
  ASSUME NEW s, NEW f, NEW v, Set(s, f, v) # Refused
  PROVE  /\ s # Refused /\ v # Refused
         /\ DOMAIN Set(s, f, v) = DOMAIN s
         /\ \A g \in DOMAIN s : Set(s, f, v)[g] = IF g = f THEN v ELSE s[g]
<1> DEFINE t == [s EXCEPT ![f] = v]
<1>1. s # Refused /\ v # Refused /\ Set(s, f, v) = t
  BY DEF Set
<1>2. DOMAIN t = DOMAIN s /\ \A g \in DOMAIN s : t[g] = IF g = f THEN v ELSE s[g]
  OBVIOUS
<1> HIDE DEF t
<1> QED
  BY <1>1, <1>2

LEMMA SetSame ==
  ASSUME NEW s, NEW t, NEW g, Agree(s, t, g), NEW f, NEW v, NEW w, f = g => v = w
  PROVE  Agree(Set(s, f, v), Set(t, f, w), g)
<1> DEFINE a == Set(s, f, v)
           b == Set(t, f, w)
<1>1. SUFFICES ASSUME a # Refused, b # Refused
               PROVE  g \in DOMAIN a /\ g \in DOMAIN b /\ a[g] = b[g]
  BY DEF Agree
<1>2. /\ s # Refused /\ DOMAIN a = DOMAIN s
      /\ \A x \in DOMAIN s : a[x] = IF x = f THEN v ELSE s[x]
  BY <1>1, SetAt
<1>3. /\ t # Refused /\ DOMAIN b = DOMAIN t
      /\ \A x \in DOMAIN t : b[x] = IF x = f THEN w ELSE t[x]
  BY <1>1, SetAt
<1>4. g \in DOMAIN s /\ g \in DOMAIN t /\ s[g] = t[g]
  BY <1>2, <1>3 DEF Agree
<1> HIDE DEF a, b
<1>5. CASE f = g
  BY <1>2, <1>3, <1>4, <1>5
<1>6. CASE f # g
  BY <1>2, <1>3, <1>4, <1>6
<1> QED
  BY <1>5, <1>6

LEMMA SetPasses ==
  ASSUME NEW s, NEW t, NEW g, Agree(s, t, g), NEW f, NEW v, f # g \/ t[g] = v
  PROVE  Agree(s, Set(t, f, v), g)
<1> DEFINE b == Set(t, f, v)
<1>1. SUFFICES ASSUME s # Refused, b # Refused
               PROVE  g \in DOMAIN s /\ g \in DOMAIN b /\ s[g] = b[g]
  BY DEF Agree
<1>2. /\ t # Refused /\ DOMAIN b = DOMAIN t
      /\ \A x \in DOMAIN t : b[x] = IF x = f THEN v ELSE t[x]
  BY <1>1, SetAt
<1>3. g \in DOMAIN s /\ g \in DOMAIN t /\ s[g] = t[g]
  BY <1>1, <1>2 DEF Agree
<1> HIDE DEF b
<1>4. CASE f = g
  BY <1>2, <1>3, <1>4
<1>5. CASE f # g
  BY <1>2, <1>3, <1>5
<1> QED
  BY <1>4, <1>5

LEMMA MinMaxSame ==
  ASSUME NEW s, NEW t, NEW g, Agree(s, t, g), NEW n, NEW m, n.entries = m.entries, NEW min, NEW max
  PROVE  Agree(MinMax(s, n, min, max), MinMax(t, m, min, max), g)
<1>1. CASE s = Refused \/ t = Refused
  BY <1>1 DEF MinMax, Agree
<1>2. CASE s # Refused /\ t # Refused
  <2> DEFINE v == IntProp(n, "min", MaxUsize, s[min])
             w == IntProp(n, "max", MaxUsize, s[max])
             x == IntProp(m, "min", MaxUsize, t[min])
             y == IntProp(m, "max", MaxUsize, t[max])
  <2>1. s[g] = t[g]
    BY <1>2 DEF Agree
  <2>2. \A name, limit, old : IntProp(n, name, limit, old) = IntProp(m, name, limit, old)
    BY SameValues
  <2>3. (min = g => v = x) /\ (max = g => w = y)
    BY <2>1, <2>2
  <2>4. MinMax(s, n, min, max) = Set(Set(s, min, v), max, w)
    BY <1>2 DEF MinMax
  <2>5. MinMax(t, m, min, max) = Set(Set(t, min, x), max, y)
    BY <1>2 DEF MinMax
  <2> HIDE DEF v, w, x, y
  <2>6. Agree(Set(s, min, v), Set(t, min, x), g)
    BY <2>3, SetSame
  <2>7. Agree(Set(Set(s, min, v), max, w), Set(Set(t, min, x), max, y), g)
    BY <2>3, <2>6, SetSame
  <2> QED
    BY <2>4, <2>5, <2>7
<1> QED
  BY <1>1, <1>2

LEMMA MinMaxPasses ==
  ASSUME NEW s, NEW t, NEW g, Agree(s, t, g), NEW n, NEW min, NEW max, g # min, g # max
  PROVE  Agree(s, MinMax(t, n, min, max), g)
<1>1. CASE t = Refused
  BY <1>1 DEF MinMax, Agree
<1>2. CASE t # Refused
  <2> DEFINE v == IntProp(n, "min", MaxUsize, t[min])
             w == IntProp(n, "max", MaxUsize, t[max])
  <2>1. MinMax(t, n, min, max) = Set(Set(t, min, v), max, w)
    BY <1>2 DEF MinMax
  <2> HIDE DEF v, w
  <2>2. Agree(s, Set(t, min, v), g)
    BY SetPasses
  <2> QED
    BY <2>1, <2>2, SetPasses
<1> QED
  BY <1>1, <1>2

-----------------------------------------------------------------------------
(* Lines of lines.                                                         *)

LEMMA AgentsSame ==
  ASSUME NEW s, NEW t, NEW g, Agree(s, t, g), NEW n
  PROVE  /\ Agree(AgentsLine(s, n), AgentsLine(t, n), g)
         /\ g \notin NestedFields("user-agents", n) => Agree(s, AgentsLine(t, n), g)
<1>1. \A f, v : Agree(Set(s, f, v), Set(t, f, v), g)
  BY SetSame
<1>2. \A f, v : f # g => Agree(s, Set(t, f, v), g)
  BY SetPasses
<1>3. CASE n.name = "robots-json-path"
  BY <1>1, <1>2, <1>3 DEF AgentsLine, NestedFields
<1>4. CASE n.name = "unwanted"
  BY <1>1, <1>2, <1>4 DEF AgentsLine, NestedFields
<1>5. CASE n.name = "trusted"
  BY <1>1, <1>2, <1>5 DEF AgentsLine, NestedFields
<1>6. CASE n.name \notin {"robots-json-path", "unwanted", "trusted"}
  BY <1>6 DEF AgentsLine
<1> QED
  BY <1>3, <1>4, <1>5, <1>6

LEMMA AsnsSame ==
  ASSUME NEW s, NEW t, NEW g, Agree(s, t, g), NEW n
  PROVE  /\ Agree(AsnsLine(s, n), AsnsLine(t, n), g)
         /\ g \notin NestedFields("asns", n) => Agree(s, AsnsLine(t, n), g)
<1>1. \A f, v : Agree(Set(s, f, v), Set(t, f, v), g)
  BY SetSame
<1>2. \A f, v : f # g => Agree(s, Set(t, f, v), g)
  BY SetPasses
<1>3. CASE n.name = "database"
  BY <1>1, <1>2, <1>3 DEF AsnsLine, NestedFields
<1>4. CASE n.name = "unwanted"
  BY <1>1, <1>2, <1>4 DEF AsnsLine, NestedFields
<1>5. CASE n.name \notin {"database", "unwanted"}
  BY <1>5 DEF AsnsLine
<1> QED
  BY <1>3, <1>4, <1>5

LEMMA ParagraphsSame ==
  ASSUME NEW s, NEW t, NEW g, Agree(s, t, g), NEW n
  PROVE  /\ Agree(ParagraphsLine(s, n), ParagraphsLine(t, n), g)
         /\ g \notin NestedFields("paragraphs", n) => Agree(s, ParagraphsLine(t, n), g)
<1>1. CASE n.name = "words"
  <2>1. Agree(MinMax(s, n, "paraWordsMin", "paraWordsMax"), MinMax(t, n, "paraWordsMin", "paraWordsMax"), g)
    BY MinMaxSame
  <2>2. g \notin {"paraWordsMin", "paraWordsMax"}
          => Agree(s, MinMax(t, n, "paraWordsMin", "paraWordsMax"), g)
    BY MinMaxPasses
  <2> QED
    BY <1>1, <2>1, <2>2 DEF ParagraphsLine, NestedFields
<1>2. CASE n.name # "words"
  BY <1>2 DEF ParagraphsLine
<1> QED
  BY <1>1, <1>2

LEMMA LinksSame ==
  ASSUME NEW s, NEW t, NEW g, Agree(s, t, g), NEW n
  PROVE  /\ Agree(LinksLine(s, n), LinksLine(t, n), g)
         /\ g \notin NestedFields("links", n) => Agree(s, LinksLine(t, n), g)
<1>1. \A f, v : Agree(Set(s, f, v), Set(t, f, v), g)
  BY SetSame
<1>2. \A f, v : f # g => Agree(s, Set(t, f, v), g)
  BY SetPasses
<1>3. CASE n.name = "words"
  <2>1. Agree(MinMax(s, n, "linkWordsMin", "linkWordsMax"), MinMax(t, n, "linkWordsMin", "linkWordsMax"), g)
    BY MinMaxSame
  <2>2. g \notin {"linkWordsMin", "linkWordsMax"}
          => Agree(s, MinMax(t, n, "linkWordsMin", "linkWordsMax"), g)
    BY MinMaxPasses
  <2> QED
    BY <1>3, <2>1, <2>2 DEF LinksLine, NestedFields
<1>4. CASE n.name = "separator"
  BY <1>1, <1>2, <1>4 DEF LinksLine, NestedFields
<1>5. CASE n.name = "trailing-slash"
  BY <1>1, <1>2, <1>5 DEF LinksLine, NestedFields
<1>6. CASE n.name \notin {"words", "separator", "trailing-slash"}
  BY <1>6 DEF LinksLine
<1> QED
  BY <1>3, <1>4, <1>5, <1>6

Agreeing(G, g) == {p \in OrRefused(G) \X OrRefused(G) : Agree(p[1], p[2], g)}

LEMMA AgreeingIs ==
  ASSUME NEW G, NEW g
  PROVE  /\ Lenient(Agreeing(G, g), G)
         /\ \A s, t \in OrRefused(G) : Agree(s, t, g) => <<s, t>> \in Agreeing(G, g)
         /\ \A s, t : <<s, t>> \in Agreeing(G, g) => Agree(s, t, g)
<1>1. \A s, t \in OrRefused(G) : Agree(s, t, g) => <<s, t>> \in Agreeing(G, g)
  BY DEF Agreeing
<1>2. \A s, t : <<s, t>> \in Agreeing(G, g) => Agree(s, t, g)
  BY DEF Agreeing
<1>3. \A s : Agree(s, Refused, g) /\ Agree(Refused, s, g)
  BY DEF Agree
<1>4. Refused \in OrRefused(G)
  BY DEF OrRefused
<1>5. Lenient(Agreeing(G, g), G)
  BY <1>1, <1>3, <1>4 DEF Lenient
<1> QED
  BY <1>1, <1>2, <1>5

\* A line that is the other, or has one line more that does not name g.
LineEdit(n, m, g) ==
  /\ n.name = m.name /\ n.entries = m.entries
  /\ \/ m.children = n.children
     \/ \E x \in NestedIn(Int), i \in Positions(n.children) :
          m.children = InsertAt(n.children, i, x) /\ g \notin NestedFields(n.name, x)

\* A reader of the lines of such a line.
Fieldwise(k, line, g, G) ==
  \A x : \A s, t \in G : Agree(s, t, g) =>
    /\ Agree(ReadBy(k, s, x), ReadBy(k, t, x), g)
    /\ g \notin NestedFields(line, x) => Agree(s, ReadBy(k, t, x), g)

LEMMA AgreeInStep ==
  ASSUME NEW k, NEW G, NEW g, NEW c, NEW e, Reader(k, c, G), Reader(k, e, G), Len(c) = Len(e),
         \A i \in 1..Len(c) : \A s, t \in G :
           Agree(s, t, g) => Agree(ReadBy(k, s, c[i]), ReadBy(k, t, e[i]), g)
  PROVE  InStep(k, c, e, G, Agreeing(G, g))
<1> SUFFICES ASSUME NEW i \in 1..Len(c), NEW s \in G, NEW t \in G, <<s, t>> \in Agreeing(G, g)
             PROVE  <<ReadBy(k, s, c[i]), ReadBy(k, t, e[i])>> \in Agreeing(G, g)
  BY DEF InStep
<1>1. Agree(s, t, g)
  BY AgreeingIs
<1>2. Agree(ReadBy(k, s, c[i]), ReadBy(k, t, e[i]), g)
  BY <1>1
<1>3. ReadBy(k, s, c[i]) \in OrRefused(G) /\ ReadBy(k, t, e[i]) \in OrRefused(G)
  BY DEF Reader
<1> QED
  BY <1>2, <1>3, AgreeingIs

LEMMA AfterSame ==
  ASSUME NEW k, NEW G, NEW g, NEW c, NEW e, Reader(k, c, G), Reader(k, e, G), Len(c) = Len(e),
         \A i \in 1..Len(c) : \A s, t \in G :
           Agree(s, t, g) => Agree(ReadBy(k, s, c[i]), ReadBy(k, t, e[i]), g),
         NEW b \in OrRefused(G), NEW d \in OrRefused(G), Agree(b, d, g)
  PROVE  Agree(After(k, b, c), After(k, d, e), g)
<1> DEFINE R == Agreeing(G, g)
<1>1. InStep(k, c, e, G, R)
  BY AgreeInStep
<1>2. Lenient(R, G) /\ <<b, d>> \in R
  BY AgreeingIs
<1> HIDE DEF R
<1>3. <<After(k, b, c), After(k, d, e)>> \in R
  BY <1>1, <1>2, AfterInStep
<1> QED
  BY <1>3, AgreeingIs DEF R

LEMMA AfterMore ==
  ASSUME NEW k, NEW G, NEW g, NEW S, NEW c \in Seq(S), NEW i \in Positions(c), NEW x \in S,
         NEW e, e = InsertAt(c, i, x), Reader(k, c, G), Reader(k, e, G),
         \A j \in 1..Len(c) : \A s, t \in G :
           Agree(s, t, g) => Agree(ReadBy(k, s, c[j]), ReadBy(k, t, c[j]), g),
         \A s, t \in G : Agree(s, t, g) => Agree(s, ReadBy(k, t, x), g),
         NEW b \in OrRefused(G), NEW d \in OrRefused(G), Agree(b, d, g)
  PROVE  Agree(After(k, b, c), After(k, d, e), g)
<1> DEFINE R == Agreeing(G, g)
<1>1. InStep(k, c, c, G, R)
  BY AgreeInStep
<1>2. Lenient(R, G) /\ <<b, d>> \in R
  BY AgreeingIs
<1>3. /\ Len(e) = Len(c) + 1 /\ e[i] = x
      /\ \A p \in 1..(i-1) : e[p] = c[p]
      /\ \A p \in i..Len(c) : e[p+1] = c[p]
  BY InsertFacts
<1>4. i \in 1..Len(e)
  BY <1>3 DEF Positions
<1>5. Passed(k, x, G, R)
  <2> SUFFICES ASSUME NEW s \in G, NEW t \in G, <<s, t>> \in Agreeing(G, g)
               PROVE  <<s, ReadBy(k, t, x)>> \in Agreeing(G, g)
    BY DEF Passed
  <2>1. Agree(s, ReadBy(k, t, x), g)
    BY AgreeingIs
  <2>2. ReadBy(k, t, x) \in OrRefused(G) /\ s \in OrRefused(G)
    BY <1>3, <1>4 DEF Reader, OrRefused
  <2> QED
    BY <2>1, <2>2, AgreeingIs
<1> HIDE DEF R
<1>6. Passed(k, e[i], G, R)
  BY <1>3, <1>5
<1>7. <<After(k, b, c), After(k, d, e)>> \in R
  BY <1>1, <1>2, <1>3, <1>4, <1>6, AfterInserted
<1> QED
  BY <1>7, AgreeingIs DEF R

LEMMA NestedSame ==
  ASSUME NEW k, NEW G, NEW g, NEW n \in LineIn(Int), NEW m \in LineIn(Int), LineEdit(n, m, g),
         Reader(k, n.children, G), Reader(k, m.children, G), Fieldwise(k, n.name, g, G),
         NEW b \in OrRefused(G), NEW d \in OrRefused(G), Agree(b, d, g)
  PROVE  Agree(After(k, b, n.children), After(k, d, m.children), g)
<1> DEFINE c == n.children
           e == m.children
           S == NestedIn(Int)
<1>1. c \in Seq(S)
  BY DEF LineIn
<1>2. \A x : \A s, t \in G : Agree(s, t, g) => Agree(ReadBy(k, s, x), ReadBy(k, t, x), g)
  BY DEF Fieldwise
<1>3. CASE e = c
  <2> HIDE DEF c, e
  <2>1. Reader(k, c, G) /\ Reader(k, e, G) /\ Len(c) = Len(e)
    BY <1>3 DEF c, e
  <2>2. \A i \in 1..Len(c) : \A s, t \in G :
          Agree(s, t, g) => Agree(ReadBy(k, s, c[i]), ReadBy(k, t, e[i]), g)
    BY <1>2, <1>3
  <2>3. Agree(After(k, b, c), After(k, d, e), g)
    BY <2>1, <2>2, AfterSame
  <2> QED
    BY <2>3 DEF c, e
<1>4. ASSUME NEW x \in S, NEW i \in Positions(c), e = InsertAt(c, i, x),
             g \notin NestedFields(n.name, x)
      PROVE  Agree(After(k, b, c), After(k, d, e), g)
  <2>1. \A s, t \in G : Agree(s, t, g) => Agree(s, ReadBy(k, t, x), g)
    BY <1>4 DEF Fieldwise
  <2>2. Reader(k, c, G) /\ Reader(k, e, G)
    OBVIOUS
  <2> HIDE DEF c, e, S
  <2>3. \A j \in 1..Len(c) : \A s, t \in G :
          Agree(s, t, g) => Agree(ReadBy(k, s, c[j]), ReadBy(k, t, c[j]), g)
    BY <1>2
  <2> QED
    BY <1>1, <1>4, <2>1, <2>2, <2>3, AfterMore
<1>5. \/ e = c
      \/ \E x \in S, i \in Positions(c) : e = InsertAt(c, i, x) /\ g \notin NestedFields(n.name, x)
  BY DEF LineEdit
<1> QED
  BY <1>3, <1>4, <1>5

-----------------------------------------------------------------------------
(* Lines.                                                                  *)

LEMMA AfterNone ==
  ASSUME NEW k, NEW G, NEW b \in OrRefused(G)
  PROVE  After(k, b, <<>>) = b
<1> DEFINE c == <<>>
<1>1. Len(c) = 0
  OBVIOUS
<1>2. Reader(k, c, G)
  BY <1>1 DEF Reader
<1> HIDE DEF c
<1>3. PICK f : Reads(f, k, b, c)
  BY <1>2, AfterTyped
<1>4. f[0] = b /\ f[0] = After(k, b, c)
  BY <1>1, <1>3, ReadsAt, ReadsAfter
<1> QED
  BY <1>4 DEF c

LEMMA ClassifierSame ==
  ASSUME NEW n \in LineIn(Int), NEW m \in LineIn(Int), NEW g, LineEdit(n, m, g),
         NEW s \in Typed(ClassifierType(Int)), NEW t \in Typed(ClassifierType(Int)), Agree(s, t, g)
  PROVE  Agree(ClassifierLine(s, n), ClassifierLine(t, m), g)
<1> DEFINE G == Typed(ClassifierType(Int))
<1>1. n.children \in Seq(NestedIn(Int)) /\ m.children \in Seq(NestedIn(Int))
  BY DEF LineIn
<1>2. m.name = n.name /\ OneOf(HeaderNames, m) = OneOf(HeaderNames, n) /\ StringSeq(m) = StringSeq(n)
  BY SameValues DEF LineEdit
<1>3. s \in OrRefused(G) /\ t \in OrRefused(G)
  BY DEF OrRefused
<1>4. /\ Reader("user-agents", n.children, G) /\ Reader("user-agents", m.children, G)
      /\ Children(n, s, AgentsLine) = After("user-agents", s, n.children)
      /\ Children(m, t, AgentsLine) = After("user-agents", t, m.children)
  BY <1>1, <1>3, AgentsLinesType
<1>5. /\ Reader("asns", n.children, G) /\ Reader("asns", m.children, G)
      /\ Children(n, s, AsnsLine) = After("asns", s, n.children)
      /\ Children(m, t, AsnsLine) = After("asns", t, m.children)
  BY <1>1, <1>3, AsnsLinesType
<1>6. \A f, v : Agree(Set(s, f, v), Set(t, f, v), g)
  BY SetSame
<1>7. CASE n.name = "user-agents"
  <2>1. Fieldwise("user-agents", n.name, g, G)
    BY <1>7, AgentsSame DEF Fieldwise, ReadBy
  <2> HIDE DEF G
  <2>2. Agree(After("user-agents", s, n.children), After("user-agents", t, m.children), g)
    BY <1>3, <1>4, <2>1, NestedSame
  <2> QED
    BY <1>2, <1>4, <1>7, <2>2 DEF ClassifierLine
<1>8. CASE n.name = "asns"
  <2>1. Fieldwise("asns", n.name, g, G)
    BY <1>8, AsnsSame DEF Fieldwise, ReadBy
  <2> HIDE DEF G
  <2>2. Agree(After("asns", s, n.children), After("asns", t, m.children), g)
    BY <1>3, <1>5, <2>1, NestedSame
  <2> QED
    BY <1>2, <1>5, <1>8, <2>2 DEF ClassifierLine
<1>9. CASE n.name = "trusted-decision-header"
  BY <1>2, <1>6, <1>9 DEF ClassifierLine
<1>10. CASE n.name = "trusted-paths"
  BY <1>2, <1>6, <1>10 DEF ClassifierLine
<1>11. CASE n.name \notin {"user-agents", "asns", "trusted-decision-header", "trusted-paths"}
  BY <1>2, <1>11 DEF ClassifierLine
<1> QED
  BY <1>7, <1>8, <1>9, <1>10, <1>11

LEMMA ClassifierPasses ==
  ASSUME NEW l \in Lines, NEW g, g \notin LineFields(l),
         NEW s \in Typed(ClassifierType(Int)), NEW t \in Typed(ClassifierType(Int)), Agree(s, t, g)
  PROVE  Agree(s, ClassifierLine(t, l), g)
<1> DEFINE G == Typed(ClassifierType(Int))
<1>1. l.children = <<>>
  BY NodesAssumption
<1>2. t \in OrRefused(G)
  BY DEF OrRefused
<1>3. <<>> \in Seq(NestedIn(Int))
  OBVIOUS
<1>4. Children(l, t, AgentsLine) = t /\ Children(l, t, AsnsLine) = t
  <2>1. l.children \in Seq(NestedIn(Int))
    BY <1>1, <1>3
  <2> HIDE DEF G
  <2>2. /\ Children(l, t, AgentsLine) = After("user-agents", t, l.children)
        /\ Children(l, t, AsnsLine) = After("asns", t, l.children)
    BY <1>2, <2>1, AgentsLinesType, AsnsLinesType DEF G
  <2>3. \A k : After(k, t, <<>>) = t
    BY <1>2, AfterNone
  <2> QED
    BY <1>1, <2>2, <2>3
<1>5. \A f, v : f # g => Agree(s, Set(t, f, v), g)
  BY SetPasses
<1>6. CASE l.name = "trusted-decision-header"
  BY <1>5, <1>6 DEF ClassifierLine, LineFields
<1>7. CASE l.name = "trusted-paths"
  BY <1>5, <1>7 DEF ClassifierLine, LineFields
<1>8. CASE l.name \in {"user-agents", "asns"}
  BY <1>4, <1>8 DEF ClassifierLine
<1>9. CASE l.name \notin {"user-agents", "asns", "trusted-decision-header", "trusted-paths"}
  BY <1>9 DEF ClassifierLine
<1> QED
  BY <1>6, <1>7, <1>8, <1>9

LEMMA GarbageSame ==
  ASSUME NEW n \in LineIn(Int), NEW m \in LineIn(Int), NEW g, LineEdit(n, m, g),
         NEW s \in Typed(GarbageType(Int)), NEW t \in Typed(GarbageType(Int)), Agree(s, t, g)
  PROVE  Agree(GarbageLine(s, n), GarbageLine(t, m), g)
<1> DEFINE T == GarbageType(Int)
           G == Typed(T)
           Fresh(x) == [f \in DOMAIN x |-> IF f \in LinkFields THEN Default.garbage[f] ELSE x[f]]
           Para(x, y) == MinMax(x, y, "paraMin", "paraMax")
           Link(x, y) == MinMax(Fresh(x), y, "linkMin", "linkMax")
<1>1. /\ n.children \in Seq(NestedIn(Int)) /\ m.children \in Seq(NestedIn(Int))
      /\ n.entries \in Seq(EntriesIn(Int)) /\ m.entries \in Seq(EntriesIn(Int))
  BY DEF LineIn
<1>2. m.name = n.name /\ m.entries = n.entries
  BY DEF LineEdit
<1>3. OneStringArg(m) = OneStringArg(n) /\ StringSeq(m) = StringSeq(n)
  BY <1>2, SameValues
<1>4. /\ {"paraMin", "paraMax", "linkMin", "linkMax"} \subseteq DOMAIN T
      /\ T["paraMin"] = Limit(4, Int) /\ T["paraMax"] = Limit(6, Int)
      /\ T["linkMin"] = Limit(2, Int) /\ T["linkMax"] = Limit(5, Int)
  BY DEF GarbageType
<1>5. Fresh(s) \in G /\ Fresh(t) \in G
  BY FreshTyped
<1>6. Agree(Fresh(s), Fresh(t), g)
  BY RefusedApart DEF Agree
<1>7. \A x \in G, y \in {n, m} : MinMax(x, y, "paraMin", "paraMax") \in OrRefused(G)
  <2> HIDE DEF T
  <2> QED
    BY <1>1, <1>4, MinMaxType
<1>8. \A x \in G, y \in {n, m} : MinMax(x, y, "linkMin", "linkMax") \in OrRefused(G)
  <2> HIDE DEF T
  <2> QED
    BY <1>1, <1>4, MinMaxType
<1> HIDE DEF Fresh
<1>9. Para(s, n) \in OrRefused(G) /\ Para(t, m) \in OrRefused(G) /\ Agree(Para(s, n), Para(t, m), g)
  BY <1>2, <1>7, MinMaxSame
<1>10. Link(s, n) \in OrRefused(G) /\ Link(t, m) \in OrRefused(G) /\ Agree(Link(s, n), Link(t, m), g)
  BY <1>2, <1>5, <1>6, <1>8, MinMaxSame
<1> HIDE DEF Para, Link
<1>11. /\ Reader("paragraphs", n.children, G) /\ Reader("paragraphs", m.children, G)
       /\ Children(n, Para(s, n), ParagraphsLine) = After("paragraphs", Para(s, n), n.children)
       /\ Children(m, Para(t, m), ParagraphsLine) = After("paragraphs", Para(t, m), m.children)
  BY <1>1, <1>9, ParagraphsLinesType
<1>12. /\ Reader("links", n.children, G) /\ Reader("links", m.children, G)
       /\ Children(n, Link(s, n), LinksLine) = After("links", Link(s, n), n.children)
       /\ Children(m, Link(t, m), LinksLine) = After("links", Link(t, m), m.children)
  BY <1>1, <1>10, LinksLinesType
<1>13. \A f, v : Agree(Set(s, f, v), Set(t, f, v), g)
  BY SetSame
<1>14. CASE n.name = "paragraphs"
  <2>1. Fieldwise("paragraphs", n.name, g, G)
    BY <1>14, ParagraphsSame DEF Fieldwise, ReadBy
  <2> HIDE DEF G
  <2>2. Agree(After("paragraphs", Para(s, n), n.children), After("paragraphs", Para(t, m), m.children), g)
    BY <1>9, <1>11, <2>1, NestedSame
  <2>3. GarbageLine(s, n) = Children(n, Para(s, n), ParagraphsLine)
    BY <1>14 DEF GarbageLine, Para
  <2>4. GarbageLine(t, m) = Children(m, Para(t, m), ParagraphsLine)
    BY <1>2, <1>14 DEF GarbageLine, Para
  <2> QED
    BY <1>11, <2>2, <2>3, <2>4
<1>15. CASE n.name = "links"
  <2>1. Fieldwise("links", n.name, g, G)
    BY <1>15, LinksSame DEF Fieldwise, ReadBy
  <2> HIDE DEF G
  <2>2. Agree(After("links", Link(s, n), n.children), After("links", Link(t, m), m.children), g)
    BY <1>10, <1>12, <2>1, NestedSame
  <2>3. GarbageLine(s, n) = Children(n, Link(s, n), LinksLine)
    BY <1>15 DEF GarbageLine, Link, Fresh
  <2>4. GarbageLine(t, m) = Children(m, Link(t, m), LinksLine)
    BY <1>2, <1>15 DEF GarbageLine, Link, Fresh
  <2> QED
    BY <1>12, <2>2, <2>3, <2>4
<1>16. CASE n.name \in {"corpus-files", "words-file", "template-file", "poisons"}
  BY <1>2, <1>3, <1>13, <1>16 DEF GarbageLine
<1>17. CASE n.name \notin {"corpus-files", "words-file", "template-file", "poisons", "paragraphs", "links"}
  BY <1>2, <1>17 DEF GarbageLine
<1> QED
  BY <1>14, <1>15, <1>16, <1>17

LEMMA GarbagePasses ==
  ASSUME NEW l \in Lines, NEW g, g \notin LineFields(l),
         NEW s \in Typed(GarbageType(Int)), NEW t \in Typed(GarbageType(Int)), Agree(s, t, g)
  PROVE  Agree(s, GarbageLine(t, l), g)
<1> DEFINE T == GarbageType(Int)
           G == Typed(T)
           fresh == [f \in DOMAIN t |-> IF f \in LinkFields THEN Default.garbage[f] ELSE t[f]]
           para == MinMax(t, l, "paraMin", "paraMax")
           link == MinMax(fresh, l, "linkMin", "linkMax")
<1>1. l.children = <<>> /\ l.entries \in Seq(EntriesIn(Int))
  BY NodesAssumption, NodeFacts
<1>2. fresh \in G
  BY FreshTyped
<1>3. /\ {"paraMin", "paraMax", "linkMin", "linkMax"} \subseteq DOMAIN T
      /\ T["paraMin"] = Limit(4, Int) /\ T["paraMax"] = Limit(6, Int)
      /\ T["linkMin"] = Limit(2, Int) /\ T["linkMax"] = Limit(5, Int)
  BY DEF GarbageType
<1>4. g \notin LinkFields => Agree(s, fresh, g)
  BY RefusedApart DEF Agree
<1> HIDE DEF fresh
<1>5. para \in OrRefused(G) /\ link \in OrRefused(G)
  <2> HIDE DEF T
  <2> QED
    BY <1>1, <1>2, <1>3, MinMaxType DEF T
<1>6. g \notin {"paraMin", "paraMax"} => Agree(s, para, g)
  BY MinMaxPasses
<1>7. g \notin LinkFields => Agree(s, link, g)
  BY <1>4, MinMaxPasses DEF LinkFields
<1> HIDE DEF para, link
<1>8. <<>> \in Seq(NestedIn(Int))
  OBVIOUS
<1>9. Children(l, para, ParagraphsLine) = para /\ Children(l, link, LinksLine) = link
  <2>1. l.children \in Seq(NestedIn(Int))
    BY <1>1, <1>8
  <2>2. /\ Children(l, para, ParagraphsLine) = After("paragraphs", para, l.children)
        /\ Children(l, link, LinksLine) = After("links", link, l.children)
    BY <1>5, <2>1, ParagraphsLinesType, LinksLinesType
  <2> HIDE DEF G
  <2>3. \A k : After(k, para, <<>>) = para /\ After(k, link, <<>>) = link
    BY <1>5, AfterNone
  <2> QED
    BY <1>1, <2>2, <2>3
<1>10. \A f, v : f # g => Agree(s, Set(t, f, v), g)
  BY SetPasses
<1>11. CASE l.name = "paragraphs"
  <2>1. GarbageLine(t, l) = Children(l, para, ParagraphsLine)
    BY <1>11 DEF GarbageLine, para
  <2> QED
    BY <1>6, <1>9, <1>11, <2>1 DEF LineFields
<1>12. CASE l.name = "links"
  <2>1. GarbageLine(t, l) = Children(l, link, LinksLine)
    BY <1>12 DEF GarbageLine, link, fresh
  <2> QED
    BY <1>7, <1>9, <1>12, <2>1 DEF LineFields
<1>13. CASE l.name \in {"corpus-files", "words-file", "template-file", "poisons"}
  BY <1>10, <1>13 DEF GarbageLine, LineFields
<1>14. CASE l.name \notin {"corpus-files", "words-file", "template-file", "poisons", "paragraphs", "links"}
  BY <1>14 DEF GarbageLine
<1> QED
  BY <1>11, <1>12, <1>13, <1>14

LEMMA ServerSame ==
  ASSUME NEW n \in LineIn(Int), NEW m \in LineIn(Int), NEW g, LineEdit(n, m, g),
         NEW s \in Typed(ServerType(Int)), NEW t \in Typed(ServerType(Int)), Agree(s, t, g)
  PROVE  Agree(ServerLine(s, n), ServerLine(t, m), g)
<1>1. m.name = n.name /\ m.entries = n.entries
  BY DEF LineEdit
<1>2. OneOf(Addresses, m) = OneOf(Addresses, n)
  BY <1>1, SameValues
<1>3. \A f, v : Agree(Set(s, f, v), Set(t, f, v), g)
  BY SetSame
<1>4. s[g] = t[g]
  BY RefusedApart DEF Agree
<1>5. CASE n.name = "status-codes"
  <2> DEFINE v == Status(n, "valid", s.valid)
             w == Status(n, "spam", s.spam)
             x == Status(m, "valid", t.valid)
             y == Status(m, "spam", t.spam)
  <2>1. \A name, old : Status(m, name, old) = Status(n, name, old)
    <3>1. \A name, max, old : IntProp(m, name, max, old) = IntProp(n, name, max, old)
      BY <1>1, SameValues
    <3> QED
      BY <3>1 DEF Status
  <2>2. ("valid" = g => v = x) /\ ("spam" = g => w = y)
    BY <1>4, <2>1
  <2> HIDE DEF v, w, x, y
  <2>3. Agree(Set(s, "valid", v), Set(t, "valid", x), g)
    BY <2>2, SetSame
  <2>4. Agree(Set(Set(s, "valid", v), "spam", w), Set(Set(t, "valid", x), "spam", y), g)
    BY <2>2, <2>3, SetSame
  <2>5. ServerLine(s, n) = Set(Set(s, "valid", v), "spam", w)
    BY <1>5 DEF ServerLine, v, w
  <2>6. ServerLine(t, m) = Set(Set(t, "valid", x), "spam", y)
    BY <1>1, <1>5 DEF ServerLine, x, y
  <2> QED
    BY <2>4, <2>5, <2>6
<1>6. CASE n.name = "listen"
  BY <1>1, <1>2, <1>3, <1>6 DEF ServerLine
<1>7. CASE n.name \notin {"listen", "status-codes"}
  BY <1>1, <1>7 DEF ServerLine
<1> QED
  BY <1>5, <1>6, <1>7

\* A status that is not named stays as it is.
LEMMA StatusKept ==
  ASSUME NEW n, NEW name, name \notin {n.entries[i].name : i \in DOMAIN n.entries},
         NEW old, old \in 100..999
  PROVE  Status(n, name, old) = old
<1>1. {i \in DOMAIN n.entries : n.entries[i].name = name} = {}
  OBVIOUS
<1>2. IntProp(n, name, MaxU16, old) = old
  BY <1>1 DEF IntProp
<1> QED
  BY <1>2 DEF Status

LEMMA ServerPasses ==
  ASSUME NEW l \in Lines, NEW g, g \notin LineFields(l),
         NEW s \in Typed(ServerType(Int)), NEW t \in Typed(ServerType(Int)), Agree(s, t, g)
  PROVE  Agree(s, ServerLine(t, l), g)
<1>1. \A f, v : f # g => Agree(s, Set(t, f, v), g)
  BY SetPasses
<1>2. CASE l.name = "status-codes"
  <2> DEFINE v == Status(l, "valid", t.valid)
             w == Status(l, "spam", t.spam)
             u == Set(t, "valid", v)
  <2>1. LineFields(l) = {l.entries[i].name : i \in DOMAIN l.entries}
    BY <1>2 DEF LineFields
  <2>2. "spam" \in DOMAIN t /\ t.valid \in 100..999 /\ t.spam \in 100..999
    <3> DEFINE T == ServerType(Int)
    <3>1. /\ "valid" \in DOMAIN T /\ "spam" \in DOMAIN T
          /\ T["valid"] = {200} \cup (Int \cap (100..999))
          /\ T["spam"] = {401} \cup (Int \cap (100..999))
      BY DEF ServerType
    <3> HIDE DEF T
    <3>2. DOMAIN t = DOMAIN T /\ \A f \in DOMAIN T : t[f] \in T[f]
      BY DEF Typed, T
    <3>3. t["valid"] \in T["valid"] /\ t["spam"] \in T["spam"]
      BY <3>1, <3>2
    <3> QED
      BY <3>1, <3>2, <3>3
  <2>3. g = "valid" => t[g] = v
    BY <2>1, <2>2, StatusKept
  <2>4. g = "spam" => t[g] = w
    BY <2>1, <2>2, StatusKept
  <2> HIDE DEF v, w
  <2>5. Agree(s, u, g)
    BY <2>3, SetPasses
  <2>6. u # Refused /\ g = "spam" => u[g] = w
    BY <2>2, <2>4, SetAt
  <2> HIDE DEF u
  <2>7. Agree(s, Set(u, "spam", w), g)
    <3>1. CASE u = Refused
      BY <3>1 DEF Set, Agree
    <3>2. CASE u # Refused
      BY <2>5, <2>6, <3>2, SetPasses
    <3> QED
      BY <3>1, <3>2
  <2>8. ServerLine(t, l) = Set(u, "spam", w)
    BY <1>2 DEF ServerLine, u, v, w
  <2> QED
    BY <2>7, <2>8
<1>3. CASE l.name = "listen"
  BY <1>1, <1>3 DEF ServerLine, LineFields
<1>4. CASE l.name \notin {"listen", "status-codes"}
  BY <1>4 DEF ServerLine
<1> QED
  BY <1>2, <1>3, <1>4

LEMMA LoggingSame ==
  ASSUME NEW n \in LineIn(Int), NEW m \in LineIn(Int), NEW g, LineEdit(n, m, g),
         NEW s, NEW t, Agree(s, t, g)
  PROVE  Agree(LoggingLine(s, n), LoggingLine(t, m), g)
<1>1. m.name = n.name
  BY DEF LineEdit
<1>2. (\A S : OneOf(S, m) = OneOf(S, n)) /\ OneBooleanish(m) = OneBooleanish(n)
  BY SameValues DEF LineEdit
<1>3. \A f, v : Agree(Set(s, f, v), Set(t, f, v), g)
  BY SetSame
<1>4. CASE n.name \in {"level", "target"}
  BY <1>1, <1>2, <1>3, <1>4 DEF LoggingLine
<1>5. CASE n.name \in {"color", "timestamps", "request-handler"}
  BY <1>1, <1>2, <1>3, <1>5 DEF LoggingLine
<1>6. CASE n.name \notin {"level", "target", "color", "timestamps", "request-handler"}
  BY <1>1, <1>6 DEF LoggingLine
<1> QED
  BY <1>4, <1>5, <1>6

LEMMA LoggingPasses ==
  ASSUME NEW l \in Lines, NEW g, g \notin LineFields(l), NEW s, NEW t, Agree(s, t, g)
  PROVE  Agree(s, LoggingLine(t, l), g)
<1>1. \A f, v : f # g => Agree(s, Set(t, f, v), g)
  BY SetPasses
<1>2. CASE l.name \in {"level", "target"}
  BY <1>1, <1>2 DEF LoggingLine, LineFields
<1>3. CASE l.name \in {"color", "timestamps", "request-handler"}
  BY <1>1, <1>3 DEF LoggingLine, LineFields
<1>4. CASE l.name \notin {"level", "target", "color", "timestamps", "request-handler"}
  BY <1>4 DEF LoggingLine
<1> QED
  BY <1>2, <1>3, <1>4

LEMMA MetricsSame ==
  ASSUME NEW n \in LineIn(Int), NEW m \in LineIn(Int), NEW g, LineEdit(n, m, g),
         NEW s, NEW t, Agree(s, t, g)
  PROVE  Agree(MetricsLine(s, n), MetricsLine(t, m), g)
<1>1. m.name = n.name
  BY DEF LineEdit
<1>2. OneOf(Addresses, m) = OneOf(Addresses, n) /\ OneStringArg(m) = OneStringArg(n)
  BY SameValues DEF LineEdit
<1>3. \A f, v : Agree(Set(s, f, v), Set(t, f, v), g)
  BY SetSame
<1>4. CASE n.name \in {"listen", "persist-path"}
  BY <1>1, <1>2, <1>3, <1>4 DEF MetricsLine
<1>5. CASE n.name \notin {"listen", "persist-path"}
  BY <1>1, <1>5 DEF MetricsLine
<1> QED
  BY <1>4, <1>5

LEMMA MetricsPasses ==
  ASSUME NEW l \in Lines, NEW g, g \notin LineFields(l), NEW s, NEW t, Agree(s, t, g)
  PROVE  Agree(s, MetricsLine(t, l), g)
<1>1. \A f, v : f # g => Agree(s, Set(t, f, v), g)
  BY SetPasses
<1>2. CASE l.name \in {"listen", "persist-path"}
  BY <1>1, <1>2 DEF MetricsLine, LineFields
<1>3. CASE l.name \notin {"listen", "persist-path"}
  BY <1>3 DEF MetricsLine
<1> QED
  BY <1>2, <1>3

-----------------------------------------------------------------------------
(* Blocks.                                                                 *)

\* A block with an edited line, or with one line more that does not name g.
BlockEdit(n, m, g) ==
  /\ n.name = m.name /\ n.entries = m.entries
  /\ \/ /\ Len(m.children) = Len(n.children)
        /\ \A i \in 1..Len(n.children) : LineEdit(n.children[i], m.children[i], g)
     \/ \E l \in Lines, i \in Positions(n.children) :
          m.children = InsertAt(n.children, i, l) /\ g \notin LineFields(l)

LinesApart(k, g, G) ==
  /\ \A x, y \in LineIn(Int) : \A s, t \in G :
       LineEdit(x, y, g) /\ Agree(s, t, g) => Agree(ReadBy(k, s, x), ReadBy(k, t, y), g)
  /\ \A l \in Lines : \A s, t \in G :
       g \notin LineFields(l) /\ Agree(s, t, g) => Agree(s, ReadBy(k, t, l), g)

LEMMA SectionSame ==
  ASSUME NEW k, NEW G, NEW g, NEW n \in BlockIn(Int), NEW m \in BlockIn(Int), BlockEdit(n, m, g),
         Reader(k, n.children, G), Reader(k, m.children, G), LinesApart(k, g, G),
         NEW b \in OrRefused(G), b # Refused => g \in DOMAIN b
  PROVE  Agree(After(k, b, n.children), After(k, b, m.children), g)
<1> DEFINE c == n.children
           e == m.children
           S == LineIn(Int)
<1>1. c \in Seq(S) /\ e \in Seq(S) /\ Reader(k, c, G) /\ Reader(k, e, G)
  BY DEF BlockIn
<1>2. Agree(b, b, g)
  BY DEF Agree
<1>3. \A x, y \in S : \A s, t \in G :
        LineEdit(x, y, g) /\ Agree(s, t, g) => Agree(ReadBy(k, s, x), ReadBy(k, t, y), g)
  BY DEF LinesApart
<1>4. CASE Len(e) = Len(c) /\ \A i \in 1..Len(c) : LineEdit(c[i], e[i], g)
  <2> HIDE DEF c, e, S
  <2>1. ASSUME NEW i \in 1..Len(c), NEW s \in G, NEW t \in G, Agree(s, t, g)
        PROVE  Agree(ReadBy(k, s, c[i]), ReadBy(k, t, e[i]), g)
    <3>1. c[i] \in S /\ e[i] \in S /\ LineEdit(c[i], e[i], g)
      BY <1>1, <1>4
    <3> QED
      BY <1>3, <2>1, <3>1
  <2>2. Agree(After(k, b, c), After(k, b, e), g)
    BY <1>1, <1>2, <1>4, <2>1, AfterSame
  <2> QED
    BY <2>2 DEF c, e
<1>5. ASSUME NEW l \in Lines, NEW i \in Positions(c), e = InsertAt(c, i, l), g \notin LineFields(l)
      PROVE  Agree(After(k, b, c), After(k, b, e), g)
  <2>1. \A s, t \in G : Agree(s, t, g) => Agree(s, ReadBy(k, t, l), g)
    BY <1>5 DEF LinesApart
  <2>2. l \in S
    BY WritableLine
  <2> HIDE DEF c, e, S
  <2>3. ASSUME NEW j \in 1..Len(c), NEW s \in G, NEW t \in G, Agree(s, t, g)
        PROVE  Agree(ReadBy(k, s, c[j]), ReadBy(k, t, c[j]), g)
    <3>1. c[j] \in S
      BY <1>1
    <3>2. LineEdit(c[j], c[j], g)
      BY DEF LineEdit
    <3> QED
      BY <1>3, <2>3, <3>1, <3>2
  <2> QED
    BY <1>1, <1>2, <1>5, <2>1, <2>2, <2>3, AfterMore
<1>6. \/ Len(e) = Len(c) /\ \A i \in 1..Len(c) : LineEdit(c[i], e[i], g)
      \/ \E l \in Lines, i \in Positions(c) : e = InsertAt(c, i, l) /\ g \notin LineFields(l)
  BY DEF BlockEdit
<1> QED
  BY <1>4, <1>5, <1>6

\* What a block replaces its section with.
Section(n) ==
  CASE n.name = "server"     -> ParseServer(n)
    [] n.name = "classifier" -> Children(n, Default.classifier, ClassifierLine)
    [] n.name = "garbage"    -> Children(n, Default.garbage, GarbageLine)
    [] n.name = "logging"    -> Children(n, Default.logging, LoggingLine)
    [] n.name = "metrics"    -> Children(n, Metrics, MetricsLine)

Sections == {"server", "classifier", "garbage", "logging", "metrics"}

LEMMA BlockSets ==
  ASSUME NEW n
  PROVE  /\ n.name \in Sections => \A c : Block(c, n) = Set(c, n.name, Section(n))
         /\ n.name \notin Sections => \A c : Block(c, n) = c
<1> DEFINE server == ParseServer(n)
           classifier == Children(n, Default.classifier, ClassifierLine)
           garbage == Children(n, Default.garbage, GarbageLine)
           logging == Children(n, Default.logging, LoggingLine)
           metrics == Children(n, Metrics, MetricsLine)
<1>1. \A c : Block(c, n) = CASE n.name = "server"     -> Set(c, "server", server)
                             [] n.name = "classifier" -> Set(c, "classifier", classifier)
                             [] n.name = "garbage"    -> Set(c, "garbage", garbage)
                             [] n.name = "logging"    -> Set(c, "logging", logging)
                             [] n.name = "metrics"    -> Set(c, "metrics", metrics)
                             [] OTHER                 -> c
  BY Zenon DEF Block
<1>2. Section(n) = CASE n.name = "server"     -> server
                     [] n.name = "classifier" -> classifier
                     [] n.name = "garbage"    -> garbage
                     [] n.name = "logging"    -> logging
                     [] n.name = "metrics"    -> metrics
  BY Zenon DEF Section
<1> HIDE DEF server, classifier, garbage, logging, metrics
<1> QED
  BY <1>1, <1>2 DEF Sections

LEMMA ReadersApart ==
  ASSUME NEW g
  PROVE  /\ LinesApart("server", g, Typed(ServerType(Int)))
         /\ LinesApart("classifier", g, Typed(ClassifierType(Int)))
         /\ LinesApart("garbage", g, Typed(GarbageType(Int)))
         /\ LinesApart("logging", g, Typed(LoggingType))
         /\ LinesApart("metrics", g, Typed(MetricsType))
<1>1. LinesApart("server", g, Typed(ServerType(Int)))
  BY ServerSame, ServerPasses DEF LinesApart, ReadBy
<1>2. LinesApart("classifier", g, Typed(ClassifierType(Int)))
  BY ClassifierSame, ClassifierPasses DEF LinesApart, ReadBy
<1>3. LinesApart("garbage", g, Typed(GarbageType(Int)))
  BY GarbageSame, GarbagePasses DEF LinesApart, ReadBy
<1>4. LinesApart("logging", g, Typed(LoggingType))
  BY LoggingSame, LoggingPasses DEF LinesApart, ReadBy
<1>5. LinesApart("metrics", g, Typed(MetricsType))
  BY MetricsSame, MetricsPasses DEF LinesApart, ReadBy
<1> QED
  BY <1>1, <1>2, <1>3, <1>4, <1>5

LEMMA SectionFields ==
  ASSUME NEW k, NEW T, NEW g, NEW n \in BlockIn(Int), NEW m \in BlockIn(Int), BlockEdit(n, m, g),
         Reader(k, n.children, Typed(T)), Reader(k, m.children, Typed(T)), LinesApart(k, g, Typed(T)),
         NEW b \in OrRefused(Typed(T)),
         NEW v, v = After(k, b, n.children), NEW w, w = After(k, b, m.children),
         v # Refused, w # Refused, g \in DOMAIN v
  PROVE  v[g] = w[g]
<1> DEFINE G == Typed(T)
<1>1. \A x \in G : DOMAIN x = DOMAIN T
  BY DEF Typed
<1> HIDE DEF G
<1>2. v \in OrRefused(G)
  BY AfterTyped DEF G
<1>3. DOMAIN v = DOMAIN T
  BY <1>1, <1>2 DEF OrRefused
<1>4. b # Refused => g \in DOMAIN b
  BY <1>1, <1>3 DEF OrRefused, G
<1>5. Agree(v, w, g)
  BY <1>4, SectionSame
<1> QED
  BY <1>5 DEF Agree

LEMMA SectionEdit ==
  ASSUME NEW n \in BlockIn(Int), NEW m \in BlockIn(Int), n.name \in Sections, NEW g, BlockEdit(n, m, g),
         Section(n) # Refused, Section(m) # Refused, g \in DOMAIN Section(n)
  PROVE  Section(n)[g] = Section(m)[g]
<1>1. n.children \in Seq(LineIn(Int)) /\ m.children \in Seq(LineIn(Int))
  BY DEF BlockIn
<1>2. /\ Default.classifier \in OrRefused(Typed(ClassifierType(Int)))
      /\ Default.garbage \in OrRefused(Typed(GarbageType(Int)))
      /\ Default.logging \in OrRefused(Typed(LoggingType))
      /\ Metrics \in OrRefused(Typed(MetricsType))
  BY DefaultsTyped DEF OrRefused
<1>3. m.name = n.name
  BY DEF BlockEdit
<1>4. CASE n.name = "server"
  <2> DEFINE b == ServerFrom(n)
             T == ServerType(Int)
             v == After("server", b, n.children)
             w == After("server", b, m.children)
  <2>1. ServerFrom(m) = b
    <3>1. \A S : OneOf(S, m) = OneOf(S, n)
      BY SameValues DEF BlockEdit
    <3> QED
      BY <3>1 DEF ServerFrom
  <2>2. b \in OrRefused(Typed(T))
    BY ServerFromTyped
  <2>3. /\ Reader("server", n.children, Typed(T)) /\ Reader("server", m.children, Typed(T))
        /\ Children(n, b, ServerLine) = v /\ Children(m, b, ServerLine) = w
    BY <1>1, <2>2, ServerLinesType
  <2>4. Section(n) = Children(n, b, ServerLine) /\ Section(m) = Children(m, b, ServerLine)
    <3>1. Section(n) = Children(n, ServerFrom(n), ServerLine)
      BY <1>4, Zenon DEF Section, ParseServer, ServerFrom
    <3>2. Section(m) = Children(m, ServerFrom(m), ServerLine)
      BY <1>3, <1>4, Zenon DEF Section, ParseServer, ServerFrom
    <3> QED
      BY <2>1, <3>1, <3>2
  <2>5. LinesApart("server", g, Typed(T))
    BY ReadersApart
  <2> HIDE DEF T, b, v, w
  <2>6. v # Refused /\ w # Refused /\ g \in DOMAIN v
    BY <2>3, <2>4
  <2>7. v[g] = w[g]
    BY <2>2, <2>3, <2>5, <2>6, SectionFields DEF v, w
  <2> QED
    BY <2>3, <2>4, <2>7
<1>5. CASE n.name = "classifier"
  <2> DEFINE b == Default.classifier
             T == ClassifierType(Int)
             v == After("classifier", b, n.children)
             w == After("classifier", b, m.children)
  <2>1. b \in OrRefused(Typed(T))
    BY <1>2
  <2>2. /\ Reader("classifier", n.children, Typed(T)) /\ Reader("classifier", m.children, Typed(T))
        /\ Children(n, b, ClassifierLine) = v /\ Children(m, b, ClassifierLine) = w
    BY <1>1, <2>1, ClassifierLinesType
  <2>3. Section(n) = Children(n, b, ClassifierLine) /\ Section(m) = Children(m, b, ClassifierLine)
    BY <1>3, <1>5, Zenon DEF Section
  <2>4. LinesApart("classifier", g, Typed(T))
    BY ReadersApart
  <2> HIDE DEF T, b, v, w
  <2>5. v # Refused /\ w # Refused /\ g \in DOMAIN v
    BY <2>2, <2>3
  <2>6. v[g] = w[g]
    BY <2>1, <2>2, <2>4, <2>5, SectionFields DEF v, w
  <2> QED
    BY <2>2, <2>3, <2>6
<1>6. CASE n.name = "garbage"
  <2> DEFINE b == Default.garbage
             T == GarbageType(Int)
             v == After("garbage", b, n.children)
             w == After("garbage", b, m.children)
  <2>1. b \in OrRefused(Typed(T))
    BY <1>2
  <2>2. /\ Reader("garbage", n.children, Typed(T)) /\ Reader("garbage", m.children, Typed(T))
        /\ Children(n, b, GarbageLine) = v /\ Children(m, b, GarbageLine) = w
    BY <1>1, <2>1, GarbageLinesType
  <2>3. Section(n) = Children(n, b, GarbageLine) /\ Section(m) = Children(m, b, GarbageLine)
    BY <1>3, <1>6, Zenon DEF Section
  <2>4. LinesApart("garbage", g, Typed(T))
    BY ReadersApart
  <2> HIDE DEF T, b, v, w
  <2>5. v # Refused /\ w # Refused /\ g \in DOMAIN v
    BY <2>2, <2>3
  <2>6. v[g] = w[g]
    BY <2>1, <2>2, <2>4, <2>5, SectionFields DEF v, w
  <2> QED
    BY <2>2, <2>3, <2>6
<1>7. CASE n.name = "logging"
  <2> DEFINE b == Default.logging
             T == LoggingType
             v == After("logging", b, n.children)
             w == After("logging", b, m.children)
  <2>1. b \in OrRefused(Typed(T))
    BY <1>2
  <2>2. /\ Reader("logging", n.children, Typed(T)) /\ Reader("logging", m.children, Typed(T))
        /\ Children(n, b, LoggingLine) = v /\ Children(m, b, LoggingLine) = w
    BY <1>1, <2>1, LoggingLinesType
  <2>3. Section(n) = Children(n, b, LoggingLine) /\ Section(m) = Children(m, b, LoggingLine)
    BY <1>3, <1>7, Zenon DEF Section
  <2>4. LinesApart("logging", g, Typed(T))
    BY ReadersApart
  <2> HIDE DEF T, b, v, w
  <2>5. v # Refused /\ w # Refused /\ g \in DOMAIN v
    BY <2>2, <2>3
  <2>6. v[g] = w[g]
    BY <2>1, <2>2, <2>4, <2>5, SectionFields DEF v, w
  <2> QED
    BY <2>2, <2>3, <2>6
<1>8. CASE n.name = "metrics"
  <2> DEFINE b == Metrics
             T == MetricsType
             v == After("metrics", b, n.children)
             w == After("metrics", b, m.children)
  <2>1. b \in OrRefused(Typed(T))
    BY <1>2
  <2>2. /\ Reader("metrics", n.children, Typed(T)) /\ Reader("metrics", m.children, Typed(T))
        /\ Children(n, b, MetricsLine) = v /\ Children(m, b, MetricsLine) = w
    BY <1>1, <2>1, MetricsLinesType
  <2>3. Section(n) = Children(n, b, MetricsLine) /\ Section(m) = Children(m, b, MetricsLine)
    BY <1>3, <1>8, Zenon DEF Section
  <2>4. LinesApart("metrics", g, Typed(T))
    BY ReadersApart
  <2> HIDE DEF T, b, v, w
  <2>5. v # Refused /\ w # Refused /\ g \in DOMAIN v
    BY <2>2, <2>3
  <2>6. v[g] = w[g]
    BY <2>1, <2>2, <2>4, <2>5, SectionFields DEF v, w
  <2> QED
    BY <2>2, <2>3, <2>6
<1> QED
  BY <1>3, <1>4, <1>5, <1>6, <1>7, <1>8 DEF Sections

-----------------------------------------------------------------------------
(* What was inserted, and where.                                           *)

\* What stood behind place i has moved up by one.
ClosedUp(seq, i, new) ==
  /\ Len(new) = Len(seq) - 1
  /\ \A p \in 1..(i-1) : new[p] = seq[p]
  /\ \A p \in i..(Len(seq)-1) : new[p] = seq[p+1]

LEMMA RemoveFacts ==
  ASSUME NEW S, NEW seq \in Seq(S), NEW i \in 1..Len(seq), NEW new, new = RemoveAt(seq, i)
  PROVE  new \in Seq(S) /\ ClosedUp(seq, i, new)
<1> DEFINE a == SubSeq(seq, 1, i - 1)
           b == SubSeq(seq, i + 1, Len(seq))
<1>1. Len(seq) \in Nat /\ i \in Nat
  OBVIOUS
<1>2. a \in Seq(S) /\ Len(a) = i - 1 /\ \A p \in 1..(i-1) : a[p] = seq[p]
  BY <1>1
<1>3. b \in Seq(S) /\ Len(b) = Len(seq) - i /\ \A p \in 1..(Len(seq) - i) : b[p] = seq[i + p]
  BY <1>1
<1>4. new = a \o b
  BY DEF RemoveAt
<1> HIDE DEF a, b
<1>5. new \in Seq(S) /\ Len(new) = Len(seq) - 1
  BY <1>1, <1>2, <1>3, <1>4
<1>6. \A p \in 1..(i-1) : new[p] = seq[p]
  <2>1. \A p \in 1..Len(a) : (a \o b)[p] = a[p]
    BY <1>2, <1>3
  <2> QED
    BY <1>2, <1>4, <2>1
<1>7. ASSUME NEW p \in i..(Len(seq)-1) PROVE new[p] = seq[p+1]
  <2> DEFINE j == p - (i - 1)
  <2>1. j \in 1..Len(b) /\ Len(a) + j = p /\ i + j = p + 1 /\ j \in 1..(Len(seq) - i)
    BY <1>1, <1>2, <1>3
  <2> HIDE DEF j
  <2>2. (a \o b)[Len(a) + j] = b[j]
    BY <1>2, <1>3, <2>1, ConcatRight
  <2>3. b[j] = seq[i + j]
    BY <1>3, <2>1
  <2> QED
    BY <1>4, <2>1, <2>2, <2>3
<1> QED
  BY <1>5, <1>6, <1>7 DEF ClosedUp

LEMMA AllTheSame ==
  ASSUME NEW b, NEW lo \in Nat, NEW hi \in Nat, lo <= hi, \A q \in lo..(hi-1) : b[q+1] = b[q]
  PROVE  b[hi] = b[lo]
<1> DEFINE n == hi - lo
           T == {i \in 0..n : b[lo + i] = b[lo]}
<1>1. n \in Nat /\ lo + n = hi /\ lo + 0 = lo
  OBVIOUS
<1>2. 0 \in T
  BY <1>1
<1>3. ASSUME NEW i \in 0..(n-1), i \in T PROVE i + 1 \in T
  <2> DEFINE q == lo + i
  <2>1. q \in lo..(hi-1) /\ lo + (i + 1) = q + 1 /\ i + 1 \in 0..n /\ b[q] = b[lo]
    BY <1>1, <1>3
  <2> HIDE DEF q
  <2>2. b[q+1] = b[q]
    BY <2>1
  <2> QED
    BY <2>1, <2>2
<1>4. n \in T
  <2> HIDE DEF T, n
  <2> QED
    BY <1>1, <1>2, <1>3, InductionTo
<1> QED
  BY <1>1, <1>4

\* Wherever among its likes it is taken to be, it is the same line.
LEMMA InsertedIs ==
  ASSUME NEW S, NEW a \in Seq(S), NEW p \in Positions(a), NEW x \in S, NEW b, b = InsertAt(a, p, x)
  PROVE  Inserted(a, b) = x
<1>1. /\ Len(b) = Len(a) + 1 /\ b[p] = x
      /\ \A q \in 1..(p-1) : b[q] = a[q]
      /\ \A q \in p..Len(a) : b[q+1] = a[q]
  BY InsertFacts
<1>2. b \in Seq(S)
  BY InsertType
<1>3. Len(a) \in Nat /\ p \in 1..Len(b) /\ p \in Nat /\ DOMAIN b = 1..Len(b)
  BY <1>1, <1>2 DEF Positions
<1>4. RemoveAt(b, p) = a
  <2>5. PICK r : r = RemoveAt(b, p)
    OBVIOUS
  <2>6. b \in Seq(S) /\ p \in 1..Len(b)
    BY <1>2, <1>3
  <2>1. /\ r \in Seq(S) /\ Len(r) = Len(b) - 1
        /\ \A q \in 1..(p-1) : r[q] = b[q]
        /\ \A q \in p..(Len(b)-1) : r[q] = b[q+1]
    <3>1. r \in Seq(S) /\ ClosedUp(b, p, r)
      BY <2>5, <2>6, RemoveFacts
    <3> QED
      BY <3>1 DEF ClosedUp
  <2>2. Len(r) = Len(a)
    BY <1>1, <1>3, <2>1
  <2>3. \A q \in 1..Len(a) : r[q] = a[q]
    <3> SUFFICES ASSUME NEW q \in 1..Len(a) PROVE r[q] = a[q]
      OBVIOUS
    <3>1. CASE q < p
      <4>1. q \in 1..(p-1)
        BY <1>3, <3>1
      <4> QED
        BY <1>1, <2>1, <4>1
    <3>2. CASE q >= p
      <4>1. q \in p..Len(a) /\ q \in p..(Len(b)-1)
        BY <1>1, <1>3, <3>2
      <4> QED
        BY <1>1, <2>1, <4>1
    <3> QED
      BY <1>3, <3>1, <3>2
  <2>4. r = a
    <3>1. r = [q \in 1..Len(r) |-> r[q]] /\ a = [q \in 1..Len(a) |-> a[q]]
      BY <2>1
    <3> QED
      BY <2>2, <2>3, <3>1
  <2> QED
    BY <2>4, <2>5
<1> DEFINE c == CHOOSE i \in DOMAIN b : RemoveAt(b, i) = a
<1>5. c \in 1..Len(b) /\ RemoveAt(b, c) = a
  BY <1>3, <1>4, Zenon
<1>6. Inserted(a, b) = b[c]
  BY DEF Inserted
<1> HIDE DEF c
<1>7. /\ \A q \in 1..(c-1) : a[q] = b[q]
      /\ \A q \in c..(Len(b)-1) : a[q] = b[q+1]
  <2>1. ClosedUp(b, c, a)
    BY <1>2, <1>5, RemoveFacts
  <2> QED
    BY <2>1 DEF ClosedUp
<1>8. c \in Nat /\ Len(b) - 1 = Len(a)
  BY <1>1, <1>3, <1>5
<1>9. CASE c <= p
  <2>1. ASSUME NEW q \in c..(p-1) PROVE b[q+1] = b[q]
    <3>1. q \in 1..(p-1) /\ q \in c..(Len(b)-1)
      BY <1>1, <1>3, <1>5
    <3> QED
      BY <1>1, <1>7, <3>1
  <2>2. b[p] = b[c]
    BY <1>3, <1>8, <1>9, <2>1, AllTheSame
  <2> QED
    BY <1>1, <1>6, <2>2
<1>10. CASE p <= c
  <2>1. ASSUME NEW q \in p..(c-1) PROVE b[q+1] = b[q]
    <3>1. q \in 1..(c-1) /\ q \in p..Len(a)
      BY <1>1, <1>3, <1>5
    <3> QED
      BY <1>1, <1>7, <3>1
  <2>2. b[c] = b[p]
    BY <1>3, <1>8, <1>10, <2>1, AllTheSame
  <2> QED
    BY <1>1, <1>6, <2>2
<1> QED
  BY <1>3, <1>8, <1>9, <1>10

LEMMA DiffersIs ==
  ASSUME NEW a, NEW b, NEW k \in DOMAIN a, a[k] # b[k], \A q \in DOMAIN a : q # k => a[q] = b[q]
  PROVE  Differs(a, b) = k
  BY Zenon DEF Differs

-----------------------------------------------------------------------------
(* Configurations.                                                         *)

\* Of two configurations, the setting f of section b.
Within(b, f) ==
  {p \in OrRefused(Typed(ConfigType(Int))) \X OrRefused(Typed(ConfigType(Int))) :
     p[1] # Refused /\ p[2] # Refused /\ f \in DOMAIN p[1][b] => p[1][b][f] = p[2][b][f]}

LEMMA WithinIs ==
  ASSUME NEW b, NEW f, NEW G, G = Typed(ConfigType(Int))
  PROVE  /\ Lenient(Within(b, f), G)
         /\ \A c, d \in OrRefused(G) :
              (c # Refused /\ d # Refused /\ f \in DOMAIN c[b] => c[b][f] = d[b][f])
                => <<c, d>> \in Within(b, f)
         /\ \A c, d : <<c, d>> \in Within(b, f) /\ c # Refused /\ d # Refused /\ f \in DOMAIN c[b]
                        => c[b][f] = d[b][f]
<1>1. \A c, d \in OrRefused(G) :
        (c # Refused /\ d # Refused /\ f \in DOMAIN c[b] => c[b][f] = d[b][f])
          => <<c, d>> \in Within(b, f)
  BY DEF Within
<1>2. \A c, d : <<c, d>> \in Within(b, f) /\ c # Refused /\ d # Refused /\ f \in DOMAIN c[b]
                  => c[b][f] = d[b][f]
  BY DEF Within
<1>3. Refused \in OrRefused(G)
  BY DEF OrRefused
<1>4. Lenient(Within(b, f), G)
  BY <1>1, <1>3 DEF Lenient
<1> QED
  BY <1>1, <1>2, <1>4

\* A block edit changes no other section.
LEMMA BlockAgrees ==
  ASSUME NEW n, NEW m, NEW g, n = m \/ (n.name = m.name /\ n.name # g),
         NEW c, NEW d, Agree(c, d, g)
  PROVE  Agree(Block(c, n), Block(d, m), g)
<1>1. n.name = m.name
  OBVIOUS
<1>2. CASE n.name \in Sections
  <2>1. Block(c, n) = Set(c, n.name, Section(n)) /\ Block(d, m) = Set(d, n.name, Section(m))
    BY <1>1, <1>2, BlockSets
  <2>2. n.name = g => Section(n) = Section(m)
    OBVIOUS
  <2> QED
    BY <2>1, <2>2, SetSame
<1>3. CASE n.name \notin Sections
  BY <1>1, <1>3, BlockSets
<1> QED
  BY <1>2, <1>3

LEMMA BlockWithin ==
  ASSUME NEW n \in BlockIn(Int), NEW m \in BlockIn(Int), NEW b \in Sections, NEW f,
         n = m \/ (n.name = m.name /\ n.name = b /\ BlockEdit(n, m, f)),
         NEW c \in Typed(ConfigType(Int)), NEW d \in Typed(ConfigType(Int)), <<c, d>> \in Within(b, f)
  PROVE  <<Block(c, n), Block(d, m)>> \in Within(b, f)
<1> DEFINE G == Typed(ConfigType(Int))
           x == Block(c, n)
           y == Block(d, m)
<1>1. x \in OrRefused(G) /\ y \in OrRefused(G)
  BY BlockType
<1>2. n.name = m.name
  OBVIOUS
<1>3. b \in DOMAIN c /\ b \in DOMAIN d
  BY DEF Typed, ConfigType, Sections
<1>4. c # Refused /\ d # Refused
  BY RefusedApart
<1>5. ASSUME x # Refused, y # Refused, f \in DOMAIN x[b] PROVE x[b][f] = y[b][f]
  <2>1. CASE n.name = b
    <3>1. x = Set(c, b, Section(n)) /\ y = Set(d, b, Section(m))
      BY <1>2, <2>1, BlockSets
    <3>2. /\ Section(n) # Refused /\ Section(m) # Refused
          /\ x[b] = Section(n) /\ y[b] = Section(m)
      BY <1>3, <1>5, <3>1, SetAt
    <3>3. CASE n = m
      BY <3>2, <3>3
    <3>4. CASE BlockEdit(n, m, f)
      BY <1>5, <2>1, <3>2, <3>4, SectionEdit
    <3> QED
      BY <3>3, <3>4
  <2>2. CASE n.name # b /\ n.name \in Sections
    <3>1. x = Set(c, n.name, Section(n)) /\ y = Set(d, n.name, Section(m))
      BY <1>2, <2>2, BlockSets
    <3>2. x[b] = c[b] /\ y[b] = d[b]
      BY <1>3, <1>5, <2>2, <3>1, SetAt
    <3> QED
      BY <1>4, <1>5, <3>2, WithinIs
  <2>3. CASE n.name \notin Sections
    <3>1. x = c /\ y = d
      BY <1>2, <2>3, BlockSets
    <3> QED
      BY <1>4, <1>5, <3>1, WithinIs
  <2> QED
    BY <2>1, <2>2, <2>3
<1> HIDE DEF x, y
<1>6. <<x, y>> \in Within(b, f)
  BY <1>1, <1>5, WithinIs
<1> QED
  BY <1>6 DEF x, y

\* Two files that differ in one block.
LEMMA DocEdit ==
  ASSUME NEW d \in Seq(BlockIn(Int)), NEW e \in Seq(BlockIn(Int)), Len(d) = Len(e),
         NEW k \in 1..Len(d), \A q \in 1..Len(d) : q # k => e[q] = d[q], e[k].name = d[k].name,
         NEW c, c = ParseDoc(d), NEW h, h = ParseDoc(e), c # Refused, h # Refused
  PROVE  /\ \A g \in DOMAIN c \ {d[k].name} : c[g] = h[g]
         /\ \A f : d[k].name \in DOMAIN c /\ BlockEdit(d[k], e[k], f) /\ f \in DOMAIN c[d[k].name]
                     => c[d[k].name][f] = h[d[k].name][f]
<1> DEFINE G == Typed(ConfigType(Int))
           B == BlockIn(Int)
<1>1. /\ Reader("doc", d, G) /\ Reader("doc", e, G)
      /\ c = After("doc", Default, d) /\ h = After("doc", Default, e)
      /\ c \in OrRefused(G)
  BY DocTyped
<1>2. Default \in G /\ Default \in OrRefused(G)
  BY DefaultTyped DEF OrRefused
<1>3. \A x \in G : DOMAIN x = Sections
  BY DEF Typed, ConfigType, Sections
<1>4. DOMAIN c = Sections
  BY <1>1, <1>3 DEF OrRefused
<1>5. \A i \in 1..Len(d) : d[i] \in B /\ e[i] \in B /\ (i # k => d[i] = e[i])
  OBVIOUS
<1>6. \A s, x : ReadBy("doc", s, x) = Block(s, x)
  BY DEF ReadBy
<1> HIDE DEF G
<1>7. ASSUME NEW g \in DOMAIN c \ {d[k].name} PROVE c[g] = h[g]
  <2>1. \A i \in 1..Len(d) : d[i] = e[i] \/ (d[i].name = e[i].name /\ d[i].name # g)
    BY <1>5
  <2>2. \A i \in 1..Len(d) : \A s, t \in G :
          Agree(s, t, g) => Agree(ReadBy("doc", s, d[i]), ReadBy("doc", t, e[i]), g)
    BY <1>6, <2>1, BlockAgrees
  <2>3. Agree(Default, Default, g)
    BY <1>2, <1>3, <1>4 DEF Agree
  <2>4. Agree(c, h, g)
    BY <1>1, <1>2, <2>2, <2>3, AfterSame
  <2> QED
    BY <2>4 DEF Agree
<1>8. ASSUME NEW f, d[k].name \in DOMAIN c, BlockEdit(d[k], e[k], f), f \in DOMAIN c[d[k].name]
      PROVE  c[d[k].name][f] = h[d[k].name][f]
  <2> DEFINE b == d[k].name
             R == Within(b, f)
  <2>1. b \in Sections
    BY <1>4, <1>8
  <2>2. \A i \in 1..Len(d) :
          d[i] = e[i] \/ (d[i].name = e[i].name /\ d[i].name = b /\ BlockEdit(d[i], e[i], f))
    BY <1>5, <1>8
  <2> HIDE DEF b
  <2>3. ASSUME NEW i \in 1..Len(d), NEW s \in G, NEW t \in G, <<s, t>> \in R
        PROVE  <<Block(s, d[i]), Block(t, e[i])>> \in R
    <3>1. d[i] \in B /\ e[i] \in B
      BY <1>5
    <3>2. d[i] = e[i] \/ (d[i].name = e[i].name /\ d[i].name = b /\ BlockEdit(d[i], e[i], f))
      BY <2>2
    <3> QED
      BY <2>1, <2>3, <3>1, <3>2, BlockWithin DEF G
  <2>4. Lenient(R, G) /\ <<Default, Default>> \in R
    BY <1>2, WithinIs DEF G
  <2>5. \A x, y : <<x, y>> \in R /\ x # Refused /\ y # Refused /\ f \in DOMAIN x[b] => x[b][f] = y[b][f]
    BY WithinIs DEF G
  <2> HIDE DEF R
  <2>6. InStep("doc", d, e, G, R)
    BY <1>6, <2>3 DEF InStep
  <2>7. <<c, h>> \in R
    BY <1>1, <1>2, <2>4, <2>6, AfterInStep
  <2> QED
    BY <1>8, <2>5, <2>7 DEF b
<1> QED
  BY <1>7, <1>8

-----------------------------------------------------------------------------
(* An edit is local.                                                       *)

LineIsLocal(d, e, c, h) ==
  LET k     == Differs(d, e)
      block == d[k].name
      added == Inserted(d[k].children, e[k].children)
  IN  /\ Len(d[k].children) < Len(e[k].children)
      /\ \A s \in DOMAIN c \ {block} : c[s] = h[s]
      /\ block \in DOMAIN c => \A f \in DOMAIN c[block] \ LineFields(added) : c[block][f] = h[block][f]

NestedIsLocal(d, e, c, h) ==
  LET k     == Differs(d, e)
      block == d[k].name
      old   == d[k].children
      new   == e[k].children
      j     == Differs(old, new)
      named == NestedFields(old[j].name, Inserted(old[j].children, new[j].children))
  IN  /\ Len(old) = Len(new)
      /\ \A s \in DOMAIN c \ {block} : c[s] = h[s]
      /\ block \in DOMAIN c => \A f \in DOMAIN c[block] \ named : c[block][f] = h[block][f]

LEMMA LineLocal ==
  ASSUME NEW d \in Seq(BlockIn(Int)), NEW k \in 1..Len(d), NEW i, i \in Positions(d[k].children),
         NEW l \in Lines, NEW e, e = WithLine(d, k, i, l),
         NEW c, c = ParseDoc(d), NEW h, h = ParseDoc(e), c # Refused, h # Refused
  PROVE  LineIsLocal(d, e, c, h)
<1> DEFINE old == d[k].children
           new == e[k].children
           b == d[k].name
<1>1. l \in LineIn(Int)
  BY WritableLine
<1>2. /\ e \in Seq(BlockIn(Int)) /\ Len(e) = Len(d)
      /\ \A q \in 1..Len(d) : q # k => e[q] = d[q]
      /\ e[k].name = d[k].name /\ e[k].entries = d[k].entries
      /\ d[k].children \in Seq(LineIn(Int))
      /\ e[k].children = InsertAt(d[k].children, i, l)
  BY <1>1, WithLineIs
<1>3. old \in Seq(LineIn(Int)) /\ i \in Positions(old) /\ new = InsertAt(old, i, l)
  BY <1>2
<1> HIDE DEF old, new, b
<1>4. Len(new) = Len(old) + 1 /\ Len(old) \in Nat
  BY <1>1, <1>3, InsertFacts
<1>5. Inserted(old, new) = l
  BY <1>1, <1>3, InsertedIs
<1>6. Differs(d, e) = k
  <2>1. d[k] # e[k]
    BY <1>4 DEF old, new
  <2>2. k \in DOMAIN d /\ \A q \in DOMAIN d : q # k => d[q] = e[q]
    BY <1>2
  <2> QED
    BY <2>1, <2>2, DiffersIs
<1>7. /\ \A g \in DOMAIN c \ {b} : c[g] = h[g]
      /\ \A f : b \in DOMAIN c /\ BlockEdit(d[k], e[k], f) /\ f \in DOMAIN c[b] => c[b][f] = h[b][f]
  BY <1>2, DocEdit DEF b
<1>8. \A f : f \notin LineFields(l) => BlockEdit(d[k], e[k], f)
  BY <1>2, <1>3 DEF BlockEdit, old, new
<1>9. b \in DOMAIN c => \A f \in DOMAIN c[b] \ LineFields(l) : c[b][f] = h[b][f]
  BY <1>7, <1>8
<1> QED
  BY <1>4, <1>5, <1>6, <1>7, <1>9 DEF LineIsLocal, old, new, b

LEMMA NestedLocal ==
  ASSUME NEW d \in Seq(BlockIn(Int)), NEW k \in 1..Len(d), NEW j, j \in 1..Len(d[k].children),
         NEW i, i \in Positions(d[k].children[j].children),
         NEW l \in NestedIn(Int), NEW e, e = WithNested(d, k, j, i, l),
         NEW c, c = ParseDoc(d), NEW h, h = ParseDoc(e), c # Refused, h # Refused
  PROVE  NestedIsLocal(d, e, c, h)
<1> DEFINE old == d[k].children
           new == e[k].children
           x == old[j]
           y == new[j]
           b == d[k].name
<1>1. NestedEdit(d, e, k, j, i, l)
  BY WithNestedIs
<1>2. /\ e \in Seq(BlockIn(Int)) /\ Len(e) = Len(d)
      /\ \A q \in 1..Len(d) : q # k => e[q] = d[q]
      /\ e[k].name = b /\ e[k].entries = d[k].entries
  BY <1>1 DEF NestedEdit
<1>3. /\ old \in Seq(LineIn(Int)) /\ new \in Seq(LineIn(Int)) /\ Len(new) = Len(old)
      /\ \A q \in 1..Len(old) : q # j => new[q] = old[q]
      /\ j \in 1..Len(old)
  BY <1>1 DEF NestedEdit
<1>4. /\ y.name = x.name /\ y.entries = x.entries
      /\ x.children \in Seq(NestedIn(Int)) /\ i \in Positions(x.children)
      /\ y.children = InsertAt(x.children, i, l)
  BY <1>1 DEF NestedEdit
<1> HIDE DEF old, new, x, y, b
<1>5. Inserted(x.children, y.children) = l /\ x.children # y.children
  <2> DEFINE a == x.children
             z == y.children
             S == NestedIn(Int)
  <2>1. a \in Seq(S) /\ i \in Positions(a) /\ z = InsertAt(a, i, l) /\ l \in S
    BY <1>4
  <2> HIDE DEF a, z, S
  <2>2. Inserted(a, z) = l
    BY <2>1, InsertedIs
  <2>3. Len(z) = Len(a) + 1 /\ Len(a) \in Nat
    BY <2>1, InsertFacts
  <2>4. a # z
    BY <2>3
  <2> QED
    BY <2>2, <2>4 DEF a, z
<1>6. Differs(old, new) = j
  <2>1. old[j] # new[j]
    BY <1>5 DEF x, y
  <2>2. j \in DOMAIN old /\ \A q \in DOMAIN old : q # j => old[q] = new[q]
    BY <1>3
  <2> QED
    BY <2>1, <2>2, DiffersIs
<1>7. Differs(d, e) = k
  <2>1. d[k] # e[k]
    BY <1>5 DEF x, y, old, new
  <2>2. k \in DOMAIN d /\ \A q \in DOMAIN d : q # k => d[q] = e[q]
    BY <1>2
  <2> QED
    BY <2>1, <2>2, DiffersIs
<1>8. /\ \A g \in DOMAIN c \ {b} : c[g] = h[g]
      /\ \A f : b \in DOMAIN c /\ BlockEdit(d[k], e[k], f) /\ f \in DOMAIN c[b] => c[b][f] = h[b][f]
  BY <1>2, DocEdit DEF b
<1>9. ASSUME NEW f, f \notin NestedFields(x.name, l) PROVE BlockEdit(d[k], e[k], f)
  <2>1. LineEdit(x, y, f)
    BY <1>4, <1>9 DEF LineEdit
  <2>2. \A q \in 1..Len(old) : q # j => LineEdit(old[q], new[q], f)
    BY <1>3 DEF LineEdit
  <2>3. \A q \in 1..Len(old) : LineEdit(old[q], new[q], f)
    BY <2>1, <2>2 DEF x, y
  <2> QED
    BY <1>2, <1>3, <2>3 DEF BlockEdit, old, new, b
<1>10. b \in DOMAIN c => \A f \in DOMAIN c[b] \ NestedFields(x.name, l) : c[b][f] = h[b][f]
  BY <1>8, <1>9
<1> QED
  BY <1>3, <1>5, <1>6, <1>7, <1>8, <1>10 DEF NestedIsLocal, old, new, x, y, b

\* A line changes only the settings it names, wherever it is written.
THEOREM EditsLocal == Spec => EditsAreLocal
<1> DEFINE Local ==
       Len(doc) = Len(doc') /\ Refused \notin {config, config'} =>
         LET k     == Differs(doc, doc')
             block == doc[k].name
             old   == doc[k].children
             new   == doc'[k].children
             j     == Differs(old, new)
             added == Inserted(old, new)
             named == IF Len(old) < Len(new)
                      THEN LineFields(added) \cup
                           UNION {NestedFields(added.name, added.children[i]) : i \in DOMAIN added.children}
                      ELSE NestedFields(old[j].name, Inserted(old[j].children, new[j].children))
         IN  /\ \A s \in DOMAIN config \ {block} : config[s] = config'[s]
             /\ block \in DOMAIN config =>
                  \A f \in DOMAIN config[block] \ named : config[block][f] = config'[block][f]
<1>1. DocInv /\ Next => Local
  <2> SUFFICES ASSUME DocInv, Next, Len(doc) = Len(doc'), config # Refused, config' # Refused
               PROVE  Local
    OBVIOUS
  <2>1. doc \in Seq(BlockIn(Int)) /\ config = ParseDoc(doc) /\ config' = ParseDoc(doc')
    BY Edits DEF DocInv
  <2>2. ASSUME LineIsLocal(doc, doc', config, config') PROVE Local
    BY <2>2 DEF LineIsLocal
  <2>3. ASSUME NestedIsLocal(doc, doc', config, config') PROVE Local
    <3>1. LET k == Differs(doc, doc') IN ~(Len(doc[k].children) < Len(doc'[k].children))
      BY <2>3 DEF NestedIsLocal
    <3> QED
      BY <2>3, <3>1 DEF NestedIsLocal
  <2>4. ASSUME NEW b \in BlockIn(Int), NEW i \in Positions(doc), doc' = InsertAt(doc, i, b)
        PROVE  FALSE
    <3>1. Len(doc') = Len(doc) + 1 /\ Len(doc) \in Nat
      BY <2>1, <2>4, InsertFacts
    <3> QED
      BY <3>1
  <2>5. ASSUME NEW k \in 1..Len(doc), NEW l \in Lines, NEW i \in Positions(doc[k].children),
               doc' = WithLine(doc, k, i, l)
        PROVE  LineIsLocal(doc, doc', config, config')
    BY <2>1, <2>5, LineLocal
  <2>6. ASSUME NEW k \in 1..Len(doc), NEW l \in NestedLines, NEW j \in 1..Len(doc[k].children),
               NEW i \in Positions(doc[k].children[j].children), doc' = WithNested(doc, k, j, i, l)
        PROVE  NestedIsLocal(doc, doc', config, config')
    <3>1. l \in NestedIn(Int)
      BY WritableNested
    <3> QED
      BY <2>1, <2>6, <3>1, NestedLocal
  <2> HIDE DEF Local
  <2> QED
    BY <2>1, <2>2, <2>3, <2>4, <2>5, <2>6, Edits DEF DocInv
<1>2. DocInv /\ [Next]_vars => [Local]_vars
  BY <1>1
<1> QED
  BY <1>2, Invariance, PTL DEF Spec, EditsAreLocal
=============================================================================
