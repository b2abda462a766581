---------------------------- MODULE CorpusProofs -----------------------------
(***************************************************************************)
(* For every corpus and every page length: the chain has each trigram as   *)
(* often as it occurs, the walk never runs dry, and what it puts out in a  *)
(* row stands in a row in one of the texts.                                *)
(***************************************************************************)
EXTENDS Corpus, FiniteSetTheorems, TLAPS

Trigrams == {Trigram(p[1], p[2]) : p \in Positions}

\* While a text is read, the two slots that are not written next hold the two
\* words before the next one.
ReadingInv ==
  /\ at \in (Nat \ {0}) \X (Nat \ {0})
  /\ mode = "reading" /\ at[1] <= Len(texts) =>
       /\ at[2] <= Len(texts[at[1]]) + 1
       /\ window[(slot + 1) % 3] = Padded(at[1])[at[2]]
       /\ window[(slot + 2) % 3] = Padded(at[1])[at[2] + 1]
       /\ at[2] > 1 => <<Null, Null>> \in DOMAIN map

\* Every transition of the chain is a trigram of the corpus, and every text
\* starts from the two empty words.
MapInv ==
  /\ \A k \in DOMAIN map :
       /\ map[k] # <<>>
       /\ \A n \in DOMAIN map[k] : <<k[1], k[2], map[k][n]>> \in Trigrams
  /\ DOMAIN map # {} => <<Null, Null>> \in DOMAIN map
  /\ mode \in {"idle", "page", "paragraph"} => DOMAIN map # {}
  /\ mode = "noContent" => DOMAIN map = {}

\* The words put out since the last jump and the pair to come are a chain of
\* trigrams.
ChainInv ==
  /\ mode \in {"reading", "noContent"} => trail = NoTrail
  /\ trail[1] # Jump => trail[2] # Jump
  /\ trail[2] # Jump => trail[3] # Jump
  /\ trail[1] # Jump => <<trail[1], trail[2], trail[3]>> \in Trigrams
  /\ trail[2] # Jump => <<trail[2], trail[3], state[1]>> \in Trigrams
  /\ trail[3] # Jump => <<trail[3], state[1], state[2]>> \in Trigrams

IInv == TypeOK /\ ReadingInv /\ MapInv /\ ChainInv

-----------------------------------------------------------------------------
LEMMA NullPair == <<Null, Null>> \in Pairs /\ Null \in AnyWord /\ Words \subseteq AnyWord
  BY DEF Pairs, AnyWord

LEMMA TextType ==
  ASSUME TypeOK, NEW t \in 1..Len(texts)
  PROVE  texts \in Seq(Seq(Words)) /\ texts[t] \in Seq(Words)
  BY WordsAssumption DEF TypeOK

LEMMA PairWords ==
  ASSUME NEW p \in Pairs
  PROVE  p[1] \in AnyWord /\ p[2] \in AnyWord
  BY DEF Pairs

LEMMA TrailMarks ==
  ASSUME NEW p \in Trails
  PROVE  /\ p = <<p[1], p[2], p[3]>>
         /\ \A x \in AnyWord : <<p[2], p[3], x>> \in Trails
  BY DEF Trails

LEMMA NoTrailFacts == NoTrail \in Trails /\ \A i \in 1..3 : NoTrail[i] = Jump
  BY DEF NoTrail, Trails

\* Two empty words, then the text.
LEMMA PaddedFacts ==
  ASSUME TypeOK, NEW t \in 1..Len(texts)
  PROVE  /\ Padded(t)[1] = Null /\ Padded(t)[2] = Null
         /\ \A i \in 1..Len(texts[t]) : Padded(t)[i + 2] = texts[t][i]
<1>1. texts[t] \in Seq(Words)
  BY TextType
<1> QED
  BY <1>1 DEF Padded

LEMMA InitInv == Init => IInv
<1> SUFFICES ASSUME Init PROVE IInv
  OBVIOUS
<1>1. TypeOK
  <2>1. DOMAIN map = {}
    BY DEF Init
  <2>2. window \in [0..2 -> AnyWord] /\ slot \in 0..2
    BY NullPair DEF Init, NoWindow
  <2>3. trail \in Trails
    BY NoTrailFacts DEF Init
  <2>4. /\ texts \in Texts /\ mode = "reading" /\ state = <<Null, Null>> /\ paras = 0
        /\ words = 0 /\ fresh = FALSE /\ last = Null /\ panicked = FALSE
    BY DEF Init
  <2> QED
    BY <2>1, <2>2, <2>3, <2>4, NullPair DEF TypeOK
<1>2. ReadingInv
  <2>1. ASSUME 1 <= Len(texts)
        PROVE  /\ 1 <= Len(texts[1]) + 1
               /\ window[(slot + 1) % 3] = Padded(1)[1] /\ window[(slot + 2) % 3] = Padded(1)[2]
    <3>1. 1 \in 1..Len(texts) /\ texts[1] \in Seq(Words)
      BY <1>1, <2>1, TextType, WordsAssumption DEF TypeOK
    <3> QED
      BY <1>1, <3>1, PaddedFacts DEF Init, NoWindow
  <2> QED
    BY <2>1 DEF Init, ReadingInv
<1>3. MapInv
  BY DEF Init, MapInv
<1>4. ChainInv
  BY NoTrailFacts DEF Init, ChainInv
<1> QED
  BY <1>1, <1>2, <1>3, <1>4 DEF IInv

-----------------------------------------------------------------------------
(* Reading.                                                                *)

\* The slot just written and the two before it are a trigram of the text.
LEMMA WordRead ==
  ASSUME IInv, ReadWord
  PROVE  LET t == at[1]
             i == at[2]
             word == texts[t][i]
             w == InOrder(window', slot)
             k == <<w[1], w[2]>>
         IN
         /\ t \in 1..Len(texts) /\ i \in 1..Len(texts[t]) /\ i \in Nat \ {0}
         /\ texts[t] \in Seq(Words) /\ word \in Words /\ at = <<t, i>>
         /\ window \in [0..2 -> AnyWord] /\ slot \in 0..2
         /\ window' = [window EXCEPT ![slot] = word] /\ slot' = (slot + 1) % 3
         /\ at' = <<t, i + 1>>
         /\ w = Trigram(t, i) /\ w[3] = word
         /\ window'[(slot' + 1) % 3] = Padded(t)[i + 1]
         /\ window'[(slot' + 2) % 3] = Padded(t)[i + 2]
         /\ k \in Pairs /\ w = <<k[1], k[2], word>> /\ w \in Trigrams
<1> DEFINE t == at[1]
           i == at[2]
           word == texts[t][i]
           w == InOrder(window', slot)
           k == <<w[1], w[2]>>
<1>1. /\ t \in 1..Len(texts) /\ i \in 1..Len(texts[t]) /\ i \in Nat \ {0}
      /\ texts[t] \in Seq(Words) /\ word \in Words /\ at = <<t, i>>
  <2>1. t \in Nat \ {0} /\ i \in Nat \ {0} /\ at = <<t, i>>
    BY DEF IInv, ReadingInv
  <2>2. t <= Len(texts) /\ i <= Len(texts[t])
    BY DEF ReadWord
  <2>3. texts \in Seq(Seq(Words))
    BY WordsAssumption DEF IInv, TypeOK
  <2>4. t \in 1..Len(texts)
    BY <2>1, <2>2, <2>3
  <2>5. texts[t] \in Seq(Words)
    BY <2>3, <2>4
  <2>6. i \in 1..Len(texts[t])
    BY <2>1, <2>2, <2>5
  <2>7. word \in Words
    BY <2>5, <2>6
  <2> QED
    BY <2>1, <2>4, <2>5, <2>6, <2>7
<1>2. /\ window \in [0..2 -> AnyWord] /\ slot \in 0..2
      /\ window' = [window EXCEPT ![slot] = word] /\ slot' = (slot + 1) % 3
      /\ at' = <<t, i + 1>>
  <2>1. window \in [0..2 -> AnyWord] /\ slot \in 0..2
    BY DEF IInv, TypeOK
  <2>2. window' = [window EXCEPT ![slot] = word] /\ slot' = (slot + 1) % 3
    BY DEF ReadWord, NextSlot
  <2>3. at' = [at EXCEPT ![2] = @ + 1]
    BY DEF ReadWord
  <2>4. at' = <<t, i + 1>>
    BY <1>1, <2>3
  <2> QED
    BY <2>1, <2>2, <2>4
<1>3. /\ w = Trigram(t, i) /\ w[3] = word
      /\ window'[(slot' + 1) % 3] = Padded(t)[i + 1]
      /\ window'[(slot' + 2) % 3] = Padded(t)[i + 2]
  <2>1. /\ window[(slot + 1) % 3] = Padded(t)[i] /\ window[(slot + 2) % 3] = Padded(t)[i + 1]
        /\ Padded(t)[i + 2] = word
    BY <1>1, PaddedFacts DEF IInv, ReadingInv, ReadWord
  <2> HIDE DEF word
  <2>2. CASE slot = 0
    BY <1>2, <2>1, <2>2 DEF InOrder, Trigram
  <2>3. CASE slot = 1
    BY <1>2, <2>1, <2>3 DEF InOrder, Trigram
  <2>4. CASE slot = 2
    BY <1>2, <2>1, <2>4 DEF InOrder, Trigram
  <2> QED
    BY <1>2, <2>2, <2>3, <2>4
<1>4. k \in Pairs /\ w = <<k[1], k[2], word>> /\ w \in Trigrams
  <2>1. w[1] \in AnyWord /\ w[2] \in AnyWord
    BY <1>1, <1>2, NullPair DEF InOrder
  <2>2. <<t, i>> \in Positions
    BY <1>1 DEF Positions
  <2>3. w = <<w[1], w[2], w[3]>>
    BY DEF InOrder
  <2> HIDE DEF w
  <2> QED
    BY <1>3, <2>1, <2>2, <2>3 DEF Trigrams, Pairs
<1> HIDE DEF t, i, word, w, k
<1>5. /\ t \in 1..Len(texts) /\ i \in 1..Len(texts[t]) /\ i \in Nat \ {0}
      /\ texts[t] \in Seq(Words) /\ word \in Words /\ at = <<t, i>>
      /\ window \in [0..2 -> AnyWord] /\ slot \in 0..2
      /\ window' = [window EXCEPT ![slot] = word] /\ slot' = (slot + 1) % 3
      /\ at' = <<t, i + 1>>
      /\ w = Trigram(t, i) /\ w[3] = word
      /\ window'[(slot' + 1) % 3] = Padded(t)[i + 1]
      /\ window'[(slot' + 2) % 3] = Padded(t)[i + 2]
      /\ k \in Pairs /\ w = <<k[1], k[2], word>> /\ w \in Trigrams
  BY <1>1, <1>2, <1>3, <1>4
<1> QED
  BY <1>5 DEF t, i, word, w, k

LEMMA ReadWordInv ==
  ASSUME IInv, ReadWord
  PROVE  IInv'
<1> DEFINE t == at[1]
           i == at[2]
           word == texts[t][i]
           w == InOrder(window', slot)
           k == <<w[1], w[2]>>
<1> HIDE DEF t, i, word, w, k
<1>1. /\ t \in 1..Len(texts) /\ i \in 1..Len(texts[t]) /\ i \in Nat \ {0}
      /\ texts[t] \in Seq(Words) /\ word \in Words /\ at = <<t, i>>
  BY WordRead DEF t, i, word, w, k
<1>2. /\ window \in [0..2 -> AnyWord] /\ slot \in 0..2
      /\ window' = [window EXCEPT ![slot] = word] /\ slot' = (slot + 1) % 3
      /\ at' = <<t, i + 1>>
  BY WordRead DEF t, i, word, w, k
<1>3. /\ w = Trigram(t, i) /\ w[3] = word
      /\ window'[(slot' + 1) % 3] = Padded(t)[i + 1]
      /\ window'[(slot' + 2) % 3] = Padded(t)[i + 2]
  BY WordRead DEF t, i, word, w, k
<1>4. k \in Pairs /\ w = <<k[1], k[2], word>> /\ w \in Trigrams
  BY WordRead DEF t, i, word, w, k
<1> USE DEF t, i, word, w, k
<1>5. map' = [j \in DOMAIN map \cup {k} |->
                IF j = k THEN Append(Followers(k), word) ELSE map[j]]
  BY <1>3 DEF ReadWord
<1>6. UNCHANGED <<texts, mode, state, paras, words, fresh, last, panicked, trail>>
      /\ mode = "reading"
  BY DEF ReadWord, pageVars
<1> HIDE DEF t, i, word, w, k
<1>7. Followers(k) \in Seq(Words)
  BY <1>4 DEF IInv, TypeOK, Followers
<1>8. DOMAIN map' = DOMAIN map \cup {k} /\ map'[k] = Append(Followers(k), word)
      /\ \A j \in DOMAIN map \ {k} : map'[j] = map[j]
  BY <1>5
<1>9. TypeOK'
  <2>1. window' \in [0..2 -> AnyWord] /\ slot' \in 0..2
    BY <1>1, <1>2, NullPair
  <2>2. DOMAIN map' \subseteq Pairs
    BY <1>4, <1>8 DEF IInv, TypeOK
  <2>3. map'[k] \in Seq(Words)
    BY <1>1, <1>7, <1>8
  <2>4. \A j \in DOMAIN map' : map'[j] \in Seq(Words)
    BY <1>8, <2>3 DEF IInv, TypeOK
  <2> QED
    BY <1>6, <2>1, <2>2, <2>4 DEF IInv, TypeOK
<1>10. ReadingInv'
  <2>1. i + 1 \in Nat \ {0} /\ i + 1 <= Len(texts[t]) + 1 /\ t \in Nat \ {0}
    BY <1>1
  <2>2. <<Null, Null>> \in DOMAIN map'
    <3>1. CASE i = 1
      <4>1. k = <<Padded(t)[1], Padded(t)[2]>>
        BY <1>3, <1>4, <3>1 DEF Trigram, k
      <4> QED
        BY <1>1, <1>8, <4>1, PaddedFacts DEF IInv
    <3>2. CASE i > 1
      BY <1>1, <1>8, <3>2 DEF IInv, ReadingInv, ReadWord
    <3> QED
      BY <1>1, <3>1, <3>2
  <2>3. \A u : Padded(u)' = Padded(u)
    BY <1>6 DEF Padded
  <2>4. i + 2 = (i + 1) + 1
    BY <1>1
  <2> QED
    BY <1>2, <1>3, <1>6, <2>1, <2>2, <2>3, <2>4 DEF ReadingInv, Padded
<1>11. Trigrams' = Trigrams
  BY <1>6 DEF Trigrams, Trigram, Padded, Positions
<1>12. MapInv'
  <2>1. map'[k] # <<>>
    BY <1>1, <1>7, <1>8
  <2>2. \A n \in DOMAIN map'[k] : <<k[1], k[2], map'[k][n]>> \in Trigrams
    <3>1. \A n \in DOMAIN Followers(k) : <<k[1], k[2], Followers(k)[n]>> \in Trigrams
      BY DEF Followers, IInv, MapInv
    <3>2. <<k[1], k[2], word>> \in Trigrams
      BY <1>4
    <3>3. ASSUME NEW n \in DOMAIN map'[k]
          PROVE  map'[k][n] = word \/ (n \in DOMAIN Followers(k) /\ map'[k][n] = Followers(k)[n])
      BY <1>1, <1>7, <1>8
    <3> QED
      BY <3>1, <3>2, <3>3
  <2>3. <<Null, Null>> \in DOMAIN map'
    BY <1>10, <1>1, <1>2, <1>6 DEF ReadingInv
  <2> QED
    BY <1>6, <1>8, <1>11, <2>1, <2>2, <2>3 DEF IInv, MapInv
<1>13. ChainInv'
  BY <1>6, <1>11 DEF IInv, ChainInv
<1> QED
  BY <1>9, <1>10, <1>12, <1>13 DEF IInv

\* Steps that leave corpus and chain alone keep every part but the reading.
LEMMA SameMap ==
  ASSUME IInv, UNCHANGED <<texts, map>>, TypeOK', ReadingInv',
         mode' \in {"idle", "page", "paragraph"} => DOMAIN map # {},
         mode' = "noContent" => DOMAIN map = {},
         ChainInv'
  PROVE  IInv'
<1>1. Trigrams' = Trigrams
  BY DEF Trigrams, Trigram, Padded, Positions
<1>2. MapInv'
  BY <1>1 DEF IInv, MapInv
<1> QED
  BY <1>2 DEF IInv

LEMMA NextTextInv ==
  ASSUME IInv, NextText
  PROVE  IInv'
<1>1. TypeOK'
  BY NullPair DEF IInv, TypeOK, NextText, NoWindow, pageVars
<1>2. ReadingInv'
  <2> DEFINE t == at[1] + 1
  <2>1. t \in Nat \ {0} /\ at' = <<t, 1>>
    BY DEF IInv, ReadingInv, NextText
  <2>2. ASSUME t <= Len(texts)
        PROVE  /\ 1 <= Len(texts[t]) + 1
               /\ Padded(t)[1] = Null /\ Padded(t)[2] = Null
    <3>1. t \in 1..Len(texts)
      BY <2>1, <2>2 DEF IInv, TypeOK
    <3>2. texts[t] \in Seq(Words)
      BY <3>1, TextType DEF IInv
    <3> QED
      BY <3>1, <3>2, PaddedFacts DEF IInv
  <2>3. window'[(slot' + 1) % 3] = Null /\ window'[(slot' + 2) % 3] = Null
    BY DEF NextText, NoWindow
  <2>4. texts' = texts
    BY DEF NextText
  <2>5. 1 + 1 = 2
    OBVIOUS
  <2> HIDE DEF t
  <2> QED
    BY <2>1, <2>2, <2>3, <2>4, <2>5 DEF ReadingInv, Padded
<1>3. Trigrams' = Trigrams
  BY DEF Trigrams, Trigram, Padded, Positions, NextText
<1>4. ChainInv'
  BY <1>3 DEF IInv, ChainInv, NextText, pageVars
<1> QED
  BY <1>1, <1>2, <1>4, SameMap DEF NextText

LEMMA FinishInv ==
  ASSUME IInv, Finish
  PROVE  IInv'
<1>1. TypeOK'
  BY DEF IInv, TypeOK, Finish, pageVars
<1>2. ReadingInv'
  BY DEF IInv, ReadingInv, Finish
<1>3. Trigrams' = Trigrams
  BY DEF Trigrams, Trigram, Padded, Positions, Finish
<1>4. ChainInv'
  BY <1>3 DEF IInv, ChainInv, Finish, pageVars
<1> QED
  BY <1>1, <1>2, <1>4, SameMap DEF Finish

LEMMA OtherCorpusInv ==
  ASSUME IInv, OtherCorpus
  PROVE  IInv'
<1>1. TypeOK'
  BY NullPair DEF IInv, TypeOK, OtherCorpus, NoWindow, pageVars
<1>2. DOMAIN map = {} /\ map' = map /\ trail' = trail /\ trail = NoTrail
  BY DEF IInv, MapInv, ChainInv, OtherCorpus, pageVars
<1>3. ReadingInv'
  <2>1. /\ at' = <<1, 1>> /\ texts' \in Texts
        /\ window'[(slot' + 1) % 3] = Null /\ window'[(slot' + 2) % 3] = Null
    BY DEF OtherCorpus, NoWindow
  <2>2. ASSUME 1 <= Len(texts')
        PROVE  /\ 1 <= Len(texts'[1]) + 1
               /\ Padded(1)'[1] = Null /\ Padded(1)'[2] = Null
    <3>1. texts' \in Seq(Seq(Words)) /\ texts'[1] \in Seq(Words)
      BY <2>1, <2>2, WordsAssumption
    <3> QED
      BY <3>1 DEF Padded
  <2>3. 1 + 1 = 2
    OBVIOUS
  <2> QED
    BY <2>1, <2>2, <2>3 DEF ReadingInv, Padded
<1>4. MapInv' /\ ChainInv'
  BY <1>2, NoTrailFacts DEF MapInv, ChainInv, OtherCorpus
<1> QED
  BY <1>1, <1>3, <1>4 DEF IInv

-----------------------------------------------------------------------------
(* Generating.                                                             *)

\* From any pair the chain knows there is a next word.
LEMMA Fed ==
  ASSUME TypeOK, MapInv, DOMAIN map # {}
  PROVE  /\ States # {}
         /\ \A s \in States : s \in DOMAIN map
         /\ \A s \in DOMAIN map : map[s] # <<>>
<1>1. <<Null, Null>> \in States
  BY WordsAssumption DEF MapInv, States
<1> QED
  BY <1>1 DEF MapInv, States

LEMMA WalkInv ==
  ASSUME TypeOK, MapInv, ChainInv, mode = "paragraph", Walk
  PROVE  /\ state' \in Pairs /\ trail' \in Trails
         /\ UNCHANGED <<texts, mode, at, window, slot, map, paras>>
         /\ ChainInv'
<1>1. UNCHANGED <<texts, mode, at, window, slot, map, paras>>
  BY DEF Walk, readVars
<1>2. Trigrams' = Trigrams
  BY <1>1 DEF Trigrams, Trigram, Padded, Positions
<1>3. state[1] \in AnyWord /\ state[2] \in AnyWord /\ trail \in Trails
  <2>1. state \in Pairs /\ trail \in Trails
    BY DEF TypeOK
  <2> QED
    BY <2>1, PairWords
<1>4. CASE state \notin DOMAIN map
  <2>1. PICK s \in States : \E n \in DOMAIN map[s] : state' = MovesTo(s, map[s][n])
    BY <1>4 DEF Walk
  <2>2. PICK n \in DOMAIN map[s] : state' = MovesTo(s, map[s][n])
    BY <2>1
  <2>3. s \in Pairs /\ map[s] \in Seq(Words)
    BY DEF States, TypeOK
  <2>4. state' \in Pairs
    BY <2>2, <2>3, NullPair DEF MovesTo, Pairs
  <2>5. trail' = NoTrail
    BY <1>4 DEF Walk
  <2> QED
    BY <1>1, <2>4, <2>5, NoTrailFacts DEF ChainInv
<1>5. CASE state \in DOMAIN map
  <2>1. PICK n \in DOMAIN map[state] : state' = MovesTo(state, map[state][n])
    BY <1>5 DEF Walk
  <2> DEFINE w == map[state][n]
  <2>2. w \in Words /\ <<state[1], state[2], w>> \in Trigrams
    BY <1>5 DEF TypeOK, MapInv
  <2>3. state' = <<state[2], w>> /\ state' \in Pairs
    BY <1>3, <2>1, <2>2, NullPair DEF MovesTo, Pairs
  <2>4. trail' = <<trail[2], trail[3], state[1]>> /\ trail' \in Trails
    BY <1>3, <1>5, TrailMarks DEF Walk
  <2>5. state[1] # Jump
    BY <1>3, WordsAssumption DEF AnyWord
  <2> HIDE DEF w
  <2> QED
    BY <1>1, <1>2, <2>2, <2>3, <2>4, <2>5 DEF ChainInv
<1> QED
  BY <1>4, <1>5

\* A step of a page that is not a walk: the chain's pair and trail stay, or
\* start anew.
LEMMA PageInv ==
  ASSUME IInv, BeginPage \/ BeginParagraph \/ EndParagraph \/ EndPage \/ Panic
  PROVE  IInv'
<1>1. /\ UNCHANGED <<texts, at, window, slot, map>> /\ DOMAIN map # {}
      /\ mode' \in {"idle", "page", "paragraph"} /\ mode \in {"idle", "page", "paragraph"}
      /\ trail' = NoTrail \/ UNCHANGED <<state, trail>>
  BY DEF BeginPage, BeginParagraph, EndParagraph, EndPage, Panic, IInv, MapInv, pageVars
<1>2. state' \in Pairs
  BY NullPair DEF BeginPage, BeginParagraph, EndParagraph, EndPage, Panic, IInv, TypeOK,
                  States, pageVars
<1>3. paras' \in Nat /\ words' \in Nat /\ fresh' \in BOOLEAN /\ last' \in AnyWord
      /\ panicked' \in BOOLEAN
  <2> USE NullPair, WordsAssumption DEF IInv, TypeOK
  <2>1. CASE BeginPage
    BY <2>1 DEF BeginPage
  <2>2. CASE BeginParagraph
    BY <2>2 DEF BeginParagraph
  <2>3. CASE EndParagraph
    BY <2>3 DEF EndParagraph
  <2>4. CASE EndPage
    BY <2>4 DEF EndPage, pageVars
  <2>5. CASE Panic
    BY <2>5 DEF Panic
  <2> QED
    BY <2>1, <2>2, <2>3, <2>4, <2>5
<1>4. TypeOK'
  <2>1. trail' \in Trails
    <3>1. CASE trail' = NoTrail
      BY <3>1, NoTrailFacts
    <3>2. CASE trail' = trail
      BY <3>2 DEF IInv, TypeOK
    <3> QED
      BY <1>1, <3>1, <3>2
  <2>2. UNCHANGED <<texts, window, slot, map>>
    BY <1>1
  <2> QED
    BY <1>1, <1>2, <1>3, <2>1, <2>2 DEF IInv, TypeOK
<1>5. ReadingInv'
  BY <1>1 DEF IInv, ReadingInv
<1>6. Trigrams' = Trigrams
  BY <1>1 DEF Trigrams, Trigram, Padded, Positions
<1>7. ChainInv'
  BY <1>1, <1>6, NoTrailFacts DEF IInv, ChainInv
<1> QED
  BY <1>1, <1>4, <1>5, <1>7, SameMap

LEMMA WordInv ==
  ASSUME IInv, SkipWord \/ TakeWord
  PROVE  IInv'
<1>1. mode = "paragraph" /\ Walk /\ panicked' = panicked
  BY DEF SkipWord, TakeWord
<1>2. /\ state' \in Pairs /\ trail' \in Trails
      /\ UNCHANGED <<texts, mode, at, window, slot, map, paras>>
      /\ ChainInv'
  BY <1>1, WalkInv DEF IInv
<1>3. words' \in Nat /\ fresh' \in BOOLEAN /\ last' \in AnyWord
  <2>1. words \in Nat /\ fresh \in BOOLEAN /\ last \in AnyWord /\ state[1] \in AnyWord
    BY PairWords DEF IInv, TypeOK
  <2>2. CASE SkipWord
    BY <2>1, <2>2 DEF SkipWord
  <2>3. CASE TakeWord
    <3>1. words > 0 /\ words' = words - 1 /\ fresh' = FALSE
      BY <2>3 DEF TakeWord
    <3>2. words' \in Nat
      BY <2>1, <3>1
    <3>3. last' = last \/ last' = state[1]
      BY <2>3 DEF TakeWord
    <3> QED
      BY <2>1, <3>1, <3>2, <3>3
  <2> QED
    BY <2>2, <2>3
<1>4. TypeOK' /\ ReadingInv' /\ DOMAIN map # {}
  BY <1>1, <1>2, <1>3 DEF IInv, TypeOK, ReadingInv, MapInv
<1> QED
  BY <1>1, <1>2, <1>4, SameMap

LEMMA StepInv == IInv /\ [Next]_vars => IInv'
<1> SUFFICES ASSUME IInv, [Next]_vars PROVE IInv'
  OBVIOUS
<1>1. CASE UNCHANGED vars
  <2>1. Trigrams' = Trigrams
    BY <1>1 DEF vars, Trigrams, Trigram, Padded, Positions
  <2> QED
    BY <1>1, <2>1 DEF vars, readVars, pageVars, IInv, TypeOK, ReadingInv, MapInv, ChainInv,
                      Padded
<1> QED
  BY <1>1, ReadWordInv, NextTextInv, FinishInv, OtherCorpusInv, PageInv, WordInv DEF Next

\* The invariant holds in every reachable state.
THEOREM Invariance == Spec => []IInv
<1> QED
  BY InitInv, StepInv, PTL DEF Spec

\* The state always has its type: words stay non-empty, slots within the window.
THEOREM TypeCorrect == Spec => []TypeOK
<1>1. IInv => TypeOK
  BY DEF IInv
<1> QED
  BY <1>1, Invariance, PTL

\* The generator always has a next word.
THEOREM NeverStarvedCorrect == Spec => []NeverStarved
<1>1. IInv => NeverStarved
  BY Fed DEF IInv, NeverStarved, MapInv
<1> QED
  BY <1>1, Invariance, PTL

\* From a pair the chain knows it moves on, by a trigram of the corpus.
LEMMA OnwardFromMap ==
  ASSUME TypeOK, MapInv, NEW s \in DOMAIN map
  PROVE  \E w \in Words : <<s[1], s[2], w>> \in Trigrams /\ <<s[2], w>> \in Onward(s)
<1>1. map[s] \in Seq(Words) /\ map[s] # <<>>
  BY DEF TypeOK, MapInv
<1>2. 1 \in DOMAIN map[s] /\ map[s][1] \in Words
  BY <1>1
<1>3. <<s[1], s[2], map[s][1]>> \in Trigrams
  BY <1>2 DEF MapInv
<1>4. <<s[2], map[s][1]>> \in Onward(s)
  BY <1>2 DEF Onward, MovesTo
<1> QED
  BY <1>2, <1>3, <1>4

\* From any other pair it can move to the beginning of a text.
LEMMA OnwardFromElsewhere ==
  ASSUME TypeOK, MapInv, DOMAIN map # {}, NEW s, s \notin DOMAIN map
  PROVE  \E r \in Onward(s) : r[1] \notin JoinBefore
<1> DEFINE o == <<Null, Null>>
<1>1. o \in States /\ o \in DOMAIN map
  BY WordsAssumption DEF MapInv, States
<1>2. 1 \in DOMAIN map[o]
  <2>1. map[o] \in Seq(Words) /\ map[o] # <<>>
    BY <1>1 DEF TypeOK, MapInv
  <2> QED
    BY <2>1
<1>3. MovesTo(o, map[o][1]) \in Onward(s)
  BY <1>1, <1>2 DEF Onward
<1>4. MovesTo(o, map[o][1])[1] \notin JoinBefore
  BY WordsAssumption DEF MovesTo
<1> QED
  BY <1>3, <1>4

\* Looking for the first word of a paragraph ends, in a corpus without spaced
\* ellipses: two pairs that both begin with joining words lead to one that does
\* not, or to a jump.
THEOREM SkipCanEndCorrect == Spec => []SkipCanEnd
<1>1. IInv => SkipCanEnd
  <2> SUFFICES ASSUME IInv, mode = "paragraph", ~ThreeJoined, state[1] \in JoinBefore,
                      ~ \E s \in Onward(state) : s[1] \notin JoinBefore
               PROVE  \E s \in Onward(state) : \E r \in Onward(s) : r[1] \notin JoinBefore
    BY DEF SkipCanEnd
  <2> USE DEF IInv
  <2>1. DOMAIN map # {} /\ state \in DOMAIN map
    BY OnwardFromElsewhere DEF MapInv
  <2>2. PICK w \in Words : <<state[1], state[2], w>> \in Trigrams
                           /\ <<state[2], w>> \in Onward(state)
    BY <2>1, OnwardFromMap
  <2> DEFINE s == <<state[2], w>>
  <2>3. s[1] = state[2] /\ s[2] = w /\ s \in Onward(state) /\ s[1] \in JoinBefore
    BY <2>2
  <2> HIDE DEF s
  <2>4. w \notin JoinBefore
    <3>1. PICK p \in Positions : Trigram(p[1], p[2]) = <<state[1], state[2], w>>
      BY <2>2 DEF Trigrams
    <3>2. Trigram(p[1], p[2])[1] \in JoinBefore /\ Trigram(p[1], p[2])[2] \in JoinBefore
          /\ Trigram(p[1], p[2])[3] = w
      BY <3>1, <2>3
    <3> QED
      BY <3>2 DEF ThreeJoined
  <2>5. \E r \in Onward(s) : r[1] \notin JoinBefore
    <3>1. CASE s \in DOMAIN map
      <4>1. \E v \in Words : <<s[2], v>> \in Onward(s)
        BY <3>1, OnwardFromMap
      <4> QED
        BY <4>1, <2>3, <2>4
    <3>2. CASE s \notin DOMAIN map
      BY <2>1, <3>2, OnwardFromElsewhere
    <3> QED
      BY <3>1, <3>2
  <2> QED
    BY <2>3, <2>5
<1> QED
  BY <1>1, Invariance, PTL

\* What is put out in a row was written in a row.
THEOREM QuotesCorrect == Spec => []QuotesCorpus
<1>1. IInv => QuotesCorpus
  <2> SUFFICES ASSUME IInv, trail[1] # Jump
               PROVE  \E p \in Positions : Trigram(p[1], p[2]) = trail
    BY DEF QuotesCorpus
  <2>1. <<trail[1], trail[2], trail[3]>> \in Trigrams /\ trail = <<trail[1], trail[2], trail[3]>>
    BY TrailMarks DEF IInv, ChainInv, TypeOK
  <2> QED
    BY <2>1 DEF Trigrams
<1> QED
  BY <1>1, Invariance, PTL

-----------------------------------------------------------------------------
(* How often a trigram was read is how often its transition can be drawn.   *)

Counted(k, w) == {n \in DOMAIN Followers(k) : Followers(k)[n] = w}
Met(k, w) == {p \in ReadSoFar : Trigram(p[1], p[2]) = <<k[1], k[2], w>>}

CountInv ==
  /\ IsFiniteSet(ReadSoFar)
  /\ \A k \in Pairs, w \in Words : Cardinality(Counted(k, w)) = Cardinality(Met(k, w))

\* Appending a word adds a place to that word's places and to no other's.
LEMMA PlacesAppend ==
  ASSUME NEW S, NEW s \in Seq(S), NEW x \in S, NEW w \in S
  PROVE  LET t == Append(s, x)
             before == {n \in DOMAIN s : s[n] = w}
             after  == {n \in DOMAIN t : t[n] = w}
         IN  /\ x # w => after = before
             /\ x = w => Cardinality(after) = Cardinality(before) + 1
<1> DEFINE t == Append(s, x)
           before == {n \in DOMAIN s : s[n] = w}
           after  == {n \in DOMAIN t : t[n] = w}
           m == Len(s)
<1>1. /\ m \in Nat /\ DOMAIN s = 1..m /\ DOMAIN t = 1..(m + 1)
      /\ t[m + 1] = x /\ \A n \in 1..m : t[n] = s[n]
  OBVIOUS
<1> HIDE DEF m, t
<1>2. x # w => after = before
  BY <1>1
<1>3. ASSUME x = w PROVE Cardinality(after) = Cardinality(before) + 1
  <2>1. after = before \cup {m + 1} /\ m + 1 \notin before /\ before \subseteq 1..m
    BY <1>1, <1>3
  <2>2. IsFiniteSet(before)
    <3> m \in Int /\ 1 \in Int
      BY <1>1
    <3>1. IsFiniteSet(1..m)
      BY FS_Interval
    <3> QED
      BY <2>1, <3>1, FS_Subset
  <2> HIDE DEF before, after
  <2> QED
    BY <2>1, <2>2, FS_AddElement
<1> HIDE DEF before, after
<1>4. (x # w => after = before) /\ (x = w => Cardinality(after) = Cardinality(before) + 1)
  BY <1>2, <1>3
<1> QED
  BY <1>4 DEF before, after, t

LEMMA ReadWordCount ==
  ASSUME IInv, CountInv, ReadWord
  PROVE  CountInv'
<1> DEFINE t == at[1]
           i == at[2]
           word == texts[t][i]
           v == InOrder(window', slot)
           j == <<v[1], v[2]>>
           here == <<t, i>>
<1>1. /\ t \in 1..Len(texts) /\ i \in 1..Len(texts[t]) /\ i \in Nat \ {0}
      /\ word \in Words /\ at' = <<t, i + 1>>
      /\ v = Trigram(t, i) /\ v[3] = word /\ j \in Pairs /\ v = <<j[1], j[2], word>>
  BY WordRead
<1>2. map' = [l \in DOMAIN map \cup {j} |->
                IF l = j THEN Append(Followers(j), word) ELSE map[l]]
  BY <1>1 DEF ReadWord
<1>3. texts' = texts
  BY DEF ReadWord
<1> HIDE DEF t, i, word, v, j
<1>4. ReadSoFar' = ReadSoFar \cup {here} /\ here \notin ReadSoFar
  <2>1. Positions' = Positions
    BY <1>3 DEF Positions
  <2>2. here \in Positions
    BY <1>1 DEF Positions
  <2>3. ASSUME NEW p \in Positions
        PROVE  /\ p[2] \in Nat /\ p = <<p[1], p[2]>>
    BY <1>1, <1>3 DEF Positions, IInv, TypeOK
  <2>4. ASSUME NEW p \in Positions
        PROVE  (p[1] < at'[1] \/ (p[1] = at'[1] /\ p[2] < at'[2]))
                 <=> (p[1] < t \/ (p[1] = t /\ p[2] < i) \/ p = here)
    <3>1. p[2] < i + 1 <=> p[2] < i \/ p[2] = i
      BY <2>3, <1>1
    <3> QED
      BY <2>3, <1>1, <3>1
  <2>5. ~(here[1] < t \/ (here[1] = t /\ here[2] < i))
    BY <1>1
  <2>6. ReadSoFar = {p \in Positions : p[1] < t \/ (p[1] = t /\ p[2] < i)}
    BY DEF ReadSoFar, t, i
  <2>7. ReadSoFar' = {p \in Positions : p[1] < at'[1] \/ (p[1] = at'[1] /\ p[2] < at'[2])}
    BY <2>1 DEF ReadSoFar
  <2> HIDE DEF here
  <2> QED
    BY <2>2, <2>4, <2>5, <2>6, <2>7
<1>5. Trigram(here[1], here[2]) = <<j[1], j[2], word>>
  BY <1>1
<1> HIDE DEF here
<1>6. IsFiniteSet(ReadSoFar')
  BY <1>4, FS_AddElement DEF CountInv
<1>7. \A a, b : Trigram(a, b)' = Trigram(a, b)
  BY <1>3 DEF Trigram, Padded
<1>8. ASSUME NEW k \in Pairs, NEW w \in Words
      PROVE  Cardinality(Counted(k, w)') = Cardinality(Met(k, w)')
  <2>1. Cardinality(Counted(k, w)) = Cardinality(Met(k, w))
    BY DEF CountInv
  <2>2. k = <<k[1], k[2]>>
    BY DEF Pairs
  <2>3. CASE k = j
    <3>1. Followers(k)' = Append(Followers(k), word) /\ Followers(k) \in Seq(Words)
      BY <1>2, <2>3 DEF Followers, IInv, TypeOK
    <3>2. CASE word # w
      <4>1. Counted(k, w)' = Counted(k, w)
        <5> DEFINE s == Followers(k)
        <5> HIDE DEF s
        <5>1. {n \in DOMAIN Append(s, word) : Append(s, word)[n] = w} = {n \in DOMAIN s : s[n] = w}
          BY <1>1, <3>1, <3>2, PlacesAppend DEF s
        <5> QED
          BY <3>1, <5>1, Zenon DEF Counted, s
      <4>2. Trigram(here[1], here[2]) # <<k[1], k[2], w>>
        BY <1>5, <3>2
      <4>3. Met(k, w)' = Met(k, w)
        BY <1>4, <1>7, <4>2 DEF Met
      <4> QED
        BY <2>1, <4>1, <4>3
    <3>3. CASE word = w
      <4>1. Cardinality(Counted(k, w)') = Cardinality(Counted(k, w)) + 1
        <5> DEFINE s == Followers(k)
                   after == {n \in DOMAIN Append(s, word) : Append(s, word)[n] = w}
        <5>1. Counted(k, w)' = after /\ Counted(k, w) = {n \in DOMAIN s : s[n] = w}
          BY <3>1, Zenon DEF Counted
        <5> HIDE DEF s
        <5>2. Cardinality(after) = Cardinality({n \in DOMAIN s : s[n] = w}) + 1
          BY <1>1, <3>1, <3>3, PlacesAppend, SMTT(30) DEF s
        <5> QED
          BY <5>1, <5>2, Zenon
      <4>2. Trigram(here[1], here[2]) = <<k[1], k[2], w>>
        BY <1>5, <2>3, <3>3
      <4>3. Met(k, w)' = Met(k, w) \cup {here} /\ here \notin Met(k, w)
        BY <1>4, <1>7, <4>2 DEF Met
      <4>4. IsFiniteSet(Met(k, w))
        BY FS_Subset DEF Met, CountInv
      <4> QED
        BY <2>1, <4>1, <4>3, <4>4, FS_AddElement
    <3> QED
      BY <3>2, <3>3
  <2>4. CASE k # j
    <3>1. Followers(k)' = Followers(k)
      BY <1>2, <2>4 DEF Followers
    <3>2. Trigram(here[1], here[2]) # <<k[1], k[2], w>>
      <4>1. j = <<j[1], j[2]>>
        BY <1>1 DEF Pairs
      <4> QED
        BY <1>5, <2>2, <2>4, <4>1
    <3>3. Met(k, w)' = Met(k, w) /\ Counted(k, w)' = Counted(k, w)
      BY <1>4, <1>7, <3>1, <3>2 DEF Met, Counted
    <3> QED
      BY <2>1, <3>3
  <2> QED
    BY <2>3, <2>4
<1> QED
  BY <1>6, <1>8 DEF CountInv

LEMMA SameCount ==
  ASSUME CountInv, UNCHANGED <<texts, map>>, ReadSoFar' = ReadSoFar
  PROVE  CountInv'
<1>1. \A a, b : Trigram(a, b)' = Trigram(a, b)
  BY DEF Trigram, Padded
<1>2. \A k \in Pairs, w \in Words : Met(k, w)' = Met(k, w)
  BY <1>1 DEF Met
<1>3. \A k : Followers(k)' = Followers(k)
  BY DEF Followers
<1>4. \A k \in Pairs, w \in Words : Counted(k, w)' = Counted(k, w)
  BY <1>3 DEF Counted
<1> QED
  BY <1>2, <1>4 DEF CountInv

\* Going on to the next text reads nothing, and leaves nothing of the last one.
LEMMA NextTextCount ==
  ASSUME IInv, CountInv, NextText
  PROVE  CountInv'
<1>1. texts' = texts /\ map' = map /\ at' = <<at[1] + 1, 1>> /\ at[2] > Len(texts[at[1]])
  BY DEF NextText
<1>2. at[1] \in Nat /\ at[2] \in Nat
  BY DEF IInv, ReadingInv
<1>3. ASSUME NEW p \in Positions
      PROVE  (p[1] < at'[1] \/ (p[1] = at'[1] /\ p[2] < at'[2]))
               <=> (p[1] < at[1] \/ (p[1] = at[1] /\ p[2] < at[2]))
  <2>1. p[1] \in 1..Len(texts) /\ p[2] \in 1..Len(texts[p[1]])
    BY DEF Positions
  <2>2. Len(texts[p[1]]) \in Nat
    BY <2>1, TextType DEF IInv
  <2>3. p[1] \in Nat /\ p[2] \in Nat /\ p[2] >= 1 /\ p[2] <= Len(texts[p[1]])
    BY <2>1, <2>2
  <2>4. at'[1] = at[1] + 1 /\ at'[2] = 1
    BY <1>1
  <2>5. CASE p[1] = at[1]
    BY <1>1, <1>2, <2>2, <2>3, <2>4, <2>5
  <2>6. CASE p[1] # at[1]
    BY <1>2, <2>3, <2>4, <2>6
  <2> QED
    BY <2>5, <2>6
<1>4. ReadSoFar' = ReadSoFar
  BY <1>1, <1>3 DEF ReadSoFar, Positions
<1> QED
  BY <1>1, <1>4, SameCount

LEMMA NothingReadYet ==
  ASSUME at = <<1, 1>>, map = [k \in {} |-> <<>>] \/ DOMAIN map = {}, texts \in Texts
  PROVE  CountInv
<1>1. ReadSoFar = {}
  <2>1. ASSUME NEW p \in Positions
        PROVE  ~(p[1] < at[1] \/ (p[1] = at[1] /\ p[2] < at[2]))
    <3>1. p[1] \in 1..Len(texts) /\ p[2] \in 1..Len(texts[p[1]])
      BY DEF Positions
    <3>2. Len(texts) \in Nat /\ texts[p[1]] \in Seq(Words)
      BY <3>1, WordsAssumption
    <3>3. Len(texts[p[1]]) \in Nat
      BY <3>2
    <3>4. p[1] >= 1 /\ p[2] >= 1 /\ p[1] \in Nat /\ p[2] \in Nat
      BY <3>1, <3>2, <3>3
    <3> QED
      BY <3>4
  <2> QED
    BY <2>1 DEF ReadSoFar
<1>2. DOMAIN map = {}
  OBVIOUS
<1>3. \A k \in Pairs, w \in Words : Counted(k, w) = {} /\ Met(k, w) = {}
  BY <1>1, <1>2 DEF Counted, Met, Followers
<1> QED
  BY <1>1, <1>3, FS_EmptySet DEF CountInv

LEMMA CountKept == IInv /\ CountInv /\ [Next]_vars => CountInv'
<1> SUFFICES ASSUME IInv, CountInv, [Next]_vars PROVE CountInv'
  OBVIOUS
<1>1. ASSUME UNCHANGED <<texts, at, map>> PROVE CountInv'
  <2>1. ReadSoFar' = ReadSoFar
    BY <1>1 DEF ReadSoFar, Positions
  <2> QED
    BY <1>1, <2>1, SameCount
<1>2. CASE OtherCorpus
  <2>1. (at = <<1, 1>> /\ DOMAIN map = {} /\ texts \in Texts)'
    BY <1>2 DEF OtherCorpus, IInv, MapInv
  <2>2. (at = <<1, 1>> /\ DOMAIN map = {} /\ texts \in Texts => CountInv)'
    BY NothingReadYet, PTL
  <2> QED
    BY <2>1, <2>2
<1> QED
  BY <1>1, <1>2, ReadWordCount, NextTextCount
     DEF Next, vars, readVars, pageVars, Finish, BeginPage, BeginParagraph, EndParagraph, EndPage,
         SkipWord, TakeWord, Walk, Panic

\* A transition of the chain is as often in the map as its three words are in the
\* corpus: the ring buffer loses none, repeats none, and makes none up.
THEOREM MapCorrect == Spec => []MapIsTrigrams
<1>1. Init => CountInv
  BY NothingReadYet DEF Init
<1>2. CountInv => MapIsTrigrams
  BY DEF CountInv, Counted, Met, MapIsTrigrams
<1> QED
  BY <1>1, <1>2, CountKept, Invariance, PTL DEF Spec
=============================================================================
