------------------------------- MODULE Corpus -------------------------------
(***************************************************************************)
(* read_text.rs reads the corpus files through a ring buffer of three      *)
(* words into the transitions of a second-order Markov chain, and          *)
(* generator.rs walks the chain to fill the paragraphs of a garbage page.  *)
(*                                                                         *)
(* A text is the sequence of words that Substrings yields after its two    *)
(* leading empty ones, already downcased where the code guesses so: what   *)
(* separates and capitalizes words is abstracted, what depends on a word   *)
(* being punctuation, a sentence's end or empty is not.  Interned words    *)
(* are equal exactly when the words are.  Random choices are made by the   *)
(* step that uses them.                                                    *)
(***************************************************************************)
EXTENDS Integers, FiniteSets, Sequences

CONSTANTS Words,       \* words of the corpus, none of them empty
          Null,        \* the empty word
          Jump,        \* no word: the walk took up somewhere else
          JoinBefore,  \* words that start with one of JOIN_BEFORE
          Endings,     \* words that end a sentence
          Texts,       \* corpora: each a sequence of texts
          WordCounts,  \* garbage.paragraphs.words min..max
          ParaCounts   \* garbage.paragraphs min..max

ASSUME WordsAssumption ==
  /\ Null \notin Words /\ Jump \notin Words \cup {Null}
  /\ JoinBefore \subseteq Words /\ Endings \subseteq Words
  /\ Texts \subseteq Seq(Seq(Words))
  /\ WordCounts \subseteq Nat /\ ParaCounts \subseteq Nat

VARIABLES
  texts,   \* the corpus
  mode,    \* reading, NoContent, between pages, on a page, in a paragraph
  at,      \* the next word to read: <<text, position>>
  window,  \* SubstringsWindows.window
  slot,    \* SubstringsWindows.state: where the next word goes
  map,     \* ParseState.map, then Corpus.map
  state,   \* Generator.state
  paras,   \* paragraphs the page still wants
  words,   \* words the paragraph still wants
  fresh,   \* skip_while has not let a word through yet
  last,    \* the last word put out in this paragraph that is not empty
  panicked,\* history: a page was lost to a panic
  trail    \* history: the last three words generated, with the jump that parts them

readVars == <<mode, at, window, slot, map>>
pageVars == <<state, paras, words, fresh, last, panicked, trail>>
vars == <<texts, readVars, pageVars>>

AnyWord == Words \cup {Null}
Pairs == AnyWord \X AnyWord

Trails == LET Mark == AnyWord \cup {Jump} IN Mark \X Mark \X Mark
NoTrail == <<Jump, Jump, Jump>>

TypeOK ==
  /\ texts \in Texts
  /\ mode \in {"reading", "noContent", "idle", "page", "paragraph"}
  /\ window \in [0..2 -> AnyWord] /\ slot \in 0..2
  /\ DOMAIN map \subseteq Pairs /\ \A k \in DOMAIN map : map[k] \in Seq(Words)
  /\ state \in Pairs
  /\ paras \in Nat /\ words \in Nat /\ fresh \in BOOLEAN /\ last \in AnyWord
  /\ panicked \in BOOLEAN /\ trail \in Trails

NoWindow == [i \in 0..2 |-> Null]

Init ==
  /\ texts \in Texts
  /\ mode = "reading" /\ at = <<1, 1>>
  /\ window = NoWindow /\ slot = 2
  /\ map = [k \in {} |-> <<>>]
  /\ state = <<Null, Null>>
  /\ paras = 0 /\ words = 0 /\ fresh = FALSE /\ last = Null
  /\ panicked = FALSE /\ trail = NoTrail

-----------------------------------------------------------------------------
(* Reading.                                                                *)

\* The window as it stood when the slot was always the last one.
AlwaysInOrder(w, s) == <<w[0], w[1], w[2]>>

\* The three words, oldest first, once slot s has been overwritten.
InOrder(w, s) == <<w[(s + 1) % 3], w[(s + 2) % 3], w[s]>>

NextSlot == (slot + 1) % 3

Followers(k) == IF k \in DOMAIN map THEN map[k] ELSE <<>>

ReadWord ==
  /\ mode = "reading" /\ at[1] <= Len(texts) /\ at[2] <= Len(texts[at[1]])
  /\ window' = [window EXCEPT ![slot] = texts[at[1]][at[2]]]
  /\ LET w == InOrder(window', slot)
         k == <<w[1], w[2]>>
     IN  map' = [j \in DOMAIN map \cup {k} |->
                   IF j = k THEN Append(Followers(k), w[3]) ELSE map[j]]
  /\ slot' = NextSlot
  /\ at' = [at EXCEPT ![2] = @ + 1]
  /\ UNCHANGED <<texts, mode, pageVars>>

\* Reading on with the same window.
NextTextSameWindow ==
  /\ mode = "reading" /\ at[1] <= Len(texts) /\ at[2] > Len(texts[at[1]])
  /\ at' = <<at[1] + 1, 1>>
  /\ UNCHANGED <<texts, mode, window, slot, map, pageVars>>

\* A new iterator, with a new window, for each text.
NextText ==
  /\ mode = "reading" /\ at[1] <= Len(texts) /\ at[2] > Len(texts[at[1]])
  /\ at' = <<at[1] + 1, 1>>
  /\ window' = NoWindow /\ slot' = 2
  /\ UNCHANGED <<texts, mode, map, pageVars>>

\* Accepting a corpus without any words.
FinishAnyway ==
  /\ mode = "reading" /\ at[1] > Len(texts)
  /\ mode' = "idle"
  /\ UNCHANGED <<texts, at, window, slot, map, pageVars>>

\* ParseState::finish.
Finish ==
  /\ mode = "reading" /\ at[1] > Len(texts)
  /\ mode' = IF DOMAIN map = {} THEN "noContent" ELSE "idle"
  /\ UNCHANGED <<texts, at, window, slot, map, pageVars>>

\* The configuration is refused; another one names other files.
OtherCorpus ==
  /\ mode = "noContent"
  /\ texts' \in Texts
  /\ mode' = "reading" /\ at' = <<1, 1>>
  /\ window' = NoWindow /\ slot' = 2
  /\ UNCHANGED <<map, pageVars>>

\* Corpus.states: the pairs a walk may start from.
States == {k \in DOMAIN map : k[1] \notin JoinBefore}

-----------------------------------------------------------------------------
(* Generating.                                                             *)

\* Corpus::generator, and the number of paragraphs.
BeginPage ==
  /\ mode = "idle"
  /\ state' \in IF States = {} THEN {<<Null, Null>>} ELSE States
  /\ paras' \in ParaCounts
  /\ mode' = "page" /\ trail' = NoTrail
  /\ UNCHANGED <<texts, at, window, slot, map, words, fresh, last, panicked>>

BeginParagraph ==
  /\ mode = "page" /\ paras > 0
  /\ words' \in WordCounts
  /\ paras' = paras - 1
  /\ mode' = "paragraph" /\ fresh' = TRUE /\ last' = Null
  /\ UNCHANGED <<texts, at, window, slot, map, state, panicked, trail>>

EndParagraph ==
  /\ mode = "paragraph" /\ words = 0
  /\ mode' = "page" /\ fresh' = FALSE
  /\ UNCHANGED <<texts, at, window, slot, map, state, paras, words, last, panicked, trail>>

EndPage ==
  /\ mode = "page" /\ paras = 0
  /\ mode' = "idle"
  /\ UNCHANGED <<texts, at, window, slot, map, pageVars>>

\* Forgetting which word of the pair moves up.
StuckOn(s, w) == <<s[1], w>>

MovesTo(s, w) == <<s[2], w>>

\* Generator::next puts out the first word of its state.  From a pair that
\* nothing follows it jumps to another one before it moves on, and the second
\* word of the pair it was at is never put out.
Walk ==
  /\ \/ /\ state \in DOMAIN map
        /\ \E n \in DOMAIN map[state] : state' = MovesTo(state, map[state][n])
        /\ trail' = <<trail[2], trail[3], state[1]>>
     \/ /\ state \notin DOMAIN map
        /\ \E s \in States : \E n \in DOMAIN map[s] : state' = MovesTo(s, map[s][n])
        /\ trail' = NoTrail
  /\ UNCHANGED <<texts, readVars, paras>>

\* is_ending of what the paragraph has so far; nothing yet counts as an end.
AtEnd == last = Null \/ last \in Endings

\* The first word of a paragraph is not one that joins what stands before it.
SkipWord ==
  /\ mode = "paragraph" /\ words > 0
  /\ fresh /\ state[1] \in JoinBefore
  /\ Walk
  /\ UNCHANGED <<words, fresh, last, panicked>>

TakeWord ==
  /\ mode = "paragraph" /\ words > 0
  /\ ~(fresh /\ state[1] \in JoinBefore)
  /\ ~(AtEnd /\ state[1] = Null)
  /\ Walk
  /\ words' = words - 1 /\ fresh' = FALSE
  /\ last' = IF state[1] = Null THEN last ELSE state[1]
  /\ UNCHANGED panicked

\* capitalized() expects a first character: the page is lost, the corpus stays.
Panic ==
  /\ mode = "paragraph" /\ words > 0
  /\ AtEnd /\ state[1] = Null
  /\ panicked' = TRUE
  /\ mode' = "idle" /\ fresh' = FALSE
  /\ UNCHANGED <<texts, at, window, slot, map, state, paras, words, last, trail>>

Next ==
  \/ ReadWord \/ NextText \/ Finish \/ OtherCorpus
  \/ BeginPage \/ BeginParagraph \/ EndParagraph \/ EndPage
  \/ SkipWord \/ TakeWord \/ Panic

Spec == Init /\ [][Next]_vars

-----------------------------------------------------------------------------
(* Properties.                                                             *)

Padded(t) == <<Null, Null>> \o texts[t]

\* The word at a position with the two before it.
Trigram(t, i) == <<Padded(t)[i], Padded(t)[i + 1], Padded(t)[i + 2]>>

Positions == UNION {{t} \X (1..Len(texts[t])) : t \in 1..Len(texts)}

ReadSoFar == {p \in Positions : p[1] < at[1] \/ (p[1] = at[1] /\ p[2] < at[2])}

\* The ring buffer and its rotating slot yield the trigrams of each text, as
\* often as they occur in it and none across two texts: the weights of the
\* random walk are those of the corpus.
MapIsTrigrams ==
  \A k \in Pairs, w \in Words :
    Cardinality({n \in DOMAIN Followers(k) : Followers(k)[n] = w}) =
    Cardinality({p \in ReadSoFar : Trigram(p[1], p[2]) = <<k[1], k[2], w>>})

\* Any three words that come out in a row stand in a row in one of the texts,
\* through the ends of paragraphs and the words skipped at their beginning;
\* only a jump breaks the chain.
QuotesCorpus ==
  trail[1] # Jump => \E p \in Positions : Trigram(p[1], p[2]) = trail

\* As long as a page wants words the chain has one: choose() never comes back
\* empty, so no paragraph ends early.
NeverStarved ==
  mode = "paragraph" =>
    IF state \in DOMAIN map THEN map[state] # <<>>
    ELSE States # {} /\ \A s \in States : map[s] # <<>>

\* A text with three words in a row that join what stands before them, like the
\* stops of a spaced ellipsis.
ThreeJoined ==
  \E p \in Positions : \A i \in 1..3 : Trigram(p[1], p[2])[i] \in JoinBefore

\* The pairs the walk may move to.
Onward(s) ==
  UNION {{MovesTo(r, map[r][n]) : n \in DOMAIN map[r]} :
           r \in IF s \in DOMAIN map THEN {s} ELSE States}

\* skip_while ends: two more words of the walk can lead to one that may begin the
\* paragraph, unless the corpus has an ellipsis of the kind above, where a walk
\* may be caught for ever.
SkipCanEnd ==
  mode = "paragraph" /\ fresh /\ ~ThreeJoined =>
    \/ state[1] \notin JoinBefore
    \/ \E s \in Onward(state) :
         s[1] \notin JoinBefore \/ \E r \in Onward(s) : r[1] \notin JoinBefore

\* "expected word to have at least 1 character".
WordsHaveCharacters == ~panicked
=============================================================================
