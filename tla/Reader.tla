------------------------------- MODULE Reader -------------------------------
(***************************************************************************)
(* How read_text.rs makes words of a text (Substrings) and stores each of  *)
(* them once (ParseState::intern).  Corpus goes on from there: it takes a  *)
(* text for its sequence of words and an interned word for the word.       *)
(*                                                                         *)
(* One character of each class that the code tells apart: "a" and "A" are  *)
(* letters of either case, "eacute" and "Eacute" letters outside of ASCII  *)
(* ("eacute" is also what has no case, a digit or a dash), "-" is ASCII    *)
(* punctuation that does not split words, "ldquo" and "rdquo" are the      *)
(* quotation marks outside of ASCII.                                       *)
(***************************************************************************)
EXTENDS Integers, SequencesExt

CONSTANTS Chars,     \* classes of characters in the texts
          MaxLength  \* bound of the run: length of a text

Capitals   == {"A", "Eacute"}
AllLetters == {"a", "eacute"} \cup Capitals
AllChars   == AllLetters \cup {"space", "-", ".", ",", ")", "(", "ldquo", "rdquo"}

ASSUME CharsAssumption == Chars \subseteq AllChars /\ MaxLength \in Nat

JOIN_BEFORE == {",", ".", ")", "rdquo"}
JOIN_AFTER  == {"(", "ldquo"}
Splits      == JOIN_BEFORE \cup JOIN_AFTER

VARIABLES source,        \* the text
          pos,           \* Substrings.inner: the next character, from 1
          sentenceStart, \* Substrings.start_of_sentence
          words,         \* what next() has yielded, behind the leading empty words
          compressed, interned  \* ParseState

readerVars == <<source, pos, sentenceStart, words, compressed, interned>>

-----------------------------------------------------------------------------
Trimmed(s) ==
  LET last == SelectLastInSeq(s, LAMBDA c : c # "space") IN SubSeq(s, 1, last)

\* is_ending: SENTENCE_ENDINGS are stops, and stops that something closes.
IsEnding(s) ==
  LET t == Trimmed(s)
  IN  \/ t = <<>> \/ Last(t) = "."
      \/ Len(t) > 1 /\ t[Len(t) - 1] = "." /\ Last(t) \in {"rdquo", ")"}

\* The end of the word that begins at a: white space, or a character that
\* splits words in a word that does not, or the other way round.
EndOf(a) ==
  LET stops == {i \in (a + 1)..Len(source) :
                  source[i] = "space" \/ ((source[i] \in Splits) # (source[a] \in Splits))}
  IN  IF stops = {} THEN Len(source) + 1 ELSE Min(stops)

\* Stepping over the character a word ends at, whatever it is.
PastEnd(a, b) == Min({b + 1, Len(source) + 1})

\* The white space that ends a word is used up, but not behind punctuation.
AfterEnd(a, b) ==
  IF b <= Len(source) /\ source[b] = "space" /\ source[a] \notin Splits THEN b + 1 ELSE b

\* Guessing as if every word began a sentence.
GuessAnywhere(w) == \A i \in 2..Len(w) : w[i] \notin Capitals

\* Capitalized::Normal, which loses its capital.
Normal(w) == \A i \in DOMAIN w : w[i] \in Capitals => i = 1 /\ sentenceStart

\* to_lowercase, which knows all of Unicode.
Small(c) == CASE c = "A" -> "a" [] c = "Eacute" -> "eacute" [] OTHER -> c

Lowered(w) == [i \in DOMAIN w |-> Small(w[i])]

\* The length of the word instead of its end.
StartAndLength(text, w) == <<Len(text), Len(w)>>

\* Substring(start, end) of a word put behind the text there is.
StoredAt(text, w) == <<Len(text), Len(text) + Len(w)>>

Intern(w) ==
  IF w \in DOMAIN interned THEN UNCHANGED <<compressed, interned>>
  ELSE /\ compressed' = compressed \o w
       /\ interned' = [v \in DOMAIN interned \cup {w} |->
                         IF v = w THEN StoredAt(compressed, w) ELSE interned[v]]

ReaderInit ==
  /\ source \in BoundedSeq(Chars, MaxLength)
  /\ pos = 1 /\ sentenceStart = TRUE /\ words = <<>>
  /\ compressed = <<>> /\ interned = [w \in {<<>>} |-> <<0, 0>>]

Reading == \E i \in pos..Len(source) : source[i] # "space"

\* Substrings::next and what read does with it.
ReadWord ==
  /\ Reading
  /\ LET a == Min({i \in pos..Len(source) : source[i] # "space"})
         b == EndOf(a)
         w == SubSeq(source, a, b - 1)
         d == IF Normal(w) THEN Lowered(w) ELSE w
     IN  /\ pos' = AfterEnd(a, b)
         /\ words' = Append(words, d)
         /\ Intern(d)
         /\ sentenceStart' = ((sentenceStart /\ source[a] \in Splits) \/ IsEnding(w))
  /\ UNCHANGED source

ReaderSpec == ReaderInit /\ [][ReadWord]_readerVars

-----------------------------------------------------------------------------
(* Properties.                                                             *)

\* The characters of s that are in set, in their order.
Only(set, s) == FlattenSeq([i \in DOMAIN s |-> IF s[i] \in set THEN <<s[i]>> ELSE <<>>])

Printed(s) == Only(AllChars \ {"space"}, s)

\* The words read so far are the text so far, but for white space and the case
\* of letters: no character is lost, doubled or put into another order.
NothingLost ==
  Lowered(FlattenSeq(words)) = Lowered(Printed(SubSeq(source, 1, pos - 1)))

SplitsOnly(w) == w[1] \in Splits

\* Words that begin a sentence: nothing but punctuation stands between them and
\* the end of another, or the beginning.
BeginsSentence(k) ==
  \E j \in 0..(k - 1) :
    /\ j = 0 \/ IsEnding(words[j])
    /\ \A i \in (j + 1)..(k - 1) : SplitsOnly(words[i])

\* Where word k begins in what is printed of the text.
Offset(k) == Len(FlattenSeq(SubSeq(words, 1, k - 1)))

\* A capital is only lost by the first letter of a word that begins a sentence
\* and has no other: names keep theirs.
OnlySentenceCapitalsAreLost ==
  \A k \in DOMAIN words : \A i \in DOMAIN words[k] :
    LET was == Printed(source)[Offset(k) + i]
    IN  was # words[k][i] => i = 1 /\ BeginsSentence(k) /\ Range(words[k]) \cap Capitals = {}

\* Every word can be found again where it is stored, and two words that are the
\* same to a reader have one place: a pair of places is a pair of words.
InternedWordsAreWords ==
  /\ \A w \in DOMAIN interned : SubSeq(compressed, interned[w][1] + 1, interned[w][2]) = w
  /\ Range(words) \subseteq DOMAIN interned
  /\ \A v, w \in DOMAIN interned : interned[v] = interned[w] => v = w
=============================================================================
