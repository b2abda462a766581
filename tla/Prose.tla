------------------------------- MODULE Prose --------------------------------
(***************************************************************************)
(* How generator.rs prints a paragraph: capitals, white space, the closing *)
(* full stop.  The words are those that Reader made of a text, in the      *)
(* order they have there; but for the capital of a name that begins a      *)
(* sentence, every sequence of words is the reading of some text.  A walk  *)
(* through a Corpus also puts out empty words, wherever it goes on from    *)
(* the place in front of a text, and as often as it does.  The words and   *)
(* the empty words between them are the walks a Corpus can take.           *)
(***************************************************************************)
EXTENDS Reader

CONSTANT MaxEmpty  \* bound of the run: words wanted beyond those of the text

ASSUME EmptyAssumption == MaxEmpty \in Nat

VARIABLES
  wanted,          \* words that generate still takes from the walk
  next,            \* the word that the walk puts out next
  output,
  must_capitalize,
  gaps,            \* of the white space in output, what stands in front of empty words
  phase            \* reading, skipping, taking, closed, panicked

proseVars == <<wanted, next, output, must_capitalize, gaps, phase>>
vars == <<readerVars, proseVars>>

-----------------------------------------------------------------------------
Ascii == {"-", ".", ",", ")", "("}

\* is_punct of the generator, which knows no quotation mark outside of ASCII.
IsPunct(w) == Range(w) \subseteq Ascii

\* capitalized, of a word that has a character: to_ascii_uppercase leaves
\* letters outside of ASCII as they are.
Capitalized(w) == [i \in DOMAIN w |-> IF i = 1 /\ w[1] = "a" THEN "A" ELSE w[i]]

\* White space in front of every word.
AlwaysSpaced(out, w) == IF out = <<>> THEN <<>> ELSE <<"space">>

Spacing(out, w) ==
  IF out = <<>> \/ (w # <<>> /\ w[1] \in JOIN_BEFORE) \/ Last(out) \in JOIN_AFTER
  THEN <<>> ELSE <<"space">>

\* must_capitalize of the next word.
MustCapitalize(flag, w, out) == (flag /\ IsPunct(w)) \/ IsEnding(out)

\* Putting the stop in the place of any last character.
StopInPlace(out) == IF IsEnding(out) THEN out ELSE Append(Front(out), ".")

\* The closing stop, in the place of a last character that is punctuation.
Closed(out) ==
  IF IsEnding(out) THEN out
  ELSE IF Last(out) \in Ascii THEN Append(Front(out), ".") ELSE Append(out, ".")

Init ==
  /\ ReaderInit
  /\ wanted = 0 /\ next = 1 /\ output = <<>> /\ must_capitalize = TRUE
  /\ gaps = {} /\ phase = "reading"

Read == phase = "reading" /\ ReadWord /\ UNCHANGED proseVars

Generate ==
  /\ phase = "reading" /\ ~Reading
  /\ wanted' \in 0..(Len(words) + MaxEmpty)
  /\ phase' = "skipping"
  /\ UNCHANGED <<readerVars, next, output, must_capitalize, gaps>>

\* skip_while, before the first word.
Skip ==
  /\ phase = "skipping" /\ wanted > 0 /\ next <= Len(words)
  /\ words[next][1] \in JOIN_BEFORE
  /\ next' = next + 1
  /\ UNCHANGED <<readerVars, wanted, output, must_capitalize, gaps, phase>>

Take ==
  /\ phase = "taking" \/ (phase = "skipping" /\ next <= Len(words) /\ words[next][1] \notin JOIN_BEFORE)
  /\ wanted > 0 /\ next <= Len(words)
  /\ LET w    == words[next]
         must == MustCapitalize(must_capitalize, w, output)
         word == IF must THEN Capitalized(w) ELSE w
     IN  /\ must_capitalize' = FALSE
         /\ output' = output \o Spacing(output, word) \o word
  /\ wanted' = wanted - 1 /\ next' = next + 1 /\ phase' = "taking"
  /\ UNCHANGED <<readerVars, gaps>>

\* An empty word has no first character to make a capital of; otherwise it leaves
\* nothing but the white space in front of it.
TakeEmpty ==
  /\ phase \in {"skipping", "taking"} /\ wanted > 0
  /\ IF MustCapitalize(must_capitalize, <<>>, output)
     THEN phase' = "panicked" /\ UNCHANGED <<output, must_capitalize, gaps>>
     ELSE /\ output' = output \o Spacing(output, <<>>)
          /\ gaps' = gaps \cup (Len(output) + 1)..Len(output')
          /\ must_capitalize' = FALSE /\ phase' = "taking"
  /\ wanted' = wanted - 1
  /\ UNCHANGED <<readerVars, next>>

Close ==
  /\ phase \in {"skipping", "taking"} /\ (wanted = 0 \/ next > Len(words))
  /\ output' = Closed(output) /\ phase' = "closed"
  /\ UNCHANGED <<readerVars, wanted, next, must_capitalize, gaps>>

Next == Read \/ Generate \/ Skip \/ Take \/ TakeEmpty \/ Close

Spec == Init /\ [][Next]_vars

-----------------------------------------------------------------------------
(* Properties.                                                             *)

\* A paragraph is set as it should be, at every word: the letter that follows
\* the end of a sentence is a capital (if it is of ASCII), and white space stands
\* between words and nowhere else, not before what joins the word before it, nor
\* behind what joins the word after it.  What an empty word adds stands behind
\* neither that nor the end of a sentence.  (The closing stop can be set off, where
\* it takes the place of an opening bracket.)
WellSet ==
  LET Before(i) == SubSeq(output, 1, i - 1)
  IN  /\ \A i \in DOMAIN output : output[i] = "a" => ~IsEnding(Before(i))
      /\ \A i \in DOMAIN output : output[i] = "space" =>
           /\ i > 1 /\ output[i - 1] \notin JOIN_AFTER
           /\ \/ i \in gaps /\ ~IsEnding(Before(i))
              \/ /\ i < Len(output) /\ output[i + 1] # "space"
                 /\ output[i + 1] \notin JOIN_BEFORE \/ (phase = "closed" /\ i + 1 = Len(output))

\* A text of whole sentences, each of which begins with a word and a capital.
Orderly ==
  /\ words # <<>> /\ IsEnding(Last(words))
  /\ \A k \in DOMAIN words : BeginsSentence(k) =>
       ~SplitsOnly(words[k]) /\ Printed(source)[Offset(k) + 1] # "a"

\* Reading and printing undo each other: an orderly text comes out again
\* character by character, its names and its sentences with their capitals.  Only
\* a letter outside of ASCII stays what the reader made of it: the capital that
\* begins a sentence, and is lowered, comes out small.
OrderlyTextComesBack ==
  phase = "closed" /\ wanted = 0 /\ next > Len(words) /\ Orderly =>
    LET text == Printed(source)
        read == FlattenSeq(words)
    IN  Printed(output) =
          [i \in DOMAIN text |-> IF read[i] \in {"eacute", "Eacute"} THEN read[i] ELSE text[i]]

\* A paragraph is empty or ends as a sentence does, and neither skipping words
\* nor closing it takes a letter away.
ParagraphEndsWithSentence ==
  phase = "closed" =>
    /\ IsEnding(output)
    /\ LET Letters(s) == Only(AllLetters, s)
       IN  Lowered(Letters(output)) =
             Lowered(Letters(FlattenSeq(SubSeq(words, 1, next - 1))))
=============================================================================
