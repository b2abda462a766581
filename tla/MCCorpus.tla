------------------------------ MODULE MCCorpus ------------------------------
(***************************************************************************)
(* Two texts.  The first is long enough for the ring buffer to come round  *)
(* and for loops of the chain; the second is a word that may continue it.  *)
(***************************************************************************)
EXTENDS Corpus, SequencesExt

CONSTANTS a, b, comma, stop

Plain  == BoundedSeq({a, b}, 5)
Marked == BoundedSeq({a, comma, stop}, 3)

SmallTexts == {<<s, t>> : s \in Plain \cup Marked, t \in BoundedSeq({a, stop}, 1)}
=============================================================================
