------------------------------ MODULE MCCrawl -------------------------------
(***************************************************************************)
(* Configurations that differ from one another in one setting each: the    *)
(* poisons, the separator, the ranges, the words.                          *)
(***************************************************************************)
EXTENDS Crawl

CONSTANTS bot, mask, friend

MCTokens ==
  {"/", ".", "?", "-", "css", "js", "well-known", "psl-fetch", "a", "p", "q", "t", "v", "w"}

NoAsns == [i \in {} |-> NoAsn]

Base ==
  [poisons |-> {<<"p">>}, words |-> {<<"w">>, <<"v">>}, separator |-> <<"-">>,
   trailingSlash |-> FALSE, paragraphs |-> <<1, 2>>, paragraphWords |-> <<0, 1>>,
   links |-> <<0, 2>>, linkWords |-> <<1, 2>>]

MCConfigs ==
  {Base,
   [Base EXCEPT !.poisons = {<<"p">>, <<"w", "/">>}, !.trailingSlash = TRUE],
   [Base EXCEPT !.poisons = {<<"p", ".", "js">>}],
   [Base EXCEPT !.poisons = {<<"v", "-", "w">>}],   \* what other words may spell
   [Base EXCEPT !.poisons = {<<"p", "/">>}, !.linkWords = <<0, 1>>],
   [Base EXCEPT !.poisons = {}],
   [Base EXCEPT !.separator = <<"/">>, !.words = {<<>>, <<"w">>}],
   [Base EXCEPT !.separator = <<".">>, !.words = {<<"css">>, <<"w", "/">>}],
   [Base EXCEPT !.linkWords = <<1, 3>>],            \* more words than there are
   [Base EXCEPT !.linkWords = <<2, 1>>],
   [Base EXCEPT !.paragraphs = <<2, 1>>]}

MCEntryPaths ==
  {<<"/">>, <<"/", "a">>, <<"/", "a", "/">>, <<"/", "a", ".", "css">>, <<"/", "a", ".", "js">>,
   <<"/", "a", "?", "q">>, <<"/", "p">>, <<"/", "t">>}

MCTrustedPath == <<"/", "t">>
=============================================================================
