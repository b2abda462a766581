------------------------------- MODULE Crawl --------------------------------
(***************************************************************************)
(* A crawler walks through garbage pages.  garbage.rs puts a poison into   *)
(* every link of a page, so that whoever follows it is known, whatever     *)
(* agent it then pretends to be; handler.rs serves what it asks for and    *)
(* classifier.rs judges it.  A SIGHUP may change poisons, words and limits *)
(* while the crawler holds a page of before.                               *)
(*                                                                         *)
(* A path is a sequence of tokens: "/", ".", "?", and pieces of text that  *)
(* have none of these.  A poison is a sequence of tokens too, so that it   *)
(* may have a slash or a dot, and may come about where others meet.  One   *)
(* pass decides here, as in proxy mode; the second pass of preflight mode  *)
(* is the subject of Preflight.                                            *)
(***************************************************************************)
EXTENDS Classifier, FiniteSets, SequencesExt

CONSTANTS
  Tokens,      \* what paths are made of
  Configs,     \* configurations the operator may load
  EntryPaths,  \* where a crawler may come in
  Unwanted, Trusted,  \* agents of the classifier's lists
  TrustedPath, \* the one trusted path
  NoPage,      \* the crawler holds no page of garbage
  MaxPath      \* bound of the run: tokens of a path

ASSUME PathsAssumption ==
  /\ {"/", ".", "css", "js", "well-known", "psl-fetch"} \subseteq Tokens
  /\ EntryPaths \subseteq Seq(Tokens)

Plain == Tokens \ {"?"}

\* A question mark in them would hide the rest of a link from the classifier.
ASSUME ConfigsAssumption ==
  /\ NoPage \notin Configs
  /\ \A c \in Configs :
       /\ c.poisons \cup c.words \cup {c.separator} \subseteq Seq(Plain)
       /\ IsFiniteSet(c.words)
       /\ {c.paragraphs, c.paragraphWords, c.links, c.linkWords} \subseteq Nat \X Nat

VARIABLES
  config,   \* configuration in force, as Garbage and Classifier hold it
  page,     \* the page the crawler holds
  via       \* history: configuration of the page whose reference it followed

vars == <<config, page, via>>

-----------------------------------------------------------------------------
(* Paths.                                                                  *)

\* str::contains.
Occurs(p, path) ==
  \E i \in 1..(Len(path) + 1 - Len(p)) : SubSeq(path, i, i + Len(p) - 1) = p

Poisoned(c, path) == \E p \in c.poisons : Occurs(p, path)

EndsWithSlash(path) == path # <<>> /\ Last(path) = "/"

\* lib.rs, last_dot: 0 if the last segment has no dot or only begins with one.
LastDot(path) ==
  LET slash == SelectLastInSeq(path, LAMBDA t : t = "/")
      dot   == SelectLastInSeq(path, LAMBDA t : t = ".")
  IN  IF dot > slash + 1 THEN dot ELSE 0

NoExtension == <<>>

\* http_path_extname, without its dot.
Extname(path) ==
  IF LastDot(path) = 0 THEN NoExtension ELSE SubSeq(path, LastDot(path) + 1, Len(path))

TypeOf(path) ==
  IF Extname(path) \in {<<"css">>, <<"js">>} THEN Extname(path)[1] ELSE "html"

\* uri().path() is what stands before the query.
UriPath(path) ==
  LET query == SelectInSeq(path, LAMBDA t : t = "?")
  IN  IF query = 0 THEN path ELSE SubSeq(path, 1, query - 1)

FETCH_PATH == <<"/", ".", "well-known", "/", "psl-fetch">>

\* resource_type, which the metrics count.
ResourceType(path) ==
  IF UriPath(path) = FETCH_PATH THEN "fetch" ELSE TypeOf(UriPath(path))

-----------------------------------------------------------------------------
(* Pages.                                                                  *)

\* A range is written <<min, max>>.
In(range) == range[1]..range[2]

\* Garbage::new asks for num_words().end().
WordsNeeded(c) == c.linkWords[2]

Accepted(c) == Cardinality(c.words) >= WordsNeeded(c)

\* What sample() can return: as many different words as there are, at most n.
Samples(c, n) ==
  LET most == IF n <= Cardinality(c.words) THEN n ELSE Cardinality(c.words)
  IN  {s \in [1..most -> c.words] : IsInjective(s)}

\* The words, each behind the separator.
Spelled(c, s) == FlattenSeq([i \in DOMAIN s |-> c.separator \o s[i]])

Joined(path) == IF EndsWithSlash(path) THEN path ELSE path \o <<"/">>

\* References of a page at path.
Refs(c, path, end) ==
  {Joined(path) \o p \o Spelled(c, s) \o end :
     p \in c.poisons, s \in UNION {Samples(c, n) : n \in In(c.linkWords)}}

\* Giving every page its links.
LinksEverywhere(c, path) ==
  IF In(c.links) \subseteq {0} THEN {}
  ELSE Refs(c, path, IF c.trailingSlash THEN <<"/">> ELSE <<>>)

\* render: a poisoned page is a leaf.
Links(c, path) ==
  IF Poisoned(c, path) \/ In(c.links) \subseteq {0} THEN {}
  ELSE Refs(c, path, IF c.trailingSlash THEN <<"/">> ELSE <<>>)

\* Forgetting that an extension begins with a dot.
BareResources(c, path, ext) ==
  IF Poisoned(c, path) THEN {} ELSE Refs(c, path, <<ext>>)

\* generate_resource_link.
Resources(c, path, ext) ==
  IF Poisoned(c, path) THEN {} ELSE Refs(c, path, <<".", ext>>)

\* Whether the page has paragraphs, by the number drawn.
HasParagraphs(c) ==
  IF In(c.paragraphs) = {} THEN {FALSE} ELSE {n > 0 : n \in In(c.paragraphs)}

\* The ranges that render draws from.
Drawn(c, path, paragraphs) ==
  {c.paragraphs} \cup (IF paragraphs THEN {c.paragraphWords} ELSE {}) \cup
  (IF Poisoned(c, path) \/ c.poisons = {} THEN {} ELSE {c.links, c.linkWords})

\* random_range panics on a range without a number: the page is lost.
Panics(c, path, paragraphs) ==
  TypeOf(path) = "html" /\ \E r \in Drawn(c, path, paragraphs) : In(r) = {}

\* So does a paragraph that begins with an empty word (see Corpus).
MayPanic(c, path, paragraphs) ==
  TypeOf(path) = "html" /\ paragraphs /\ ~(In(c.paragraphWords) \subseteq {0})

\* A page remembers its configuration, which all its references are drawn from.
Page(c, path) == [path |-> path, from |-> c, type |-> TypeOf(path)]

References(p) ==
  Links(p.from, p.path) \cup Resources(p.from, p.path, "css") \cup Resources(p.from, p.path, "js")

\* What the crawler can ask for next.  A script fetches one fixed path.
Ahead(p) ==
  CASE p.type = "html" -> References(p)
    [] p.type = "js"   -> {FETCH_PATH}
    [] OTHER           -> {}

-----------------------------------------------------------------------------
\* What the classifier holds of a configuration, as far as one path goes.
RulesFor(c, path) ==
  [trustedPaths |-> {TrustedPath}, trustedIps |-> {}, trustedAgents |-> Trusted,
   unwantedAgents |-> Unwanted, unwantedAsns |-> {}, asnsDb |-> FALSE, header |-> NoHeader,
   poisonedPaths |-> IF Poisoned(c, UriPath(path)) THEN {UriPath(path)} ELSE {}]

Judged(c, path, agent) ==
  Classify(RulesFor(c, path),
           [path |-> UriPath(path), agent |-> agent, ip |-> NoIp, header |-> NoHeader,
            value |-> "other"],
           NoIp)

Init ==
  /\ config \in {c \in Configs : Accepted(c)}
  /\ page = NoPage /\ via = NoPage

\* A configuration that Garbage::new refuses leaves the old one in force.
Reload ==
  /\ \E c \in Configs : Accepted(c) /\ config' = c
  /\ UNCHANGED <<page, via>>

\* A request of some agent.  The site itself answers a valid one, and no one
\* one that is lost.
Ask(path, agent) ==
  \E paragraphs \in HasParagraphs(config) :
    LET spam == Judged(config, path, agent).kind = "spam"
    IN  \/ spam /\ ~Panics(config, path, paragraphs) /\ page' = Page(config, path)
        \/ /\ ~spam \/ Panics(config, path, paragraphs) \/ MayPanic(config, path, paragraphs)
           /\ page' = NoPage

Enter ==
  /\ \E path \in EntryPaths, agent \in Agents \cup {NoAgent} : Ask(path, agent)
  /\ via' = NoPage
  /\ UNCHANGED config

Follow ==
  /\ page # NoPage
  /\ \E path \in Ahead(page), agent \in Agents \cup {NoAgent} :
       Len(path) <= MaxPath /\ Ask(path, agent)
  /\ via' = IF page.type = "html" THEN page.from ELSE NoPage
  /\ UNCHANGED config

Next == Reload \/ Enter \/ Follow

Spec == Init /\ [][Next]_vars

-----------------------------------------------------------------------------
(* Properties.                                                             *)

Html == page # NoPage /\ page.type = "html"

\* Whoever follows a reference of a garbage page is answered with spam, under
\* whatever agent, unless it is a trusted one: also after a reload, as long as
\* it takes away none of the poisons the page was made with.  (A page asked for
\* with a query is left out: its poison ends up in the query.)
ReferencesLeadToSpam ==
  Html /\ page.from.poisons \subseteq config.poisons /\ "?" \notin Range(page.path) =>
    \A path \in Ahead(page), agent \in (Agents \cup {NoAgent}) \ Trusted :
      path # TrustedPath => Judged(config, path, agent).kind = "spam"

\* Nothing leads on from a page that a reference led to: a crawler cannot go
\* deeper than one step under one configuration, with a query or without.
PagesBehindLinksAreLeaves == Html /\ via = page.from => Ahead(page) = {}

\* A reference to a style sheet or a script is answered with one and counted as
\* one, if its name has more than the extension.
ResourcesKeepTheirType ==
  Html /\ "?" \notin Range(page.path) =>
    \A ext \in {"css", "js"} : \A path \in Resources(page.from, page.path, ext) :
      ~EndsWithSlash(SubSeq(path, 1, Len(path) - 2)) =>
        TypeOf(path) = ext /\ ResourceType(path) = ext
=============================================================================
