---------------------------- MODULE ConfigParse -----------------------------
(***************************************************************************)
(* parse.rs makes a Config of the nodes of a KDL document, and an operator *)
(* edits that document one node at a time.  A document is a sequence of    *)
(* blocks, a block holds lines, some lines hold lines of their own.  A     *)
(* node is its name, its entries (arguments, and properties with a name)   *)
(* and its children, as the kdl crate yields them.                         *)
(*                                                                         *)
(* Strings are told apart by what the parser asks of them.  What an error  *)
(* says is left out: a document is Refused, or is a configuration.         *)
(***************************************************************************)
EXTENDS Integers, SequencesExt

CONSTANTS
  Addresses, HeaderNames, Levels,  \* strings that from_str takes for these
  FirstChar,                       \* of every string of a file but the empty one
  Refused,                         \* Err(ParseError)
  Unset,                           \* None
  Panicked,                        \* a panic of the parser
  MaxU16, MaxU32, MaxUsize,        \* ends of the integer types
  Blocks, LinesOf(_), NestedOf(_), \* nodes an operator may write: blocks, the
                                   \* lines of a block, the lines of a line
  MaxNodes                         \* bound of the run: nodes of a document

ASSUME WidthAssumption ==
  /\ MaxU16 \in Nat /\ MaxU32 \in Nat /\ MaxUsize \in Nat
  /\ 999 <= MaxU16 /\ MaxU16 <= MaxU32

Strings == {""} \cup DOMAIN FirstChar

\* A panic is no character.
ASSUME PanicAssumption == Panicked \notin Range(FirstChar) \cup {"-"}

Lines       == UNION {LinesOf(b.name) : b \in Blocks}
NestedLines == UNION {NestedOf(l.name) : l \in Lines}

\* What the kdl crate makes of a node: an entry is a string, a boolean, an
\* integer, or a value that no parser here asks for.  A node is written before its children.
ASSUME NodesAssumption ==
  \A n \in Blocks \cup Lines \cup NestedLines :
    /\ n = [name |-> n.name, entries |-> n.entries, children |-> <<>>]
    /\ n.entries \in Seq(Range(n.entries))
    /\ \A e \in Range(n.entries) :
         \/ e.kind = "string" /\ e.value \in Strings
         \/ e.kind = "bool" /\ e.value \in BOOLEAN
         \/ e.kind = "int" /\ e.value \in Int
         \/ e.kind \in {"null", "float"}

VARIABLES doc,    \* the file
          config  \* what load_config makes of it

vars == <<doc, config>>

-----------------------------------------------------------------------------
(* Config::default, in sections as in config.rs.                           *)

Default ==
  [server     |-> [listen |-> "127.0.0.1:4000", mode |-> "preflight",
                   valid |-> 200, spam |-> 401],
   classifier |-> [header |-> Unset, robots |-> Unset, asnsDb |-> Unset,
                   unwantedAgents |-> <<>>, trustedAgents |-> <<>>,
                   trustedPaths |-> <<>>, unwantedAsns |-> <<>>],
   garbage    |-> [corpus |-> <<>>, wordsFile |-> Unset, template |-> Unset, poisons |-> <<>>,
                   paraMin |-> 4, paraMax |-> 6, paraWordsMin |-> 16, paraWordsMax |-> 32,
                   linkMin |-> 2, linkMax |-> 5, linkWordsMin |-> 2, linkWordsMax |-> 4,
                   separator |-> "-", slash |-> FALSE],
   logging    |-> [level |-> "off", target |-> "stderr", color |-> FALSE,
                   timestamps |-> TRUE, handler |-> FALSE],
   metrics    |-> Unset]

Metrics == [listen |-> "127.0.0.1:4001", persist |-> Unset]

LinkFields == {"linkMin", "linkMax", "linkWordsMin", "linkWordsMax", "separator", "slash"}

\* What a setting may be, whichever it is.
Settings ==
  Int \cup Seq(Strings) \cup Seq(Int) \cup BOOLEAN \cup
  Strings \cup Addresses \cup HeaderNames \cup Levels \cup Range(FirstChar) \cup
  {Unset, "-", "off", "127.0.0.1:4000", "127.0.0.1:4001", "proxy", "preflight", "stdout", "stderr"}

Like(section) == [DOMAIN section -> Settings]

AnySection == Like(Default.server) \cup Like(Default.classifier) \cup Like(Default.garbage) \cup
              Like(Default.logging) \cup Like(Metrics)

\* An error is neither a number, nor a section, nor a configuration.
ASSUME RefusedAssumption ==
  Refused \notin Int \cup AnySection \cup [DOMAIN Default -> AnySection \cup {Unset}]

-----------------------------------------------------------------------------
(* What a node holds: a value, or Refused.                                 *)

NoName == "no name"    \* of an argument

\* entry(0) counts arguments only: properties may stand before it, and whatever
\* follows it is not looked at.
Arguments(node) == {i \in DOMAIN node.entries : node.entries[i].name = NoName}

FirstIs(node, kind) == Arguments(node) # {} /\ node.entries[Min(Arguments(node))].kind = kind

FirstValue(node) == node.entries[Min(Arguments(node))].value

\* one_string_entry.
OneString(node) == IF FirstIs(node, "string") THEN FirstValue(node) ELSE Refused

\* A string that FromStr takes.
OneOf(set, node) == IF OneString(node) \in set THEN OneString(node) ELSE Refused

\* Taking the empty string for an argument.
AnyStringArg(node) == OneString(node)

OneStringArg(node) == IF OneString(node) = "" THEN Refused ELSE OneString(node)

OneBooleanish(node) ==
  CASE FirstIs(node, "bool")                 -> FirstValue(node)
    [] OneString(node) \in {"on", "true"}    -> TRUE
    [] OneString(node) \in {"off", "false"}  -> FALSE
    [] OTHER                                 -> Refused

\* An integer cast to its type.
Wrapped(entry, max) ==
  IF entry.kind = "int" THEN entry.value % (max + 1) ELSE Refused

\* try_into.
IntOf(entry, max) ==
  IF entry.kind = "int" /\ entry.value \in 0..max THEN entry.value ELSE Refused

\* int_prop: the first property of that name; old if there is none.
IntProp(node, name, max, old) ==
  LET named == {i \in DOMAIN node.entries : node.entries[i].name = name}
  IN  IF named = {} THEN old ELSE IntOf(node.entries[Min(named)], max)

Status(node, name, old) ==
  LET n == IntProp(node, name, MaxU16, old)
  IN  IF n \in 100..999 THEN n ELSE Refused

SeqOfEntries(node, Value(_)) ==
  LET values == [i \in DOMAIN node.entries |->
                   IF node.entries[i].name = NoName THEN Value(node.entries[i]) ELSE Refused]
  IN  IF \E i \in DOMAIN values : values[i] = Refused THEN Refused ELSE values

StringSeq(node) ==
  SeqOfEntries(node, LAMBDA e : IF e.kind = "string" THEN e.value ELSE Refused)

IntSeq(node) == SeqOfEntries(node, LAMBDA e : IntOf(e, MaxU32))

-----------------------------------------------------------------------------
(* parse_doc and the parsers of blocks.                                    *)

Set(section, field, value) ==
  IF section = Refused \/ value = Refused THEN Refused
  ELSE [section EXCEPT ![field] = value]

\* The ? operator: what comes after an error is not looked at.
Children(node, section, Read(_, _)) ==
  LET after[i \in 0..Len(node.children)] ==
        IF i = 0 THEN section
        ELSE IF after[i - 1] = Refused THEN Refused ELSE Read(after[i - 1], node.children[i])
  IN  after[Len(node.children)]

\* Two properties of a node.
MinMax(section, node, min, max) ==
  IF section = Refused THEN Refused
  ELSE Set(Set(section, min, IntProp(node, "min", MaxUsize, section[min])),
           max, IntProp(node, "max", MaxUsize, section[max]))

ServerLine(s, n) ==
  CASE n.name = "listen"       -> Set(s, "listen", OneOf(Addresses, n))
    [] n.name = "status-codes" -> Set(Set(s, "valid", Status(n, "valid", s.valid)),
                                      "spam", Status(n, "spam", s.spam))
    [] OTHER                   -> s

ParseServer(node) ==
  Children(node, Set(Default.server, "mode", OneOf({"proxy", "preflight"}, node)), ServerLine)

AgentsLine(s, n) ==
  CASE n.name = "robots-json-path" -> Set(s, "robots", OneStringArg(n))
    [] n.name = "unwanted"         -> Set(s, "unwantedAgents", StringSeq(n))
    [] n.name = "trusted"          -> Set(s, "trustedAgents", StringSeq(n))
    [] OTHER                       -> s

AsnsLine(s, n) ==
  CASE n.name = "database" -> Set(s, "asnsDb", OneStringArg(n))
    [] n.name = "unwanted" -> Set(s, "unwantedAsns", IntSeq(n))
    [] OTHER               -> s

\* A second user-agents line that starts over, as a second links line does.
AgentsAfresh(s, n) ==
  CASE n.name = "trusted-decision-header" -> Set(s, "header", OneOf(HeaderNames, n))
    [] n.name = "user-agents"   ->
         Children(n, [s EXCEPT !.robots = Unset, !.unwantedAgents = <<>>, !.trustedAgents = <<>>],
                  AgentsLine)
    [] n.name = "trusted-paths" -> Set(s, "trustedPaths", StringSeq(n))
    [] n.name = "asns"          -> Children(n, s, AsnsLine)
    [] OTHER                    -> s

ClassifierLine(s, n) ==
  CASE n.name = "trusted-decision-header" -> Set(s, "header", OneOf(HeaderNames, n))
    [] n.name = "user-agents"   -> Children(n, s, AgentsLine)
    [] n.name = "trusted-paths" -> Set(s, "trustedPaths", StringSeq(n))
    [] n.name = "asns"          -> Children(n, s, AsnsLine)
    [] OTHER                    -> s

ParagraphsLine(s, n) ==
  IF n.name = "words" THEN MinMax(s, n, "paraWordsMin", "paraWordsMax") ELSE s

\* chars().nth(0) of what "is already tested to not be empty".
Separator(n) ==
  LET arg == OneStringArg(n)
  IN  CASE arg = Refused            -> Refused
        [] arg \in DOMAIN FirstChar -> FirstChar[arg]
        [] OTHER                    -> Panicked

LinksLine(s, n) ==
  CASE n.name = "words"          -> MinMax(s, n, "linkWordsMin", "linkWordsMax")
    [] n.name = "separator"      -> Set(s, "separator", Separator(n))
    [] n.name = "trailing-slash" -> Set(s, "slash", OneBooleanish(n))
    [] OTHER                     -> s

\* links starts over from its defaults; paragraphs goes on from what there is.
GarbageLine(s, n) ==
  CASE n.name = "corpus-files"  -> Set(s, "corpus", StringSeq(n))
    [] n.name = "words-file"    -> Set(s, "wordsFile", OneStringArg(n))
    [] n.name = "template-file" -> Set(s, "template", OneStringArg(n))
    [] n.name = "poisons"       -> Set(s, "poisons", StringSeq(n))
    [] n.name = "paragraphs"    -> Children(n, MinMax(s, n, "paraMin", "paraMax"), ParagraphsLine)
    [] n.name = "links"         ->
         LET fresh == [f \in DOMAIN s |-> IF f \in LinkFields THEN Default.garbage[f] ELSE s[f]]
         IN  Children(n, MinMax(fresh, n, "linkMin", "linkMax"), LinksLine)
    [] OTHER                    -> s

LoggingLine(s, n) ==
  CASE n.name = "level"           -> Set(s, "level", OneOf(Levels, n))
    [] n.name = "target"          -> Set(s, "target", OneOf({"stdout", "stderr"}, n))
    [] n.name = "color"           -> Set(s, "color", OneBooleanish(n))
    [] n.name = "timestamps"      -> Set(s, "timestamps", OneBooleanish(n))
    [] n.name = "request-handler" -> Set(s, "handler", OneBooleanish(n))
    [] OTHER                      -> s

MetricsLine(s, n) ==
  CASE n.name = "listen"       -> Set(s, "listen", OneOf(Addresses, n))
    [] n.name = "persist-path" -> Set(s, "persist", OneStringArg(n))
    [] OTHER                   -> s

\* A block replaces its section, what an earlier one of that name set included.
Block(c, n) ==
  CASE n.name = "server"     -> Set(c, "server", ParseServer(n))
    [] n.name = "classifier" -> Set(c, "classifier", Children(n, Default.classifier, ClassifierLine))
    [] n.name = "garbage"    -> Set(c, "garbage", Children(n, Default.garbage, GarbageLine))
    [] n.name = "logging"    -> Set(c, "logging", Children(n, Default.logging, LoggingLine))
    [] n.name = "metrics"    -> Set(c, "metrics", Children(n, Metrics, MetricsLine))
    [] OTHER                 -> c

\* The last block of each name.
LatestBlocks(d) ==
  LET last == SetToSortSeq({k \in DOMAIN d : \A m \in (k + 1)..Len(d) : d[m].name # d[k].name}, <)
  IN  [i \in DOMAIN last |-> d[last[i]]]

\* Collecting the blocks by name before they are parsed.
ParseLatest(d) == Children([children |-> LatestBlocks(d)], Default, Block)

ParseDoc(d) == Children([children |-> d], Default, Block)

-----------------------------------------------------------------------------
(* The operator, who writes a node anywhere in the file.                   *)

Nodes(d) == FoldLeft(LAMBDA n, b : n + 1 +
              FoldLeft(LAMBDA m, l : m + 1 + Len(l.children), 0, b.children), 0, d)

Positions(seq) == 1..(Len(seq) + 1)

Init == doc = <<>> /\ config = ParseDoc(<<>>)

Writes(d) ==
  /\ Nodes(d) <= MaxNodes
  /\ doc' = d /\ config' = ParseDoc(d)

AddBlock ==
  \E b \in Blocks, i \in Positions(doc) : Writes(InsertAt(doc, i, b))

AddLine ==
  \E k \in DOMAIN doc : \E l \in LinesOf(doc[k].name), i \in Positions(doc[k].children) :
    Writes([doc EXCEPT ![k].children = InsertAt(@, i, l)])

AddNested ==
  \E k \in DOMAIN doc : \E j \in DOMAIN doc[k].children :
    \E l \in NestedOf(doc[k].children[j].name), i \in Positions(doc[k].children[j].children) :
      Writes([doc EXCEPT ![k].children[j].children = InsertAt(@, i, l)])

Next == AddBlock \/ AddLine \/ AddNested

Spec == Init /\ [][Next]_vars

-----------------------------------------------------------------------------
(* Properties.                                                             *)

\* The settings that a line of a line names.
NestedFields(line, n) ==
  CASE n.name = "robots-json-path" -> {"robots"}
    [] n.name = "trusted"          -> {"trustedAgents"}
    [] n.name = "database"         -> {"asnsDb"}
    [] n.name = "unwanted"         -> IF line = "asns" THEN {"unwantedAsns"} ELSE {"unwantedAgents"}
    [] n.name = "words"            -> IF line = "links" THEN {"linkWordsMin", "linkWordsMax"}
                                      ELSE {"paraWordsMin", "paraWordsMax"}
    [] n.name = "trailing-slash"   -> {"slash"}
    [] OTHER                       -> {n.name}

\* The settings that a line names.
LineFields(n) ==
  CASE n.name = "status-codes"            -> {n.entries[i].name : i \in DOMAIN n.entries}
    [] n.name = "trusted-decision-header" -> {"header"}
    [] n.name = "trusted-paths"           -> {"trustedPaths"}
    [] n.name = "corpus-files"            -> {"corpus"}
    [] n.name = "words-file"              -> {"wordsFile"}
    [] n.name = "template-file"           -> {"template"}
    [] n.name = "request-handler"         -> {"handler"}
    [] n.name = "persist-path"            -> {"persist"}
    [] n.name = "links"                   -> LinkFields
    [] n.name = "paragraphs"              -> {"paraMin", "paraMax"}
    [] OTHER                              -> {n.name}

Inserted(a, b) == b[CHOOSE i \in DOMAIN b : RemoveAt(b, i) = a]

Differs(a, b) == CHOOSE i \in DOMAIN a : a[i] # b[i]

\* A line, wherever it is inserted, changes no setting but those it names or its
\* own lines name, although lines before and after it may set the same things,
\* and lines of the same name others.
EditsAreLocal ==
  [][Len(doc) = Len(doc') /\ Refused \notin {config, config'} =>
       LET k     == Differs(doc, doc')
           block == doc[k].name
           old   == doc[k].children
           new   == doc'[k].children
           j     == Differs(old, new)
           added == Inserted(old, new)
           named == IF Len(old) < Len(new)
                    THEN LineFields(added) \cup
                         UNION {NestedFields(added.name, added.children[i]) : i \in DOMAIN added.children}
                    ELSE NestedFields(old[j].name, Inserted(old[j].children, new[j].children))
       IN  /\ \A s \in DOMAIN config \ {block} : config[s] = config'[s]
           /\ block \in DOMAIN config =>
                \A f \in DOMAIN config[block] \ named : config[block][f] = config'[block][f]]_vars

\* A file with an error anywhere is refused as a whole, and no line added to it
\* hides the error.
RefusalIsFinal == [][config = Refused => config' = Refused]_vars

Entries(nodes) == UNION {Range(nodes[i].entries) : i \in DOMAIN nodes}

AllEntries ==
  LET OfLines(k)  == Entries(doc[k].children)
      OfNested(k) == UNION {Entries(doc[k].children[j].children) : j \in DOMAIN doc[k].children}
  IN  Entries(doc) \cup (UNION {OfLines(k) \cup OfNested(k) : k \in DOMAIN doc})

Written == {e.value : e \in {x \in AllEntries : x.kind = "int"}}

\* A number is taken as it is written or not at all: a configuration has none
\* that is neither a default nor in the file, nor one its type cannot hold.
NumbersAsWritten ==
  config # Refused =>
    /\ \A f \in {"valid", "spam"} :
         config.server[f] \in {Default.server[f]} \cup (Written \cap (100..999))
    /\ \A f \in {"paraMin", "paraMax", "paraWordsMin", "paraWordsMax",
                 "linkMin", "linkMax", "linkWordsMin", "linkWordsMax"} :
         config.garbage[f] \in {Default.garbage[f]} \cup (Written \cap (0..MaxUsize))
    /\ Range(config.classifier.unwantedAsns) \subseteq Written \cap (0..MaxU32)

\* "string is already tested to not be empty": whatever stands in the file, the
\* parser does not panic.
ParserDoesNotPanic == config # Refused => config.garbage.separator # Panicked
=============================================================================
