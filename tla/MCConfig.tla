------------------------------ MODULE MCConfig ------------------------------
(***************************************************************************)
(* For each line an operator may write: the argument it wants, one of each *)
(* kind that is wrong, numbers on both sides of every limit.  The types    *)
(* u32 and usize end at small numbers, as TLC's integers have 32 bits.     *)
(***************************************************************************)
EXTENDS ConfigParse

CONSTANT Sections   \* the sections of this instance

Arg(v)     == [name |-> NoName, kind |-> "string", value |-> v]
ArgInt(v)  == [name |-> NoName, kind |-> "int", value |-> v]
ArgBool(v) == [name |-> NoName, kind |-> "bool", value |-> v]
ArgNull    == [name |-> NoName, kind |-> "null", value |-> Unset]
Prop(p, v) == [name |-> p, kind |-> "int", value |-> v]
Named(v)   == [name |-> "min", kind |-> "string", value |-> v]

Node(name, entries) == [name |-> name, entries |-> entries, children |-> <<>>]
NodesOf(names, entries) == {Node(n, e) : n \in names, e \in entries}

MCFirstChar ==
  [s \in {"a", "_x", "[::]:1", "unix:a", "proxy", "preflight", "stdout", "off"} |->
     CASE s = "a" -> "a" [] s = "_x" -> "_" [] s = "[::]:1" -> "[" [] s = "unix:a" -> "u"
       [] s \in {"proxy", "preflight"} -> "p" [] s = "stdout" -> "s" [] s = "off" -> "o"]

Args  == {<<Arg("a")>>, <<Arg("_x")>>, <<Arg("")>>, <<Named("a")>>, <<ArgNull>>}
Lists    == {<<Arg("a")>>, <<Arg(""), Arg("a")>>, <<Arg("a"), Named("a")>>, <<ArgInt(1)>>}
Ports    == {<<Arg("unix:a")>>, <<Arg("[::]:1")>>, <<Arg("a")>>, <<Named("a"), Arg("[::]:1"), Arg("a")>>}
Switches == {<<Named("a"), ArgBool(TRUE)>>, <<Arg("off")>>, <<Arg("a")>>, <<>>}
Counts   == {<<Prop("min", 3)>>, <<Prop("max", MaxUsize)>>, <<Prop("min", MaxUsize + 1)>>,
             <<Prop("max", 0), Prop("max", -1)>>, <<>>}
Codes    == {<<Prop("valid", 100)>>, <<Prop("spam", 999)>>, <<Prop("valid", 99)>>,
             <<Prop("spam", 1000)>>, <<Prop("valid", MaxU16 + 405)>>,
             <<Prop("spam", 403), Prop("valid", 204)>>}
Numbers  == {<<ArgInt(0), ArgInt(MaxU32)>>, <<ArgInt(MaxU32 + 1)>>, <<ArgInt(-1)>>, <<Arg("a")>>, <<>>}

MCBlocks ==
  {b \in NodesOf({"classifier", "garbage", "logging", "metrics"}, {<<>>}) \cup
         NodesOf({"server"}, {<<Arg("proxy")>>, <<Arg("preflight")>>, <<Arg("a")>>, <<>>}) :
     b.name \in Sections}

MCNested(name) ==
  CASE name = "user-agents" -> NodesOf({"robots-json-path"}, Args) \cup
                               NodesOf({"unwanted", "trusted"}, Lists)
    [] name = "asns"        -> NodesOf({"database"}, Args) \cup NodesOf({"unwanted"}, Numbers)
    [] name = "paragraphs"  -> NodesOf({"words"}, Counts)
    [] name = "links"       -> NodesOf({"words"}, Counts) \cup NodesOf({"separator"}, Args) \cup
                               NodesOf({"trailing-slash"}, Switches)
    [] OTHER                -> {}

MCLines(block) ==
  CASE block = "server"     -> NodesOf({"listen"}, Ports) \cup NodesOf({"status-codes"}, Codes)
    [] block = "classifier" -> NodesOf({"trusted-decision-header"}, Args) \cup
                               NodesOf({"trusted-paths"}, Lists) \cup
                               NodesOf({"user-agents", "asns"}, {<<>>})
    [] block = "garbage"    -> NodesOf({"corpus-files", "poisons"}, Lists) \cup
                               NodesOf({"words-file", "template-file"}, Args) \cup
                               NodesOf({"paragraphs", "links"}, Counts)
    [] block = "logging"    -> NodesOf({"level"}, Args) \cup NodesOf({"target"}, {<<Arg("stdout")>>}) \cup
                               NodesOf({"color", "timestamps", "request-handler"}, Switches)
    [] block = "metrics"    -> NodesOf({"listen"}, Ports) \cup NodesOf({"persist-path"}, Args)
=============================================================================
