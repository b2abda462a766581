---------------------------- MODULE MCPreflight -----------------------------
(***************************************************************************)
(* Two requests over two connections.  The services differ in what a       *)
(* reload may change: the rules, the header, the mode, the statuses, a     *)
(* template that cannot be rendered.                                       *)
(***************************************************************************)
EXTENDS Preflight, TLC

CONSTANTS n1, p1, p2, a1, h1, h2

OneAsn == [i \in Ips |-> n1]

Harsh == [trustedPaths |-> {}, trustedIps |-> {}, trustedAgents |-> {},
          unwantedAgents |-> {a1}, unwantedAsns |-> {n1}, asnsDb |-> TRUE,
          poisonedPaths |-> {p1}, header |-> h1]
Mild  == [Harsh EXCEPT !.unwantedAgents = {}, !.trustedAgents = {a1}, !.trustedPaths = {p1}]
Other == [Mild EXCEPT !.header = h2]

S(rules, mode, valid, breaks) ==
  [rules |-> rules, mode |-> mode, statusValid |-> valid, statusSpam |-> 401,
   breaks |-> breaks]

PreflightServices ==
  {S(Harsh, "preflight", 200, {}), S(Mild, "preflight", 200, {}),
   S(Other, "preflight", 200, {}), S(Harsh, "preflight", 200, {p2}),
   S(Harsh, "proxy", 200, {})}

PreflightGate == [mode |-> "preflight", header |-> h1, statusValid |-> 200, statusSpam |-> 401]

OnlyPreflight == {PreflightGate}

Request(path, agent) ==
  [path |-> path, agent |-> agent, ip |-> CHOOSE i \in Ips : TRUE,
   header |-> NoHeader, value |-> "other"]
SomeClients == {Request(p1, NoAgent), Request(p2, a1), Request(p2, NoAgent)}

Symmetric == Permutations(Ids) \cup Permutations(Conns)
=============================================================================
