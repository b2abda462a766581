------------------------------ MODULE RuleEdits ------------------------------
(***************************************************************************)
(* An operator edits the rules one at a time, and every request is judged  *)
(* again by Classifier after each edit.                                    *)
(***************************************************************************)
EXTENDS Classifier

VARIABLES rules

NoRules ==
  [trustedPaths |-> {}, trustedIps |-> {}, trustedAgents |-> {}, unwantedAgents |-> {},
   unwantedAsns |-> {}, asnsDb |-> FALSE, poisonedPaths |-> {}, header |-> NoHeader]

EditsInit == rules = NoRules

TrustPath  == \E p \in Paths  : rules' = [rules EXCEPT !.trustedPaths = @ \cup {p}]
TrustIp    == \E i \in Ips    : rules' = [rules EXCEPT !.trustedIps = @ \cup {i}]
TrustAgent == \E a \in Agents : rules' = [rules EXCEPT !.trustedAgents = @ \cup {a}]

ShunAgent  == \E a \in Agents : rules' = [rules EXCEPT !.unwantedAgents = @ \cup {a}]
ShunAsn    == \E n \in Asns   : rules' = [rules EXCEPT !.unwantedAsns = @ \cup {n}]
PoisonPath == \E p \in Paths  : rules' = [rules EXCEPT !.poisonedPaths = @ \cup {p}]
AddAsnsDb  == ~rules.asnsDb /\ rules' = [rules EXCEPT !.asnsDb = TRUE]

Trust == TrustPath \/ TrustIp \/ TrustAgent
Shun  == ShunAgent \/ ShunAsn \/ PoisonPath \/ AddAsnsDb

EditsNext == Trust \/ Shun

EditsSpec == EditsInit /\ [][EditsNext]_rules

KindOf(r, req) == Classify(r, req, req.ip).kind

\* A rule that trusts never makes spam of a request that was valid, and makes
\* no request spam for another reason; one that shuns never makes valid of a
\* request that was spam.  The order of the tests is what makes this true of
\* every combination of rules.
RulesPullOneWay ==
  [][\A req \in Requests :
       /\ Trust /\ KindOf(rules, req) = "valid" => KindOf(rules', req) = "valid"
       /\ Trust /\ KindOf(rules', req) = "spam" =>
            Classify(rules', req, req.ip) = Classify(rules, req, req.ip)
       /\ Shun /\ KindOf(rules, req) = "spam" => KindOf(rules', req) = "spam"]_rules

\* Only trust in the path, address or agent itself protects a request that
\* asks for a poisoned path: a poison is final for everybody else.
PoisonIsFinal ==
  \A req \in Requests :
    /\ req.path \in rules.poisonedPaths \ rules.trustedPaths
    /\ req.ip \notin rules.trustedIps /\ req.agent \notin rules.trustedAgents
    => KindOf(rules, req) = "spam"
=============================================================================
