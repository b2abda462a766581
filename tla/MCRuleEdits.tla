---------------------------- MODULE MCRuleEdits -----------------------------
(* A small instance of RuleEdits: the one address belongs to the one AS. *)
EXTENDS RuleEdits

CONSTANT n1
OneAsn == [i \in Ips |-> n1]
=============================================================================
