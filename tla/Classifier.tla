----------------------------- MODULE Classifier -----------------------------
(***************************************************************************)
(* classifier.rs: which of the configured rules decides a request, and     *)
(* what the trusted-decision header says.  String search is abstracted:    *)
(* rules name the paths that contain a poison and the agents that a        *)
(* pattern matches.                                                        *)
(***************************************************************************)
EXTENDS Integers, Sequences

CONSTANTS Paths, Agents, Ips, Asns,
          NoAgent,   \* no readable User-Agent
          NoIp,      \* no address known
          NoAsn,     \* no database, no address, or not in the database
          AsnOf,     \* the ASN database
          Headers,   \* header names
          NoHeader   \* trusted-decision-header not configured, not sent

ASSUME AbsentAssumption ==
  /\ NoAgent \notin Agents /\ NoIp \notin Ips /\ NoAsn \notin Asns
  /\ NoHeader \notin Headers
  /\ AsnOf \in [Ips -> Asns \cup {NoAsn}]

\* Classifier::new, with the names in robots_json_path among unwantedAgents.
Rules ==
  [trustedPaths : SUBSET Paths, trustedIps : SUBSET Ips, trustedAgents : SUBSET Agents,
   unwantedAgents : SUBSET Agents, unwantedAsns : SUBSET Asns, asnsDb : BOOLEAN,
   poisonedPaths : SUBSET Paths, header : Headers \cup {NoHeader}]

Requests ==
  [path : Paths, agent : Agents \cup {NoAgent}, ip : Ips \cup {NoIp},
   header : Headers \cup {NoHeader}, value : {"valid", "spam", "other"}]

Valid(reason) == [kind |-> "valid", reason |-> reason]
Spam(reason)  == [kind |-> "spam",  reason |-> reason]

\* The AS of the address found in the request's extensions.
Asn(rules, ip) == IF rules.asnsDb /\ ip \in Ips THEN AsnOf[ip] ELSE NoAsn

\* Letting an unremarkable agent pass before the poisons are looked at.
DefaultBeforePoison(rules, req, ip) ==
  IF      req.path \in rules.trustedPaths            THEN Valid("trustedPath")
  ELSE IF ip \in rules.trustedIps                    THEN Valid("trustedIp")
  ELSE IF req.agent \in rules.trustedAgents          THEN Valid("trustedAgent")
  ELSE IF req.agent \in rules.unwantedAgents         THEN Spam("unwantedAgent")
  ELSE IF Asn(rules, ip) \in rules.unwantedAsns      THEN Spam("unwantedAsn")
  ELSE IF req.agent \in Agents                       THEN Valid("default")
  ELSE Spam("poison")

\* Letting a request pass as soon as its AS is known and not unwanted.
KnownAsnDecides(rules, req, ip) ==
  IF      req.path \in rules.trustedPaths            THEN Valid("trustedPath")
  ELSE IF ip \in rules.trustedIps                    THEN Valid("trustedIp")
  ELSE IF req.agent \in rules.trustedAgents          THEN Valid("trustedAgent")
  ELSE IF req.agent \in rules.unwantedAgents         THEN Spam("unwantedAgent")
  ELSE IF Asn(rules, ip) \in rules.unwantedAsns      THEN Spam("unwantedAsn")
  ELSE IF Asn(rules, ip) # NoAsn                     THEN Valid("default")
  ELSE IF req.path \in rules.poisonedPaths           THEN Spam("poison")
  ELSE Valid("default")

\* The first test that holds decides.
Classify(rules, req, ip) ==
  IF      req.path \in rules.trustedPaths            THEN Valid("trustedPath")
  ELSE IF ip \in rules.trustedIps                    THEN Valid("trustedIp")
  ELSE IF req.agent \in rules.trustedAgents          THEN Valid("trustedAgent")
  ELSE IF req.agent \in rules.unwantedAgents         THEN Spam("unwantedAgent")
  ELSE IF Asn(rules, ip) \in rules.unwantedAsns      THEN Spam("unwantedAsn")
  ELSE IF req.path \in rules.poisonedPaths           THEN Spam("poison")
  ELSE Valid("default")

\* An unconfigured header, one that was not sent and a value that is neither
\* word all mean no decision.
NoDecision == [kind |-> "none", reason |-> "none"]

TrustedDecision(rules, req) ==
  IF rules.header # NoHeader /\ req.header = rules.header /\ req.value # "other"
  THEN [kind |-> req.value, reason |-> "trustedDecision"]
  ELSE NoDecision
=============================================================================
