------------------------------- MODULE Metrics -------------------------------
(***************************************************************************)
(* The counters of metrics/mod.rs and their life on disk: record_request   *)
(* counts one Classification in several maps under one lock, five of the   *)
(* seven maps are persisted at shutdown through a temporary file and       *)
(* loaded at start-up, and two are not.                                    *)
(*                                                                         *)
(* A counter that has no entry is 0: entries are only made to be           *)
(* incremented.  Everything between taking the lock and releasing it is    *)
(* one step, as it is in the code.                                         *)
(***************************************************************************)
EXTENDS Integers, FiniteSets

CONSTANTS Hosts,        \* host label, "N/A" among them
          Agents,       \* the part of the User-Agent that a pattern matched
          NoAgent,      \* none that a pattern matched
          Asns,         \* autonomous systems
          NoAsn,        \* none known
          Types,        \* ResourceType
          Accepts,      \* Accept header reduced to its MIME types, "none" among them
          MaxRequests   \* bound: requests recorded over all runs

ASSUME AbsentAssumption == NoAsn \notin Asns /\ NoAgent \notin Agents

SpamReasons  == {"poison", "unwantedAsn", "unwantedAgent"}
ValidReasons == {"default", "trustedIp", "trustedPath", "trustedAgent"}

VARIABLES
  up,        \* a process is running
  persisting,\* it is in persist(): past the grace period, not exited
  mem,       \* the Metrics value: the five maps that are persisted
  trustedAgents, acceptHeader, \* the two that are not
  temp,      \* the temporary file next to the persisted one
  file,      \* the persisted file
  base       \* history: mem as this run started

vars == <<up, persisting, mem, trustedAgents, acceptHeader, temp, file, base>>

Persisted ==
  [requests : [Hosts -> Nat],
   spam     : [Hosts \X SpamReasons -> Nat],
   valid    : [Hosts \X ValidReasons -> Nat],
   asnKnown : [Asns -> Nat],
   asnHidden: [Asns -> Nat]]

Zero(S) == [x \in S |-> 0]

Empty == [requests  |-> Zero(Hosts),
          spam      |-> Zero(Hosts \X SpamReasons),
          valid     |-> Zero(Hosts \X ValidReasons),
          asnKnown  |-> Zero(Asns),
          asnHidden |-> Zero(Asns)]

\* A file that is not there, and one that serde_json cannot read.
NoFile == [content |-> Empty, state |-> "absent"]
Torn   == [content |-> Empty, state |-> "torn"]
Whole(m) == [content |-> m, state |-> "whole"]
Files == [content : Persisted, state : {"absent", "torn", "whole"}]

TypeOK ==
  /\ up \in BOOLEAN /\ persisting \in BOOLEAN
  /\ mem \in Persisted /\ base \in Persisted
  /\ trustedAgents \in [Hosts \X Agents -> Nat]
  /\ acceptHeader \in [Types \X Accepts -> Nat]
  /\ temp \in Files /\ file \in Files

Init ==
  /\ up = FALSE /\ persisting = FALSE
  /\ mem = Empty /\ base = Empty
  /\ trustedAgents = Zero(Hosts \X Agents)
  /\ acceptHeader = Zero(Types \X Accepts)
  /\ temp = NoFile /\ file = NoFile

-----------------------------------------------------------------------------
(* record_request.                                                         *)

Inc(f, k) == [f EXCEPT ![k] = @ + 1]

IncAsnKnown(m, asn) ==
  IF asn = NoAsn THEN m ELSE [m EXCEPT !.asnKnown = Inc(@, asn)]

IncAsnHidden(m, asn) ==
  IF asn = NoAsn THEN m ELSE [m EXCEPT !.asnHidden = Inc(@, asn)]

\* The sum of a map's counters, as the number of the requests behind them: the
\* n-th one that was counted under k is <<k, n>>.
Units(f) == UNION {{k} \X (1..f[k]) : k \in DOMAIN f}
Total(f) == Cardinality(Units(f))

Serving == up /\ ~persisting /\ Total(mem.requests) < MaxRequests

\* An AS that hides behind a plausible agent and walks into a poisoned path is
\* counted apart from those the agent or the list gave away.
CountSpam(m, host, reason, asn) ==
  LET counted == [m EXCEPT !.requests = Inc(@, host), !.spam = Inc(@, <<host, reason>>)]
  IN  IF reason = "poison" THEN IncAsnHidden(counted, asn) ELSE IncAsnKnown(counted, asn)

\* An arm that forgets inc_requests.
ForgetRequest(m, host, reason) == [m EXCEPT !.valid = Inc(@, <<host, reason>>)]

CountValid(m, host, reason) ==
  [m EXCEPT !.requests = Inc(@, host), !.valid = Inc(@, <<host, reason>>)]

\* Every arm counting its agent.
IncAnyAgent(reason, host, agent) == Inc(trustedAgents, <<host, agent>>)

IncTrustedAgent(reason, host, agent) ==
  IF reason = "trustedAgent" THEN Inc(trustedAgents, <<host, agent>>) ELSE trustedAgents

RecordSpam(host, reason, asn, type, accept) ==
  /\ Serving
  /\ reason = "unwantedAsn" => asn # NoAsn
  /\ mem' = CountSpam(mem, host, reason, asn)
  /\ acceptHeader' = Inc(acceptHeader, <<type, accept>>)
  /\ UNCHANGED <<up, persisting, trustedAgents, temp, file, base>>

RecordValid(host, reason, agent) ==
  /\ Serving
  /\ reason = "trustedAgent" => agent # NoAgent
  /\ mem' = CountValid(mem, host, reason)
  /\ trustedAgents' = IncTrustedAgent(reason, host, agent)
  /\ UNCHANGED <<up, persisting, acceptHeader, temp, file, base>>

-----------------------------------------------------------------------------
(* Start, shutdown, crash.                                                 *)

\* init_metrics: an absent file and an unreadable one both count as empty.
Load == IF file.state = "whole" THEN {file.content, Empty} ELSE {Empty}

Start ==
  /\ ~up
  /\ up' = TRUE
  /\ \E m \in Load : mem' = m /\ base' = m
  /\ trustedAgents' = Zero(Hosts \X Agents)
  /\ acceptHeader' = Zero(Types \X Accepts)
  /\ UNCHANGED <<persisting, temp, file>>

Stopped ==
  /\ up' = FALSE /\ persisting' = FALSE
  /\ mem' = Empty /\ base' = Empty
  /\ trustedAgents' = Zero(Hosts \X Agents)
  /\ acceptHeader' = Zero(Types \X Accepts)

\* persist(), when there is a path: NamedTempFile::new_in makes an empty file.
BeginPersist ==
  /\ up /\ ~persisting
  /\ persisting' = TRUE
  /\ temp' = Torn
  /\ UNCHANGED <<up, mem, trustedAgents, acceptHeader, file, base>>

\* to_writer has written all five maps.
WriteTemp ==
  /\ persisting /\ temp = Torn
  /\ temp' = Whole(mem)
  /\ UNCHANGED <<up, persisting, mem, trustedAgents, acceptHeader, file, base>>

\* What renaming as soon as there is a temporary file would ask for.
Started == temp.state # "absent"

Written == temp.state = "whole"

\* TempPath::persist renames it over the old one; then main returns.
Rename ==
  /\ persisting /\ Written
  /\ file' = temp /\ temp' = NoFile
  /\ Stopped

\* No path is configured, or the temporary file cannot be made, written or
\* renamed: it is deleted when it is dropped, the error is logged and main
\* returns.  In a crash it stays behind, and nobody ever reads it.
EndUnsaved ==
  /\ up
  /\ temp' = NoFile
  /\ Stopped
  /\ UNCHANGED file

Next ==
  \/ Start \/ BeginPersist \/ WriteTemp \/ Rename \/ EndUnsaved
  \/ \E host \in Hosts :
       \/ \E reason \in SpamReasons, asn \in Asns \cup {NoAsn}, type \in Types,
             accept \in Accepts : RecordSpam(host, reason, asn, type, accept)
       \/ \E reason \in ValidReasons, agent \in Agents \cup {NoAgent} :
            RecordValid(host, reason, agent)

Spec == Init /\ [][Next]_vars

-----------------------------------------------------------------------------
(* Properties.                                                             *)

Classified(m, host) ==
  /\ m.requests[host] =
       m.spam[<<host, "poison">>] + m.spam[<<host, "unwantedAsn">>]
       + m.spam[<<host, "unwantedAgent">>]
       + m.valid[<<host, "default">>] + m.valid[<<host, "trustedIp">>]
       + m.valid[<<host, "trustedPath">>] + m.valid[<<host, "trustedAgent">>]

\* For every host the requests are the spam and the valid classifications
\* together, in a scrape and in the file, over any number of restarts: no arm of
\* record_request counts in one map and forgets another, and no map is left out
\* when the five are written and read back.
EveryRequestClassified ==
  \A host \in Hosts : Classified(mem, host) /\ Classified(file.content, host)

\* A crash at any point of persist() leaves the old file or the new one.
FileIsWhole == file.state # "torn"

TotalOf(f, reasons) == Total([k \in Hosts \X reasons |-> f[k]])

\* The two maps that are not persisted agree with what this run added to those
\* that are: one Accept header per spam request, one agent per request trusted
\* for its agent.  After a restart they fall behind the totals, by what the
\* file held.
SessionMapsAgree ==
  /\ Total(acceptHeader) = Total(mem.spam) - Total(base.spam)
  /\ \A host \in Hosts :
       Total([a \in Agents |-> trustedAgents[<<host, a>>]]) =
         mem.valid[<<host, "trustedAgent">>] - base.valid[<<host, "trustedAgent">>]

AsnsMatch(m) ==
  LET known == Total(m.asnKnown)
  IN  /\ Total(m.asnHidden) <= TotalOf(m.spam, {"poison"})
      /\ known >= TotalOf(m.spam, {"unwantedAsn"})
      /\ known <= TotalOf(m.spam, {"unwantedAsn", "unwantedAgent"})

\* asns_hidden counts only requests that a poisoned path gave away, asns_known
\* every one the AS list gave away and otherwise only unwanted agents, in
\* memory and in the file.
AsnsMatchReasons == AsnsMatch(mem) /\ AsnsMatch(file.content)
=============================================================================
