------------------------------ MODULE Preflight ------------------------------
(***************************************************************************)
(* A request's way through the reverse proxy and handler.rs.               *)
(*                                                                         *)
(* In "proxy" mode the reverse proxy asks once: an answer with its status  *)
(* for valid requests sends the client on to the site, anything else is    *)
(* the client's answer.  In "preflight" mode it asks twice: the first      *)
(* answer is only a status; for a spam one it sends the request again with *)
(* the trusted-decision header and hands the client what comes back.       *)
(* Reloads happen between the two passes, and a kept-alive connection      *)
(* stays with the service it was accepted by.                              *)
(*                                                                         *)
(* The reverse proxy is not part of the repository: it is modelled from    *)
(* what handler.rs and trusted_decision() expect of it.                    *)
(***************************************************************************)
EXTENDS Classifier

CONSTANTS Ids,      \* requests
          Conns,    \* upstream connections of the reverse proxy
          Closed,
          Clients,  \* what clients ask for, a subset of Requests
          Services, \* what AppConfig::to_service makes of each configuration
          Gates     \* how the reverse proxy may be set up

ASSUME GateAssumption ==
  /\ Clients \subseteq Requests /\ Clients # {}
  /\ \A r \in Clients : r.header = NoHeader   \* the proxy strips its own header
  /\ Services \subseteq [rules : Rules, mode : {"proxy", "preflight"},
                         statusValid : Nat, statusSpam : Nat, breaks : SUBSET Paths]
  /\ Closed \notin Services
  /\ Gates \subseteq [mode : {"proxy", "preflight"}, header : Headers,
                      statusValid : Nat, statusSpam : Nat]

VARIABLES
  gate,     \* the reverse proxy's setup, which no reload changes
  current,  \* the service of the configuration in force
  conns,    \* the service each connection was accepted with
  req       \* how far each request has come

vars == <<gate, current, conns, req>>

Places == {"new", "fated", "site", "garbage", "refused", "dropped"}

NewReq == [asked |-> CHOOSE r \in Clients : TRUE, place |-> "new",
           verdict |-> "none", counted |-> 0, agreed |-> TRUE]

TypeOK ==
  /\ gate \in Gates
  /\ current \in Services
  /\ conns \in [Conns -> Services \cup {Closed}]
  /\ req \in [Ids -> [asked : Clients, place : Places,
                      verdict : {"none", "valid", "spam"},
                      counted : 0..2, agreed : BOOLEAN]]

Init ==
  /\ gate \in Gates
  /\ current \in Services
  /\ conns = [c \in Conns |-> Closed]
  /\ req = [i \in Ids |-> NewReq]

-----------------------------------------------------------------------------
(* PslHandler::call.                                                       *)

OK == 200

\* call() files the client's address in the request's extensions, which are
\* keyed by type, as the Option it has; classify() looks there for an address.
Extension(r) == [type |-> "Option<IpAddr>", value |-> r.ip]
RemoteIp(r)  == IF Extension(r).type = "IpAddr" THEN Extension(r).value ELSE NoIp

Verdict(s, r) == Classify(s.rules, r, RemoteIp(r)).kind

\* An answer: its status, whether it carries garbage, whether it is counted.
Empty(status) == [status |-> status, garbage |-> FALSE, counted |-> 1]
Garbage(counted) == [status |-> OK, garbage |-> TRUE, counted |-> counted]

\* render() panics for some paths with some configurations, always the same
\* ones: its generator is seeded with the path.
Renders(s, r) == r.path \notin s.breaks

\* Two passes: the first answers with a status only.
Judged(s, r) == Empty(IF Verdict(s, r) = "valid" THEN s.statusValid ELSE s.statusSpam)

Proxy(s, r) ==
  IF Verdict(s, r) = "valid" THEN Empty(s.statusValid) ELSE Garbage(1)

\* Counting the second pass too.
CountedAgain(s, r) ==
  IF TrustedDecision(s.rules, r).kind = "spam" THEN Garbage(1) ELSE Judged(s, r)

\* A fated victim is not counted; the other trusted decision is ignored.
PreflightAnswer(s, r) ==
  IF TrustedDecision(s.rules, r).kind = "spam" THEN Garbage(0) ELSE Judged(s, r)

Answer(s, r) == IF s.mode = "proxy" THEN Proxy(s, r) ELSE PreflightAnswer(s, r)

-----------------------------------------------------------------------------
(* The reverse proxy.                                                      *)

Fated(r) == [r EXCEPT !.header = gate.header, !.value = "spam"]

\* The configuration is the one the reverse proxy was set up for, and the
\* statuses tell its answers apart.
Agrees(s) ==
  /\ s.mode = gate.mode /\ s.statusValid = gate.statusValid
  /\ gate.mode = "preflight" =>
       /\ s.rules.header = gate.header /\ s.statusSpam = gate.statusSpam
       /\ gate.statusSpam # gate.statusValid
  /\ gate.mode = "proxy" => gate.statusValid # OK

\* Where the first answer sends the request.
Onward(a) ==
  CASE a.status = gate.statusValid -> "site"
    [] a.status # gate.statusValid /\ gate.mode = "preflight" ->
         IF a.status = gate.statusSpam THEN "fated" ELSE "refused"
    [] OTHER -> IF a.garbage THEN "garbage" ELSE "refused"

\* The connection's task ends in a panic before record_request is reached.
Panics(i, c) ==
  /\ conns' = [conns EXCEPT ![c] = Closed]
  /\ req' = [req EXCEPT ![i].place = "dropped"]
  /\ UNCHANGED <<gate, current>>

Passes(i, r, s, a, place) ==
  /\ req' = [req EXCEPT ![i].place = place,
                        ![i].asked = IF req[i].place = "new" THEN r ELSE @,
                        ![i].verdict = IF req[i].place = "new" THEN Verdict(s, r) ELSE @,
                        ![i].counted = @ + a.counted,
                        ![i].agreed = @ /\ Agrees(s)]
  /\ UNCHANGED <<gate, current, conns>>

FirstPass(i, c, r) ==
  LET s == conns[c]
      a == Answer(s, r)
  IN  /\ s # Closed /\ req[i].place = "new"
      /\ IF a.garbage /\ ~Renders(s, r) THEN Panics(i, c)
                                        ELSE Passes(i, r, s, a, Onward(a))

SecondPass(i, c) ==
  LET s == conns[c]
      r == Fated(req[i].asked)
      a == Answer(s, r)
  IN  /\ s # Closed /\ req[i].place = "fated"
      /\ IF a.garbage /\ ~Renders(s, r) THEN Panics(i, c)
         ELSE Passes(i, r, s, a, IF a.garbage THEN "garbage" ELSE "refused")

-----------------------------------------------------------------------------
(* Connections and reloads.                                                *)

Open(c) ==
  /\ conns[c] = Closed
  /\ conns' = [conns EXCEPT ![c] = current]
  /\ UNCHANGED <<gate, current, req>>

Close(c) ==
  /\ conns[c] # Closed
  /\ conns' = [conns EXCEPT ![c] = Closed]
  /\ UNCHANGED <<gate, current, req>>

Reload ==
  /\ \E s \in Services \ {current} : current' = s
  /\ UNCHANGED <<gate, conns, req>>

Next ==
  \/ Reload
  \/ \E c \in Conns :
       \/ Open(c) \/ Close(c)
       \/ \E i \in Ids : SecondPass(i, c) \/ \E r \in Clients : FirstPass(i, c, r)

Spec == Init /\ [][Next]_vars

-----------------------------------------------------------------------------
(* Properties.                                                             *)

\* What a request met all along was the setup the reverse proxy expects: the
\* rules may differ from one pass to the other.
Ended(i) == req[i].agreed /\ req[i].place \in {"site", "garbage", "refused"}

\* A request that got its answer is counted once, whether it took one pass or
\* two and whatever was reloaded in between: record_request runs in the first
\* and not in the second.
CountedOnce == \A i \in Ids : Ended(i) => req[i].counted = 1

\* The verdict of the first pass is final: valid requests and no others reach
\* the site, spam gets garbage even if the rules in force in the second pass
\* would now call it valid, and the client is never left with the bare status
\* that was meant for the reverse proxy.
VerdictIsFinal ==
  \A i \in Ids : Ended(i) =>
    /\ req[i].place = "site" <=> req[i].verdict = "valid"
    /\ req[i].place = "garbage" <=> req[i].verdict = "spam"

\* With a database, an unwanted AS makes spam of a request that nothing trusts:
\* the warning at start-up says it is the missing database that prevents it.
UnwantedAsnsAreSpam ==
  \A r \in Clients, c \in Conns : conns[c] # Closed =>
    LET rules == conns[c].rules IN
    /\ rules.asnsDb /\ Asn(rules, r.ip) \in rules.unwantedAsns
    /\ r.path \notin rules.trustedPaths /\ r.agent \notin rules.trustedAgents
    => Verdict(conns[c], r) = "spam"
=============================================================================
