------------------------------- MODULE Service --------------------------------
(***************************************************************************)
(* handler.rs and metrics/mod.rs together, over the life of several        *)
(* processes: what call() hands to record_request is counted in the        *)
(* Metrics value, that value goes to disk at shutdown and comes back at    *)
(* start-up, and the process may be restarted while the reverse proxy is   *)
(* between the two passes of a request.                                    *)
(*                                                                         *)
(* Preflight says how requests are answered and Metrics how they are       *)
(* counted; a step here is a step of either or of both.  Metrics leaves    *)
(* out the arms of record_request for trusted decisions, and any input the *)
(* classifier cannot give it: here they are in, so that MetricsAsModelled  *)
(* is a result.                                                            *)
(***************************************************************************)
EXTENDS Preflight, FiniteSets

CONSTANTS Hosts, Types, Accepts, MaxRequests   \* those of Metrics

\* The bound of Metrics is none on what this module does: a request has two
\* passes at most.
ASSUME BoundAssumption ==
  IsFiniteSet(Ids) /\ MaxRequests \in Nat /\ 2 * Cardinality(Ids) <= MaxRequests

VARIABLES up, persisting, mem, trustedAgents, acceptHeader, temp, file, base,
          lost    \* history: counts were lost by a crash or by a failed write or read

M == INSTANCE Metrics

counters == <<up, persisting, mem, trustedAgents, acceptHeader, temp, file, base>>

serviceVars == <<vars, counters, lost>>

ServiceInit == Init /\ M!Init /\ lost = FALSE

-----------------------------------------------------------------------------
(* Requests.                                                               *)

\* The classification that an answer is counted with.
Counted(s, r) ==
  IF s.mode = "preflight" /\ TrustedDecision(s.rules, r).kind = "spam"
  THEN TrustedDecision(s.rules, r)
  ELSE Classify(s.rules, r, RemoteIp(r))

\* record_request.  For a trusted decision it counts the request and no more.
RecordRequest(s, r, host, type, accept) ==
  LET d == Counted(s, r)
  IN  /\ mem' = CASE d.reason = "trustedDecision" ->
                       [mem EXCEPT !.requests = M!Inc(@, host)]
                  [] d.reason \in M!SpamReasons ->
                       M!CountSpam(mem, host, d.reason, Asn(s.rules, RemoteIp(r)))
                  [] d.reason \in M!ValidReasons -> M!CountValid(mem, host, d.reason)
      /\ trustedAgents' = M!IncTrustedAgent(d.reason, host, r.agent)
      /\ acceptHeader' = IF d.reason \in M!SpamReasons
                         THEN M!Inc(acceptHeader, <<type, accept>>) ELSE acceptHeader
      /\ UNCHANGED <<up, persisting, temp, file, base>>

\* call(): a pass of request i, and the count if its answer has one.
Call(i, c, r, pass) ==
  /\ up /\ ~persisting /\ pass
  /\ IF req'[i].counted > req[i].counted
     THEN \E h \in Hosts, t \in Types, a \in Accepts : RecordRequest(conns[c], r, h, t, a)
     ELSE UNCHANGED counters
  /\ UNCHANGED lost

FirstCall(i, c, r) == Call(i, c, r, FirstPass(i, c, r))

SecondCall(i, c) == Call(i, c, Fated(req[i].asked), SecondPass(i, c))

\* Connections and reloads; the Metrics value outlives both.
Between ==
  /\ up /\ ~persisting
  /\ Reload \/ \E c \in Conns : Open(c) \/ Close(c)
  /\ UNCHANGED <<counters, lost>>

-----------------------------------------------------------------------------
(* The process.  The reverse proxy still has its requests when it is gone. *)

Start ==
  /\ M!Start
  /\ current' \in Services
  /\ lost' = (lost \/ mem' # file.content)
  /\ UNCHANGED <<gate, conns, req>>

Persist ==
  /\ M!BeginPersist \/ M!WriteTemp
  /\ UNCHANGED <<vars, lost>>

Gone == conns' = [c \in Conns |-> Closed] /\ UNCHANGED <<gate, current, req>>

Exit == M!Rename /\ Gone /\ UNCHANGED lost

\* A crash, or an exit that could not write the file.
Crash == M!EndUnsaved /\ Gone /\ lost' = (lost \/ mem # file.content)

ServiceNext ==
  \/ Between \/ Start \/ Persist \/ Exit \/ Crash
  \/ \E i \in Ids, c \in Conns :
       SecondCall(i, c) \/ \E r \in Clients : FirstCall(i, c, r)

ServiceSpec == ServiceInit /\ [][ServiceNext]_serviceVars

-----------------------------------------------------------------------------
(* Properties.                                                             *)

\* Whatever requests, reloads and restarts come, the counters go the way that
\* Metrics describes: handler.rs never has a trusted decision counted, which
\* would make requests that are neither spam nor valid, and never an unwanted
\* AS that is not known.
MetricsAsModelled == M!Spec

JudgedAs(kinds) == Cardinality({i \in Ids : req[i].verdict \in kinds})

\* The counters, in memory and later in the file, are the verdicts the clients'
\* requests got, each once: one that is judged by one process and gets its page
\* from the next, or loses its page in a panic, is neither counted twice nor
\* forgotten.  Crashes and failed loads lose counts but never add any.  (For
\* configurations that agree with the reverse proxy.)
CountsAreVerdicts ==
  (\A i \in Ids : req[i].agreed) =>
    LET counts == IF up THEN mem ELSE file.content
        tally  == <<M!Total(counts.requests), M!Total(counts.spam), M!Total(counts.valid)>>
        judged == <<JudgedAs({"spam", "valid"}), JudgedAs({"spam"}), JudgedAs({"valid"})>>
    IN  /\ \A k \in 1..3 : tally[k] <= judged[k]
        /\ ~lost => tally = judged
=============================================================================
