---------------------------- MODULE ServiceProofs ----------------------------
(***************************************************************************)
(* CountedOnce, VerdictIsFinal, MetricsAsModelled and CountsAreVerdicts for *)
(* any number of requests, connections, configurations, processes and      *)
(* reverse proxies.                                                        *)
(***************************************************************************)
EXTENDS Service, FiniteSetTheorems, TLAPS

-----------------------------------------------------------------------------
(* Answers.                                                                *)

\* Every request is decided, one way or the other, and the reason says which.
\* Whoever is spam for its system has one.
LEMMA Decided ==
  ASSUME NEW rules \in Rules, NEW q, NEW ip
  PROVE  LET d == Classify(rules, q, ip)
         IN  \/ /\ d.kind = "valid"
                /\ d.reason \in {"default", "trustedIp", "trustedPath", "trustedAgent"}
                /\ d.reason = "trustedAgent" => q.agent \in Agents
             \/ /\ d.kind = "spam"
                /\ d.reason \in {"poison", "unwantedAsn", "unwantedAgent"}
                /\ d.reason = "unwantedAsn" => Asn(rules, ip) # NoAsn
<1>1. rules.trustedAgents \subseteq Agents /\ NoAsn \notin rules.unwantedAsns
  BY AbsentAssumption DEF Rules
<1> QED
  BY <1>1 DEF Classify, Valid, Spam

LEMMA VerdictType ==
  ASSUME NEW s \in Services, NEW r
  PROVE  Verdict(s, r) \in {"valid", "spam"}
<1>1. s.rules \in Rules
  BY GateAssumption
<1> QED
  BY <1>1, Decided DEF Verdict

\* Whatever the service, an answer counts at most once and leads somewhere.
LEMMA AnswerType ==
  ASSUME NEW s \in Services, NEW r
  PROVE  /\ Answer(s, r).counted \in {0, 1}
         /\ Onward(Answer(s, r)) \in Places \ {"new", "dropped"}
<1>1. \/ Answer(s, r) = Garbage(0) \/ Answer(s, r) = Garbage(1)
      \/ \E status : Answer(s, r) = Empty(status)
  BY DEF Answer, Proxy, PreflightAnswer, Judged
<1>2. Answer(s, r).counted \in {0, 1}
  BY <1>1 DEF Garbage, Empty
<1> QED
  BY <1>2 DEF Onward, Places

\* What a client asks for carries no decision: an agreeing service judges and
\* counts it, and its answer sends the request where the verdict says.
LEMMA FirstAnswer ==
  ASSUME NEW s \in Services, NEW r \in Clients, gate \in Gates, Agrees(s)
  PROVE  LET a == Answer(s, r) IN
         /\ a.counted = 1
         /\ Verdict(s, r) = "valid" => Onward(a) = "site"
         /\ Verdict(s, r) = "spam" =>
              Onward(a) = IF gate.mode = "preflight" THEN "fated" ELSE "garbage"
<1>1. TrustedDecision(s.rules, r).kind = "none"
  BY GateAssumption DEF TrustedDecision, NoDecision
<1>2. s.mode = gate.mode /\ gate.mode \in {"proxy", "preflight"}
  BY GateAssumption DEF Agrees
<1>3. CASE gate.mode = "proxy"
  <2>1. Answer(s, r) = Proxy(s, r)
    BY <1>2, <1>3 DEF Answer
  <2> QED
    BY <1>2, <1>3, <2>1 DEF Proxy, Empty, Garbage, Onward, Agrees
<1>4. CASE gate.mode = "preflight"
  <2>1. Answer(s, r) = Judged(s, r)
    BY <1>1, <1>2, <1>4 DEF Answer, PreflightAnswer
  <2> QED
    BY <1>2, <1>4, <2>1 DEF Judged, Empty, Onward, Agrees
<1> QED
  BY <1>2, <1>3, <1>4

\* In the second pass an agreeing service obeys the header it finds.
LEMMA SecondAnswer ==
  ASSUME NEW s \in Services, NEW r \in Clients, gate \in Gates, Agrees(s), gate.mode = "preflight"
  PROVE  Answer(s, Fated(r)) = Garbage(0)
<1>1. Fated(r).header = gate.header /\ Fated(r).value = "spam"
  BY GateAssumption DEF Fated, Requests
<1>2. s.rules.header = gate.header /\ s.mode = "preflight"
  BY DEF Agrees
<1>3. gate.header # NoHeader
  BY GateAssumption, AbsentAssumption
<1> QED
  BY <1>1, <1>2, <1>3 DEF Answer, PreflightAnswer, TrustedDecision

-----------------------------------------------------------------------------
(* What is known of a request between its passes.                          *)

Fine(q) ==
  /\ q.place = "new" => q.counted = 0 /\ q.verdict = "none"
  /\ q.place = "fated" => q.counted <= 1
  /\ q.place \notin {"new", "dropped"} => q.verdict # "none"
  /\ q.agreed => q.counted = IF q.verdict = "none" THEN 0 ELSE 1
  /\ q.agreed /\ q.place = "fated" => q.verdict = "spam" /\ gate.mode = "preflight"
  /\ q.agreed /\ q.place \in {"site", "garbage", "refused"} =>
       /\ q.place = "site" <=> q.verdict = "valid"
       /\ q.place = "garbage" <=> q.verdict = "spam"

RequestInv == TypeOK /\ \A i \in Ids : Fine(req[i])

LEMMA InitInv == Init => RequestInv
<1> SUFFICES ASSUME Init PROVE RequestInv
  OBVIOUS
<1>1. NewReq.asked \in Clients
  BY GateAssumption DEF NewReq
<1>2. TypeOK
  BY <1>1 DEF Init, TypeOK, NewReq, Places
<1> QED
  BY <1>2 DEF Init, RequestInv, Fine, NewReq

\* A panic drops the request, and neither judges nor counts it.
LEMMA PanicsInv ==
  ASSUME RequestInv, NEW i \in Ids, NEW c \in Conns, Panics(i, c),
         req[i].place \in {"new", "fated"}
  PROVE  RequestInv'
<1>1. TypeOK'
  BY DEF RequestInv, TypeOK, Panics, Places
<1>2. \A j \in Ids : Fine(req[j])'
  BY DEF RequestInv, TypeOK, Panics, Fine
<1> QED
  BY <1>1, <1>2 DEF RequestInv

Reqs == [asked : Clients, place : Places, verdict : {"none", "valid", "spam"},
         counted : 0..2, agreed : BOOLEAN]

\* A pass keeps the invariant if what becomes of its request is fine.
LEMMA PassesInv ==
  ASSUME RequestInv, NEW i \in Ids, NEW r, NEW s \in Services, NEW a, NEW place,
         Passes(i, r, s, a, place),
         NEW q \in Reqs, Fine(q),
         q.place = place,
         q.asked = IF req[i].place = "new" THEN r ELSE req[i].asked,
         q.verdict = IF req[i].place = "new" THEN Verdict(s, r) ELSE req[i].verdict,
         q.counted = req[i].counted + a.counted,
         q.agreed = (req[i].agreed /\ Agrees(s))
  PROVE  RequestInv'
<1>1. req \in [Ids -> Reqs] /\ req[i] \in Reqs
  BY DEF RequestInv, TypeOK, Reqs
<1> DEFINE p == [req[i] EXCEPT
                  !.place = place,
                  !.asked = IF req[i].place = "new" THEN r ELSE @,
                  !.verdict = IF req[i].place = "new" THEN Verdict(s, r) ELSE @,
                  !.counted = @ + a.counted,
                  !.agreed = @ /\ Agrees(s)]
<1>2. p = [req[i] EXCEPT !.place = q.place, !.asked = q.asked, !.verdict = q.verdict,
                         !.counted = q.counted, !.agreed = q.agreed]
  BY <1>1 DEF Reqs
<1>3. p \in Reqs /\ Fine(p)
  <2>1. /\ q.place \in Places /\ q.asked \in Clients /\ q.counted \in 0..2
        /\ q.verdict \in {"none", "valid", "spam"} /\ q.agreed \in BOOLEAN
    BY DEF Reqs
  <2> HIDE DEF p
  <2>2. /\ p \in Reqs /\ p.place = q.place /\ p.asked = q.asked
        /\ p.verdict = q.verdict /\ p.counted = q.counted /\ p.agreed = q.agreed
    BY <1>1, <1>2, <2>1 DEF Reqs
  <2> QED
    BY <2>2 DEF Fine
<1>4. req' = [req EXCEPT ![i] = p] /\ UNCHANGED <<gate, current, conns>>
  BY <1>1 DEF Passes
<1> HIDE DEF p
<1>5. TypeOK'
  BY <1>1, <1>3, <1>4 DEF RequestInv, TypeOK, Reqs
<1>6. \A j \in Ids : Fine(req[j])'
  BY <1>1, <1>3, <1>4 DEF RequestInv, Fine
<1> QED
  BY <1>5, <1>6 DEF RequestInv

LEMMA FirstPassInv ==
  ASSUME RequestInv, NEW i \in Ids, NEW c \in Conns, NEW r \in Clients, FirstPass(i, c, r)
  PROVE  RequestInv'
<1> DEFINE s == conns[c]
           a == Answer(s, r)
<1>1. s \in Services /\ req[i].place = "new" /\ req[i] \in Reqs /\ req[i].counted = 0
  BY DEF RequestInv, TypeOK, FirstPass, Reqs, Fine
<1>2. CASE Panics(i, c)
  BY <1>1, <1>2, PanicsInv
<1>3. CASE Passes(i, r, s, a, Onward(a))
  <2>1. /\ a.counted \in {0, 1} /\ Onward(a) \in Places \ {"new", "dropped"}
        /\ Verdict(s, r) \in {"valid", "spam"} /\ Agrees(s) \in BOOLEAN
    BY <1>1, AnswerType, VerdictType DEF Agrees
  <2> DEFINE q == [asked |-> r, place |-> Onward(a), verdict |-> Verdict(s, r),
                   counted |-> a.counted, agreed |-> (req[i].agreed /\ Agrees(s))]
  <2>2. Agrees(s) => /\ a.counted = 1
                     /\ Verdict(s, r) = "valid" => Onward(a) = "site"
                     /\ Verdict(s, r) = "spam" =>
                          Onward(a) = IF gate.mode = "preflight" THEN "fated" ELSE "garbage"
    BY <1>1, FirstAnswer DEF RequestInv, TypeOK
  <2> HIDE DEF a, s
  <2>3. q \in Reqs
    BY <1>1, <2>1 DEF Reqs
  <2>4. q.agreed => Agrees(s)
    BY <2>1
  <2>5. Fine(q)
    BY <2>1, <2>2, <2>4 DEF Fine
  <2>6. q.counted = req[i].counted + a.counted
    BY <1>1, <2>1
  <2>7. /\ q.place = Onward(a) /\ q.asked = r /\ q.verdict = Verdict(s, r)
        /\ q.agreed = (req[i].agreed /\ Agrees(s))
    BY Zenon
  <2> HIDE DEF q
  <2> QED
    BY <1>1, <1>3, <2>3, <2>5, <2>6, <2>7, PassesInv
<1> QED
  BY <1>2, <1>3 DEF FirstPass

LEMMA SecondPassInv ==
  ASSUME RequestInv, NEW i \in Ids, NEW c \in Conns, SecondPass(i, c)
  PROVE  RequestInv'
<1> DEFINE s == conns[c]
           r == Fated(req[i].asked)
           a == Answer(s, r)
           place == IF a.garbage THEN "garbage" ELSE "refused"
<1>1. s \in Services /\ req[i].place = "fated" /\ req[i] \in Reqs /\ Fine(req[i])
  BY DEF RequestInv, TypeOK, SecondPass, Reqs
<1>2. CASE Panics(i, c)
  BY <1>1, <1>2, PanicsInv
<1>3. CASE Passes(i, r, s, a, place)
  <2>1. a.counted \in {0, 1} /\ place \in {"garbage", "refused"} /\ Agrees(s) \in BOOLEAN
    BY <1>1, AnswerType DEF Agrees
  <2> DEFINE q == [asked |-> req[i].asked, place |-> place, verdict |-> req[i].verdict,
                   counted |-> req[i].counted + a.counted,
                   agreed |-> (req[i].agreed /\ Agrees(s))]
  <2>2. req[i].agreed => req[i].counted = 1 /\ req[i].verdict = "spam" /\ gate.mode = "preflight"
    BY <1>1 DEF Fine
  <2>3. req[i].agreed /\ Agrees(s) => a.counted = 0 /\ place = "garbage"
    <3>1. req[i].agreed /\ Agrees(s) => a = Garbage(0)
      BY <1>1, <2>2, SecondAnswer DEF Reqs, RequestInv, TypeOK
    <3> QED
      BY <3>1 DEF Garbage
  <2> HIDE DEF a, s, r, place
  <2>4. q \in Reqs
    BY <1>1, <2>1 DEF Reqs, Fine, Places
  <2>5. q.agreed => req[i].agreed /\ Agrees(s)
    BY Zenon
  <2>6. Fine(q)
    BY <1>1, <2>1, <2>2, <2>3, <2>5 DEF Fine, Reqs
  <2>7. /\ q.place = place /\ q.asked = req[i].asked /\ q.verdict = req[i].verdict
        /\ q.counted = req[i].counted + a.counted
        /\ q.agreed = (req[i].agreed /\ Agrees(s))
    BY Zenon
  <2> HIDE DEF q
  <2> QED
    BY <1>1, <1>3, <2>4, <2>6, <2>7, PassesInv
<1> QED
  BY <1>2, <1>3 DEF SecondPass

LEMMA StepInv == RequestInv /\ [Next]_vars => RequestInv'
<1> SUFFICES ASSUME RequestInv, [Next]_vars PROVE RequestInv'
  OBVIOUS
<1>1. CASE Reload
  BY <1>1 DEF Reload, RequestInv, TypeOK, Fine
<1>2. ASSUME NEW c \in Conns, Open(c) \/ Close(c) PROVE RequestInv'
  BY <1>2 DEF Open, Close, RequestInv, TypeOK, Fine
<1>3. ASSUME NEW c \in Conns, NEW i \in Ids, SecondPass(i, c) PROVE RequestInv'
  BY <1>3, SecondPassInv
<1>4. ASSUME NEW c \in Conns, NEW i \in Ids, NEW r \in Clients, FirstPass(i, c, r)
      PROVE RequestInv'
  BY <1>4, FirstPassInv
<1>5. CASE UNCHANGED vars
  BY <1>5 DEF vars, RequestInv, TypeOK, Fine
<1> QED
  BY <1>1, <1>2, <1>3, <1>4, <1>5 DEF Next

-----------------------------------------------------------------------------
(* What is counted.                                                        *)

\* The lemmas on counters of MetricsProofs, about the counters of a service.
MP == INSTANCE MetricsProofs

Summable(f) == IsFiniteSet(M!Units(f))

\* An instance has its own names for the operators of the standard modules.
LEMMA SameOperators ==
  \A S : /\ M!Cardinality(S) = Cardinality(S) /\ MP!Cardinality(S) = Cardinality(S)
         /\ MP!IsFiniteSet(S) <=> IsFiniteSet(S)
<1>1. \A S : M!Cardinality(S) = Cardinality(S)
  BY DEF M!Cardinality, Cardinality
<1>2. \A S : MP!Cardinality(S) = Cardinality(S)
  BY DEF MP!Cardinality, Cardinality
<1>3. \A S : MP!IsFiniteSet(S) <=> IsFiniteSet(S)
  BY DEF MP!IsFiniteSet, IsFiniteSet
<1> QED
  BY <1>1, <1>2, <1>3

LEMMA SameCounters ==
  /\ \A f : MP!Units(f) = M!Units(f)
  /\ \A f : MP!Total(f) = M!Total(f) /\ M!Total(f) = Cardinality(M!Units(f))
  /\ \A f : MP!Summable(f) <=> Summable(f)
  /\ \A f, k : MP!Inc(f, k) = M!Inc(f, k)
  /\ \A S : MP!Zero(S) = M!Zero(S)
<1>1. \A f : MP!Units(f) = M!Units(f)
  BY DEF MP!Units, M!Units
<1>2. \A f : MP!Total(f) = M!Total(f) /\ M!Total(f) = Cardinality(M!Units(f))
  BY <1>1, SameOperators DEF MP!Total, M!Total
<1>3. \A f : MP!Summable(f) <=> Summable(f)
  BY <1>1, SameOperators DEF MP!Summable, Summable
<1>4. \A f, k : MP!Inc(f, k) = M!Inc(f, k)
  BY DEF MP!Inc, M!Inc
<1>5. \A S : MP!Zero(S) = M!Zero(S)
  BY DEF MP!Zero, M!Zero
<1> QED
  BY <1>1, <1>2, <1>3, <1>4, <1>5

LEMMA Counting ==
  ASSUME NEW S, NEW f \in [S -> Nat], NEW k \in S, Summable(f)
  PROVE  /\ M!Inc(f, k) \in [S -> Nat]
         /\ Summable(M!Inc(f, k))
         /\ M!Total(f) \in Nat
         /\ M!Total(M!Inc(f, k)) = M!Total(f) + 1
<1>1. M!Inc(f, k) \in [S -> Nat]
  BY DEF M!Inc
<1> QED
  BY <1>1, MP!TotalInc, SameCounters, AbsentAssumption

LEMMA NothingCounted == ASSUME NEW S PROVE Summable(M!Zero(S)) /\ M!Total(M!Zero(S)) = 0
  BY MP!TotalZero, SameCounters, AbsentAssumption

LEMMA SpamFields ==
  ASSUME NEW m \in M!Persisted, NEW host \in Hosts, NEW reason \in M!SpamReasons,
         NEW asn \in Asns \cup {NoAsn}
  PROVE  LET n == M!CountSpam(m, host, reason, asn)
         IN  /\ n \in M!Persisted
             /\ n.requests = M!Inc(m.requests, host)
             /\ n.spam = M!Inc(m.spam, <<host, reason>>)
             /\ n.valid = m.valid
<1>1. /\ MP!Persisted = M!Persisted /\ MP!SpamReasons = M!SpamReasons
      /\ MP!CountSpam(m, host, reason, asn) = M!CountSpam(m, host, reason, asn)
  BY SameCounters
  DEF M!Persisted, M!SpamReasons, M!ValidReasons, M!CountSpam, M!IncAsnKnown, M!IncAsnHidden,
      MP!Persisted, MP!SpamReasons, MP!ValidReasons, MP!CountSpam, MP!IncAsnKnown,
      MP!IncAsnHidden
<1> QED
  BY <1>1, MP!CountSpamFields, SameCounters, AbsentAssumption

LEMMA ValidFields ==
  ASSUME NEW m \in M!Persisted, NEW host \in Hosts, NEW reason \in M!ValidReasons
  PROVE  LET n == M!CountValid(m, host, reason)
         IN  /\ n \in M!Persisted
             /\ n.requests = M!Inc(m.requests, host)
             /\ n.valid = M!Inc(m.valid, <<host, reason>>)
             /\ n.spam = m.spam
<1>1. /\ MP!Persisted = M!Persisted /\ MP!ValidReasons = M!ValidReasons
      /\ MP!CountValid(m, host, reason) = M!CountValid(m, host, reason)
  BY SameCounters
  DEF M!Persisted, M!SpamReasons, M!ValidReasons, M!CountValid,
      MP!Persisted, MP!SpamReasons, MP!ValidReasons, MP!CountValid
<1> QED
  BY <1>1, MP!CountValidFields, SameCounters, AbsentAssumption

\* An answer that counts is counted with what classify says, never with a
\* trusted decision: the answer to that does not count.
LEMMA CountedIsClassified ==
  ASSUME NEW s \in Services, NEW r, Answer(s, r).counted = 1
  PROVE  Counted(s, r) = Classify(s.rules, r, RemoteIp(r))
<1>1. s.mode \in {"proxy", "preflight"}
  BY GateAssumption
<1> QED
  BY <1>1 DEF Counted, Answer, PreflightAnswer, Garbage

\* The request, its host and its reason: what record_request does to the maps
\* for an answer that counts.
LEMMA Recorded ==
  ASSUME NEW s \in Services, NEW r \in Requests, Answer(s, r).counted = 1,
         mem \in M!Persisted, NEW h \in Hosts, NEW t \in Types, NEW x \in Accepts,
         RecordRequest(s, r, h, t, x)
  PROVE  /\ mem' \in M!Persisted
         /\ mem'.requests = M!Inc(mem.requests, h)
         /\ Verdict(s, r) = "spam" =>
              /\ \E k \in Hosts \X M!SpamReasons : mem'.spam = M!Inc(mem.spam, k)
              /\ mem'.valid = mem.valid
         /\ Verdict(s, r) = "valid" =>
              /\ \E k \in Hosts \X M!ValidReasons : mem'.valid = M!Inc(mem.valid, k)
              /\ mem'.spam = mem.spam
         /\ UNCHANGED <<up, persisting, temp, file, base>>
         /\ M!Serving => M!Next
<1> DEFINE ip == RemoteIp(r)
           d == Classify(s.rules, r, ip)
           asn == Asn(s.rules, ip)
<1>1. Counted(s, r) = d /\ Verdict(s, r) = d.kind
  BY CountedIsClassified DEF Verdict
<1>2. /\ s.rules \in Rules /\ r.agent \in Agents \cup {NoAgent}
  BY GateAssumption DEF Requests
<1>3. asn \in Asns \cup {NoAsn}
  BY AbsentAssumption DEF Asn
<1>4. \/ /\ d.kind = "valid" /\ d.reason \in M!ValidReasons
         /\ d.reason = "trustedAgent" => r.agent \in Agents
      \/ /\ d.kind = "spam" /\ d.reason \in M!SpamReasons
         /\ d.reason = "unwantedAsn" => asn # NoAsn
  BY <1>2, Decided DEF M!ValidReasons, M!SpamReasons
<1>5. UNCHANGED <<up, persisting, temp, file, base>>
  BY DEF RecordRequest
<1> HIDE DEF d, asn, ip
<1>6. CASE d.kind = "spam"
  <2>1. /\ d.reason \in M!SpamReasons /\ d.reason \notin M!ValidReasons
        /\ d.reason # "trustedDecision" /\ d.reason # "trustedAgent"
    BY <1>4, <1>6 DEF M!SpamReasons, M!ValidReasons
  <2>2. mem' = M!CountSpam(mem, h, d.reason, asn)
    BY <1>1, <2>1 DEF RecordRequest, asn, ip
  <2>3. /\ acceptHeader' = M!Inc(acceptHeader, <<t, x>>)
        /\ trustedAgents' = trustedAgents
    BY <1>1, <2>1 DEF RecordRequest, M!IncTrustedAgent
  <2>4. M!Serving => M!RecordSpam(h, d.reason, asn, t, x)
    BY <1>4, <1>5, <1>6, <2>2, <2>3 DEF M!RecordSpam
  <2>5. M!Serving => M!Next
    BY <1>3, <2>1, <2>4 DEF M!Next
  <2> QED
    <3>1. /\ mem' \in M!Persisted /\ mem'.requests = M!Inc(mem.requests, h)
          /\ mem'.spam = M!Inc(mem.spam, <<h, d.reason>>) /\ mem'.valid = mem.valid
      BY <1>3, <2>1, <2>2, SpamFields
    <3>2. <<h, d.reason>> \in Hosts \X M!SpamReasons
      BY <2>1
    <3> QED
      BY <1>1, <1>5, <1>6, <2>5, <3>1, <3>2
<1>7. CASE d.kind = "valid"
  <2>1. d.reason \in M!ValidReasons /\ d.reason \notin M!SpamReasons /\ d.reason # "trustedDecision"
    BY <1>4, <1>7 DEF M!ValidReasons, M!SpamReasons
  <2>2. mem' = M!CountValid(mem, h, d.reason)
    BY <1>1, <2>1 DEF RecordRequest
  <2>3. /\ acceptHeader' = acceptHeader
        /\ trustedAgents' = M!IncTrustedAgent(d.reason, h, r.agent)
    BY <1>1, <2>1 DEF RecordRequest
  <2>4. d.reason = "trustedAgent" => r.agent # NoAgent
    BY <1>4, <1>7, AbsentAssumption
  <2>5. M!Serving => M!RecordValid(h, d.reason, r.agent)
    BY <1>5, <2>2, <2>3, <2>4 DEF M!RecordValid
  <2>6. M!Serving => M!Next
    BY <1>2, <2>1, <2>5 DEF M!Next
  <2> QED
    <3>1. /\ mem' \in M!Persisted /\ mem'.requests = M!Inc(mem.requests, h)
          /\ mem'.valid = M!Inc(mem.valid, <<h, d.reason>>) /\ mem'.spam = mem.spam
      BY <2>1, <2>2, ValidFields
    <3>2. <<h, d.reason>> \in Hosts \X M!ValidReasons
      BY <2>1
    <3> QED
      BY <1>1, <1>5, <1>7, <2>6, <3>1, <3>2
<1> QED
  BY <1>4, <1>6, <1>7

-----------------------------------------------------------------------------
(* A pass and the counts.                                                  *)

Answered == [i \in Ids |-> req[i].counted]

AllAgreed == \A i \in Ids : req[i].agreed

\* No request is counted more than twice, so there is always room for one that
\* was not.
LEMMA RoomForAnother ==
  ASSUME RequestInv
  PROVE  /\ Answered \in [Ids -> Nat] /\ Summable(Answered) /\ M!Total(Answered) \in Nat
         /\ \A i \in Ids : req[i].counted < 2 => M!Total(Answered) < MaxRequests
<1> DEFINE all == Ids \X (1..2)
<1>1. \A i \in Ids : req[i].counted \in 0..2
  BY DEF RequestInv, TypeOK
<1>2. Answered \in [Ids -> Nat]
  BY <1>1 DEF Answered
<1>3. IsFiniteSet(all) /\ Cardinality(all) = Cardinality(Ids) * 2 /\ Cardinality(Ids) \in Nat
  <2>1. IsFiniteSet(1..2) /\ Cardinality(1..2) = 2
    <3>1. 1..2 = {1} \cup {2} /\ 1 \notin {2}
      OBVIOUS
    <3>2. IsFiniteSet({2}) /\ Cardinality({2}) = 1
      BY FS_Singleton
    <3>3. 1..2 = {2} \cup {1}
      BY <3>1
    <3> QED
      BY <3>1, <3>2, <3>3, FS_AddElement
  <2> QED
    BY <2>1, BoundAssumption, FS_Product, FS_CardinalityType
<1>4. M!Units(Answered) \subseteq all
  <2>1. \A i \in Ids : 1..req[i].counted \subseteq 1..2
    BY <1>1
  <2>2. M!Units(Answered) = UNION {{i} \X (1..req[i].counted) : i \in Ids}
    BY DEF M!Units, Answered
  <2> QED
    BY <2>1, <2>2
<1>5. \A i \in Ids : req[i].counted < 2 => <<i, 2>> \in all /\ <<i, 2>> \notin M!Units(Answered)
  BY <1>1 DEF M!Units, Answered
<1> HIDE DEF all
<1> DEFINE counted == M!Units(Answered)
<1>6. IsFiniteSet(counted) /\ Cardinality(counted) \in Nat /\ Cardinality(counted) <= Cardinality(all)
      /\ (Cardinality(all) = Cardinality(counted) => all = counted)
  BY <1>3, <1>4, FS_Subset, FS_CardinalityType
<1>7. M!Total(Answered) = Cardinality(counted)
  BY SameCounters
<1> HIDE DEF counted
<1>8. \A i \in Ids : req[i].counted < 2 => M!Total(Answered) < MaxRequests
  <2> SUFFICES ASSUME NEW i \in Ids, req[i].counted < 2 PROVE M!Total(Answered) < MaxRequests
    OBVIOUS
  <2>1. all # counted
    BY <1>5 DEF counted
  <2>2. Cardinality(counted) < 2 * Cardinality(Ids)
    BY <1>3, <1>6, <2>1
  <2> QED
    BY <1>3, <1>6, <1>7, <2>2, BoundAssumption
<1>9. Summable(Answered)
  BY <1>6 DEF Summable, counted
<1>10. M!Total(Answered) \in Nat
  BY <1>6, <1>7
<1> QED
  BY <1>2, <1>8, <1>9, <1>10

\* What a pass does to its request, as far as counting is concerned.
Judges(i, s, r) ==
  /\ s \in Services /\ r \in Requests
  /\ \A j \in Ids \ {i} : req'[j] = req[j]
  /\ req'[i].agreed => req[i].agreed
  /\ \/ req'[i].counted = req[i].counted
     \/ req'[i].counted = req[i].counted + 1 /\ Answer(s, r).counted = 1
  /\ req'[i].verdict \in {req[i].verdict, Verdict(s, r)}
  /\ req[i].verdict # "none" => req'[i].verdict = req[i].verdict

LEMMA PassJudges ==
  ASSUME RequestInv, NEW i \in Ids, NEW c \in Conns, NEW r \in Requests, NEW place,
         conns[c] # Closed, req[i].place # "new" => req[i].verdict # "none",
         req[i].place = "new" => req[i].verdict = "none",
         \/ Panics(i, c)
         \/ Passes(i, r, conns[c], Answer(conns[c], r), place)
  PROVE  Judges(i, conns[c], r)
<1> DEFINE s == conns[c]
           a == Answer(s, r)
<1>1. s \in Services /\ req \in [Ids -> Reqs] /\ req[i] \in Reqs
  BY DEF RequestInv, TypeOK, Reqs
<1>2. a.counted \in {0, 1}
  BY <1>1, AnswerType
<1>3. CASE Panics(i, c)
  <2>1. req' = [req EXCEPT ![i].place = "dropped"]
    BY <1>3 DEF Panics
  <2>2. /\ \A j \in Ids \ {i} : req'[j] = req[j]
        /\ req'[i].agreed => req[i].agreed
        /\ req'[i].counted = req[i].counted /\ req'[i].verdict = req[i].verdict
    BY <1>1, <2>1 DEF Reqs
  <2> QED
    BY <1>1, <2>2 DEF Judges
<1>4. CASE Passes(i, r, s, a, place)
  <2> HIDE DEF a
  <2>1. /\ \A j \in Ids \ {i} : req'[j] = req[j]
        /\ req'[i].agreed => req[i].agreed
        /\ req'[i].counted = req[i].counted + a.counted
        /\ req'[i].verdict = IF req[i].place = "new" THEN Verdict(s, r) ELSE req[i].verdict
    BY <1>1, <1>4 DEF Reqs, Passes
  <2>2. req[i].counted \in Nat
    BY <1>1 DEF Reqs
  <2> QED
    BY <1>1, <1>2, <2>1, <2>2 DEF Judges, a
<1> QED
  BY <1>3, <1>4

LEMMA FirstJudges ==
  ASSUME RequestInv, NEW i \in Ids, NEW c \in Conns, NEW r \in Clients, FirstPass(i, c, r)
  PROVE  Judges(i, conns[c], r)
<1>1. req[i].place = "new" /\ req[i].verdict = "none" /\ conns[c] # Closed /\ r \in Requests
  BY GateAssumption DEF FirstPass, RequestInv, Fine
<1>2. \/ Panics(i, c)
      \/ \E place : Passes(i, r, conns[c], Answer(conns[c], r), place)
  BY Zenon DEF FirstPass
<1>3. CASE Panics(i, c)
  BY <1>1, <1>3, PassJudges
<1>4. ASSUME NEW place, Passes(i, r, conns[c], Answer(conns[c], r), place)
      PROVE  Judges(i, conns[c], r)
  BY <1>1, <1>4, PassJudges
<1> QED
  BY <1>2, <1>3, <1>4

LEMMA SecondJudges ==
  ASSUME RequestInv, NEW i \in Ids, NEW c \in Conns, SecondPass(i, c)
  PROVE  Judges(i, conns[c], Fated(req[i].asked))
<1> DEFINE r == Fated(req[i].asked)
<1>1. r \in Requests
  <2>1. req[i].asked \in Requests /\ gate.header \in Headers
    BY GateAssumption DEF RequestInv, TypeOK
  <2> QED
    BY <2>1 DEF Fated, Requests
<1>2. req[i].place = "fated" /\ req[i].verdict # "none" /\ conns[c] # Closed
  BY DEF SecondPass, RequestInv, Fine
<1>3. \/ Panics(i, c)
      \/ \E place : Passes(i, r, conns[c], Answer(conns[c], r), place)
  BY Zenon DEF SecondPass
<1> HIDE DEF r
<1>4. ASSUME Panics(i, c) PROVE Judges(i, conns[c], r)
  BY <1>1, <1>2, <1>4, PassJudges
<1>5. ASSUME NEW place, Passes(i, r, conns[c], Answer(conns[c], r), place)
      PROVE  Judges(i, conns[c], r)
  BY <1>1, <1>2, <1>5, PassJudges
<1> QED
  BY <1>3, <1>4, <1>5 DEF r

-----------------------------------------------------------------------------
(* The inductive invariant of the counts.                                  *)

Numbers(m) ==
  /\ m \in M!Persisted
  /\ Summable(m.requests) /\ Summable(m.spam) /\ Summable(m.valid)

AtMostJudged(m) ==
  /\ M!Total(m.requests) <= JudgedAs({"spam", "valid"})
  /\ M!Total(m.spam) <= JudgedAs({"spam"})
  /\ M!Total(m.valid) <= JudgedAs({"valid"})

AllJudged(m) ==
  /\ M!Total(m.requests) = JudgedAs({"spam", "valid"})
  /\ M!Total(m.spam) = JudgedAs({"spam"})
  /\ M!Total(m.valid) = JudgedAs({"valid"})

\* The Metrics values there are.
Kept == {mem, temp.content, file.content}

\* What is on its way to the file is what is in memory, and nobody counts while
\* it is.
OnItsWay ==
  /\ persisting => up
  /\ temp.state = "whole" => persisting /\ temp.content = mem

Counts == IF up THEN mem ELSE file.content

CountInv ==
  /\ \A m \in Kept : Numbers(m) /\ M!Total(m.requests) <= M!Total(Answered)
  /\ OnItsWay
  /\ AllAgreed => \A m \in Kept : AtMostJudged(m)
  /\ AllAgreed /\ ~lost => AllJudged(Counts)

SInv == RequestInv /\ CountInv

LEMMA JudgedIsNumber == \A kinds : JudgedAs(kinds) \in Nat
  BY BoundAssumption, FS_Subset, FS_CardinalityType DEF JudgedAs

\* A request is judged once.
LEMMA OneMoreJudged ==
  ASSUME NEW i \in Ids, req[i].verdict = "none", \A j \in Ids \ {i} : req'[j] = req[j],
         NEW kinds, "none" \notin kinds
  PROVE  /\ req'[i].verdict \in kinds => JudgedAs(kinds)' = JudgedAs(kinds) + 1
         /\ req'[i].verdict \notin kinds => JudgedAs(kinds)' = JudgedAs(kinds)
<1> DEFINE S == {j \in Ids : req[j].verdict \in kinds}
           T == {j \in Ids : req'[j].verdict \in kinds}
<1>1. JudgedAs(kinds) = Cardinality(S) /\ JudgedAs(kinds)' = Cardinality(T)
  BY DEF JudgedAs
<1>2. IsFiniteSet(S) /\ i \notin S
  BY BoundAssumption, FS_Subset
<1>3. req'[i].verdict \in kinds => T = S \cup {i}
  OBVIOUS
<1>4. req'[i].verdict \notin kinds => T = S
  OBVIOUS
<1> HIDE DEF S, T
<1> QED
  BY <1>1, <1>2, <1>3, <1>4, FS_AddElement

LEMMA NumbersAre ==
  ASSUME NEW m, Numbers(m)
  PROVE  M!Total(m.requests) \in Nat /\ M!Total(m.spam) \in Nat /\ M!Total(m.valid) \in Nat
BY FS_CardinalityType, SameCounters DEF Numbers, Summable

LEMMA NoneJudged ==
  /\ Numbers(M!Empty) /\ AtMostJudged(M!Empty)
  /\ M!Total(M!Empty.requests) = 0 /\ M!Total(M!Empty.spam) = 0 /\ M!Total(M!Empty.valid) = 0
<1>1. M!Empty \in M!Persisted
  BY DEF M!Empty, M!Persisted, M!Zero
<1>2. /\ M!Empty.requests = M!Zero(Hosts)
      /\ M!Empty.spam = M!Zero(Hosts \X M!SpamReasons)
      /\ M!Empty.valid = M!Zero(Hosts \X M!ValidReasons)
  BY DEF M!Empty
<1> QED
  BY <1>1, <1>2, NothingCounted, JudgedIsNumber DEF Numbers, AtMostJudged

LEMMA InitCounts == ASSUME ServiceInit PROVE CountInv
<1>1. Kept = {M!Empty} /\ Counts = M!Empty /\ OnItsWay
  BY DEF ServiceInit, M!Init, M!NoFile, Kept, Counts, OnItsWay
<1>2. RequestInv
  BY InitInv DEF ServiceInit
<1>3. \A kinds : "none" \notin kinds => JudgedAs(kinds) = 0
  <2>1. \A i \in Ids : req[i].verdict = "none"
    BY DEF ServiceInit, Init, NewReq
  <2>2. \A kinds : "none" \notin kinds => {i \in Ids : req[i].verdict \in kinds} = {}
    BY <2>1
  <2> QED
    BY <2>2, FS_EmptySet DEF JudgedAs
<1>4. AllJudged(M!Empty)
  BY <1>3, NoneJudged DEF AllJudged
<1>5. M!Total(M!Empty.requests) <= M!Total(Answered)
  BY <1>2, NoneJudged, RoomForAnother
<1> QED
  BY <1>1, <1>4, <1>5, NoneJudged DEF CountInv

\* As long as nothing is counted, the Metrics values only move about.
LEMMA NothingCountedInv ==
  ASSUME SInv, UNCHANGED Answered, Kept' \subseteq Kept \cup {M!Empty}, OnItsWay',
         AllAgreed' => AllAgreed /\ \A i \in Ids : req'[i].verdict = req[i].verdict,
         ~lost' => ~lost /\ Counts' = Counts
  PROVE  CountInv'
<1>1. AllAgreed' => AllAgreed
  OBVIOUS
<1>2. AllAgreed' => \A kinds : JudgedAs(kinds)' = JudgedAs(kinds)
  <2> SUFFICES ASSUME AllAgreed', NEW kinds PROVE JudgedAs(kinds)' = JudgedAs(kinds)
    OBVIOUS
  <2>1. {i \in Ids : req'[i].verdict \in kinds} = {i \in Ids : req[i].verdict \in kinds}
    OBVIOUS
  <2> QED
    BY <2>1 DEF JudgedAs
<1>3. AllAgreed' => \A m : /\ AtMostJudged(m)' <=> AtMostJudged(m)
                           /\ AllJudged(m)' <=> AllJudged(m)
  BY <1>2 DEF AtMostJudged, AllJudged
<1>4. \A m : Numbers(m)' <=> Numbers(m)
  BY DEF Numbers
<1>5. ASSUME NEW m \in Kept'
      PROVE  /\ Numbers(m) /\ M!Total(m.requests) <= M!Total(Answered)
             /\ AllAgreed => AtMostJudged(m)
  <2>1. CASE m \in Kept
    BY <2>1 DEF SInv, CountInv
  <2>2. CASE m = M!Empty
    BY <2>2, NoneJudged, RoomForAnother DEF SInv
  <2> QED
    BY <2>1, <2>2
<1>6. AllAgreed /\ ~lost' => AllJudged(Counts')
  BY DEF SInv, CountInv
<1> QED
  BY <1>1, <1>3, <1>4, <1>5, <1>6 DEF CountInv

\* An answer that counts: memory and the number of answers grow together, and so
\* do the verdicts if every setup agrees.
LEMMA CountedCall ==
  ASSUME SInv, RequestInv', NEW i \in Ids, NEW s, NEW r, Judges(i, s, r),
         req'[i].counted > req[i].counted, up, ~persisting, UNCHANGED lost,
         NEW h \in Hosts, NEW t \in Types, NEW x \in Accepts, RecordRequest(s, r, h, t, x)
  PROVE  CountInv' /\ M!Next
<1>1. /\ s \in Services /\ r \in Requests /\ Answer(s, r).counted = 1
      /\ req'[i].counted = req[i].counted + 1
      /\ mem \in M!Persisted /\ Summable(mem.requests) /\ Summable(mem.spam) /\ Summable(mem.valid)
  <2>1. req'[i].counted # req[i].counted
    BY DEF SInv, RequestInv, TypeOK
  <2>2. Numbers(mem)
    BY DEF SInv, CountInv, Kept
  <2> QED
    BY <2>1, <2>2 DEF Judges, Numbers
<1>2. /\ mem' \in M!Persisted
      /\ mem'.requests = M!Inc(mem.requests, h)
      /\ Verdict(s, r) = "spam" =>
           /\ \E k \in Hosts \X M!SpamReasons : mem'.spam = M!Inc(mem.spam, k)
           /\ mem'.valid = mem.valid
      /\ Verdict(s, r) = "valid" =>
           /\ \E k \in Hosts \X M!ValidReasons : mem'.valid = M!Inc(mem.valid, k)
           /\ mem'.spam = mem.spam
      /\ UNCHANGED <<up, persisting, temp, file, base>>
      /\ M!Serving => M!Next
  BY <1>1, Recorded
<1>3. /\ mem.requests \in [Hosts -> Nat]
      /\ mem.spam \in [Hosts \X M!SpamReasons -> Nat]
      /\ mem.valid \in [Hosts \X M!ValidReasons -> Nat]
  BY <1>1 DEF M!Persisted
<1>4. /\ Summable(mem'.requests) /\ M!Total(mem.requests) \in Nat
      /\ M!Total(mem'.requests) = M!Total(mem.requests) + 1
  BY <1>1, <1>2, <1>3, Counting
<1>5. Verdict(s, r) = "spam" =>
        /\ Summable(mem'.spam) /\ Summable(mem'.valid)
        /\ M!Total(mem.spam) \in Nat
        /\ M!Total(mem'.spam) = M!Total(mem.spam) + 1
        /\ M!Total(mem'.valid) = M!Total(mem.valid)
  BY <1>1, <1>2, <1>3, Counting
<1>6. Verdict(s, r) = "valid" =>
        /\ Summable(mem'.spam) /\ Summable(mem'.valid)
        /\ M!Total(mem.valid) \in Nat
        /\ M!Total(mem'.valid) = M!Total(mem.valid) + 1
        /\ M!Total(mem'.spam) = M!Total(mem.spam)
  BY <1>1, <1>2, <1>3, Counting
<1>7. Verdict(s, r) \in {"valid", "spam"}
  BY <1>1, VerdictType
<1>8. /\ M!Total(Answered) \in Nat /\ M!Total(Answered) < MaxRequests
      /\ M!Total(Answered') = M!Total(Answered) + 1
  <2>1. req[i].counted \in Nat /\ req'[i].counted <= 2
    BY DEF SInv, RequestInv, TypeOK
  <2>2. req[i].counted < 2
    BY <1>1, <2>1
  <2>3. Answered' = M!Inc(Answered, i)
    <3>1. \A j \in Ids : req'[j].counted = IF j = i THEN req[j].counted + 1 ELSE req[j].counted
      BY <1>1 DEF Judges
    <3> QED
      BY <3>1 DEF Answered, M!Inc
  <2> QED
    BY <2>2, <2>3, RoomForAnother, Counting DEF SInv
<1>9. M!Next
  <2>1. M!Total(mem.requests) <= M!Total(Answered)
    BY DEF SInv, CountInv, Kept
  <2>2. M!Total(mem.requests) < MaxRequests
    BY <1>4, <1>8, <2>1, BoundAssumption
  <2> QED
    BY <1>2, <2>2 DEF M!Serving
<1>10. Kept' \subseteq Kept \cup {mem'} /\ Counts' = mem' /\ Counts = mem /\ OnItsWay'
  BY <1>2 DEF Kept, Counts, OnItsWay, SInv, CountInv
<1>11. Numbers(mem') /\ M!Total(mem'.requests) <= M!Total(Answered')
  BY <1>2, <1>4, <1>5, <1>6, <1>7, <1>8 DEF Numbers, SInv, CountInv, Kept
<1>12. ASSUME NEW m \in Kept
       PROVE  Numbers(m) /\ M!Total(m.requests) <= M!Total(Answered')
  <2>1. Numbers(m) /\ M!Total(m.requests) <= M!Total(Answered)
    BY DEF SInv, CountInv
  <2>2. M!Total(m.requests) \in Nat
    BY <2>1, NumbersAre
  <2> QED
    BY <1>8, <2>1, <2>2
<1>13. ASSUME AllAgreed'
       PROVE  /\ AllAgreed
              /\ \A m \in Kept : AtMostJudged(m)'
              /\ AtMostJudged(mem)' /\ (~lost => AllJudged(mem)')
  <2>1. AllAgreed /\ req[i].agreed /\ req'[i].agreed
    BY <1>1, <1>13 DEF AllAgreed, Judges
  <2>2. req[i].verdict = "none" /\ req'[i].verdict = Verdict(s, r)
    <3>1. /\ req[i].counted = IF req[i].verdict = "none" THEN 0 ELSE 1
          /\ req'[i].counted = IF req'[i].verdict = "none" THEN 0 ELSE 1
      BY <2>1 DEF SInv, RequestInv, Fine
    <3> QED
      BY <1>1, <3>1 DEF Judges
  <2>3. \A kinds : "none" \notin kinds =>
          /\ Verdict(s, r) \in kinds => JudgedAs(kinds)' = JudgedAs(kinds) + 1
          /\ Verdict(s, r) \notin kinds => JudgedAs(kinds)' = JudgedAs(kinds)
    BY <2>2, OneMoreJudged DEF Judges
  <2>4. /\ JudgedAs({"spam", "valid"})' = JudgedAs({"spam", "valid"}) + 1
        /\ Verdict(s, r) = "spam" => /\ JudgedAs({"spam"})' = JudgedAs({"spam"}) + 1
                                     /\ JudgedAs({"valid"})' = JudgedAs({"valid"})
        /\ Verdict(s, r) = "valid" => /\ JudgedAs({"valid"})' = JudgedAs({"valid"}) + 1
                                      /\ JudgedAs({"spam"})' = JudgedAs({"spam"})
    BY <1>7, <2>3
  <2>5. /\ JudgedAs({"spam", "valid"}) \in Nat /\ JudgedAs({"spam"}) \in Nat
        /\ JudgedAs({"valid"}) \in Nat
    BY JudgedIsNumber
  <2>6. \A m \in Kept : AtMostJudged(m)'
    <3> SUFFICES ASSUME NEW m \in Kept PROVE AtMostJudged(m)'
      OBVIOUS
    <3>1. AtMostJudged(m) /\ Numbers(m)
      BY <2>1 DEF SInv, CountInv
    <3>2. M!Total(m.requests) \in Nat /\ M!Total(m.spam) \in Nat /\ M!Total(m.valid) \in Nat
      BY <3>1, NumbersAre
    <3> QED
      BY <1>7, <2>4, <2>5, <3>1, <3>2 DEF AtMostJudged
  <2>7. Numbers(mem) /\ AtMostJudged(mem) /\ (~lost => AllJudged(mem))
    BY <1>10, <2>1 DEF SInv, CountInv, Kept
  <2>8. M!Total(mem.requests) \in Nat /\ M!Total(mem.spam) \in Nat /\ M!Total(mem.valid) \in Nat
    BY <2>7, NumbersAre
  <2>9. AtMostJudged(mem)'
    BY <1>4, <1>5, <1>6, <1>7, <2>4, <2>5, <2>7, <2>8 DEF AtMostJudged
  <2>10. ~lost => AllJudged(mem)'
    BY <1>4, <1>5, <1>6, <1>7, <2>4, <2>5, <2>7, <2>8 DEF AllJudged
  <2> QED
    BY <2>1, <2>6, <2>9, <2>10
<1>14. ASSUME NEW m \in Kept', AllAgreed' PROVE AtMostJudged(m)'
  BY <1>10, <1>13, <1>14
<1>15. AllAgreed' /\ ~lost' => AllJudged(Counts)'
  BY <1>10, <1>13
<1>16. \A m \in Kept' : Numbers(m)' /\ M!Total(m.requests) <= M!Total(Answered')
  BY <1>10, <1>11, <1>12 DEF Numbers
<1> QED
  BY <1>9, <1>10, <1>14, <1>15, <1>16 DEF CountInv

\* An answer that does not count changes no verdict, if every setup agrees.
LEMMA UncountedCall ==
  ASSUME SInv, RequestInv', NEW i \in Ids, NEW s, NEW r, Judges(i, s, r),
         ~(req'[i].counted > req[i].counted), UNCHANGED <<counters, lost>>
  PROVE  CountInv'
<1>1. req'[i].counted = req[i].counted
  BY DEF Judges, SInv, RequestInv, TypeOK
<1>2. \A j \in Ids : req'[j].counted = req[j].counted
  BY <1>1 DEF Judges
<1>3. Answered' = Answered
  BY <1>2 DEF Answered
<1>4. ASSUME AllAgreed'
      PROVE  AllAgreed /\ \A j \in Ids : req'[j].verdict = req[j].verdict
  <2>1. AllAgreed
    BY <1>4 DEF AllAgreed, Judges
  <2>2. req[i].agreed /\ req'[i].agreed
    BY <1>4, <2>1 DEF AllAgreed
  <2>3. /\ req[i].counted = IF req[i].verdict = "none" THEN 0 ELSE 1
        /\ req'[i].counted = IF req'[i].verdict = "none" THEN 0 ELSE 1
    BY <2>2 DEF SInv, RequestInv, Fine
  <2>4. req'[i].verdict = req[i].verdict
    BY <1>1, <2>3 DEF Judges
  <2> QED
    BY <2>1, <2>4 DEF Judges
<1>5. Kept' = Kept /\ Counts' = Counts /\ OnItsWay'
  BY DEF Kept, Counts, OnItsWay, counters, SInv, CountInv
<1> QED
  BY <1>3, <1>4, <1>5, NothingCountedInv

\* A call, whichever pass it is.
LEMMA CallStep ==
  ASSUME SInv, RequestInv', NEW i \in Ids, NEW c \in Conns, NEW r, NEW pass,
         Judges(i, conns[c], r), Call(i, c, r, pass)
  PROVE  CountInv' /\ (M!Next \/ UNCHANGED counters)
<1>1. CASE req'[i].counted > req[i].counted
  <2>1. PICK h \in Hosts, t \in Types, x \in Accepts : RecordRequest(conns[c], r, h, t, x)
    BY <1>1 DEF Call
  <2> QED
    BY <1>1, <2>1, CountedCall DEF Call
<1>2. CASE ~(req'[i].counted > req[i].counted)
  BY <1>2, UncountedCall DEF Call
<1> QED
  BY <1>1, <1>2

\* The process comes and goes, the requests stay where they are.
LEMMA ProcessStep ==
  ASSUME SInv, Start \/ Persist \/ Exit \/ Crash
  PROVE  SInv' /\ M!Next
<1>1. UNCHANGED req
  BY DEF Start, Persist, Exit, Crash, Gone, vars
<1>2. RequestInv'
  <2>1. gate' = gate /\ current' \in Services /\ conns' \in [Conns -> Services \cup {Closed}]
    BY DEF Start, Persist, Exit, Crash, Gone, vars, SInv, RequestInv, TypeOK
  <2> QED
    BY <1>1, <2>1 DEF SInv, RequestInv, TypeOK, Fine
<1>3. UNCHANGED Answered /\ AllAgreed' = AllAgreed
  BY <1>1 DEF Answered, AllAgreed
<1>4. M!Next
  BY DEF M!Next, Start, Persist, Exit, Crash
<1>5. /\ Kept' \subseteq Kept \cup {M!Empty} /\ OnItsWay'
      /\ ~lost' => ~lost /\ Counts' = Counts
  <2>1. CASE Start
    <3>1. /\ ~up /\ up' /\ mem' \in {file.content, M!Empty}
          /\ UNCHANGED <<persisting, temp, file>>
          /\ ~lost' => ~lost /\ mem' = file.content
      BY <2>1 DEF Start, M!Start, M!Load
    <3>2. temp.state # "whole"
      BY <3>1 DEF SInv, CountInv, OnItsWay
    <3> QED
      BY <3>1, <3>2 DEF Kept, OnItsWay, Counts
  <2>2. CASE Persist
    <3>1. /\ up' = up /\ mem' = mem /\ file' = file /\ lost' = lost
          /\ up \/ (persisting /\ persisting')
          /\ \/ temp'.state = "torn" /\ temp'.content = M!Empty
             \/ temp'.state = "whole" /\ temp'.content = mem /\ persisting'
      BY <2>2 DEF Persist, M!BeginPersist, M!WriteTemp, M!Torn, M!Whole
    <3>2. persisting => up
      BY DEF SInv, CountInv, OnItsWay
    <3>3. OnItsWay'
      BY <3>1, <3>2 DEF OnItsWay
    <3> QED
      BY <3>1, <3>3 DEF Kept, Counts
  <2>3. CASE Exit
    <3>1. /\ temp.state = "whole" /\ ~up' /\ ~persisting' /\ mem' = M!Empty /\ file' = temp
          /\ temp' = M!NoFile /\ lost' = lost
      BY <2>3 DEF Exit, M!Rename, M!Written, M!Stopped
    <3>2. up /\ temp.content = mem
      BY <3>1 DEF SInv, CountInv, OnItsWay
    <3> QED
      BY <3>1, <3>2 DEF M!NoFile, Kept, OnItsWay, Counts
  <2>4. CASE Crash
    <3>1. /\ up /\ ~up' /\ ~persisting' /\ mem' = M!Empty /\ file' = file /\ temp' = M!NoFile
          /\ ~lost' => ~lost /\ mem = file.content
      BY <2>4 DEF Crash, M!EndUnsaved, M!Stopped
    <3> QED
      BY <3>1 DEF M!NoFile, Kept, OnItsWay, Counts
  <2> QED
    BY <2>1, <2>2, <2>3, <2>4
<1> QED
  BY <1>1, <1>2, <1>3, <1>4, <1>5, NothingCountedInv DEF SInv

LEMMA ServiceStep ==
  ASSUME SInv, [ServiceNext]_serviceVars
  PROVE  SInv' /\ (M!Next \/ UNCHANGED counters)
<1>1. CASE Between \/ UNCHANGED serviceVars
  <2>1. /\ UNCHANGED <<counters, lost, req>>
        /\ [Next]_vars
    BY <1>1 DEF Between, Next, Reload, Open, Close, serviceVars, vars
  <2>2. RequestInv'
    BY <2>1, StepInv DEF SInv
  <2>3. Kept' = Kept /\ Counts' = Counts /\ OnItsWay' /\ Answered' = Answered
        /\ (AllAgreed' => AllAgreed)
    BY <2>1 DEF Kept, Counts, OnItsWay, counters, Answered, AllAgreed, SInv, CountInv
  <2> QED
    BY <2>1, <2>2, <2>3, NothingCountedInv DEF SInv
<1>2. CASE Start \/ Persist \/ Exit \/ Crash
  BY <1>2, ProcessStep
<1>3. ASSUME NEW i \in Ids, NEW c \in Conns, NEW r \in Clients, FirstCall(i, c, r)
      PROVE  SInv' /\ (M!Next \/ UNCHANGED counters)
  <2>1. FirstPass(i, c, r) /\ Call(i, c, r, FirstPass(i, c, r))
    BY <1>3 DEF FirstCall, Call
  <2>2. RequestInv' /\ Judges(i, conns[c], r)
    BY <2>1, FirstPassInv, FirstJudges DEF SInv
  <2> QED
    BY <2>1, <2>2, CallStep DEF SInv
<1>4. ASSUME NEW i \in Ids, NEW c \in Conns, SecondCall(i, c)
      PROVE  SInv' /\ (M!Next \/ UNCHANGED counters)
  <2> DEFINE r == Fated(req[i].asked)
  <2>1. SecondPass(i, c) /\ Call(i, c, r, SecondPass(i, c))
    BY <1>4 DEF SecondCall, Call
  <2>2. RequestInv' /\ Judges(i, conns[c], r)
    BY <2>1, SecondPassInv, SecondJudges DEF SInv
  <2> HIDE DEF r
  <2> QED
    BY <2>1, <2>2, CallStep DEF SInv
<1> QED
  BY <1>1, <1>2, <1>3, <1>4 DEF ServiceNext

-----------------------------------------------------------------------------
(* The theorems.                                                           *)

\* The invariant holds in every reachable state.
THEOREM Invariance == ServiceSpec => []SInv
<1>1. ServiceInit => SInv
  BY InitInv, InitCounts DEF ServiceInit, SInv
<1>2. SInv /\ [ServiceNext]_serviceVars => SInv'
  BY ServiceStep
<1> QED
  BY <1>1, <1>2, PTL DEF ServiceSpec

\* Every request that was answered is counted once, over any reloads and restarts.
THEOREM CountedOnceCorrect == ServiceSpec => []CountedOnce
<1>1. SInv => CountedOnce
  BY DEF SInv, RequestInv, CountedOnce, Ended, Fine
<1> QED
  BY <1>1, Invariance, PTL

\* The verdict of the first pass decides where the request ends, whichever
\* process answers the second.
THEOREM VerdictCorrect == ServiceSpec => []VerdictIsFinal
<1>1. SInv => VerdictIsFinal
  BY DEF SInv, RequestInv, VerdictIsFinal, Ended, Fine
<1> QED
  BY <1>1, Invariance, PTL

\* The counters are the verdicts, in memory and in the file, unless a crash or a
\* failed load lost some: then they are fewer.
THEOREM CountsCorrect == ServiceSpec => []CountsAreVerdicts
<1>1. SInv => CountsAreVerdicts
  <2> SUFFICES ASSUME SInv, AllAgreed PROVE CountsAreVerdicts
    BY DEF CountsAreVerdicts, AllAgreed
  <2>1. AtMostJudged(Counts) /\ (~lost => AllJudged(Counts))
    BY DEF SInv, CountInv, Kept, Counts
  <2> QED
    BY <2>1 DEF CountsAreVerdicts, AtMostJudged, AllJudged, Counts
<1> QED
  BY <1>1, Invariance, PTL

\* The service implements Metrics: what the handler does to the counters is
\* what Metrics says may be done to them.
THEOREM MetricsImplemented == ServiceSpec => MetricsAsModelled
<1>1. ServiceInit => M!Init
  BY DEF ServiceInit
<1>2. SInv /\ [ServiceNext]_serviceVars => [M!Next]_(M!vars)
  BY ServiceStep DEF counters, M!vars
<1> QED
  BY <1>1, <1>2, Invariance, PTL DEF ServiceSpec, MetricsAsModelled, M!Spec

-----------------------------------------------------------------------------
(* What MetricsProofs shows of Metrics therefore holds of the service.     *)

LEMMA SameValues ==
  /\ MP!SpamReasons = M!SpamReasons /\ MP!ValidReasons = M!ValidReasons
  /\ MP!Empty = M!Empty /\ MP!NoFile = M!NoFile /\ MP!Torn = M!Torn
  /\ \A m : MP!Whole(m) = M!Whole(m)
<1>1. MP!SpamReasons = M!SpamReasons /\ MP!ValidReasons = M!ValidReasons
  BY DEF MP!SpamReasons, M!SpamReasons, MP!ValidReasons, M!ValidReasons
<1>2. MP!Empty = M!Empty
  BY <1>1, SameCounters DEF MP!Empty, M!Empty
<1> QED
  BY <1>1, <1>2
  DEF MP!NoFile, M!NoFile, MP!Torn, M!Torn, MP!Whole, M!Whole

LEMMA SameSpec == MP!Spec <=> M!Spec
<1>1. MP!Init <=> M!Init
  BY SameValues, SameCounters DEF MP!Init, M!Init
<1>2. MP!Stopped <=> M!Stopped
  BY SameValues, SameCounters DEF MP!Stopped, M!Stopped
<1>3. /\ MP!Start <=> M!Start
      /\ MP!BeginPersist <=> M!BeginPersist
      /\ MP!WriteTemp <=> M!WriteTemp
  BY SameValues, SameCounters DEF MP!Start, M!Start, MP!Load, M!Load, MP!BeginPersist, M!BeginPersist,
         MP!WriteTemp, M!WriteTemp
<1>4. /\ MP!Rename <=> M!Rename
      /\ MP!EndUnsaved <=> M!EndUnsaved
  BY <1>2, SameValues, SameCounters DEF MP!Rename, M!Rename, MP!Written, M!Written, MP!EndUnsaved, M!EndUnsaved
<1>5. MP!Serving <=> M!Serving
  BY SameCounters DEF MP!Serving, M!Serving
<1>6. ASSUME NEW h, NEW reason, NEW asn, NEW t, NEW x
      PROVE  MP!RecordSpam(h, reason, asn, t, x) <=> M!RecordSpam(h, reason, asn, t, x)
  <2>1. MP!CountSpam(mem, h, reason, asn) = M!CountSpam(mem, h, reason, asn)
    BY SameCounters DEF MP!CountSpam, M!CountSpam, MP!IncAsnKnown, M!IncAsnKnown,
           MP!IncAsnHidden, M!IncAsnHidden
  <2>2. MP!Inc(acceptHeader, <<t, x>>) = M!Inc(acceptHeader, <<t, x>>)
    BY SameCounters
  <2> QED
    BY <1>5, <2>1, <2>2 DEF MP!RecordSpam, M!RecordSpam
<1>7. \A h, reason, agent : MP!RecordValid(h, reason, agent) <=> M!RecordValid(h, reason, agent)
  BY <1>5, SameCounters
  DEF MP!RecordValid, M!RecordValid, MP!CountValid, M!CountValid, MP!IncTrustedAgent,
      M!IncTrustedAgent
<1>8. MP!Next <=> M!Next
  BY <1>3, <1>4, <1>6, <1>7, SameValues DEF MP!Next, M!Next
<1>9. (MP!Next \/ UNCHANGED MP!vars) <=> (M!Next \/ UNCHANGED M!vars)
  BY <1>8, Zenon DEF MP!vars, M!vars
<1>10. [MP!Next]_(MP!vars) <=> [M!Next]_(M!vars)
  BY <1>9, Zenon
<1> QED
  BY <1>1, <1>10, PTL DEF MP!Spec, M!Spec

\* So what is shown of the counters alone is true of them in the service, under
\* any requests, crashes and restarts: no request goes uncounted, the maps of a
\* session and of the systems add up to it, and the file is never torn.
THEOREM CountersInService ==
  ServiceSpec => []/\ M!EveryRequestClassified
                   /\ M!FileIsWhole
                   /\ M!SessionMapsAgree
                   /\ M!AsnsMatchReasons
<1>1. MP!Spec => []MP!EveryRequestClassified
  BY MP!ClassifiedCorrect, AbsentAssumption
<1>2. MP!Spec => []MP!FileIsWhole
  BY MP!FileWholeCorrect, AbsentAssumption
<1>3. MP!Spec => []MP!SessionMapsAgree
  BY MP!SessionCorrect, AbsentAssumption
<1>4. MP!Spec => []MP!AsnsMatchReasons
  BY MP!AsnsCorrect, AbsentAssumption
<1>5. MP!EveryRequestClassified => M!EveryRequestClassified
  BY DEF MP!EveryRequestClassified, M!EveryRequestClassified, MP!Classified, M!Classified
<1>6. MP!FileIsWhole => M!FileIsWhole
  BY DEF MP!FileIsWhole, M!FileIsWhole
<1>7. MP!SessionMapsAgree => M!SessionMapsAgree
  BY SameCounters DEF MP!SessionMapsAgree, M!SessionMapsAgree
<1>8. MP!AsnsMatchReasons => M!AsnsMatchReasons
  <2>1. \A f, R : MP!TotalOf(f, R) = M!TotalOf(f, R)
    BY SameCounters DEF MP!TotalOf, M!TotalOf
  <2>2. \A m : MP!AsnsMatch(m) <=> M!AsnsMatch(m)
    BY <2>1, SameCounters DEF MP!AsnsMatch, M!AsnsMatch
  <2> QED
    BY <2>2 DEF MP!AsnsMatchReasons, M!AsnsMatchReasons
<1> QED
  BY <1>1, <1>2, <1>3, <1>4, <1>5, <1>6, <1>7, <1>8, SameSpec, MetricsImplemented, PTL
  DEF MetricsAsModelled
=============================================================================
