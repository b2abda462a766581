--------------------------- MODULE MetricsProofs ----------------------------
(***************************************************************************)
(* That every request is classified in exactly one place, in memory and on *)
(* disk, for every set of hosts, agents, autonomous systems and headers,   *)
(* and that the maps agree in their sums, however often the process is     *)
(* restarted.  None of the sets need be finite: the counts always are.     *)
(***************************************************************************)
EXTENDS Metrics, FiniteSetTheorems, TLAPS

-----------------------------------------------------------------------------
(* Sums of counters.                                                       *)

\* A sum that is a number: only finitely many requests are behind it.
Summable(f) == IsFiniteSet(Units(f))

\* Nothing counted yet.
LEMMA TotalZero ==
  ASSUME NEW S
  PROVE  Summable(Zero(S)) /\ Total(Zero(S)) = 0
<1>1. Units(Zero(S)) = {}
  BY DEF Units, Zero
<1> QED
  BY <1>1, FS_EmptySet DEF Summable, Total

\* Counting a request adds one to the sum, whatever it is counted under.
LEMMA TotalInc ==
  ASSUME NEW S, NEW f \in [S -> Nat], NEW k \in S, Summable(f)
  PROVE  /\ Summable(Inc(f, k))
         /\ Total(f) \in Nat
         /\ Total(Inc(f, k)) = Total(f) + 1
<1> DEFINE u == <<k, f[k] + 1>>
<1>1. \A x \in S : Inc(f, k)[x] = IF x = k THEN f[x] + 1 ELSE f[x]
  BY DEF Inc
<1>2. DOMAIN f = S /\ DOMAIN Inc(f, k) = S
  BY DEF Inc
<1>3. Units(Inc(f, k)) = Units(f) \cup {u}
  <2>1. \A x \in S, n \in Nat :
          n \in 1..(Inc(f, k)[x]) <=> n \in 1..f[x] \/ (x = k /\ n = f[k] + 1)
    BY <1>1
  <2>2. \A x \in S : 1..f[x] \subseteq Nat /\ 1..(Inc(f, k)[x]) \subseteq Nat
    BY <1>1
  <2> QED
    BY <1>2, <2>1, <2>2 DEF Units
<1>4. u \notin Units(f)
  BY <1>2 DEF Units
<1> HIDE DEF u
<1>5. IsFiniteSet(Units(f))
  BY DEF Summable
<1> QED
  BY <1>3, <1>4, <1>5, FS_AddElement, FS_CardinalityType DEF Summable, Total

\* The sum over some of the keys.
LEMMA PartOfTotal ==
  ASSUME NEW S, NEW f \in [S -> Nat], Summable(f), NEW T \in SUBSET S
  PROVE  LET g == [k \in T |-> f[k]]
         IN  Summable(g) /\ Total(g) \in Nat
<1> DEFINE g == [k \in T |-> f[k]]
<1>1. Units(g) \subseteq Units(f)
  BY DEF Units
<1> QED
  BY <1>1, FS_Subset, FS_CardinalityType DEF Summable, Total

(* Requests and their classifications.                                     *)

ClassifiedAll(m) == \A host \in Hosts : Classified(m, host)

LEMMA EmptyType == Empty \in Persisted
  BY DEF Empty, Persisted, Zero

LEMMA EmptyClassified == ClassifiedAll(Empty)
<1> SUFFICES ASSUME NEW h \in Hosts PROVE Classified(Empty, h)
  BY DEF ClassifiedAll
<1>1. /\ Empty.requests[h] = 0
      /\ \A r \in SpamReasons : Empty.spam[<<h, r>>] = 0
      /\ \A r \in ValidReasons : Empty.valid[<<h, r>>] = 0
  BY DEF Empty, Zero
<1> QED
  BY <1>1 DEF Classified, SpamReasons, ValidReasons

LEMMA FileTypes ==
  /\ NoFile \in Files /\ Torn \in Files
  /\ \A m \in Persisted : Whole(m) \in Files
BY EmptyType DEF NoFile, Torn, Whole, Files

LEMMA IncType ==
  ASSUME NEW S, NEW f \in [S -> Nat], NEW k \in S
  PROVE  Inc(f, k) \in [S -> Nat]
BY DEF Inc

\* Only one entry moves, by one.
LEMMA IncValue ==
  ASSUME NEW S, NEW f \in [S -> Nat], NEW k \in S, NEW x \in S
  PROVE  Inc(f, k)[x] = IF x = k THEN f[x] + 1 ELSE f[x]
BY DEF Inc

\* What one spam request adds, whichever AS map it adds to.
LEMMA CountSpamFields ==
  ASSUME NEW m \in Persisted, NEW host \in Hosts, NEW reason \in SpamReasons,
         NEW asn \in Asns \cup {NoAsn}
  PROVE  LET n == CountSpam(m, host, reason, asn)
         IN  /\ n \in Persisted
             /\ n.requests = Inc(m.requests, host)
             /\ n.spam = Inc(m.spam, <<host, reason>>)
             /\ n.valid = m.valid
             /\ n.asnKnown = IF reason # "poison" /\ asn # NoAsn THEN Inc(m.asnKnown, asn)
                                                                ELSE m.asnKnown
             /\ n.asnHidden = IF reason = "poison" /\ asn # NoAsn THEN Inc(m.asnHidden, asn)
                                                                 ELSE m.asnHidden
<1> DEFINE n == CountSpam(m, host, reason, asn)
           c == [m EXCEPT !.requests = Inc(@, host), !.spam = Inc(@, <<host, reason>>)]
<1>1. /\ c.requests = Inc(m.requests, host) /\ c.spam = Inc(m.spam, <<host, reason>>)
      /\ c.valid = m.valid /\ c.asnKnown = m.asnKnown /\ c.asnHidden = m.asnHidden
  BY DEF Persisted
<1>2. c \in Persisted
  <2>1. /\ Inc(m.requests, host) \in [Hosts -> Nat]
        /\ Inc(m.spam, <<host, reason>>) \in [Hosts \X SpamReasons -> Nat]
    BY IncType DEF Persisted
  <2> QED
    BY <2>1 DEF Persisted
<1> HIDE DEF c
<1>3. ASSUME asn \in Asns
      PROVE  Inc(c.asnKnown, asn) \in [Asns -> Nat] /\ Inc(c.asnHidden, asn) \in [Asns -> Nat]
  BY <1>2, <1>3, IncType DEF Persisted
<1>4. CASE asn = NoAsn
  <2>1. n = c
    BY <1>4 DEF CountSpam, IncAsnKnown, IncAsnHidden, c
  <2> QED
    BY <1>1, <1>2, <1>4, <2>1
<1>5. CASE asn # NoAsn /\ reason = "poison"
  <2>1. n = [c EXCEPT !.asnHidden = Inc(@, asn)]
    BY <1>5 DEF CountSpam, IncAsnHidden, c
  <2> HIDE DEF n
  <2>2. n \in Persisted /\ n.asnHidden = Inc(c.asnHidden, asn) /\ n.asnKnown = c.asnKnown
        /\ n.requests = c.requests /\ n.spam = c.spam /\ n.valid = c.valid
    BY <1>2, <1>3, <1>5, <2>1 DEF Persisted
  <2> QED
    BY <1>1, <1>5, <2>2 DEF n
<1>6. CASE asn # NoAsn /\ reason # "poison"
  <2>1. n = [c EXCEPT !.asnKnown = Inc(@, asn)]
    BY <1>6 DEF CountSpam, IncAsnKnown, c
  <2> HIDE DEF n
  <2>2. n \in Persisted /\ n.asnKnown = Inc(c.asnKnown, asn) /\ n.asnHidden = c.asnHidden
        /\ n.requests = c.requests /\ n.spam = c.spam /\ n.valid = c.valid
    BY <1>2, <1>3, <1>6, <2>1 DEF Persisted
  <2> QED
    BY <1>1, <1>6, <2>2 DEF n
<1> QED
  BY <1>4, <1>5, <1>6

LEMMA CountValidFields ==
  ASSUME NEW m \in Persisted, NEW host \in Hosts, NEW reason \in ValidReasons
  PROVE  LET n == CountValid(m, host, reason)
         IN  /\ n \in Persisted
             /\ n.requests = Inc(m.requests, host)
             /\ n.valid = Inc(m.valid, <<host, reason>>)
             /\ n.spam = m.spam
             /\ n.asnKnown = m.asnKnown /\ n.asnHidden = m.asnHidden
<1>1. /\ Inc(m.requests, host) \in [Hosts -> Nat]
      /\ Inc(m.valid, <<host, reason>>) \in [Hosts \X ValidReasons -> Nat]
  BY IncType DEF Persisted
<1> QED
  BY <1>1 DEF CountValid, Persisted

\* A request moves the total of its host and one of the host's reasons.
LEMMA SpamClassified ==
  ASSUME NEW m \in Persisted, ClassifiedAll(m), NEW host \in Hosts,
         NEW reason \in SpamReasons, NEW asn \in Asns \cup {NoAsn}
  PROVE  ClassifiedAll(CountSpam(m, host, reason, asn))
<1> DEFINE n == CountSpam(m, host, reason, asn)
<1>1. /\ n.requests = Inc(m.requests, host) /\ n.spam = Inc(m.spam, <<host, reason>>)
      /\ n.valid = m.valid
  BY CountSpamFields
<1> HIDE DEF n
<1> SUFFICES ASSUME NEW h \in Hosts PROVE Classified(n, h)
  BY DEF ClassifiedAll, n
<1>2. /\ m.requests \in [Hosts -> Nat] /\ m.spam \in [Hosts \X SpamReasons -> Nat]
      /\ m.valid \in [Hosts \X ValidReasons -> Nat]
  BY DEF Persisted
<1>3. n.requests[h] = IF h = host THEN m.requests[h] + 1 ELSE m.requests[h]
  BY <1>1, <1>2, IncValue
<1>4. \A r \in SpamReasons :
        n.spam[<<h, r>>] = IF h = host /\ r = reason THEN m.spam[<<h, r>>] + 1 ELSE m.spam[<<h, r>>]
  BY <1>1, <1>2 DEF Inc
<1>5. /\ \A r \in SpamReasons : m.spam[<<h, r>>] \in Nat
      /\ \A r \in ValidReasons : m.valid[<<h, r>>] \in Nat
      /\ m.requests[h] \in Nat
  BY <1>2
<1>6. Classified(m, h)
  BY DEF ClassifiedAll
<1> QED
  BY <1>1, <1>3, <1>4, <1>5, <1>6 DEF Classified, SpamReasons, ValidReasons

LEMMA ValidClassified ==
  ASSUME NEW m \in Persisted, ClassifiedAll(m), NEW host \in Hosts,
         NEW reason \in ValidReasons
  PROVE  ClassifiedAll(CountValid(m, host, reason))
<1> DEFINE n == CountValid(m, host, reason)
<1>1. /\ n.requests = Inc(m.requests, host) /\ n.valid = Inc(m.valid, <<host, reason>>)
      /\ n.spam = m.spam
  BY CountValidFields
<1> HIDE DEF n
<1> SUFFICES ASSUME NEW h \in Hosts PROVE Classified(n, h)
  BY DEF ClassifiedAll, n
<1>2. /\ m.requests \in [Hosts -> Nat] /\ m.spam \in [Hosts \X SpamReasons -> Nat]
      /\ m.valid \in [Hosts \X ValidReasons -> Nat]
  BY DEF Persisted
<1>3. n.requests[h] = IF h = host THEN m.requests[h] + 1 ELSE m.requests[h]
  BY <1>1, <1>2, IncValue
<1>4. \A r \in ValidReasons :
        n.valid[<<h, r>>] = IF h = host /\ r = reason THEN m.valid[<<h, r>>] + 1 ELSE m.valid[<<h, r>>]
  BY <1>1, <1>2 DEF Inc
<1>5. /\ \A r \in SpamReasons : m.spam[<<h, r>>] \in Nat
      /\ \A r \in ValidReasons : m.valid[<<h, r>>] \in Nat
      /\ m.requests[h] \in Nat
  BY <1>2
<1>6. Classified(m, h)
  BY DEF ClassifiedAll
<1>7. CASE h # host
  BY <1>1, <1>3, <1>4, <1>5, <1>6, <1>7 DEF Classified, SpamReasons, ValidReasons
<1>8. CASE h = host
  <2>1. \A r \in ValidReasons : r # reason => n.valid[<<h, r>>] = m.valid[<<h, r>>]
    BY <1>4
  <2>2. n.valid[<<h, reason>>] = m.valid[<<h, reason>>] + 1
    BY <1>4, <1>8
  <2>3. CASE reason = "default"
    BY <1>1, <1>3, <1>5, <1>6, <1>8, <2>1, <2>2, <2>3 DEF Classified, SpamReasons, ValidReasons
  <2>4. CASE reason = "trustedIp"
    BY <1>1, <1>3, <1>5, <1>6, <1>8, <2>1, <2>2, <2>4 DEF Classified, SpamReasons, ValidReasons
  <2>5. CASE reason = "trustedPath"
    BY <1>1, <1>3, <1>5, <1>6, <1>8, <2>1, <2>2, <2>5 DEF Classified, SpamReasons, ValidReasons
  <2>6. CASE reason = "trustedAgent"
    BY <1>1, <1>3, <1>5, <1>6, <1>8, <2>1, <2>2, <2>6 DEF Classified, SpamReasons, ValidReasons
  <2> QED
    BY <2>3, <2>4, <2>5, <2>6 DEF ValidReasons
<1> QED
  BY <1>7, <1>8

-----------------------------------------------------------------------------
(* The sums over systems.                                                  *)

\* A Metrics value whose systems match its reasons, in sums that are numbers.
Sums(m) ==
  Summable(m.spam) /\ Summable(m.asnKnown) /\ Summable(m.asnHidden) /\ AsnsMatch(m)

\* Counting under a reason adds one to the sum over any reasons it is among.
LEMMA TotalOfInc ==
  ASSUME NEW f \in [Hosts \X SpamReasons -> Nat], Summable(f),
         NEW host \in Hosts, NEW reason \in SpamReasons, NEW reasons \in SUBSET SpamReasons
  PROVE  /\ TotalOf(f, reasons) \in Nat
         /\ reason \in reasons =>
              TotalOf(Inc(f, <<host, reason>>), reasons) = TotalOf(f, reasons) + 1
         /\ reason \notin reasons =>
              TotalOf(Inc(f, <<host, reason>>), reasons) = TotalOf(f, reasons)
<1> DEFINE K == Hosts \X reasons
           g == [k \in K |-> f[k]]
           k0 == <<host, reason>>
           n == Inc(f, k0)
<1>1. K \subseteq Hosts \X SpamReasons /\ g \in [K -> Nat]
  OBVIOUS
<1>2. Summable(g) /\ Total(g) \in Nat
  BY <1>1, PartOfTotal
<1>3. TotalOf(f, reasons) = Total(g) /\ TotalOf(n, reasons) = Total([k \in K |-> n[k]])
  BY DEF TotalOf
<1>4. CASE reason \in reasons
  <2>1. [k \in K |-> n[k]] = Inc(g, k0)
    BY <1>1, <1>4 DEF Inc
  <2> HIDE DEF g, K
  <2>2. k0 \in K
    BY <1>4 DEF K
  <2> QED
    BY <1>1, <1>2, <1>3, <1>4, <2>1, <2>2, TotalInc
<1>5. CASE reason \notin reasons
  <2>1. [k \in K |-> n[k]] = g
    BY <1>1, <1>5 DEF Inc
  <2> QED
    BY <1>2, <1>3, <1>5, <2>1
<1> QED
  BY <1>4, <1>5

LEMMA EmptySums == Sums(Empty)
<1>1. /\ Empty.spam = Zero(Hosts \X SpamReasons)
      /\ Empty.asnKnown = Zero(Asns) /\ Empty.asnHidden = Zero(Asns)
  BY DEF Empty
<1>2. ASSUME NEW reasons \in SUBSET SpamReasons PROVE TotalOf(Empty.spam, reasons) = 0
  <2>1. [k \in Hosts \X reasons |-> Empty.spam[k]] = Zero(Hosts \X reasons)
    BY <1>1 DEF Zero
  <2> QED
    BY <2>1, TotalZero DEF TotalOf
<1>3. /\ TotalOf(Empty.spam, {"poison"}) = 0 /\ TotalOf(Empty.spam, {"unwantedAsn"}) = 0
      /\ TotalOf(Empty.spam, {"unwantedAsn", "unwantedAgent"}) = 0
  BY <1>2 DEF SpamReasons
<1> QED
  BY <1>1, <1>3, TotalZero DEF Sums, AsnsMatch

\* A spam request moves both sides of each comparison the right way: an unwanted
\* system is always a known one.
LEMMA SpamSums ==
  ASSUME NEW m \in Persisted, Sums(m), NEW host \in Hosts, NEW reason \in SpamReasons,
         NEW asn \in Asns \cup {NoAsn}, reason = "unwantedAsn" => asn # NoAsn
  PROVE  Sums(CountSpam(m, host, reason, asn))
<1> DEFINE n == CountSpam(m, host, reason, asn)
<1>1. /\ m.spam \in [Hosts \X SpamReasons -> Nat] /\ <<host, reason>> \in Hosts \X SpamReasons
      /\ m.asnKnown \in [Asns -> Nat] /\ m.asnHidden \in [Asns -> Nat]
  BY DEF Persisted
<1>2. /\ n.spam = Inc(m.spam, <<host, reason>>)
      /\ n.asnKnown = IF reason # "poison" /\ asn # NoAsn THEN Inc(m.asnKnown, asn)
                                                         ELSE m.asnKnown
      /\ n.asnHidden = IF reason = "poison" /\ asn # NoAsn THEN Inc(m.asnHidden, asn)
                                                          ELSE m.asnHidden
  BY CountSpamFields
<1> HIDE DEF n
<1>3. /\ Summable(m.spam) /\ Summable(m.asnKnown) /\ Summable(m.asnHidden)
      /\ Total(m.asnKnown) \in Nat /\ Total(m.asnHidden) \in Nat
  BY FS_CardinalityType DEF Sums, Summable, Total
<1>4. Summable(n.spam)
  BY <1>1, <1>2, <1>3, TotalInc
<1>5. /\ Summable(n.asnKnown)
      /\ Total(n.asnKnown) = IF reason # "poison" /\ asn # NoAsn THEN Total(m.asnKnown) + 1
                                                                ELSE Total(m.asnKnown)
  BY <1>1, <1>2, <1>3, TotalInc
<1>6. /\ Summable(n.asnHidden)
      /\ Total(n.asnHidden) = IF reason = "poison" /\ asn # NoAsn THEN Total(m.asnHidden) + 1
                                                                 ELSE Total(m.asnHidden)
  BY <1>1, <1>2, <1>3, TotalInc
<1> DEFINE Of(x, reasons) == TotalOf(x.spam, reasons)
<1>7. ASSUME NEW reasons \in SUBSET SpamReasons
      PROVE  /\ Of(m, reasons) \in Nat
             /\ reason \in reasons => Of(n, reasons) = Of(m, reasons) + 1
             /\ reason \notin reasons => Of(n, reasons) = Of(m, reasons)
  <2>1. \A f \in [Hosts \X SpamReasons -> Nat] : Summable(f) =>
          /\ TotalOf(f, reasons) \in Nat
          /\ reason \in reasons =>
               TotalOf(Inc(f, <<host, reason>>), reasons) = TotalOf(f, reasons) + 1
          /\ reason \notin reasons =>
               TotalOf(Inc(f, <<host, reason>>), reasons) = TotalOf(f, reasons)
    BY TotalOfInc
  <2> QED
    BY <1>1, <1>2, <1>3, <2>1
<1>8. {"poison"} \in SUBSET SpamReasons /\ {"unwantedAsn"} \in SUBSET SpamReasons
      /\ {"unwantedAsn", "unwantedAgent"} \in SUBSET SpamReasons
  BY DEF SpamReasons
<1>9. /\ Total(m.asnHidden) <= Of(m, {"poison"})
      /\ Total(m.asnKnown) >= Of(m, {"unwantedAsn"})
      /\ Total(m.asnKnown) <= Of(m, {"unwantedAsn", "unwantedAgent"})
  BY DEF Sums, AsnsMatch
<1> HIDE DEF Of
<1>10. Total(n.asnHidden) <= Of(n, {"poison"})
  BY <1>3, <1>6, <1>7, <1>8, <1>9
<1>11. Total(n.asnKnown) >= Of(n, {"unwantedAsn"})
  BY <1>3, <1>5, <1>7, <1>8, <1>9
<1>12. Total(n.asnKnown) <= Of(n, {"unwantedAsn", "unwantedAgent"})
  <2>1. reason # "poison" => reason \in {"unwantedAsn", "unwantedAgent"}
    BY DEF SpamReasons
  <2> QED
    BY <1>3, <1>5, <1>7, <1>8, <1>9, <2>1
<1> QED
  BY <1>4, <1>5, <1>6, <1>10, <1>11, <1>12 DEF Sums, AsnsMatch, Of, n

LEMMA ValidSums ==
  ASSUME NEW m \in Persisted, Sums(m), NEW host \in Hosts, NEW reason \in ValidReasons
  PROVE  Sums(CountValid(m, host, reason))
BY CountValidFields DEF Sums, AsnsMatch

-----------------------------------------------------------------------------
(* The two maps of the session.                                            *)

Agent(t, host) == [a \in Agents |-> t[<<host, a>>]]

\* What SessionMapsAgree says, of sums that are numbers.
Session(m, b, t, x) ==
  /\ Summable(x) /\ Total(x) = Total(m.spam) - Total(b.spam)
  /\ \A host \in Hosts :
       /\ Summable(Agent(t, host))
       /\ Total(Agent(t, host)) =
            m.valid[<<host, "trustedAgent">>] - b.valid[<<host, "trustedAgent">>]

\* A session starts with what it loaded and with nothing in its own maps.
LEMMA FreshSession ==
  ASSUME NEW m \in Persisted, Sums(m)
  PROVE  Session(m, m, Zero(Hosts \X Agents), Zero(Types \X Accepts))
<1>1. Total(m.spam) \in Nat /\ \A h \in Hosts : m.valid[<<h, "trustedAgent">>] \in Nat
  BY FS_CardinalityType DEF Sums, Summable, Total, Persisted, ValidReasons
<1>2. \A h \in Hosts : Agent(Zero(Hosts \X Agents), h) = Zero(Agents)
  BY DEF Agent, Zero
<1> QED
  BY <1>1, <1>2, TotalZero DEF Session

\* A spam request comes with one Accept header and touches no agent.
LEMMA SpamSession ==
  ASSUME NEW m \in Persisted, Sums(m), NEW b \in Persisted, Sums(b),
         NEW t, NEW x \in [Types \X Accepts -> Nat], Session(m, b, t, x),
         NEW host \in Hosts, NEW reason \in SpamReasons, NEW asn \in Asns \cup {NoAsn},
         NEW k \in Types \X Accepts
  PROVE  Session(CountSpam(m, host, reason, asn), b, t, Inc(x, k))
<1> DEFINE n == CountSpam(m, host, reason, asn)
<1>1. n.spam = Inc(m.spam, <<host, reason>>) /\ n.valid = m.valid
  BY CountSpamFields
<1>2. /\ m.spam \in [Hosts \X SpamReasons -> Nat] /\ <<host, reason>> \in Hosts \X SpamReasons
      /\ Summable(m.spam) /\ Summable(x) /\ Summable(b.spam)
  BY DEF Persisted, Sums, Session
<1>3. Total(m.spam) \in Nat /\ Total(b.spam) \in Nat
  BY <1>2, FS_CardinalityType DEF Summable, Total
<1> HIDE DEF n
<1>4. Total(n.spam) = Total(m.spam) + 1
  BY <1>1, <1>2, TotalInc
<1>5. Summable(Inc(x, k)) /\ Total(x) \in Nat /\ Total(Inc(x, k)) = Total(x) + 1
  BY <1>2, TotalInc
<1> QED
  BY <1>1, <1>3, <1>4, <1>5 DEF Session, n

\* A valid request counts its agent exactly if it is trusted for it.
LEMMA ValidSession ==
  ASSUME NEW m \in Persisted, NEW b \in Persisted,
         trustedAgents \in [Hosts \X Agents -> Nat], NEW x,
         Session(m, b, trustedAgents, x),
         NEW host \in Hosts, NEW reason \in ValidReasons,
         NEW agent, reason = "trustedAgent" => agent \in Agents
  PROVE  Session(CountValid(m, host, reason), b, IncTrustedAgent(reason, host, agent), x)
<1> DEFINE n == CountValid(m, host, reason)
           t == IncTrustedAgent(reason, host, agent)
<1>1. n.valid = Inc(m.valid, <<host, reason>>) /\ n.spam = m.spam
  BY CountValidFields
<1>2. m.valid \in [Hosts \X ValidReasons -> Nat] /\ b.valid \in [Hosts \X ValidReasons -> Nat]
  BY DEF Persisted
<1> HIDE DEF n
<1> SUFFICES ASSUME NEW h \in Hosts
             PROVE  /\ Summable(Agent(t, h))
                    /\ Total(Agent(t, h)) =
                         n.valid[<<h, "trustedAgent">>] - b.valid[<<h, "trustedAgent">>]
  BY <1>1 DEF Session, n
<1>3. /\ Summable(Agent(trustedAgents, h))
      /\ Total(Agent(trustedAgents, h)) =
           m.valid[<<h, "trustedAgent">>] - b.valid[<<h, "trustedAgent">>]
  BY DEF Session
<1>4. /\ m.valid[<<h, "trustedAgent">>] \in Nat /\ b.valid[<<h, "trustedAgent">>] \in Nat
      /\ <<h, "trustedAgent">> \in Hosts \X ValidReasons
  BY <1>2 DEF ValidReasons
<1>5. CASE h = host /\ reason = "trustedAgent"
  <2>1. t = Inc(trustedAgents, <<host, agent>>)
    BY <1>5 DEF IncTrustedAgent
  <2>2. Agent(t, h) = Inc(Agent(trustedAgents, h), agent)
    BY <1>5, <2>1 DEF Agent, Inc
  <2>3. Agent(trustedAgents, h) \in [Agents -> Nat]
    BY DEF Agent
  <2>4. n.valid[<<h, "trustedAgent">>] = m.valid[<<h, "trustedAgent">>] + 1
    BY <1>1, <1>2, <1>4, <1>5 DEF Inc
  <2>5. Summable(Agent(t, h)) /\ Total(Agent(t, h)) = Total(Agent(trustedAgents, h)) + 1
    BY <1>3, <1>5, <2>2, <2>3, TotalInc
  <2> QED
    BY <1>3, <1>4, <2>4, <2>5
<1>6. CASE h # host \/ reason # "trustedAgent"
  <2>1. Agent(t, h) = Agent(trustedAgents, h)
    BY <1>6 DEF IncTrustedAgent, Agent, Inc
  <2>2. n.valid[<<h, "trustedAgent">>] = m.valid[<<h, "trustedAgent">>]
    BY <1>1, <1>2, <1>4, <1>6 DEF Inc
  <2> QED
    BY <1>3, <2>1, <2>2
<1> QED
  BY <1>5, <1>6

-----------------------------------------------------------------------------
(* The inductive invariant.                                                *)

\* Every Metrics value there is: in memory, being written, and written;
\* and the session between them.
IInv ==
  /\ TypeOK
  /\ ClassifiedAll(mem) /\ ClassifiedAll(temp.content) /\ ClassifiedAll(file.content)
  /\ FileIsWhole
  /\ Sums(mem) /\ Sums(base) /\ Sums(temp.content) /\ Sums(file.content)
  /\ Session(mem, base, trustedAgents, acceptHeader)

\* A process that ends leaves nothing in memory.
LEMMA StoppedInv ==
  ASSUME Stopped, temp' \in Files, file' \in Files,
         ClassifiedAll(temp'.content), ClassifiedAll(file'.content),
         Sums(temp'.content), Sums(file'.content), file'.state # "torn"
  PROVE  IInv'
<1>1. up' \in BOOLEAN /\ persisting' \in BOOLEAN
  BY DEF Stopped
<1>2. /\ trustedAgents' \in [Hosts \X Agents -> Nat]
      /\ acceptHeader' \in [Types \X Accepts -> Nat]
  BY DEF Stopped, Zero
<1>3. mem' = Empty /\ base' = Empty
  BY DEF Stopped
<1>4. Sums(mem') /\ Sums(base') /\ Session(mem', base', trustedAgents', acceptHeader')
  BY <1>3, EmptyType, EmptySums, FreshSession DEF Stopped
<1> QED
  BY <1>1, <1>2, <1>3, <1>4, EmptyType, EmptyClassified DEF IInv, TypeOK, FileIsWhole

LEMMA InitInv == ASSUME Init PROVE IInv
<1>1. up \in BOOLEAN /\ persisting \in BOOLEAN
  BY DEF Init
<1>2. /\ trustedAgents \in [Hosts \X Agents -> Nat]
      /\ acceptHeader \in [Types \X Accepts -> Nat]
  BY DEF Init, Zero
<1>3. Sums(mem) /\ Sums(base) /\ Session(mem, base, trustedAgents, acceptHeader)
  BY EmptyType, EmptySums, FreshSession DEF Init
<1> QED
  BY <1>1, <1>2, <1>3, EmptyType, EmptyClassified, EmptySums, FileTypes
  DEF Init, IInv, TypeOK, FileIsWhole, NoFile

LEMMA StepInv == ASSUME IInv, [Next]_vars PROVE IInv'
<1>1. ASSUME Start PROVE IInv'
  <2>1. mem' \in {file.content, Empty} /\ base' = mem'
    BY <1>1 DEF Start, Load
  <2>2. mem' \in Persisted /\ ClassifiedAll(mem')
    BY <2>1, EmptyType, EmptyClassified DEF IInv, TypeOK, Files
  <2>3. up' \in BOOLEAN /\ persisting' \in BOOLEAN
    BY <1>1 DEF Start, IInv, TypeOK
  <2>4. /\ trustedAgents' \in [Hosts \X Agents -> Nat]
        /\ acceptHeader' \in [Types \X Accepts -> Nat]
    BY <1>1 DEF Start, Zero
  <2>5. Sums(mem') /\ Sums(base') /\ Session(mem', base', trustedAgents', acceptHeader')
    <3>1. Sums(mem')
      BY <2>1, EmptySums DEF IInv
    <3> QED
      BY <1>1, <2>1, <2>2, <3>1, FreshSession DEF Start
  <2> QED
    BY <1>1, <2>1, <2>2, <2>3, <2>4, <2>5 DEF Start, IInv, TypeOK, FileIsWhole
<1>2. ASSUME BeginPersist PROVE IInv'
  <2>1. up' \in BOOLEAN /\ persisting' \in BOOLEAN
    BY <1>2 DEF BeginPersist, IInv, TypeOK
  <2> QED
    BY <1>2, <2>1, FileTypes, EmptyClassified, EmptySums DEF BeginPersist, IInv, TypeOK, Torn, FileIsWhole
<1>3. ASSUME WriteTemp PROVE IInv'
  BY <1>3, FileTypes DEF WriteTemp, IInv, TypeOK, Whole, FileIsWhole
<1>4. ASSUME Rename PROVE IInv'
  BY <1>4, StoppedInv, FileTypes, EmptyClassified, EmptySums DEF Rename, Written, IInv, TypeOK, NoFile
<1>5. ASSUME EndUnsaved PROVE IInv'
  BY <1>5, StoppedInv, FileTypes, EmptyClassified, EmptySums
  DEF EndUnsaved, IInv, TypeOK, NoFile, FileIsWhole
<1>6. ASSUME NEW host \in Hosts, NEW reason \in SpamReasons, NEW asn \in Asns \cup {NoAsn},
             NEW type \in Types, NEW accept \in Accepts,
             RecordSpam(host, reason, asn, type, accept)
      PROVE  IInv'
  <2>1. mem' \in Persisted /\ ClassifiedAll(mem')
    BY <1>6, CountSpamFields, SpamClassified DEF RecordSpam, IInv, TypeOK
  <2>2. acceptHeader' \in [Types \X Accepts -> Nat]
    BY <1>6, IncType DEF RecordSpam, IInv, TypeOK
  <2>3. Sums(mem')
    BY <1>6, SpamSums DEF RecordSpam, IInv, TypeOK
  <2>4. Session(mem', base', trustedAgents', acceptHeader')
    BY <1>6, SpamSession DEF RecordSpam, IInv, TypeOK
  <2> QED
    BY <1>6, <2>1, <2>2, <2>3, <2>4 DEF RecordSpam, IInv, TypeOK, FileIsWhole
<1>7. ASSUME NEW host \in Hosts, NEW reason \in ValidReasons,
             NEW agent \in Agents \cup {NoAgent}, RecordValid(host, reason, agent)
      PROVE  IInv'
  <2>1. mem' \in Persisted /\ ClassifiedAll(mem')
    BY <1>7, CountValidFields, ValidClassified DEF RecordValid, IInv, TypeOK
  <2>2. trustedAgents' \in [Hosts \X Agents -> Nat]
    <3>1. reason = "trustedAgent" => <<host, agent>> \in Hosts \X Agents
      BY <1>7 DEF RecordValid
    <3>2. trustedAgents \in [Hosts \X Agents -> Nat]
      BY DEF IInv, TypeOK
    <3> QED
      BY <1>7, <3>1, <3>2, IncType DEF RecordValid, IncTrustedAgent
  <2>3. Sums(mem')
    BY <1>7, ValidSums DEF RecordValid, IInv, TypeOK
  <2>4. Session(mem', base', trustedAgents', acceptHeader')
    BY <1>7, ValidSession DEF RecordValid, IInv, TypeOK
  <2> QED
    BY <1>7, <2>1, <2>2, <2>3, <2>4 DEF RecordValid, IInv, TypeOK, FileIsWhole
<1>8. ASSUME UNCHANGED vars PROVE IInv'
  BY <1>8 DEF vars, IInv, TypeOK, FileIsWhole
<1> QED
  BY <1>1, <1>2, <1>3, <1>4, <1>5, <1>6, <1>7, <1>8 DEF Next

\* Every Metrics value, in memory or on disk, is well formed and classified.
THEOREM Invariance == Spec => []IInv
  BY InitInv, StepInv, PTL DEF Spec

\* Requests are the sum of their classifications, for every host, whatever was
\* recorded, persisted, loaded or lost.
THEOREM ClassifiedCorrect == Spec => []EveryRequestClassified
<1>1. IInv => EveryRequestClassified
  BY DEF IInv, ClassifiedAll, EveryRequestClassified
<1> QED
  BY <1>1, Invariance, PTL

\* The persisted file is never a torn one, wherever persist() is cut short.
THEOREM FileWholeCorrect == Spec => []FileIsWhole
<1>1. IInv => FileIsWhole
  BY DEF IInv
<1> QED
  BY <1>1, Invariance, PTL

\* What a run adds to its own two maps is what it adds to those it persists.
THEOREM SessionCorrect == Spec => []SessionMapsAgree
<1>1. IInv => SessionMapsAgree
  BY DEF IInv, Session, Agent, SessionMapsAgree
<1> QED
  BY <1>1, Invariance, PTL

\* The systems in the counters answer for the requests they were counted with.
THEOREM AsnsCorrect == Spec => []AsnsMatchReasons
<1>1. IInv => AsnsMatchReasons
  BY DEF IInv, Sums, AsnsMatchReasons
<1> QED
  BY <1>1, Invariance, PTL
=============================================================================
