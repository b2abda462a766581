----------------------------- MODULE CrawlProofs -----------------------------
(***************************************************************************)
(* What the rules make of a request, and where the links of a garbage page *)
(* lead, for any configurations, paths and agents.  The verdict is spam    *)
(* for whoever is not trusted and asks for a poisoned path, under any      *)
(* rules that are edited.  The poison is in the path of every reference;   *)
(* what is left to show is that nothing a path is put together from hides  *)
(* it again.                                                               *)
(***************************************************************************)
EXTENDS Crawl, RuleEdits, FiniteSetTheorems, SequenceTheorems, WellFoundedInduction, TLAPS

-----------------------------------------------------------------------------
(* Rules that are edited: PoisonIsFinal and RulesPullOneWay.               *)

\* The two sides of the order of the tests: trust is looked at first.
IsTrusted(r, req) ==
  req.path \in r.trustedPaths \/ req.ip \in r.trustedIps \/ req.agent \in r.trustedAgents

IsSuspect(r, req) ==
  \/ req.agent \in r.unwantedAgents
  \/ Asn(r, req.ip) \in r.unwantedAsns
  \/ req.path \in r.poisonedPaths

\* A request is valid exactly if it is trusted or nothing is held against it.
LEMMA TrustOrNothingAgainst ==
  ASSUME NEW r, NEW req
  PROVE  /\ KindOf(r, req) \in {"valid", "spam"}
         /\ KindOf(r, req) = "spam" <=> ~IsTrusted(r, req) /\ IsSuspect(r, req)
BY DEF KindOf, Classify, IsTrusted, IsSuspect, Valid, Spam

\* An edit that trusts leaves what is held against a request alone.
LEMMA TrustOnlyAdds ==
  ASSUME rules \in Rules, Trust, NEW req
  PROVE  /\ IsTrusted(rules, req) => IsTrusted(rules', req)
         /\ IsSuspect(rules', req) <=> IsSuspect(rules, req)
         /\ ~IsTrusted(rules', req) =>
              Classify(rules', req, req.ip) = Classify(rules, req, req.ip)
<1>1. /\ rules'.unwantedAgents = rules.unwantedAgents
      /\ rules'.unwantedAsns = rules.unwantedAsns
      /\ rules'.asnsDb = rules.asnsDb
      /\ rules'.poisonedPaths = rules.poisonedPaths
  BY DEF Trust, TrustPath, TrustIp, TrustAgent, Rules
<1>2. Asn(rules', req.ip) = Asn(rules, req.ip)
  BY <1>1 DEF Asn
<1>3. /\ rules.trustedPaths \subseteq rules'.trustedPaths
      /\ rules.trustedIps \subseteq rules'.trustedIps
      /\ rules.trustedAgents \subseteq rules'.trustedAgents
  BY DEF Trust, TrustPath, TrustIp, TrustAgent, Rules
<1>4. IsTrusted(rules, req) => IsTrusted(rules', req)
  BY <1>3 DEF IsTrusted
<1>5. IsSuspect(rules', req) <=> IsSuspect(rules, req)
  BY <1>1, <1>2 DEF IsSuspect
<1>6. ASSUME ~IsTrusted(rules', req)
      PROVE  Classify(rules', req, req.ip) = Classify(rules, req, req.ip)
  <2>1. ~IsTrusted(rules, req)
    BY <1>4, <1>6
  <2> QED
    BY <1>1, <1>2, <1>6, <2>1 DEF Classify, IsTrusted
<1> QED
  BY <1>4, <1>5, <1>6

\* An edit that shuns leaves trust alone.  A database that is added can only
\* tell more: without one no request belongs to an unwanted system.
LEMMA ShunOnlyAdds ==
  ASSUME rules \in Rules, Shun, NEW req
  PROVE  /\ IsTrusted(rules', req) <=> IsTrusted(rules, req)
         /\ IsSuspect(rules, req) => IsSuspect(rules', req)
<1>1. /\ rules'.trustedPaths = rules.trustedPaths
      /\ rules'.trustedIps = rules.trustedIps
      /\ rules'.trustedAgents = rules.trustedAgents
  BY DEF Shun, ShunAgent, ShunAsn, PoisonPath, AddAsnsDb, Rules
<1>2. /\ rules.unwantedAgents \subseteq rules'.unwantedAgents
      /\ rules.unwantedAsns \subseteq rules'.unwantedAsns
      /\ rules.poisonedPaths \subseteq rules'.poisonedPaths
      /\ rules.asnsDb => rules'.asnsDb
  BY DEF Shun, ShunAgent, ShunAsn, PoisonPath, AddAsnsDb, Rules
<1>3. Asn(rules, req.ip) \in rules.unwantedAsns => Asn(rules', req.ip) = Asn(rules, req.ip)
  <2>1. NoAsn \notin rules.unwantedAsns
    BY AbsentAssumption DEF Rules
  <2> QED
    BY <1>2, <2>1 DEF Asn
<1> QED
  BY <1>1, <1>2, <1>3 DEF IsTrusted, IsSuspect

\* Every edit leaves a configuration the program could have been given.
RulesTyped == rules \in Rules

LEMMA RulesType == EditsSpec => []RulesTyped
<1>1. EditsInit => RulesTyped
  BY DEF EditsInit, NoRules, Rules, RulesTyped
<1>2. RulesTyped /\ [EditsNext]_rules => RulesTyped'
  <2> SUFFICES ASSUME RulesTyped, [EditsNext]_rules PROVE RulesTyped'
    OBVIOUS
  <2>1. CASE Trust
    BY <2>1 DEF Trust, TrustPath, TrustIp, TrustAgent, Rules, RulesTyped
  <2>2. CASE Shun
    <3>1. CASE AddAsnsDb
      BY <3>1 DEF AddAsnsDb, Rules, RulesTyped
    <3>2. CASE ShunAgent \/ ShunAsn \/ PoisonPath
      BY <3>2 DEF ShunAgent, ShunAsn, PoisonPath, Rules, RulesTyped
    <3> QED
      BY <2>2, <3>1, <3>2 DEF Shun
  <2>3. CASE rules' = rules
    BY <2>3 DEF RulesTyped
  <2> QED
    BY <2>1, <2>2, <2>3 DEF EditsNext
<1> QED
  BY <1>1, <1>2, PTL DEF EditsSpec

\* A poisoned path is final for whoever is not trusted, under any rules.
THEOREM PoisonFinal == EditsSpec => []PoisonIsFinal
<1>1. PoisonIsFinal
  BY TrustOrNothingAgainst DEF PoisonIsFinal, IsTrusted, IsSuspect
<1> QED
  BY <1>1, PTL

\* What one edit of the rules may do to the verdict of any request.
OneWay ==
  \A req \in Requests :
    /\ Trust /\ KindOf(rules, req) = "valid" => KindOf(rules', req) = "valid"
    /\ Trust /\ KindOf(rules', req) = "spam" =>
         Classify(rules', req, req.ip) = Classify(rules, req, req.ip)
    /\ Shun /\ KindOf(rules, req) = "spam" => KindOf(rules', req) = "spam"

\* Trust never makes spam and shunning never makes valid, whatever the rules
\* already say.
THEOREM OneWayEdits == EditsSpec => RulesPullOneWay
<1>1. RulesTyped => OneWay
  <2> SUFFICES ASSUME RulesTyped, NEW req \in Requests
               PROVE  /\ Trust /\ KindOf(rules, req) = "valid" => KindOf(rules', req) = "valid"
                      /\ Trust /\ KindOf(rules', req) = "spam" =>
                           Classify(rules', req, req.ip) = Classify(rules, req, req.ip)
                      /\ Shun /\ KindOf(rules, req) = "spam" => KindOf(rules', req) = "spam"
    BY DEF OneWay
  <2>1. \A r : /\ KindOf(r, req) \in {"valid", "spam"}
               /\ KindOf(r, req) = "spam" <=> ~IsTrusted(r, req) /\ IsSuspect(r, req)
    BY TrustOrNothingAgainst
  <2>2. Trust => /\ IsTrusted(rules, req) => IsTrusted(rules', req)
                 /\ IsSuspect(rules', req) <=> IsSuspect(rules, req)
                 /\ ~IsTrusted(rules', req) =>
                      Classify(rules', req, req.ip) = Classify(rules, req, req.ip)
    BY TrustOnlyAdds DEF RulesTyped
  <2>3. Shun => /\ IsTrusted(rules', req) <=> IsTrusted(rules, req)
                /\ IsSuspect(rules, req) => IsSuspect(rules', req)
    BY ShunOnlyAdds DEF RulesTyped
  <2> QED
    BY <2>1, <2>2, <2>3
<1>2. RulesTyped /\ [EditsNext]_rules => [OneWay]_rules
  BY <1>1
<1> QED
  BY <1>2, RulesType, PTL DEF EditsSpec, RulesPullOneWay, OneWay

-----------------------------------------------------------------------------
(* Flattened sequences.                                                    *)

\* Induction from 0 to n, over the set of the numbers that have the property.
LEMMA InductionTo ==
  ASSUME NEW n \in Nat, NEW T, 0 \in T, \A k \in 0..(n-1) : k \in T => k + 1 \in T
  PROVE  0..n \subseteq T
<1> DEFINE Rest == (0..n) \ T
<1>1. ASSUME Rest # {} PROVE FALSE
  <2> HIDE DEF Rest
  <2>1. Rest \subseteq Nat
    BY DEF Rest
  <2>2. PICK x \in Rest : \A y \in Rest : ~ (<<y, x>> \in OpToRel(<, Nat))
    BY <1>1, <2>1, NatLessThanWellFounded, WFMin
  <2>3. \A y \in Rest : ~(y < x)
    BY <2>1, <2>2 DEF OpToRel
  <2>4. x \in 1..n
    BY DEF Rest
  <2>5. x - 1 \in T /\ x - 1 \in 0..(n-1)
    BY <2>3, <2>4 DEF Rest
  <2> QED
    BY <2>4, <2>5 DEF Rest
<1> QED
  BY <1>1

\* FlattenSeq adds one sequence after the other.
Flattens(g, ss, k) == g = [i \in 1..k |-> IF i = 1 THEN ss[i] ELSE g[i-1] \o ss[i]]

LEMMA FlattensAt ==
  ASSUME NEW g, NEW ss, NEW k \in Nat, Flattens(g, ss, k), NEW i \in 1..k
  PROVE  g[i] = IF i = 1 THEN ss[i] ELSE g[i-1] \o ss[i]
<1> DEFINE F == [j \in 1..k |-> IF j = 1 THEN ss[j] ELSE g[j-1] \o ss[j]]
<1>1. g = F
  BY Zenon DEF Flattens
<1>2. F[i] = IF i = 1 THEN ss[i] ELSE g[i-1] \o ss[i]
  OBVIOUS
<1> HIDE DEF F
<1>3. g[i] = F[i]
  BY <1>1
<1> QED
  BY <1>2, <1>3, Zenon

\* The function that it is computed by exists.
LEMMA FlattensExists ==
  ASSUME NEW S, NEW n \in Nat, NEW ss \in [1..n -> Seq(S)]
  PROVE  \E g : Flattens(g, ss, n)
<1> DEFINE T == {k \in 0..n : \E g : Flattens(g, ss, k)}
<1>1. 0 \in T
  <2> DEFINE e == [i \in 1..0 |-> <<>>]
  <2>1. Flattens(e, ss, 0)
    BY DEF Flattens
  <2> QED
    BY <2>1
<1>2. ASSUME NEW k \in 0..(n-1), k \in T PROVE k + 1 \in T
  <2>1. PICK h : Flattens(h, ss, k)
    BY <1>2
  <2> DEFINE g == [i \in 1..(k+1) |->
                     IF i <= k THEN h[i] ELSE IF i = 1 THEN ss[i] ELSE h[k] \o ss[i]]
  <2>2. ASSUME NEW i \in 1..(k+1) PROVE g[i] = IF i = 1 THEN ss[i] ELSE g[i-1] \o ss[i]
    <3>1. CASE i <= k
      <4>1. g[i] = h[i] /\ (i # 1 => g[i-1] = h[i-1])
        BY <3>1
      <4>2. h[i] = IF i = 1 THEN ss[i] ELSE h[i-1] \o ss[i]
        BY <2>1, <3>1, FlattensAt
      <4> QED
        BY <4>1, <4>2
    <3>2. CASE i = k + 1
      BY <3>2
    <3> QED
      BY <3>1, <3>2
  <2>3. g = [i \in 1..(k+1) |-> g[i]]
    OBVIOUS
  <2> HIDE DEF g
  <2>4. Flattens(g, ss, k + 1)
    BY <2>2, <2>3 DEF Flattens
  <2> QED
    BY <2>4
<1>3. 0..n \subseteq T
  <2> HIDE DEF T
  <2> QED
    BY <1>1, <1>2, InductionTo
<1> QED
  BY <1>3

\* What is flattened is a sequence of the same things.
LEMMA FlattenType ==
  ASSUME NEW S, NEW n \in Nat, NEW ss \in [1..n -> Seq(S)]
  PROVE  FlattenSeq(ss) \in Seq(S)
<1>1. Len(ss) = n
  OBVIOUS
<1>2. CASE n = 0
  <2>1. ss = <<>>
    BY <1>2
  <2> QED
    BY <1>1, <1>2, <2>1 DEF FlattenSeq
<1>3. CASE n # 0
  <2> DEFINE f == CHOOSE g : Flattens(g, ss, n)
             T == {k \in 0..n : k = 0 \/ f[k] \in Seq(S)}
  <2>1. FlattenSeq(ss) = f[n]
    BY <1>1, <1>3, Zenon DEF FlattenSeq, Flattens
  <2>2. Flattens(f, ss, n)
    BY FlattensExists, Zenon
  <2> HIDE DEF f
  <2>3. 0 \in T
    OBVIOUS
  <2>4. ASSUME NEW k \in 0..(n-1), k \in T PROVE k + 1 \in T
    <3>1. f[k+1] = IF k + 1 = 1 THEN ss[k+1] ELSE f[(k+1)-1] \o ss[k+1]
      BY <2>2, FlattensAt
    <3>2. (k+1)-1 = k /\ ss[k+1] \in Seq(S)
      OBVIOUS
    <3>3. k # 0 => f[k] \in Seq(S)
      BY <2>4
    <3>4. f[k+1] \in Seq(S)
      BY <3>1, <3>2, <3>3, ConcatProperties
    <3> QED
      BY <3>4
  <2>5. 0..n \subseteq T
    <3> HIDE DEF T
    <3> QED
      BY <2>3, <2>4, InductionTo
  <2> QED
    BY <1>3, <2>1, <2>5
<1> QED
  BY <1>2, <1>3

-----------------------------------------------------------------------------
(* References.                                                             *)

LEMMA ConfigTypes ==
  ASSUME NEW c \in Configs
  PROVE  /\ c.poisons \subseteq Seq(Plain) /\ c.words \subseteq Seq(Plain)
         /\ c.separator \in Seq(Plain)
         /\ Cardinality(c.words) \in Nat
         /\ In(c.linkWords) \subseteq Nat
<1>1. c.linkWords \in Nat \X Nat /\ IsFiniteSet(c.words)
  BY ConfigsAssumption
<1> QED
  BY <1>1, ConfigsAssumption, FS_CardinalityType DEF In

\* What is in the middle of a sequence occurs in it.
LEMMA OccursBetween ==
  ASSUME NEW S, NEW a \in Seq(S), NEW p \in Seq(S), NEW b \in Seq(S)
  PROVE  Occurs(p, (a \o p) \o b)
<1> DEFINE path == (a \o p) \o b
           i    == Len(a) + 1
           part == SubSeq(path, i, i + Len(p) - 1)
<1>1. /\ a \o p \in Seq(S) /\ Len(a \o p) = Len(a) + Len(p)
      /\ path \in Seq(S) /\ Len(path) = Len(a) + Len(p) + Len(b)
  OBVIOUS
<1>2. i \in 1..(Len(path) + 1 - Len(p))
  BY <1>1
<1>3. part \in Seq(S) /\ Len(part) = Len(p)
  BY <1>1
<1>4. \A j \in 1..Len(p) : part[j] = p[j]
  BY <1>1
<1>5. part = p
  <2> HIDE DEF part
  <2> QED
    BY <1>3, <1>4, SeqEqual
<1> QED
  BY <1>2, <1>5 DEF Occurs

LEMMA SpelledType ==
  ASSUME NEW c \in Configs, NEW n \in Nat, NEW s \in Samples(c, n)
  PROVE  Spelled(c, s) \in Seq(Plain)
<1>1. PICK most \in Nat : s \in [1..most -> c.words]
  BY ConfigTypes DEF Samples
<1> DEFINE ss == [i \in DOMAIN s |-> c.separator \o s[i]]
<1>2. ss \in [1..most -> Seq(Plain)]
  BY <1>1, ConfigTypes
<1> QED
  BY <1>2, FlattenType DEF Spelled

\* A reference: the path of the page, a poison, words, and an end.
Reference(path, p, t, tail) == ((Joined(path) \o p) \o t) \o tail

LEMMA RefsSpelled ==
  ASSUME NEW c \in Configs, NEW path, NEW tail, NEW ref \in Refs(c, path, tail)
  PROVE  \E p \in c.poisons, t \in Seq(Plain) : ref = Reference(path, p, t, tail)
<1>1. PICK p \in c.poisons, s \in UNION {Samples(c, n) : n \in In(c.linkWords)} :
        ref = Reference(path, p, Spelled(c, s), tail)
  BY DEF Refs, Reference
<1>2. PICK n \in In(c.linkWords) : s \in Samples(c, n)
  OBVIOUS
<1>3. Spelled(c, s) \in Seq(Plain)
  BY <1>2, SpelledType, ConfigTypes
<1> QED
  BY <1>1, <1>3

LEMMA JoinedType ==
  ASSUME NEW S, NEW path \in Seq(S), "/" \in S
  PROVE  Joined(path) \in Seq(S)
BY DEF Joined

\* A reference has the poison in it, and no question mark if its page has none.
LEMMA RefsPoisoned ==
  ASSUME NEW c \in Configs, NEW S, Plain \subseteq S, NEW path \in Seq(S),
         NEW tail \in Seq(Plain), NEW ref \in Refs(c, path, tail)
  PROVE  ref \in Seq(S) /\ Poisoned(c, ref)
<1>1. PICK p \in c.poisons, t \in Seq(Plain) : ref = Reference(path, p, t, tail)
  BY RefsSpelled
<1>2. Joined(path) \in Seq(S)
  BY JoinedType, PathsAssumption DEF Plain
<1>3. p \in Seq(S) /\ t \in Seq(S) /\ tail \in Seq(S)
  BY ConfigTypes, SeqMonotonic
<1>4. t \o tail \in Seq(S) /\ ref = (Joined(path) \o p) \o (t \o tail)
  <2>1. Joined(path) \o p \in Seq(S) /\ t \o tail \in Seq(S)
    BY <1>2, <1>3, ConcatProperties
  <2>2. \A a, b, d \in Seq(S) : (a \o b) \o d = a \o (b \o d)
    BY ConcatAssociative, SMTT(30)
  <2> DEFINE q == Joined(path) \o p
  <2>3. q \in Seq(S) /\ ref = (q \o t) \o tail
    BY <1>1, <2>1 DEF Reference
  <2> HIDE DEF q
  <2>4. (q \o t) \o tail = q \o (t \o tail)
    BY <1>3, <2>2, <2>3
  <2> QED
    BY <2>1, <2>3, <2>4 DEF q
<1>5. ref \in Seq(S)
  BY <1>2, <1>3, <1>4
<1>6. Occurs(p, ref)
  BY <1>2, <1>3, <1>4, OccursBetween
<1> QED
  BY <1>5, <1>6 DEF Poisoned

LEMMA ReferencesPoisoned ==
  ASSUME NEW q, q.from \in Configs, NEW S, Plain \subseteq S, q.path \in Seq(S),
         NEW ref \in References(q)
  PROVE  ref \in Seq(S) /\ Poisoned(q.from, ref)
<1>1. PICK tail \in {<<>>, <<"/">>, <<".", "css">>, <<".", "js">>} :
        ref \in Refs(q.from, q.path, tail)
  BY DEF References, Links, Resources
<1>2. tail \in Seq(Plain)
  <2>1. {"/", ".", "css", "js"} \subseteq Plain
    BY PathsAssumption DEF Plain
  <2>2. /\ <<>> \in Seq(Plain) /\ <<"/">> \in Seq(Plain)
        /\ <<".", "css">> \in Seq(Plain) /\ <<".", "js">> \in Seq(Plain)
    BY <2>1
  <2> QED
    BY <1>1, <2>2
<1> QED
  BY <1>1, <1>2, RefsPoisoned

-----------------------------------------------------------------------------
(* The inductive invariant.                                                *)

\* A page that a reference led to has in its path a poison of the page before.
CInv ==
  /\ config \in Configs
  /\ via \in Configs \cup {NoPage}
  /\ page # NoPage =>
       /\ page = Page(page.from, page.path)
       /\ page.from \in Configs /\ page.path \in Seq(Tokens)
       /\ via # NoPage => Poisoned(via, page.path)

LEMMA AskType ==
  ASSUME NEW path \in Seq(Tokens), NEW agent, config \in Configs, Ask(path, agent)
  PROVE  page' # NoPage =>
           /\ page' = Page(config, path)
           /\ page'.from = config /\ page'.path = path
BY DEF Ask, Page

LEMMA Step == CInv /\ [Next]_vars => CInv'
<1> SUFFICES ASSUME CInv, [Next]_vars PROVE CInv'
  OBVIOUS
<1>1. CASE Reload
  BY <1>1 DEF Reload, CInv
<1>2. CASE Enter
  <2>1. PICK path \in EntryPaths, agent \in Agents \cup {NoAgent} : Ask(path, agent)
    BY <1>2 DEF Enter
  <2>2. path \in Seq(Tokens) /\ config \in Configs /\ config' = config /\ via' = NoPage
    BY <1>2, PathsAssumption DEF Enter, CInv
  <2> QED
    BY <2>1, <2>2, AskType DEF CInv
<1>3. CASE Follow
  <2>1. PICK path \in Ahead(page), agent \in Agents \cup {NoAgent} : Ask(path, agent)
    BY <1>3 DEF Follow
  <2>2. /\ page # NoPage /\ config \in Configs /\ config' = config
        /\ page.from \in Configs /\ page.path \in Seq(Tokens)
        /\ via' = IF page.type = "html" THEN page.from ELSE NoPage
    BY <1>3 DEF Follow, CInv
  <2>3. CASE page.type = "html"
    <3>1. path \in References(page)
      BY <2>3, <2>1 DEF Ahead
    <3>2. path \in Seq(Tokens) /\ Poisoned(page.from, path)
      BY <2>2, <3>1, ReferencesPoisoned DEF Plain
    <3> QED
      BY <2>1, <2>2, <2>3, <3>2, AskType DEF CInv
  <2>4. CASE page.type # "html"
    <3>1. path = FETCH_PATH
      BY <2>4, <2>1 DEF Ahead
    <3>2. path \in Seq(Tokens) /\ via' = NoPage
      BY <2>2, <2>4, <3>1, PathsAssumption DEF FETCH_PATH
    <3> QED
      BY <2>1, <2>2, <3>2, AskType DEF CInv
  <2> QED
    BY <2>3, <2>4
<1>4. CASE UNCHANGED vars
  BY <1>4 DEF vars, CInv
<1> QED
  BY <1>1, <1>2, <1>3, <1>4 DEF Next

\* The invariant holds in every reachable state.
THEOREM Invariance == Spec => []CInv
<1>1. Init => CInv
  BY DEF Init, CInv
<1> QED
  BY <1>1, Step, PTL DEF Spec

\* Nothing leads on from a page that a reference led to, with a query or without.
THEOREM LeavesCorrect == Spec => []PagesBehindLinksAreLeaves
<1>1. CInv => PagesBehindLinksAreLeaves
  <2> SUFFICES ASSUME CInv, Html, via = page.from PROVE Ahead(page) = {}
    BY DEF PagesBehindLinksAreLeaves
  <2>1. Poisoned(page.from, page.path)
    BY ConfigsAssumption DEF CInv, Html
  <2>2. References(page) = {}
    BY <2>1 DEF References, Links, Resources
  <2> QED
    BY <2>2 DEF Ahead, Html
<1> QED
  BY <1>1, Invariance, PTL

-----------------------------------------------------------------------------
(* What a request for a reference is answered with.                        *)

\* Without a question mark the path is what the classifier sees.
LEMMA NoQuery ==
  ASSUME NEW path \in Seq(Plain)
  PROVE  UriPath(path) = path
<1>1. {i \in 1..Len(path) : path[i] = "?"} = {}
  BY DEF Plain
<1>2. SelectInSeq(path, LAMBDA t : t = "?") = 0
  BY <1>1 DEF SelectInSeq
<1> QED
  BY <1>2 DEF UriPath

LEMMA PlainPath ==
  ASSUME NEW path \in Seq(Tokens), "?" \notin Range(path)
  PROVE  path \in Seq(Plain)
<1>1. \A i \in 1..Len(path) : path[i] \in Plain
  BY DEF Range, Plain
<1> QED
  BY <1>1

\* A poisoned path is spam, whoever asks for it, but for the trusted.
LEMMA PoisonDecides ==
  ASSUME NEW c, NEW path \in Seq(Plain), Poisoned(c, path), path # TrustedPath,
         NEW agent, agent \notin Trusted
  PROVE  Judged(c, path, agent).kind = "spam"
<1> DEFINE r == RulesFor(c, path)
           q == [path |-> UriPath(path), agent |-> agent, ip |-> NoIp, header |-> NoHeader,
                 value |-> "other"]
<1>1. UriPath(path) = path
  BY NoQuery
<1>2. /\ q.path = path /\ q.agent = agent
      /\ r.trustedPaths = {TrustedPath} /\ r.trustedIps = {} /\ r.trustedAgents = Trusted
      /\ r.unwantedAsns = {} /\ r.poisonedPaths = {path}
  BY <1>1 DEF RulesFor
<1>3. Judged(c, path, agent) = Classify(r, q, NoIp)
  BY DEF Judged
<1> HIDE DEF r, q
<1>4. Classify(r, q, NoIp).kind = "spam"
  BY <1>2 DEF Classify, Spam
<1> QED
  BY <1>3, <1>4

\* Whoever follows a reference of a page, also after a reload that takes away no
\* poison, is answered with spam.
THEOREM ReferencesCorrect == Spec => []ReferencesLeadToSpam
<1>1. CInv => ReferencesLeadToSpam
  <2> SUFFICES ASSUME CInv, Html, page.from.poisons \subseteq config.poisons,
                      "?" \notin Range(page.path), NEW path \in Ahead(page),
                      NEW agent \in (Agents \cup {NoAgent}) \ Trusted, path # TrustedPath
               PROVE  Judged(config, path, agent).kind = "spam"
    BY DEF ReferencesLeadToSpam
  <2>1. page.from \in Configs /\ page.path \in Seq(Plain) /\ path \in References(page)
    BY PlainPath DEF CInv, Html, Ahead
  <2>2. path \in Seq(Plain) /\ Poisoned(page.from, path)
    BY <2>1, ReferencesPoisoned
  <2>3. Poisoned(config, path)
    BY <2>2 DEF Poisoned
  <2> QED
    BY <2>2, <2>3, PoisonDecides
<1> QED
  BY <1>1, Invariance, PTL

-----------------------------------------------------------------------------
(* Style sheets and scripts.                                               *)

LEMMA Greatest ==
  ASSUME NEW n \in Nat, NEW I \in SUBSET (1..n), I # {}
  PROVE  Max(I) \in I /\ \A y \in I : y <= Max(I)
<1> DEFINE Above == {k \in Nat : \A y \in I : y <= k}
<1>1. PICK m \in Above : \A k \in Above : ~ (<<k, m>> \in OpToRel(<, Nat))
  <2>1. n \in Above /\ Above \subseteq Nat
    OBVIOUS
  <2> HIDE DEF Above
  <2> QED
    BY <2>1, NatLessThanWellFounded, WFMin
<1>2. \A k \in Above : ~(k < m)
  BY <1>1 DEF OpToRel
<1>3. m \in I
  <2> SUFFICES ASSUME m \notin I PROVE FALSE
    OBVIOUS
  <2>1. m \in Nat /\ \A y \in I : y \in 1..n /\ y <= m
    OBVIOUS
  <2>2. \A y \in I : y <= m - 1 /\ y >= 1
    BY <2>1
  <2>3. m - 1 \in Nat
    <3>1. PICK y \in I : y \in 1..n
      OBVIOUS
    <3> QED
      BY <2>1, <2>2, <3>1
  <2>4. m - 1 \in Above
    BY <2>2, <2>3
  <2> QED
    BY <1>2, <2>1, <2>4
<1>4. \E x \in I : \A y \in I : x >= y
  BY <1>3
<1> QED
  BY <1>4 DEF Max

\* A reference to a resource: something, a dot, the extension.
LEMMA ResourceEnds ==
  ASSUME NEW c \in Configs, NEW path \in Seq(Plain), NEW ext \in {"css", "js"},
         NEW ref \in Refs(c, path, <<".", ext>>)
  PROVE  /\ ref \in Seq(Plain) /\ Len(ref) >= 3
         /\ ref[Len(ref) - 1] = "." /\ ref[Len(ref)] = ext
<1> DEFINE end == <<".", ext>>
<1>1. PICK p \in c.poisons, t \in Seq(Plain) : ref = Reference(path, p, t, end)
  BY RefsSpelled
<1>2. /\ "/" \in Plain /\ end \in Seq(Plain) /\ p \in Seq(Plain)
      /\ Len(end) = 2 /\ end[1] = "." /\ end[2] = ext
  BY PathsAssumption, ConfigTypes DEF Plain
<1>3. Joined(path) \in Seq(Plain) /\ Len(Joined(path)) >= 1
  <2>1. CASE EndsWithSlash(path)
    BY <2>1 DEF Joined, EndsWithSlash
  <2>2. CASE ~EndsWithSlash(path)
    <3>1. Joined(path) = path \o <<"/">> /\ <<"/">> \in Seq(Plain) /\ Len(<<"/">>) = 1
      BY <1>2, <2>2 DEF Joined
    <3> QED
      BY <3>1, ConcatProperties
  <2> QED
    BY <2>1, <2>2
<1> DEFINE front == (Joined(path) \o p) \o t
<1>4. front \in Seq(Plain) /\ Len(front) >= 1
  BY <1>2, <1>3
<1>5. ref = front \o end
  BY <1>1 DEF Reference
<1> HIDE DEF front, end
<1>6. Len(ref) = Len(front) + 2 /\ ref \in Seq(Plain)
  <2>1. end \in Seq(Plain) /\ Len(end) = 2
    BY <1>2
  <2>2. front \o end \in Seq(Plain) /\ Len(front \o end) = Len(front) + Len(end)
    BY <1>4, <2>1, ConcatProperties
  <2> QED
    BY <1>5, <2>1, <2>2
<1>7. \A i \in 1..2 : ref[Len(front) + i] = end[i]
  <2> TAKE i \in 1..2
  <2>1. Len(front) + i \in 1..(Len(front) + Len(end)) /\ ~(Len(front) + i <= Len(front))
    BY <1>2, <1>4
  <2>2. ref[Len(front) + i] = end[(Len(front) + i) - Len(front)]
    BY <1>2, <1>4, <1>5, <2>1, ConcatProperties
  <2> QED
    BY <1>4, <2>2
<1> QED
  BY <1>2, <1>4, <1>6, <1>7

\* The last dot is the one of the extension, if more than a slash stands before it.
LEMMA DotOfExtension ==
  ASSUME NEW path \in Seq(Plain), Len(path) >= 3, NEW ext \in {"css", "js"},
         path[Len(path) - 1] = ".", path[Len(path)] = ext, path[Len(path) - 2] # "/"
  PROVE  LastDot(path) = Len(path) - 1
<1> DEFINE n       == Len(path)
           Slashes == {i \in 1..n : path[i] = "/"}
           Dots    == {i \in 1..n : path[i] = "."}
           slash   == SelectLastInSeq(path, LAMBDA t : t = "/")
           dot     == SelectLastInSeq(path, LAMBDA t : t = ".")
<1>1. slash = (IF Slashes # {} THEN Max(Slashes) ELSE 0) /\ dot = (IF Dots # {} THEN Max(Dots) ELSE 0)
  BY Zenon DEF SelectLastInSeq
<1>2. \A i \in Slashes : i \in Nat /\ i <= n - 3
  OBVIOUS
<1>3. slash \in Nat /\ slash <= n - 3
  <2> HIDE DEF slash
  <2>1. CASE Slashes = {}
    BY <1>1, <2>1
  <2>2. CASE Slashes # {}
    <3>1. n \in Nat /\ Slashes \in SUBSET (1..n)
      OBVIOUS
    <3> HIDE DEF Slashes, n
    <3>2. Max(Slashes) \in Slashes
      BY <2>2, <3>1, Greatest
    <3> QED
      BY <1>1, <1>2, <2>2, <3>2
  <2> QED
    BY <2>1, <2>2
<1>4. n - 1 \in Dots /\ \A i \in Dots : i <= n - 1
  OBVIOUS
<1>5. dot = n - 1
  <2> HIDE DEF dot
  <2>1. dot = Max(Dots)
    BY <1>1, <1>4
  <2>2. n \in Nat /\ Dots \in SUBSET (1..n)
    OBVIOUS
  <2> HIDE DEF Dots, n
  <2>3. Max(Dots) \in Dots /\ n - 1 <= Max(Dots)
    BY <1>4, <2>2, Greatest
  <2>4. Max(Dots) \in 1..n /\ Max(Dots) <= n - 1
    <3>1. \A i \in Dots : i \in 1..n
      BY <2>2
    <3> QED
      BY <1>4, <2>3, <3>1
  <2> QED
    BY <2>1, <2>2, <2>3, <2>4
<1>6. LastDot(path) = IF dot > slash + 1 THEN dot ELSE 0
  BY Zenon DEF LastDot
<1> HIDE DEF dot, slash
<1> QED
  BY <1>3, <1>5, <1>6

\* A reference to a style sheet or a script is answered with one and counted as
\* one, if its name has more than the extension.
THEOREM ResourcesCorrect == Spec => []ResourcesKeepTheirType
<1>1. CInv => ResourcesKeepTheirType
  <2> SUFFICES ASSUME CInv, Html, "?" \notin Range(page.path), NEW ext \in {"css", "js"},
                      NEW path \in Resources(page.from, page.path, ext),
                      ~EndsWithSlash(SubSeq(path, 1, Len(path) - 2))
               PROVE  TypeOf(path) = ext /\ ResourceType(path) = ext
    BY DEF ResourcesKeepTheirType
  <2>1. page.from \in Configs /\ page.path \in Seq(Plain)
    BY PlainPath DEF CInv, Html
  <2>2. path \in Refs(page.from, page.path, <<".", ext>>)
    BY DEF Resources
  <2>3. /\ path \in Seq(Plain) /\ Len(path) >= 3
        /\ path[Len(path) - 1] = "." /\ path[Len(path)] = ext
    BY <2>1, <2>2, ResourceEnds
  <2>4. path[Len(path) - 2] # "/"
    <3> DEFINE front == SubSeq(path, 1, Len(path) - 2)
    <3>1. front # <<>> /\ front[Len(front)] = path[Len(path) - 2]
      <4>1. 1 \in Int /\ Len(path) - 2 \in Int /\ \A i \in 1..(Len(path) - 2) : path[i] \in Plain
        BY <2>3
      <4>2. /\ Len(front) = Len(path) - 2
            /\ \A i \in 1..(Len(path) - 2) : front[i] = path[i]
        BY <2>3, <4>1, SubSeqProperties
      <4> HIDE DEF front
      <4> QED
        BY <2>3, <4>2
    <3> QED
      BY <3>1, Zenon DEF EndsWithSlash, Last
  <2>5. LastDot(path) = Len(path) - 1
    BY <2>3, <2>4, DotOfExtension
  <2>6. Extname(path) = <<ext>>
    <3> DEFINE n == Len(path)
    <3>1. n \in Nat /\ n >= 3 /\ Extname(path) = SubSeq(path, n, n)
      BY <2>3, <2>5 DEF Extname
    <3>2. SubSeq(path, n, n) = <<path[n]>>
      <4> DEFINE part == SubSeq(path, n, n)
      <4>1. n \in Int /\ \A i \in n..n : path[i] \in Plain
        BY <2>3, <3>1
      <4>2. part \in Seq(Plain) /\ Len(part) = 1 /\ part[1] = path[n]
        <5>1. /\ part \in Seq(Plain) /\ Len(part) = n - n + 1
              /\ \A i \in 1..(n - n + 1) : part[i] = path[n + i - 1]
          BY <3>1, <4>1, SubSeqProperties
        <5> QED
          BY <3>1, <5>1
      <4>3. part = <<path[n]>>
        <5> HIDE DEF part
        <5>1. <<path[n]>> \in Seq(Plain) /\ Len(<<path[n]>>) = 1 /\ <<path[n]>>[1] = path[n]
          BY <3>1, <4>1
        <5> QED
          BY <4>2, <5>1, SeqEqual
      <4> QED
        BY <4>3
    <3> QED
      BY <2>3, <3>1, <3>2
  <2>7. TypeOf(path) = ext
    BY <2>6 DEF TypeOf
  <2>8. path # FETCH_PATH
    BY <2>3 DEF FETCH_PATH
  <2>9. UriPath(path) = path
    BY <2>3, NoQuery
  <2> QED
    BY <2>7, <2>8, <2>9 DEF ResourceType
<1> QED
  BY <1>1, Invariance, PTL
=============================================================================
