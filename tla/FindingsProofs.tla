--------------------------- MODULE FindingsProofs ---------------------------
(***************************************************************************)
(* Theorems about the findings, for any assets and criticalities, any      *)
(* number of rows, any reports of the scanners, page limits and clocks.    *)
(***************************************************************************)
EXTENDS Findings, InductionLemmas, FiniteSetTheorems

-----------------------------------------------------------------------------
(* Scores.                                                                 *)

Weights == {75, 100, 125, 150}

LEMMA FactorRanges ==
  ASSUME NEW cves, NEW crit
  PROVE  ThreatFactor(cves) \in {10, 13} /\ CriticalityWeight(crit) \in Weights
  BY DEF ThreatFactor, CriticalityWeight, Weights

LEMMA ProductsGrow ==
  ASSUME NEW c \in 0..100, NEW d \in 0..c,
         NEW v \in Weights, NEW w \in Weights, v >= w,
         NEW s \in {10, 13}, NEW t \in {10, 13}, s >= t
  PROVE  /\ c * v * s \in Nat /\ d * w * t \in Nat
         /\ c * v * s >= d * w * t
<1>1. c * v \in Nat /\ d * w \in Nat
  <2>1. c * v \in Nat
    BY DEF Weights
  <2>2. d * w \in Nat
    BY DEF Weights
  <2> QED BY <2>1, <2>2
<1>2. c * v >= d * w
  <2>1. CASE w = 75
    BY <2>1 DEF Weights
  <2>2. CASE w = 100
    BY <2>2 DEF Weights
  <2>3. CASE w = 125
    BY <2>3 DEF Weights
  <2>4. CASE w = 150
    BY <2>4 DEF Weights
  <2> QED BY <2>1, <2>2, <2>3, <2>4 DEF Weights
<1> DEFINE p == c * v
           q == d * w
<1>3. p \in Nat /\ q \in Nat /\ p >= q
  BY <1>1, <1>2
<1> HIDE DEF p, q
<1>4. p * s \in Nat /\ q * t \in Nat /\ p * s >= q * t
  BY <1>3
<1> QED BY <1>4 DEF p, q

\* Weight, threat factor, clamp and rounding keep the order of what they are given.
LEMMA ScoreGrows ==
  ASSUME NEW c \in 0..100, NEW d \in 0..c, NEW x, NEW y, NEW a, NEW b,
         CriticalityWeight(a) >= CriticalityWeight(b), ThreatFactor(x) >= ThreatFactor(y)
  PROVE  Score(c, x, a) >= Score(d, y, b)
<1> DEFINE p == c * CriticalityWeight(a) * ThreatFactor(x)
           q == d * CriticalityWeight(b) * ThreatFactor(y)
<1>1. p \in Nat /\ q \in Nat /\ p >= q
  <2>1. /\ CriticalityWeight(a) \in Weights /\ CriticalityWeight(b) \in Weights
        /\ ThreatFactor(x) \in {10, 13} /\ ThreatFactor(y) \in {10, 13}
    BY FactorRanges
  <2>2. PICK v \in Weights, w \in Weights : v = CriticalityWeight(a) /\ w = CriticalityWeight(b)
    BY <2>1
  <2>3. PICK s \in {10, 13}, t \in {10, 13} : s = ThreatFactor(x) /\ t = ThreatFactor(y)
    BY <2>1
  <2>4. v >= w /\ s >= t
    BY <2>2, <2>3
  <2>5. c * v * s \in Nat /\ d * w * t \in Nat /\ c * v * s >= d * w * t
    BY <2>4, ProductsGrow, ZenonT(30)
  <2> QED BY <2>2, <2>3, <2>5, Zenon
<1>2. Score(c, x, a) = (Clamped(p) + 500) \div 1000 /\ Score(d, y, b) = (Clamped(q) + 500) \div 1000
  BY DEF Score
<1> HIDE DEF p, q
<1>3. (Clamped(p) + 500) \div 1000 >= (Clamped(q) + 500) \div 1000
  BY <1>1 DEF Clamped
<1> QED BY <1>2, <1>3

LEMMA ScoreRange ==
  ASSUME NEW c \in 0..100, NEW x, NEW a
  PROVE  Score(c, x, a) \in 0..100
<1> DEFINE p == c * CriticalityWeight(a) * ThreatFactor(x)
<1>1. p \in Nat
  <2>1. CriticalityWeight(a) \in Weights /\ ThreatFactor(x) \in {10, 13}
    BY FactorRanges
  <2>2. PICK v \in Weights : v = CriticalityWeight(a)
    BY <2>1
  <2>3. PICK s \in {10, 13} : s = ThreatFactor(x)
    BY <2>1
  <2>4. c \in 0..c /\ v >= v /\ s >= s
    BY DEF Weights
  <2>5. c * v * s \in Nat
    BY <2>4, ProductsGrow, ZenonT(30)
  <2> QED BY <2>2, <2>3, <2>5, Zenon
<1>2. Score(c, x, a) = (Clamped(p) + 500) \div 1000
  BY DEF Score
<1> HIDE DEF p
<1>3. (Clamped(p) + 500) \div 1000 \in 0..100
  BY <1>1 DEF Clamped
<1> QED BY <1>2, <1>3

-----------------------------------------------------------------------------
(* Types, and where a risk comes from.                                     *)

LEMMA PortFacts ==
  /\ \A s \in DOMAIN SensitiveServices : SensitiveServices[s] \in 0..100
  /\ \A c : SeverityFromCVSS(c) \in Severities
<1>1. \A s \in DOMAIN SensitiveServices : SensitiveServices[s] \in 0..100
  BY DEF SensitiveServices
<1>2. \A c : SeverityFromCVSS(c) \in Severities
  BY DEF SeverityFromCVSS, Severities
<1> QED BY <1>1, <1>2

\* Whatever a parser makes of a report has a severity and a CVSS in range.
LEMMA DraftType ==
  ASSUME NEW item \in Items, NEW d \in Parse(item)
  PROVE  d \in [sev : Severities, cvss : 0..100, cves : SUBSET STRING]
<1>1. CASE item.format = "nmap-xml"
  <2>1. \/ d = Draft("info", 0, {})
        \/ /\ item.service \in DOMAIN SensitiveServices
           /\ d = Draft(SeverityFromCVSS(SensitiveServices[item.service]),
                        SensitiveServices[item.service], {})
    BY <1>1 DEF Parse
  <2>2. CASE d = Draft("info", 0, {})
    BY <2>2 DEF Draft, Severities
  <2>3. CASE /\ item.service \in DOMAIN SensitiveServices
             /\ d = Draft(SeverityFromCVSS(SensitiveServices[item.service]),
                          SensitiveServices[item.service], {})
    <3>1. PICK c \in 0..100 : c = SensitiveServices[item.service]
      BY <2>3, PortFacts
    <3>2. PICK v \in Severities : v = SeverityFromCVSS(c)
      BY PortFacts
    <3>3. d = Draft(v, c, {})
      BY <2>3, <3>1, <3>2
    <3> QED BY <3>3 DEF Draft
  <2> QED BY <2>1, <2>2, <2>3
<1>2. CASE item.format = "nuclei-jsonl"
  BY <1>2 DEF Items, Parse, Draft, Severities, ParseSeverity
<1>3. CASE item.format = "crypto-json"
  BY <1>3 DEF Items, Parse, Draft, Severities
<1>4. CASE item.format = "secrets-json"
  BY <1>4 DEF Items, Parse, Draft, Severities
<1> QED BY <1>1, <1>2, <1>3, <1>4 DEF Items

LEMMA EnrichType ==
  ASSUME NEW item \in Items, NEW d \in Parse(item), NEW crit
  PROVE  LET e == Enrich(d, crit)
         IN  /\ e.sev \in Severities /\ e.cvss \in 1..100 /\ e.cves \in SUBSET STRING
             /\ e.status = "open" /\ e.risk = Score(e.cvss, e.cves, crit) /\ e.risk \in 0..100
<1> DEFINE cvss == IF d.cvss = 0 THEN SeverityToCVSS(d.sev) ELSE d.cvss
<1>1. d \in [sev : Severities, cvss : 0..100, cves : SUBSET STRING]
  BY DraftType
<1>2. cvss \in 1..100
  BY <1>1 DEF SeverityToCVSS
<1>3. Enrich(d, crit) = [sev |-> d.sev, cvss |-> cvss, cves |-> d.cves, status |-> "open",
                         risk |-> Score(cvss, d.cves, crit)]
  BY Zenon DEF Enrich
<1> HIDE DEF cvss
<1>4. Score(cvss, d.cves, crit) \in 0..100
  BY <1>2, ScoreRange
<1> QED BY <1>1, <1>2, <1>3, <1>4

Row == [id : 1..scope.rows, nth : scope.times, asset : Assets, created : 0..now,
        sev : Severities, cvss : 1..100, cves : SUBSET STRING, status : Statuses,
        risk : 0..100]

\* A row keeps the risk that its own fields gave it: a status never changes it.
Scored == \A f \in rows : f.risk = Score(f.cvss, f.cves, Criticality[f.asset])

Typed == TypeOK /\ Scored

LEMMA ScopeFacts ==
  ASSUME scope \in Scopes
  PROVE  /\ scope.assets \subseteq Assets /\ scope.items \subseteq Items
         /\ scope.statuses \subseteq Statuses /\ scope.rows \in Nat /\ scope.times \subseteq Nat
         /\ scope.limits \subseteq Nat /\ scope.instants \subseteq Nat
         /\ scope.minRisks \subseteq Int /\ scope.hops \subseteq Int
         /\ scope.edges \subseteq Assets \X Assets /\ IsFiniteSet(scope.edges)
  BY FindingsAssumption

LEMMA InitTyped == Init => Typed
<1> SUFFICES ASSUME Init PROVE Typed
  OBVIOUS
<1> QED BY DEF Init, Typed, TypeOK, Scored

LEMMA CreateTyped ==
  ASSUME Typed, NEW a \in scope.assets, NEW item \in scope.items, NEW i \in 1..scope.rows,
         NEW n \in scope.times, NEW d \in Parse(item), CreateFinding(a, d, i, n)
  PROVE  Typed'
<1> DEFINE e == Enrich(d, Criticality[a])
           new == [id |-> i, nth |-> n, asset |-> a, created |-> now, sev |-> e.sev,
                   cvss |-> e.cvss, cves |-> e.cves, status |-> e.status, risk |-> e.risk]
<1>1. /\ rows' = rows \cup {new} /\ UNCHANGED <<scope, now, pager>>
      /\ \A f \in rows : f.id # i
  BY Zenon DEF CreateFinding
<1>2. /\ e.sev \in Severities /\ e.cvss \in 1..100 /\ e.cves \in SUBSET STRING
      /\ e.status = "open" /\ e.risk = Score(e.cvss, e.cves, Criticality[a]) /\ e.risk \in 0..100
  <2>1. item \in Items
    BY ScopeFacts DEF Typed, TypeOK
  <2> QED BY <2>1, EnrichType
<1> HIDE DEF e
<1>3. new \in Row /\ new.id = i /\ new.risk = Score(new.cvss, new.cves, Criticality[new.asset])
  BY <1>2, ScopeFacts DEF Typed, TypeOK, Row, Statuses
<1> HIDE DEF new
<1>4. rows \subseteq Row /\ Row' = Row
  BY <1>1 DEF Typed, TypeOK, Row
<1>5. rows' \subseteq Row'
  BY <1>1, <1>3, <1>4
<1>6. \A f, g \in rows' : f.id = g.id => f = g
  BY <1>1, <1>3 DEF Typed, TypeOK
<1>7. Scored'
  BY <1>1, <1>3 DEF Typed, Scored
<1> QED BY <1>1, <1>5, <1>6, <1>7 DEF Typed, TypeOK, Row

LEMMA StatusSet ==
  ASSUME NEW f \in Row, NEW s \in Statuses, NEW new, new = [f EXCEPT !.status = s]
  PROVE  /\ new \in Row /\ new.id = f.id /\ new.nth = f.nth /\ new.asset = f.asset
         /\ new.cvss = f.cvss /\ new.cves = f.cves /\ new.risk = f.risk
  BY DEF Row

LEMMA UpdateTyped ==
  ASSUME Typed, NEW f \in rows, NEW s \in scope.statuses, UpdateFindingStatus(f, s)
  PROVE  Typed'
<1> DEFINE new == [f EXCEPT !.status = s]
<1>1. rows' = (rows \ {f}) \cup {new} /\ UNCHANGED <<scope, now, pager>>
  BY DEF UpdateFindingStatus
<1>2. rows \subseteq Row /\ Row' = Row
  BY <1>1 DEF Typed, TypeOK, Row
<1>3. s \in Statuses
  BY ScopeFacts DEF Typed, TypeOK
<1>4. /\ new \in Row /\ new.id = f.id /\ new.nth = f.nth /\ new.asset = f.asset
      /\ new.cvss = f.cvss /\ new.cves = f.cves /\ new.risk = f.risk
  BY <1>2, <1>3, StatusSet, Zenon
<1> HIDE DEF new
<1>5. rows' \subseteq Row'
  BY <1>1, <1>2, <1>4
<1>6. \A g, h \in rows' : g.id = h.id => g = h
  BY <1>1, <1>4 DEF Typed, TypeOK
<1>7. Scored'
  BY <1>1, <1>4 DEF Typed, Scored
<1> QED BY <1>1, <1>5, <1>6, <1>7 DEF Typed, TypeOK, Row

-----------------------------------------------------------------------------
(* The place of a row in the listing.                                      *)

Ahead(asset, f) == {g \in Found(asset) : Before(g, f)}
Rank(asset, f) == Cardinality(Ahead(asset, f))

\* No two rows share an id, so there are finitely many.
LEMMA RowsFinite ==
  ASSUME Typed PROVE IsFiniteSet(rows)
<1> DEFINE id == [f \in rows |-> f.id]
<1>1. id \in Injection(rows, 1..scope.rows)
  BY DEF Typed, TypeOK, Injection, IsInjective
<1>2. scope.rows \in Nat
  BY ScopeFacts DEF Typed, TypeOK
<1>3. IsFiniteSet(1..scope.rows)
  BY <1>2, FS_Interval
<1> QED BY <1>1, <1>3, FS_Injection

LEMMA RowFacts ==
  ASSUME Typed, NEW f \in rows
  PROVE  f.risk \in Int /\ f.nth \in Int
<1>1. scope.times \subseteq Nat
  BY ScopeFacts DEF Typed, TypeOK
<1> QED BY <1>1 DEF Typed, TypeOK

\* The listing orders the rows strictly, but for those that tie.
LEMMA ListingIsWeak ==
  ASSUME Typed, NEW f \in rows, NEW g \in rows
  PROVE  /\ ~Before(f, f)
         /\ Tied(f, g) \/ Before(f, g) \/ Before(g, f)
         /\ \A h \in rows : Before(f, g) /\ (Before(g, h) \/ Tied(g, h)) => Before(f, h)
<1>1. \A h \in rows : h.risk \in Int /\ h.nth \in Int
  BY RowFacts
<1> QED BY <1>1 DEF Before, Tied

LEMMA SetsFinite ==
  ASSUME Typed, NEW asset, NEW S \in SUBSET Found(asset)
  PROVE  IsFiniteSet(S) /\ Cardinality(S) \in Nat
<1>1. S \in SUBSET rows
  BY DEF Found
<1> QED BY <1>1, RowsFinite, FS_Subset, FS_CardinalityType

LEMMA AheadFinite ==
  ASSUME Typed, NEW asset, NEW f
  PROVE  /\ Ahead(asset, f) \in SUBSET Found(asset) /\ IsFiniteSet(Ahead(asset, f))
         /\ Rank(asset, f) \in Nat
<1>1. Ahead(asset, f) \in SUBSET Found(asset)
  BY DEF Ahead
<1> QED BY <1>1, SetsFinite DEF Rank

\* A row among the first n has its rank below n.
LEMMA HeadRanks ==
  ASSUME Typed, NEW asset, NEW n \in Nat, NEW T \in SUBSET Found(asset), Heads(asset, T, n),
         NEW f \in T
  PROVE  Rank(asset, f) < n
<1> DEFINE A == Ahead(asset, f)
<1>1. f \in rows /\ A \in SUBSET T /\ f \in T
  BY DEF Ahead, Heads, Found
<1>2. f \notin A
  BY <1>1, ListingIsWeak DEF Ahead
<1>3. /\ IsFiniteSet(T) /\ Cardinality(T) \in Nat /\ Cardinality(T) <= n
  BY SetsFinite DEF Heads
<1> HIDE DEF A
<1>4. Cardinality(A) <= Cardinality(T) /\ Cardinality(A) # Cardinality(T)
  BY <1>1, <1>2, <1>3, FS_Subset
<1>5. Cardinality(A) \in Nat
  BY <1>1, <1>3, FS_Subset, FS_CardinalityType
<1>6. Cardinality(A) < n
  BY <1>3, <1>4, <1>5
<1> QED BY <1>6 DEF A, Rank

\* The first rows but for those that tie with f and f itself: all are ahead of f.
LEMMA HeadIsAhead ==
  ASSUME Typed, NEW asset, NEW n, NEW U \in SUBSET Found(asset), Heads(asset, U, n),
         NEW f \in Found(asset), f \notin U, \A g \in U : ~Tied(f, g)
  PROVE  U \in SUBSET Ahead(asset, f)
<1> SUFFICES ASSUME NEW u \in U PROVE Before(u, f)
  BY DEF Ahead
<1>1. f \in rows /\ u \in rows
  BY DEF Found
<1>2. ~Before(f, u)
  BY DEF Heads
<1> QED BY <1>1, <1>2, ListingIsWeak

LEMMA UnionSize ==
  ASSUME Typed, NEW asset, NEW T \in SUBSET Found(asset), NEW S \in SUBSET Found(asset),
         T \cap S = {}
  PROVE  Cardinality(T \cup S) = Cardinality(T) + Cardinality(S)
<1>1. IsFiniteSet(T) /\ IsFiniteSet(S) /\ Cardinality(T) \in Nat /\ Cardinality(S) \in Nat
  BY SetsFinite
<1>2. Cardinality(T \cap S) = 0
  BY FS_EmptySet
<1>3. Cardinality(T \cup S) = Cardinality(T) + Cardinality(S) - Cardinality(T \cap S)
  BY <1>1, FS_Union
<1> QED BY <1>1, <1>2, <1>3

\* A page shows a row of every rank between its offset and its end: the row whose rank it
\* is, or one that ties with it.
LEMMA PageShowsRanks ==
  ASSUME Typed, NEW asset, NEW n \in Nat, NEW offset \in Nat,
         NEW page \in Pages(asset, n, offset), NEW f \in Found(asset),
         ~(Rank(asset, f) < offset), Rank(asset, f) < offset + Cardinality(page)
  PROVE  \E g \in page : Tied(f, g)
<1> SUFFICES ASSUME \A g \in page : ~Tied(f, g) PROVE FALSE
  OBVIOUS
<1>1. PICK T \in SUBSET (Found(asset) \ page) :
        Heads(asset, T, offset) /\ Heads(asset, T \cup page, offset + n)
  BY DEF Pages
<1>2. page \in SUBSET Found(asset) /\ T \in SUBSET Found(asset) /\ T \cap page = {}
  BY DEF Pages
<1>3. ASSUME NEW g \in T PROVE ~Tied(f, g)
  <2>1. g \in Found(asset) /\ f \in rows /\ g \in rows
    BY <1>2 DEF Found
  <2>2. Rank(asset, g) < offset
    BY <1>1, <1>2, HeadRanks
  <2>3. ASSUME Tied(f, g) PROVE Ahead(asset, f) = Ahead(asset, g)
    BY <2>1, <2>3 DEF Ahead, Before, Tied
  <2> QED BY <2>2, <2>3 DEF Rank
<1>4. f \in rows /\ Tied(f, f)
  BY DEF Found, Tied
<1>5. f \notin T \cup page
  BY <1>3, <1>4
<1>6. T \cup page \in SUBSET Ahead(asset, f)
  <2>1. \A g \in T \cup page : ~Tied(f, g)
    BY <1>3
  <2>2. T \cup page \in SUBSET Found(asset)
    BY <1>2
  <2> QED BY <1>1, <1>5, <2>1, <2>2, HeadIsAhead
<1>7. Cardinality(T) = offset
  BY <1>1, <1>5 DEF Heads
<1>8. Cardinality(T \cup page) = offset + Cardinality(page)
  BY <1>2, <1>7, UnionSize
<1>9. Cardinality(T \cup page) <= Rank(asset, f)
  BY <1>6, AheadFinite, FS_Subset DEF Rank
<1>10. Rank(asset, f) \in Nat /\ Cardinality(page) \in Nat
  BY <1>2, AheadFinite, SetsFinite
<1> QED BY <1>8, <1>9, <1>10

\* An empty page is the end: no row is listed at its offset or after it.
LEMMA EmptyPageIsLast ==
  ASSUME Typed, NEW asset, NEW n \in Nat \ {0}, NEW offset \in Nat, {} \in Pages(asset, n, offset)
  PROVE  \A f \in Found(asset) : Rank(asset, f) < offset
<1>1. PICK T \in SUBSET Found(asset) : Heads(asset, T, offset) /\ Heads(asset, T, offset + n)
  BY DEF Pages
<1>2. Cardinality(T) \in Nat
  BY SetsFinite
<1>3. T = Found(asset)
  <2>1. PICK m : m = offset + n
    OBVIOUS
  <2>2. Cardinality(T) <= offset /\ (Cardinality(T) = m \/ T = Found(asset))
    BY <1>1, <1>2, <2>1 DEF Heads
  <2> QED BY <1>2, <2>1, <2>2
<1> QED BY <1>1, <1>3, HeadRanks

-----------------------------------------------------------------------------
(* Types through the steps of the client and the clock.                    *)

LEMMA PageLimitType ==
  ASSUME Typed PROVE PageLimit(pager.limit) \in Nat \ {0}
<1>1. pager.limit \in Nat
  BY ScopeFacts DEF Typed, TypeOK
<1> QED BY <1>1, FindingsAssumption DEF PageLimit

LEMMA BeginTyped ==
  ASSUME Typed, NEW a \in scope.assets \cup {Everything}, NEW n \in scope.limits, Begin(a, n)
  PROVE  Typed'
<1> DEFINE base == {f.id : f \in Found(a)}
<1>1. base \in SUBSET (1..scope.rows) /\ a \in Assets \cup {Everything}
  BY ScopeFacts DEF Typed, TypeOK, Found
<1>2. /\ pager' = [pager EXCEPT !.pc = "walk", !.asset = a, !.limit = n, !.base = base]
      /\ UNCHANGED <<scope, rows, now>>
  BY Zenon DEF Begin
<1> HIDE DEF base
<1>3. pager' \in [pc : {"idle", "walk", "done"}, asset : Assets \cup {Everything},
                 limit : scope.limits \cup {0}, offset : Nat,
                 seen : SUBSET (1..scope.rows), base : SUBSET (1..scope.rows)]
  BY <1>1, <1>2 DEF Typed, TypeOK
<1> QED BY <1>2, <1>3 DEF Typed, TypeOK, Scored

LEMMA NextPageTyped ==
  ASSUME Typed, NextPage
  PROVE  Typed'
<1>1. PICK page \in Pages(pager.asset, PageLimit(pager.limit), pager.offset) :
        pager' = [pager EXCEPT !.pc = IF page = {} THEN "done" ELSE "walk",
                               !.offset = @ + Cardinality(page),
                               !.seen = @ \cup {f.id : f \in page}]
  BY Zenon DEF NextPage
<1> DEFINE more == {f.id : f \in page}
<1>2. page \in SUBSET Found(pager.asset) /\ page \in SUBSET rows
  BY DEF Pages, Found
<1>3. more \in SUBSET (1..scope.rows)
  BY <1>2 DEF Typed, TypeOK
<1>4. PICK k \in Nat : k = Cardinality(page)
  BY <1>2, SetsFinite
<1>5. PICK m \in Nat : m = pager.offset + k
  BY <1>4 DEF Typed, TypeOK
<1>6. pager' = [pager EXCEPT !.pc = IF page = {} THEN "done" ELSE "walk",
                             !.offset = m, !.seen = @ \cup more]
  BY <1>1, <1>4, <1>5
<1> HIDE DEF more
<1>7. UNCHANGED <<scope, rows, now>>
  BY DEF NextPage
<1>8. pager' \in [pc : {"idle", "walk", "done"}, asset : Assets \cup {Everything},
                 limit : scope.limits \cup {0}, offset : Nat,
                 seen : SUBSET (1..scope.rows), base : SUBSET (1..scope.rows)]
  BY <1>3, <1>6 DEF Typed, TypeOK
<1> QED BY <1>7, <1>8 DEF Typed, TypeOK, Scored

LEMMA TickTyped == Typed /\ Tick => Typed'
<1> SUFFICES ASSUME Typed, Tick PROVE Typed'
  OBVIOUS
<1>1. now' \in Nat /\ now' > now /\ UNCHANGED <<scope, rows, pager>>
  BY ScopeFacts DEF Tick, Typed, TypeOK
<1>2. 0..now \subseteq 0..now'
  BY <1>1 DEF Typed, TypeOK
<1>3. Row \subseteq Row'
  BY <1>1, <1>2 DEF Row
<1>4. rows' \subseteq Row'
  BY <1>1, <1>3 DEF Typed, TypeOK, Row
<1> QED BY <1>1, <1>4 DEF Typed, TypeOK, Scored, Row

LEMMA StepTyped == Typed /\ [Next]_vars => Typed'
<1> SUFFICES ASSUME Typed, [Next]_vars PROVE Typed'
  OBVIOUS
<1>1. CASE UNCHANGED vars
  BY <1>1 DEF vars, Typed, TypeOK, Scored
<1>2. ASSUME NEW a \in scope.assets, NEW item \in scope.items, NEW i \in NewIds,
             NEW n \in scope.times, NEW d \in Parse(item), CreateFinding(a, d, i, n)
      PROVE  Typed'
  BY <1>2, CreateTyped DEF NewIds
<1>3. ASSUME NEW f \in rows, NEW s \in scope.statuses, UpdateFindingStatus(f, s)
      PROVE  Typed'
  BY <1>3, UpdateTyped
<1>4. ASSUME NEW a \in scope.assets \cup {Everything}, NEW n \in scope.limits, Begin(a, n)
      PROVE  Typed'
  BY <1>4, BeginTyped
<1> QED BY <1>1, <1>2, <1>3, <1>4, NextPageTyped, TickTyped DEF Next

LEMMA TypedInvariant == Spec => []Typed
<1> QED BY InitTyped, StepTyped, PTL DEF Spec

\* Whatever the scanners report, a finding has a severity, a CVSS above zero and a risk
\* within 0..10, and no two have the same id.
THEOREM FindingsTypes == Spec => []TypeOK
<1>1. Typed => TypeOK
  BY DEF Typed
<1> QED BY <1>1, TypedInvariant, PTL

-----------------------------------------------------------------------------
(* Ranking and deadlines.                                                  *)

LEMMA WeightsFollow ==
  ASSUME NEW f, NEW g, Severer(f, g)
  PROVE  /\ CriticalityWeight(Criticality[f.asset]) >= CriticalityWeight(Criticality[g.asset])
         /\ ThreatFactor(f.cves) >= ThreatFactor(g.cves)
<1>1. CriticalityWeight(Criticality[f.asset]) >= CriticalityWeight(Criticality[g.asset])
  BY DEF Severer, CriticalityWeight
<1>2. ThreatFactor(f.cves) >= ThreatFactor(g.cves)
  BY DEF Severer, ThreatFactor
<1> QED BY <1>1, <1>2

LEMMA TypedRanks == Typed => SevererRanksFirst
<1> SUFFICES ASSUME Typed, NEW f \in rows, NEW g \in rows, Severer(f, g)
             PROVE  f.risk >= g.risk
  BY DEF SevererRanksFirst
<1>1. f.cvss \in 0..100 /\ g.cvss \in 0..f.cvss
  BY DEF Typed, TypeOK, Severer
<1>2. Score(f.cvss, f.cves, Criticality[f.asset]) >= Score(g.cvss, g.cves, Criticality[g.asset])
  BY <1>1, WeightsFollow, ScoreGrows
<1> QED BY <1>2 DEF Typed, Scored

\* The worse of two findings, by CVSS, exploitation and asset, is never scored lower.
THEOREM WorseIsNeverBehind == Spec => []SevererRanksFirst
<1> QED BY TypedInvariant, TypedRanks, PTL

LEMMA TypedAgrees == Typed => BreachAgreesWithDays
<1> SUFFICES ASSUME Typed, NEW f \in rows
             PROVE  LET days    == DaysRemaining(f.sev, f.created, now)
                        overdue == Breached(f.status, f.sev, f.created, now)
                    IN  /\ overdue => days <= 0 /\ f.status \in {"open", "validated"}
                        /\ days < 0 /\ f.status \in {"open", "validated"} => overdue
  BY DEF BreachAgreesWithDays
<1> DEFINE due == DueDate(f.sev, f.created)
<1>1. /\ f.sev \in Severities /\ f.created \in Nat /\ now \in Nat /\ f.status \in Statuses
  BY DEF Typed, TypeOK
<1>2. due \in Nat
  BY <1>1 DEF DueDate, Window, Day
<1>3. /\ Breached(f.status, f.sev, f.created, now) <=>
           f.status \notin {"false_positive", "remediated"} /\ now > due
      /\ DaysRemaining(f.sev, f.created, now) =
           IF due - now >= 0 THEN (due - now) \div 24 ELSE -((-(due - now)) \div 24)
  BY Zenon DEF Breached, DaysRemaining, Day
<1> HIDE DEF due
<1>4. CASE due - now >= 0
  <2>1. (due - now) \div 24 >= 0
    BY <1>1, <1>2, <1>4
  <2> QED BY <1>1, <1>2, <1>3, <1>4, <2>1 DEF Statuses
<1>5. CASE ~(due - now >= 0)
  <2>1. -((-(due - now)) \div 24) <= 0
    BY <1>1, <1>2, <1>5
  <2> QED BY <1>1, <1>2, <1>3, <1>5, <2>1 DEF Statuses
<1> QED BY <1>4, <1>5

\* The breach flag and the days left agree, whatever the clock shows.
THEOREM DeadlineIsOne == Spec => []BreachAgreesWithDays
<1> QED BY TypedInvariant, TypedAgrees, PTL

-----------------------------------------------------------------------------
(* Walking the pages.                                                      *)

\* The client has the row, or one that ties with it.
Met(f) == \E g \in rows : g.id \in pager.seen /\ Tied(f, g)

\* Of the findings there at the start, those listed before the client's offset are with
\* the client, or one they tie with: rows only ever move back in the listing, and a page
\* passes no rank without a row of it.
Walked ==
  /\ pager.pc = "idle" => pager.offset = 0
  /\ pager.pc # "idle" =>
       /\ pager.base \subseteq {f.id : f \in Found(pager.asset)}
       /\ \A f \in Found(pager.asset) :
            f.id \in pager.base /\ Rank(pager.asset, f) < pager.offset => Met(f)
  /\ pager.pc = "done" => \A f \in Found(pager.asset) : f.id \in pager.base => Met(f)

\* How a statement moves the rows: each stays what it is but for its status.
Keeps(move) ==
  /\ move \in [rows -> rows']
  /\ \A f \in rows : /\ move[f].id = f.id /\ move[f].nth = f.nth
                     /\ move[f].risk = f.risk /\ move[f].asset = f.asset

LEMMA RanksNeverDrop ==
  ASSUME Typed, IsFiniteSet(rows'), NEW move, Keeps(move), NEW asset, NEW f \in Found(asset)
  PROVE  Rank(asset, f) <= Rank(asset, move[f])'
<1> DEFINE A == Ahead(asset, f)
           B == Ahead(asset, move[f])'
           inj == [g \in A |-> move[g]]
<1>1. A \subseteq rows /\ f \in rows
  BY DEF Ahead, Found
<1>2. ASSUME NEW g \in A PROVE move[g] \in B
  BY <1>1 DEF Keeps, Ahead, Found, Before
<1>3. ASSUME NEW g \in A, NEW h \in A, move[g] = move[h] PROVE g = h
  BY <1>1, <1>3 DEF Keeps, Typed, TypeOK
<1>4. inj \in Injection(A, B)
  BY <1>2, <1>3 DEF Injection, IsInjective
<1>5. B \in SUBSET rows'
  BY DEF Ahead, Found
<1>6. IsFiniteSet(B)
  BY <1>5, FS_Subset
<1> HIDE DEF A, B, inj
<1>7. Cardinality(A) <= Cardinality(B)
  BY <1>4, <1>6, FS_Injection
<1> QED BY <1>7 DEF A, B, Rank

LEMMA MeetingsLast ==
  ASSUME NEW move, Keeps(move), UNCHANGED pager, NEW f \in rows, Met(f)
  PROVE  Met(move[f])'
<1>1. PICK g \in rows : g.id \in pager.seen /\ Tied(f, g)
  BY DEF Met
<1>2. move[g] \in rows' /\ move[g].id \in pager'.seen /\ Tied(move[f], move[g])
  BY <1>1 DEF Keeps, Tied
<1> QED BY <1>2 DEF Met, Tied

LEMMA CommitWalked ==
  ASSUME Typed, Typed', Walked, NEW move, Keeps(move), IsFiniteSet(rows'), UNCHANGED pager
  PROVE  Walked'
<1>1. PICK asset : asset = pager.asset
  OBVIOUS
<1>2. PICK base : base = pager.base
  OBVIOUS
<1>3. ASSUME NEW n \in base, base \subseteq {f.id : f \in Found(asset)}
      PROVE  \E f \in Found(asset) : f.id = n /\ move[f] \in Found(asset)' /\ move[f].id = n
  BY <1>3 DEF Keeps, Found
<1>4. ASSUME NEW g \in Found(asset)', g.id \in base, base \subseteq {f.id : f \in Found(asset)}
      PROVE  \E f \in Found(asset) : f.id = g.id /\ move[f] = g
  <2>1. PICK f \in Found(asset) : f.id = g.id /\ move[f] \in rows' /\ move[f].id = g.id
    BY <1>3, <1>4 DEF Found
  <2>2. g \in rows'
    BY DEF Found
  <2>3. move[f] = g
    BY <2>1, <2>2 DEF Typed, TypeOK
  <2> QED BY <2>1, <2>3
<1>5. CASE pager.pc = "idle"
  BY <1>5 DEF Walked
<1>6. CASE pager.pc # "idle"
  <2>1. base \subseteq {f.id : f \in Found(asset)}
    BY <1>1, <1>2, <1>6 DEF Walked
  <2>2. base \subseteq {f.id : f \in Found(asset)'}
    BY <1>3, <2>1
  <2>3. ASSUME NEW g \in Found(asset)', g.id \in base,
               Rank(asset, g)' < pager.offset \/ pager.pc = "done"
        PROVE  Met(g)'
    <3>1. PICK f \in Found(asset) : f.id = g.id /\ move[f] = g
      BY <1>4, <2>1, <2>3
    <3>2. f \in rows
      BY DEF Found
    <3>3. Rank(asset, f) \in Nat /\ Rank(asset, f) <= Rank(asset, g)'
      BY <3>1, AheadFinite, RanksNeverDrop
    <3>4. Rank(asset, g)' \in Nat
      <4>1. Ahead(asset, g)' \in SUBSET rows'
        BY DEF Ahead, Found
      <4> QED BY <4>1, FS_Subset, FS_CardinalityType DEF Rank
    <3>5. Rank(asset, f) < pager.offset \/ pager.pc = "done"
      BY <2>3, <3>3, <3>4 DEF Typed, TypeOK
    <3>6. Met(f)
      BY <1>1, <1>2, <1>6, <2>3, <3>1, <3>5 DEF Walked
    <3> QED BY <3>1, <3>2, <3>6, MeetingsLast
  <2>4. pager' = pager /\ pager'.asset = asset /\ pager'.base = base
    BY <1>1, <1>2
  <2> QED BY <1>6, <2>2, <2>3, <2>4 DEF Walked
<1> QED BY <1>5, <1>6

LEMMA CreateWalked ==
  ASSUME Typed, Typed', Walked, NEW a, NEW d, NEW i, NEW n, CreateFinding(a, d, i, n)
  PROVE  Walked'
<1> DEFINE move == [f \in rows |-> f]
           e == Enrich(d, Criticality[a])
           new == [id |-> i, nth |-> n, asset |-> a, created |-> now, sev |-> e.sev,
                   cvss |-> e.cvss, cves |-> e.cves, status |-> e.status, risk |-> e.risk]
<1>1. rows' = rows \cup {new} /\ UNCHANGED pager
  BY Zenon DEF CreateFinding
<1> HIDE DEF new
<1>2. IsFiniteSet(rows')
  BY <1>1, RowsFinite, FS_AddElement
<1>3. Keeps(move)
  BY <1>1 DEF Keeps
<1> HIDE DEF move
<1> QED BY <1>1, <1>2, <1>3, CommitWalked

LEMMA UpdateWalked ==
  ASSUME Typed, Typed', Walked, NEW f \in rows, NEW s, UpdateFindingStatus(f, s)
  PROVE  Walked'
<1> DEFINE new == [f EXCEPT !.status = s]
           move == [g \in rows |-> IF g = f THEN new ELSE g]
<1>1. rows' = (rows \ {f}) \cup {new} /\ UNCHANGED pager
  BY DEF UpdateFindingStatus
<1>2. f \in Row
  BY DEF Typed, TypeOK, Row
<1>3. new.id = f.id /\ new.nth = f.nth /\ new.risk = f.risk /\ new.asset = f.asset
  BY <1>2 DEF Row
<1> HIDE DEF new
<1>4. IsFiniteSet(rows')
  BY <1>1, RowsFinite, FS_RemoveElement, FS_AddElement
<1>5. Keeps(move)
  BY <1>1, <1>3 DEF Keeps
<1> HIDE DEF move
<1> QED BY <1>1, <1>4, <1>5, CommitWalked

LEMMA BeginWalked ==
  ASSUME Typed, Walked, NEW a, NEW n, Begin(a, n)
  PROVE  Walked'
<1> DEFINE base == {f.id : f \in Found(a)}
<1>1. /\ pager.pc = "idle" /\ UNCHANGED rows
      /\ pager' = [pager EXCEPT !.pc = "walk", !.asset = a, !.limit = n, !.base = base]
  BY Zenon DEF Begin
<1>2. pager.offset = 0
  BY <1>1 DEF Walked
<1> HIDE DEF base
<1>3. /\ pager'.pc = "walk" /\ pager'.asset = a /\ pager'.base = base /\ pager'.offset = 0
  BY <1>1, <1>2 DEF Typed, TypeOK
<1>4. \A f \in Found(a) : ~(Rank(a, f) < 0)
  BY AheadFinite
<1>5. \A f : Rank(a, f)' = Rank(a, f)
  BY <1>1 DEF Rank, Ahead, Found
<1>6. Found(a)' = Found(a)
  BY <1>1 DEF Found
<1> QED BY <1>3, <1>4, <1>5, <1>6 DEF Walked, base

LEMMA NextPageWalked ==
  ASSUME Typed, Walked, NextPage
  PROVE  Walked'
<1>1. PICK a, limit, offset :
        a = pager.asset /\ limit = PageLimit(pager.limit) /\ offset = pager.offset
  OBVIOUS
<1>2. PICK page \in Pages(a, limit, offset) :
        /\ pager.pc = "walk" /\ UNCHANGED rows
        /\ pager' = [pager EXCEPT !.pc = IF page = {} THEN "done" ELSE "walk",
                                  !.offset = @ + Cardinality(page),
                                  !.seen = @ \cup {f.id : f \in page}]
  BY <1>1, Zenon DEF NextPage
<1> DEFINE more == {f.id : f \in page}
<1>3. limit \in Nat \ {0} /\ offset \in Nat
  BY <1>1, PageLimitType DEF Typed, TypeOK
<1>4. page \in SUBSET rows
  BY DEF Pages, Found
<1>5. /\ pager.base \subseteq {f.id : f \in Found(a)}
      /\ \A f \in Found(a) : f.id \in pager.base /\ Rank(a, f) < offset => Met(f)
  BY <1>1, <1>2 DEF Walked
<1> HIDE DEF more
<1>6. /\ pager'.pc = (IF page = {} THEN "done" ELSE "walk") /\ pager'.asset = a
      /\ pager'.base = pager.base /\ pager'.seen = pager.seen \cup more
      /\ pager'.offset = offset + Cardinality(page)
  BY <1>1, <1>2 DEF Typed, TypeOK, more
<1>7. \A f : Met(f) => Met(f)'
  BY <1>2, <1>6 DEF Met
<1>8. ASSUME NEW f \in Found(a), f.id \in pager.base, Rank(a, f) < offset + Cardinality(page)
      PROVE  Met(f)'
  <2>1. CASE Rank(a, f) < offset
    BY <1>5, <1>7, <1>8, <2>1
  <2>2. CASE ~(Rank(a, f) < offset)
    <3>1. PICK g \in page : Tied(f, g)
      BY <1>3, <1>8, <2>2, PageShowsRanks
    <3>2. g \in rows' /\ g.id \in pager'.seen
      BY <1>2, <1>4, <1>6, <3>1 DEF more
    <3> QED BY <3>1, <3>2 DEF Met, Tied
  <2> QED BY <2>1, <2>2
<1>9. \A f : Rank(a, f)' = Rank(a, f)
  BY <1>2 DEF Rank, Ahead, Found
<1>10. Found(a)' = Found(a)
  BY <1>2 DEF Found
<1>11. page = {} => \A f \in Found(a) : f.id \in pager.base => Met(f)'
  BY <1>2, <1>3, <1>5, <1>7, EmptyPageIsLast
<1> QED BY <1>5, <1>6, <1>8, <1>9, <1>10, <1>11 DEF Walked

LEMMA StepWalked == Typed /\ Typed' /\ Walked /\ [Next]_vars => Walked'
<1> SUFFICES ASSUME Typed, Typed', Walked, [Next]_vars PROVE Walked'
  OBVIOUS
<1>1. CASE rows' = rows /\ pager' = pager
  BY <1>1 DEF Walked, Met, Found, Rank, Ahead
<1>2. CASE UNCHANGED vars
  BY <1>1, <1>2 DEF vars
<1>3. CASE Tick
  BY <1>1, <1>3 DEF Tick
<1>4. ASSUME NEW a \in scope.assets, NEW item \in scope.items, NEW i \in NewIds,
             NEW n \in scope.times, NEW d \in Parse(item), CreateFinding(a, d, i, n)
      PROVE  Walked'
  BY <1>4, CreateWalked
<1>5. ASSUME NEW f \in rows, NEW s \in scope.statuses, UpdateFindingStatus(f, s)
      PROVE  Walked'
  BY <1>5, UpdateWalked
<1>6. ASSUME NEW a \in scope.assets \cup {Everything}, NEW n \in scope.limits, Begin(a, n)
      PROVE  Walked'
  BY <1>6, BeginWalked
<1> QED BY <1>2, <1>3, <1>4, <1>5, <1>6, NextPageWalked DEF Next

\* A client that walks the pages to the end has every finding that was there when it
\* began, or one that ties with it in risk and time: writers only ever move a row back in
\* the listing, the offset counts the rows that were sent, a page shows a row of each rank
\* it covers however the ties fall, and an empty page means that no row is left.
THEOREM WalkLosesTiesOnly == Spec => []PagesMissOnlyTies
<1>1. Init => Walked
  BY DEF Init, Walked
<1>2. Typed /\ Walked => PagesMissOnlyTies
  <2> SUFFICES ASSUME Typed, Walked, pager.pc = "done", NEW f \in rows, f.id \in pager.base
               PROVE  Met(f)
    BY DEF PagesMissOnlyTies, Met
  <2>1. pager.base \subseteq {g.id : g \in Found(pager.asset)}
    BY DEF Walked
  <2>2. PICK g \in Found(pager.asset) : g.id = f.id
    BY <2>1
  <2>3. f = g
    BY <2>2 DEF Found, Typed, TypeOK
  <2> QED BY <2>2, <2>3 DEF Walked
<1> QED BY <1>1, <1>2, StepWalked, TypedInvariant, PTL DEF Spec

\* A row whose rank is the lowest of those that are not among the first is the next.
LEMMA HeadGrows ==
  ASSUME Typed, NEW asset, NEW k \in Nat, NEW T \in SUBSET Found(asset), Heads(asset, T, k),
         T # Found(asset)
  PROVE  \E U \in SUBSET Found(asset) : T \subseteq U /\ Heads(asset, U, k + 1)
<1> DEFINE M == {Rank(asset, f) : f \in Found(asset) \ T}
<1>1. M \subseteq Nat /\ M # {}
  BY AheadFinite
<1>2. PICK f \in Found(asset) \ T : \A g \in Found(asset) \ T : Rank(asset, f) <= Rank(asset, g)
  <2>1. PICK m \in M : \A n \in M : m <= n
    <3> HIDE DEF M
    <3> QED BY <1>1, Least
  <2> QED BY <2>1
<1>3. ASSUME NEW g \in Found(asset), Before(g, f) PROVE g \in T
  <2>1. f \in rows /\ g \in rows
    BY DEF Found
  <2>2. Ahead(asset, g) \in SUBSET Ahead(asset, f) /\ g \in Ahead(asset, f)
    BY <1>3, <2>1, ListingIsWeak DEF Ahead, Found
  <2>3. g \notin Ahead(asset, g)
    BY <2>1, ListingIsWeak DEF Ahead
  <2>4. /\ Rank(asset, g) <= Rank(asset, f) /\ Rank(asset, g) # Rank(asset, f)
        /\ Rank(asset, g) \in Nat /\ Rank(asset, f) \in Nat
    BY <2>2, <2>3, AheadFinite, FS_Subset DEF Rank
  <2>5. ~(Rank(asset, f) <= Rank(asset, g))
    BY <2>4
  <2> QED BY <1>2, <2>5
<1>4. PICK U : U = T \cup {f}
  OBVIOUS
<1>5. Cardinality(T) = k /\ IsFiniteSet(T)
  BY SetsFinite DEF Heads
<1>6. Cardinality(U) = k + 1
  BY <1>2, <1>4, <1>5, FS_AddElement
<1>7. \A h \in U, g \in Found(asset) : Before(g, h) => g \in U
  BY <1>3, <1>4 DEF Heads
<1>8. Heads(asset, U, k + 1)
  BY <1>6, <1>7 DEF Heads
<1> QED BY <1>2, <1>4, <1>8

LEMMA HeadExtends ==
  ASSUME Typed, NEW asset, NEW k \in Nat, NEW n \in Nat, NEW T \in SUBSET Found(asset),
         Heads(asset, T, k)
  PROVE  \E U \in SUBSET Found(asset) : T \subseteq U /\ Heads(asset, U, k + n)
<1> DEFINE C == {j \in k..(k + n) :
                   \E U \in SUBSET Found(asset) : T \subseteq U /\ Heads(asset, U, j)}
<1>1. k \in C
  OBVIOUS
<1>2. ASSUME NEW j \in k..((k + n) - 1), j \in C PROVE j + 1 \in C
  <2>1. PICK U \in SUBSET Found(asset) : T \subseteq U /\ Heads(asset, U, j)
    BY <1>2
  <2>2. j \in Nat /\ j + 1 \in k..(k + n)
    OBVIOUS
  <2>3. CASE U = Found(asset)
    <3>1. PICK i \in Nat : i = Cardinality(U)
      BY SetsFinite
    <3>2. i <= j
      BY <2>1, <2>2, <3>1 DEF Heads
    <3>3. i < j + 1
      BY <2>2, <3>2
    <3>4. Heads(asset, U, j + 1)
      BY <2>1, <2>3, <3>1, <3>3 DEF Heads
    <3> QED BY <2>1, <2>2, <3>4
  <2>4. CASE U # Found(asset)
    <3>1. PICK V \in SUBSET Found(asset) : U \subseteq V /\ Heads(asset, V, j + 1)
      BY <2>1, <2>2, <2>4, HeadGrows
    <3> QED BY <2>1, <2>2, <3>1
  <2> QED BY <2>3, <2>4
<1> HIDE DEF C
<1>3. k..(k + n) \subseteq C
  BY <1>1, <1>2, Climb
<1>4. k + n \in C
  BY <1>3
<1> QED BY <1>4 DEF C

\* Some page is always there to be sent, the empty one included.
SomePage == \A asset \in Assets \cup {Everything}, limit \in Nat, offset \in Nat :
              Pages(asset, limit, offset) # {}

\* Every request for a page is answered in every state, however many rows tie: what
\* WalkLosesTiesOnly says of every page that the database may choose is never about none.
THEOREM SomePageAlways == Spec => []SomePage
<1>1. ASSUME Typed, NEW asset, NEW limit \in Nat, NEW offset \in Nat
      PROVE  Pages(asset, limit, offset) # {}
  <2>1. {} \in SUBSET Found(asset) /\ Heads(asset, {}, 0)
    BY FS_EmptySet DEF Heads
  <2>2. PICK T \in SUBSET Found(asset) : Heads(asset, T, 0 + offset)
    BY <1>1, <2>1, HeadExtends
  <2>3. Heads(asset, T, offset)
    BY <2>2
  <2>4. PICK U \in SUBSET Found(asset) : T \subseteq U /\ Heads(asset, U, offset + limit)
    BY <1>1, <2>3, HeadExtends
  <2>5. PICK page : page = U \ T
    OBVIOUS
  <2>6. /\ page \in SUBSET Found(asset) /\ T \in SUBSET (Found(asset) \ page)
        /\ T \cup page = U
    BY <2>4, <2>5
  <2> QED BY <2>3, <2>4, <2>6 DEF Pages
<1>2. Typed => SomePage
  BY <1>1 DEF SomePage
<1> QED BY <1>2, TypedInvariant, PTL

-----------------------------------------------------------------------------
(* Attack paths.                                                           *)

LEMMA ImageFinite ==
  ASSUME NEW S, IsFiniteSet(S), NEW f, DOMAIN f = S
  PROVE  IsFiniteSet({f[x] : x \in S})
<1> DEFINE g == [x \in S |-> f[x]]
           T == {f[x] : x \in S}
<1>1. g \in Surjection(S, T)
  BY DEF Surjection
<1> QED BY <1>1, FS_Surjection

LEMMA LengthenedType ==
  ASSUME NEW edges, NEW target, NEW t, t \subseteq Seq(edges)
  PROVE  Lengthened(edges, target, t) \subseteq Seq(edges)
<1>1. ASSUME NEW e \in edges PROVE <<e>> \in Seq(edges)
  OBVIOUS
<1>2. ASSUME NEW e \in edges, NEW q \in t PROVE <<e>> \o q \in Seq(edges)
  <2>1. q \in Seq(edges) /\ <<e>> \in Seq(edges)
    OBVIOUS
  <2> QED BY <2>1
<1> QED BY <1>1, <1>2 DEF Lengthened

\* The recursions of the two searches have their equations.
LEMMA TrailsUnfold ==
  ASSUME NEW edges, NEW target, NEW n \in Nat
  PROVE  \E t : /\ t = [k \in 0..n |-> IF k = 0 THEN {} ELSE Lengthened(edges, target, t[k - 1])]
                /\ Trails(edges, target, n) = t[n]
<1> DEFINE Paths == SUBSET Seq(edges)
           Grow == [t \in Paths |-> Lengthened(edges, target, t)]
           Solves(t) == t = [k \in 0..n |-> IF k = 0 THEN {}
                                            ELSE Lengthened(edges, target, t[k - 1])]
<1>1. Grow \in [Paths -> Paths] /\ {} \in Paths
  BY LengthenedType
<1> HIDE DEF Paths, Grow
<1>2. PICK g : Unfolds(g, Paths, {}, Grow, n)
  BY <1>1, Recursion
<1>3. g = [i \in 0..n |-> IF i = 0 THEN {} ELSE Lengthened(edges, target, g[i - 1])]
  <2>1. g \in [0..n -> Paths] /\ g[0] = {} /\ \A i \in 1..n : g[i] = Grow[g[i - 1]]
    BY <1>2 DEF Unfolds
  <2>2. \A i \in 1..n : g[i - 1] \in Paths
    BY <2>1
  <2>3. \A i \in 1..n : g[i] = Lengthened(edges, target, g[i - 1])
    BY <2>1, <2>2 DEF Grow
  <2> QED BY <2>1, <2>3
<1>4. Solves(g)
  BY <1>3
<1>5. Trails(edges, target, n) = (CHOOSE t : Solves(t))[n]
  BY Zenon DEF Trails
<1> HIDE DEF Solves
<1>6. Solves(CHOOSE t : Solves(t))
  BY <1>4, Zenon
<1> QED BY <1>5, <1>6 DEF Solves

LEMMA UpstreamUnfold ==
  ASSUME NEW target, NEW X, NEW n \in Nat
  PROVE  \E u : /\ u = [k \in 0..n |-> IF k = 0 THEN {} ELSE Entries(target, X, u[k - 1])]
                /\ Upstream(target, X, n) = UNION {u[k] : k \in 0..n}
<1> DEFINE Sets == SUBSET X
           Step == [s \in Sets |-> Entries(target, X, s)]
           Solves(u) == u = [k \in 0..n |-> IF k = 0 THEN {} ELSE Entries(target, X, u[k - 1])]
<1>1. Step \in [Sets -> Sets] /\ {} \in Sets
  BY DEF Entries
<1> HIDE DEF Sets, Step
<1>2. PICK g : Unfolds(g, Sets, {}, Step, n)
  BY <1>1, Recursion
<1>3. g = [i \in 0..n |-> IF i = 0 THEN {} ELSE Entries(target, X, g[i - 1])]
  <2>1. g \in [0..n -> Sets] /\ g[0] = {} /\ \A i \in 1..n : g[i] = Step[g[i - 1]]
    BY <1>2 DEF Unfolds
  <2>2. \A i \in 1..n : g[i - 1] \in Sets
    BY <2>1
  <2>3. \A i \in 1..n : g[i] = Entries(target, X, g[i - 1])
    BY <2>1, <2>2 DEF Step
  <2> QED BY <2>1, <2>3
<1>4. Solves(g)
  BY <1>3
<1>5. Upstream(target, X, n) = UNION {(CHOOSE u : Solves(u))[k] : k \in 0..n}
  BY Zenon DEF Upstream
<1> HIDE DEF Solves
<1>6. Solves(CHOOSE u : Solves(u))
  BY <1>4, Zenon
<1> QED BY <1>5, <1>6 DEF Solves

\* What an edge before a path makes of it.
Extends(p, e, q) ==
  /\ Len(p) = Len(q) + 1 /\ p[1] = e
  /\ \A i \in 1..Len(q) : p[i + 1] = q[i]
  /\ Nodes(p) = {e[1], e[2]} \cup Nodes(q)

LEMMA Prepended ==
  ASSUME NEW edges, NEW e \in edges, NEW q \in Seq(edges)
  PROVE  <<e>> \o q \in Seq(edges) /\ Extends(<<e>> \o q, e, q)
<1> DEFINE p == <<e>> \o q
<1>1. <<e>> \in Seq(edges) /\ Len(<<e>>) = 1 /\ Len(q) \in Nat
  OBVIOUS
<1>2. p \in Seq(edges) /\ Len(p) = Len(q) + 1 /\ p[1] = e
  BY <1>1
<1>3. \A i \in 1..Len(q) : p[i + 1] = q[i]
  BY <1>1
<1> HIDE DEF p
<1>4. DOMAIN p = 1..(Len(q) + 1) /\ DOMAIN q = 1..Len(q)
  BY <1>2
<1>5. \A i \in DOMAIN p : i = 1 \/ (i - 1 \in DOMAIN q /\ p[i] = q[i - 1])
  BY <1>1, <1>3, <1>4
<1>6. \A i \in DOMAIN q : i + 1 \in DOMAIN p /\ p[i + 1] = q[i]
  BY <1>1, <1>3, <1>4
<1>7. 1 \in DOMAIN p
  BY <1>1, <1>4
<1>8. ASSUME NEW x \in Nodes(p) PROVE x \in {e[1], e[2]} \cup Nodes(q)
  <2>1. PICK i \in DOMAIN p : x = p[i][1] \/ x = p[i][2]
    BY DEF Nodes
  <2>2. CASE i = 1
    BY <1>2, <2>1, <2>2
  <2>3. CASE i - 1 \in DOMAIN q /\ p[i] = q[i - 1]
    <3>1. PICK j \in DOMAIN q : x = q[j][1] \/ x = q[j][2]
      BY <2>1, <2>3
    <3> QED BY <3>1 DEF Nodes
  <2> QED BY <1>5, <2>2, <2>3
<1>9. {e[1], e[2]} \cup Nodes(q) \subseteq Nodes(p)
  <2>1. {e[1], e[2]} \subseteq Nodes(p)
    BY <1>2, <1>7 DEF Nodes
  <2>2. ASSUME NEW x \in Nodes(q) PROVE x \in Nodes(p)
    <3>1. PICK i \in DOMAIN q : x = q[i][1] \/ x = q[i][2]
      BY DEF Nodes
    <3>2. PICK j \in DOMAIN p : x = p[j][1] \/ x = p[j][2]
      BY <1>6, <3>1
    <3> QED BY <3>2 DEF Nodes
  <2> QED BY <2>1, <2>2
<1>10. p \in Seq(edges) /\ Extends(p, e, q)
  BY <1>2, <1>3, <1>8, <1>9 DEF Extends
<1> QED BY <1>10 DEF p

LEMMA Single ==
  ASSUME NEW edges, NEW e \in edges
  PROVE  /\ <<e>> \in Seq(edges) /\ Len(<<e>>) = 1 /\ <<e>>[1] = e /\ DOMAIN <<e>> = {1}
         /\ Nodes(<<e>>) = {e[1], e[2]}
<1>1. <<e>> \in Seq(edges) /\ Len(<<e>>) = 1 /\ <<e>>[1] = e /\ DOMAIN <<e>> = {1}
  OBVIOUS
<1> QED BY <1>1 DEF Nodes

\* A set of paths of at most n edges that holds what is left of a path from each of its
\* edges on.
Closed(edges, paths, n) ==
  /\ IsFiniteSet(paths)
  /\ \A p \in paths : p \in Seq(edges) /\ Len(p) \in 1..n
  /\ \A p \in paths : \A i \in DOMAIN p :
       \E q \in paths : q[1] = p[i] /\ Nodes(q) \subseteq Nodes(p) /\ Len(q) <= Len(p)

Ends(p, e, target) == p = <<e>> /\ e[2] = target
Joins(p, e, q)     == p = <<e>> \o q /\ e[2] = q[1][1]

LEMMA LengthenedCases ==
  ASSUME NEW edges, NEW target, NEW paths, NEW p \in Lengthened(edges, target, paths)
  PROVE  \/ p \in paths
         \/ \E e \in edges : Ends(p, e, target)
         \/ \E e \in edges, q \in paths : Joins(p, e, q)
  BY DEF Lengthened, Ends, Joins

LEMMA LengthenedFinite ==
  ASSUME NEW edges, IsFiniteSet(edges), NEW target, NEW paths, IsFiniteSet(paths)
  PROVE  IsFiniteSet(Lengthened(edges, target, paths))
<1> DEFINE into == {d \in edges : d[2] = target}
           joins == {q \in edges \X paths : /\ q[1][2] = q[2][1][1]
                                            /\ \A i \in DOMAIN q[2] : q[2][i] # q[1]}
           f == [e \in into |-> <<e>>]
           g == [p \in joins |-> <<p[1]>> \o p[2]]
<1>1. into \in SUBSET edges /\ joins \in SUBSET (edges \X paths)
  OBVIOUS
<1>2. IsFiniteSet(into)
  BY <1>1, FS_Subset
<1>3. IsFiniteSet(edges \X paths)
  BY FS_Product
<1>4. IsFiniteSet(joins)
  <2> HIDE DEF joins
  <2> QED BY <1>1, <1>3, FS_Subset
<1>5. Lengthened(edges, target, paths) = {f[e] : e \in into} \cup paths \cup {g[p] : p \in joins}
  BY Zenon DEF Lengthened
<1>6. DOMAIN f = into /\ DOMAIN g = joins
  OBVIOUS
<1> HIDE DEF into, joins, f, g
<1>7. IsFiniteSet({f[e] : e \in into}) /\ IsFiniteSet({g[p] : p \in joins})
  BY <1>2, <1>4, <1>6, ImageFinite
<1> DEFINE A == {f[e] : e \in into}
           B == {g[p] : p \in joins}
<1>8. IsFiniteSet(A) /\ IsFiniteSet(B) /\ Lengthened(edges, target, paths) = A \cup paths \cup B
  BY <1>5, <1>7
<1> HIDE DEF A, B
<1>9. IsFiniteSet(A \cup paths)
  BY <1>8, FS_Union
<1>10. IsFiniteSet((A \cup paths) \cup B)
  BY <1>8, <1>9, FS_Union
<1> QED BY <1>8, <1>10

LEMMA LengthenedClosed ==
  ASSUME NEW edges, IsFiniteSet(edges), NEW target, NEW n \in Nat,
         NEW paths, Closed(edges, paths, n)
  PROVE  Closed(edges, Lengthened(edges, target, paths), n + 1)
<1> DEFINE new == Lengthened(edges, target, paths)
<1>1. paths \subseteq new
  BY DEF Lengthened
<1>2. ASSUME NEW p \in new
      PROVE  /\ p \in Seq(edges) /\ Len(p) \in 1..(n + 1)
             /\ \A i \in DOMAIN p :
                  \E q \in new : q[1] = p[i] /\ Nodes(q) \subseteq Nodes(p) /\ Len(q) <= Len(p)
  <2>1. CASE p \in paths
    BY <1>1, <2>1 DEF Closed
  <2>2. ASSUME NEW e \in edges, Ends(p, e, target)
        PROVE  /\ p \in Seq(edges) /\ Len(p) \in 1..(n + 1)
               /\ \A i \in DOMAIN p : p[1] = p[i] /\ Nodes(p) \subseteq Nodes(p) /\ Len(p) <= Len(p)
    BY <2>2, Single DEF Ends
  <2>3. ASSUME NEW e \in edges, NEW r \in paths, Joins(p, e, r)
        PROVE  /\ p \in Seq(edges) /\ Len(p) \in 1..(n + 1)
               /\ \A i \in DOMAIN p :
                    \E q \in new : q[1] = p[i] /\ Nodes(q) \subseteq Nodes(p) /\ Len(q) <= Len(p)
    <3>1. r \in Seq(edges) /\ Len(r) \in 1..n
      BY DEF Closed
    <3>2. /\ p \in Seq(edges) /\ Len(p) = Len(r) + 1 /\ p[1] = e
          /\ \A i \in 1..Len(r) : p[i + 1] = r[i]
          /\ Nodes(p) = {e[1], e[2]} \cup Nodes(r)
      <4>1. <<e>> \o r \in Seq(edges) /\ Extends(<<e>> \o r, e, r)
        BY <3>1, Prepended, Zenon
      <4> QED BY <2>3, <4>1 DEF Extends, Joins
    <3>3. Len(p) \in 1..(n + 1)
      BY <3>1, <3>2
    <3>4. ASSUME NEW i \in DOMAIN p
          PROVE  \E q \in new : q[1] = p[i] /\ Nodes(q) \subseteq Nodes(p) /\ Len(q) <= Len(p)
      <4>1. CASE i = 1
        BY <3>3, <4>1
      <4>2. CASE i # 1
        <5>1. i - 1 \in DOMAIN r /\ p[i] = r[i - 1]
          <6>1. i \in 1..Len(p) /\ DOMAIN r = 1..Len(r)
            BY <3>1, <3>2
          <6>2. i - 1 \in 1..Len(r) /\ (i - 1) + 1 = i
            BY <3>1, <3>2, <4>2, <6>1
          <6> QED BY <3>2, <6>1, <6>2
        <5>2. PICK q \in paths : q[1] = r[i - 1] /\ Nodes(q) \subseteq Nodes(r) /\ Len(q) <= Len(r)
          BY <5>1 DEF Closed
        <5>3. Len(q) \in Nat
          BY DEF Closed
        <5>4. Len(q) <= Len(p)
          BY <3>1, <3>2, <5>2, <5>3
        <5> QED BY <1>1, <3>2, <5>1, <5>2, <5>4
      <4> QED BY <4>1, <4>2
    <3> QED BY <3>2, <3>3, <3>4
  <2>4. \/ p \in paths
        \/ \E e \in edges : Ends(p, e, target)
        \/ \E e \in edges, q \in paths : Joins(p, e, q)
    <3>1. p \in Lengthened(edges, target, paths)
      OBVIOUS
    <3> QED BY <3>1, LengthenedCases, Zenon
  <2> HIDE DEF new
  <2> QED BY <2>1, <2>2, <2>3, <2>4, Zenon
<1>3. IsFiniteSet(new)
  BY LengthenedFinite DEF Closed
<1> HIDE DEF new
<1> QED BY <1>2, <1>3 DEF Closed, new

LEMMA LengthenedHas ==
  ASSUME NEW edges, NEW target, NEW paths, NEW e \in edges
  PROVE  /\ e[2] = target => <<e>> \in Lengthened(edges, target, paths)
         /\ \A q \in paths : e[2] = q[1][1] /\ (\A i \in DOMAIN q : q[i] # e)
                             => <<e>> \o q \in Lengthened(edges, target, paths)
<1>1. e[2] = target => <<e>> \in Lengthened(edges, target, paths)
  BY DEF Lengthened
<1>2. ASSUME NEW q \in paths, e[2] = q[1][1], \A i \in DOMAIN q : q[i] # e
      PROVE  <<e>> \o q \in Lengthened(edges, target, paths)
  <2> DEFINE joins == {r \in edges \X paths : /\ r[1][2] = r[2][1][1]
                                              /\ \A i \in DOMAIN r[2] : r[2][i] # r[1]}
             new == {<<r[1]>> \o r[2] : r \in joins}
  <2>1. <<e, q>> \in joins
    BY <1>2
  <2>2. <<e>> \o q = <<(<<e, q>>)[1]>> \o (<<e, q>>)[2]
    OBVIOUS
  <2>3. <<e>> \o q \in new
    <3> HIDE DEF joins
    <3> QED BY <2>1, <2>2
  <2>4. new \subseteq Lengthened(edges, target, paths)
    BY Zenon DEF Lengthened
  <2> QED BY <2>3, <2>4
<1> QED BY <1>1, <1>2

\* Where a path of exploitable assets starts.
Opens(paths, X, a) == \E p \in paths : p[1][1] = a /\ Nodes(p) \subseteq X

\* One hop further from the target, a path is found: the edge before the path from where
\* it leads to, or the rest of that path if it has the edge already.
LEMMA EntryStep ==
  ASSUME NEW edges, edges = scope.edges, edges \subseteq Assets \X Assets, NEW target, NEW X,
         NEW n \in Nat, NEW paths, Closed(edges, paths, n), NEW up,
         \A b \in up : Opens(paths, X, b), NEW a \in Entries(target, X, up)
  PROVE  Opens(Lengthened(edges, target, paths), X, a)
<1>1. PICK b : b \in up \cup ({target} \cap X) /\ <<a, b>> \in edges /\ a \in X
  BY DEF Entries
<1>2. PICK e \in edges : e = <<a, b>>
  BY <1>1
<1>3. e[1] = a /\ e[2] = b
  BY <1>2
<1>4. paths \subseteq Lengthened(edges, target, paths)
  BY DEF Lengthened
<1>5. CASE b = target /\ b \in X
  <2>1. <<e>> \in Lengthened(edges, target, paths)
    BY <1>3, <1>5, LengthenedHas
  <2>2. <<e>>[1] = e /\ Nodes(<<e>>) = {e[1], e[2]}
    BY Single
  <2> QED BY <1>1, <1>3, <1>5, <2>1, <2>2 DEF Opens
<1>6. CASE b \in up
  <2>1. PICK q \in paths : q[1][1] = b /\ Nodes(q) \subseteq X
    BY <1>6 DEF Opens
  <2>2. CASE \E i \in DOMAIN q : q[i] = e
    <3>1. PICK r \in paths : r[1] = e /\ Nodes(r) \subseteq Nodes(q)
      BY <2>2 DEF Closed
    <3> QED BY <1>3, <1>4, <2>1, <3>1 DEF Opens
  <2>3. CASE ~\E i \in DOMAIN q : q[i] = e
    <3> DEFINE p == <<e>> \o q
    <3>1. p \in Lengthened(edges, target, paths)
      BY <1>3, <2>1, <2>3, LengthenedHas
    <3>2. Extends(p, e, q)
      <4>1. q \in Seq(edges)
        BY DEF Closed
      <4> QED BY <4>1, Prepended, Zenon
    <3>3. b \in X
      <4>1. 1 \in DOMAIN q
        BY DEF Closed
      <4> QED BY <2>1, <4>1 DEF Nodes
    <3> HIDE DEF p
    <3>4. p[1][1] = a /\ Nodes(p) \subseteq X
      BY <1>1, <1>3, <2>1, <3>2, <3>3 DEF Extends
    <3> QED BY <3>1, <3>4 DEF Opens
  <2> QED BY <2>2, <2>3
<1> QED BY <1>1, <1>5, <1>6

\* A path of exploitable assets starts as many hops from the target as it has edges.
Starts(paths, X, u, n) ==
  \A p \in paths : Len(p) <= n /\ Nodes(p) \subseteq X => p[1][1] \in u[Len(p)]

LEMMA StartStep ==
  ASSUME NEW edges, edges = scope.edges, edges \subseteq Assets \X Assets, NEW target, NEW X,
         NEW n \in Nat, NEW u, \A k \in 1..n : u[k] = Entries(target, X, u[k - 1]),
         NEW m \in Nat, NEW paths, Closed(edges, paths, m), Starts(paths, X, u, n)
  PROVE  Starts(Lengthened(edges, target, paths), X, u, n)
<1> SUFFICES ASSUME NEW p \in Lengthened(edges, target, paths), Len(p) <= n, Nodes(p) \subseteq X
             PROVE  p[1][1] \in u[Len(p)]
  BY DEF Starts
<1>1. \A e \in edges : e = <<e[1], e[2]>>
  OBVIOUS
<1>2. CASE p \in paths
  BY <1>2 DEF Starts
<1>3. ASSUME NEW e \in edges, Ends(p, e, target) PROVE p[1][1] \in u[Len(p)]
  <2>1. Len(p) = 1 /\ p[1] = e /\ Nodes(p) = {e[1], e[2]}
    BY <1>3, Single DEF Ends
  <2>2. 1 \in 1..n /\ e[1] \in X /\ e[2] \in X /\ e[2] = target /\ <<e[1], e[2]>> \in edges
    BY <1>1, <1>3, <2>1 DEF Ends
  <2>3. e[1] \in Entries(target, X, u[1 - 1])
    BY <2>2 DEF Entries
  <2> QED BY <2>1, <2>2, <2>3
<1>4. ASSUME NEW e \in edges, NEW q \in paths, Joins(p, e, q) PROVE p[1][1] \in u[Len(p)]
  <2>1. q \in Seq(edges) /\ Len(q) \in 1..m
    BY DEF Closed
  <2>2. Extends(p, e, q)
    <3>1. Extends(<<e>> \o q, e, q)
      BY <2>1, Prepended, Zenon
    <3> QED BY <1>4, <3>1 DEF Joins
  <2>3. /\ Len(p) = Len(q) + 1 /\ p[1] = e /\ Nodes(q) \subseteq X /\ e[1] \in X
    BY <2>2 DEF Extends
  <2>4. Len(q) <= n /\ Len(p) \in 1..n /\ Len(p) - 1 = Len(q)
    BY <2>1, <2>3
  <2>5. q[1][1] \in u[Len(q)]
    BY <2>3, <2>4 DEF Starts
  <2>6. e[1] \in Entries(target, X, u[Len(p) - 1])
    <3>1. <<e[1], e[2]>> \in edges /\ e[2] = q[1][1]
      BY <1>1, <1>4 DEF Joins
    <3> QED BY <2>3, <2>4, <2>5, <3>1 DEF Entries
  <2> QED BY <2>3, <2>4, <2>6
<1>5. \/ p \in paths
      \/ \E e \in edges : Ends(p, e, target)
      \/ \E e \in edges, q \in paths : Joins(p, e, q)
  BY LengthenedCases, Zenon
<1> QED BY <1>2, <1>3, <1>4, <1>5, Zenon

\* The query finds a way in of at most n edges if and only if there is one.
LEMMA SearchIsExact ==
  ASSUME scope \in Scopes, NEW target, NEW X, NEW h \in Nat, NEW n \in 1..h
  PROVE  /\ Closed(scope.edges, Trails(scope.edges, target, h), h)
         /\ Upstream(target, X, n) \cap External # {} <=>
              \E p \in Trails(scope.edges, target, h) :
                 p[1][1] \in External /\ Nodes(p) \subseteq X /\ Len(p) <= n
<1>1. PICK edges : edges = scope.edges
  OBVIOUS
<1>2. edges \subseteq Assets \X Assets /\ IsFiniteSet(edges)
  BY <1>1, ScopeFacts
<1>3. PICK t : /\ t = [k \in 0..h |-> IF k = 0 THEN {} ELSE Lengthened(edges, target, t[k - 1])]
               /\ Trails(edges, target, h) = t[h]
  BY TrailsUnfold
<1>4. PICK u : /\ u = [k \in 0..n |-> IF k = 0 THEN {} ELSE Entries(target, X, u[k - 1])]
               /\ Upstream(target, X, n) = UNION {u[k] : k \in 0..n}
  <2>1. n \in Nat
    OBVIOUS
  <2> QED BY <2>1, UpstreamUnfold, Zenon
<1>5. t[0] = {} /\ \A k \in 0..(h - 1) : t[k + 1] = Lengthened(edges, target, t[k])
  <2>1. \A k \in 0..h : t[k] = IF k = 0 THEN {} ELSE Lengthened(edges, target, t[k - 1])
    BY <1>3
  <2>2. ASSUME NEW k \in 0..(h - 1) PROVE t[k + 1] = Lengthened(edges, target, t[k])
    <3>1. k + 1 \in 0..h /\ k + 1 # 0 /\ (k + 1) - 1 = k
      OBVIOUS
    <3>2. t[k + 1] = Lengthened(edges, target, t[(k + 1) - 1])
      BY <2>1, <3>1
    <3> QED BY <3>1, <3>2
  <2> QED BY <2>1, <2>2
<1>6. u[0] = {} /\ \A k \in 1..n : u[k] = Entries(target, X, u[k - 1])
  <2>1. \A k \in 0..n : u[k] = IF k = 0 THEN {} ELSE Entries(target, X, u[k - 1])
    BY <1>4
  <2> QED BY <2>1
<1> DEFINE C == {k \in 0..h : Closed(edges, t[k], k) /\ Starts(t[k], X, u, n)}
           D == {k \in 0..n : \A a \in u[k] : Opens(t[k], X, a)}
<1>7. 0..h \subseteq C
  <2>1. 0 \in C
    <3>1. Closed(edges, {}, 0)
      BY FS_EmptySet DEF Closed
    <3>2. Starts({}, X, u, n)
      BY DEF Starts
    <3> QED BY <1>5, <3>1, <3>2
  <2>2. ASSUME NEW k \in 0..(h - 1), k \in C PROVE k + 1 \in C
    <3>1. Closed(edges, t[k + 1], k + 1)
      BY <1>2, <1>5, <2>2, LengthenedClosed
    <3>2. Starts(t[k + 1], X, u, n)
      BY <1>1, <1>2, <1>5, <1>6, <2>2, StartStep
    <3> QED BY <3>1, <3>2
  <2> HIDE DEF C
  <2> QED BY <2>1, <2>2, Climb
<1>8. 0..n \subseteq D
  <2>1. 0 \in D
    BY <1>6
  <2>2. ASSUME NEW k \in 0..(n - 1), k \in D PROVE k + 1 \in D
    <3>1. k \in 0..(h - 1) /\ Closed(edges, t[k], k) /\ k \in Nat
      BY <1>7
    <3>2. u[k + 1] = Entries(target, X, u[k])
      <4>1. k + 1 \in 1..n /\ (k + 1) - 1 = k
        OBVIOUS
      <4>2. u[k + 1] = Entries(target, X, u[(k + 1) - 1])
        BY <1>6, <4>1
      <4> QED BY <4>1, <4>2
    <3>3. \A b \in u[k] : Opens(t[k], X, b)
      BY <2>2
    <3>4. \A a \in u[k + 1] : Opens(t[k + 1], X, a)
      BY <1>1, <1>2, <1>5, <3>1, <3>2, <3>3, EntryStep
    <3> QED BY <3>4
  <2> HIDE DEF D
  <2> QED BY <2>1, <2>2, Climb
<1>9. ASSUME NEW k \in 0..h PROVE t[k] \subseteq t[h]
  <2> DEFINE G == {j \in k..h : t[k] \subseteq t[j]}
  <2>1. k \in G
    OBVIOUS
  <2>2. ASSUME NEW j \in k..(h - 1), j \in G PROVE j + 1 \in G
    <3>1. j \in 0..(h - 1)
      OBVIOUS
    <3>2. t[j] \subseteq t[j + 1]
      BY <1>5, <3>1 DEF Lengthened
    <3> QED BY <2>2, <3>1, <3>2
  <2> HIDE DEF G
  <2>3. k..h \subseteq G
    BY <2>1, <2>2, Climb
  <2>4. h \in G
    BY <2>3
  <2> QED BY <2>4 DEF G
<1>10. Closed(edges, t[h], h) /\ Starts(t[h], X, u, n)
  BY <1>7
<1>11. ASSUME NEW a \in Upstream(target, X, n), a \in External
       PROVE  \E p \in t[h] : p[1][1] \in External /\ Nodes(p) \subseteq X /\ Len(p) <= n
  <2>1. PICK k \in 0..n : a \in u[k]
    BY <1>4
  <2>2. PICK p \in t[k] : p[1][1] = a /\ Nodes(p) \subseteq X
    BY <1>8, <2>1 DEF Opens
  <2>3. k \in 0..h /\ Closed(edges, t[k], k)
    BY <1>7
  <2>4. Len(p) \in 1..k
    BY <2>3 DEF Closed
  <2>5. Len(p) <= n /\ p \in t[h]
    BY <1>9, <2>3, <2>4
  <2> QED BY <1>11, <2>2, <2>5
<1>12. ASSUME NEW p \in t[h], p[1][1] \in External, Nodes(p) \subseteq X, Len(p) <= n
       PROVE  p[1][1] \in Upstream(target, X, n)
  <2>1. Len(p) \in 0..n
    BY <1>10, <1>12 DEF Closed
  <2>2. p[1][1] \in u[Len(p)]
    BY <1>10, <1>12 DEF Starts
  <2> QED BY <1>4, <2>1, <2>2
<1>13. /\ Closed(edges, t[h], h)
       /\ Upstream(target, X, n) \cap External # {} <=>
            \E p \in t[h] : p[1][1] \in External /\ Nodes(p) \subseteq X /\ Len(p) <= n
  BY <1>10, <1>11, <1>12
<1> QED BY <1>1, <1>3, <1>13

LEMMA SubsetOfSize ==
  ASSUME NEW S, IsFiniteSet(S), NEW m \in 0..Cardinality(S)
  PROVE  \E t \in SUBSET S : Cardinality(t) = m
<1>1. PICK n \in Nat : n = Cardinality(S)
  BY FS_CardinalityType
<1>2. PICK f \in Bijection(1..n, S) : TRUE
  BY <1>1, FS_CardinalityType DEF ExistsBijection
<1>3. m \in Nat /\ 1..m \subseteq 1..n
  BY <1>1
<1> DEFINE t == {f[i] : i \in 1..m}
           g == [i \in 1..m |-> f[i]]
<1>4. t \in SUBSET S
  BY <1>2, <1>3 DEF Bijection, Injection
<1>5. g \in Bijection(1..m, t)
  <2>1. \A i, j \in 1..m : f[i] = f[j] => i = j
    BY <1>2, <1>3 DEF Bijection, Injection, IsInjective
  <2> QED BY <2>1 DEF Bijection, Injection, Surjection, IsInjective
<1>6. IsFiniteSet(1..m) /\ Cardinality(1..m) = m
  BY <1>3, FS_Interval
<1> HIDE DEF t, g
<1>7. Cardinality(t) = m
  BY <1>5, <1>6, FS_Bijection DEF ExistsBijection
<1> QED BY <1>4, <1>7

\* LIMIT always leaves an answer: what holds of every answer holds of some.
LEMMA LimitLeavesSome ==
  ASSUME NEW paths, IsFiniteSet(paths), \A p \in paths : Len(p) \in 1..8
  PROVE  Answers(paths) # {}
<1>0. \A p \in paths : Len(p) \in Nat /\ ~(Len(p) <= 0) /\ Len(p) <= 8
  <2> SUFFICES ASSUME NEW p \in paths
               PROVE  Len(p) \in Nat /\ ~(Len(p) <= 0) /\ Len(p) <= 8
    OBVIOUS
  <2>1. \A l \in 1..8 : l \in Nat /\ ~(l <= 0) /\ l <= 8
    OBVIOUS
  <2> QED BY <2>1, Zenon
<1> DEFINE size      == IF Cardinality(paths) < PathLimit THEN Cardinality(paths) ELSE PathLimit
           within(m) == {p \in paths : Len(p) <= m}
           full      == {m \in 0..8 : Cardinality(within(m)) <= size}
           top       == CHOOSE m \in full : \A k \in full : k <= m
           next      == {p \in paths : Len(p) = top + 1}
           rest      == size - Cardinality(within(top))
<1>1. Cardinality(paths) \in Nat /\ size \in Nat /\ size <= Cardinality(paths)
  BY FS_CardinalityType, FindingsAssumption
<1>2. top \in 0..8 /\ Cardinality(within(top)) <= size /\ \A k \in full : k <= top
  <2>1. within(0) = {}
    BY <1>0
  <2>2. 0 \in full
    <3>1. Cardinality(within(0)) = 0
      BY <2>1, FS_EmptySet
    <3> HIDE DEF within, size
    <3> QED BY <1>1, <3>1
  <2>3. full \subseteq 0..8 /\ \A m \in full : Cardinality(within(m)) <= size
    OBVIOUS
  <2> HIDE DEF full
  <2>4. \E m \in full : \A k \in full : k <= m
    <3>1. PICK m \in full : \A k \in full : m >= k
      BY <2>2, <2>3, Greatest
    <3> QED BY <2>3, <3>1
  <2>5. top \in full /\ \A k \in full : k <= top
    BY <2>4, Zenon
  <2> HIDE DEF top
  <2> QED BY <2>3, <2>5
<1> HIDE DEF top
<1>3. PICK A : A = within(top)
  OBVIOUS
<1>4. PICK B : B = next
  OBVIOUS
<1>5. /\ A \in SUBSET paths /\ B \in SUBSET paths /\ A \cap B = {}
      /\ within(top + 1) = A \cup B
  BY <1>0, <1>2, <1>3, <1>4
<1>6. /\ IsFiniteSet(A) /\ IsFiniteSet(B)
      /\ Cardinality(A) \in Nat /\ Cardinality(B) \in Nat
      /\ Cardinality(A \cup B) = Cardinality(A) + Cardinality(B)
  <2>1. IsFiniteSet(A) /\ IsFiniteSet(B)
    BY <1>5, FS_Subset
  <2>2. Cardinality(A) \in Nat /\ Cardinality(B) \in Nat
    BY <2>1, FS_CardinalityType
  <2>3. Cardinality(A \cup B) = Cardinality(A) + Cardinality(B) - Cardinality(A \cap B)
    BY <2>1, FS_Union
  <2>4. Cardinality(A \cap B) = 0
    BY <1>5, FS_EmptySet
  <2> QED BY <2>1, <2>2, <2>3, <2>4
<1>7. rest \in 0..Cardinality(B)
  <2>1. CASE top = 8
    <3>1. within(top) = paths
      BY <1>0, <2>1
    <3> HIDE DEF size, within
    <3>2. Cardinality(within(top)) = Cardinality(paths)
      BY <3>1
    <3> QED BY <1>1, <1>2, <1>6, <3>2
  <2>2. CASE top # 8
    <3>1. top + 1 \in 0..8 /\ ~(top + 1 <= top)
      BY <1>2, <2>2
    <3>2. ~(top + 1 \in full)
      BY <1>2, <3>1
    <3>3. ~(Cardinality(A \cup B) <= size)
      BY <1>5, <3>1, <3>2
    <3> HIDE DEF size, within
    <3> QED BY <1>1, <1>2, <1>3, <1>6, <3>3
  <2> QED BY <2>1, <2>2
<1>8. PICK t \in SUBSET next : Cardinality(t) = rest
  <2>1. PICK r : r = rest
    OBVIOUS
  <2>2. r \in 0..Cardinality(B)
    <3> HIDE DEF rest
    <3> QED BY <1>7, <2>1
  <2>3. PICK t \in SUBSET B : Cardinality(t) = r
    BY <1>6, <2>2, SubsetOfSize
  <2> HIDE DEF next, rest
  <2> QED BY <1>4, <2>1, <2>3
<1>9. within(top) \cup t \in Answers(paths)
  BY <1>8, Zenon DEF Answers, top
<1> QED BY <1>9

\* LIMIT cuts off longer paths before shorter ones, so what it leaves of a search that
\* found anything has a path of the shortest length.
LEMMA LimitKeepsNearest ==
  ASSUME NEW paths, IsFiniteSet(paths), \A p \in paths : Len(p) \in 1..8,
         NEW answer \in Answers(paths), NEW n \in 1..8
  PROVE  (\E p \in paths : Len(p) <= n) <=> (\E p \in answer : Len(p) <= n)
<1> DEFINE size      == IF Cardinality(paths) < PathLimit THEN Cardinality(paths) ELSE PathLimit
           within(m) == {p \in paths : Len(p) <= m}
           full      == {m \in 0..8 : Cardinality(within(m)) <= size}
           top       == CHOOSE m \in full : \A k \in full : k <= m
           next      == {p \in paths : Len(p) = top + 1}
<1>1. PICK s \in SUBSET next : /\ Cardinality(s) = size - Cardinality(within(top))
                               /\ answer = within(top) \cup s
  BY Zenon DEF Answers
<1>2. Cardinality(paths) \in Nat /\ size \in Nat
  BY FS_CardinalityType, FindingsAssumption
<1>3. top \in 0..8
  <2>1. within(0) = {}
    OBVIOUS
  <2>2. 0 \in full
    <3>1. Cardinality(within(0)) = 0
      BY <2>1, FS_EmptySet
    <3> HIDE DEF within, size
    <3> QED BY <1>2, <3>1
  <2>3. full \subseteq 0..8
    OBVIOUS
  <2> HIDE DEF full
  <2>4. \E m \in full : \A k \in full : k <= m
    <3>1. PICK m \in full : \A k \in full : m >= k
      BY <2>2, <2>3, Greatest
    <3> QED BY <2>3, <3>1
  <2>5. top \in full
    BY <2>4, Zenon
  <2> QED BY <2>3, <2>5
<1>4. within(top) \subseteq paths /\ next \subseteq paths
  OBVIOUS
<1> HIDE DEF top
<1>5. ASSUME NEW p \in answer, Len(p) <= n PROVE \E q \in paths : Len(q) <= n
  BY <1>1, <1>4, <1>5
<1>6. ASSUME NEW p \in paths, Len(p) <= n PROVE \E q \in answer : Len(q) <= n
  <2>1. CASE Len(p) <= top
    BY <1>1, <1>6, <2>1
  <2>2. CASE ~(Len(p) <= top)
    <3>1. top + 1 <= n
      BY <1>3, <1>6, <2>2
    <3>2. CASE within(top) # {}
      <4>1. PICK q \in paths : q \in within(top) /\ Len(q) <= top
        BY <3>2
      <4>2. Len(q) <= n /\ q \in answer
        BY <1>1, <1>3, <3>1, <4>1
      <4> QED BY <4>2
    <3>3. CASE within(top) = {}
      <4>1. Cardinality(within(top)) = 0
        BY <3>3, FS_EmptySet
      <4>2. Cardinality(paths) # 0 /\ PathLimit # 0
        BY FS_EmptySet, FindingsAssumption
      <4>3. Cardinality(s) # 0
        BY <1>1, <1>2, <4>1, <4>2
      <4>4. s # {}
        BY <4>3, FS_EmptySet
      <4>5. PICK q \in s : q \in answer /\ Len(q) = top + 1
        BY <1>1, <4>4
      <4> QED BY <3>1, <4>5
    <3> QED BY <3>2, <3>3
  <2> QED BY <2>1, <2>2
<1> QED BY <1>5, <1>6

LEMMA AnswerIsNearest ==
  ASSUME scope \in Scopes, NEW X, NEW target, NEW maxHops \in scope.hops,
         NEW answer \in Answers(Matches(scope.edges, X, target, maxHops)),
         NEW n \in 1..HopBound(maxHops)
  PROVE  Upstream(target, X, n) \cap External # {} <=> \E p \in answer : Len(p) <= n
<1>1. PICK h \in 1..8 : h = HopBound(maxHops)
  <2>1. maxHops \in Int
    BY ScopeFacts
  <2> QED BY <2>1 DEF HopBound
<1>2. PICK trails : trails = Trails(scope.edges, target, h)
  OBVIOUS
<1>3. h \in Nat /\ n \in 1..h /\ n \in 1..8
  BY <1>1
<1>4. /\ Closed(scope.edges, trails, h)
      /\ Upstream(target, X, n) \cap External # {} <=>
           \E p \in trails : p[1][1] \in External /\ Nodes(p) \subseteq X /\ Len(p) <= n
  <2>1. /\ Closed(scope.edges, Trails(scope.edges, target, h), h)
        /\ Upstream(target, X, n) \cap External # {} <=>
             \E p \in Trails(scope.edges, target, h) :
               p[1][1] \in External /\ Nodes(p) \subseteq X /\ Len(p) <= n
    BY <1>3, SearchIsExact, Zenon
  <2> QED BY <1>2, <2>1, Zenon
<1> DEFINE paths == {p \in trails : p[1][1] \in External /\ Nodes(p) \subseteq X}
<1>5. answer \in Answers(paths)
  BY <1>1, <1>2 DEF Matches
<1>6. IsFiniteSet(paths)
  <2>1. paths \in SUBSET trails /\ IsFiniteSet(trails)
    BY <1>4 DEF Closed
  <2> QED BY <2>1, FS_Subset
<1>7. ASSUME NEW p \in paths PROVE Len(p) \in 1..8
  <2>1. p \in trails
    OBVIOUS
  <2>2. Len(p) \in 1..h
    BY <1>4, <2>1 DEF Closed
  <2>3. \A l \in 1..h : l \in 1..8
    BY <1>1
  <2> QED BY <2>2, <2>3, Zenon
<1>8. Upstream(target, X, n) \cap External # {} <=> \E p \in paths : Len(p) <= n
  BY <1>4
<1> HIDE DEF paths
<1>9. (\E p \in paths : Len(p) <= n) <=> (\E p \in answer : Len(p) <= n)
  BY <1>3, <1>5, <1>6, <1>7, LimitKeepsNearest, Zenon
<1> QED BY <1>8, <1>9, Zenon

LEMMA TypedFinds == Typed => NearestEntryFound
<1> SUFFICES ASSUME Typed, NEW target \in Assets, NEW minRisk \in scope.minRisks,
                    NEW maxHops \in scope.hops
             PROVE  LET near(n) == Upstream(target, Exploitable(minRisk), n) \cap External # {}
                        bound   == IF maxHops \in 1..8 THEN maxHops
                                   ELSE IF maxHops > 8 THEN 8 ELSE 4
                    IN  \A answer \in FindAttackPaths(target, minRisk, maxHops) :
                          \A n \in 1..bound : near(n) <=> \E p \in answer : Len(p) <= n
  BY Zenon DEF NearestEntryFound
<1>1. scope \in Scopes /\ maxHops \in Int
  BY ScopeFacts DEF Typed, TypeOK
<1>2. HopBound(maxHops) = IF maxHops \in 1..8 THEN maxHops ELSE IF maxHops > 8 THEN 8 ELSE 4
  BY <1>1 DEF HopBound
<1>3. PICK X : X = Exploitable(minRisk)
  OBVIOUS
<1>4. FindAttackPaths(target, minRisk, maxHops) =
        Answers(Matches(scope.edges, X, target, maxHops))
  BY <1>3 DEF FindAttackPaths
<1>5. ASSUME NEW answer \in FindAttackPaths(target, minRisk, maxHops),
             NEW n \in 1..HopBound(maxHops)
      PROVE  Upstream(target, Exploitable(minRisk), n) \cap External # {}
               <=> \E p \in answer : Len(p) <= n
  <2>1. answer \in Answers(Matches(scope.edges, X, target, maxHops))
    BY <1>4
  <2>2. Upstream(target, X, n) \cap External # {} <=> \E p \in answer : Len(p) <= n
    BY <1>1, <2>1, AnswerIsNearest, Zenon
  <2> QED BY <1>3, <2>2
<1> QED BY <1>2, <1>5, Zenon

\* For any topology, any exploitable assets and any limit: the answer to a search for
\* attack paths is empty only if there is none within the hops, and holds a nearest one.
THEOREM NearestEntryNeverLost == Spec => []NearestEntryFound
<1> QED BY TypedInvariant, TypedFinds, PTL
\* ORDER BY and LIMIT leave some answer, so the theorem above is about one at least.
SomeAnswer == \A target \in Assets, minRisk \in scope.minRisks, maxHops \in scope.hops :
                FindAttackPaths(target, minRisk, maxHops) # {}

LEMMA MatchesLeaveSome ==
  ASSUME scope \in Scopes, NEW X, NEW target, NEW maxHops \in scope.hops
  PROVE  Answers(Matches(scope.edges, X, target, maxHops)) # {}
<1>1. PICK h \in 1..8 : h = HopBound(maxHops)
  <2>1. maxHops \in Int
    BY ScopeFacts
  <2> QED BY <2>1 DEF HopBound
<1>2. PICK trails : trails = Trails(scope.edges, target, h)
  OBVIOUS
<1>3. Closed(scope.edges, trails, h)
  <2>1. h \in Nat /\ 1 \in 1..h
    BY <1>1
  <2>2. Closed(scope.edges, Trails(scope.edges, target, h), h)
    BY <2>1, SearchIsExact, Zenon
  <2> QED BY <1>2, <2>2, Zenon
<1> DEFINE paths == {p \in trails : p[1][1] \in External /\ Nodes(p) \subseteq X}
<1>4. IsFiniteSet(paths)
  <2>1. paths \in SUBSET trails /\ IsFiniteSet(trails)
    BY <1>3 DEF Closed
  <2> QED BY <2>1, FS_Subset
<1>5. ASSUME NEW p \in paths PROVE Len(p) \in 1..8
  <2>1. Len(p) \in 1..h
    BY <1>3 DEF Closed
  <2>2. \A l \in 1..h : l \in 1..8
    BY <1>1
  <2> QED BY <2>1, <2>2, Zenon
<1>6. Matches(scope.edges, X, target, maxHops) = paths
  BY <1>1, <1>2 DEF Matches
<1> HIDE DEF paths
<1>7. Answers(paths) # {}
  BY <1>4, <1>5, LimitLeavesSome, Zenon
<1> QED BY <1>6, <1>7, Zenon

\* FindAttackPaths has an answer, the empty one included, to every question in every
\* state: what NearestEntryNeverLost says of every answer is said of at least one.
THEOREM SearchAlwaysAnswers == Spec => []SomeAnswer
<1>1. Typed => SomeAnswer
  <2> SUFFICES ASSUME Typed, NEW target \in Assets, NEW minRisk \in scope.minRisks,
                      NEW maxHops \in scope.hops
               PROVE  FindAttackPaths(target, minRisk, maxHops) # {}
    BY Zenon DEF SomeAnswer
  <2>1. scope \in Scopes
    BY DEF Typed, TypeOK
  <2>2. Answers(Matches(scope.edges, Exploitable(minRisk), target, maxHops)) # {}
    BY <2>1, MatchesLeaveSome, Zenon
  <2> QED BY <2>2, Zenon DEF FindAttackPaths
<1> QED BY <1>1, TypedInvariant, PTL
=============================================================================
