------------------------------ MODULE Findings ------------------------------
(***************************************************************************)
(* The findings table and the requests that read and change it: scans      *)
(* insert findings, analysts set their status, clients walk the pages of   *)
(* GET /findings, and the graph answers attack paths over what was found.  *)
(*                                                                         *)
(* All of it runs concurrently; each statement is atomic, and nothing ties *)
(* the pages of one walk together.                                         *)
(***************************************************************************)
EXTENDS Scoring, AttackPaths

CONSTANTS
  Criticality,   \* asset -> its criticality
  Everything,    \* no asset_id filter
  DefaultLimit,  \* defaultPageLimit: 200
  MaxLimit,      \* maxPageLimit: 1000
  Scopes         \* bound: what is explored together, see MCFindings

Assets   == DOMAIN Criticality
Statuses == {"open", "validated", "false_positive", "remediated"}

ASSUME FindingsAssumption ==
  /\ {DefaultLimit, MaxLimit, PathLimit} \subseteq Nat \ {0}
  /\ \A s \in Scopes :
       /\ s.assets \subseteq Assets /\ s.items \subseteq Items /\ s.statuses \subseteq Statuses
       /\ s.edges \subseteq Assets \X Assets /\ IsFiniteSet(s.edges)
       /\ s.rows \in Nat /\ s.times \subseteq Nat
       /\ s.limits \subseteq Nat /\ s.instants \subseteq Nat
       /\ s.minRisks \subseteq Int /\ s.hops \subseteq Int

VARIABLES
  scope,  \* what this behaviour explores (bound)
  rows,   \* the findings table; nth is created_at, to the microsecond: it may be shared
  now,    \* the time, in hours
  pager   \* a client that walks the pages: [pc, asset, limit, offset, seen, base]

vars == <<scope, rows, now, pager>>

Init ==
  /\ scope \in Scopes
  /\ rows = {}
  /\ now = 0
  /\ pager = [pc |-> "idle", asset |-> Everything, limit |-> 0, offset |-> 0,
              seen |-> {}, base |-> {}]

-----------------------------------------------------------------------------
(* Writers.                                                                *)

\* created_at is taken before the INSERT, by any of the workers: a row may be committed
\* after a later one, and at the same microsecond as another.
CreateFinding(a, d, i, n) ==
  /\ \A f \in rows : f.id # i
  /\ LET e == Enrich(d, Criticality[a])
     IN  rows' = rows \cup {[id |-> i, nth |-> n, asset |-> a, created |-> now,
                             sev |-> e.sev, cvss |-> e.cvss, cves |-> e.cves,
                             status |-> e.status, risk |-> e.risk]}
  /\ UNCHANGED <<scope, now, pager>>

UpdateFindingStatus(f, s) ==
  /\ rows' = (rows \ {f}) \cup {[f EXCEPT !.status = s]}
  /\ UNCHANGED <<scope, now, pager>>

-----------------------------------------------------------------------------
(* Pages.                                                                  *)

\* ORDER BY risk_score DESC, created_at DESC: rows that share both are in no order.
\* Mutant: findings that are settled come last.
SettledLast(f, g) ==
  LET done(x) == IF x.status = "remediated" THEN 1 ELSE 0
  IN  \/ done(f) < done(g)
      \/ done(f) = done(g) /\ (f.risk > g.risk \/ (f.risk = g.risk /\ f.nth > g.nth))
Before(f, g) == f.risk > g.risk \/ (f.risk = g.risk /\ f.nth > g.nth)

\* pageParams; 0 stands for a limit that is absent or not a positive number.
PageLimit(n) ==
  IF n = 0 THEN DefaultLimit ELSE IF n > MaxLimit THEN MaxLimit ELSE n

Found(asset) == {f \in rows : asset \in {Everything, f.asset}}

\* T may be the first n rows of the listing, or all if there are fewer.
Heads(asset, T, n) ==
  /\ \A f \in T, g \in Found(asset) : Before(g, f) => g \in T
  /\ Cardinality(T) = n \/ (Cardinality(T) < n /\ T = Found(asset))

\* What LIMIT and OFFSET may cut out: each query sorts the rows that tie as it likes.
\* Sets, because the order within a page does not matter here.
Pages(asset, limit, offset) ==
  {page \in SUBSET Found(asset) :
     \E T \in SUBSET (Found(asset) \ page) :
       Heads(asset, T, offset) /\ Heads(asset, T \cup page, offset + limit)}

Begin(asset, limit) ==
  /\ pager.pc = "idle"
  /\ pager' = [pager EXCEPT !.pc = "walk", !.asset = asset, !.limit = limit,
                            !.base = {f.id : f \in Found(asset)}]
  /\ UNCHANGED <<scope, rows, now>>

\* The client (external) goes on by as many rows as it got, up to an empty page.
NextPage ==
  /\ pager.pc = "walk"
  /\ \E page \in Pages(pager.asset, PageLimit(pager.limit), pager.offset) :
       pager' = [pager EXCEPT !.pc = IF page = {} THEN "done" ELSE "walk",
                              !.offset = @ + Cardinality(page),
                              !.seen = @ \cup {f.id : f \in page}]
  /\ UNCHANGED <<scope, rows, now>>

-----------------------------------------------------------------------------

Tick ==
  /\ \E t \in scope.instants : t > now /\ now' = t
  /\ UNCHANGED <<scope, rows, pager>>

\* Bound: as many ids as the scope has rows, given out in turn.
NewIds == {i \in 1..scope.rows : i = Cardinality(rows) + 1}

Next ==
  \/ \E a \in scope.assets, item \in scope.items, i \in NewIds, n \in scope.times :
       \E d \in Parse(item) : CreateFinding(a, d, i, n)
  \/ \E f \in rows, s \in scope.statuses : UpdateFindingStatus(f, s)
  \/ \E a \in scope.assets \cup {Everything}, n \in scope.limits : Begin(a, n)
  \/ NextPage
  \/ Tick

Spec == Init /\ [][Next]_vars

-----------------------------------------------------------------------------
(* Attack paths, over the vulnerabilities of the findings.  Their status   *)
(* plays no part: a remediated finding stays in the graph.                 *)

Exploitable(minRisk) == {a \in Assets : \E f \in rows : f.asset = a /\ f.risk >= minRisk}

FindAttackPaths(target, minRisk, maxHops) ==
  Answers(Matches(scope.edges, Exploitable(minRisk), target, maxHops))

-----------------------------------------------------------------------------
(* Properties.                                                             *)

TypeOK ==
  /\ scope \in Scopes
  /\ now \in Nat
  /\ rows \subseteq [id : 1..scope.rows, nth : scope.times, asset : Assets, created : 0..now,
                     sev : Severities, cvss : 1..100, cves : SUBSET STRING,
                     status : Statuses, risk : 0..100]
  /\ \A f, g \in rows : f.id = g.id => f = g
  /\ pager \in [pc : {"idle", "walk", "done"}, asset : Assets \cup {Everything},
                limit : scope.limits \cup {0}, offset : Nat,
                seen : SUBSET (1..scope.rows), base : SUBSET (1..scope.rows)]

Tied(f, g) == f.risk = g.risk /\ f.nth = g.nth

\* A client that walks the pages to the end gets every finding that was there when it
\* began, or at least one that shares its risk and its time of creation, while scans
\* insert rows before and behind the page it is at and analysts change their status, with
\* any limit, above the cap too.  A row is lost to a tie only: the order of the listing
\* has no last word (store.go:201), and two of its pages may break a tie differently.
PagesMissOnlyTies ==
  pager.pc = "done" =>
    \A f \in rows : f.id \in pager.base => \E g \in rows : g.id \in pager.seen /\ Tied(f, g)

\* The exploitable assets with an edge to the target or to one of those given.
Entries(target, exploitable, assets) ==
  {a \in exploitable : \E b \in assets \cup ({target} \cap exploitable) : <<a, b>> \in scope.edges}

\* The assets from which exploitable assets lead to the target over 1..n edges.
Upstream(target, exploitable, n) ==
  LET up[k \in 0..n] == IF k = 0 THEN {} ELSE Entries(target, exploitable, up[k - 1])
  IN  UNION {up[k] : k \in 0..n}

\* However many paths LIMIT cuts off, the answer is empty only if no external asset
\* leads to the target within the hops asked for, and otherwise holds a path from the
\* nearest one: counting paths by edges, as Cypher does, loses none.
NearestEntryFound ==
  \A target \in Assets, minRisk \in scope.minRisks, maxHops \in scope.hops :
    LET near(n) == Upstream(target, Exploitable(minRisk), n) \cap External # {}
        bound   == IF maxHops \in 1..8 THEN maxHops ELSE IF maxHops > 8 THEN 8 ELSE 4
    IN  \A answer \in FindAttackPaths(target, minRisk, maxHops) :
          \A n \in 1..bound : near(n) <=> \E p \in answer : Len(p) <= n

Severer(f, g) ==
  /\ f.cvss >= g.cvss
  /\ KnownExploited(g.cves) => KnownExploited(f.cves)
  /\ LET rank(x) == CASE x = "low" -> 0 [] x = "high" -> 2 [] x = "critical" -> 3 [] OTHER -> 1
     IN  rank(Criticality[f.asset]) >= rank(Criticality[g.asset])

\* A finding that is at least as bad as another in CVSS, exploitation and asset never
\* has the lower score, so it is not listed behind it for its risk: weights, threat
\* factor, clamp and rounding keep the order, whichever scanners found the two.
SevererRanksFirst ==
  \A f, g \in rows : Severer(f, g) => f.risk >= g.risk

\* The breach flag and the days that the dashboard shows agree, to the hour, for every
\* severity, also when a settled finding is opened again after its deadline.
BreachAgreesWithDays ==
  \A f \in rows :
    LET days    == DaysRemaining(f.sev, f.created, now)
        overdue == Breached(f.status, f.sev, f.created, now)
    IN  /\ overdue => days <= 0 /\ f.status \in {"open", "validated"}
        /\ days < 0 /\ f.status \in {"open", "validated"} => overdue
=============================================================================
