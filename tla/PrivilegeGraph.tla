--------------------------- MODULE PrivilegeGraph ---------------------------
(***************************************************************************)
(* The privilege layer of the attack graph in Neo4j: accounts, CAN_ESCALATE *)
(* and CREDENTIAL_REUSE edges with their weights.                          *)
(*                                                                         *)
(* Scans derive both kinds of edges from their findings; a leaked          *)
(* credential takes two transactions, one that records where it was found  *)
(* and one that links all hosts that share it.  Clients add accounts and   *)
(* edges by hand.  All of them run concurrently; any transaction can be    *)
(* lost (error, not applied) or unknown (error, applied).                  *)
(***************************************************************************)
EXTENDS Integers, FiniteSets

CONSTANTS
  Hosts,       \* assets
  NoHost,      \* the host of a scan that has not begun
  Creds,       \* credential fingerprints
  NoCred,      \* the credential of a scan that has found none
  Risks,       \* risk scores of findings, in hundredths
  Weights,     \* weights that clients send, in hundredths
  Scans,       \* scan jobs that reach Process
  Calls,       \* requests for an account or an edge
  MaxFindings, \* bound: findings of one scan
  MaxFailures  \* bound: calls that fail, deadlines and deaths

ASSUME PrivilegeAssumption ==
  /\ NoHost \notin Hosts /\ NoCred \notin Creds
  /\ Risks \subseteq 0..1000
  /\ Weights \subseteq Int
  /\ {"foothold", "root"} \cap Calls = {}
  /\ {MaxFindings, MaxFailures} \subseteq Nat

VARIABLES
  nodes,    \* Asset nodes
  accounts, \* Account nodes, each with the HAS_ACCOUNT edge of its asset
  exposed,  \* credentials by host: CAN_READ from its root, VALID_ON its foothold
  escalate, \* weights of CAN_ESCALATE edges, 0 where there is none
  reuse,    \* weights of CREDENTIAL_REUSE edges, 0 where there is none
  scan,     \* Processor.Process of each scan
  call,     \* createAccount, addEscalation or addCredentialReuse of each request
  failures, \* failures so far
  hist      \* history: weights derived for a host, credentials inferred for a host
            \* without a failed call, edges that clients set

graph == <<nodes, accounts, exposed, escalate, reuse>>
vars  == <<graph, scan, call, failures, hist>>

\* AutoAccountID makes the first two deterministic; an account created by a request has
\* a UUID, here the request.
Foothold(h) == <<"foothold", h>>
Root(h)     == <<"root", h>>
Accounts    == ({"foothold", "root"} \cup Calls) \X Hosts
HostOf(a)   == a[2]
Pairs       == Accounts \X Accounts

ScanStates == [pc : {"queued", "run", "infer", "dead"}, host : Hosts \cup {NoHost},
               made : 0..MaxFindings, risk : 0..1000, fp : Creds \cup {NoCred},
               expired : BOOLEAN, flawed : BOOLEAN]

CallStates == [pc : {"idle", "account", "created", "refused"},
               kind : {"none", "account", "escalation", "reuse"},
               host : Hosts \cup {NoHost}, edge : Pairs \cup {<<>>}]

Init ==
  /\ nodes = {} /\ accounts = {} /\ exposed = {}
  /\ escalate = [p \in Pairs |-> 0] /\ reuse = [p \in Pairs |-> 0]
  /\ scan = [s \in Scans |-> [pc |-> "queued", host |-> NoHost, made |-> 0, risk |-> 0,
                               fp |-> NoCred, expired |-> FALSE, flawed |-> FALSE]]
  /\ call = [c \in Calls |-> [pc |-> "idle", kind |-> "none", host |-> NoHost, edge |-> <<>>]]
  /\ failures = 0
  /\ hist = [derived |-> {}, inferred |-> {}, edited |-> {}]

-----------------------------------------------------------------------------
(* Calls.                                                                  *)

Results(alive) ==
  IF ~alive THEN {"lost"}
  ELSE {"ok"} \cup (IF failures < MaxFailures THEN {"lost", "unknown"} ELSE {})

Applied(r)      == r # "lost"
Count(r, alive) == failures' = IF alive /\ r # "ok" THEN failures + 1 ELSE failures

-----------------------------------------------------------------------------
(* Weights and statements of internal/graph.                               *)

Clamp(w, low, high)     == IF w < low THEN low ELSE IF w > high THEN high ELSE w
AutoEscalationWeight(r) == Clamp(1000 - r, 30, 900)
AutoReuseWeight(r)      == Clamp(1100 - r, 100, 900)

\* MATCH of the asset, MERGE of its two accounts.
WithAutoAccounts(h) == accounts \cup {Foothold(h), Root(h)}

\* Mutant: a re-scan sets the weight of what it found last.
Latest(old, w)   == w
Cheapest(old, w) == IF old = 0 \/ w < old THEN w ELSE old

AutoDeriveEscalation(h, risk, r) ==
  LET p == <<Foothold(h), Root(h)>> IN
  IF Applied(r) /\ h \in nodes
  THEN /\ accounts' = WithAutoAccounts(h)
       /\ escalate' = [escalate EXCEPT ![p] = Cheapest(@, AutoEscalationWeight(risk))]
       /\ hist' = [hist EXCEPT !.derived = @ \cup {<<h, AutoEscalationWeight(risk)>>}]
  ELSE UNCHANGED <<accounts, escalate, hist>>

\* The first transaction of AutoDeriveCredentialReuse: provenance.
RecordExposure(h, fp, r) ==
  IF Applied(r) /\ h \in nodes
  THEN accounts' = WithAutoAccounts(h) /\ exposed' = exposed \cup {<<h, fp>>}
  ELSE UNCHANGED <<accounts, exposed>>

Exposing(fp) == {h \in Hosts : <<h, fp>> \in exposed}

\* Mutant: only from the host scanned.
FromHere(h, fp) == {<<Root(h), Foothold(y)>> : y \in Exposing(fp) \ {h}}
\* Mutant: the condition rx.asset_id <> fy.asset_id is missing.
AllPairs(h, fp) == {<<Root(x), Foothold(y)>> : x \in Exposing(fp), y \in Exposing(fp)}
Shared(h, fp)   == {p \in AllPairs(h, fp) : HostOf(p[1]) # HostOf(p[2])}

\* The second: the weight is set only on an edge that is created.
InferReuse(h, fp, risk, r) ==
  LET shared == Shared(h, fp) IN
  reuse' = IF Applied(r)
           THEN [p \in Pairs |-> IF p \in shared /\ reuse[p] = 0 THEN AutoReuseWeight(risk)
                                 ELSE reuse[p]]
           ELSE reuse

\* Mutant: MERGE instead of MATCH.
Merged(p)    == TRUE
BothExist(p) == p[1] \in accounts /\ p[2] \in accounts

-----------------------------------------------------------------------------
(* The calls of Process about the privilege layer.                         *)

ProjectAsset(s) ==
  /\ scan[s].pc = "queued"
  /\ \E h \in Hosts, r \in Results(TRUE) :
       /\ nodes' = IF Applied(r) THEN nodes \cup {h} ELSE nodes
       /\ Count(r, TRUE)
       /\ scan' = [scan EXCEPT ![s].pc = "run", ![s].host = h, ![s].flawed = r # "ok"]
  /\ UNCHANGED <<accounts, exposed, escalate, reuse, call, hist>>

\* A finding with a CWE of privEscCWEs; errors are logged.
PrivEscFinding(s) ==
  /\ scan[s].pc = "run" /\ scan[s].made < MaxFindings
  /\ \E risk \in Risks, r \in Results(~scan[s].expired) :
       /\ AutoDeriveEscalation(scan[s].host, risk, r)
       /\ Count(r, ~scan[s].expired)
       /\ scan' = [scan EXCEPT ![s].made = @ + 1, ![s].flawed = @ \/ r # "ok"]
  /\ UNCHANGED <<nodes, exposed, reuse, call>>

\* A finding with a CWE of credentialLeakCWEs: without the first transaction, no second.
LeakFinding(s) ==
  /\ scan[s].pc = "run" /\ scan[s].made < MaxFindings
  /\ \E risk \in Risks, fp \in Creds, r \in Results(~scan[s].expired) :
       /\ RecordExposure(scan[s].host, fp, r)
       /\ Count(r, ~scan[s].expired)
       /\ scan' = IF r = "ok"
                  THEN [scan EXCEPT ![s].made = @ + 1, ![s].pc = "infer",
                                    ![s].risk = risk, ![s].fp = fp]
                  ELSE [scan EXCEPT ![s].made = @ + 1, ![s].flawed = TRUE]
  /\ UNCHANGED <<nodes, escalate, reuse, call, hist>>

LinkHosts(s) ==
  /\ scan[s].pc = "infer"
  /\ \E r \in Results(~scan[s].expired) :
       /\ InferReuse(scan[s].host, scan[s].fp, scan[s].risk, r)
       /\ Count(r, ~scan[s].expired)
       /\ scan' = [scan EXCEPT ![s].pc = "run", ![s].risk = 0, ![s].flawed = @ \/ r # "ok"]
       /\ hist' = IF r = "ok" /\ ~scan[s].flawed
                  THEN [hist EXCEPT !.inferred = @ \cup {<<scan[s].host, scan[s].fp>>}] ELSE hist
  /\ UNCHANGED <<nodes, accounts, exposed, escalate, call>>

\* The deadline of scanCtx, or the death of the worker.
Fail(s) ==
  /\ scan[s].pc \in {"run", "infer"} /\ failures < MaxFailures
  /\ failures' = failures + 1
  /\ \/ scan' = [scan EXCEPT ![s].expired = TRUE]
     \/ scan' = [scan EXCEPT ![s].pc = "dead"]
  /\ UNCHANGED <<graph, call, hist>>

-----------------------------------------------------------------------------
(* Path search.  Dijkstra is a procedure of APOC (external): the least sum *)
(* of weights over all chains of edges.                                    *)

\* Mutant: the pattern has CAN_ESCALATE only.
OneHost(p)     == {escalate[p]} \ {0}
EdgeWeights(p) == {escalate[p], reuse[p]} \ {0}

\* The costs that one more edge adds to those of some chains: <<last account, cost>>.
Onward(edges, costs) ==
  costs \cup UNION {{<<p[2], c[2] + w>> : c \in {d \in costs : d[1] = p[1]},
                                        w \in EdgeWeights(p)} : p \in edges}

\* The total costs of the chains from an account.
Chains(from) ==
  LET edges == {p \in Pairs : EdgeWeights(p) # {}}
      chains[n \in 0..Cardinality(accounts)] ==
        IF n = 0 THEN ({from} \cap accounts) \X {0} ELSE Onward(edges, chains[n - 1])
  IN  chains[Cardinality(accounts)]

FindPrivEscPath(from, to) ==
  LET costs == {c[2] : c \in {d \in Chains(from) : d[1] = to}}
  IN  IF costs = {} THEN [found |-> FALSE]
      ELSE [found |-> TRUE, cost |-> CHOOSE c \in costs : \A d \in costs : c <= d]

-----------------------------------------------------------------------------
(* Requests.                                                               *)

\* Mutant: the asset is not projected before the account is linked to it.
NotProjected(h) == nodes
Projected(h)    == nodes \cup {h}

\* createAccount: the asset is in PostgreSQL; any error ends the request.
CreateAccount(c) ==
  /\ call[c].pc = "idle"
  /\ \E h \in Hosts, r \in Results(TRUE) :
       /\ nodes' = IF Applied(r) THEN Projected(h) ELSE nodes
       /\ Count(r, TRUE)
       /\ call' = [call EXCEPT ![c].pc = IF r = "ok" THEN "account" ELSE "refused",
                               ![c].kind = "account", ![c].host = h]
  /\ UNCHANGED <<accounts, exposed, escalate, reuse, scan, hist>>

SyncAccount(c) ==
  /\ call[c].pc = "account"
  /\ \E r \in Results(TRUE) :
       /\ accounts' = IF Applied(r) /\ call[c].host \in nodes
                      THEN accounts \cup {<<c, call[c].host>>} ELSE accounts
       /\ Count(r, TRUE)
       /\ call' = [call EXCEPT ![c].pc = IF r = "ok" THEN "created" ELSE "refused"]
  /\ UNCHANGED <<nodes, exposed, escalate, reuse, scan, hist>>

\* A weight that is not positive is replaced by the default.
Positive(w, default) == IF w <= 0 THEN default ELSE w

Answer(c, kind, p, r) ==
  call' = IF r = "ok" /\ BothExist(p)
          THEN [call EXCEPT ![c].pc = "created", ![c].kind = kind, ![c].edge = p]
          ELSE [call EXCEPT ![c].pc = "refused"]

SetEdge(p, w, r, weights) ==
  IF Applied(r) /\ BothExist(p) THEN [weights EXCEPT ![p] = w] ELSE weights

Edit(kind, p, r) ==
  hist' = IF Applied(r) /\ BothExist(p)
          THEN [hist EXCEPT !.edited = @ \cup {<<kind, p>>}] ELSE hist

\* 404 when the statement returned no row.
AddEscalation(c) ==
  /\ call[c].pc = "idle"
  /\ \E p \in Pairs, w \in Weights, r \in Results(TRUE) :
       /\ escalate' = SetEdge(p, Positive(w, 100), r, escalate)
       /\ Edit("escalation", p, r)
       /\ Count(r, TRUE)
       /\ Answer(c, "escalation", p, r)
  /\ UNCHANGED <<nodes, accounts, exposed, reuse, scan>>

AddCredentialReuse(c) ==
  /\ call[c].pc = "idle"
  /\ \E p \in Pairs, w \in Weights, r \in Results(TRUE) :
       /\ reuse' = SetEdge(p, Positive(w, 300), r, reuse)
       /\ Edit("reuse", p, r)
       /\ Count(r, TRUE)
       /\ Answer(c, "reuse", p, r)
  /\ UNCHANGED <<nodes, accounts, exposed, escalate, scan>>

-----------------------------------------------------------------------------

Process(s) == \/ ProjectAsset(s) \/ PrivEscFinding(s) \/ LeakFinding(s) \/ LinkHosts(s)
              \/ Fail(s)
Request(c) == CreateAccount(c) \/ SyncAccount(c) \/ AddEscalation(c) \/ AddCredentialReuse(c)

\* Everything the instance allows has been done.
Idle ==
  /\ \A s \in Scans : \/ scan[s].pc = "run" /\ scan[s].made = MaxFindings
                      \/ scan[s].pc = "dead"
  /\ \A c \in Calls : call[c].pc \in {"created", "refused"}
  /\ UNCHANGED vars

Next ==
  \/ \E s \in Scans : Process(s)
  \/ \E c \in Calls : Request(c)
  \/ Idle

Spec == Init /\ [][Next]_vars

-----------------------------------------------------------------------------
(* Properties.                                                             *)

\* Types, and the shape of the graph: an edge joins two accounts, an account hangs on an
\* asset, and both accounts of an exposed host exist, because the statements MATCH
\* what they link.
TypeOK ==
  /\ nodes \subseteq Hosts
  /\ accounts \subseteq Accounts /\ \A a \in accounts : HostOf(a) \in nodes
  /\ exposed \subseteq Hosts \X Creds
  /\ \A e \in exposed : {Foothold(e[1]), Root(e[1])} \subseteq accounts
  /\ escalate \in [Pairs -> Nat]
  /\ \A p \in Pairs : escalate[p] > 0 => {p[1], p[2]} \subseteq accounts
  /\ reuse \in [Pairs -> Nat]
  /\ \A p \in Pairs : reuse[p] > 0 => {p[1], p[2]} \subseteq accounts
  /\ scan \in [Scans -> ScanStates]
  /\ call \in [Calls -> CallStates]
  /\ failures \in 0..MaxFailures

\* Comment of AutoDeriveEscalation: "the edge keeps the cheapest (lowest-weight)
\* enabling vuln across re-scans", in whatever order concurrent scans of a host find
\* them; until a client sets the weight by hand.
EscalationCheapest ==
  \A d \in hist.derived :
    LET p == <<Foothold(d[1]), Root(d[1])>> IN
    <<"escalation", p>> \notin hist.edited =>
      /\ escalate[p] \in {e[2] : e \in {f \in hist.derived : f[1] = d[1]}}
      /\ escalate[p] <= d[2]

\* Comment of AutoDeriveCredentialReuse: edges "between every pair of hosts that expose
\* the SAME credential fingerprint".  Two hosts whose scans inferred reuse of one
\* credential are linked both ways, however the two transactions of each interleaved,
\* unless a call of one of the scans had failed.
ReuseComplete ==
  \A d, e \in hist.inferred :
    d[2] = e[2] /\ d[1] # e[1] => reuse[<<Root(d[1]), Foothold(e[1])>>] > 0

\* An edge that no client set leads from the root of one host to the foothold of
\* another, and both expose one credential.
ReuseJustified ==
  \A p \in Pairs : reuse[p] > 0 /\ <<"reuse", p>> \notin hist.edited =>
    /\ HostOf(p[1]) # HostOf(p[2])
    /\ \E c \in Creds : {HostOf(p[1]), HostOf(p[2])} \subseteq Exposing(c)

\* Edges that several scans derived, each by rules of its own, join to paths: from the
\* foothold of one host to the root of another that is known to share a credential with
\* it, at most as dear as any weights derived for the two and the dearest reuse; and,
\* without edges of clients, to or from no host that leaked none.
LateralPathFound ==
  \A h, k \in {d[1] : d \in hist.derived} :
    h # k /\ hist.edited = {} =>
      LET path == FindPrivEscPath(Foothold(h), Root(k)) IN
      /\ path.found => {h, k} \subseteq {e[1] : e \in exposed}
      /\ \A c \in Creds : {<<h, c>>, <<k, c>>} \subseteq hist.inferred =>
           /\ path.found
           /\ \A v, w \in {d[2] : d \in hist.derived} :
                {<<h, v>>, <<k, w>>} \subseteq hist.derived => path.cost <= v + w + 900

\* What a request was told was created is in the graph, even when the asset was never
\* scanned and whatever scans do meanwhile.
CreatedIsThere ==
  \A c \in Calls : call[c].pc = "created" =>
    CASE call[c].kind = "account"    -> <<c, call[c].host>> \in accounts
      [] call[c].kind = "escalation" -> escalate[call[c].edge] > 0
      [] call[c].kind = "reuse"      -> reuse[call[c].edge] > 0
=============================================================================
