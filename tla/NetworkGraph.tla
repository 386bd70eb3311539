---------------------------- MODULE NetworkGraph ----------------------------
(***************************************************************************)
(* The network layer of the attack graph in Neo4j: asset nodes, the        *)
(* vulnerabilities that hang on them, and CAN_REACH edges.                 *)
(*                                                                         *)
(* Scans project their asset and findings and derive the edges of a        *)
(* private /24; POST /graph/sync projects PostgreSQL again; topology       *)
(* import and POST /assets/{id}/reachability draw single edges.  All of    *)
(* them run concurrently, each Neo4j call is a transaction of its own, and *)
(* no transaction spans the two databases.  Any call can be lost (error,   *)
(* not applied) or unknown (error, applied), and Neo4j can lose its data.  *)
(***************************************************************************)
EXTENDS Naturals, FiniteSets

CONSTANTS
  Assets,      \* assets that clients create
  NoAsset,     \* a scan that has not begun has no asset
  Subnets,     \* the IP assets of each private /24
  Scans,       \* scan jobs that reach Process
  Syncs,       \* POST /graph/sync requests
  Calls,       \* requests for one CAN_REACH edge
  MaxRequests, \* bound: requests that are sent
  MaxFindings, \* bound: findings of one scan
  MaxFailures  \* bound: failed calls, deadlines, deaths, losses

ASSUME GraphAssumption ==
  /\ NoAsset \notin Assets
  /\ Subnets \subseteq SUBSET Assets
  /\ \A m, n \in Subnets : m # n => m \cap n = {}
  /\ {MaxRequests, MaxFindings, MaxFailures} \subseteq Nat

VARIABLES
  assets,   \* rows of the assets table
  findings, \* rows of the findings table: <<scan, number>>
  nodes,    \* Asset nodes
  vulns,    \* findings with a Vulnerability node on their asset
  reach,    \* CAN_REACH edges
  scan,     \* Processor.Process of each scan
  sync,     \* graphSync of each request
  call,     \* addReachability, or importTopology for one of its edges
  failures  \* failures so far

graph == <<nodes, vulns, reach>>
vars  == <<assets, findings, graph, scan, sync, call, failures>>

Edges   == Assets \X Assets
AssetOf(f) == scan[f[1]].asset

\* flawed: one of the scan's calls about the graph failed (history).
ScanStates == [pc : {"queued", "scan", "vuln", "draw", "done", "dead"},
               asset : Assets \cup {NoAsset}, made : 0..MaxFindings, todo : SUBSET Edges,
               expired : BOOLEAN, flawed : BOOLEAN]

\* base, baseFound: the rows committed when ListAssets ran (history).
SyncStates == [pc : {"idle", "assets", "list", "vulns", "ok", "failed"},
               todo : SUBSET Assets, cur : Assets \cup {NoAsset},
               left : SUBSET (Scans \X Nat),
               base : SUBSET Assets, baseFound : SUBSET (Scans \X Nat)]

CallStates == [kind : {"reachability", "topology"},
               pc : {"idle", "src", "dst", "edge", "created", "refused"},
               edge : Edges, flawed : BOOLEAN]

Init ==
  /\ assets = {} /\ findings = {}
  /\ nodes = {} /\ vulns = {} /\ reach = {}
  /\ scan = [s \in Scans |-> [pc |-> "queued", asset |-> NoAsset, made |-> 0, todo |-> {},
                             expired |-> FALSE, flawed |-> FALSE]]
  /\ sync = [q \in Syncs |-> [pc |-> "idle", todo |-> {}, cur |-> NoAsset, left |-> {},
                             base |-> {}, baseFound |-> {}]]
  /\ call \in [Calls -> [kind : {"reachability", "topology"}, pc : {"idle"},
                         edge : Edges, flawed : {FALSE}]]
  /\ failures = 0

-----------------------------------------------------------------------------
(* Calls, and the statements of internal/graph.                            *)

Results(alive) ==
  IF ~alive THEN {"lost"}
  ELSE {"ok"} \cup (IF failures < MaxFailures THEN {"lost", "unknown"} ELSE {})

Applied(r)      == r # "lost"
Count(r, alive) == failures' = IF alive /\ r # "ok" THEN failures + 1 ELSE failures

\* MERGE of an asset node; MATCH ... MERGE of the others, which change nothing,
\* without an error, when the MATCH finds no asset.
SyncAsset(a, r) == nodes' = IF Applied(r) THEN nodes \cup {a} ELSE nodes

SyncFinding(f, r) ==
  vulns' = IF Applied(r) /\ AssetOf(f) \in nodes THEN vulns \cup {f} ELSE vulns

\* Mutant: MERGE instead of MATCH.
Merged(e)  == TRUE
Matched(e) == e[1] \in nodes /\ e[2] \in nodes
UpsertReachability(e, r) ==
  reach' = IF Applied(r) /\ Matched(e) THEN reach \cup {e} ELSE reach

-----------------------------------------------------------------------------
(* The API inserts an asset.                                               *)

CreateAsset(a) ==
  /\ a \notin assets
  /\ assets' = assets \cup {a}
  /\ UNCHANGED <<findings, graph, scan, sync, call, failures>>

-----------------------------------------------------------------------------
(* The graph calls of Process.                                             *)

\* The asset is projected before the first scanner runs; an error is only logged.
ProjectAsset(s) ==
  /\ scan[s].pc = "queued"
  /\ \E a \in assets, r \in Results(TRUE) :
       /\ SyncAsset(a, r)
       /\ Count(r, TRUE)
       /\ scan' = [scan EXCEPT ![s].pc = "scan", ![s].asset = a, ![s].flawed = r # "ok"]
  /\ UNCHANGED <<assets, findings, vulns, reach, sync, call>>

\* Mutant: the "continue" after a failed insertion is missing.
KeptAnyway(r) == TRUE
Kept(r)       == r = "ok"

StoreFinding(s) ==
  /\ scan[s].pc = "scan" /\ scan[s].made < MaxFindings
  /\ \E r \in Results(~scan[s].expired) :
       /\ findings' = IF Applied(r) THEN findings \cup {<<s, scan[s].made + 1>>} ELSE findings
       /\ Count(r, ~scan[s].expired)
       /\ scan' = [scan EXCEPT ![s].made = @ + 1,
                               ![s].pc = IF Kept(r) THEN "vuln" ELSE "scan"]
  /\ UNCHANGED <<assets, graph, sync, call>>

ProjectFinding(s) ==
  /\ scan[s].pc = "vuln"
  /\ \E r \in Results(~scan[s].expired) :
       /\ SyncFinding(<<s, scan[s].made>>, r)
       /\ Count(r, ~scan[s].expired)
       /\ scan' = [scan EXCEPT ![s].pc = "scan", ![s].flawed = @ \/ r # "ok"]
  /\ UNCHANGED <<assets, findings, nodes, reach, sync, call>>

Peers(a) == {p \in assets \ {a} : \E n \in Subnets : {a, p} \subseteq n}

\* Mutant: only the edges that leave the asset scanned.
OneWay(a, peers) == {<<a, p>> : p \in peers}
Drawn(a, peers)  == {<<a, p>> : p \in peers} \cup {<<p, a>> : p \in peers}

Draw(x, edges, failed) ==
  [x EXCEPT !.todo = edges, !.pc = IF edges = {} THEN "done" ELSE "draw",
            !.flawed = @ \/ failed]

\* deriveSubnetReachability, after the last scanner: the peers are those inserted by
\* now.  An asset that is not an IP is on no subnet.
ListPeers(s) ==
  /\ scan[s].pc = "scan"
  /\ \E r \in Results(~scan[s].expired) :
       /\ scan' = [scan EXCEPT ![s] =
                     IF r = "ok" THEN Draw(@, Drawn(@.asset, Peers(@.asset)), FALSE)
                     ELSE Draw(@, {}, TRUE)]
       /\ Count(r, ~scan[s].expired)
  /\ UNCHANGED <<assets, findings, graph, sync, call>>

\* Errors are dropped; the order of the edges does not matter.
DrawPeer(s) ==
  /\ scan[s].pc = "draw"
  /\ \E e \in scan[s].todo, r \in Results(~scan[s].expired) :
       /\ UpsertReachability(e, r)
       /\ Count(r, ~scan[s].expired)
       /\ scan' = [scan EXCEPT ![s] = Draw(@, @.todo \ {e}, r # "ok")]
  /\ UNCHANGED <<assets, findings, nodes, vulns, sync, call>>

\* The deadline of scanCtx, or the death of the worker.
Fail(s) ==
  /\ scan[s].pc \in {"scan", "vuln", "draw"} /\ failures < MaxFailures
  /\ failures' = failures + 1
  /\ \/ scan' = [scan EXCEPT ![s].expired = TRUE]
     \/ scan' = [scan EXCEPT ![s].pc = "dead"]
  /\ UNCHANGED <<assets, findings, graph, sync, call>>

-----------------------------------------------------------------------------
(* graphSync: assets one by one, each followed by its findings; the first  *)
(* error ends it with 500.                                                 *)

\* Mutant: errors are ignored, as importTopology does.
Tolerant(r)  == TRUE
Succeeded(r) == r = "ok"

\* The findings of the asset, then the next asset; after the last, 200.
Onward(found, todo) ==
  IF found # {} THEN "vulns" ELSE IF todo # {} THEN "assets" ELSE "ok"

Then(r, p) == IF Succeeded(r) THEN p ELSE "failed"

Sent == Cardinality({q \in Syncs : sync[q].pc # "idle"} \cup
                    {c \in Calls : call[c].pc # "idle"})

SyncBegin(q) ==
  /\ sync[q].pc = "idle" /\ Sent < MaxRequests
  /\ \E r \in Results(TRUE) :
       /\ sync' = [sync EXCEPT ![q].pc = IF r = "ok" THEN Onward({}, assets) ELSE "failed",
                               ![q].todo = assets, ![q].base = assets,
                               ![q].baseFound = findings]
       /\ Count(r, TRUE)
  /\ UNCHANGED <<assets, findings, graph, scan, call>>

SyncNextAsset(q) ==
  /\ sync[q].pc = "assets"
  /\ \E a \in sync[q].todo, r \in Results(TRUE) :
       /\ SyncAsset(a, r)
       /\ Count(r, TRUE)
       /\ sync' = [sync EXCEPT ![q].pc = Then(r, "list"), ![q].cur = a, ![q].todo = @ \ {a}]
  /\ UNCHANGED <<assets, findings, vulns, reach, scan, call>>

SyncListFindings(q) ==
  /\ sync[q].pc = "list"
  /\ \E r \in Results(TRUE) :
       LET found == {f \in findings : AssetOf(f) = sync[q].cur} IN
       /\ sync' = [sync EXCEPT ![q].pc = Then(r, Onward(found, sync[q].todo)), ![q].left = found]
       /\ Count(r, TRUE)
  /\ UNCHANGED <<assets, findings, graph, scan, call>>

SyncNextFinding(q) ==
  /\ sync[q].pc = "vulns"
  /\ \E f \in sync[q].left, r \in Results(TRUE) :
       /\ SyncFinding(f, r)
       /\ Count(r, TRUE)
       /\ sync' = [sync EXCEPT ![q].pc = Then(r, Onward(sync[q].left \ {f}, sync[q].todo)),
                               ![q].left = @ \ {f}]
  /\ UNCHANGED <<assets, findings, nodes, reach, scan, call>>

-----------------------------------------------------------------------------
(* Single edges.                                                           *)

\* Mutant: importTopology does not project its endpoints.
NoEndpoints(k) == "edge"
FirstStep(k)   == IF k = "topology" THEN "src" ELSE "edge"

\* Both assets are looked up first; assets are never deleted.
Resolve(c) ==
  /\ call[c].pc = "idle" /\ Sent < MaxRequests
  /\ call' = [call EXCEPT ![c].pc =
                IF call[c].edge[1] \in assets /\ call[c].edge[2] \in assets
                THEN FirstStep(call[c].kind) ELSE "refused"]
  /\ UNCHANGED <<assets, findings, graph, scan, sync, failures>>

\* Errors of these two are dropped.
ProjectEndpoint(c) ==
  /\ call[c].pc \in {"src", "dst"}
  /\ \E r \in Results(TRUE) :
       /\ SyncAsset(IF call[c].pc = "src" THEN call[c].edge[1] ELSE call[c].edge[2], r)
       /\ Count(r, TRUE)
       /\ call' = [call EXCEPT ![c].pc = IF @ = "src" THEN "dst" ELSE "edge",
                               ![c].flawed = @ \/ r # "ok"]
  /\ UNCHANGED <<assets, findings, vulns, reach, scan, sync>>

\* 201, or counted as imported, whether or not the MATCH found the nodes.
DrawEdge(c) ==
  /\ call[c].pc = "edge"
  /\ \E r \in Results(TRUE) :
       /\ UpsertReachability(call[c].edge, r)
       /\ Count(r, TRUE)
       /\ call' = [call EXCEPT ![c].pc = IF r = "ok" THEN "created" ELSE "refused"]
  /\ UNCHANGED <<assets, findings, nodes, vulns, scan, sync>>

-----------------------------------------------------------------------------

Process(s)   == \/ ProjectAsset(s) \/ StoreFinding(s) \/ ProjectFinding(s)
                \/ ListPeers(s) \/ DrawPeer(s)
GraphSync(q) == \/ SyncBegin(q) \/ SyncNextAsset(q) \/ SyncListFindings(q)
                \/ SyncNextFinding(q)
EdgeCall(c)  == Resolve(c) \/ ProjectEndpoint(c) \/ DrawEdge(c)

\* Neo4j is restored empty (external), before the graphSync that is to repair it.
LoseGraph ==
  /\ failures < MaxFailures /\ \A q \in Syncs : sync[q].pc = "idle"
  /\ nodes' = {} /\ vulns' = {} /\ reach' = {}
  /\ scan' = [s \in Scans |-> [scan[s] EXCEPT !.flawed = TRUE]]
  /\ call' = [c \in Calls |-> [call[c] EXCEPT !.flawed = @ \/ call[c].pc # "idle"]]
  /\ failures' = failures + 1
  /\ UNCHANGED <<assets, findings, sync>>

\* Everything the instance allows has been done.
Idle ==
  /\ assets = Assets /\ Sent = MaxRequests
  /\ \A s \in Scans : scan[s].pc \in {"done", "dead"}
  /\ \A q \in Syncs : sync[q].pc \in {"idle", "ok", "failed"}
  /\ \A c \in Calls : call[c].pc \in {"idle", "created", "refused"}
  /\ UNCHANGED vars

Next ==
  \/ \E a \in Assets : CreateAsset(a)
  \/ \E s \in Scans : Process(s) \/ Fail(s)
  \/ \E q \in Syncs : GraphSync(q)
  \/ \E c \in Calls : EdgeCall(c)
  \/ LoseGraph
  \/ Idle

Spec == Init /\ [][Next]_vars

-----------------------------------------------------------------------------
(* Properties.                                                             *)

\* Types, and the shape of the graph: an edge joins two nodes, and a vulnerability
\* hangs on one, because the statements MATCH what they link.
TypeOK ==
  /\ assets \subseteq Assets
  /\ findings \subseteq Scans \X (1..MaxFindings)
  /\ nodes \subseteq assets
  /\ \A f \in vulns : AssetOf(f) \in nodes
  /\ reach \subseteq nodes \X nodes
  /\ scan \in [Scans -> ScanStates]
  /\ sync \in [Syncs -> SyncStates]
  /\ call \in [Calls -> CallStates]
  /\ failures \in 0..MaxFailures

\* The graph shows no vulnerability that PostgreSQL does not hold, although the two
\* are written apart: a finding is projected only after it was stored.
VulnsAreStored == vulns \subseteq findings

\* A graphSync that answered 200 leaves every asset and finding in the graph that
\* was committed when it began, whatever earlier projections were lost, while scans
\* go on.
SyncIsComplete ==
  \A q \in Syncs : sync[q].pc = "ok" => /\ sync[q].base \subseteq nodes
                                        /\ sync[q].baseFound \subseteq vulns

\* Two assets of one private /24 whose scans have ended reach each other in both
\* directions, whichever scan was first and however the two overlapped, unless a
\* graph call of one of them failed.
SubnetMeshed ==
  \A s, t \in Scans, n \in Subnets :
    /\ \A u \in {s, t} : scan[u].pc = "done" /\ ~scan[u].flawed /\ scan[u].asset \in n
    /\ scan[s].asset # scan[t].asset
    => <<scan[s].asset, scan[t].asset>> \in reach

\* An edge that importTopology counted as imported is in the graph, even when
\* neither of its assets was ever scanned, unless projecting one of them failed.
TopologyAttaches ==
  \A c \in Calls : call[c].kind = "topology" /\ call[c].pc = "created" /\ ~call[c].flawed
                 => call[c].edge \in reach
=============================================================================
