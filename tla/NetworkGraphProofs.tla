------------------------- MODULE NetworkGraphProofs -------------------------
(***************************************************************************)
(* Theorems about the network layer of the graph, for any sets of assets,  *)
(* scans and requests, any bounds and any failures.                        *)
(***************************************************************************)
EXTENDS NetworkGraph, TLAPS

-----------------------------------------------------------------------------
(* Types.                                                                  *)

\* A scan that has begun has an asset, and a finding that it is about to project is
\* stored: the indices that AssetOf and ProjectFinding rely on.
GraphShape == /\ assets \subseteq Assets
              /\ findings \subseteq Scans \X (1..MaxFindings)
              /\ nodes \subseteq assets
              /\ vulns \subseteq findings
              /\ \A f \in vulns : AssetOf(f) \in nodes
              /\ reach \subseteq nodes \X nodes
              /\ failures \in 0..MaxFailures
ScanShape == /\ scan \in [Scans -> ScanStates]
             /\ \A s \in Scans :
                  /\ scan[s].pc # "queued" => scan[s].asset \in assets
                  /\ scan[s].pc = "vuln" => <<s, scan[s].made>> \in findings
             /\ \A f \in findings : scan[f[1]].pc # "queued"
SyncShape == /\ sync \in [Syncs -> SyncStates]
             /\ \A q \in Syncs : /\ sync[q].base \subseteq assets /\ sync[q].todo \subseteq assets
                                 /\ sync[q].left \subseteq findings
                                 /\ sync[q].baseFound \subseteq findings
CallShape == /\ call \in [Calls -> CallStates]
             /\ \A c \in Calls : call[c].pc \in {"src", "dst", "edge"}
                                 => call[c].edge[1] \in assets /\ call[c].edge[2] \in assets
Shape == GraphShape /\ ScanShape /\ SyncShape /\ CallShape

LEMMA ShapeParts == Shape => TypeOK /\ VulnsAreStored
  BY DEF Shape, GraphShape, ScanShape, SyncShape, CallShape, TypeOK, VulnsAreStored

LEMMA ResultsType ==
  ASSUME NEW alive \in BOOLEAN
  PROVE  /\ Results(alive) \subseteq {"ok", "lost", "unknown"}
         /\ ~alive => Results(alive) = {"lost"}
         /\ \A r \in Results(alive) : alive /\ r # "ok" => failures < MaxFailures
  BY DEF Results

LEMMA InitShape == Init => Shape
<1> SUFFICES ASSUME Init PROVE Shape
  OBVIOUS
<1>1. GraphShape
  BY GraphAssumption DEF Init, GraphShape, AssetOf
<1>2. ScanShape
  BY GraphAssumption DEF Init, ScanShape, ScanStates
<1>3. SyncShape
  BY GraphAssumption DEF Init, SyncShape, SyncStates
<1>4. CallShape
  BY DEF Init, CallShape, CallStates, Edges
<1> QED BY <1>1, <1>2, <1>3, <1>4 DEF Shape

LEMMA CountShape ==
  ASSUME Shape, NEW alive \in BOOLEAN, NEW r \in Results(alive), Count(r, alive)
  PROVE  failures' \in 0..MaxFailures
  BY ResultsType, GraphAssumption DEF Shape, GraphShape, Count

\* What the rest of the graph keeps when a scan takes a step.
LEMMA ScanFrame ==
  ASSUME Shape, UNCHANGED <<assets, sync, call>>, findings \subseteq findings'
  PROVE  SyncShape' /\ CallShape'
  BY DEF Shape, SyncShape, CallShape

LEMMA ProjectAssetShape == ASSUME Shape, NEW s \in Scans, ProjectAsset(s) PROVE Shape'
<1>1. PICK a \in assets, r \in Results(TRUE) :
         /\ SyncAsset(a, r) /\ Count(r, TRUE)
         /\ scan' = [scan EXCEPT ![s].pc = "scan", ![s].asset = a, ![s].flawed = r # "ok"]
  BY DEF ProjectAsset
<1>2. UNCHANGED <<assets, findings, vulns, reach, sync, call>> /\ scan[s].pc = "queued"
  BY DEF ProjectAsset
<1>3. scan' \in [Scans -> ScanStates]
  <2>1. scan[s] \in ScanStates /\ a \in Assets
    BY DEF Shape, GraphShape, ScanShape
  <2>2. [scan[s] EXCEPT !.pc = "scan", !.asset = a, !.flawed = r # "ok"] \in ScanStates
    BY <2>1 DEF ScanStates
  <2> QED BY <1>1, <2>2 DEF Shape, ScanShape
<1>4. /\ scan'[s].pc = "scan" /\ scan'[s].asset = a
      /\ \A t \in Scans \ {s} : scan'[t] = scan[t]
  BY <1>1 DEF Shape, ScanShape, ScanStates
<1>5. ScanShape'
  BY <1>2, <1>3, <1>4 DEF Shape, GraphShape, ScanShape
<1>6. \A f \in findings : f[1] \in Scans \ {s} /\ AssetOf(f)' = AssetOf(f)
  BY <1>2, <1>4 DEF Shape, GraphShape, ScanShape, AssetOf
<1>7. nodes \subseteq nodes' /\ nodes' \subseteq assets
  BY <1>1 DEF SyncAsset, Shape, GraphShape
<1>8. failures' \in 0..MaxFailures
  BY <1>1, CountShape
<1>9. GraphShape'
  BY <1>2, <1>6, <1>7, <1>8 DEF Shape, GraphShape
<1> QED BY <1>2, <1>5, <1>9, ScanFrame DEF Shape

\* A step of a scan that has begun: its asset stays, so AssetOf keeps its value.
LEMMA ScanStep ==
  ASSUME Shape, UNCHANGED assets, findings \subseteq findings',
         NEW s \in Scans, NEW x \in ScanStates, scan' = [scan EXCEPT ![s] = x],
         scan[s].pc # "queued", x.pc # "queued", x.asset = scan[s].asset,
         x.pc = "vuln" => <<s, x.made>> \in findings',
         \A f \in findings' : f \in findings \/ f[1] = s
  PROVE  /\ ScanShape'
         /\ \A t \in Scans : scan'[t].asset = scan[t].asset
         /\ \A f \in findings : AssetOf(f)' = AssetOf(f)
<1>1. scan' \in [Scans -> ScanStates] /\ scan'[s] = x /\ \A t \in Scans \ {s} : scan'[t] = scan[t]
  BY DEF Shape, ScanShape
<1>2. \A f \in findings : f[1] \in Scans
  BY DEF Shape, GraphShape
<1> QED BY <1>1, <1>2 DEF Shape, GraphShape, ScanShape, AssetOf

LEMMA StoreFindingShape == ASSUME Shape, NEW s \in Scans, StoreFinding(s) PROVE Shape'
<1> DEFINE f == <<s, scan[s].made + 1>>
<1>1. PICK r \in Results(~scan[s].expired) :
         /\ findings' = IF Applied(r) THEN findings \cup {f} ELSE findings
         /\ Count(r, ~scan[s].expired)
         /\ scan' = [scan EXCEPT ![s].made = @ + 1,
                                 ![s].pc = IF Kept(r) THEN "vuln" ELSE "scan"]
  BY DEF StoreFinding
<1>2. /\ UNCHANGED <<assets, graph, sync, call>>
      /\ scan[s].pc = "scan" /\ scan[s].made < MaxFindings
  BY DEF StoreFinding
<1> DEFINE x == [scan[s] EXCEPT !.made = @ + 1, !.pc = IF Kept(r) THEN "vuln" ELSE "scan"]
<1>3. scan[s] \in ScanStates
  BY DEF Shape, ScanShape
<1>4. /\ x \in ScanStates /\ x.pc # "queued" /\ x.asset = scan[s].asset
      /\ x.made = scan[s].made + 1 /\ (x.pc = "vuln" => r = "ok")
  <2> DEFINE p == IF Kept(r) THEN "vuln" ELSE "scan"
  <2>1. p \in {"vuln", "scan"} /\ (p = "vuln" => r = "ok")
    BY DEF Kept
  <2>2. scan[s].made + 1 \in 0..MaxFindings
    BY <1>2, <1>3, GraphAssumption DEF ScanStates
  <2>3. x = [scan[s] EXCEPT !.made = @ + 1, !.pc = p]
    OBVIOUS
  <2> HIDE DEF p
  <2> QED BY <1>3, <2>1, <2>2, <2>3 DEF ScanStates
<1>5. f \in Scans \X (1..MaxFindings)
  BY <1>2, <1>3, GraphAssumption DEF ScanStates
<1>6. /\ findings \subseteq findings' /\ findings' \subseteq findings \cup {f}
      /\ \A g \in findings' : g \in findings \/ g[1] = s
  BY <1>1
<1>7. x.pc = "vuln" => <<s, x.made>> \in findings'
  BY <1>1, <1>4 DEF Applied
<1>8. scan' = [scan EXCEPT ![s] = x]
  BY <1>1
<1>9. ScanShape' /\ \A g \in findings : AssetOf(g)' = AssetOf(g)
  <2> HIDE DEF x, f
  <2>1. UNCHANGED assets /\ scan[s].pc # "queued"
    BY <1>2
  <2> QED BY <1>4, <1>6, <1>7, <1>8, <2>1, ScanStep
<1>10. failures' \in 0..MaxFailures
  BY <1>1, <1>3, CountShape DEF ScanStates
<1>11. GraphShape'
  BY <1>2, <1>5, <1>6, <1>9, <1>10 DEF Shape, GraphShape, graph
<1> QED BY <1>2, <1>6, <1>9, <1>11, ScanFrame DEF Shape

LEMMA ProjectFindingShape == ASSUME Shape, NEW s \in Scans, ProjectFinding(s) PROVE Shape'
<1>1. PICK r \in Results(~scan[s].expired) :
         /\ SyncFinding(<<s, scan[s].made>>, r)
         /\ Count(r, ~scan[s].expired)
         /\ scan' = [scan EXCEPT ![s].pc = "scan", ![s].flawed = @ \/ r # "ok"]
  BY DEF ProjectFinding
<1>2. UNCHANGED <<assets, findings, nodes, reach, sync, call>> /\ scan[s].pc = "vuln"
  BY DEF ProjectFinding
<1> DEFINE x == [scan[s] EXCEPT !.pc = "scan", !.flawed = @ \/ r # "ok"]
<1>3. scan[s] \in ScanStates /\ <<s, scan[s].made>> \in findings
  BY <1>2 DEF Shape, ScanShape
<1>4. x \in ScanStates /\ x.pc = "scan" /\ x.asset = scan[s].asset
  BY <1>3 DEF ScanStates
<1>5. ScanShape' /\ \A g \in findings : AssetOf(g)' = AssetOf(g)
  BY <1>1, <1>2, <1>4, ScanStep, ZenonT(60)
<1>6. vulns' \subseteq findings /\ \A g \in vulns' : AssetOf(g) \in nodes
  BY <1>1, <1>3 DEF SyncFinding, Shape, GraphShape
<1>7. failures' \in 0..MaxFailures
  BY <1>1, <1>3, CountShape DEF ScanStates
<1>8. GraphShape'
  BY <1>2, <1>5, <1>6, <1>7 DEF Shape, GraphShape
<1> QED BY <1>2, <1>5, <1>8, ScanFrame DEF Shape

LEMMA DrawnType ==
  ASSUME NEW a \in Assets, NEW peers \in SUBSET Assets
  PROVE  Drawn(a, peers) \subseteq Edges
  BY DEF Drawn, Edges

LEMMA ListPeersShape == ASSUME Shape, NEW s \in Scans, ListPeers(s) PROVE Shape'
<1> DEFINE e == Drawn(scan[s].asset, Peers(scan[s].asset))
<1>1. PICK r \in Results(~scan[s].expired) :
         /\ scan' = [scan EXCEPT ![s] = IF r = "ok" THEN Draw(scan[s], e, FALSE)
                                       ELSE Draw(scan[s], {}, TRUE)]
         /\ Count(r, ~scan[s].expired)
  BY DEF ListPeers
<1>2. UNCHANGED <<assets, findings, graph, sync, call>> /\ scan[s].pc = "scan"
  BY DEF ListPeers
<1>3. scan[s] \in ScanStates /\ scan \in [Scans -> ScanStates] /\ scan[s].asset \in Assets
  BY <1>2 DEF Shape, GraphShape, ScanShape
<1>4. e \in SUBSET Edges
  <2>1. Peers(scan[s].asset) \in SUBSET Assets
    BY DEF Shape, GraphShape, Peers
  <2> QED BY <1>3, <2>1, DrawnType
<1>5. PICK x \in ScanStates : /\ scan' = [scan EXCEPT ![s] = x]
                              /\ x.asset = scan[s].asset /\ x.pc \in {"draw", "done"}
  <2> HIDE DEF e
  <2>1. /\ Draw(scan[s], e, FALSE) \in ScanStates /\ Draw(scan[s], {}, TRUE) \in ScanStates
        /\ Draw(scan[s], e, FALSE).asset = scan[s].asset
        /\ Draw(scan[s], {}, TRUE).asset = scan[s].asset
        /\ Draw(scan[s], e, FALSE).pc \in {"draw", "done"} /\ Draw(scan[s], {}, TRUE).pc = "done"
    BY <1>3, <1>4 DEF Draw, ScanStates
  <2> QED BY <1>1, <2>1
<1>6. ScanShape' /\ \A g \in findings : AssetOf(g)' = AssetOf(g)
  BY <1>2, <1>5, ScanStep
<1>7. failures' \in 0..MaxFailures
  BY <1>1, <1>3, CountShape DEF ScanStates
<1>8. GraphShape'
  BY <1>2, <1>6, <1>7 DEF Shape, GraphShape, graph
<1> QED BY <1>2, <1>6, <1>8, ScanFrame DEF Shape

LEMMA DrawPeerShape == ASSUME Shape, NEW s \in Scans, DrawPeer(s) PROVE Shape'
<1>1. PICK e \in scan[s].todo, r \in Results(~scan[s].expired) :
         /\ UpsertReachability(e, r)
         /\ Count(r, ~scan[s].expired)
         /\ scan' = [scan EXCEPT ![s] = Draw(scan[s], scan[s].todo \ {e}, r # "ok")]
  BY DEF DrawPeer
<1>2. UNCHANGED <<assets, findings, nodes, vulns, sync, call>> /\ scan[s].pc = "draw"
  BY DEF DrawPeer
<1>3. scan[s] \in ScanStates /\ scan[s].todo \subseteq Edges
  BY DEF Shape, ScanShape, ScanStates
<1>4. PICK x \in ScanStates : /\ scan' = [scan EXCEPT ![s] = x]
                              /\ x.asset = scan[s].asset /\ x.pc \in {"draw", "done"}
  <2> DEFINE rest == scan[s].todo \ {e}
  <2>1. rest \subseteq Edges
    BY <1>3
  <2> HIDE DEF rest
  <2>2. /\ Draw(scan[s], rest, r # "ok") \in ScanStates
        /\ Draw(scan[s], rest, r # "ok").asset = scan[s].asset
        /\ Draw(scan[s], rest, r # "ok").pc \in {"draw", "done"}
    BY <1>3, <2>1 DEF Draw, ScanStates
  <2> QED BY <1>1, <2>2 DEF rest
<1>5. ScanShape' /\ \A g \in findings : AssetOf(g)' = AssetOf(g)
  BY <1>2, <1>4, ScanStep
<1>6. reach' \subseteq nodes \X nodes
  <2>1. e \in Assets \X Assets
    BY <1>3 DEF Edges
  <2> QED BY <1>1, <2>1 DEF UpsertReachability, Matched, Shape, GraphShape
<1>7. failures' \in 0..MaxFailures
  BY <1>1, <1>3, CountShape DEF ScanStates
<1>8. GraphShape'
  BY <1>2, <1>5, <1>6, <1>7 DEF Shape, GraphShape
<1> QED BY <1>2, <1>5, <1>8, ScanFrame DEF Shape

LEMMA FailShape == ASSUME Shape, NEW s \in Scans, Fail(s) PROVE Shape'
<1>1. /\ UNCHANGED <<assets, findings, graph, sync, call>>
      /\ scan[s].pc \in {"scan", "vuln", "draw"} /\ failures < MaxFailures
      /\ failures' = failures + 1
  BY DEF Fail
<1>2. scan[s] \in ScanStates
  BY DEF Shape, ScanShape
<1>3. PICK x \in ScanStates : /\ scan' = [scan EXCEPT ![s] = x] /\ x.asset = scan[s].asset
                              /\ x.pc \in {scan[s].pc, "dead"} /\ x.made = scan[s].made
  <2>1. CASE scan' = [scan EXCEPT ![s].expired = TRUE]
    <3> DEFINE x == [scan[s] EXCEPT !.expired = TRUE]
    <3>1. x \in ScanStates /\ x.asset = scan[s].asset /\ x.pc = scan[s].pc /\ x.made = scan[s].made
      BY <1>2 DEF ScanStates
    <3> QED BY <2>1, <3>1
  <2>2. CASE scan' = [scan EXCEPT ![s].pc = "dead"]
    <3> DEFINE x == [scan[s] EXCEPT !.pc = "dead"]
    <3>1. x \in ScanStates /\ x.asset = scan[s].asset /\ x.pc = "dead" /\ x.made = scan[s].made
      BY <1>2 DEF ScanStates
    <3> QED BY <2>2, <3>1
  <2> QED BY <2>1, <2>2 DEF Fail
<1>4. scan[s].pc = "vuln" => <<s, scan[s].made>> \in findings
  BY DEF Shape, ScanShape
<1>5. ScanShape' /\ \A g \in findings : AssetOf(g)' = AssetOf(g)
  BY <1>1, <1>3, <1>4, ScanStep
<1>6. GraphShape'
  BY <1>1, <1>5, GraphAssumption DEF Shape, GraphShape, graph
<1> QED BY <1>1, <1>5, <1>6, ScanFrame DEF Shape

\* A step of a graphSync: x is its new state.
LEMMA SyncStep ==
  ASSUME Shape, UNCHANGED <<assets, findings, scan, call>>,
         NEW q \in Syncs, NEW x \in SyncStates, sync' = [sync EXCEPT ![q] = x],
         x.base \subseteq assets, x.todo \subseteq assets,
         x.left \subseteq findings, x.baseFound \subseteq findings
  PROVE  ScanShape' /\ SyncShape' /\ CallShape'
<1>1. ScanShape' /\ CallShape'
  BY DEF Shape, ScanShape, CallShape
<1>2. /\ sync' \in [Syncs -> SyncStates] /\ sync'[q] = x
      /\ \A p \in Syncs \ {q} : sync'[p] = sync[p]
  BY DEF Shape, SyncShape
<1> QED BY <1>1, <1>2 DEF Shape, SyncShape

LEMMA SyncTypes ==
  ASSUME Shape, NEW q \in Syncs
  PROVE  /\ sync[q] \in SyncStates
         /\ sync[q].base \subseteq assets /\ sync[q].todo \subseteq assets
         /\ sync[q].left \subseteq findings /\ sync[q].baseFound \subseteq findings
         /\ assets \subseteq Assets /\ findings \subseteq Scans \X Nat
  BY GraphAssumption DEF Shape, GraphShape, SyncShape

LEMMA OnwardType ==
  ASSUME NEW found, NEW todo, NEW r
  PROVE  /\ Onward(found, todo) \in {"vulns", "assets", "ok"}
         /\ Then(r, Onward(found, todo)) \in {"vulns", "assets", "ok", "failed"}
         /\ Then(r, "list") \in {"list", "failed"}
  BY DEF Onward, Then

LEMMA SyncBeginShape == ASSUME Shape, NEW q \in Syncs, SyncBegin(q) PROVE Shape'
<1>1. PICK r \in Results(TRUE) :
         /\ sync' = [sync EXCEPT ![q].pc = IF r = "ok" THEN Onward({}, assets) ELSE "failed",
                                 ![q].todo = assets, ![q].base = assets,
                                 ![q].baseFound = findings]
         /\ Count(r, TRUE)
  BY DEF SyncBegin
<1>2. UNCHANGED <<assets, findings, graph, scan, call>>
  BY DEF SyncBegin
<1> DEFINE p == IF r = "ok" THEN Onward({}, assets) ELSE "failed"
           x == [sync[q] EXCEPT !.pc = p, !.todo = assets, !.base = assets,
                                !.baseFound = findings]
<1>3. p \in {"vulns", "assets", "ok", "failed"}
  BY OnwardType
<1>4. sync' = [sync EXCEPT ![q] = x]
  BY <1>1
<1>5. /\ x \in SyncStates /\ x.base = assets /\ x.todo = assets
      /\ x.left = sync[q].left /\ x.baseFound = findings
  <2> HIDE DEF p
  <2> QED BY <1>3, SyncTypes DEF SyncStates
<1>6. ScanShape' /\ SyncShape' /\ CallShape'
  <2> HIDE DEF x
  <2> QED BY <1>2, <1>4, <1>5, SyncTypes, SyncStep
<1>7. failures' \in 0..MaxFailures
  BY <1>1, CountShape
<1>8. GraphShape'
  BY <1>2, <1>7 DEF Shape, GraphShape, AssetOf, graph
<1> QED BY <1>6, <1>8 DEF Shape

LEMMA SyncNextAssetShape == ASSUME Shape, NEW q \in Syncs, SyncNextAsset(q) PROVE Shape'
<1>1. PICK a \in sync[q].todo, r \in Results(TRUE) :
         /\ SyncAsset(a, r)
         /\ Count(r, TRUE)
         /\ sync' = [sync EXCEPT ![q].pc = Then(r, "list"), ![q].cur = a, ![q].todo = @ \ {a}]
  BY DEF SyncNextAsset
<1>2. UNCHANGED <<assets, findings, vulns, reach, scan, call>>
  BY DEF SyncNextAsset
<1> DEFINE x == [sync[q] EXCEPT !.pc = Then(r, "list"), !.cur = a, !.todo = @ \ {a}]
<1>3. a \in assets /\ a \in Assets
  BY SyncTypes
<1>4. sync' = [sync EXCEPT ![q] = x]
  BY <1>1
<1>5. /\ x \in SyncStates /\ x.base = sync[q].base /\ x.todo = sync[q].todo \ {a}
      /\ x.left = sync[q].left /\ x.baseFound = sync[q].baseFound
  BY <1>3, SyncTypes, OnwardType DEF SyncStates
<1>6. ScanShape' /\ SyncShape' /\ CallShape'
  <2> HIDE DEF x
  <2> QED BY <1>2, <1>4, <1>5, SyncTypes, SyncStep
<1>7. failures' \in 0..MaxFailures
  BY <1>1, CountShape
<1>8. nodes \subseteq nodes' /\ nodes' \subseteq assets
  BY <1>1, <1>3 DEF SyncAsset, Shape, GraphShape
<1>9. GraphShape'
  BY <1>2, <1>7, <1>8 DEF Shape, GraphShape, AssetOf
<1> QED BY <1>6, <1>9 DEF Shape

LEMMA SyncListFindingsShape == ASSUME Shape, NEW q \in Syncs, SyncListFindings(q) PROVE Shape'
<1> DEFINE found == {f \in findings : AssetOf(f) = sync[q].cur}
<1>1. PICK r \in Results(TRUE) :
         /\ sync' = [sync EXCEPT ![q].pc = Then(r, Onward(found, sync[q].todo)), ![q].left = found]
         /\ Count(r, TRUE)
  BY DEF SyncListFindings
<1>2. UNCHANGED <<assets, findings, graph, scan, call>>
  BY DEF SyncListFindings
<1> DEFINE p == Then(r, Onward(found, sync[q].todo))
           x == [sync[q] EXCEPT !.pc = p, !.left = found]
<1>3. found \subseteq findings
  OBVIOUS
<1>4. sync' = [sync EXCEPT ![q] = x]
  BY <1>1
<1>5. /\ x \in SyncStates /\ x.base = sync[q].base /\ x.todo = sync[q].todo
      /\ x.left = found /\ x.baseFound = sync[q].baseFound
  <2>1. p \in {"vulns", "assets", "ok", "failed"}
    BY OnwardType
  <2>2. found \subseteq Scans \X Nat
    BY SyncTypes
  <2> HIDE DEF p, found
  <2> QED BY <2>1, <2>2, SyncTypes DEF SyncStates
<1>6. ScanShape' /\ SyncShape' /\ CallShape'
  <2> HIDE DEF x, found
  <2> QED BY <1>2, <1>3, <1>4, <1>5, SyncTypes, SyncStep
<1>7. failures' \in 0..MaxFailures
  BY <1>1, CountShape
<1>8. GraphShape'
  BY <1>2, <1>7 DEF Shape, GraphShape, AssetOf, graph
<1> QED BY <1>6, <1>8 DEF Shape

LEMMA SyncNextFindingShape == ASSUME Shape, NEW q \in Syncs, SyncNextFinding(q) PROVE Shape'
<1>1. PICK f \in sync[q].left, r \in Results(TRUE) :
         /\ SyncFinding(f, r)
         /\ Count(r, TRUE)
         /\ sync' = [sync EXCEPT ![q].pc = Then(r, Onward(sync[q].left \ {f}, sync[q].todo)),
                                 ![q].left = @ \ {f}]
  BY DEF SyncNextFinding
<1>2. UNCHANGED <<assets, findings, nodes, reach, scan, call>>
  BY DEF SyncNextFinding
<1> DEFINE p == Then(r, Onward(sync[q].left \ {f}, sync[q].todo))
           x == [sync[q] EXCEPT !.pc = p, !.left = @ \ {f}]
<1>3. f \in findings
  BY SyncTypes
<1>4. sync' = [sync EXCEPT ![q] = x]
  BY <1>1
<1>5. /\ x \in SyncStates /\ x.base = sync[q].base /\ x.todo = sync[q].todo
      /\ x.left = sync[q].left \ {f} /\ x.baseFound = sync[q].baseFound
  <2>1. p \in {"vulns", "assets", "ok", "failed"}
    BY OnwardType
  <2> HIDE DEF p
  <2> QED BY <2>1, SyncTypes DEF SyncStates
<1>6. ScanShape' /\ SyncShape' /\ CallShape'
  <2> HIDE DEF x
  <2> QED BY <1>2, <1>4, <1>5, SyncTypes, SyncStep
<1>7. failures' \in 0..MaxFailures
  BY <1>1, CountShape
<1>8. vulns' \subseteq findings /\ \A g \in vulns' : AssetOf(g) \in nodes
  BY <1>1, <1>3 DEF SyncFinding, Shape, GraphShape
<1>9. GraphShape'
  BY <1>2, <1>7, <1>8 DEF Shape, GraphShape, AssetOf
<1> QED BY <1>6, <1>9 DEF Shape

LEMMA CallTypes ==
  ASSUME Shape, NEW c \in Calls
  PROVE  /\ call[c] \in CallStates /\ call \in [Calls -> CallStates]
         /\ call[c].pc \in {"src", "dst", "edge"}
            => call[c].edge[1] \in assets /\ call[c].edge[2] \in assets
  BY DEF Shape, CallShape

\* A step of a request for an edge: x is its new state.
LEMMA CallStep ==
  ASSUME Shape, UNCHANGED <<assets, findings, scan, sync>>,
         NEW c \in Calls, NEW x \in CallStates, call' = [call EXCEPT ![c] = x],
         x.pc \in {"src", "dst", "edge"} => x.edge[1] \in assets /\ x.edge[2] \in assets
  PROVE  ScanShape' /\ SyncShape' /\ CallShape'
<1>1. ScanShape' /\ SyncShape'
  BY DEF Shape, ScanShape, SyncShape
<1>2. /\ call' \in [Calls -> CallStates] /\ call'[c] = x
      /\ \A d \in Calls \ {c} : call'[d] = call[d]
  BY DEF Shape, CallShape
<1> QED BY <1>1, <1>2 DEF Shape, CallShape

LEMMA ResolveShape == ASSUME Shape, NEW c \in Calls, Resolve(c) PROVE Shape'
<1> DEFINE both == call[c].edge[1] \in assets /\ call[c].edge[2] \in assets
           p == IF both THEN FirstStep(call[c].kind) ELSE "refused"
           x == [call[c] EXCEPT !.pc = p]
<1>1. UNCHANGED <<assets, findings, graph, scan, sync, failures>>
  BY DEF Resolve
<1>2. call' = [call EXCEPT ![c] = x]
  BY DEF Resolve
<1>3. p \in {"src", "edge", "refused"} /\ (p # "refused" => both)
  BY DEF FirstStep
<1>4. x \in CallStates /\ x.edge = call[c].edge /\ x.pc = p
  <2> HIDE DEF p
  <2> QED BY <1>3, CallTypes DEF CallStates
<1>5. ScanShape' /\ SyncShape' /\ CallShape'
  <2> HIDE DEF p, x
  <2> QED BY <1>1, <1>2, <1>3, <1>4, CallStep
<1>6. GraphShape'
  BY <1>1 DEF Shape, GraphShape, AssetOf, graph
<1> QED BY <1>5, <1>6 DEF Shape

LEMMA ProjectEndpointShape == ASSUME Shape, NEW c \in Calls, ProjectEndpoint(c) PROVE Shape'
<1>1. PICK r \in Results(TRUE) :
         /\ SyncAsset(IF call[c].pc = "src" THEN call[c].edge[1] ELSE call[c].edge[2], r)
         /\ Count(r, TRUE)
         /\ call' = [call EXCEPT ![c].pc = IF @ = "src" THEN "dst" ELSE "edge",
                                 ![c].flawed = @ \/ r # "ok"]
  BY DEF ProjectEndpoint
<1>2. /\ UNCHANGED <<assets, findings, vulns, reach, scan, sync>>
      /\ call[c].pc \in {"src", "dst"}
  BY DEF ProjectEndpoint
<1> DEFINE x == [call[c] EXCEPT !.pc = IF @ = "src" THEN "dst" ELSE "edge",
                                !.flawed = @ \/ r # "ok"]
<1>3. call' = [call EXCEPT ![c] = x]
  BY <1>1
<1>4. x \in CallStates /\ x.edge = call[c].edge
  BY CallTypes DEF CallStates
<1>5. call[c].edge[1] \in assets /\ call[c].edge[2] \in assets
  BY <1>2, CallTypes
<1>6. ScanShape' /\ SyncShape' /\ CallShape'
  <2> HIDE DEF x
  <2> QED BY <1>2, <1>3, <1>4, <1>5, CallStep
<1>7. failures' \in 0..MaxFailures
  BY <1>1, CountShape
<1>8. nodes \subseteq nodes' /\ nodes' \subseteq assets
  BY <1>1, <1>5 DEF SyncAsset, Shape, GraphShape
<1>9. GraphShape'
  BY <1>2, <1>7, <1>8 DEF Shape, GraphShape, AssetOf
<1> QED BY <1>6, <1>9 DEF Shape

LEMMA DrawEdgeShape == ASSUME Shape, NEW c \in Calls, DrawEdge(c) PROVE Shape'
<1>1. PICK r \in Results(TRUE) :
         /\ UpsertReachability(call[c].edge, r)
         /\ Count(r, TRUE)
         /\ call' = [call EXCEPT ![c].pc = IF r = "ok" THEN "created" ELSE "refused"]
  BY DEF DrawEdge
<1>2. UNCHANGED <<assets, findings, nodes, vulns, scan, sync>>
  BY DEF DrawEdge
<1> DEFINE x == [call[c] EXCEPT !.pc = IF r = "ok" THEN "created" ELSE "refused"]
<1>3. call' = [call EXCEPT ![c] = x]
  BY <1>1
<1>4. x \in CallStates /\ x.pc \in {"created", "refused"}
  BY CallTypes DEF CallStates
<1>5. ScanShape' /\ SyncShape' /\ CallShape'
  <2> HIDE DEF x
  <2> QED BY <1>2, <1>3, <1>4, CallStep
<1>6. failures' \in 0..MaxFailures
  BY <1>1, CountShape
<1>7. reach' \subseteq nodes \X nodes
  <2>1. call[c].edge \in Assets \X Assets
    BY CallTypes DEF CallStates, Edges
  <2> QED BY <1>1, <2>1 DEF UpsertReachability, Matched, Shape, GraphShape
<1>8. GraphShape'
  BY <1>2, <1>6, <1>7 DEF Shape, GraphShape, AssetOf
<1> QED BY <1>5, <1>8 DEF Shape

LEMMA CreateAssetShape == ASSUME Shape, NEW a \in Assets, CreateAsset(a) PROVE Shape'
<1>1. /\ assets' = assets \cup {a}
      /\ UNCHANGED <<findings, graph, scan, sync, call, failures>>
  BY DEF CreateAsset
<1>2. assets \subseteq assets'
  BY <1>1
<1>3. GraphShape'
  BY <1>1 DEF Shape, GraphShape, AssetOf, graph
<1>4. ScanShape'
  BY <1>1, <1>2 DEF Shape, ScanShape
<1>5. SyncShape'
  BY <1>1, <1>2 DEF Shape, SyncShape
<1>6. CallShape'
  BY <1>1, <1>2 DEF Shape, CallShape
<1> QED BY <1>3, <1>4, <1>5, <1>6 DEF Shape

LEMMA LoseGraphShape == ASSUME Shape, LoseGraph PROVE Shape'
<1>1. /\ nodes' = {} /\ vulns' = {} /\ reach' = {}
      /\ failures < MaxFailures /\ failures' = failures + 1
      /\ UNCHANGED <<assets, findings, sync>>
  BY DEF LoseGraph
<1>2. GraphShape'
  BY <1>1, GraphAssumption DEF Shape, GraphShape, Edges
<1>3. \A s \in Scans : /\ [scan[s] EXCEPT !.flawed = TRUE] \in ScanStates
                       /\ scan'[s].pc = scan[s].pc /\ scan'[s].asset = scan[s].asset
                       /\ scan'[s].made = scan[s].made
  BY DEF LoseGraph, Shape, ScanShape, ScanStates
<1>4. scan' \in [Scans -> ScanStates]
  BY <1>3 DEF LoseGraph
<1>5. ScanShape'
  BY <1>1, <1>3, <1>4 DEF Shape, GraphShape, ScanShape
<1>6. SyncShape'
  BY <1>1 DEF Shape, SyncShape
<1>7. \A c \in Calls : /\ [call[c] EXCEPT !.flawed = @ \/ call[c].pc # "idle"] \in CallStates
                       /\ call'[c].pc = call[c].pc /\ call'[c].edge = call[c].edge
  BY DEF LoseGraph, Shape, CallShape, CallStates
<1>8. call' \in [Calls -> CallStates]
  BY <1>7 DEF LoseGraph
<1>9. CallShape'
  BY <1>1, <1>7, <1>8 DEF Shape, CallShape
<1> QED BY <1>2, <1>5, <1>6, <1>9 DEF Shape

LEMMA StutterShape == ASSUME Shape, UNCHANGED vars PROVE Shape'
  BY DEF Shape, GraphShape, ScanShape, SyncShape, CallShape, AssetOf, vars, graph

LEMMA NextShape == ASSUME Shape, [Next]_vars PROVE Shape'
<1>1. ASSUME NEW a \in Assets, CreateAsset(a) PROVE Shape'
  BY <1>1, CreateAssetShape
<1>2. ASSUME NEW s \in Scans, Process(s) \/ Fail(s) PROVE Shape'
  BY <1>2, ProjectAssetShape, StoreFindingShape, ProjectFindingShape, ListPeersShape,
     DrawPeerShape, FailShape DEF Process
<1>3. ASSUME NEW q \in Syncs, GraphSync(q) PROVE Shape'
  BY <1>3, SyncBeginShape, SyncNextAssetShape, SyncListFindingsShape, SyncNextFindingShape
     DEF GraphSync
<1>4. ASSUME NEW c \in Calls, EdgeCall(c) PROVE Shape'
  BY <1>4, ResolveShape, ProjectEndpointShape, DrawEdgeShape DEF EdgeCall
<1>5. CASE LoseGraph
  BY <1>5, LoseGraphShape
<1>6. CASE Idle \/ UNCHANGED vars
  BY <1>6, StutterShape DEF Idle
<1> QED BY <1>1, <1>2, <1>3, <1>4, <1>5, <1>6 DEF Next

LEMMA AlwaysShape == Spec => []Shape
<1>1. Init => Shape
  BY InitShape
<1>2. Shape /\ [Next]_vars => Shape'
  BY NextShape
<1> QED BY <1>1, <1>2, PTL DEF Spec

\* The types of the model, and the shape of the graph: whatever is lost, an edge joins
\* two nodes and a vulnerability hangs on one, since the statements of
\* internal/graph/graph.go MATCH what they link.
THEOREM GraphTypes == Spec => []TypeOK
<1>1. Shape => TypeOK
  BY ShapeParts
<1> QED BY <1>1, AlwaysShape, PTL

\* The graph shows no vulnerability that PostgreSQL does not hold: SyncFinding follows
\* the insertion, in Process as in graphSync.
THEOREM ProjectedAreStored == Spec => []VulnsAreStored
<1>1. Shape => VulnsAreStored
  BY ShapeParts
<1> QED BY <1>1, AlwaysShape, PTL

-----------------------------------------------------------------------------
(* An edge that importTopology counted.                                    *)

\* Unless a call failed or the graph was lost, the endpoints are nodes when the edge
\* is drawn.
Attaching == \A c \in Calls : call[c].kind = "topology" /\ ~call[c].flawed =>
               /\ call[c].pc = "dst" => call[c].edge[1] \in nodes
               /\ call[c].pc = "edge" => call[c].edge[1] \in nodes /\ call[c].edge[2] \in nodes
               /\ call[c].pc = "created" => call[c].edge \in reach

\* Only LoseGraph takes anything from the graph.
LEMMA GraphGrows ==
  ASSUME Shape, [Next]_vars, ~LoseGraph
  PROVE  nodes \subseteq nodes' /\ vulns \subseteq vulns' /\ reach \subseteq reach'
<1>1. ASSUME NEW a \in Assets, CreateAsset(a) PROVE UNCHANGED graph
  BY <1>1 DEF CreateAsset
<1>2. ASSUME NEW s \in Scans, Process(s) \/ Fail(s)
      PROVE  nodes \subseteq nodes' /\ vulns \subseteq vulns' /\ reach \subseteq reach'
  <2>1. CASE ProjectAsset(s)
    BY <2>1 DEF ProjectAsset, SyncAsset
  <2>2. CASE StoreFinding(s)
    BY <2>2 DEF StoreFinding, graph
  <2>3. CASE ProjectFinding(s)
    BY <2>3 DEF ProjectFinding, SyncFinding
  <2>4. CASE ListPeers(s)
    BY <2>4 DEF ListPeers, graph
  <2>5. CASE DrawPeer(s)
    BY <2>5 DEF DrawPeer, UpsertReachability
  <2>6. CASE Fail(s)
    BY <2>6 DEF Fail, graph
  <2> QED BY <1>2, <2>1, <2>2, <2>3, <2>4, <2>5, <2>6 DEF Process
<1>3. ASSUME NEW q \in Syncs, GraphSync(q)
      PROVE  nodes \subseteq nodes' /\ vulns \subseteq vulns' /\ reach \subseteq reach'
  <2>1. CASE SyncBegin(q)
    BY <2>1 DEF SyncBegin, graph
  <2>2. CASE SyncNextAsset(q)
    BY <2>2 DEF SyncNextAsset, SyncAsset
  <2>3. CASE SyncListFindings(q)
    BY <2>3 DEF SyncListFindings, graph
  <2>4. CASE SyncNextFinding(q)
    BY <2>4 DEF SyncNextFinding, SyncFinding
  <2> QED BY <1>3, <2>1, <2>2, <2>3, <2>4 DEF GraphSync
<1>4. ASSUME NEW c \in Calls, EdgeCall(c)
      PROVE  nodes \subseteq nodes' /\ vulns \subseteq vulns' /\ reach \subseteq reach'
  <2>1. CASE Resolve(c)
    BY <2>1 DEF Resolve, graph
  <2>2. CASE ProjectEndpoint(c)
    BY <2>2 DEF ProjectEndpoint, SyncAsset
  <2>3. CASE DrawEdge(c)
    BY <2>3 DEF DrawEdge, UpsertReachability
  <2> QED BY <1>4, <2>1, <2>2, <2>3 DEF EdgeCall
<1>5. CASE Idle \/ UNCHANGED vars
  BY <1>5 DEF Idle, vars, graph
<1> QED BY <1>1, <1>2, <1>3, <1>4, <1>5 DEF Next, graph

\* Which of scan, sync and call a step leaves alone.
LEMMA OthersKeep ==
  ASSUME [Next]_vars
  PROVE  \/ UNCHANGED call
         \/ LoseGraph
         \/ \E c \in Calls : EdgeCall(c) /\ UNCHANGED <<assets, findings, scan, sync>>
<1>1. \A a \in Assets : CreateAsset(a) => UNCHANGED call
  BY DEF CreateAsset
<1>2. \A s \in Scans : Process(s) \/ Fail(s) => UNCHANGED call
  BY DEF Process, ProjectAsset, StoreFinding, ProjectFinding, ListPeers, DrawPeer, Fail
<1>3. \A q \in Syncs : GraphSync(q) => UNCHANGED call
  BY DEF GraphSync, SyncBegin, SyncNextAsset, SyncListFindings, SyncNextFinding
<1>4. \A c \in Calls : EdgeCall(c) => UNCHANGED <<assets, findings, scan, sync>>
  BY DEF EdgeCall, Resolve, ProjectEndpoint, DrawEdge
<1>5. Idle \/ UNCHANGED vars => UNCHANGED call
  BY DEF Idle, vars
<1> QED BY <1>1, <1>2, <1>3, <1>4, <1>5 DEF Next

LEMMA EdgeCallAttaches ==
  ASSUME Shape, Attaching, NEW c \in Calls, EdgeCall(c),
         nodes \subseteq nodes', reach \subseteq reach'
  PROVE  Attaching'
<1>0. /\ call \in [Calls -> CallStates] /\ call[c] \in CallStates
      /\ call[c].edge = <<call[c].edge[1], call[c].edge[2]>>
  BY CallTypes DEF CallStates, Edges
<1> DEFINE Good(x) == x.kind = "topology" /\ ~x.flawed =>
               /\ x.pc = "dst" => x.edge[1] \in nodes'
               /\ x.pc = "edge" => x.edge[1] \in nodes' /\ x.edge[2] \in nodes'
               /\ x.pc = "created" => x.edge \in reach'
<1>1. CASE Resolve(c)
  <2>1. /\ call'[c].kind = call[c].kind /\ \A d \in Calls \ {c} : call'[d] = call[d]
        /\ call'[c].pc = "refused" \/ call'[c].pc = FirstStep(call[c].kind)
    BY <1>0, <1>1 DEF Resolve, CallStates
  <2>2. Good(call'[c])
    BY <2>1 DEF FirstStep
  <2> QED BY <2>1, <2>2 DEF Attaching
<1>2. CASE ProjectEndpoint(c)
  <2>1. PICK r \in Results(TRUE) :
         /\ SyncAsset(IF call[c].pc = "src" THEN call[c].edge[1] ELSE call[c].edge[2], r)
         /\ call' = [call EXCEPT ![c].pc = IF @ = "src" THEN "dst" ELSE "edge",
                                 ![c].flawed = @ \/ r # "ok"]
    BY <1>2 DEF ProjectEndpoint
  <2>2. call[c].pc \in {"src", "dst"}
    BY <1>2 DEF ProjectEndpoint
  <2>3. /\ call'[c].kind = call[c].kind /\ call'[c].edge = call[c].edge
        /\ call'[c].pc = (IF call[c].pc = "src" THEN "dst" ELSE "edge")
        /\ ~call'[c].flawed => ~call[c].flawed /\ r = "ok"
        /\ \A d \in Calls \ {c} : call'[d] = call[d]
    BY <1>0, <2>1 DEF CallStates
  <2>4. r = "ok" => (IF call[c].pc = "src" THEN call[c].edge[1] ELSE call[c].edge[2]) \in nodes'
    BY <2>1 DEF SyncAsset, Applied
  <2>5. Good(call'[c])
    BY <2>2, <2>3, <2>4 DEF Attaching
  <2> QED BY <2>3, <2>5 DEF Attaching
<1>3. CASE DrawEdge(c)
  <2>1. PICK r \in Results(TRUE) :
         /\ UpsertReachability(call[c].edge, r)
         /\ call' = [call EXCEPT ![c].pc = IF r = "ok" THEN "created" ELSE "refused"]
    BY <1>3 DEF DrawEdge
  <2>2. call[c].pc = "edge"
    BY <1>3 DEF DrawEdge
  <2>3. /\ call'[c].kind = call[c].kind /\ call'[c].edge = call[c].edge
        /\ call'[c].flawed = call[c].flawed
        /\ call'[c].pc = (IF r = "ok" THEN "created" ELSE "refused")
        /\ \A d \in Calls \ {c} : call'[d] = call[d]
    BY <1>0, <2>1 DEF CallStates
  <2>4. r = "ok" /\ Matched(call[c].edge) => call[c].edge \in reach'
    BY <2>1 DEF UpsertReachability, Applied
  <2>5. Good(call'[c])
    BY <2>2, <2>3, <2>4 DEF Attaching, Matched
  <2> QED BY <2>3, <2>5 DEF Attaching
<1> QED BY <1>1, <1>2, <1>3 DEF EdgeCall

\* importTopology projects both endpoints before it draws the edge, so an edge that it
\* counted is there, unless one of its own calls failed or the graph was lost.
THEOREM ImportedIsThere == Spec => []TopologyAttaches
<1>1. Init => Attaching
  BY DEF Init, Attaching
<1>2. ASSUME Shape, Attaching, [Next]_vars PROVE Attaching'
  <2>1. CASE LoseGraph
    <3>1. \A c \in Calls : call'[c].pc = "idle" \/ call'[c].flawed = TRUE
      BY <1>2, <2>1, CallTypes DEF LoseGraph, CallStates
    <3> QED BY <3>1 DEF Attaching
  <2>2. CASE ~LoseGraph /\ UNCHANGED call
    BY <1>2, <2>2, GraphGrows DEF Attaching
  <2>3. CASE ~LoseGraph /\ \E c \in Calls : EdgeCall(c)
    BY <1>2, <2>3, GraphGrows, EdgeCallAttaches
  <2> QED BY <1>2, <2>1, <2>2, <2>3, OthersKeep
<1>3. Attaching => TopologyAttaches
  BY DEF Attaching, TopologyAttaches
<1> QED BY <1>1, <1>2, <1>3, AlwaysShape, PTL DEF Spec

-----------------------------------------------------------------------------
(* A graphSync that answered 200.                                          *)

\* A scan that has begun keeps its asset.
LEMMA AssetsStay ==
  ASSUME Shape, [Next]_vars
  PROVE  \A f \in findings : AssetOf(f)' = AssetOf(f)
<1>0. scan \in [Scans -> ScanStates]
  BY DEF Shape, ScanShape
<1>1. SUFFICES \A s \in Scans : scan[s].pc # "queued" => scan'[s].asset = scan[s].asset
  BY DEF Shape, GraphShape, ScanShape, AssetOf
<1>2. ASSUME NEW s \in Scans, Process(s) \/ Fail(s)
      PROVE  \A t \in Scans : scan[t].pc # "queued" => scan'[t].asset = scan[t].asset
  <2>1. CASE ProjectAsset(s)
    BY <1>0, <2>1 DEF ProjectAsset, ScanStates
  <2>2. CASE StoreFinding(s)
    BY <1>0, <2>2 DEF StoreFinding, ScanStates
  <2>3. CASE ProjectFinding(s)
    BY <1>0, <2>3 DEF ProjectFinding, ScanStates
  <2>4. CASE ListPeers(s)
    BY <1>0, <2>4 DEF ListPeers, Draw, ScanStates
  <2>5. CASE DrawPeer(s)
    BY <1>0, <2>5 DEF DrawPeer, Draw, ScanStates
  <2>6. CASE Fail(s)
    BY <1>0, <2>6 DEF Fail, ScanStates
  <2> QED BY <1>2, <2>1, <2>2, <2>3, <2>4, <2>5, <2>6 DEF Process
<1>3. ASSUME LoseGraph
      PROVE  \A t \in Scans : scan'[t].asset = scan[t].asset
  BY <1>0, <1>3 DEF LoseGraph, ScanStates
<1>4. \A a \in Assets : CreateAsset(a) => UNCHANGED scan
  BY DEF CreateAsset
<1>5. \A q \in Syncs : GraphSync(q) => UNCHANGED scan
  BY DEF GraphSync, SyncBegin, SyncNextAsset, SyncListFindings, SyncNextFinding
<1>6. \A c \in Calls : EdgeCall(c) => UNCHANGED scan
  BY DEF EdgeCall, Resolve, ProjectEndpoint, DrawEdge
<1>7. Idle \/ UNCHANGED vars => UNCHANGED scan
  BY DEF Idle, vars
<1> QED BY <1>2, <1>3, <1>4, <1>5, <1>6, <1>7 DEF Next

\* What a request that has not failed has left to do, of the rows it began with: their
\* assets are in nodes or still in todo; their findings are in vulns, or wait for the
\* asset, the list or the loop over it.
Resyncing == \A q \in Syncs :
  /\ sync[q].pc \in {"assets", "list", "vulns", "ok"} =>
       /\ sync[q].base \subseteq nodes \cup sync[q].todo
       /\ \A f \in sync[q].baseFound :
            \/ f \in vulns
            \/ AssetOf(f) \in sync[q].todo
            \/ sync[q].pc = "list" /\ AssetOf(f) = sync[q].cur
            \/ sync[q].pc = "vulns" /\ f \in sync[q].left
  /\ sync[q].pc = "ok" => sync[q].todo = {}
  /\ sync[q].pc \in {"list", "vulns"} => sync[q].cur \in nodes
  /\ sync[q].pc = "vulns" => \A f \in sync[q].left : AssetOf(f) = sync[q].cur

LEMMA SyncKeeps ==
  ASSUME [Next]_vars
  PROVE  \/ UNCHANGED sync
         \/ \E q \in Syncs : GraphSync(q)
<1>1. \A a \in Assets : CreateAsset(a) => UNCHANGED sync
  BY DEF CreateAsset
<1>2. \A s \in Scans : Process(s) \/ Fail(s) => UNCHANGED sync
  BY DEF Process, ProjectAsset, StoreFinding, ProjectFinding, ListPeers, DrawPeer, Fail
<1>3. \A c \in Calls : EdgeCall(c) => UNCHANGED sync
  BY DEF EdgeCall, Resolve, ProjectEndpoint, DrawEdge
<1>4. Idle \/ LoseGraph \/ UNCHANGED vars => UNCHANGED sync
  BY DEF Idle, LoseGraph, vars
<1> QED BY <1>1, <1>2, <1>3, <1>4 DEF Next

LEMMA GraphSyncProgress ==
  ASSUME Shape, Resyncing, NEW q \in Syncs, GraphSync(q),
         nodes \subseteq nodes', vulns \subseteq vulns',
         \A f \in findings : AssetOf(f)' = AssetOf(f)
  PROVE  Resyncing'
<1>0. /\ sync \in [Syncs -> SyncStates] /\ sync[q] \in SyncStates
      /\ \A p \in Syncs : sync[p].baseFound \subseteq findings /\ sync[p].left \subseteq findings
  BY SyncTypes DEF Shape, SyncShape
<1>a. /\ sync[q].pc \in {"assets", "list", "vulns", "ok"} =>
            /\ sync[q].base \subseteq nodes \cup sync[q].todo
            /\ \A f \in sync[q].baseFound :
                 \/ f \in vulns
                 \/ AssetOf(f) \in sync[q].todo
                 \/ sync[q].pc = "list" /\ AssetOf(f) = sync[q].cur
                 \/ sync[q].pc = "vulns" /\ f \in sync[q].left
      /\ sync[q].pc = "ok" => sync[q].todo = {}
      /\ sync[q].pc \in {"list", "vulns"} => sync[q].cur \in nodes
      /\ sync[q].pc = "vulns" => \A f \in sync[q].left : AssetOf(f) = sync[q].cur
  BY DEF Resyncing
<1> DEFINE Good(x) ==
  /\ x.pc \in {"assets", "list", "vulns", "ok"} =>
       /\ x.base \subseteq nodes' \cup x.todo
       /\ \A f \in x.baseFound :
            \/ f \in vulns'
            \/ AssetOf(f) \in x.todo
            \/ x.pc = "list" /\ AssetOf(f) = x.cur
            \/ x.pc = "vulns" /\ f \in x.left
  /\ x.pc = "ok" => x.todo = {}
  /\ x.pc \in {"list", "vulns"} => x.cur \in nodes'
  /\ x.pc = "vulns" => \A f \in x.left : AssetOf(f) = x.cur
<1>1. SUFFICES /\ Good(sync'[q]) /\ \A p \in Syncs \ {q} : sync'[p] = sync[p]
               /\ sync'[q].baseFound \subseteq findings /\ sync'[q].left \subseteq findings
  BY <1>0 DEF Resyncing
<1>2. CASE SyncBegin(q)
  <2>1. PICK r \in Results(TRUE) :
         sync' = [sync EXCEPT ![q].pc = IF r = "ok" THEN Onward({}, assets) ELSE "failed",
                              ![q].todo = assets, ![q].base = assets,
                              ![q].baseFound = findings]
    BY <1>2 DEF SyncBegin
  <2>2. /\ sync'[q].pc = (IF r = "ok" THEN Onward({}, assets) ELSE "failed")
        /\ sync'[q].todo = assets /\ sync'[q].base = assets /\ sync'[q].baseFound = findings
        /\ sync'[q].left = sync[q].left
        /\ \A p \in Syncs \ {q} : sync'[p] = sync[p]
    BY <1>0, <2>1 DEF SyncStates
  <2>3. \A f \in findings : AssetOf(f) \in assets
    BY DEF Shape, GraphShape, ScanShape, AssetOf
  <2>4. sync'[q].pc \in {"assets", "ok", "failed"} /\ (sync'[q].pc = "ok" => assets = {})
    BY <2>2 DEF Onward
  <2>7. sync'[q].pc # "failed" => sync'[q].base \subseteq nodes' \cup sync'[q].todo
    BY <2>2, <2>3, <2>4
  <2>8. sync'[q].pc # "failed" => \A g \in sync'[q].baseFound :
          \/ g \in vulns'
          \/ AssetOf(g) \in sync'[q].todo
          \/ sync'[q].pc = "list" /\ AssetOf(g) = sync'[q].cur
          \/ sync'[q].pc = "vulns" /\ g \in sync'[q].left
    BY <2>2, <2>3, <2>4
  <2>9. /\ sync'[q].pc \in {"list", "vulns"} => sync'[q].cur \in nodes'
        /\ sync'[q].pc = "vulns" => \A g \in sync'[q].left : AssetOf(g) = sync'[q].cur
        /\ sync'[q].pc = "ok" => sync'[q].todo = {}
    BY <2>2, <2>3, <2>4
  <2>10. /\ sync'[q].baseFound \subseteq findings /\ sync'[q].left \subseteq findings
         /\ \A p \in Syncs \ {q} : sync'[p] = sync[p]
    BY <1>0, <2>2
  <2>11. Good(sync'[q])
    BY <2>7, <2>8, <2>9
  <2> QED BY <2>10, <2>11
<1>3. CASE SyncNextAsset(q)
  <2>1. PICK a \in sync[q].todo, r \in Results(TRUE) :
         /\ SyncAsset(a, r)
         /\ sync' = [sync EXCEPT ![q].pc = Then(r, "list"), ![q].cur = a, ![q].todo = @ \ {a}]
    BY <1>3 DEF SyncNextAsset
  <2>2. /\ sync'[q].pc = Then(r, "list") /\ sync'[q].cur = a
        /\ sync'[q].todo = sync[q].todo \ {a} /\ sync'[q].left = sync[q].left
        /\ sync'[q].base = sync[q].base /\ sync'[q].baseFound = sync[q].baseFound
        /\ \A p \in Syncs \ {q} : sync'[p] = sync[p]
    BY <1>0, <2>1 DEF SyncStates
  <2>3. sync'[q].pc \in {"list", "failed"} /\ (sync'[q].pc = "list" => a \in nodes')
    BY <2>1, <2>2 DEF Then, Succeeded, SyncAsset, Applied
  <2>4. sync[q].pc = "assets"
    BY <1>3 DEF SyncNextAsset
  <2>7. sync'[q].pc # "failed" => sync'[q].base \subseteq nodes' \cup sync'[q].todo
    BY <1>a, <2>2, <2>3, <2>4
  <2>8. sync'[q].pc # "failed" => \A g \in sync'[q].baseFound :
          \/ g \in vulns'
          \/ AssetOf(g) \in sync'[q].todo
          \/ sync'[q].pc = "list" /\ AssetOf(g) = sync'[q].cur
          \/ sync'[q].pc = "vulns" /\ g \in sync'[q].left
    BY <1>a, <2>2, <2>3, <2>4
  <2>9. /\ sync'[q].pc \in {"list", "vulns"} => sync'[q].cur \in nodes'
        /\ sync'[q].pc = "vulns" => \A g \in sync'[q].left : AssetOf(g) = sync'[q].cur
        /\ sync'[q].pc = "ok" => sync'[q].todo = {}
    BY <1>a, <2>2, <2>3, <2>4
  <2>10. /\ sync'[q].baseFound \subseteq findings /\ sync'[q].left \subseteq findings
         /\ \A p \in Syncs \ {q} : sync'[p] = sync[p]
    BY <1>0, <2>2
  <2>11. Good(sync'[q])
    BY <2>7, <2>8, <2>9
  <2> QED BY <2>10, <2>11
<1>4. CASE SyncListFindings(q)
  <2> DEFINE found == {f \in findings : AssetOf(f) = sync[q].cur}
  <2>1. PICK r \in Results(TRUE) :
         sync' = [sync EXCEPT ![q].pc = Then(r, Onward(found, sync[q].todo)), ![q].left = found]
    BY <1>4 DEF SyncListFindings
  <2>2. /\ sync'[q].pc = Then(r, Onward(found, sync[q].todo)) /\ sync'[q].cur = sync[q].cur
        /\ sync'[q].todo = sync[q].todo /\ sync'[q].left = found
        /\ sync'[q].base = sync[q].base /\ sync'[q].baseFound = sync[q].baseFound
        /\ \A p \in Syncs \ {q} : sync'[p] = sync[p]
    BY <1>0, <2>1 DEF SyncStates
  <2>3. /\ sync'[q].pc \in {"vulns", "assets", "ok", "failed"}
        /\ sync'[q].pc \in {"assets", "ok"} => found = {}
        /\ sync'[q].pc = "ok" => sync[q].todo = {}
    BY <2>2 DEF Then, Onward
  <2>4. sync[q].pc = "list"
    BY <1>4 DEF SyncListFindings
  <2>7. sync'[q].pc # "failed" => sync'[q].base \subseteq nodes' \cup sync'[q].todo
    BY <1>a, <2>2, <2>3, <2>4
  <2>8. sync'[q].pc # "failed" => \A g \in sync'[q].baseFound :
          \/ g \in vulns'
          \/ AssetOf(g) \in sync'[q].todo
          \/ sync'[q].pc = "list" /\ AssetOf(g) = sync'[q].cur
          \/ sync'[q].pc = "vulns" /\ g \in sync'[q].left
    BY <1>0, <1>a, <2>2, <2>3, <2>4
  <2>9. /\ sync'[q].pc \in {"list", "vulns"} => sync'[q].cur \in nodes'
        /\ sync'[q].pc = "vulns" => \A g \in sync'[q].left : AssetOf(g) = sync'[q].cur
        /\ sync'[q].pc = "ok" => sync'[q].todo = {}
    BY <1>a, <2>2, <2>3, <2>4
  <2>10. /\ sync'[q].baseFound \subseteq findings /\ sync'[q].left \subseteq findings
         /\ \A p \in Syncs \ {q} : sync'[p] = sync[p]
    BY <1>0, <2>2
  <2>11. Good(sync'[q])
    BY <2>7, <2>8, <2>9
  <2> QED BY <2>10, <2>11
<1>5. CASE SyncNextFinding(q)
  <2>1. PICK f \in sync[q].left, r \in Results(TRUE) :
         /\ SyncFinding(f, r)
         /\ sync' = [sync EXCEPT ![q].pc = Then(r, Onward(sync[q].left \ {f}, sync[q].todo)),
                                 ![q].left = @ \ {f}]
    BY <1>5 DEF SyncNextFinding
  <2>2. /\ sync'[q].pc = Then(r, Onward(sync[q].left \ {f}, sync[q].todo))
        /\ sync'[q].cur = sync[q].cur
        /\ sync'[q].todo = sync[q].todo /\ sync'[q].left = sync[q].left \ {f}
        /\ sync'[q].base = sync[q].base /\ sync'[q].baseFound = sync[q].baseFound
        /\ \A p \in Syncs \ {q} : sync'[p] = sync[p]
    BY <1>0, <2>1 DEF SyncStates
  <2>3. /\ sync'[q].pc \in {"vulns", "assets", "ok", "failed"}
        /\ sync'[q].pc \in {"assets", "ok"} => sync[q].left \ {f} = {}
        /\ sync'[q].pc = "ok" => sync[q].todo = {}
        /\ sync'[q].pc # "failed" => r = "ok"
    BY <2>2 DEF Then, Onward, Succeeded
  <2>4. sync[q].pc = "vulns"
    BY <1>5 DEF SyncNextFinding
  <2>5. AssetOf(f) \in nodes
    BY <2>4 DEF Resyncing
  <2>6. r = "ok" => f \in vulns'
    BY <2>1, <2>5 DEF SyncFinding, Applied
  <2>7. sync'[q].pc # "failed" => sync'[q].base \subseteq nodes' \cup sync'[q].todo
    BY <1>a, <2>2, <2>3, <2>4, <2>6
  <2>8. sync'[q].pc # "failed" => \A g \in sync'[q].baseFound :
          \/ g \in vulns'
          \/ AssetOf(g) \in sync'[q].todo
          \/ sync'[q].pc = "list" /\ AssetOf(g) = sync'[q].cur
          \/ sync'[q].pc = "vulns" /\ g \in sync'[q].left
    BY <1>a, <2>2, <2>3, <2>4, <2>6
  <2>9. /\ sync'[q].pc \in {"list", "vulns"} => sync'[q].cur \in nodes'
        /\ sync'[q].pc = "vulns" => \A g \in sync'[q].left : AssetOf(g) = sync'[q].cur
        /\ sync'[q].pc = "ok" => sync'[q].todo = {}
    BY <1>a, <2>2, <2>3, <2>4, <2>6
  <2>10. /\ sync'[q].baseFound \subseteq findings /\ sync'[q].left \subseteq findings
         /\ \A p \in Syncs \ {q} : sync'[p] = sync[p]
    BY <1>0, <2>2
  <2>11. Good(sync'[q])
    BY <2>7, <2>8, <2>9
  <2> QED BY <2>10, <2>11
<1> QED BY <1>2, <1>3, <1>4, <1>5 DEF GraphSync

\* graphSync stops at the first error, so a 200 means that every asset and finding
\* committed when it began is in the graph, whatever scans and other requests do.
THEOREM ResyncIsComplete == Spec => []SyncIsComplete
<1>1. Init => Resyncing
  BY DEF Init, Resyncing
<1>2. ASSUME Shape, Resyncing, [Next]_vars PROVE Resyncing'
  <2>0. /\ \A f \in findings : AssetOf(f)' = AssetOf(f)
        /\ \A q \in Syncs : sync[q].baseFound \subseteq findings /\ sync[q].left \subseteq findings
    BY <1>2, AssetsStay, SyncTypes
  <2>1. CASE LoseGraph
    BY <2>1 DEF LoseGraph, Resyncing
  <2>2. CASE ~LoseGraph /\ UNCHANGED sync
    BY <1>2, <2>0, <2>2, GraphGrows DEF Resyncing
  <2>3. CASE ~LoseGraph /\ \E q \in Syncs : GraphSync(q)
    BY <1>2, <2>0, <2>3, GraphGrows, GraphSyncProgress
  <2> QED BY <1>2, <2>1, <2>2, <2>3, SyncKeeps
<1>3. Resyncing => SyncIsComplete
  BY DEF Resyncing, SyncIsComplete
<1> QED BY <1>1, <1>2, <1>3, AlwaysShape, PTL DEF Spec

-----------------------------------------------------------------------------
(* The mesh of a private /24.                                              *)

Listed(x)   == x.pc \in {"draw", "done"} /\ ~x.flawed
Mates(x, y) == /\ Listed(x) /\ Listed(y) /\ x.asset # y.asset
               /\ \E n \in Subnets : {x.asset, y.asset} \subseteq n

\* Between two scans that have listed their peers, each edge is drawn or is still to be
\* drawn by one of them: the scan that listed last found the other's asset.
Meshing ==
  /\ \A s \in Scans : /\ scan[s].pc # "queued" /\ ~scan[s].flawed => scan[s].asset \in nodes
                      /\ scan[s].pc = "done" => scan[s].todo = {}
  /\ \A s, t \in Scans : Mates(scan[s], scan[t]) =>
       <<scan[s].asset, scan[t].asset>> \in reach \cup scan[s].todo \cup scan[t].todo

LEMMA ScanTypes ==
  ASSUME Shape
  PROVE  /\ scan \in [Scans -> ScanStates]
         /\ \A s \in Scans : scan[s].pc # "queued" => scan[s].asset \in assets
  BY DEF Shape, ScanShape

\* A step of a scan that lists nothing and draws nothing: x is its new state.
LEMMA QuietStep ==
  ASSUME Shape, Meshing, nodes \subseteq nodes', reach \subseteq reach',
         NEW s \in Scans, NEW x, scan' = [scan EXCEPT ![s] = x],
         ~x.flawed /\ x.pc # "queued" => x.asset \in nodes',
         x.pc = "done" => x.todo = {},
         Listed(x) => Listed(scan[s]) /\ x.asset = scan[s].asset /\ x.todo = scan[s].todo
  PROVE  Meshing'
<1>1. scan'[s] = x /\ \A t \in Scans \ {s} : scan'[t] = scan[t]
  BY ScanTypes
<1>2. \A t \in Scans : /\ scan'[t].pc # "queued" /\ ~scan'[t].flawed => scan'[t].asset \in nodes'
                       /\ scan'[t].pc = "done" => scan'[t].todo = {}
  BY <1>1 DEF Meshing
<1>3. \A t \in Scans : Listed(scan'[t]) => /\ Listed(scan[t]) /\ scan'[t].asset = scan[t].asset
                                           /\ scan'[t].todo = scan[t].todo
  BY <1>1
<1>4. \A t, u \in Scans : Mates(scan'[t], scan'[u]) => Mates(scan[t], scan[u])
  BY <1>3 DEF Mates
<1>5. \A t, u \in Scans : Mates(scan'[t], scan'[u]) => Listed(scan'[t]) /\ Listed(scan'[u])
  BY DEF Mates
<1> QED BY <1>2, <1>3, <1>4, <1>5 DEF Meshing

LEMMA ListPeersMesh ==
  ASSUME Shape, Meshing, NEW s \in Scans, ListPeers(s) PROVE Meshing'
<1> DEFINE e == Drawn(scan[s].asset, Peers(scan[s].asset))
<1>1. PICK r \in Results(~scan[s].expired) :
         scan' = [scan EXCEPT ![s] = IF r = "ok" THEN Draw(scan[s], e, FALSE)
                                     ELSE Draw(scan[s], {}, TRUE)]
  BY DEF ListPeers
<1>2. UNCHANGED <<assets, nodes, reach>> /\ scan[s].pc = "scan"
  BY DEF ListPeers, graph
<1>3. scan[s] \in ScanStates
  BY ScanTypes
<1>4. CASE r # "ok"
  <2> DEFINE x == Draw(scan[s], {}, TRUE)
  <2>1. x.flawed = TRUE /\ x.todo = {}
    BY <1>3 DEF Draw, ScanStates
  <2>2. scan' = [scan EXCEPT ![s] = x] /\ ~Listed(x)
    BY <1>1, <1>4, <2>1 DEF Listed
  <2> HIDE DEF x
  <2> QED BY <1>2, <2>1, <2>2, QuietStep
<1>5. CASE r = "ok"
  <2>1. /\ scan'[s].asset = scan[s].asset /\ scan'[s].todo = e
        /\ scan'[s].flawed = scan[s].flawed
        /\ scan'[s].pc = (IF e = {} THEN "done" ELSE "draw")
        /\ \A t \in Scans \ {s} : scan'[t] = scan[t]
    <3> HIDE DEF e
    <3> QED BY <1>1, <1>3, <1>5, ScanTypes DEF Draw, ScanStates
  <2>2. ASSUME NEW t \in Scans \ {s}, Listed(scan[t]), scan[s].asset # scan[t].asset,
               NEW n \in Subnets, {scan[s].asset, scan[t].asset} \subseteq n
        PROVE  <<scan[s].asset, scan[t].asset>> \in e /\ <<scan[t].asset, scan[s].asset>> \in e
    <3>1. scan[t].asset \in assets
      BY <2>2, ScanTypes DEF Listed
    <3>2. scan[t].asset \in Peers(scan[s].asset)
      BY <2>2, <3>1 DEF Peers
    <3> QED BY <3>2 DEF Drawn
  <2>3. \A t \in Scans : /\ scan'[t].pc # "queued" /\ ~scan'[t].flawed => scan'[t].asset \in nodes'
                         /\ scan'[t].pc = "done" => scan'[t].todo = {}
    <3> HIDE DEF e
    <3> QED BY <1>2, <2>1 DEF Meshing
  <2> HIDE DEF e
  <2>4. ASSUME NEW u \in Scans, NEW v \in Scans, Mates(scan'[u], scan'[v])
        PROVE  <<scan'[u].asset, scan'[v].asset>> \in reach' \cup scan'[u].todo \cup scan'[v].todo
    <3>1. CASE u = s
      BY <2>1, <2>2, <2>4, <3>1 DEF Mates
    <3>2. CASE v = s
      BY <2>1, <2>2, <2>4, <3>2 DEF Mates
    <3>3. CASE u # s /\ v # s
      BY <1>2, <2>1, <2>4, <3>3 DEF Meshing
    <3> QED BY <3>1, <3>2, <3>3
  <2> QED BY <2>3, <2>4 DEF Meshing
<1> QED BY <1>4, <1>5

LEMMA DrawPeerMesh ==
  ASSUME Shape, Meshing, NEW s \in Scans, DrawPeer(s) PROVE Meshing'
<1>1. PICK e \in scan[s].todo, r \in Results(~scan[s].expired) :
         /\ UpsertReachability(e, r)
         /\ scan' = [scan EXCEPT ![s] = Draw(scan[s], scan[s].todo \ {e}, r # "ok")]
  BY DEF DrawPeer
<1> DEFINE rest == scan[s].todo \ {e}
<1>2. UNCHANGED <<assets, nodes>> /\ scan[s].pc = "draw" /\ reach \subseteq reach'
  BY <1>1 DEF DrawPeer, UpsertReachability
<1>3. scan[s] \in ScanStates
  BY ScanTypes
<1>4. /\ scan'[s].asset = scan[s].asset /\ scan'[s].todo = rest
      /\ scan'[s].pc = (IF rest = {} THEN "done" ELSE "draw")
      /\ ~scan'[s].flawed => ~scan[s].flawed /\ r = "ok"
      /\ \A t \in Scans \ {s} : scan'[t] = scan[t]
  <2> HIDE DEF rest
  <2>1. scan' = [scan EXCEPT ![s] = Draw(scan[s], rest, r # "ok")]
    BY <1>1 DEF rest
  <2> QED BY <1>3, <2>1, ScanTypes DEF Draw, ScanStates
<1>5. r = "ok" /\ Matched(e) => e \in reach'
  BY <1>1 DEF UpsertReachability, Applied
<1>6. \A t \in Scans : /\ scan'[t].pc # "queued" /\ ~scan'[t].flawed => scan'[t].asset \in nodes'
                       /\ scan'[t].pc = "done" => scan'[t].todo = {}
  <2> HIDE DEF rest
  <2> QED BY <1>2, <1>4 DEF Meshing
<1>7. \A t \in Scans : Listed(scan'[t]) => /\ Listed(scan[t]) /\ scan'[t].asset = scan[t].asset
                                           /\ t = s => r = "ok"
                                           /\ scan[t].todo \ {e} \subseteq scan'[t].todo
                                           /\ scan[t].asset \in nodes
  <2>1. Listed(scan'[s]) => Listed(scan[s]) /\ r = "ok"
    BY <1>2, <1>4 DEF Listed
  <2>2. \A t \in Scans : Listed(scan[t]) => scan[t].asset \in nodes
    BY DEF Listed, Meshing
  <2> QED BY <1>4, <2>1, <2>2
<1>8. ASSUME NEW u \in Scans, NEW v \in Scans, Mates(scan'[u], scan'[v])
      PROVE  <<scan'[u].asset, scan'[v].asset>> \in reach' \cup scan'[u].todo \cup scan'[v].todo
  <2>0. Listed(scan'[u]) /\ Listed(scan'[v]) /\ Mates(scan[u], scan[v])
    BY <1>7, <1>8 DEF Mates
  <2> DEFINE d == <<scan[u].asset, scan[v].asset>>
  <2>1. d \in reach \cup scan[u].todo \cup scan[v].todo
    BY <2>0 DEF Meshing
  <2>2. Matched(d) /\ d = <<scan'[u].asset, scan'[v].asset>>
    BY <1>7, <2>0 DEF Matched
  <2> HIDE DEF d
  <2>3. CASE u = s \/ v = s
    BY <1>2, <1>5, <1>7, <2>0, <2>1, <2>2, <2>3
  <2>4. CASE u # s /\ v # s
    BY <1>2, <1>4, <2>1, <2>2, <2>4
  <2> QED BY <2>3, <2>4
<1> QED BY <1>6, <1>8 DEF Meshing

LEMMA ProcessMesh ==
  ASSUME Shape, Meshing, NEW s \in Scans, Process(s) \/ Fail(s),
         nodes \subseteq nodes', reach \subseteq reach'
  PROVE  Meshing'
<1>1. scan[s] \in ScanStates
  BY ScanTypes
<1>2. scan[s].pc # "queued" /\ ~scan[s].flawed => scan[s].asset \in nodes
  BY DEF Meshing
<1>3. CASE ProjectAsset(s)
  <2>1. PICK a \in assets, r \in Results(TRUE) :
         /\ SyncAsset(a, r)
         /\ scan' = [scan EXCEPT ![s].pc = "scan", ![s].asset = a, ![s].flawed = r # "ok"]
    BY <1>3 DEF ProjectAsset
  <2> DEFINE x == [scan[s] EXCEPT !.pc = "scan", !.asset = a, !.flawed = r # "ok"]
  <2>2. x.pc = "scan" /\ x.asset = a /\ (~x.flawed => r = "ok")
    BY <1>1 DEF ScanStates
  <2>3. r = "ok" => a \in nodes'
    BY <2>1 DEF SyncAsset, Applied
  <2>4. scan' = [scan EXCEPT ![s] = x]
    BY <2>1
  <2> HIDE DEF x
  <2> QED BY <2>2, <2>3, <2>4, QuietStep DEF Listed
<1>4. CASE StoreFinding(s)
  <2>1. PICK r \in Results(~scan[s].expired) :
         scan' = [scan EXCEPT ![s].made = @ + 1, ![s].pc = IF Kept(r) THEN "vuln" ELSE "scan"]
    BY <1>4 DEF StoreFinding
  <2> DEFINE x == [scan[s] EXCEPT !.made = @ + 1, !.pc = IF Kept(r) THEN "vuln" ELSE "scan"]
  <2>2. x.pc \in {"vuln", "scan"} /\ x.asset = scan[s].asset /\ x.flawed = scan[s].flawed
    BY <1>1 DEF ScanStates
  <2>3. scan' = [scan EXCEPT ![s] = x] /\ scan[s].pc = "scan"
    BY <1>4, <2>1 DEF StoreFinding
  <2> HIDE DEF x
  <2> QED BY <1>2, <2>2, <2>3, QuietStep DEF Listed
<1>5. CASE ProjectFinding(s)
  <2>1. PICK r \in Results(~scan[s].expired) :
         scan' = [scan EXCEPT ![s].pc = "scan", ![s].flawed = @ \/ r # "ok"]
    BY <1>5 DEF ProjectFinding
  <2> DEFINE x == [scan[s] EXCEPT !.pc = "scan", !.flawed = @ \/ r # "ok"]
  <2>2. x.pc = "scan" /\ x.asset = scan[s].asset /\ (~x.flawed => ~scan[s].flawed)
    BY <1>1 DEF ScanStates
  <2>3. scan' = [scan EXCEPT ![s] = x] /\ scan[s].pc = "vuln"
    BY <1>5, <2>1 DEF ProjectFinding
  <2> HIDE DEF x
  <2> QED BY <1>2, <2>2, <2>3, QuietStep DEF Listed
<1>6. CASE Fail(s)
  <2>0. scan[s].pc \in {"scan", "vuln", "draw"}
    BY <1>6 DEF Fail
  <2>1. CASE scan' = [scan EXCEPT ![s].expired = TRUE]
    <3> DEFINE x == [scan[s] EXCEPT !.expired = TRUE]
    <3>1. /\ x.pc = scan[s].pc /\ x.asset = scan[s].asset /\ x.todo = scan[s].todo
          /\ x.flawed = scan[s].flawed
      BY <1>1 DEF ScanStates
    <3>2. scan' = [scan EXCEPT ![s] = x]
      BY <2>1
    <3> HIDE DEF x
    <3> QED BY <1>2, <2>0, <3>1, <3>2, QuietStep DEF Listed
  <2>2. CASE scan' = [scan EXCEPT ![s].pc = "dead"]
    <3> DEFINE x == [scan[s] EXCEPT !.pc = "dead"]
    <3>1. x.pc = "dead" /\ x.asset = scan[s].asset /\ x.flawed = scan[s].flawed
      BY <1>1 DEF ScanStates
    <3>2. scan' = [scan EXCEPT ![s] = x]
      BY <2>2
    <3> HIDE DEF x
    <3> QED BY <1>2, <2>0, <3>1, <3>2, QuietStep DEF Listed
  <2> QED BY <1>6, <2>1, <2>2 DEF Fail
<1> QED BY <1>3, <1>4, <1>5, <1>6, ListPeersMesh, DrawPeerMesh DEF Process

LEMMA ScanKeeps ==
  ASSUME [Next]_vars
  PROVE  \/ UNCHANGED scan
         \/ LoseGraph
         \/ \E s \in Scans : Process(s) \/ Fail(s)
<1>1. \A a \in Assets : CreateAsset(a) => UNCHANGED scan
  BY DEF CreateAsset
<1>2. \A q \in Syncs : GraphSync(q) => UNCHANGED scan
  BY DEF GraphSync, SyncBegin, SyncNextAsset, SyncListFindings, SyncNextFinding
<1>3. \A c \in Calls : EdgeCall(c) => UNCHANGED scan
  BY DEF EdgeCall, Resolve, ProjectEndpoint, DrawEdge
<1>4. Idle \/ UNCHANGED vars => UNCHANGED scan
  BY DEF Idle, vars
<1> QED BY <1>1, <1>2, <1>3, <1>4 DEF Next

\* deriveSubnetReachability draws both directions, so two assets of one private /24 end up
\* linked whichever scan listed the assets last, unless a call of one of them failed.
THEOREM SubnetIsMeshed == Spec => []SubnetMeshed
<1>1. Init => Meshing
  BY DEF Init, Meshing, Mates, Listed
<1>2. ASSUME Shape, Meshing, [Next]_vars PROVE Meshing'
  <2>1. CASE LoseGraph
    <3>1. \A s \in Scans : /\ scan'[s].flawed = TRUE /\ scan'[s].pc = scan[s].pc
                           /\ scan'[s].todo = scan[s].todo
      BY <1>2, <2>1, ScanTypes DEF LoseGraph, ScanStates
    <3>2. \A s, t \in Scans : ~Mates(scan'[s], scan'[t])
      BY <3>1 DEF Mates, Listed
    <3> QED BY <1>2, <3>1, <3>2 DEF Meshing
  <2>2. CASE ~LoseGraph /\ UNCHANGED scan
    BY <1>2, <2>2, GraphGrows DEF Meshing
  <2>3. CASE ~LoseGraph /\ \E s \in Scans : Process(s) \/ Fail(s)
    BY <1>2, <2>3, GraphGrows, ProcessMesh
  <2> QED BY <1>2, <2>1, <2>2, <2>3, ScanKeeps
<1>3. Meshing => SubnetMeshed
  <2>1. ASSUME Meshing, NEW s \in Scans, NEW t \in Scans, NEW n \in Subnets,
               \A u \in {s, t} : scan[u].pc = "done" /\ ~scan[u].flawed /\ scan[u].asset \in n,
               scan[s].asset # scan[t].asset
        PROVE  <<scan[s].asset, scan[t].asset>> \in reach
    <3>1. Mates(scan[s], scan[t])
      BY <2>1 DEF Mates, Listed
    <3>2. scan[s].todo = {} /\ scan[t].todo = {}
      BY <2>1 DEF Meshing
    <3> QED BY <2>1, <3>1, <3>2 DEF Meshing
  <2> QED BY <2>1 DEF SubnetMeshed
<1> QED BY <1>1, <1>2, <1>3, AlwaysShape, PTL DEF Spec
=============================================================================
