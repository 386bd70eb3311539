------------------------ MODULE PrivilegeGraphProofs ------------------------
(***************************************************************************)
(* Theorems about the privilege layer of the graph, for any sets of hosts, *)
(* credentials, scans and requests, any bounds and any failures.           *)
(***************************************************************************)
EXTENDS PrivilegeGraph, InductionLemmas, FiniteSetTheorems

-----------------------------------------------------------------------------
(* Shape.                                                                  *)

GraphShape ==
  /\ nodes \subseteq Hosts
  /\ accounts \subseteq Accounts /\ \A a \in accounts : HostOf(a) \in nodes
  /\ exposed \subseteq Hosts \X Creds
  /\ \A e \in exposed : {Foothold(e[1]), Root(e[1])} \subseteq accounts
  /\ escalate \in [Pairs -> Nat]
  /\ \A p \in Pairs : escalate[p] > 0 => {p[1], p[2]} \subseteq accounts
  /\ reuse \in [Pairs -> Nat]
  /\ \A p \in Pairs : reuse[p] > 0 => {p[1], p[2]} \subseteq accounts
  /\ failures \in 0..MaxFailures

\* A scan without a failed call has its host in the graph, so that its MATCH finds it,
\* and its credential is recorded before it infers.
ScanShape ==
  /\ scan \in [Scans -> ScanStates]
  /\ \A s \in Scans :
       /\ scan[s].pc # "queued" => scan[s].host \in Hosts
       /\ scan[s].pc = "infer" => scan[s].fp \in Creds
       /\ scan[s].pc # "queued" /\ ~scan[s].flawed => scan[s].host \in nodes
       /\ scan[s].pc = "infer" /\ ~scan[s].flawed => <<scan[s].host, scan[s].fp>> \in exposed

CallShape ==
  /\ call \in [Calls -> CallStates]
  /\ \A c \in Calls :
       /\ call[c].pc = "account" => call[c].kind = "account" /\ call[c].host \in nodes
       /\ call[c].pc = "created" =>
            \/ call[c].kind = "account" /\ <<c, call[c].host>> \in accounts
            \/ call[c].kind = "escalation" /\ call[c].edge \in Pairs /\ escalate[call[c].edge] > 0
            \/ call[c].kind = "reuse" /\ call[c].edge \in Pairs /\ reuse[call[c].edge] > 0

HistShape ==
  hist \in [derived : SUBSET (Hosts \X (30..900)), inferred : SUBSET (Hosts \X Creds),
            edited : SUBSET ({"escalation", "reuse"} \X Pairs)]

Shape == GraphShape /\ ScanShape /\ CallShape /\ HistShape

\* Nothing is ever removed from the layer.
Grows ==
  /\ nodes \subseteq nodes' /\ accounts \subseteq accounts' /\ exposed \subseteq exposed'
  /\ \A p \in Pairs : /\ escalate[p] > 0 => escalate'[p] > 0
                      /\ reuse[p] > 0 => reuse'[p] > 0

LEMMA ShapeParts == Shape => TypeOK /\ CreatedIsThere
  BY DEF Shape, GraphShape, ScanShape, CallShape, TypeOK, CreatedIsThere

LEMMA InitShape == Init => Shape
<1> SUFFICES ASSUME Init PROVE Shape
  OBVIOUS
<1>1. GraphShape
  BY PrivilegeAssumption DEF Init, GraphShape
<1>2. ScanShape
  BY PrivilegeAssumption DEF Init, ScanShape, ScanStates
<1>3. CallShape
  BY DEF Init, CallShape, CallStates
<1>4. HistShape
  BY DEF Init, HistShape
<1> QED BY <1>1, <1>2, <1>3, <1>4 DEF Shape

LEMMA ResultsType ==
  ASSUME NEW alive \in BOOLEAN
  PROVE  /\ Results(alive) \subseteq {"ok", "lost", "unknown"}
         /\ ~alive => Results(alive) = {"lost"}
         /\ \A r \in Results(alive) : alive /\ r # "ok" => failures < MaxFailures
  BY DEF Results

LEMMA CountShape ==
  ASSUME failures \in 0..MaxFailures, NEW alive \in BOOLEAN, NEW r \in Results(alive),
         Count(r, alive)
  PROVE  failures' \in 0..MaxFailures
  BY ResultsType, PrivilegeAssumption DEF Count

\* The accounts of a host, and its escalation edge.
LEMMA AutoAccounts ==
  ASSUME NEW h \in Hosts
  PROVE  /\ {Foothold(h), Root(h)} \subseteq Accounts
         /\ HostOf(Foothold(h)) = h /\ HostOf(Root(h)) = h
  BY DEF Foothold, Root, Accounts, HostOf

\* Two frames: what requests, and what scans, rely on when the other takes a step.
LEMMA CallFrame == ASSUME Shape, Grows, UNCHANGED call PROVE CallShape'
  BY DEF Shape, CallShape, Grows

LEMMA ScanFrame == ASSUME Shape, Grows, UNCHANGED scan PROVE ScanShape'
  BY DEF Shape, ScanShape, Grows

\* A step of one scan that has a host.
LEMMA ScanStep ==
  ASSUME Shape, Grows, NEW s \in Scans, NEW x \in ScanStates, scan' = [scan EXCEPT ![s] = x],
         x.host \in Hosts, x.pc = "infer" => x.fp \in Creds,
         ~x.flawed => x.host \in nodes',
         x.pc = "infer" /\ ~x.flawed => <<x.host, x.fp>> \in exposed'
  PROVE  ScanShape'
<1>1. /\ scan' \in [Scans -> ScanStates] /\ scan'[s] = x
      /\ \A t \in Scans \ {s} : scan'[t] = scan[t]
  BY DEF Shape, ScanShape
<1> QED BY <1>1 DEF Shape, ScanShape, Grows

-----------------------------------------------------------------------------
(* Updates of a scan's state.                                              *)

\* The ranges of a scan's fields, named so that a proof about an update sees a record of
\* seven fields and not their values.
PcRange   == {"queued", "run", "infer", "dead"}
HostRange == Hosts \cup {NoHost}
MadeRange == 0..MaxFindings
RiskRange == 0..1000
CredRange == Creds \cup {NoCred}

LEMMA Fields ==
  /\ ScanStates = [pc : PcRange, host : HostRange, made : MadeRange, risk : RiskRange,
                    fp : CredRange, expired : BOOLEAN, flawed : BOOLEAN]
  /\ {"run", "infer", "dead"} \subseteq PcRange /\ 0 \in RiskRange
  BY DEF ScanStates, PcRange, HostRange, MadeRange, RiskRange, CredRange

LEMMA Begun ==
  ASSUME NEW x \in ScanStates, NEW h \in HostRange, NEW b \in BOOLEAN
  PROVE  [x EXCEPT !.pc = "run", !.host = h, !.flawed = b] \in ScanStates
  BY Fields
LEMMA Leaked ==
  ASSUME NEW x \in ScanStates, NEW n \in MadeRange, NEW r \in RiskRange, NEW c \in CredRange
  PROVE  [x EXCEPT !.made = n, !.pc = "infer", !.risk = r, !.fp = c] \in ScanStates
  BY Fields
LEMMA Made ==
  ASSUME NEW x \in ScanStates, NEW n \in MadeRange, NEW b \in BOOLEAN
  PROVE  [x EXCEPT !.made = n, !.flawed = b] \in ScanStates
  BY Fields
LEMMA Linked ==
  ASSUME NEW x \in ScanStates, NEW b \in BOOLEAN
  PROVE  [x EXCEPT !.pc = "run", !.risk = 0, !.flawed = b] \in ScanStates
  BY Fields
LEMMA Failed ==
  ASSUME NEW x \in ScanStates
  PROVE  [x EXCEPT !.pc = "dead"] \in ScanStates /\ [x EXCEPT !.expired = TRUE] \in ScanStates
  BY Fields

-----------------------------------------------------------------------------
(* Steps of scans.                                                         *)

LEMMA ProjectAssetShape ==
  ASSUME Shape, NEW s \in Scans, ProjectAsset(s) PROVE Shape' /\ Grows
<1>1. PICK h \in Hosts, r \in Results(TRUE) :
         /\ nodes' = IF Applied(r) THEN nodes \cup {h} ELSE nodes
         /\ Count(r, TRUE)
         /\ scan' = [scan EXCEPT ![s].pc = "run", ![s].host = h, ![s].flawed = r # "ok"]
  BY DEF ProjectAsset
<1>2. /\ UNCHANGED <<accounts, exposed, escalate, reuse, call, hist>>
      /\ scan[s].pc = "queued" /\ scan[s] \in ScanStates
  BY DEF ProjectAsset, Shape, ScanShape
<1>3. Grows
  BY <1>1, <1>2 DEF Grows
<1>4. failures' \in 0..MaxFailures
  BY <1>1, CountShape DEF Shape, GraphShape
<1>5. GraphShape'
  BY <1>1, <1>2, <1>3, <1>4 DEF Shape, GraphShape
<1>6. PICK x : x = [scan[s] EXCEPT !.pc = "run", !.host = h, !.flawed = r # "ok"]
  OBVIOUS
<1>7. /\ x \in ScanStates /\ x.pc = "run" /\ x.host = h /\ (x.flawed <=> r # "ok")
      /\ scan' = [scan EXCEPT ![s] = x]
  <2>1. x \in ScanStates
    BY <1>2, <1>6, Begun DEF HostRange
  <2>2. x.pc = "run" /\ x.host = h /\ (x.flawed <=> r # "ok")
    BY <1>2, <1>6, ZenonT(60) DEF ScanStates
  <2>3. scan' = [scan EXCEPT ![s] = x]
    BY <1>1, <1>6
  <2> QED BY <2>1, <2>2, <2>3
<1>8. ~x.flawed => h \in nodes'
  BY <1>1, <1>7 DEF Applied
<1>9. ScanShape'
  BY <1>3, <1>7, <1>8, ScanStep
<1> QED BY <1>2, <1>3, <1>5, <1>9, CallFrame DEF Shape, HistShape

LEMMA PrivEscFindingShape ==
  ASSUME Shape, NEW s \in Scans, PrivEscFinding(s) PROVE Shape' /\ Grows
<1>1. PICK risk \in Risks, r \in Results(~scan[s].expired) :
         /\ AutoDeriveEscalation(scan[s].host, risk, r)
         /\ Count(r, ~scan[s].expired)
         /\ scan' = [scan EXCEPT ![s].made = @ + 1, ![s].flawed = @ \/ r # "ok"]
  BY DEF PrivEscFinding
<1>2. /\ UNCHANGED <<nodes, exposed, reuse, call>>
      /\ scan[s].pc = "run" /\ scan[s].made < MaxFindings
      /\ scan[s] \in ScanStates /\ scan[s].host \in Hosts
      /\ ~scan[s].flawed => scan[s].host \in nodes
  BY DEF PrivEscFinding, Shape, ScanShape
<1> DEFINE h == scan[s].host
           w == AutoEscalationWeight(risk)
<1>3. w \in 30..900
  <2>1. risk \in 0..1000
    BY PrivilegeAssumption
  <2> QED BY <2>1 DEF AutoEscalationWeight, Clamp
<1>4. failures' \in 0..MaxFailures
  BY <1>1, <1>2, CountShape, ZenonT(60) DEF Shape, GraphShape, ScanStates
<1>5. GraphShape' /\ Grows /\ HistShape'
  <2>1. CASE Applied(r) /\ h \in nodes
    <3> DEFINE p == <<Foothold(h), Root(h)>>
    <3>1. /\ accounts' = accounts \cup {Foothold(h), Root(h)}
          /\ escalate' = [escalate EXCEPT ![p] = Cheapest(@, w)]
          /\ hist' = [hist EXCEPT !.derived = @ \cup {<<h, w>>}]
      BY <1>1, <2>1 DEF AutoDeriveEscalation, WithAutoAccounts
    <3>2. p \in Pairs /\ HostOf(Foothold(h)) = h /\ HostOf(Root(h)) = h
      BY <1>2, AutoAccounts DEF Pairs
    <3>3. Cheapest(escalate[p], w) \in Nat /\ Cheapest(escalate[p], w) > 0
      BY <1>3, <3>2 DEF Cheapest, Shape, GraphShape
    <3>4. escalate' \in [Pairs -> Nat] /\ \A q \in Pairs \ {p} : escalate'[q] = escalate[q]
      BY <3>1, <3>3 DEF Shape, GraphShape
    <3>5. escalate'[p] > 0
      BY <3>1, <3>2, <3>3 DEF Shape, GraphShape
    <3>6. {p[1], p[2]} \subseteq accounts'
      BY <3>1
    <3>7. \A q \in Pairs : escalate'[q] > 0 => {q[1], q[2]} \subseteq accounts'
      BY <3>1, <3>4, <3>6 DEF Shape, GraphShape
    <3>8. accounts' \subseteq Accounts /\ \A a \in accounts' : HostOf(a) \in nodes'
      BY <1>2, <2>1, <3>1, <3>2, AutoAccounts DEF Shape, GraphShape
    <3>9. GraphShape'
      BY <1>2, <1>4, <3>1, <3>4, <3>7, <3>8 DEF Shape, GraphShape, Foothold, Root
    <3>10. Grows
      BY <1>2, <3>1, <3>4, <3>5 DEF Grows
    <3>11. HistShape'
      BY <1>2, <1>3, <3>1, SMTT(40) DEF Shape, HistShape
    <3> QED BY <3>9, <3>10, <3>11
  <2>2. CASE ~(Applied(r) /\ h \in nodes)
    <3>1. UNCHANGED <<accounts, escalate, hist>>
      BY <1>1, <2>2 DEF AutoDeriveEscalation
    <3> QED BY <1>2, <1>4, <3>1 DEF Shape, GraphShape, HistShape, Grows, Foothold, Root
  <2> QED BY <2>1, <2>2
<1>6. PICK x : x = [scan[s] EXCEPT !.made = @ + 1, !.flawed = @ \/ r # "ok"]
  OBVIOUS
<1>7. /\ x \in ScanStates /\ x.pc = "run" /\ x.host = h /\ (x.flawed <=> scan[s].flawed \/ r # "ok")
      /\ scan' = [scan EXCEPT ![s] = x]
  <2>1. scan[s].made + 1 \in 0..MaxFindings
    BY <1>2, PrivilegeAssumption DEF ScanStates
  <2>2. x \in ScanStates
    BY <1>2, <1>6, <2>1, Made DEF MadeRange
  <2>3. x.pc = "run" /\ x.host = h /\ (x.flawed <=> scan[s].flawed \/ r # "ok")
    BY <1>2, <1>6 DEF ScanStates
  <2>4. scan' = [scan EXCEPT ![s] = x]
    BY <1>1, <1>6
  <2> QED BY <2>2, <2>3, <2>4
<1>8. ScanShape'
  BY <1>2, <1>5, <1>7, ScanStep
<1> QED BY <1>2, <1>5, <1>8, CallFrame DEF Shape

LEMMA LeakFindingShape ==
  ASSUME Shape, NEW s \in Scans, LeakFinding(s) PROVE Shape' /\ Grows
<1>1. PICK risk \in Risks, fp \in Creds, r \in Results(~scan[s].expired) :
         /\ RecordExposure(scan[s].host, fp, r)
         /\ Count(r, ~scan[s].expired)
         /\ scan' = IF r = "ok"
                    THEN [scan EXCEPT ![s].made = @ + 1, ![s].pc = "infer",
                                      ![s].risk = risk, ![s].fp = fp]
                    ELSE [scan EXCEPT ![s].made = @ + 1, ![s].flawed = TRUE]
  BY DEF LeakFinding
<1>2. /\ UNCHANGED <<nodes, escalate, reuse, call, hist>>
      /\ scan[s].pc = "run" /\ scan[s].made < MaxFindings
      /\ scan[s] \in ScanStates /\ scan[s].host \in Hosts
      /\ ~scan[s].flawed => scan[s].host \in nodes
  BY DEF LeakFinding, Shape, ScanShape
<1> DEFINE h == scan[s].host
<1>3. failures' \in 0..MaxFailures
  BY <1>1, <1>2, CountShape DEF Shape, GraphShape, ScanStates
<1>4. GraphShape' /\ Grows
  <2>1. CASE Applied(r) /\ h \in nodes
    <3>1. /\ accounts' = accounts \cup {Foothold(h), Root(h)}
          /\ exposed' = exposed \cup {<<h, fp>>}
      BY <1>1, <2>1 DEF RecordExposure, WithAutoAccounts
    <3>2. Grows
      BY <1>2, <3>1 DEF Grows
    <3>3. accounts' \subseteq Accounts /\ \A a \in accounts' : HostOf(a) \in nodes'
      BY <1>2, <2>1, <3>1, AutoAccounts DEF Shape, GraphShape
    <3>4. exposed' \subseteq Hosts \X Creds
      BY <1>2, <3>1 DEF Shape, GraphShape
    <3>5. \A e \in exposed' : {Foothold(e[1]), Root(e[1])} \subseteq accounts'
      BY <3>1 DEF Shape, GraphShape
    <3> QED BY <1>2, <1>3, <3>1, <3>2, <3>3, <3>4, <3>5
            DEF Shape, GraphShape, Grows, Foothold, Root
  <2>2. CASE ~(Applied(r) /\ h \in nodes)
    <3>1. UNCHANGED <<accounts, exposed>>
      BY <1>1, <2>2 DEF RecordExposure
    <3> QED BY <1>2, <1>3, <3>1 DEF Shape, GraphShape, Grows, Foothold, Root
  <2> QED BY <2>1, <2>2
<1>5. scan[s].made + 1 \in 0..MaxFindings
  BY <1>2, PrivilegeAssumption DEF ScanStates
<1>6. ScanShape'
  <2>1. CASE r = "ok"
    <3>1. PICK x : x = [scan[s] EXCEPT !.made = @ + 1, !.pc = "infer", !.risk = risk, !.fp = fp]
      OBVIOUS
    <3>2. risk \in 0..1000
      BY PrivilegeAssumption
    <3>3. /\ x \in ScanStates /\ x.host = h /\ x.fp = fp
          /\ (x.flawed <=> scan[s].flawed) /\ scan' = [scan EXCEPT ![s] = x]
      <4>1. x \in ScanStates
        <5>1. /\ scan[s].made + 1 \in MadeRange /\ risk \in RiskRange /\ fp \in CredRange
              /\ scan[s] \in ScanStates
          BY <1>2, <1>5, <3>2 DEF MadeRange, RiskRange, CredRange
        <5> QED BY <3>1, <5>1, Leaked, Zenon
      <4>2. x.host = h /\ x.fp = fp /\ (x.flawed <=> scan[s].flawed)
        BY <1>2, <3>1 DEF ScanStates
      <4>3. scan' = [scan EXCEPT ![s] = x]
        BY <1>1, <2>1, <3>1
      <4> QED BY <4>1, <4>2, <4>3
    <3>4. ~x.flawed => <<h, fp>> \in exposed' /\ h \in nodes'
      BY <1>1, <1>2, <2>1, <3>3 DEF RecordExposure, Applied
    <3> QED BY <1>2, <1>4, <3>3, <3>4, ScanStep
  <2>2. CASE r # "ok"
    <3>1. PICK x : x = [scan[s] EXCEPT !.made = @ + 1, !.flawed = TRUE]
      OBVIOUS
    <3>2. /\ x \in ScanStates /\ x.host = h /\ x.flawed /\ x.pc = "run"
          /\ scan' = [scan EXCEPT ![s] = x]
      <4>1. x \in ScanStates
        BY <1>2, <1>5, <3>1, Made DEF MadeRange
      <4>2. x.host = h /\ x.flawed /\ x.pc = "run"
        BY <1>2, <3>1 DEF ScanStates
      <4>3. scan' = [scan EXCEPT ![s] = x]
        BY <1>1, <2>2, <3>1
      <4> QED BY <4>1, <4>2, <4>3
    <3> QED BY <1>2, <1>4, <3>2, ScanStep
  <2> QED BY <2>1, <2>2
<1> QED BY <1>2, <1>4, <1>6, CallFrame DEF Shape, HistShape

\* The edges that one credential justifies join the accounts of exposed hosts.
LEMMA SharedPairs ==
  ASSUME GraphShape, NEW h, NEW fp, NEW p \in Shared(h, fp)
  PROVE  /\ p \in Pairs /\ {p[1], p[2]} \subseteq accounts
         /\ {<<HostOf(p[1]), fp>>, <<HostOf(p[2]), fp>>} \subseteq exposed
         /\ fp \in Creds /\ HostOf(p[1]) # HostOf(p[2])
<1>1. PICK x \in Exposing(fp), y \in Exposing(fp) : p = <<Root(x), Foothold(y)>>
  BY DEF Shared, AllPairs
<1>2. <<x, fp>> \in exposed /\ <<y, fp>> \in exposed /\ x \in Hosts /\ y \in Hosts
  BY DEF Exposing
<1>3. {Root(x), Foothold(y)} \subseteq accounts
  BY <1>2 DEF GraphShape, Foothold, Root
<1>4. HostOf(Root(x)) = x /\ HostOf(Foothold(y)) = y
  BY <1>2, AutoAccounts
<1>5. fp \in Creds /\ HostOf(p[1]) # HostOf(p[2])
  BY <1>2 DEF GraphShape, Shared
<1> QED BY <1>1, <1>2, <1>3, <1>4, <1>5 DEF GraphShape, Pairs

LEMMA AutoReuseRange == \A k : k \in 0..1000 => AutoReuseWeight(k) \in 100..900
  BY DEF AutoReuseWeight, Clamp

LEMMA LinkHostsShape ==
  ASSUME Shape, NEW s \in Scans, LinkHosts(s) PROVE Shape' /\ Grows
<1>1. PICK r \in Results(~scan[s].expired) :
         /\ InferReuse(scan[s].host, scan[s].fp, scan[s].risk, r)
         /\ Count(r, ~scan[s].expired)
         /\ scan' = [scan EXCEPT ![s].pc = "run", ![s].risk = 0, ![s].flawed = @ \/ r # "ok"]
         /\ hist' = IF r = "ok" /\ ~scan[s].flawed
                    THEN [hist EXCEPT !.inferred = @ \cup {<<scan[s].host, scan[s].fp>>}]
                    ELSE hist
  BY DEF LinkHosts
<1>2. /\ UNCHANGED <<nodes, accounts, exposed, escalate, call>>
      /\ scan[s].pc = "infer" /\ scan[s] \in ScanStates
      /\ scan[s].host \in Hosts /\ scan[s].fp \in Creds
      /\ ~scan[s].flawed => scan[s].host \in nodes
  BY DEF LinkHosts, Shape, ScanShape
<1> DEFINE shared == Shared(scan[s].host, scan[s].fp)
           w == AutoReuseWeight(scan[s].risk)
<1>3. w \in 100..900
  <2>1. scan[s].risk \in 0..1000
    BY <1>2 DEF ScanStates
  <2> QED BY <2>1, AutoReuseRange, Zenon
<1>4. failures' \in 0..MaxFailures
  BY <1>1, <1>2, CountShape DEF Shape, GraphShape, ScanStates
<1>5. /\ reuse' \in [Pairs -> Nat]
      /\ \A p \in Pairs : \/ reuse'[p] = reuse[p]
                          \/ p \in shared /\ reuse'[p] > 0
  <2> HIDE DEF w, shared
  <2>1. CASE Applied(r)
    <3>1. reuse' = [p \in Pairs |-> IF p \in shared /\ reuse[p] = 0 THEN w ELSE reuse[p]]
      BY <1>1, <2>1 DEF InferReuse, w, shared
    <3> QED BY <1>3, <3>1 DEF Shape, GraphShape
  <2>2. CASE ~Applied(r)
    BY <1>1, <2>2 DEF InferReuse, Shape, GraphShape
  <2> QED BY <2>1, <2>2
<1>6. \A p \in Pairs : reuse'[p] > 0 => {p[1], p[2]} \subseteq accounts
  BY <1>5, SharedPairs DEF Shape, GraphShape
<1>7. GraphShape' /\ Grows
  BY <1>2, <1>4, <1>5, <1>6 DEF Shape, GraphShape, Grows, Foothold, Root
<1>8. HistShape'
  BY <1>1, <1>2 DEF Shape, HistShape
<1>9. PICK x : x = [scan[s] EXCEPT !.pc = "run", !.risk = 0, !.flawed = @ \/ r # "ok"]
  OBVIOUS
<1>10. /\ x \in ScanStates /\ x.pc = "run" /\ x.host = scan[s].host
       /\ (~x.flawed => ~scan[s].flawed) /\ scan' = [scan EXCEPT ![s] = x]
  <2>1. x \in ScanStates
    BY <1>2, <1>9, Linked
  <2>2. x.pc = "run" /\ x.host = scan[s].host /\ (~x.flawed => ~scan[s].flawed)
    BY <1>2, <1>9 DEF ScanStates
  <2>3. scan' = [scan EXCEPT ![s] = x]
    BY <1>1, <1>9
  <2> QED BY <2>1, <2>2, <2>3
<1>11. ScanShape'
  BY <1>2, <1>7, <1>10, ScanStep
<1> QED BY <1>2, <1>7, <1>8, <1>11, CallFrame DEF Shape

LEMMA FailShape == ASSUME Shape, NEW s \in Scans, Fail(s) PROVE Shape' /\ Grows
<1>1. /\ UNCHANGED <<nodes, accounts, exposed, escalate, reuse, call, hist>>
      /\ scan[s].pc \in {"run", "infer"} /\ scan[s] \in ScanStates
      /\ failures' = failures + 1 /\ failures < MaxFailures
  BY DEF Fail, graph, Shape, ScanShape
<1>2. GraphShape' /\ Grows /\ HistShape'
  BY <1>1, PrivilegeAssumption DEF Shape, GraphShape, HistShape, Grows, Foothold, Root
<1>3. ASSUME NEW x, \/ x = [scan[s] EXCEPT !.expired = TRUE]
                    \/ x = [scan[s] EXCEPT !.pc = "dead"]
      PROVE  /\ x \in ScanStates /\ x.host = scan[s].host /\ x.fp = scan[s].fp
             /\ (x.flawed <=> scan[s].flawed) /\ x.pc \in {scan[s].pc, "dead"}
  <2>1. x \in ScanStates
    BY <1>1, <1>3, Failed
  <2> QED BY <1>1, <1>3, <2>1 DEF ScanStates
<1>4. PICK x : /\ scan' = [scan EXCEPT ![s] = x]
               /\ \/ x = [scan[s] EXCEPT !.expired = TRUE]
                  \/ x = [scan[s] EXCEPT !.pc = "dead"]
  BY DEF Fail
<1>5. ScanShape'
  BY <1>1, <1>2, <1>3, <1>4, ScanStep DEF Shape, ScanShape
<1> QED BY <1>1, <1>2, <1>5, CallFrame DEF Shape

-----------------------------------------------------------------------------
(* Steps of requests.                                                      *)

LEMMA CallStep ==
  ASSUME Shape, Grows, NEW c \in Calls, NEW y \in CallStates, call' = [call EXCEPT ![c] = y],
         y.pc = "account" => y.kind = "account" /\ y.host \in nodes',
         y.pc = "created" =>
            \/ y.kind = "account" /\ <<c, y.host>> \in accounts'
            \/ y.kind = "escalation" /\ y.edge \in Pairs /\ escalate'[y.edge] > 0
            \/ y.kind = "reuse" /\ y.edge \in Pairs /\ reuse'[y.edge] > 0
  PROVE  CallShape'
<1>1. /\ call' \in [Calls -> CallStates] /\ call'[c] = y
      /\ \A d \in Calls \ {c} : call'[d] = call[d]
  BY DEF Shape, CallShape
<1> QED BY <1>1 DEF Shape, CallShape, Grows

LEMMA CreateAccountShape ==
  ASSUME Shape, NEW c \in Calls, CreateAccount(c) PROVE Shape' /\ Grows
<1>1. PICK h \in Hosts, r \in Results(TRUE) :
         /\ nodes' = IF Applied(r) THEN Projected(h) ELSE nodes
         /\ Count(r, TRUE)
         /\ call' = [call EXCEPT ![c].pc = IF r = "ok" THEN "account" ELSE "refused",
                                 ![c].kind = "account", ![c].host = h]
  BY DEF CreateAccount
<1>2. /\ UNCHANGED <<accounts, exposed, escalate, reuse, scan, hist>>
      /\ call[c].pc = "idle" /\ call[c] \in CallStates
  BY DEF CreateAccount, Shape, CallShape
<1>3. failures' \in 0..MaxFailures
  BY <1>1, CountShape DEF Shape, GraphShape
<1>4. GraphShape' /\ Grows
  BY <1>1, <1>2, <1>3 DEF Projected, Shape, GraphShape, Grows, Foothold, Root
<1>5. PICK p \in {"account", "refused"} :
        p = (IF r = "ok" THEN "account" ELSE "refused")
  OBVIOUS
<1>6. PICK y : y = [call[c] EXCEPT !.pc = p, !.kind = "account", !.host = h]
  OBVIOUS
<1>7. y \in CallStates /\ y.pc = p /\ y.kind = "account" /\ y.host = h
  BY <1>2, <1>5, <1>6 DEF CallStates
<1>8. call' = [call EXCEPT ![c] = y]
  BY <1>1, <1>5, <1>6
<1>9. y.pc # "created" /\ (y.pc = "account" => h \in nodes')
  BY <1>1, <1>5, <1>7 DEF Applied, Projected
<1>10. CallShape'
  BY <1>4, <1>7, <1>8, <1>9, CallStep
<1> QED BY <1>2, <1>4, <1>10, ScanFrame DEF Shape, HistShape

LEMMA SyncAccountShape ==
  ASSUME Shape, NEW c \in Calls, SyncAccount(c) PROVE Shape' /\ Grows
<1> DEFINE a == <<c, call[c].host>>
<1>1. PICK r \in Results(TRUE) :
         /\ accounts' = IF Applied(r) /\ call[c].host \in nodes
                        THEN accounts \cup {a} ELSE accounts
         /\ Count(r, TRUE)
         /\ call' = [call EXCEPT ![c].pc = IF r = "ok" THEN "created" ELSE "refused"]
  BY DEF SyncAccount
<1>2. /\ UNCHANGED <<nodes, exposed, escalate, reuse, scan, hist>>
      /\ call[c].pc = "account" /\ call[c] \in CallStates
      /\ call[c].kind = "account" /\ call[c].host \in nodes
  BY DEF SyncAccount, Shape, CallShape
<1>3. failures' \in 0..MaxFailures
  BY <1>1, CountShape DEF Shape, GraphShape
<1>4. a \in Accounts /\ HostOf(a) = call[c].host
  BY <1>2 DEF Shape, GraphShape, Accounts, HostOf
<1>5. accounts' \subseteq Accounts /\ \A b \in accounts' : HostOf(b) \in nodes'
  BY <1>1, <1>2, <1>4 DEF Shape, GraphShape
<1>6. accounts \subseteq accounts'
  BY <1>1
<1>7. GraphShape' /\ Grows
  BY <1>2, <1>3, <1>5, <1>6 DEF Shape, GraphShape, Grows, Foothold, Root
<1>8. PICK p \in {"created", "refused"} :
        p = (IF r = "ok" THEN "created" ELSE "refused")
  OBVIOUS
<1>9. PICK y : y = [call[c] EXCEPT !.pc = p]
  OBVIOUS
<1>10. y \in CallStates /\ y.pc = p /\ y.kind = "account" /\ y.host = call[c].host
  BY <1>2, <1>8, <1>9 DEF CallStates
<1>11. call' = [call EXCEPT ![c] = y]
  BY <1>1, <1>8, <1>9
<1>12. y.pc # "account" /\ (y.pc = "created" => <<c, y.host>> \in accounts')
  BY <1>1, <1>2, <1>8, <1>10 DEF Applied
<1>13. CallShape'
  BY <1>7, <1>10, <1>11, <1>12, CallStep
<1> QED BY <1>2, <1>7, <1>13, ScanFrame DEF Shape, HistShape

\* The answer of a request for an edge, and what SetEdge does to a table of weights.
LEMMA Answered ==
  ASSUME Shape, NEW c \in Calls, call[c].pc = "idle", NEW kind \in {"escalation", "reuse"},
         NEW p \in Pairs, NEW r, Answer(c, kind, p, r)
  PROVE  \E y \in CallStates :
            /\ call' = [call EXCEPT ![c] = y] /\ y.pc \in {"created", "refused"}
            /\ y.pc = "created" => r = "ok" /\ BothExist(p) /\ y.kind = kind /\ y.edge = p
<1>1. call[c] \in CallStates
  BY DEF Shape, CallShape
<1>2. CASE r = "ok" /\ BothExist(p)
  <2>1. PICK y : y = [call[c] EXCEPT !.pc = "created", !.kind = kind, !.edge = p]
    OBVIOUS
  <2>2. y \in CallStates /\ y.pc = "created" /\ y.kind = kind /\ y.edge = p
    BY <1>1, <2>1 DEF CallStates
  <2>3. call' = [call EXCEPT ![c] = y]
    BY <1>2, <2>1 DEF Answer
  <2> QED BY <1>2, <2>2, <2>3
<1>3. CASE ~(r = "ok" /\ BothExist(p))
  <2>1. PICK y : y = [call[c] EXCEPT !.pc = "refused"]
    OBVIOUS
  <2>2. y \in CallStates /\ y.pc = "refused"
    BY <1>1, <2>1 DEF CallStates
  <2>3. call' = [call EXCEPT ![c] = y]
    BY <1>3, <2>1 DEF Answer
  <2> QED BY <2>2, <2>3
<1> QED BY <1>2, <1>3

LEMMA EdgeSet ==
  ASSUME NEW f \in [Pairs -> Nat], NEW p \in Pairs, NEW w \in Int, w > 0, NEW r,
         \A q \in Pairs : f[q] > 0 => {q[1], q[2]} \subseteq accounts
  PROVE  /\ SetEdge(p, w, r, f) \in [Pairs -> Nat]
         /\ \A q \in Pairs : /\ SetEdge(p, w, r, f)[q] > 0 => {q[1], q[2]} \subseteq accounts
                             /\ f[q] > 0 => SetEdge(p, w, r, f)[q] > 0
         /\ r = "ok" /\ BothExist(p) => SetEdge(p, w, r, f)[p] > 0
<1>1. CASE Applied(r) /\ BothExist(p)
  <2>1. SetEdge(p, w, r, f) = [f EXCEPT ![p] = w]
    BY <1>1 DEF SetEdge
  <2>2. {p[1], p[2]} \subseteq accounts
    BY <1>1 DEF BothExist
  <2> QED BY <2>1, <2>2
<1>2. CASE ~(Applied(r) /\ BothExist(p))
  <2>1. SetEdge(p, w, r, f) = f
    BY <1>2 DEF SetEdge
  <2> QED BY <1>2, <2>1 DEF Applied
<1> QED BY <1>1, <1>2

LEMMA EditShape ==
  ASSUME HistShape, NEW kind \in {"escalation", "reuse"}, NEW p \in Pairs, NEW r,
         Edit(kind, p, r)
  PROVE  HistShape'
  BY DEF HistShape, Edit

LEMMA AddEscalationShape ==
  ASSUME Shape, NEW c \in Calls, AddEscalation(c) PROVE Shape' /\ Grows
<1>1. PICK p \in Pairs, w \in Weights, r \in Results(TRUE) :
         /\ escalate' = SetEdge(p, Positive(w, 100), r, escalate)
         /\ Edit("escalation", p, r) /\ Count(r, TRUE) /\ Answer(c, "escalation", p, r)
  BY DEF AddEscalation
<1>2. UNCHANGED <<nodes, accounts, exposed, reuse, scan>> /\ call[c].pc = "idle"
  BY DEF AddEscalation
<1>3. Positive(w, 100) \in Int /\ Positive(w, 100) > 0
  BY PrivilegeAssumption DEF Positive
<1>4. /\ escalate' \in [Pairs -> Nat]
      /\ \A q \in Pairs : /\ escalate'[q] > 0 => {q[1], q[2]} \subseteq accounts
                          /\ escalate[q] > 0 => escalate'[q] > 0
      /\ r = "ok" /\ BothExist(p) => escalate'[p] > 0
  BY <1>1, <1>3, EdgeSet DEF Shape, GraphShape
<1>5. failures' \in 0..MaxFailures
  BY <1>1, CountShape DEF Shape, GraphShape
<1>6. GraphShape' /\ Grows
  BY <1>2, <1>4, <1>5 DEF Shape, GraphShape, Grows, Foothold, Root
<1>7. PICK y \in CallStates :
            /\ call' = [call EXCEPT ![c] = y] /\ y.pc \in {"created", "refused"}
            /\ y.pc = "created" => r = "ok" /\ BothExist(p) /\ y.kind = "escalation" /\ y.edge = p
  BY <1>1, <1>2, Answered
<1>8. CallShape'
  BY <1>4, <1>6, <1>7, CallStep
<1>9. HistShape'
  BY <1>1, EditShape DEF Shape
<1> QED BY <1>2, <1>6, <1>8, <1>9, ScanFrame DEF Shape

LEMMA AddCredentialReuseShape ==
  ASSUME Shape, NEW c \in Calls, AddCredentialReuse(c) PROVE Shape' /\ Grows
<1>1. PICK p \in Pairs, w \in Weights, r \in Results(TRUE) :
         /\ reuse' = SetEdge(p, Positive(w, 300), r, reuse)
         /\ Edit("reuse", p, r) /\ Count(r, TRUE) /\ Answer(c, "reuse", p, r)
  BY DEF AddCredentialReuse
<1>2. UNCHANGED <<nodes, accounts, exposed, escalate, scan>> /\ call[c].pc = "idle"
  BY DEF AddCredentialReuse
<1>3. Positive(w, 300) \in Int /\ Positive(w, 300) > 0
  BY PrivilegeAssumption DEF Positive
<1>4. /\ reuse' \in [Pairs -> Nat]
      /\ \A q \in Pairs : /\ reuse'[q] > 0 => {q[1], q[2]} \subseteq accounts
                          /\ reuse[q] > 0 => reuse'[q] > 0
      /\ r = "ok" /\ BothExist(p) => reuse'[p] > 0
  BY <1>1, <1>3, EdgeSet DEF Shape, GraphShape
<1>5. failures' \in 0..MaxFailures
  BY <1>1, CountShape DEF Shape, GraphShape
<1>6. GraphShape' /\ Grows
  BY <1>2, <1>4, <1>5 DEF Shape, GraphShape, Grows, Foothold, Root
<1>7. PICK y \in CallStates :
            /\ call' = [call EXCEPT ![c] = y] /\ y.pc \in {"created", "refused"}
            /\ y.pc = "created" => r = "ok" /\ BothExist(p) /\ y.kind = "reuse" /\ y.edge = p
  BY <1>1, <1>2, Answered
<1>8. CallShape'
  BY <1>4, <1>6, <1>7, CallStep
<1>9. HistShape'
  BY <1>1, EditShape DEF Shape
<1> QED BY <1>2, <1>6, <1>8, <1>9, ScanFrame DEF Shape

-----------------------------------------------------------------------------
(* Types, and what requests created.                                       *)

LEMMA StepShape == Shape /\ [Next]_vars => Shape' /\ Grows
<1> SUFFICES ASSUME Shape, [Next]_vars PROVE Shape' /\ Grows
  OBVIOUS
<1>1. ASSUME NEW s \in Scans, Process(s) PROVE Shape' /\ Grows
  BY <1>1, ProjectAssetShape, PrivEscFindingShape, LeakFindingShape, LinkHostsShape, FailShape
     DEF Process
<1>2. ASSUME NEW c \in Calls, Request(c) PROVE Shape' /\ Grows
  BY <1>2, CreateAccountShape, SyncAccountShape, AddEscalationShape, AddCredentialReuseShape
     DEF Request
<1>3. CASE UNCHANGED vars
  <2>1. UNCHANGED <<nodes, accounts, exposed, escalate, reuse, scan, call, failures, hist>>
    BY <1>3 DEF vars, graph
  <2>2. Grows
    BY <2>1 DEF Grows
  <2> QED BY <2>1, <2>2, CallFrame, ScanFrame
          DEF Shape, GraphShape, HistShape, Foothold, Root
<1> QED BY <1>1, <1>2, <1>3 DEF Next, Idle

LEMMA AlwaysShape == Spec => []Shape
<1>1. Init => Shape
  BY InitShape
<1>2. Shape /\ [Next]_vars => Shape'
  BY StepShape
<1> QED BY <1>1, <1>2, PTL DEF Spec

\* Types, and that no edge of SetEdge, AutoDeriveEscalation or AutoDeriveCredentialReuse
\* has an end that is not an account.
THEOREM PrivilegeTypes == Spec => []TypeOK
<1>1. Shape => TypeOK
  BY ShapeParts
<1> QED BY <1>1, AlwaysShape, PTL

\* A 201 of createAccount, addEscalation or addCredentialReuse is never contradicted.
THEOREM CreatedStays == Spec => []CreatedIsThere
<1>1. Shape => CreatedIsThere
  BY ShapeParts
<1> QED BY <1>1, AlwaysShape, PTL

-----------------------------------------------------------------------------
(* Weights of escalation.                                                  *)

Own(h)     == <<Foothold(h), Root(h)>>
Derived(h) == {w \in 30..900 : <<h, w>> \in hist.derived}

\* EscalationCheapest says nothing of a host without a derived weight, whose edge must
\* not exist before the first is derived.
Cheap ==
  \A h \in Hosts : <<"escalation", Own(h)>> \notin hist.edited =>
    /\ escalate[Own(h)] \in Derived(h) \cup {0}
    /\ \A w \in Derived(h) : escalate[Own(h)] > 0 /\ escalate[Own(h)] <= w

LEMMA CheapParts == Shape /\ Cheap => EscalationCheapest
<1> SUFFICES ASSUME Shape, Cheap, NEW d \in hist.derived,
                    <<"escalation", Own(d[1])>> \notin hist.edited
             PROVE  /\ escalate[Own(d[1])] \in {e[2] : e \in {f \in hist.derived : f[1] = d[1]}}
                    /\ escalate[Own(d[1])] <= d[2]
  BY Zenon DEF EscalationCheapest, Own
<1>1. d[1] \in Hosts /\ d[2] \in 30..900 /\ d = <<d[1], d[2]>>
  BY DEF Shape, HistShape
<1>2. d[2] \in Derived(d[1])
  BY <1>1 DEF Derived
<1>3. PICK w \in Derived(d[1]) : escalate[Own(d[1])] = w /\ w <= d[2]
  BY <1>1, <1>2 DEF Cheap
<1>4. <<d[1], w>> \in {f \in hist.derived : f[1] = d[1]} /\ <<d[1], w>>[2] = w
  BY <1>3 DEF Derived
<1> QED BY <1>3, <1>4

\* A step that neither derives a weight nor edits an escalation.
LEMMA CheapFrame ==
  ASSUME Cheap, escalate' = escalate, hist.derived' = hist.derived,
         \A h \in Hosts : <<"escalation", Own(h)>> \in hist.edited
                          => <<"escalation", Own(h)>> \in hist.edited'
  PROVE  Cheap'
<1>1. ASSUME NEW h \in Hosts PROVE Derived(h)' = Derived(h)
  BY DEF Derived
<1>2. ASSUME NEW h \in Hosts, <<"escalation", Own(h)>> \notin hist.edited'
      PROVE  /\ escalate'[Own(h)] \in Derived(h) \cup {0}
             /\ \A w \in Derived(h) : escalate'[Own(h)] > 0 /\ escalate'[Own(h)] <= w
  BY <1>2 DEF Cheap
<1> QED BY <1>1, <1>2 DEF Cheap, Own, Foothold, Root

LEMMA PrivEscFindingCheap ==
  ASSUME Shape, Cheap, NEW s \in Scans, PrivEscFinding(s) PROVE Cheap'
<1>1. PICK risk \in Risks, r \in Results(~scan[s].expired) :
         AutoDeriveEscalation(scan[s].host, risk, r)
  BY DEF PrivEscFinding
<1>2. CASE Applied(r) /\ scan[s].host \in nodes
  <2>1. PICK g \in Hosts : g = scan[s].host
    BY <1>2 DEF Shape, GraphShape
  <2>2. PICK w \in 30..900 : w = AutoEscalationWeight(risk)
    <3>1. risk \in 0..1000
      BY PrivilegeAssumption
    <3> QED BY <3>1 DEF AutoEscalationWeight, Clamp
  <2>3. /\ escalate' = [escalate EXCEPT ![Own(g)] = Cheapest(@, w)]
        /\ hist' = [hist EXCEPT !.derived = @ \cup {<<g, w>>}]
    BY <1>1, <1>2, <2>1, <2>2 DEF AutoDeriveEscalation, Own
  <2>4. /\ hist'.derived = hist.derived \cup {<<g, w>>}
        /\ hist'.edited = hist.edited
    BY <2>3 DEF Shape, HistShape
  <2>5. \A h \in Hosts : Own(h) \in Pairs /\ (h # g => Own(h) # Own(g))
    BY AutoAccounts DEF Own, Pairs, Foothold
  <2>6. ASSUME NEW h \in Hosts, <<"escalation", Own(h)>> \notin hist.edited
        PROVE  /\ escalate'[Own(h)] \in Derived(h)' \cup {0}
               /\ \A v \in Derived(h)' : escalate'[Own(h)] > 0 /\ escalate'[Own(h)] <= v
    <3>1. /\ escalate[Own(h)] \in Derived(h) \cup {0}
          /\ \A v \in Derived(h) : escalate[Own(h)] > 0 /\ escalate[Own(h)] <= v
          /\ escalate[Own(h)] \in Nat
      BY <2>5, <2>6 DEF Cheap, Shape, GraphShape
    <3>2. CASE h = g
      <4>1. Derived(h)' = Derived(h) \cup {w}
        BY <2>4, <3>2 DEF Derived
      <4>2. escalate'[Own(h)] = Cheapest(escalate[Own(h)], w)
        BY <2>3, <2>5, <3>2 DEF Shape, GraphShape
      <4>3. Derived(h) \subseteq 30..900
        BY DEF Derived
      <4>4. PICK e \in Nat : e = escalate[Own(h)]
        BY <3>1
      <4>5. CASE e = 0 \/ w < e
        <5>1. escalate'[Own(h)] = w
          BY <4>2, <4>4, <4>5 DEF Cheapest
        <5>2. ASSUME NEW v \in Derived(h) PROVE w <= v
          <6>1. v \in 30..900 /\ e > 0 /\ e <= v
            BY <3>1, <4>3, <4>4
          <6> QED BY <4>5, <6>1
        <5> QED BY <4>1, <5>1, <5>2
      <4>6. CASE e # 0 /\ ~(w < e)
        <5>1. escalate'[Own(h)] = e
          BY <4>2, <4>4, <4>6 DEF Cheapest
        <5> QED BY <3>1, <4>1, <4>4, <4>6, <5>1
      <4> QED BY <4>5, <4>6
    <3>3. CASE h # g
      <4>1. Derived(h)' = Derived(h)
        BY <2>4, <3>3 DEF Derived
      <4>2. escalate'[Own(h)] = escalate[Own(h)]
        BY <2>3, <2>5, <3>3 DEF Shape, GraphShape
      <4> QED BY <3>1, <4>1, <4>2
    <3> QED BY <3>2, <3>3
  <2> QED BY <2>4, <2>6 DEF Cheap, Own, Foothold, Root
<1>3. CASE ~(Applied(r) /\ scan[s].host \in nodes)
  <2>1. UNCHANGED <<escalate, hist>>
    BY <1>1, <1>3 DEF AutoDeriveEscalation
  <2> QED BY <2>1, CheapFrame
<1> QED BY <1>2, <1>3

LEMMA AddEscalationCheap ==
  ASSUME Shape, Cheap, NEW c \in Calls, AddEscalation(c) PROVE Cheap'
<1>1. PICK p, w, r :
         p \in Pairs /\ escalate' = SetEdge(p, w, r, escalate) /\ Edit("escalation", p, r)
  BY DEF AddEscalation
<1>2. CASE Applied(r) /\ BothExist(p)
  <2>1. /\ escalate' = [escalate EXCEPT ![p] = w]
        /\ hist' = [hist EXCEPT !.edited = @ \cup {<<"escalation", p>>}]
    BY <1>1, <1>2 DEF SetEdge, Edit
  <2>2. hist'.derived = hist.derived /\ hist'.edited = hist.edited \cup {<<"escalation", p>>}
    BY <2>1 DEF Shape, HistShape
  <2>3. \A h \in Hosts : Own(h) \in Pairs
    BY AutoAccounts DEF Own, Pairs
  <2>4. ASSUME NEW h \in Hosts, <<"escalation", Own(h)>> \notin hist'.edited
        PROVE  /\ <<"escalation", Own(h)>> \notin hist.edited
               /\ escalate'[Own(h)] = escalate[Own(h)] /\ Derived(h)' = Derived(h)
    BY <2>1, <2>2, <2>3, <2>4 DEF Shape, GraphShape, Derived
  <2> QED BY <2>4 DEF Cheap, Own, Foothold, Root
<1>3. CASE ~(Applied(r) /\ BothExist(p))
  <2>1. UNCHANGED <<escalate, hist>>
    BY <1>1, <1>3 DEF SetEdge, Edit
  <2> QED BY <2>1, CheapFrame
<1> QED BY <1>2, <1>3

LEMMA StepCheap == Shape /\ Cheap /\ [Next]_vars => Cheap'
<1> SUFFICES ASSUME Shape, Cheap, [Next]_vars PROVE Cheap'
  OBVIOUS
<1>1. ASSUME NEW s \in Scans, PrivEscFinding(s) PROVE Cheap'
  BY <1>1, PrivEscFindingCheap
<1>2. ASSUME NEW c \in Calls, AddEscalation(c) PROVE Cheap'
  BY <1>2, AddEscalationCheap
<1>3. ASSUME UNCHANGED <<escalate, hist>> PROVE Cheap'
  BY <1>3, CheapFrame
<1>4. ASSUME NEW s \in Scans, LinkHosts(s) PROVE Cheap'
  <2>1. /\ escalate' = escalate
        /\ hist' = hist \/ \E i : hist' = [hist EXCEPT !.inferred = i]
    BY <1>4 DEF LinkHosts
  <2>2. hist'.derived = hist.derived /\ hist'.edited = hist.edited
    BY <2>1 DEF Shape, HistShape
  <2> QED BY <2>1, <2>2, CheapFrame
<1>5. ASSUME NEW c \in Calls, AddCredentialReuse(c) PROVE Cheap'
  <2>1. PICK p, r : escalate' = escalate /\ Edit("reuse", p, r)
    BY <1>5 DEF AddCredentialReuse
  <2>2. hist'.derived = hist.derived /\ hist.edited \subseteq hist'.edited
    BY <2>1 DEF Edit, Shape, HistShape
  <2> QED BY <2>1, <2>2, CheapFrame
<1>6. CASE UNCHANGED vars
  BY <1>3, <1>6 DEF vars, graph
<1>7. ASSUME NEW s \in Scans, ProjectAsset(s) \/ LeakFinding(s) \/ Fail(s) PROVE Cheap'
  BY <1>3, <1>7 DEF ProjectAsset, LeakFinding, Fail, graph
<1>8. ASSUME NEW c \in Calls, CreateAccount(c) \/ SyncAccount(c) PROVE Cheap'
  BY <1>3, <1>8 DEF CreateAccount, SyncAccount
<1> QED BY <1>1, <1>2, <1>4, <1>5, <1>6, <1>7, <1>8 DEF Next, Process, Request, Idle

\* The escalation edge of a host keeps the cheapest weight that AutoDeriveEscalation ever
\* derived for it.
THEOREM CheapestKept == Spec => []EscalationCheapest
<1>1. Init => Cheap
  BY AutoAccounts DEF Init, Cheap, Derived, Own, Pairs
<1>2. Shape /\ Cheap /\ [Next]_vars => Cheap'
  BY StepCheap
<1>3. Shape /\ Cheap => EscalationCheapest
  BY CheapParts
<1> QED BY <1>1, <1>2, <1>3, AlwaysShape, PTL DEF Spec

-----------------------------------------------------------------------------
(* Credential reuse.                                                       *)

LEMMA ExposingGrows ==
  ASSUME Grows, NEW c PROVE Exposing(c) \subseteq Exposing(c)'
  BY DEF Grows, Exposing

LEMMA JustifiedFrame ==
  ASSUME ReuseJustified, Grows, hist.edited \subseteq hist'.edited,
         \A p \in Pairs : \/ reuse'[p] = reuse[p]
                          \/ <<"reuse", p>> \in hist'.edited
                          \/ /\ HostOf(p[1]) # HostOf(p[2])
                             /\ \E c \in Creds : {HostOf(p[1]), HostOf(p[2])} \subseteq Exposing(c)
  PROVE  ReuseJustified'
<1> SUFFICES ASSUME NEW p \in Pairs, reuse'[p] > 0, <<"reuse", p>> \notin hist'.edited
             PROVE  /\ HostOf(p[1]) # HostOf(p[2])
                    /\ \E c \in Creds : {HostOf(p[1]), HostOf(p[2])} \subseteq Exposing(c)'
  BY DEF ReuseJustified, Pairs, HostOf
<1>1. /\ HostOf(p[1]) # HostOf(p[2])
      /\ \E c \in Creds : {HostOf(p[1]), HostOf(p[2])} \subseteq Exposing(c)
  BY DEF ReuseJustified
<1> QED BY <1>1, ExposingGrows

LEMMA LinkHostsJustified ==
  ASSUME Shape, Grows, ReuseJustified, NEW s \in Scans, LinkHosts(s) PROVE ReuseJustified'
<1>1. PICK r : InferReuse(scan[s].host, scan[s].fp, scan[s].risk, r)
  BY DEF LinkHosts
<1>2. hist' = hist \/ \E i : hist' = [hist EXCEPT !.inferred = i]
  BY DEF LinkHosts
<1>3. hist'.edited = hist.edited
  BY <1>2 DEF Shape, HistShape
<1>4. ASSUME NEW p \in Pairs, reuse'[p] # reuse[p]
      PROVE  /\ HostOf(p[1]) # HostOf(p[2])
             /\ \E c \in Creds : {HostOf(p[1]), HostOf(p[2])} \subseteq Exposing(c)
  <2>1. p \in Shared(scan[s].host, scan[s].fp)
    BY <1>1, <1>4 DEF InferReuse
  <2>2. /\ {<<HostOf(p[1]), scan[s].fp>>, <<HostOf(p[2]), scan[s].fp>>} \subseteq exposed
        /\ scan[s].fp \in Creds /\ HostOf(p[1]) # HostOf(p[2])
    BY <2>1, SharedPairs DEF Shape
  <2>3. {HostOf(p[1]), HostOf(p[2])} \subseteq Exposing(scan[s].fp)
    BY <2>2 DEF Exposing, Shape, GraphShape
  <2> QED BY <2>2, <2>3
<1> QED BY <1>3, <1>4, JustifiedFrame

LEMMA AddCredentialReuseJustified ==
  ASSUME Shape, Grows, ReuseJustified, NEW c \in Calls, AddCredentialReuse(c)
  PROVE  ReuseJustified'
<1>1. PICK p, w, r :
         p \in Pairs /\ reuse' = SetEdge(p, w, r, reuse) /\ Edit("reuse", p, r)
  BY DEF AddCredentialReuse
<1>2. CASE Applied(r) /\ BothExist(p)
  <2>1. /\ reuse' = [reuse EXCEPT ![p] = w]
        /\ hist' = [hist EXCEPT !.edited = @ \cup {<<"reuse", p>>}]
    BY <1>1, <1>2 DEF SetEdge, Edit
  <2>2. hist'.edited = hist.edited \cup {<<"reuse", p>>}
    BY <2>1 DEF Shape, HistShape
  <2>3. \A q \in Pairs : q = p \/ reuse'[q] = reuse[q]
    BY <2>1 DEF Shape, GraphShape
  <2> QED BY <2>2, <2>3, JustifiedFrame
<1>3. CASE ~(Applied(r) /\ BothExist(p))
  <2>1. UNCHANGED <<reuse, hist>>
    BY <1>1, <1>3 DEF SetEdge, Edit
  <2> QED BY <2>1, JustifiedFrame
<1> QED BY <1>2, <1>3

LEMMA StepJustified == Shape /\ ReuseJustified /\ [Next]_vars => ReuseJustified'
<1> SUFFICES ASSUME Shape, Grows, ReuseJustified, [Next]_vars PROVE ReuseJustified'
  BY StepShape
<1>1. ASSUME NEW s \in Scans, LinkHosts(s) PROVE ReuseJustified'
  BY <1>1, LinkHostsJustified
<1>2. ASSUME NEW c \in Calls, AddCredentialReuse(c) PROVE ReuseJustified'
  BY <1>2, AddCredentialReuseJustified
<1>3. ASSUME reuse' = reuse, hist.edited \subseteq hist'.edited PROVE ReuseJustified'
  BY <1>3, JustifiedFrame
<1>4. ASSUME NEW s \in Scans, PrivEscFinding(s) PROVE ReuseJustified'
  <2>1. /\ reuse' = reuse
        /\ hist' = hist \/ \E d : hist' = [hist EXCEPT !.derived = d]
    BY <1>4 DEF PrivEscFinding, AutoDeriveEscalation
  <2>2. hist'.edited = hist.edited
    BY <2>1 DEF Shape, HistShape
  <2> QED BY <1>3, <2>1, <2>2
<1>5. ASSUME NEW c \in Calls, AddEscalation(c) PROVE ReuseJustified'
  <2>1. PICK p, r : reuse' = reuse /\ Edit("escalation", p, r)
    BY <1>5 DEF AddEscalation
  <2>2. hist.edited \subseteq hist'.edited
    BY <2>1 DEF Edit, Shape, HistShape
  <2> QED BY <1>3, <2>1, <2>2
<1>6. CASE UNCHANGED vars
  BY <1>3, <1>6 DEF vars, graph
<1>7. ASSUME NEW s \in Scans, ProjectAsset(s) \/ LeakFinding(s) \/ Fail(s) PROVE ReuseJustified'
  BY <1>3, <1>7 DEF ProjectAsset, LeakFinding, Fail, graph
<1>8. ASSUME NEW c \in Calls, CreateAccount(c) \/ SyncAccount(c) PROVE ReuseJustified'
  BY <1>3, <1>8 DEF CreateAccount, SyncAccount
<1> QED BY <1>1, <1>2, <1>4, <1>5, <1>6, <1>7, <1>8 DEF Next, Process, Request, Idle

\* Every reuse edge that AutoDeriveCredentialReuse makes joins two hosts that expose one
\* credential.
THEOREM ReuseIsJustified == Spec => []ReuseJustified
<1>1. Init => ReuseJustified
  BY DEF Init, ReuseJustified
<1>2. Shape /\ ReuseJustified /\ [Next]_vars => ReuseJustified'
  BY StepJustified
<1> QED BY <1>1, <1>2, AlwaysShape, PTL DEF Spec

\* The second transaction of a scan sees what the first of every scan that has inferred
\* before has recorded, so whichever comes last links both ways.
Inferring == hist.inferred \subseteq exposed /\ ReuseComplete

LEMMA InferringFrame ==
  ASSUME Inferring, Grows, Shape, hist'.inferred = hist.inferred PROVE Inferring'
<1>1. hist'.inferred \subseteq exposed'
  BY DEF Inferring, Grows
<1>2. ASSUME NEW d \in hist'.inferred, NEW e \in hist'.inferred, d[2] = e[2], d[1] # e[1]
      PROVE  reuse'[<<Root(d[1]), Foothold(e[1])>>] > 0
  <2>1. reuse[<<Root(d[1]), Foothold(e[1])>>] > 0
    BY <1>2 DEF Inferring, ReuseComplete
  <2>2. d[1] \in Hosts /\ e[1] \in Hosts
    BY <1>2 DEF Shape, HistShape
  <2>3. <<Root(d[1]), Foothold(e[1])>> \in Pairs
    BY <2>2, AutoAccounts DEF Pairs
  <2> QED BY <2>1, <2>3 DEF Grows
<1> QED BY <1>1, <1>2 DEF Inferring, ReuseComplete, Foothold, Root

LEMMA LinkHostsInferring ==
  ASSUME Shape, Grows, Inferring, NEW s \in Scans, LinkHosts(s) PROVE Inferring'
<1>1. PICK r :
         /\ InferReuse(scan[s].host, scan[s].fp, scan[s].risk, r)
         /\ hist' = IF r = "ok" /\ ~scan[s].flawed
                    THEN [hist EXCEPT !.inferred = @ \cup {<<scan[s].host, scan[s].fp>>}]
                    ELSE hist
  BY DEF LinkHosts
<1>2. scan[s].pc = "infer" /\ UNCHANGED exposed
  BY DEF LinkHosts
<1>3. CASE ~(r = "ok" /\ ~scan[s].flawed)
  <2>1. hist' = hist
    BY <1>1, <1>3
  <2> QED BY <2>1, InferringFrame
<1>4. CASE r = "ok" /\ ~scan[s].flawed
  <2>1. PICK h, c : h = scan[s].host /\ c = scan[s].fp
    OBVIOUS
  <2>2. h \in Hosts /\ c \in Creds /\ <<h, c>> \in exposed
    BY <1>2, <1>4, <2>1 DEF Shape, ScanShape
  <2>3. hist'.inferred = hist.inferred \cup {<<h, c>>}
    BY <1>1, <1>4, <2>1 DEF Shape, HistShape
  <2>4. PICK k \in 0..1000 : k = scan[s].risk
    BY DEF Shape, ScanShape, ScanStates
  <2>5. AutoReuseWeight(k) > 0
    <3>1. PICK w \in 100..900 : w = AutoReuseWeight(k)
      BY AutoReuseRange
    <3> QED BY <3>1
  <2>6. reuse' = [p \in Pairs |-> IF p \in Shared(h, c) /\ reuse[p] = 0
                                  THEN AutoReuseWeight(k) ELSE reuse[p]]
    BY <1>1, <1>4, <2>1, <2>4 DEF InferReuse, Applied
  <2>7. ASSUME NEW x \in Hosts, NEW y \in Hosts, x # y, <<x, c>> \in exposed, <<y, c>> \in exposed
        PROVE  reuse'[<<Root(x), Foothold(y)>>] > 0
    <3>1. PICK p \in Pairs : p = <<Root(x), Foothold(y)>>
      BY AutoAccounts DEF Pairs
    <3>2. x \in Exposing(c) /\ y \in Exposing(c)
      BY <2>7 DEF Exposing
    <3>3. p \in Shared(h, c)
      BY <2>7, <3>1, <3>2, AutoAccounts DEF Shared, AllPairs
    <3>4. reuse[p] \in Nat
      BY DEF Shape, GraphShape
    <3> QED BY <2>5, <2>6, <3>1, <3>3, <3>4
  <2>8. hist'.inferred \subseteq exposed'
    BY <1>2, <2>2, <2>3 DEF Inferring
  <2>9. ASSUME NEW d \in hist'.inferred, NEW e \in hist'.inferred, d[2] = e[2], d[1] # e[1]
        PROVE  reuse'[<<Root(d[1]), Foothold(e[1])>>] > 0
    <3>1. /\ d \in exposed /\ e \in exposed /\ d = <<d[1], d[2]>> /\ e = <<e[1], e[2]>>
          /\ d[1] \in Hosts /\ e[1] \in Hosts
      BY <1>2, <2>8, <2>9 DEF Shape, GraphShape
    <3>2. CASE d[2] = c
      BY <2>7, <2>9, <3>1, <3>2
    <3>3. CASE d[2] # c
      <4>1. d \in hist.inferred /\ e \in hist.inferred
        BY <2>3, <2>9, <3>3
      <4>2. reuse[<<Root(d[1]), Foothold(e[1])>>] > 0
        BY <2>9, <4>1 DEF Inferring, ReuseComplete
      <4>3. <<Root(d[1]), Foothold(e[1])>> \in Pairs
        BY <3>1, AutoAccounts DEF Pairs
      <4> QED BY <4>2, <4>3 DEF Grows
    <3> QED BY <3>2, <3>3
  <2> QED BY <2>8, <2>9 DEF Inferring, ReuseComplete, Foothold, Root
<1> QED BY <1>3, <1>4

LEMMA StepInferring == Shape /\ Inferring /\ [Next]_vars => Inferring'
<1> SUFFICES ASSUME Shape, Grows, Inferring, [Next]_vars PROVE Inferring'
  BY StepShape
<1>1. ASSUME NEW s \in Scans, LinkHosts(s) PROVE Inferring'
  BY <1>1, LinkHostsInferring
<1>2. ASSUME hist'.inferred = hist.inferred PROVE Inferring'
  BY <1>2, InferringFrame
<1>3. ASSUME NEW s \in Scans, PrivEscFinding(s) PROVE Inferring'
  <2>1. hist' = hist \/ \E d : hist' = [hist EXCEPT !.derived = d]
    BY <1>3 DEF PrivEscFinding, AutoDeriveEscalation
  <2> QED BY <1>2, <2>1 DEF Shape, HistShape
<1>4. ASSUME NEW c \in Calls, AddEscalation(c) \/ AddCredentialReuse(c) PROVE Inferring'
  <2>1. hist' = hist \/ \E d : hist' = [hist EXCEPT !.edited = d]
    BY <1>4 DEF AddEscalation, AddCredentialReuse, Edit
  <2> QED BY <1>2, <2>1 DEF Shape, HistShape
<1>5. CASE UNCHANGED vars
  BY <1>2, <1>5 DEF vars, graph
<1>6. ASSUME NEW s \in Scans, ProjectAsset(s) \/ LeakFinding(s) \/ Fail(s) PROVE Inferring'
  BY <1>2, <1>6 DEF ProjectAsset, LeakFinding, Fail, graph
<1>7. ASSUME NEW c \in Calls, CreateAccount(c) \/ SyncAccount(c) PROVE Inferring'
  BY <1>2, <1>7 DEF CreateAccount, SyncAccount
<1> QED BY <1>1, <1>3, <1>4, <1>5, <1>6, <1>7 DEF Next, Process, Request, Idle

\* Two hosts for which AutoDeriveCredentialReuse inferred one credential, without a
\* failed call of their scans, are linked both ways.
THEOREM HostsAreLinked == Spec => []ReuseComplete
<1>1. Init => Inferring
  BY DEF Init, Inferring, ReuseComplete
<1>2. Shape /\ Inferring /\ [Next]_vars => Inferring'
  BY StepInferring
<1>3. Inferring => ReuseComplete
  BY DEF Inferring
<1> QED BY <1>1, <1>2, <1>3, AlwaysShape, PTL DEF Spec

-----------------------------------------------------------------------------
(* Paths.                                                                  *)

\* There are finitely many accounts, and what clients did not set joins the two accounts
\* of one host, or costs at most what the most harmless finding makes of it.
Sparse ==
  /\ IsFiniteSet(accounts)
  /\ \A p \in Pairs : escalate[p] > 0 /\ <<"escalation", p>> \notin hist.edited
                      => p = Own(HostOf(p[1]))
  /\ \A p \in Pairs : reuse[p] <= 900 \/ <<"reuse", p>> \in hist.edited

LEMMA SparseFrame ==
  ASSUME Sparse, IsFiniteSet(accounts'), hist.edited \subseteq hist'.edited,
         \A p \in Pairs : \/ escalate'[p] = escalate[p]
                          \/ <<"escalation", p>> \in hist'.edited
                          \/ p = Own(HostOf(p[1])),
         \A p \in Pairs : \/ reuse'[p] = reuse[p]
                          \/ <<"reuse", p>> \in hist'.edited
                          \/ reuse'[p] <= 900
  PROVE  Sparse'
  BY DEF Sparse, Pairs, Own, Foothold, Root, HostOf

LEMMA AutoAccountsFinite ==
  ASSUME Sparse, NEW h PROVE IsFiniteSet(WithAutoAccounts(h))
<1>1. WithAutoAccounts(h) = (accounts \cup {Foothold(h)}) \cup {Root(h)}
  BY DEF WithAutoAccounts
<1>2. IsFiniteSet(accounts \cup {Foothold(h)})
  BY FS_AddElement DEF Sparse
<1>3. IsFiniteSet((accounts \cup {Foothold(h)}) \cup {Root(h)})
  BY <1>2, FS_AddElement
<1> QED BY <1>1, <1>3

LEMMA PrivEscFindingSparse ==
  ASSUME Shape, Sparse, NEW s \in Scans, PrivEscFinding(s) PROVE Sparse'
<1>1. PICK risk \in Risks, r \in Results(~scan[s].expired) :
         AutoDeriveEscalation(scan[s].host, risk, r)
  BY DEF PrivEscFinding
<1>2. reuse' = reuse
  BY DEF PrivEscFinding
<1>3. CASE Applied(r) /\ scan[s].host \in nodes
  <2>1. PICK g \in Hosts : g = scan[s].host
    BY <1>3 DEF Shape, GraphShape
  <2>2. PICK w : w = AutoEscalationWeight(risk)
    OBVIOUS
  <2>3. /\ accounts' = WithAutoAccounts(g)
        /\ escalate' = [escalate EXCEPT ![Own(g)] = Cheapest(@, w)]
        /\ hist' = [hist EXCEPT !.derived = @ \cup {<<g, w>>}]
    BY <1>1, <1>3, <2>1, <2>2 DEF AutoDeriveEscalation, Own
  <2>4. hist'.edited = hist.edited
    BY <2>3 DEF Shape, HistShape
  <2>5. ASSUME NEW p \in Pairs PROVE escalate'[p] = escalate[p] \/ p = Own(HostOf(p[1]))
    <3>1. CASE p = Own(g)
      BY <3>1, AutoAccounts DEF Own
    <3>2. CASE p # Own(g)
      BY <2>3, <3>2 DEF Shape, GraphShape
    <3> QED BY <3>1, <3>2
  <2>6. IsFiniteSet(accounts')
    BY <2>3, AutoAccountsFinite
  <2> QED BY <1>2, <2>4, <2>5, <2>6, SparseFrame
<1>4. CASE ~(Applied(r) /\ scan[s].host \in nodes)
  <2>1. UNCHANGED <<accounts, escalate, hist>>
    BY <1>1, <1>4 DEF AutoDeriveEscalation
  <2> QED BY <1>2, <2>1, SparseFrame DEF Sparse
<1> QED BY <1>3, <1>4

LEMMA LinkHostsSparse ==
  ASSUME Shape, Sparse, NEW s \in Scans, LinkHosts(s) PROVE Sparse'
<1>1. PICK r : InferReuse(scan[s].host, scan[s].fp, scan[s].risk, r)
  BY DEF LinkHosts
<1>2. /\ UNCHANGED <<accounts, escalate>>
      /\ hist' = hist \/ \E i : hist' = [hist EXCEPT !.inferred = i]
  BY DEF LinkHosts
<1>3. hist'.edited = hist.edited
  BY <1>2 DEF Shape, HistShape
<1>4. PICK k \in 0..1000 : k = scan[s].risk
  BY DEF Shape, ScanShape, ScanStates
<1>5. AutoReuseWeight(k) <= 900
  <2>1. PICK w \in 100..900 : w = AutoReuseWeight(k)
    BY AutoReuseRange
  <2> QED BY <2>1
<1>6. PICK shared : shared = Shared(scan[s].host, scan[s].fp)
  OBVIOUS
<1>7. reuse' = IF Applied(r)
               THEN [p \in Pairs |-> IF p \in shared /\ reuse[p] = 0 THEN AutoReuseWeight(k)
                                     ELSE reuse[p]]
               ELSE reuse
  BY <1>1, <1>4, <1>6 DEF InferReuse
<1>8. ASSUME NEW p \in Pairs PROVE reuse'[p] = reuse[p] \/ reuse'[p] <= 900
  BY <1>5, <1>7
<1> QED BY <1>2, <1>3, <1>8, SparseFrame DEF Sparse

LEMMA AddEdgeSparse ==
  ASSUME Shape, Sparse, NEW c \in Calls, AddEscalation(c) \/ AddCredentialReuse(c) PROVE Sparse'
<1>1. UNCHANGED accounts
  BY DEF AddEscalation, AddCredentialReuse
<1>2. CASE AddEscalation(c)
  <2>1. PICK p, w, r : p \in Pairs /\ escalate' = SetEdge(p, w, r, escalate)
                       /\ Edit("escalation", p, r) /\ reuse' = reuse
    BY <1>2 DEF AddEscalation
  <2>2. CASE Applied(r) /\ BothExist(p)
    <3>1. hist'.edited = hist.edited \cup {<<"escalation", p>>}
      BY <2>1, <2>2 DEF Edit, Shape, HistShape
    <3>2. \A q \in Pairs : q = p \/ escalate'[q] = escalate[q]
      BY <2>1, <2>2 DEF SetEdge, Shape, GraphShape
    <3> QED BY <1>1, <2>1, <3>1, <3>2, SparseFrame DEF Sparse
  <2>3. CASE ~(Applied(r) /\ BothExist(p))
    BY <1>1, <2>1, <2>3, SparseFrame DEF SetEdge, Edit, Sparse
  <2> QED BY <2>2, <2>3
<1>3. CASE AddCredentialReuse(c)
  <2>1. PICK p, w, r : p \in Pairs /\ reuse' = SetEdge(p, w, r, reuse)
                       /\ Edit("reuse", p, r) /\ escalate' = escalate
    BY <1>3 DEF AddCredentialReuse
  <2>2. CASE Applied(r) /\ BothExist(p)
    <3>1. hist'.edited = hist.edited \cup {<<"reuse", p>>}
      BY <2>1, <2>2 DEF Edit, Shape, HistShape
    <3>2. \A q \in Pairs : q = p \/ reuse'[q] = reuse[q]
      BY <2>1, <2>2 DEF SetEdge, Shape, GraphShape
    <3> QED BY <1>1, <2>1, <3>1, <3>2, SparseFrame DEF Sparse
  <2>3. CASE ~(Applied(r) /\ BothExist(p))
    BY <1>1, <2>1, <2>3, SparseFrame DEF SetEdge, Edit, Sparse
  <2> QED BY <2>2, <2>3
<1> QED BY <1>2, <1>3

LEMMA StepSparse == Shape /\ Sparse /\ [Next]_vars => Sparse'
<1> SUFFICES ASSUME Shape, Sparse, [Next]_vars PROVE Sparse'
  OBVIOUS
<1>1. ASSUME UNCHANGED <<escalate, reuse, hist>>, IsFiniteSet(accounts') PROVE Sparse'
  BY <1>1, SparseFrame
<1>2. ASSUME NEW s \in Scans, PrivEscFinding(s) \/ LinkHosts(s) PROVE Sparse'
  BY <1>2, PrivEscFindingSparse, LinkHostsSparse
<1>3. ASSUME NEW c \in Calls, AddEscalation(c) \/ AddCredentialReuse(c) PROVE Sparse'
  BY <1>3, AddEdgeSparse
<1>4. ASSUME NEW s \in Scans, LeakFinding(s) PROVE Sparse'
  <2>1. PICK h, fp, r : RecordExposure(h, fp, r) /\ UNCHANGED <<escalate, reuse, hist>>
    BY <1>4 DEF LeakFinding
  <2>2. accounts' = WithAutoAccounts(h) \/ accounts' = accounts
    BY <2>1 DEF RecordExposure
  <2> QED BY <1>1, <2>1, <2>2, AutoAccountsFinite DEF Sparse
<1>5. ASSUME NEW c \in Calls, SyncAccount(c) PROVE Sparse'
  <2>1. /\ UNCHANGED <<escalate, reuse, hist>>
        /\ accounts' = accounts \/ \E x : accounts' = accounts \cup {x}
    BY <1>5 DEF SyncAccount
  <2> QED BY <1>1, <2>1, FS_AddElement DEF Sparse
<1>6. ASSUME NEW s \in Scans, ProjectAsset(s) \/ Fail(s) PROVE Sparse'
  BY <1>1, <1>6 DEF ProjectAsset, Fail, graph, Sparse
<1>7. ASSUME NEW c \in Calls, CreateAccount(c) PROVE Sparse'
  BY <1>1, <1>7 DEF CreateAccount, Sparse
<1>8. CASE UNCHANGED vars
  BY <1>1, <1>8 DEF vars, graph, Sparse
<1> QED BY <1>2, <1>3, <1>4, <1>5, <1>6, <1>7, <1>8 DEF Next, Process, Request, Idle

LEMMA WeightFacts ==
  ASSUME Shape, NEW p \in Pairs, NEW w \in EdgeWeights(p)
  PROVE  /\ w \in Nat /\ w > 0 /\ (w = escalate[p] \/ w = reuse[p])
         /\ {p[1], p[2]} \subseteq accounts /\ p = <<p[1], p[2]>>
<1>1. w \in {escalate[p], reuse[p]} /\ w # 0
  BY DEF EdgeWeights
<1>2. escalate[p] \in Nat /\ reuse[p] \in Nat
  BY DEF Shape, GraphShape
<1>3. w \in Nat /\ w > 0 /\ (w = escalate[p] \/ w = reuse[p])
  BY <1>1, <1>2
<1>4. {p[1], p[2]} \subseteq accounts
  BY <1>3 DEF Shape, GraphShape
<1> QED BY <1>3, <1>4 DEF Pairs

Edges == {p \in Pairs : EdgeWeights(p) # {}}
Costs == SUBSET (accounts \X Nat)

\* What one more edge does to the costs of some chains.
LEMMA OnwardIs ==
  ASSUME Shape, NEW costs \in Costs
  PROVE  /\ Onward(Edges, costs) \in Costs /\ costs \subseteq Onward(Edges, costs)
         /\ \A c \in costs, p \in Pairs : \A w \in EdgeWeights(p) :
              p[1] = c[1] => <<p[2], c[2] + w>> \in Onward(Edges, costs)
         /\ \A x \in Onward(Edges, costs) :
              \/ x \in costs
              \/ \E c \in costs, p \in Pairs : EdgeWeights(p) # {} /\ p[1] = c[1] /\ p[2] = x[1]
<1> DEFINE more(p) == {<<p[2], c[2] + w>> : c \in {d \in costs : d[1] = p[1]}, w \in EdgeWeights(p)}
           new == Onward(Edges, costs)
<1>1. new = costs \cup UNION {more(p) : p \in Edges}
  BY DEF Onward
<1> HIDE DEF new
<1>2. ASSUME NEW p \in Edges, NEW x \in more(p)
      PROVE  x \in accounts \X Nat /\ \E c \in costs : p[1] = c[1] /\ p[2] = x[1]
  <2>1. PICK c \in costs, w \in EdgeWeights(p) : p[1] = c[1] /\ x = <<p[2], c[2] + w>>
    OBVIOUS
  <2>2. w \in Nat /\ p[2] \in accounts
    BY WeightFacts DEF Edges
  <2>3. c[2] \in Nat
    BY DEF Costs
  <2> QED BY <2>1, <2>2, <2>3
<1>3. ASSUME NEW c \in costs, NEW p \in Pairs, NEW w \in EdgeWeights(p), p[1] = c[1]
      PROVE  <<p[2], c[2] + w>> \in new
  <2>1. p \in Edges
    BY DEF Edges
  <2>2. <<p[2], c[2] + w>> \in more(p)
    BY <1>3
  <2> QED BY <1>1, <2>1, <2>2
<1>4. ASSUME NEW x \in new
      PROVE  /\ x \in accounts \X Nat
             /\ \/ x \in costs
                \/ \E c \in costs, p \in Pairs : EdgeWeights(p) # {} /\ p[1] = c[1] /\ p[2] = x[1]
  <2>1. CASE x \in costs
    BY <2>1 DEF Costs
  <2>2. ASSUME NEW p \in Edges, x \in more(p)
        PROVE  /\ x \in accounts \X Nat /\ p \in Pairs /\ EdgeWeights(p) # {}
               /\ \E c \in costs : p[1] = c[1] /\ p[2] = x[1]
    BY <1>2, <2>2 DEF Edges
  <2> HIDE DEF more
  <2> QED BY <1>1, <2>1, <2>2
<1>5. costs \subseteq new
  BY <1>1
<1>6. new \in Costs
  BY <1>4 DEF Costs
<1> QED BY <1>3, <1>4, <1>5, <1>6 DEF new

\* The recursion of the search has its equations.
LEMMA ChainsUnfold ==
  ASSUME Shape, NEW n \in Nat, n = Cardinality(accounts), NEW from
  PROVE  \E t : /\ t \in [0..n -> Costs] /\ t[0] = ({from} \cap accounts) \X {0}
                /\ \A i \in 1..n : t[i] = Onward(Edges, t[i - 1])
                /\ Chains(from) = t[n]
<1> DEFINE start == ({from} \cap accounts) \X {0}
           Step == [c \in Costs |-> Onward(Edges, c)]
           Solves(t) == t = [i \in 0..n |-> IF i = 0 THEN start ELSE Onward(Edges, t[i - 1])]
<1>1. Step \in [Costs -> Costs] /\ start \in Costs
  <2>1. start \in Costs
    BY DEF Costs
  <2> QED BY <2>1, OnwardIs
<1>2. Chains(from) = (CHOOSE t : Solves(t))[n]
  BY Zenon DEF Chains, Edges
<1> HIDE DEF start, Step
<1>3. PICK g : Unfolds(g, Costs, start, Step, n)
  BY <1>1, Recursion
<1>4. Solves(g)
  <2>1. g \in [0..n -> Costs] /\ g[0] = start /\ \A i \in 1..n : g[i] = Step[g[i - 1]]
    BY <1>3 DEF Unfolds
  <2>2. \A i \in 1..n : g[i - 1] \in Costs
    BY <2>1
  <2>3. \A i \in 1..n : g[i] = Onward(Edges, g[i - 1])
    BY <2>1, <2>2 DEF Step
  <2> QED BY <2>1, <2>3
<1> HIDE DEF Solves
<1>5. PICK t : Solves(t) /\ Chains(from) = t[n]
  BY <1>2, <1>4, Zenon
<1>6. /\ DOMAIN t = 0..n /\ t[0] = start /\ t = [i \in 0..n |-> t[i]]
      /\ \A i \in 1..n : t[i] = Onward(Edges, t[i - 1])
  BY <1>5 DEF Solves
<1> DEFINE T == {i \in 0..n : t[i] \in Costs}
<1>7. 0 \in T
  BY <1>1, <1>6
<1>8. ASSUME NEW i \in 0..(n - 1), i \in T PROVE i + 1 \in T
  <2>1. i + 1 \in 1..n /\ (i + 1) - 1 = i
    OBVIOUS
  <2>2. t[i + 1] = Onward(Edges, t[(i + 1) - 1])
    BY <1>6, <2>1
  <2>3. t[i] \in Costs
    BY <1>8
  <2>4. t[i + 1] \in Costs
    BY <2>1, <2>2, <2>3, OnwardIs
  <2> QED BY <2>1, <2>4
<1> HIDE DEF T
<1>9. 0..n \subseteq T
  BY <1>7, <1>8, Climb
<1>10. t \in [0..n -> Costs]
  BY <1>6, <1>9 DEF T
<1> QED BY <1>5, <1>6, <1>10 DEF start

Leaky == {e[1] : e \in exposed}

\* Without edges of clients a chain leaves a host only between hosts that leaked.
Spread(h, a) == HostOf(a) = h \/ {h, HostOf(a)} \subseteq Leaky

LEMMA EdgesSpread ==
  ASSUME Shape, Sparse, ReuseJustified, hist.edited = {},
         NEW p \in Pairs, EdgeWeights(p) # {}, NEW h, Spread(h, p[1])
  PROVE  Spread(h, p[2])
<1>1. PICK w \in EdgeWeights(p) : w > 0 /\ (w = escalate[p] \/ w = reuse[p])
  BY WeightFacts
<1>2. CASE escalate[p] > 0
  <2>1. p = Own(HostOf(p[1]))
    BY <1>2 DEF Sparse
  <2>2. HostOf(p[2]) = HostOf(p[1])
    BY <2>1 DEF Own, Foothold, Root, HostOf
  <2> QED BY <2>2 DEF Spread
<1>3. CASE reuse[p] > 0
  <2>1. PICK c \in Creds : {HostOf(p[1]), HostOf(p[2])} \subseteq Exposing(c)
    BY <1>3 DEF ReuseJustified
  <2>2. {HostOf(p[1]), HostOf(p[2])} \subseteq Leaky
    BY <2>1 DEF Exposing, Leaky
  <2> QED BY <2>2 DEF Spread
<1> QED BY <1>1, <1>2, <1>3

LEMMA CountAccounts ==
  ASSUME Sparse PROVE Cardinality(accounts) \in Nat
  BY FS_CardinalityType DEF Sparse

LEMMA ChainsSpread ==
  ASSUME Shape, Sparse, ReuseJustified, hist.edited = {},
         NEW h \in Hosts, NEW x \in Chains(Foothold(h))
  PROVE  Spread(h, x[1])
<1>1. PICK n \in Nat : n = Cardinality(accounts)
  BY CountAccounts
<1>2. PICK from : from = Foothold(h)
  OBVIOUS
<1>3. PICK t : /\ t \in [0..n -> Costs] /\ t[0] = ({from} \cap accounts) \X {0}
               /\ \A i \in 1..n : t[i] = Onward(Edges, t[i - 1])
               /\ Chains(from) = t[n]
  BY <1>1, ChainsUnfold, Zenon
<1> DEFINE T == {i \in 0..n : \A c \in t[i] : Spread(h, c[1])}
<1>4. 0 \in T
  BY <1>2, <1>3, AutoAccounts DEF Spread
<1>5. ASSUME NEW i \in 0..(n - 1), i \in T PROVE i + 1 \in T
  <2>1. i + 1 \in 0..n /\ t[i] \in Costs /\ t[i + 1] = Onward(Edges, t[i])
    <3>1. i + 1 \in 1..n /\ i + 1 \in 0..n /\ i \in 0..n /\ (i + 1) - 1 = i
      OBVIOUS
    <3>2. t[i + 1] = Onward(Edges, t[(i + 1) - 1])
      BY <1>3, <3>1
    <3> QED BY <1>3, <3>1, <3>2
  <2>2. \A c \in t[i] : Spread(h, c[1])
    BY <1>5
  <2>3. ASSUME NEW d \in Onward(Edges, t[i]) PROVE Spread(h, d[1])
    <3>1. \/ d \in t[i]
          \/ \E c \in t[i], p \in Pairs : EdgeWeights(p) # {} /\ p[1] = c[1] /\ p[2] = d[1]
      BY <2>1, OnwardIs
    <3>2. ASSUME NEW c \in t[i], NEW p \in Pairs, EdgeWeights(p) # {}, p[1] = c[1], p[2] = d[1]
          PROVE  Spread(h, d[1])
      <4>1. Spread(h, p[1])
        BY <2>2, <3>2
      <4>2. Spread(h, p[2])
        BY <3>2, <4>1, EdgesSpread
      <4> QED BY <3>2, <4>2
    <3> QED BY <2>2, <3>1, <3>2
  <2> QED BY <2>1, <2>3
<1> HIDE DEF T
<1>6. 0..n \subseteq T
  BY <1>4, <1>5, Climb
<1>7. n \in T
  BY <1>6
<1> QED BY <1>2, <1>3, <1>7 DEF T

\* Three edges that follow each other are a chain, since there are as many rounds as
\* accounts.
LEMMA ThreeEdges ==
  ASSUME Shape, Sparse, NEW a, NEW b, NEW c, NEW d,
         NEW u \in EdgeWeights(<<a, b>>), NEW v \in EdgeWeights(<<b, c>>),
         NEW w \in EdgeWeights(<<c, d>>),
         {<<a, b>>, <<b, c>>, <<c, d>>} \subseteq Pairs, a # b, a # c, b # c
  PROVE  <<d, ((0 + u) + v) + w>> \in Chains(a)
<1>1. PICK n \in Nat : n = Cardinality(accounts)
  BY CountAccounts
<1>2. {a, b, c} \subseteq accounts
  BY WeightFacts
<1>3. n >= 3
  <2>1. PICK A : A = {a}
    OBVIOUS
  <2>2. PICK B : B = A \cup {b}
    OBVIOUS
  <2>3. PICK C : C = B \cup {c}
    OBVIOUS
  <2>4. b \notin A /\ c \notin B /\ C \in SUBSET accounts
    BY <1>2, <2>1, <2>2, <2>3
  <2>5. IsFiniteSet(A) /\ Cardinality(A) = 1
    BY <2>1, FS_Singleton
  <2>6. IsFiniteSet(B) /\ Cardinality(B) = 2
    BY <2>2, <2>4, <2>5, FS_AddElement
  <2>7. IsFiniteSet(C) /\ Cardinality(C) = 3
    BY <2>3, <2>4, <2>6, FS_AddElement
  <2>8. Cardinality(C) <= Cardinality(accounts)
    BY <2>4, FS_Subset DEF Sparse
  <2> QED BY <1>1, <2>7, <2>8
<1>4. PICK t : /\ t \in [0..n -> Costs] /\ t[0] = ({a} \cap accounts) \X {0}
               /\ \A i \in 1..n : t[i] = Onward(Edges, t[i - 1])
               /\ Chains(a) = t[n]
  BY <1>1, ChainsUnfold, Zenon
<1>5. ASSUME NEW i \in 0..(n - 1)
      PROVE  i + 1 \in 0..n /\ t[i] \in Costs /\ t[i + 1] = Onward(Edges, t[i])
  <2>1. i + 1 \in 1..n /\ i + 1 \in 0..n /\ i \in 0..n /\ (i + 1) - 1 = i
    OBVIOUS
  <2>2. t[i + 1] = Onward(Edges, t[(i + 1) - 1])
    BY <1>4, <2>1
  <2> QED BY <1>4, <2>1, <2>2
<1>6. ASSUME NEW i \in 0..(n - 1), NEW x, NEW y, NEW m, NEW z \in EdgeWeights(<<x, y>>),
             <<x, y>> \in Pairs, <<x, m>> \in t[i]
      PROVE  <<y, m + z>> \in t[i + 1]
  <2>1. PICK p \in Pairs : p = <<x, y>>
    BY <1>6
  <2>2. PICK e \in t[i] : e = <<x, m>>
    BY <1>6
  <2>3. z \in EdgeWeights(p) /\ p[1] = e[1] /\ p[2] = y /\ e[2] = m
    BY <2>1, <2>2
  <2>4. <<p[2], e[2] + z>> \in Onward(Edges, t[i])
    BY <1>5, <2>3, OnwardIs
  <2> QED BY <1>5, <2>3, <2>4
<1>7. <<a, 0>> \in t[0]
  BY <1>2, <1>4
<1>8. <<b, 0 + u>> \in t[0 + 1]
  BY <1>3, <1>6, <1>7
<1>9. <<c, (0 + u) + v>> \in t[1 + 1]
  BY <1>3, <1>6, <1>8
<1>10. <<d, ((0 + u) + v) + w>> \in t[2 + 1]
  BY <1>3, <1>6, <1>9
<1> DEFINE T == {i \in 3..n : <<d, ((0 + u) + v) + w>> \in t[i]}
<1>11. 3 \in T
  BY <1>3, <1>10
<1>12. ASSUME NEW i \in 3..(n - 1), i \in T PROVE i + 1 \in T
  <2>1. i \in 0..(n - 1) /\ i + 1 \in 3..n
    BY <1>3
  <2>2. t[i] \subseteq t[i + 1]
    BY <1>5, <2>1, OnwardIs
  <2> QED BY <1>12, <2>1, <2>2
<1> HIDE DEF T
<1>13. 3..n \subseteq T
  BY <1>11, <1>12, Climb
<1>14. n \in T
  BY <1>3, <1>13
<1> QED BY <1>4, <1>14 DEF T

LEMMA ChainsType ==
  ASSUME Shape, Sparse, NEW from PROVE Chains(from) \subseteq accounts \X Nat
<1>1. PICK n \in Nat : n = Cardinality(accounts)
  BY CountAccounts
<1>2. PICK t : t \in [0..n -> Costs] /\ Chains(from) = t[n]
  BY <1>1, ChainsUnfold
<1> QED BY <1>2 DEF Costs

\* What the search answers about an account that chains reach.
LEMMA SearchAnswer ==
  ASSUME Shape, Sparse, NEW from, NEW to
  PROVE  /\ FindPrivEscPath(from, to).found =>
              /\ FindPrivEscPath(from, to).cost \in Nat
              /\ \E x \in Chains(from) : x[1] = to
         /\ \A x \in Chains(from) : x[1] = to =>
              /\ FindPrivEscPath(from, to).found
              /\ FindPrivEscPath(from, to).cost <= x[2]
<1> DEFINE costs == {c[2] : c \in {d \in Chains(from) : d[1] = to}}
           least == CHOOSE c \in costs : \A d \in costs : c <= d
<1>1. FindPrivEscPath(from, to) = IF costs = {} THEN [found |-> FALSE]
                                  ELSE [found |-> TRUE, cost |-> least]
  BY Zenon DEF FindPrivEscPath
<1>2. CASE costs = {}
  <2>1. FindPrivEscPath(from, to) = [found |-> FALSE]
    BY <1>1, <1>2
  <2>2. ~FindPrivEscPath(from, to).found
    BY <2>1
  <2>3. \A x \in Chains(from) : x[1] # to
    BY <1>2
  <2> QED BY <2>2, <2>3
<1>3. CASE costs # {}
  <2>1. FindPrivEscPath(from, to) = [found |-> TRUE, cost |-> least]
    BY <1>1, <1>3
  <2>2. costs \subseteq Nat
    BY ChainsType
  <2>3. \A x \in Chains(from) : x[1] = to => x[2] \in costs
    OBVIOUS
  <2>4. \E x \in Chains(from) : x[1] = to
    BY <1>3
  <2> HIDE DEF costs
  <2>5. \E c \in costs : \A d \in costs : c <= d
    BY <1>3, <2>2, Least
  <2>6. least \in costs /\ \A d \in costs : least <= d
    BY <2>5, Zenon
  <2> HIDE DEF least
  <2>7. /\ FindPrivEscPath(from, to).found
        /\ FindPrivEscPath(from, to).cost = least
    BY <2>1
  <2> QED BY <2>2, <2>3, <2>4, <2>6, <2>7
<1> QED BY <1>2, <1>3

LEMMA PathsFound ==
  Shape /\ Cheap /\ ReuseJustified /\ Inferring /\ Sparse => LateralPathFound
<1> SUFFICES ASSUME Shape, Cheap, ReuseJustified, Inferring, Sparse,
                    NEW h \in {d[1] : d \in hist.derived}, NEW k \in {d[1] : d \in hist.derived},
                    h # k, hist.edited = {}
             PROVE  LET path == FindPrivEscPath(Foothold(h), Root(k)) IN
                    /\ path.found => {h, k} \subseteq {e[1] : e \in exposed}
                    /\ \A c \in Creds : {<<h, c>>, <<k, c>>} \subseteq hist.inferred =>
                         /\ path.found
                         /\ \A v, w \in {d[2] : d \in hist.derived} :
                              {<<h, v>>, <<k, w>>} \subseteq hist.derived
                                => path.cost <= v + w + 900
  BY DEF LateralPathFound
<1>1. h \in Hosts /\ k \in Hosts
  BY DEF Shape, HistShape
<1>2. HostOf(Root(k)) = k
  BY <1>1, AutoAccounts
<1> DEFINE path == FindPrivEscPath(Foothold(h), Root(k))
<1>3. ASSUME path.found PROVE {h, k} \subseteq Leaky
  <2>1. PICK x \in Chains(Foothold(h)) : x[1] = Root(k)
    BY <1>3, SearchAnswer
  <2>2. Spread(h, x[1])
    BY <1>1, ChainsSpread
  <2> QED BY <1>2, <2>1, <2>2 DEF Spread
<1>4. ASSUME NEW c \in Creds, {<<h, c>>, <<k, c>>} \subseteq hist.inferred,
             NEW v, NEW w, {<<h, v>>, <<k, w>>} \subseteq hist.derived
      PROVE  path.found /\ path.cost <= v + w + 900
  <2>1. v \in Derived(h) /\ w \in Derived(k) /\ v \in 30..900 /\ w \in 30..900
    BY <1>4 DEF Shape, HistShape, Derived
  <2>2. PICK a : a = escalate[Own(h)] /\ a \in Nat /\ a > 0 /\ a <= v
    <3>1. Own(h) \in Pairs
      BY <1>1, AutoAccounts DEF Own, Pairs
    <3> QED BY <1>1, <2>1, <3>1 DEF Cheap, Shape, GraphShape
  <2>3. PICK b : b = escalate[Own(k)] /\ b \in Nat /\ b > 0 /\ b <= w
    <3>1. Own(k) \in Pairs
      BY <1>1, AutoAccounts DEF Own, Pairs
    <3> QED BY <1>1, <2>1, <3>1 DEF Cheap, Shape, GraphShape
  <2> DEFINE hop == <<Root(h), Foothold(k)>>
  <2>4. hop \in Pairs
    BY <1>1, AutoAccounts DEF Pairs
  <2>5. PICK r : r = reuse[hop] /\ r \in Nat /\ r > 0 /\ r <= 900
    <3>1. reuse[hop] > 0
      BY <1>4 DEF Inferring, ReuseComplete
    <3> QED BY <2>4, <3>1 DEF Sparse, Shape, GraphShape
  <2>6. a \in EdgeWeights(Own(h)) /\ r \in EdgeWeights(hop) /\ b \in EdgeWeights(Own(k))
    BY <2>2, <2>3, <2>5 DEF EdgeWeights
  <2>7. /\ Foothold(h) # Root(h) /\ Foothold(h) # Foothold(k) /\ Root(h) # Foothold(k)
        /\ Own(h) \in Pairs /\ Own(k) \in Pairs
    BY <1>1, AutoAccounts DEF Own, Pairs, Foothold, Root
  <2>8. <<Root(k), ((0 + a) + r) + b>> \in Chains(Foothold(h))
    BY <2>4, <2>6, <2>7, ThreeEdges DEF Own
  <2>9. path.found /\ path.cost <= ((0 + a) + r) + b
    <3>1. PICK x \in Chains(Foothold(h)) : x[1] = Root(k) /\ x[2] = ((0 + a) + r) + b
      BY <2>8
    <3> QED BY <3>1, SearchAnswer
  <2>10. path.cost <= v + w + 900
    <3>1. path.cost \in Nat
      BY <2>9, SearchAnswer
    <3> QED BY <2>1, <2>2, <2>3, <2>5, <2>9, <3>1
  <2> QED BY <2>9, <2>10
<1>5. ASSUME NEW g \in {d[1] : d \in hist.derived} PROVE \E v : <<g, v>> \in hist.derived
  <2>1. PICK d \in hist.derived : d[1] = g
    OBVIOUS
  <2>2. d = <<g, d[2]>>
    BY <2>1 DEF Shape, HistShape
  <2> QED BY <2>2
<1>6. PICK v, w : <<h, v>> \in hist.derived /\ <<k, w>> \in hist.derived
  BY <1>5
<1>7. ASSUME NEW c \in Creds, {<<h, c>>, <<k, c>>} \subseteq hist.inferred PROVE path.found
  BY <1>4, <1>6, <1>7
<1> HIDE DEF path
<1>8. /\ path.found => {h, k} \subseteq {e[1] : e \in exposed}
      /\ \A c \in Creds : {<<h, c>>, <<k, c>>} \subseteq hist.inferred =>
           /\ path.found
           /\ \A v_1, w_1 \in {d[2] : d \in hist.derived} :
                {<<h, v_1>>, <<k, w_1>>} \subseteq hist.derived => path.cost <= v_1 + w_1 + 900
  BY <1>3, <1>4, <1>7 DEF Leaky
<1> QED BY <1>8 DEF path

\* Edges that scans derived by rules of their own join to paths, however the scans
\* interleaved and whatever failed: between hosts known to share a credential one is
\* found, at most as dear as the three edges it needs, and no other two hosts get one.
THEOREM LateralPathsAreFound == Spec => []LateralPathFound
<1>1. Init => Cheap /\ ReuseJustified /\ Inferring /\ Sparse
  <2>1. Init => Cheap
    BY AutoAccounts DEF Init, Cheap, Derived, Own, Pairs
  <2>2. Init => ReuseJustified /\ Inferring
    BY DEF Init, ReuseJustified, Inferring, ReuseComplete
  <2>3. Init => Sparse
    BY FS_EmptySet DEF Init, Sparse
  <2> QED BY <2>1, <2>2, <2>3
<1> QED BY <1>1, StepCheap, StepJustified, StepInferring, StepSparse, PathsFound, AlwaysShape, PTL
        DEF Spec
=============================================================================
