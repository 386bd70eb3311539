------------------------- MODULE ScanPipelineProofs -------------------------
(***************************************************************************)
(* Types of the scan pipeline, and the life of a job: which statements run *)
(* in which order on its row.  For any sets of jobs, workers and assets,   *)
(* any configuration and any set of faults.                                *)
(***************************************************************************)
EXTENDS ScanPipeline, TLAPS

-----------------------------------------------------------------------------
(* Lemmas about the adapters and the helpers.                              *)

\* The results of a run that reached t.
Possible(t) ==
  {Report(n, t) : n \in 0..MaxFindings} \cup {Garbled(n, t) : n \in 0..MaxFindings}
  \cup (IF Production THEN {Error(t)} ELSE {Mock(t)})

LEMMA PossibleType ==
  ASSUME NEW t \in SUBSET Addresses, NEW o \in Possible(t)
  PROVE  /\ o \in Outcome /\ o.touched = t
         /\ Production => o.kind # "mock"
         /\ Yield(o) \in 0..MaxFindings
         /\ Yield(o) > 0 => o.kind \in Kinds
<1>1. 0 \in 0..MaxFindings /\ MaxFindings \in 0..MaxFindings
  BY AdapterAssumption
<1>2. CASE o \in {Report(n, t) : n \in 0..MaxFindings}
  <2>1. PICK n \in 0..MaxFindings : o = Report(n, t)
    BY <1>2
  <2>2. o = [kind |-> "live", touched |-> t, parsed |-> TRUE, n |-> n]
    BY <2>1 DEF Report
  <2> QED BY <2>1, <2>2 DEF Outcome, Yield, Kinds
<1>3. CASE o \in {Garbled(n, t) : n \in 0..MaxFindings}
  <2>1. PICK n \in 0..MaxFindings : o = Garbled(n, t)
    BY <1>3
  <2>2. o = [kind |-> "live", touched |-> t, parsed |-> FALSE, n |-> n]
    BY <2>1 DEF Garbled
  <2> QED BY <1>1, <2>1, <2>2 DEF Outcome, Yield, Kinds
<1>4. CASE Production /\ o = Error(t)
  BY <1>1, <1>4 DEF Error, Outcome, Yield
<1>5. CASE ~Production /\ o = Mock(t)
  BY <1>1, <1>5 DEF Mock, Outcome, Yield, Kinds
<1> QED BY <1>2, <1>3, <1>4, <1>5 DEF Possible

LEMMA Fallbacks ==
  ASSUME NEW t
  PROVE  /\ {Fallback, CryptoForbidden, SecretsFailed} \subseteq Possible({})
         /\ {NmapFailed(t), NucleiFailed(t), NucleiSilent(t), CryptoFailed(t)} \subseteq Possible(t)
<1>1. 0 \in 0..MaxFindings
  BY AdapterAssumption
<1> QED BY <1>1 DEF Possible, Fallback, CryptoForbidden, SecretsFailed, NmapFailed,
                    NucleiFailed, NucleiSilent, CryptoFailed

LEMMA ContactsType ==
  ASSUME NEW a \in Assets
  PROVE  /\ Contacts(a, Spans[a]) \subseteq SUBSET Addresses
         /\ Contacts(a, {}) \subseteq SUBSET Addresses
         /\ {} \in SUBSET Addresses
<1>1. Answers[a] \subseteq SUBSET Addresses /\ Spans[a] \subseteq Addresses
  BY AdapterAssumption
<1> QED BY <1>1 DEF Contacts

LEMMA FindingsType == ASSUME NEW t PROVE Findings(t) \subseteq 0..MaxFindings
  BY AdapterAssumption DEF Findings

\* Who may be contacted, at the lookup that answered seen.
Reachable(t, seen, auth) == t \in SUBSET Addresses /\ (t = {} \/ LiveAllowed(seen, auth))

\* Every adapter returns a possible result of a run the policy allows.
LEMMA NmapPossible ==
  ASSUME NEW a \in Assets, NEW seen, NEW auth, NEW ctxDone,
         NEW o \in NmapScan(a, seen, auth, ctxDone)
  PROVE  \E t : o \in Possible(t) /\ Reachable(t, seen, auth)
<1>1. CASE o \in Possible({})
  BY <1>1, ContactsType DEF Reachable
<1>2. CASE ~Runnable("nmap", seen, auth) \/ ctxDone
  BY <1>1, <1>2, Fallbacks DEF NmapScan
<1>3. CASE Runnable("nmap", seen, auth) /\ ~ctxDone
  <2>1. PICK t \in Contacts(a, Spans[a]) :
          o \in {NmapFailed(t)} \cup {Report(n, t) : n \in Findings(t)}
                               \cup {Garbled(n, t) : n \in Findings(t)}
    BY <1>3 DEF NmapScan
  <2>2. o \in Possible(t)
    BY <2>1, Fallbacks, FindingsType DEF Possible
  <2> QED BY <1>3, <2>1, <2>2, ContactsType DEF Reachable, Runnable
<1> QED BY <1>2, <1>3

LEMMA NucleiPossible ==
  ASSUME NEW a \in Assets, NEW seen, NEW auth, NEW ctxDone,
         NEW o \in NucleiScan(a, seen, auth, ctxDone)
  PROVE  \E t : o \in Possible(t) /\ Reachable(t, seen, auth)
<1>1. CASE o \in Possible({})
  BY <1>1, ContactsType DEF Reachable
<1>2. CASE ~Runnable("nuclei", seen, auth) \/ ctxDone
  BY <1>1, <1>2, Fallbacks DEF NucleiScan
<1>3. CASE Runnable("nuclei", seen, auth) /\ ~ctxDone
  <2>1. PICK t \in Contacts(a, Spans[a]) :
          o \in {NucleiFailed(t), NucleiSilent(t)} \cup {Report(n, t) : n \in Findings(t)}
    BY <1>3 DEF NucleiScan
  <2>2. o \in Possible(t)
    BY <2>1, Fallbacks, FindingsType DEF Possible
  <2> QED BY <1>3, <2>1, <2>2, ContactsType DEF Reachable, Runnable
<1> QED BY <1>2, <1>3

LEMMA CryptoPossible ==
  ASSUME NEW a \in Assets, NEW seen, NEW auth, NEW o \in CryptoScan(a, seen, auth)
  PROVE  \E t : o \in Possible(t) /\ Reachable(t, seen, auth)
<1>1. CASE ~LiveAllowed(seen, auth)
  BY <1>1, Fallbacks, ContactsType DEF CryptoScan, Reachable
<1>2. CASE LiveAllowed(seen, auth)
  <2>1. PICK t \in Contacts(a, {}) :
          o = CryptoFailed(t) \/ \E n \in {0, 1} : o = Report(n, t)
    BY <1>2 DEF CryptoScan
  <2>2. {0, 1} \subseteq 0..MaxFindings
    BY AdapterAssumption
  <2>3. o \in Possible(t)
    BY <2>1, <2>2, Fallbacks DEF Possible
  <2> QED BY <1>2, <2>1, <2>3, ContactsType DEF Reachable
<1> QED BY <1>1, <1>2

LEMMA SecretsPossible ==
  ASSUME NEW a \in Assets, NEW ctxDone, NEW o \in SecretsScan(a, ctxDone)
  PROVE  o \in Possible({}) /\ (a \notin RepoAssets => o = Report(0, {}))
<1>1. 0 \in 0..MaxFindings
  BY AdapterAssumption
<1> QED BY <1>1, Fallbacks DEF SecretsScan, Possible

\* What the adapters return: production fabricates nothing, nobody is contacted against
\* the policy, and a report that yields findings comes from a scanner that applies.
LEMMA OutcomePolicy ==
  ASSUME NEW s \in Scanners, NEW a \in Assets, NEW auth, NEW ctxDone,
         NEW o \in ScanOutcomes(s, a, auth, ctxDone)
  PROVE  /\ o \in Outcome
         /\ Production => o.kind # "mock"
         /\ o.touched # {} => \E seen \in Answers[a] : LiveAllowed(seen, auth)
         /\ Yield(o) \in 0..MaxFindings
         /\ Yield(o) > 0 => o.kind \in Kinds /\ Applicable(s, a)
<1>1. PICK seen \in Answers[a] :
        o \in CASE s = "nmap"   -> NmapScan(a, seen, auth, ctxDone)
               [] s = "nuclei" -> NucleiScan(a, seen, auth, ctxDone)
               [] s = "crypto" -> CryptoScan(a, seen, auth)
               [] OTHER        -> SecretsScan(a, ctxDone)
  BY DEF ScanOutcomes
<1>2. \/ s = "nmap" /\ o \in NmapScan(a, seen, auth, ctxDone)
      \/ s = "nuclei" /\ o \in NucleiScan(a, seen, auth, ctxDone)
      \/ s = "crypto" /\ o \in CryptoScan(a, seen, auth)
      \/ s = "secrets" /\ o \in SecretsScan(a, ctxDone)
  BY <1>1 DEF Scanners
<1>3. PICK t : o \in Possible(t) /\ Reachable(t, seen, auth)
  BY <1>2, NmapPossible, NucleiPossible, CryptoPossible, SecretsPossible, ContactsType
     DEF Reachable
<1>4. /\ o \in Outcome /\ o.touched = t
      /\ Production => o.kind # "mock"
      /\ Yield(o) \in 0..MaxFindings
      /\ Yield(o) > 0 => o.kind \in Kinds
  BY <1>3, PossibleType DEF Reachable
<1>5. ASSUME Yield(o) > 0 PROVE Applicable(s, a)
  <2>1. CASE s = "secrets" /\ a \notin RepoAssets
    <3>1. o = Report(0, {})
      BY <1>2, <2>1, SecretsPossible
    <3> QED BY <1>5, <3>1 DEF Report, Yield
  <2> QED BY <2>1 DEF Applicable
<1> QED BY <1>1, <1>3, <1>4, <1>5 DEF Reachable

LEMMA ForProfileType == ASSUME NEW p PROVE ForProfile(p) \in Seq(Scanners)
<1>1. <<"nuclei">> \in Seq(Scanners) /\ <<"nmap">> \in Seq(Scanners)
  BY DEF Scanners
<1>2. <<"nmap", "nuclei", "crypto", "secrets">> \in Seq(Scanners)
  BY DEF Scanners
<1>3. CASE p = "web"
  BY <1>1, <1>3 DEF ForProfile
<1>4. CASE p = "critical"
  BY <1>2, <1>4 DEF ForProfile
<1>5. CASE p \notin {"web", "critical"}
  BY <1>1, <1>5 DEF ForProfile
<1> QED BY <1>3, <1>4, <1>5

LEMMA ResultsType ==
  ASSUME NEW f, NEW alive \in BOOLEAN
  PROVE  Results(f, alive) \subseteq {"ok", "lost", "unknown"}
  BY DEF Results

LEMMA NoLocalType == NoLocal \in Locals
  BY AdapterAssumption DEF NoLocal, Locals, Pairs, Kinds, Scanners

LEMMA RowTypes ==
  ASSUME NEW r \in Rows, NEW um \in BOOLEAN, NEW e \in Errors
  PROVE  /\ QueuedRow \in Rows
         /\ MarkRunningRow(r) \in Rows /\ MarkRunningRow(r).status = "running"
         /\ MarkCompletedRow(r, um) \in Rows /\ MarkCompletedRow(r, um).status = "completed"
         /\ MarkFailedRow(r, e) \in Rows /\ MarkFailedRow(r, e).status = "failed"
  BY DEF Rows, Statuses, Errors, QueuedRow, MarkRunningRow, MarkCompletedRow, MarkFailedRow

LEMMA FinalRowType ==
  ASSUME NEW r \in Rows, NEW l \in Locals
  PROVE  FinalRow(r, l) \in Rows /\ FinalRow(r, l).status \in Terminal
  BY RowTypes DEF FinalRow, Errors, Terminal, Locals

LEMMA AfterScanType ==
  ASSUME NEW l \in Locals, l.todo # <<>>, NEW s \in Scanners, NEW o,
         Yield(o) \in 0..MaxFindings, Yield(o) > 0 => o.kind \in Kinds
  PROVE  AfterScan(l, s, o) \in Locals
<1>1. Tail(l.todo) \in Seq(Scanners)
  BY DEF Locals
<1>2. (IF Yield(o) > 0 THEN <<s, o.kind>> ELSE l.from) \in Pairs
  BY DEF Locals, Pairs
<1> QED BY <1>1, <1>2 DEF AfterScan, Locals, AnyIsMock

LEMMA NotedType ==
  ASSUME NEW h \in Histories, NEW s \in Scanners, NEW o \in Outcome
  PROVE  Noted(h, s, o) \in Histories
<1>1. o.touched \subseteq Addresses
  BY DEF Outcome
<1> QED BY <1>1 DEF Noted, Histories

LEMMA SkippedType ==
  ASSUME NEW f \in [Jobs -> Histories], NEW j \in Jobs
  PROVE  [f EXCEPT ![j].skipped = TRUE] \in [Jobs -> Histories]
<1>1. [f[j] EXCEPT !.skipped = TRUE] \in Histories
  BY DEF Histories
<1> QED BY <1>1

-----------------------------------------------------------------------------
(* Types.                                                                  *)

\* TypeOK in three groups, so that an action only argues about what it changes.
ApiType == /\ authorised \in [Assets -> BOOLEAN]
           /\ ask \in [Jobs -> [asset : Assets, profile : Profiles]]
           /\ req \in [Jobs -> {"none", "created", "accepted", "refused"}]
           /\ queue \in Seq(Jobs)
           /\ stops \in 0..MaxStops
           /\ hist \in [Jobs -> Histories]
DbType  == /\ row \in [Jobs -> Rows]
           /\ stored \in [Jobs -> SUBSET Pairs]
WorkerType == /\ pc \in [Workers -> PCs]
              /\ cur \in [Workers -> Jobs \cup {NoJob}]
              /\ ctx \in [Workers -> {"live", "expired", "cancelled"}]
              /\ local \in [Workers -> Locals]

\* A worker at work holds a job.
Busy == {"load", "mark", "scan", "fail"}
Holding == \A w \in Workers : IF pc[w] \in Busy THEN cur[w] \in Jobs ELSE cur[w] = NoJob

TInv == ApiType /\ DbType /\ WorkerType /\ Holding

LEMMA TypeParts == TInv => TypeOK
  BY DEF TInv, TypeOK, ApiType, DbType, WorkerType

LEMMA InitType == Init => TInv
<1> SUFFICES ASSUME Init PROVE TInv
  OBVIOUS
<1>1. ApiType
  <2>1. authorised \in [Assets -> BOOLEAN]
    <3>1. PICK g \in SUBSET Governed : authorised = [a \in Assets |-> a \in g]
      BY DEF Init
    <3>2. \A a \in Assets : (a \in g) \in BOOLEAN
      OBVIOUS
    <3> QED BY <3>1, <3>2
  <2>2. ask \in [Jobs -> [asset : Assets, profile : Profiles]]
    BY PipelineAssumption DEF Init
  <2>3. NoHistory \in Histories
    BY DEF NoHistory, Histories
  <2>4. req \in [Jobs -> {"none", "created", "accepted", "refused"}]
    BY DEF Init
  <2>5. queue \in Seq(Jobs)
    <3>1. queue = <<>>
      BY DEF Init
    <3> QED BY <3>1
  <2>7. stops \in 0..MaxStops
    <3>1. stops = 0
      BY DEF Init
    <3> QED BY <3>1, PipelineAssumption
  <2>6. hist \in [Jobs -> Histories]
    BY <2>3 DEF Init
  <2> QED BY <2>1, <2>2, <2>4, <2>5, <2>6, <2>7 DEF ApiType
<1>2. DbType
  BY DEF Init, DbType, Rows, Statuses, Errors
<1>3. WorkerType /\ Holding
  BY NoLocalType DEF Init, WorkerType, Holding, Busy, PCs
<1> QED BY <1>1, <1>2, <1>3 DEF TInv

LEMMA ReturnType ==
  ASSUME WorkerType, NEW w \in Workers, NEW p \in PCs, NEW j \in Jobs \cup {NoJob},
         Return(w, p, j)
  PROVE  WorkerType'
  BY NoLocalType DEF WorkerType, Return, Goto

LEMMA ReturnHolding ==
  ASSUME WorkerType, Holding, NEW w \in Workers, NEW p \in PCs, NEW j \in Jobs \cup {NoJob},
         Return(w, p, j), IF p \in Busy THEN j \in Jobs ELSE j = NoJob
  PROVE  Holding'
  BY DEF WorkerType, Holding, Return, Goto

LEMMA CreateScanJobType == ASSUME TInv, NEW j \in Jobs, CreateScanJob(j) PROVE TInv'
<1>1. PICK r : /\ Update(j, r, QueuedRow)
               /\ req' = [req EXCEPT ![j] = IF Inserted(r) THEN "created" ELSE "refused"]
               /\ hist' = IF Applied(r)
                          THEN [hist EXCEPT ![j].cleared = authorised[ask[j].asset]]
                          ELSE hist
  BY DEF CreateScanJob
<1>2. UNCHANGED <<authorised, ask, stored, queue, pc, cur, ctx, local, stops>>
  BY DEF CreateScanJob, worker
<1>3. hist' \in [Jobs -> Histories]
  <2>1. authorised[ask[j].asset] \in BOOLEAN
    BY DEF TInv, ApiType
  <2>2. [hist[j] EXCEPT !.cleared = authorised[ask[j].asset]] \in Histories
    BY <2>1 DEF TInv, ApiType, Histories
  <2> QED BY <1>1, <2>2 DEF TInv, ApiType
<1>4. ApiType'
  BY <1>1, <1>2, <1>3 DEF TInv, ApiType
<1>5. DbType'
  BY <1>1, <1>2, RowTypes DEF TInv, DbType, Update, Errors
<1>6. WorkerType' /\ Holding'
  BY <1>2 DEF TInv, WorkerType, Holding
<1> QED BY <1>4, <1>5, <1>6 DEF TInv

LEMMA EnqueueType == ASSUME TInv, NEW j \in Jobs, Enqueue(j) PROVE TInv'
<1>1. UNCHANGED <<authorised, ask, row, stored, pc, cur, ctx, local, stops, hist>>
  BY DEF Enqueue, worker, db
<1>2. queue' \in Seq(Jobs)
  BY DEF Enqueue, TInv, ApiType
<1>3. ApiType'
  BY <1>1, <1>2 DEF Enqueue, TInv, ApiType
<1>4. DbType' /\ WorkerType' /\ Holding'
  BY <1>1 DEF TInv, DbType, WorkerType, Holding
<1> QED BY <1>3, <1>4 DEF TInv

LEMMA AuthorizeAssetType == ASSUME TInv, NEW a \in Assets, AuthorizeAsset(a) PROVE TInv'
<1>1. UNCHANGED <<ask, req, row, stored, queue, pc, cur, ctx, local, stops>>
  BY DEF AuthorizeAsset, worker, db
<1>2. \A j \in Jobs : [hist[j] EXCEPT !.cleared = TRUE] \in Histories
  BY DEF TInv, ApiType, Histories
<1>3. ApiType'
  BY <1>1, <1>2 DEF AuthorizeAsset, TInv, ApiType
<1>4. DbType' /\ WorkerType' /\ Holding'
  BY <1>1 DEF TInv, DbType, WorkerType, Holding
<1> QED BY <1>3, <1>4 DEF TInv

LEMMA PollType == ASSUME TInv, NEW w \in Workers, Poll(w) PROVE TInv'
<1>1. UNCHANGED <<authorised, ask, req, row, stored, queue, cur, ctx, local, stops, hist>>
  BY DEF Poll, api, db
<1>2. pc[w] = "poll" /\ \E p \in {"pop", "down"} : pc' = [pc EXCEPT ![w] = p]
  BY DEF Poll, Goto
<1>3. WorkerType' /\ Holding'
  BY <1>1, <1>2 DEF TInv, WorkerType, Holding, Busy, PCs
<1> QED BY <1>1, <1>3 DEF TInv, ApiType, DbType

LEMMA DequeueType == ASSUME TInv, NEW w \in Workers, Dequeue(w) PROVE TInv'
<1>1. UNCHANGED <<authorised, ask, req, row, stored, ctx, local, stops, hist>>
  BY DEF Dequeue, api, db
<1>2. /\ queue # <<>> /\ queue' = Tail(queue)
      /\ pc' = [pc EXCEPT ![w] = "load"] /\ cur' = [cur EXCEPT ![w] = Head(queue)]
  BY DEF Dequeue, Goto, Pop
<1>3. Head(queue) \in Jobs /\ queue' \in Seq(Jobs)
  BY <1>2 DEF TInv, ApiType
<1>4. WorkerType' /\ Holding'
  BY <1>1, <1>2, <1>3 DEF TInv, WorkerType, Holding, Busy, PCs
<1> QED BY <1>1, <1>3, <1>4 DEF TInv, ApiType, DbType

LEMMA DequeueNothingType == ASSUME TInv, NEW w \in Workers, DequeueNothing(w) PROVE TInv'
<1>1. UNCHANGED <<authorised, ask, req, row, stored, cur, ctx, local, stops, hist>>
  BY DEF DequeueNothing, api, db
<1>2. pc[w] = "pop" /\ \E p \in {"poll", "down"} : pc' = [pc EXCEPT ![w] = p]
  BY DEF DequeueNothing, Goto
<1>3. queue' \in Seq(Jobs)
  <2>1. queue' = queue \/ (queue # <<>> /\ queue' = Tail(queue))
    BY DEF DequeueNothing
  <2>2. queue \in Seq(Jobs)
    BY DEF TInv, ApiType
  <2> QED BY <2>1, <2>2
<1>4. WorkerType' /\ Holding'
  BY <1>1, <1>2 DEF TInv, WorkerType, Holding, Busy, PCs
<1> QED BY <1>1, <1>3, <1>4 DEF TInv, ApiType, DbType

LEMMA LoadType == ASSUME TInv, NEW w \in Workers, Load(w) PROVE TInv'
<1>1. UNCHANGED <<authorised, ask, req, row, stored, queue, stops, hist>>
  BY DEF Load, api, db
<1>2. pc[w] = "load" /\ cur[w] \in Jobs
  BY DEF Load, TInv, Holding, Busy
<1>3. CASE Return(w, "fail", cur[w])
  <2>1. WorkerType' /\ Holding'
    BY <1>2, <1>3, ReturnType, ReturnHolding DEF TInv, PCs, Busy
  <2> QED BY <1>1, <2>1 DEF TInv, ApiType, DbType
<1>4. CASE /\ pc' = [pc EXCEPT ![w] = "mark"]
           /\ local' = [local EXCEPT ![w].auth = authorised[ask[cur[w]].asset],
                                     ![w].todo = ForProfile(ask[cur[w]].profile)]
           /\ UNCHANGED <<cur, ctx>>
  <2>1. authorised[ask[cur[w]].asset] \in BOOLEAN
    BY <1>2 DEF TInv, ApiType
  <2>2. local' \in [Workers -> Locals]
    <3>1. ForProfile(ask[cur[w]].profile) \in Seq(Scanners)
      BY ForProfileType
    <3>2. [local[w] EXCEPT !.auth = authorised[ask[cur[w]].asset],
                           !.todo = ForProfile(ask[cur[w]].profile)] \in Locals
      BY <2>1, <3>1, ZenonT(60) DEF TInv, WorkerType, Locals
    <3> QED BY <1>4, <3>2 DEF TInv, WorkerType
  <2>3. WorkerType' /\ Holding'
    BY <1>2, <1>4, <2>2 DEF TInv, WorkerType, Holding, Busy, PCs
  <2> QED BY <1>1, <2>3 DEF TInv, ApiType, DbType
<1> QED BY <1>3, <1>4 DEF Load, Goto

LEMMA MarkRunningType == ASSUME TInv, NEW w \in Workers, MarkRunning(w) PROVE TInv'
<1>1. UNCHANGED <<authorised, ask, req, stored, queue, stops, hist>>
  BY DEF MarkRunning, api
<1>2. pc[w] = "mark" /\ cur[w] \in Jobs
  BY DEF MarkRunning, TInv, Holding, Busy
<1>3. PICK r : /\ Update(cur[w], r, MarkRunningRow(row[cur[w]]))
               /\ IF Started(r) THEN Goto(w, "scan") /\ UNCHANGED <<cur, ctx, local>>
                                ELSE Return(w, "fail", cur[w])
  BY DEF MarkRunning
<1>4. DbType'
  <2>1. MarkRunningRow(row[cur[w]]) \in Rows
    BY <1>2, RowTypes DEF TInv, DbType, Errors
  <2> QED BY <1>1, <1>3, <2>1 DEF TInv, DbType, Update
<1>5. WorkerType' /\ Holding'
  <2>1. CASE Return(w, "fail", cur[w])
    BY <1>2, <2>1, ReturnType, ReturnHolding DEF TInv, PCs, Busy
  <2>2. CASE Goto(w, "scan") /\ UNCHANGED <<cur, ctx, local>>
    BY <1>2, <2>2 DEF TInv, WorkerType, Holding, Busy, PCs, Goto
  <2> QED BY <1>3, <2>1, <2>2
<1> QED BY <1>1, <1>4, <1>5 DEF TInv, ApiType

LEMMA RunScannerType == ASSUME TInv, NEW w \in Workers, RunScanner(w) PROVE TInv'
<1>1. UNCHANGED <<authorised, ask, req, row, stored, queue, pc, cur, ctx, stops>>
  BY DEF RunScanner, api, db
<1>2. /\ pc[w] = "scan" /\ cur[w] \in Jobs
      /\ local[w] \in Locals /\ local[w].todo # <<>>
  BY DEF RunScanner, TInv, Holding, Busy, WorkerType
<1>0. PICK s : s = Head(local[w].todo)
  OBVIOUS
<1>3. PICK o \in ScanOutcomes(s, ask[cur[w]].asset, local[w].auth, ctx[w] # "live") :
        /\ local' = [local EXCEPT ![w] = AfterScan(local[w], s, o)]
        /\ hist' = [hist EXCEPT ![cur[w]] = Noted(hist[cur[w]], s, o)]
  BY <1>0 DEF RunScanner
<1>4. s \in Scanners
  BY <1>0, <1>2 DEF Locals
<1>5. /\ o \in Outcome /\ Yield(o) \in 0..MaxFindings
      /\ Yield(o) > 0 => o.kind \in Kinds
  <2>1. ask[cur[w]].asset \in Assets
    BY <1>2 DEF TInv, ApiType
  <2> QED BY <1>4, <2>1, OutcomePolicy
<1>6. AfterScan(local[w], s, o) \in Locals
  BY <1>2, <1>4, <1>5, AfterScanType
<1>7. Noted(hist[cur[w]], s, o) \in Histories
  BY <1>2, <1>4, <1>5, NotedType DEF TInv, ApiType
<1>8. ApiType' /\ WorkerType' /\ Holding'
  BY <1>1, <1>3, <1>6, <1>7 DEF TInv, ApiType, WorkerType, Holding
<1> QED BY <1>1, <1>8 DEF TInv, DbType

LEMMA CreateFindingType == ASSUME TInv, NEW w \in Workers, CreateFinding(w) PROVE TInv'
<1>1. UNCHANGED <<authorised, ask, req, row, queue, pc, cur, ctx, stops>>
  BY DEF CreateFinding, api
<1>2. cur[w] \in Jobs /\ local[w] \in Locals /\ local[w].left > 0
  BY DEF CreateFinding, TInv, Holding, Busy, WorkerType, MoreToStore
<1>3. PICK r : /\ stored' = IF Applied(r)
                            THEN [stored EXCEPT ![cur[w]] = @ \cup {local[w].from}]
                            ELSE stored
               /\ local' = [local EXCEPT ![w].left  = @ - 1,
                                         ![w].total = IF r = "ok" THEN @ + 1 ELSE @]
               /\ hist' = IF r = "ok" THEN hist ELSE [hist EXCEPT ![cur[w]].skipped = TRUE]
  BY DEF CreateFinding
<1>4. DbType'
  BY <1>1, <1>2, <1>3 DEF TInv, DbType, Locals
<1>5. local' \in [Workers -> Locals]
  <2>1. local[w].left - 1 \in 0..MaxFindings /\ local[w].total + 1 \in Nat
    <3>1. local[w].left \in 0..MaxFindings /\ local[w].total \in Nat
      BY <1>2 DEF Locals
    <3> QED BY <1>2, <3>1, AdapterAssumption
  <2>2. PICK t : /\ t = IF r = "ok" THEN local[w].total + 1 ELSE local[w].total
                 /\ t \in Nat
    BY <1>2, <2>1 DEF Locals
  <2>3. [local[w] EXCEPT !.left = local[w].left - 1, !.total = t] \in Locals
    BY <1>2, <2>1, <2>2 DEF Locals
  <2>4. local' = [local EXCEPT ![w] = [local[w] EXCEPT !.left = local[w].left - 1, !.total = t]]
    BY <1>3, <2>2 DEF TInv, WorkerType
  <2> QED BY <2>3, <2>4 DEF TInv, WorkerType
<1>6. hist' \in [Jobs -> Histories]
  BY <1>2, <1>3, SkippedType DEF TInv, ApiType
<1>7. ApiType' /\ WorkerType' /\ Holding'
  BY <1>1, <1>5, <1>6 DEF TInv, ApiType, WorkerType, Holding
<1> QED BY <1>4, <1>7 DEF TInv

LEMMA FinishType == ASSUME TInv, NEW w \in Workers, Finish(w) PROVE TInv'
<1>1. UNCHANGED <<authorised, ask, req, stored, queue, stops, hist>>
  BY DEF Finish, api
<1>2. cur[w] \in Jobs /\ local[w] \in Locals
  BY DEF Finish, TInv, Holding, Busy, WorkerType
<1>3. PICK r : /\ Update(cur[w], r, FinalRow(row[cur[w]], local[w]))
               /\ IF r = "ok" THEN Return(w, "poll", NoJob) ELSE Return(w, "fail", cur[w])
  BY DEF Finish
<1>4. DbType'
  <2>1. FinalRow(row[cur[w]], local[w]) \in Rows
    BY <1>2, FinalRowType DEF TInv, DbType
  <2> QED BY <1>1, <1>3, <2>1 DEF TInv, DbType, Update
<1>5. WorkerType' /\ Holding'
  BY <1>2, <1>3, ReturnType, ReturnHolding DEF TInv, PCs, Busy
<1> QED BY <1>1, <1>4, <1>5 DEF TInv, ApiType

LEMMA RecordFailureType == ASSUME TInv, NEW w \in Workers, RecordFailure(w) PROVE TInv'
<1>1. UNCHANGED <<authorised, ask, req, stored, queue, stops, hist>>
  BY DEF RecordFailure, api
<1>2. cur[w] \in Jobs /\ Return(w, "poll", NoJob)
  BY DEF RecordFailure, TInv, Holding, Busy
<1>3. PICK r : Update(cur[w], r, MarkFailedRow(row[cur[w]], "process error"))
  BY DEF RecordFailure
<1>4. DbType'
  <2>1. MarkFailedRow(row[cur[w]], "process error") \in Rows
    BY <1>2, RowTypes DEF TInv, DbType, Errors
  <2> QED BY <1>1, <1>3, <2>1 DEF TInv, DbType, Update
<1>5. WorkerType' /\ Holding'
  BY <1>2, ReturnType, ReturnHolding DEF TInv, PCs, Busy
<1> QED BY <1>1, <1>4, <1>5 DEF TInv, ApiType

LEMMA EnvironmentType ==
  ASSUME TInv, NEW w \in Workers, Deadline(w) \/ Sigterm(w) \/ Kill(w) \/ Restart(w)
  PROVE  TInv'
<1>1. UNCHANGED <<authorised, ask, req, row, stored, queue>>
  BY DEF Deadline, Sigterm, Kill, Restart, api, db
<1>2. stops' \in 0..MaxStops
  BY PipelineAssumption DEF Deadline, Sigterm, Kill, Restart, TInv, ApiType
<1>3. WorkerType' /\ Holding'
  BY NoLocalType DEF Deadline, Sigterm, Kill, Restart, Goto, TInv, WorkerType, Holding,
     Busy, PCs
<1>4. hist' \in [Jobs -> Histories]
  <2>1. hist' = hist \/ (cur[w] # NoJob /\ hist' = [hist EXCEPT ![cur[w]].skipped = TRUE])
    BY DEF Deadline, Sigterm, Kill, Restart
  <2>2. hist \in [Jobs -> Histories] /\ cur[w] \in Jobs \cup {NoJob}
    BY DEF TInv, ApiType, WorkerType
  <2>3. CASE hist' = hist
    BY <2>2, <2>3
  <2>4. CASE cur[w] # NoJob /\ hist' = [hist EXCEPT ![cur[w]].skipped = TRUE]
    <3>1. cur[w] \in Jobs
      BY <2>2, <2>4
    <3>2. [hist EXCEPT ![cur[w]].skipped = TRUE] \in [Jobs -> Histories]
      BY <2>2, <3>1, SkippedType
    <3> QED BY <2>4, <3>2
  <2> QED BY <2>1, <2>3, <2>4
<1> QED BY <1>1, <1>2, <1>3, <1>4 DEF TInv, ApiType, DbType

LEMMA StepType == TInv /\ [Next]_vars => TInv'
<1> SUFFICES ASSUME TInv, [Next]_vars PROVE TInv'
  OBVIOUS
<1>1. ASSUME NEW j \in Jobs, CreateScanJob(j) \/ Enqueue(j) PROVE TInv'
  BY <1>1, CreateScanJobType, EnqueueType
<1>2. ASSUME NEW a \in Governed, AuthorizeAsset(a) PROVE TInv'
  BY <1>2, PipelineAssumption, AuthorizeAssetType
<1>3. ASSUME NEW w \in Workers,
             WorkerStep(w) \/ Restart(w) \/ Deadline(w) \/ Sigterm(w) \/ Kill(w)
      PROVE  TInv'
  BY <1>3, PollType, DequeueType, DequeueNothingType, LoadType, MarkRunningType,
     RunScannerType, CreateFindingType, FinishType, RecordFailureType, EnvironmentType
     DEF WorkerStep
<1>4. CASE UNCHANGED vars
  BY <1>4 DEF vars, worker, TInv, ApiType, DbType, WorkerType, Holding
<1> QED BY <1>1, <1>2, <1>3, <1>4 DEF Next

LEMMA TypeInvariant == Spec => []TInv
<1> QED BY InitType, StepType, PTL DEF Spec

\* Types of the pipeline's state, whatever fails.
THEOREM PipelineTypes == Spec => []TypeOK
<1> QED BY TypeInvariant, TypeParts, PTL

-----------------------------------------------------------------------------
(* Rows exist before ids travel, and findings after the start.             *)

Unborn == \A j \in Jobs : /\ req[j] = "none" => row[j].status = "absent"
                          /\ req[j] = "created" => row[j].status # "absent"
ScanningIsStarted ==
  \A w \in Workers : pc[w] = "scan" => row[cur[w]].status \notin {"absent", "queued"}

Born == /\ Unborn
        /\ DeliveredJobsExist
        /\ ScanningIsStarted
        /\ FindingsOnlyOfStartedJobs

\* A step that inserts no row: it leaves a job's row alone, or moves an existing
\* row out of "queued".
NoRowInserted ==
  \A j \in Jobs : \/ row'[j] = row[j]
                  \/ row[j].status # "absent" /\ row'[j].status \notin {"absent", "queued"}

LEMMA InitBorn == Init => Born
<1> SUFFICES ASSUME Init PROVE Born
  OBVIOUS
<1>1. DOMAIN queue = {}
  <2>1. queue = <<>>
    BY DEF Init
  <2> QED BY <2>1
<1>2. DeliveredJobsExist
  BY <1>1 DEF Init, DeliveredJobsExist
<1>3. Unborn /\ ScanningIsStarted /\ FindingsOnlyOfStartedJobs
  BY DEF Init, Unborn, ScanningIsStarted, FindingsOnlyOfStartedJobs
<1> QED BY <1>2, <1>3 DEF Born

LEMMA QueuePop ==
  ASSUME NEW q \in Seq(Jobs), q # <<>>
  PROVE  /\ Head(q) \in Jobs /\ Tail(q) \in Seq(Jobs)
         /\ 1 \in DOMAIN q /\ Head(q) = q[1]
         /\ \A i \in DOMAIN Tail(q) :
              i + 1 \in DOMAIN q /\ i \in Nat /\ i > 0 /\ Tail(q)[i] = q[i + 1]
  OBVIOUS

LEMMA QueuePush ==
  ASSUME NEW q \in Seq(Jobs), NEW j \in Jobs
  PROVE  /\ \A i \in DOMAIN Append(q, j) :
              \/ i \in DOMAIN q /\ Append(q, j)[i] = q[i]
              \/ i = Len(q) + 1 /\ Append(q, j)[i] = j
         /\ \A i \in DOMAIN (q \o <<j, j>>) :
              \/ i \in DOMAIN q /\ (q \o <<j, j>>)[i] = q[i]
              \/ (q \o <<j, j>>)[i] = j
         /\ \A i \in DOMAIN q : i # Len(q) + 1
  OBVIOUS

LEMMA CreateScanJobBorn ==
  ASSUME TInv, Born, NEW j \in Jobs, CreateScanJob(j) PROVE Born'
<1>1. UNCHANGED <<stored, queue, pc, cur>>
  BY DEF CreateScanJob, worker
<1>2. PICK r : /\ row' = IF Applied(r) THEN [row EXCEPT ![j] = QueuedRow] ELSE row
               /\ req' = [req EXCEPT ![j] = IF Inserted(r) THEN "created" ELSE "refused"]
  BY DEF CreateScanJob, Update
<1>3. req[j] = "none" /\ row[j].status = "absent"
  BY DEF CreateScanJob, Born, Unborn
<1>4. Unborn'
  BY <1>2, <1>3 DEF Born, Unborn, TInv, ApiType, DbType, Inserted, Applied, QueuedRow
<1>5. \A k \in Jobs : row[k].status # "absent" => row'[k] = row[k]
  BY <1>2, <1>3 DEF TInv, DbType
<1>6. DeliveredJobsExist' /\ ScanningIsStarted'
  <2>1. \A i \in DOMAIN queue : queue[i] \in Jobs
    BY DEF TInv, ApiType
  <2>2. \A w \in Workers : (pc[w] = "scan" \/ cur[w] # NoJob) => cur[w] \in Jobs
    BY DEF TInv, WorkerType, Holding, Busy
  <2> QED BY <1>1, <1>5, <2>1, <2>2
          DEF Born, DeliveredJobsExist, ScanningIsStarted
<1>7. FindingsOnlyOfStartedJobs'
  BY <1>1, <1>5 DEF Born, FindingsOnlyOfStartedJobs
<1> QED BY <1>4, <1>6, <1>7 DEF Born

LEMMA EnqueueBorn ==
  ASSUME TInv, Born, NEW j \in Jobs, Enqueue(j) PROVE Born'
<1>1. UNCHANGED <<row, stored, pc, cur>>
  BY DEF Enqueue, worker, db
<1>2. PICK a \in {"accepted", "refused"} : req' = [req EXCEPT ![j] = a]
  BY DEF Enqueue
<1>3. queue' \in {queue, queue \o <<j, j>>, Append(queue, j)}
  BY DEF Enqueue
<1>4. row[j].status # "absent"
  BY DEF Enqueue, Born, Unborn
<1>5. \A i \in DOMAIN queue' : queue'[i] = j \/ (i \in DOMAIN queue /\ queue'[i] = queue[i])
  BY <1>3, QueuePush DEF TInv, ApiType
<1>6. DeliveredJobsExist'
  BY <1>1, <1>4, <1>5 DEF Born, DeliveredJobsExist
<1>7. Unborn' /\ ScanningIsStarted' /\ FindingsOnlyOfStartedJobs'
  BY <1>1, <1>2 DEF TInv, ApiType, Born, Unborn, ScanningIsStarted, FindingsOnlyOfStartedJobs
<1> QED BY <1>6, <1>7 DEF Born

LEMMA BornStep ==
  ASSUME TInv, TInv', Born, UNCHANGED req, NoRowInserted,
         \A i \in DOMAIN queue' : \E k \in DOMAIN queue : queue'[i] = queue[k],
         \A w \in Workers : \/ cur'[w] = NoJob
                            \/ \E v \in Workers : cur'[w] = cur[v]
                            \/ \E k \in DOMAIN queue : cur'[w] = queue[k],
         ScanningIsStarted',
         \A j \in Jobs : stored'[j] = stored[j] \/ row'[j].status \notin {"absent", "queued"}
  PROVE  Born'
<1>1. Unborn'
  BY DEF Born, Unborn, NoRowInserted
<1>2. \A j \in Jobs : row[j].status # "absent" => row'[j].status # "absent"
  BY DEF NoRowInserted
<1>3. /\ \A k \in DOMAIN queue : queue[k] \in Jobs /\ row[queue[k]].status # "absent"
      /\ \A v \in Workers : cur[v] # NoJob => cur[v] \in Jobs /\ row[cur[v]].status # "absent"
  BY DEF TInv, ApiType, WorkerType, Born, DeliveredJobsExist
<1>4. DeliveredJobsExist'
  BY <1>2, <1>3 DEF DeliveredJobsExist
<1>5. FindingsOnlyOfStartedJobs'
  BY DEF NoRowInserted, Born, FindingsOnlyOfStartedJobs
<1> QED BY <1>1, <1>4, <1>5 DEF Born

\* The job a worker at work holds has a row, and an update of it inserts none.
LEMMA HeldRow ==
  ASSUME TInv, Born, NEW w \in Workers, pc[w] \in Busy
  PROVE  cur[w] \in Jobs /\ row[cur[w]].status # "absent"
  BY PipelineAssumption DEF TInv, Holding, Born, DeliveredJobsExist

LEMMA UpdateInserts ==
  ASSUME TInv, NEW j \in Jobs, row[j].status # "absent", NEW r, NEW new,
         Update(j, r, new), new.status \notin {"absent", "queued"}
  PROVE  NoRowInserted
  BY DEF Update, NoRowInserted, TInv, DbType

LEMMA QuietBorn ==
  ASSUME TInv, TInv', Born, NEW w \in Workers,
         Poll(w) \/ Dequeue(w) \/ DequeueNothing(w) \/ Load(w) \/ RunScanner(w)
         \/ Deadline(w) \/ Sigterm(w) \/ Kill(w) \/ Restart(w)
  PROVE  Born'
<1>1. UNCHANGED <<req, row, stored>> /\ NoRowInserted
  BY DEF Poll, Dequeue, DequeueNothing, Load, RunScanner, Deadline, Sigterm, Kill, Restart,
     api, db, NoRowInserted
<1>2. /\ queue' = queue \/ (queue # <<>> /\ queue' = Tail(queue))
      /\ \/ UNCHANGED cur
         \/ cur' = [cur EXCEPT ![w] = NoJob]
         \/ cur' = [cur EXCEPT ![w] = cur[w]]
         \/ queue # <<>> /\ cur' = [cur EXCEPT ![w] = Head(queue)]
  BY DEF Poll, Dequeue, DequeueNothing, Load, RunScanner, Deadline, Sigterm, Kill, Restart,
     Pop, Return
<1>3. \A i \in DOMAIN queue' : \E k \in DOMAIN queue : queue'[i] = queue[k]
  <2>1. queue \in Seq(Jobs)
    BY DEF TInv, ApiType
  <2>2. CASE queue' = queue
    BY <2>2
  <2>3. CASE queue # <<>> /\ queue' = Tail(queue)
    <3> SUFFICES ASSUME NEW i \in DOMAIN Tail(queue)
                 PROVE  \E k \in DOMAIN queue : Tail(queue)[i] = queue[k]
      BY <2>3
    <3> QED BY <2>1, <2>3, QueuePop
  <2> QED BY <1>2, <2>2, <2>3
<1>4. \A v \in Workers : \/ cur'[v] = NoJob
                         \/ \E u \in Workers : cur'[v] = cur[u]
                         \/ \E k \in DOMAIN queue : cur'[v] = queue[k]
  BY <1>2, QueuePop DEF TInv, ApiType, WorkerType
<1>5. ScanningIsStarted'
  <2>1. \A v \in Workers : pc'[v] = "scan" => pc[v] = "scan" /\ cur'[v] = cur[v]
    BY DEF Poll, Dequeue, DequeueNothing, Load, RunScanner, Deadline, Sigterm, Kill, Restart,
       Goto, Return, TInv, WorkerType
  <2> QED BY <1>1, <2>1 DEF Born, ScanningIsStarted
<1> QED BY <1>1, <1>3, <1>4, <1>5, BornStep

LEMMA MarkRunningBorn ==
  ASSUME TInv, TInv', Born, NEW w \in Workers, MarkRunning(w) PROVE Born'
<1>1. UNCHANGED <<req, stored, queue>>
  BY DEF MarkRunning, api
<1>2. pc[w] = "mark" /\ cur[w] \in Jobs /\ row[cur[w]].status # "absent"
  BY HeldRow DEF MarkRunning, Busy
<1>3. PICK r : /\ Update(cur[w], r, MarkRunningRow(row[cur[w]]))
               /\ IF Started(r) THEN Goto(w, "scan") /\ UNCHANGED <<cur, ctx, local>>
                                ELSE Return(w, "fail", cur[w])
  BY DEF MarkRunning
<1>4. MarkRunningRow(row[cur[w]]).status = "running"
  BY <1>2, RowTypes DEF TInv, DbType, Errors
<1>5. NoRowInserted
  BY <1>2, <1>3, <1>4, UpdateInserts
<1>6. UNCHANGED cur
  BY <1>3 DEF Return, TInv, WorkerType
<1>7. ScanningIsStarted'
  <2>1. r = "ok" => row'[cur[w]].status = "running"
    BY <1>2, <1>3, <1>4 DEF Update, Applied, TInv, DbType
  <2>2. \A v \in Workers : pc'[v] = "scan" => pc[v] = "scan" \/ (v = w /\ r = "ok")
    BY <1>2, <1>3 DEF Started, Goto, Return, TInv, WorkerType
  <2>3. \A v \in Workers : pc[v] = "scan" => cur[v] \in Jobs
    BY DEF TInv, Holding, Busy
  <2> QED BY <1>5, <1>6, <2>1, <2>2, <2>3 DEF Born, ScanningIsStarted, NoRowInserted
<1> QED BY <1>1, <1>5, <1>6, <1>7, BornStep

LEMMA CreateFindingBorn ==
  ASSUME TInv, TInv', Born, NEW w \in Workers, CreateFinding(w) PROVE Born'
<1>1. UNCHANGED <<req, row, queue, pc, cur>> /\ NoRowInserted
  BY DEF CreateFinding, api, NoRowInserted
<1>2. pc[w] = "scan" /\ cur[w] \in Jobs
  BY DEF CreateFinding, TInv, Holding, Busy
<1>3. \A j \in Jobs : stored'[j] = stored[j] \/ j = cur[w]
  BY <1>2 DEF CreateFinding, TInv, DbType
<1>4. ScanningIsStarted'
  BY <1>1 DEF Born, ScanningIsStarted
<1> QED BY <1>1, <1>2, <1>3, <1>4, BornStep DEF ScanningIsStarted

\* Finish and RecordFailure: the row is decided, and the worker no longer scans.
LEMMA DecideBorn ==
  ASSUME TInv, TInv', Born, NEW w \in Workers, Finish(w) \/ RecordFailure(w) PROVE Born'
<1>1. UNCHANGED <<req, stored, queue>>
  BY DEF Finish, RecordFailure, api
<1>2. cur[w] \in Jobs /\ row[cur[w]].status # "absent" /\ local[w] \in Locals
  BY HeldRow DEF Finish, RecordFailure, Busy, TInv, WorkerType
<1>3. PICK r, new, p, j :
        /\ Update(cur[w], r, new) /\ Return(w, p, j)
        /\ new.status \in Terminal
        /\ p \in {"poll", "fail"} /\ j \in {NoJob, cur[w]}
  <2>1. /\ FinalRow(row[cur[w]], local[w]).status \in Terminal
        /\ MarkFailedRow(row[cur[w]], "process error").status \in Terminal
    BY <1>2, FinalRowType, RowTypes DEF TInv, DbType, Errors, Terminal
  <2>2. CASE Finish(w)
    BY <2>1, <2>2 DEF Finish
  <2>3. CASE RecordFailure(w)
    BY <2>1, <2>3 DEF RecordFailure
  <2> QED BY <2>2, <2>3
<1>4. NoRowInserted
  BY <1>2, <1>3, UpdateInserts DEF Terminal
<1>5. \A v \in Workers : cur'[v] = cur[v] \/ cur'[v] \in {NoJob, cur[w]}
  BY <1>3 DEF Return, TInv, WorkerType
<1>6. ScanningIsStarted'
  <2>1. \A v \in Workers : pc'[v] = "scan" => pc[v] = "scan" /\ cur'[v] = cur[v] /\ cur[v] \in Jobs
    BY <1>3 DEF Goto, Return, TInv, WorkerType, Holding, Busy
  <2> QED BY <1>4, <2>1 DEF Born, ScanningIsStarted, NoRowInserted
<1> QED BY <1>1, <1>4, <1>5, <1>6, BornStep

LEMMA StepBorn == TInv /\ TInv' /\ Born /\ [Next]_vars => Born'
<1> SUFFICES ASSUME TInv, TInv', Born, [Next]_vars PROVE Born'
  OBVIOUS
<1>1. ASSUME NEW j \in Jobs, CreateScanJob(j) \/ Enqueue(j) PROVE Born'
  BY <1>1, CreateScanJobBorn, EnqueueBorn
<1>2. ASSUME NEW a \in Governed, AuthorizeAsset(a) PROVE Born'
  BY <1>2 DEF AuthorizeAsset, db, worker, Born, Unborn, DeliveredJobsExist,
     ScanningIsStarted, FindingsOnlyOfStartedJobs
<1>3. ASSUME NEW w \in Workers,
             WorkerStep(w) \/ Restart(w) \/ Deadline(w) \/ Sigterm(w) \/ Kill(w)
      PROVE  Born'
  BY <1>3, QuietBorn, MarkRunningBorn, CreateFindingBorn, DecideBorn DEF WorkerStep
<1>4. CASE UNCHANGED vars
  BY <1>4 DEF vars, worker, Born, Unborn, DeliveredJobsExist, ScanningIsStarted,
     FindingsOnlyOfStartedJobs
<1> QED BY <1>1, <1>2, <1>3, <1>4 DEF Next

LEMMA BornInvariant == Spec => []Born
<1> QED BY TypeInvariant, InitBorn, StepBorn, PTL DEF Spec

\* Whatever fails, and even when an id is pushed twice: an id on the list or in a
\* worker names an existing row (Process never misses its job).
THEOREM DeliveredExist == Spec => []DeliveredJobsExist
<1>1. Born => DeliveredJobsExist
  BY DEF Born
<1> QED BY <1>1, BornInvariant, PTL

\* Whatever fails: a job with findings was started, and no statement takes it back.
THEOREM FindingsAreOfStartedJobs == Spec => []FindingsOnlyOfStartedJobs
<1>1. Born => FindingsOnlyOfStartedJobs
  BY DEF Born
<1> QED BY <1>1, BornInvariant, PTL

-----------------------------------------------------------------------------
(* With LPUSH never sent twice, a job is in one place at a time, and the   *)
(* place tells the status of its row.                                      *)

NeverTwice == "retry" \notin Faults

Elsewhere == \A j \in Jobs : req[j] \in {"none", "created"} =>
                /\ \A i \in DOMAIN queue : queue[i] # j
                /\ \A w \in Workers : cur[w] # j
CreatedIsQueued == \A j \in Jobs : req[j] = "created" => row[j].status = "queued"
WaitingIsQueued == \A i \in DOMAIN queue : row[queue[i]].status = "queued"
StageOfRow ==
  \A w \in Workers : /\ pc[w] \in {"load", "mark"} => row[cur[w]].status = "queued"
                     /\ pc[w] = "scan" => row[cur[w]].status = "running"

Owned == Elsewhere /\ CreatedIsQueued /\ WaitingIsQueued /\ StageOfRow /\ SingleDelivery

LEMMA InitOwned == Init => Owned
<1> SUFFICES ASSUME Init PROVE Owned
  OBVIOUS
<1>1. DOMAIN queue = {}
  <2>1. queue = <<>>
    BY DEF Init
  <2> QED BY <2>1
<1>2. (\A w \in Workers : cur[w] = NoJob /\ pc[w] = "poll") /\ \A j \in Jobs : req[j] = "none"
  BY DEF Init
<1> QED BY <1>1, <1>2, PipelineAssumption
        DEF Owned, Elsewhere, CreatedIsQueued, WaitingIsQueued, StageOfRow, SingleDelivery

LEMMA QueueOf == ASSUME TInv, NEW i \in DOMAIN queue PROVE queue[i] \in Jobs
  BY DEF TInv, ApiType

LEMMA CreateScanJobOwned ==
  ASSUME TInv, Owned, NEW j \in Jobs, CreateScanJob(j) PROVE Owned'
<1>1. UNCHANGED <<queue, pc, cur>>
  BY DEF CreateScanJob, worker
<1>2. PICK r : /\ row' = IF Applied(r) THEN [row EXCEPT ![j] = QueuedRow] ELSE row
               /\ req' = [req EXCEPT ![j] = IF Inserted(r) THEN "created" ELSE "refused"]
  BY DEF CreateScanJob, Update
<1>3. req[j] = "none"
  BY DEF CreateScanJob
<1>4. \A k \in Jobs : k # j => row'[k] = row[k] /\ req'[k] = req[k]
  BY <1>2 DEF TInv, ApiType, DbType
<1>5. /\ \A i \in DOMAIN queue : queue[i] # j
      /\ \A w \in Workers : cur[w] # j
  BY <1>3 DEF Owned, Elsewhere
<1>6. Elsewhere' /\ SingleDelivery'
  BY <1>1, <1>4, <1>5 DEF Owned, Elsewhere, SingleDelivery
<1>7. CreatedIsQueued'
  BY <1>2, <1>4 DEF Owned, CreatedIsQueued, TInv, ApiType, DbType, Inserted, Applied, QueuedRow
<1>8. WaitingIsQueued'
  BY <1>1, <1>4, <1>5, QueueOf DEF Owned, WaitingIsQueued
<1>9. StageOfRow'
  <2>1. \A w \in Workers : pc[w] \in Busy => cur[w] \in Jobs
    BY DEF TInv, Holding
  <2> QED BY <1>1, <1>4, <1>5, <2>1 DEF Owned, StageOfRow, Busy
<1> QED BY <1>6, <1>7, <1>8, <1>9 DEF Owned

LEMMA EnqueueOwned ==
  ASSUME NeverTwice, TInv, Owned, NEW j \in Jobs, Enqueue(j) PROVE Owned'
<1>1. UNCHANGED <<row, pc, cur>>
  BY DEF Enqueue, worker, db
<1>2. PICK a \in {"accepted", "refused"} : req' = [req EXCEPT ![j] = a]
  BY DEF Enqueue
<1>3. queue' \in {queue, Append(queue, j)}
  BY DEF Enqueue, NeverTwice, PushResults, Results
<1>4. /\ \A i \in DOMAIN queue : queue[i] # j
      /\ \A w \in Workers : cur[w] # j
      /\ row[j].status = "queued"
  BY DEF Enqueue, Owned, Elsewhere, CreatedIsQueued
<1>5. \A i \in DOMAIN queue' : \/ i \in DOMAIN queue /\ queue'[i] = queue[i]
                               \/ i = Len(queue) + 1 /\ queue'[i] = j
  BY <1>3, QueuePush DEF TInv, ApiType
<1>6. \A k \in Jobs : k # j => req'[k] = req[k]
  BY <1>2 DEF TInv, ApiType
<1>7. req'[j] \notin {"none", "created"}
  BY <1>2 DEF TInv, ApiType
<1>8. Elsewhere'
  BY <1>1, <1>5, <1>6, <1>7 DEF Owned, Elsewhere
<1>9. CreatedIsQueued' /\ StageOfRow'
  BY <1>1, <1>6, <1>7 DEF Owned, CreatedIsQueued, StageOfRow
<1>10. WaitingIsQueued'
  BY <1>1, <1>4, <1>5 DEF Owned, WaitingIsQueued
<1>11. SingleDelivery'
  BY <1>1, <1>4, <1>5 DEF Owned, SingleDelivery
<1> QED BY <1>8, <1>9, <1>10, <1>11 DEF Owned

LEMMA DequeueOwned ==
  ASSUME TInv, TInv', Owned, NEW w \in Workers, Dequeue(w) PROVE Owned'
<1>1. UNCHANGED <<req, row>>
  BY DEF Dequeue, api, db
<1>2. /\ queue # <<>> /\ queue' = Tail(queue) /\ pc[w] = "pop"
      /\ pc' = [pc EXCEPT ![w] = "load"] /\ cur' = [cur EXCEPT ![w] = Head(queue)]
  BY DEF Dequeue, Goto, Pop
<1>3. /\ 1 \in DOMAIN queue /\ Head(queue) = queue[1] /\ Head(queue) \in Jobs
      /\ \A i \in DOMAIN queue' :
           i + 1 \in DOMAIN queue /\ i \in Nat /\ i > 0 /\ queue'[i] = queue[i + 1]
  BY <1>2, QueuePop DEF TInv, ApiType
<1>4. \A v \in Workers : IF v = w THEN cur'[v] = queue[1] /\ pc'[v] = "load"
                                  ELSE cur'[v] = cur[v] /\ pc'[v] = pc[v]
  BY <1>2, <1>3 DEF TInv, WorkerType
<1>5. Elsewhere' /\ CreatedIsQueued'
  BY <1>1, <1>3, <1>4 DEF Owned, Elsewhere, CreatedIsQueued
<1>6. WaitingIsQueued' /\ StageOfRow'
  BY <1>1, <1>3, <1>4 DEF Owned, WaitingIsQueued, StageOfRow
<1>7. SingleDelivery'
  <2>1. \A i \in DOMAIN queue' : queue'[i] # queue[1]
    BY <1>3 DEF Owned, SingleDelivery
  <2>2. \A i, k \in DOMAIN queue' : queue'[i] = queue'[k] => i = k
    BY <1>3 DEF Owned, SingleDelivery
  <2>3. \A v \in Workers, i \in DOMAIN queue' : queue'[i] # cur'[v]
    BY <1>3, <1>4, <2>1 DEF Owned, SingleDelivery
  <2>4. \A u, v \in Workers : cur'[u] = cur'[v] /\ cur'[u] # NoJob => u = v
    BY <1>3, <1>4 DEF Owned, SingleDelivery
  <2> QED BY <2>2, <2>3, <2>4 DEF SingleDelivery
<1> QED BY <1>5, <1>6, <1>7 DEF Owned

\* A worker keeps or gives up its job and touches no other job's row.
LEMMA OwnedStep ==
  ASSUME TInv, TInv', Owned, UNCHANGED req, NEW w \in Workers,
         queue' = queue \/ (queue # <<>> /\ queue' = Tail(queue)),
         cur' = cur \/ cur' = [cur EXCEPT ![w] = NoJob],
         \A j \in Jobs : j # cur[w] => row'[j] = row[j],
         row' = row \/ cur[w] \in Jobs,
         \A v \in Workers : v # w => pc'[v] = pc[v],
         pc'[w] \in {"load", "mark"} => cur'[w] = cur[w] /\ row'[cur[w]].status = "queued",
         pc'[w] = "scan" => cur'[w] = cur[w] /\ row'[cur[w]].status = "running"
  PROVE  Owned'
<1>1. \A v \in Workers : /\ cur'[v] \in {cur[v], NoJob}
                         /\ v # w => cur'[v] = cur[v]
  BY DEF TInv, WorkerType
<1>2. /\ \A i \in DOMAIN queue' : \E k \in DOMAIN queue : queue'[i] = queue[k]
      /\ \A i, k \in DOMAIN queue' : queue'[i] = queue'[k] => i = k
  <2>1. CASE queue' = queue
    BY <2>1 DEF Owned, SingleDelivery
  <2>2. CASE queue # <<>> /\ queue' = Tail(queue)
    <3>1. \A i \in DOMAIN queue' :
            i + 1 \in DOMAIN queue /\ i \in Nat /\ i > 0 /\ queue'[i] = queue[i + 1]
      BY <2>2, QueuePop DEF TInv, ApiType
    <3> QED BY <3>1 DEF Owned, SingleDelivery
  <2> QED BY <2>1, <2>2
<1>3. Elsewhere'
  BY <1>1, <1>2, PipelineAssumption DEF Owned, Elsewhere
<1>4. SingleDelivery'
  <2>1. \A u, v \in Workers : cur'[u] = cur'[v] /\ cur'[u] # NoJob => u = v
    BY <1>1 DEF Owned, SingleDelivery
  <2>2. \A v \in Workers, i \in DOMAIN queue' : queue'[i] # cur'[v]
    BY <1>1, <1>2, QueueOf, PipelineAssumption DEF Owned, SingleDelivery
  <2> QED BY <1>2, <2>1, <2>2 DEF SingleDelivery
<1>5. CreatedIsQueued' /\ WaitingIsQueued'
  <2>1. CASE row' = row
    BY <1>2, <2>1 DEF Owned, CreatedIsQueued, WaitingIsQueued
  <2>2. CASE cur[w] \in Jobs
    <3>1. req[cur[w]] # "created"
      BY <2>2 DEF Owned, Elsewhere
    <3>2. \A k \in DOMAIN queue : queue[k] # cur[w] /\ queue[k] \in Jobs
      BY QueueOf DEF Owned, SingleDelivery
    <3> QED BY <1>2, <3>1, <3>2 DEF Owned, CreatedIsQueued, WaitingIsQueued
  <2> QED BY <2>1, <2>2
<1>6. StageOfRow'
  <2>1. ASSUME NEW v \in Workers, v # w, pc[v] \in Busy
        PROVE  row'[cur[v]] = row[cur[v]] /\ cur'[v] = cur[v]
    BY <1>1, <2>1, PipelineAssumption DEF Owned, SingleDelivery, TInv, Holding
  <2> QED BY <2>1 DEF Owned, StageOfRow, Busy
<1> QED BY <1>3, <1>4, <1>5, <1>6 DEF Owned

\* The steps of a worker, and of its environment, that leave every row alone.
LEMMA QuietOwned ==
  ASSUME TInv, TInv', Owned, NEW w \in Workers,
         Poll(w) \/ DequeueNothing(w) \/ Load(w) \/ RunScanner(w) \/ CreateFinding(w)
         \/ Deadline(w) \/ Sigterm(w) \/ Kill(w) \/ Restart(w)
  PROVE  Owned'
<1>1. UNCHANGED <<req, row>>
  BY DEF Poll, DequeueNothing, Load, RunScanner, CreateFinding, Deadline, Sigterm, Kill,
     Restart, api, db
<1>2. /\ queue' = queue \/ (queue # <<>> /\ queue' = Tail(queue))
      /\ cur' = cur \/ (cur' = [cur EXCEPT ![w] = NoJob] /\ pc'[w] = "down")
  BY DEF Poll, DequeueNothing, Load, RunScanner, CreateFinding, Deadline, Sigterm, Kill,
     Restart, Return, Goto, TInv, WorkerType
<1>3. /\ \A v \in Workers : v # w => pc'[v] = pc[v]
      /\ pc'[w] \in {"load", "mark", "scan"} =>
           pc'[w] = pc[w] \/ (pc[w] = "load" /\ pc'[w] = "mark")
  BY DEF Poll, DequeueNothing, Load, RunScanner, CreateFinding, Deadline, Sigterm, Kill,
     Restart, Return, Goto, TInv, WorkerType
<1>4. /\ pc'[w] \in {"load", "mark"} => cur'[w] = cur[w] /\ row'[cur[w]].status = "queued"
      /\ pc'[w] = "scan" => cur'[w] = cur[w] /\ row'[cur[w]].status = "running"
  BY <1>1, <1>2, <1>3 DEF Owned, StageOfRow
<1> QED BY <1>1, <1>2, <1>3, <1>4, OwnedStep

LEMMA MarkRunningOwned ==
  ASSUME TInv, TInv', Owned, NEW w \in Workers, MarkRunning(w) PROVE Owned'
<1>1. UNCHANGED <<req, queue>>
  BY DEF MarkRunning, api
<1>2. pc[w] = "mark" /\ cur[w] \in Jobs
  BY DEF MarkRunning, TInv, Holding, Busy
<1>3. PICK r : /\ Update(cur[w], r, MarkRunningRow(row[cur[w]]))
               /\ IF Started(r) THEN Goto(w, "scan") /\ UNCHANGED <<cur, ctx, local>>
                                ELSE Return(w, "fail", cur[w])
  BY DEF MarkRunning
<1>4. /\ \A j \in Jobs : j # cur[w] => row'[j] = row[j]
      /\ r = "ok" => row'[cur[w]].status = "running"
  <2>1. MarkRunningRow(row[cur[w]]).status = "running"
    BY <1>2, RowTypes DEF TInv, DbType, Errors
  <2> QED BY <1>2, <1>3, <2>1 DEF Update, Applied, TInv, DbType
<1>5. /\ UNCHANGED cur
      /\ \A v \in Workers : v # w => pc'[v] = pc[v]
      /\ pc'[w] = "fail" \/ (pc'[w] = "scan" /\ r = "ok")
  BY <1>3 DEF Started, Goto, Return, TInv, WorkerType
<1> QED BY <1>1, <1>2, <1>4, <1>5, OwnedStep

LEMMA DecideOwned ==
  ASSUME TInv, TInv', Owned, NEW w \in Workers, Finish(w) \/ RecordFailure(w) PROVE Owned'
<1>1. UNCHANGED <<req, queue>>
  BY DEF Finish, RecordFailure, api
<1>2. cur[w] \in Jobs
  BY DEF Finish, RecordFailure, Busy, TInv, Holding
<1>3. PICK r, new, p, j : /\ Update(cur[w], r, new) /\ Return(w, p, j)
                          /\ p \in {"poll", "fail"} /\ j \in {NoJob, cur[w]}
  BY DEF Finish, RecordFailure
<1>4. \A k \in Jobs : k # cur[w] => row'[k] = row[k]
  BY <1>3 DEF Update, TInv, DbType
<1>5. /\ cur' = cur \/ cur' = [cur EXCEPT ![w] = NoJob]
      /\ \A v \in Workers : v # w => pc'[v] = pc[v]
      /\ pc'[w] \in {"poll", "fail"}
  BY <1>3 DEF Goto, Return, TInv, WorkerType
<1> QED BY <1>1, <1>2, <1>4, <1>5, OwnedStep

LEMMA StepOwned == NeverTwice /\ TInv /\ TInv' /\ Owned /\ [Next]_vars => Owned'
<1> SUFFICES ASSUME NeverTwice, TInv, TInv', Owned, [Next]_vars PROVE Owned'
  OBVIOUS
<1>1. ASSUME NEW j \in Jobs, CreateScanJob(j) \/ Enqueue(j) PROVE Owned'
  BY <1>1, CreateScanJobOwned, EnqueueOwned
<1>2. ASSUME NEW a \in Governed, AuthorizeAsset(a) PROVE Owned'
  BY <1>2 DEF AuthorizeAsset, db, worker, Owned, Elsewhere, CreatedIsQueued,
     WaitingIsQueued, StageOfRow, SingleDelivery
<1>3. ASSUME NEW w \in Workers,
             WorkerStep(w) \/ Restart(w) \/ Deadline(w) \/ Sigterm(w) \/ Kill(w)
      PROVE  Owned'
  BY <1>3, QuietOwned, DequeueOwned, MarkRunningOwned, DecideOwned DEF WorkerStep
<1>4. CASE UNCHANGED vars
  BY <1>4 DEF vars, worker, Owned, Elsewhere, CreatedIsQueued, WaitingIsQueued,
     StageOfRow, SingleDelivery
<1> QED BY <1>1, <1>2, <1>3, <1>4 DEF Next

LEMMA OwnedInvariant == NeverTwice => (Spec => []Owned)
<1>1. ASSUME NeverTwice PROVE Spec => []Owned
  <2>1. TInv /\ TInv' /\ Owned /\ [Next]_vars => Owned'
    BY <1>1, StepOwned
  <2> QED BY <2>1, TypeInvariant, InitOwned, PTL DEF Spec
<1> QED BY <1>1

\* Unless an LPUSH is sent twice, no failure puts a job in two places: two workers
\* never process it together.
THEOREM OneDelivery == "retry" \notin Faults => (Spec => []SingleDelivery)
<1>1. ASSUME NeverTwice PROVE Spec => []SingleDelivery
  <2>1. Owned => SingleDelivery
    BY DEF Owned
  <2>2. Spec => []Owned
    BY <1>1, OwnedInvariant
  <2> QED BY <2>1, <2>2, PTL
<1> QED BY <1>1 DEF NeverTwice

-----------------------------------------------------------------------------
(* Every step of the pipeline is a step of a job's life, or none.          *)

LifeVars == <<[j \in Jobs |-> row[j].status], {j \in Jobs : stored[j] # {}}>>

LEMMA InitLife == Init => Promise!Init
<1> SUFFICES ASSUME Init PROVE Promise!Init
  OBVIOUS
<1>1. [j \in Jobs |-> row[j].status] = [j \in Jobs |-> "absent"]
  BY DEF Init
<1>2. {j \in Jobs : stored[j] # {}} = {}
  BY DEF Init
<1> QED BY <1>1, <1>2 DEF Promise!Init

\* An update of one row is a move of that job, once its old status is known.
LEMMA MoveOf ==
  ASSUME TInv, NEW j \in Jobs, NEW new \in Rows, row' = [row EXCEPT ![j] = new],
         NEW from, row[j].status \in from, UNCHANGED stored
  PROVE  Promise!Move(j, from, new.status)
<1>1. [k \in Jobs |-> row'[k].status] = [[k \in Jobs |-> row[k].status] EXCEPT ![j] = new.status]
  BY DEF TInv, DbType
<1> QED BY <1>1 DEF Promise!Move

LEMMA CreateScanJobLife ==
  ASSUME TInv, Born, NEW j \in Jobs, CreateScanJob(j)
  PROVE  Promise!Insert(j) \/ UNCHANGED LifeVars
<1>1. /\ UNCHANGED stored /\ row[j].status = "absent"
      /\ row' = [row EXCEPT ![j] = QueuedRow] \/ row' = row
  BY DEF CreateScanJob, Update, Born, Unborn
<1>2. QueuedRow \in Rows /\ QueuedRow.status = "queued"
  BY DEF QueuedRow, Rows, Statuses, Errors
<1>3. CASE row' = [row EXCEPT ![j] = QueuedRow]
  BY <1>1, <1>2, <1>3, MoveOf DEF Promise!Insert
<1> QED BY <1>1, <1>3 DEF LifeVars

LEMMA MarkRunningLife ==
  ASSUME TInv, Owned, NEW w \in Workers, NEW j \in Jobs, j = cur[w], MarkRunning(w)
  PROVE  Promise!Start(j) \/ UNCHANGED LifeVars
<1>1. row[j].status = "queued" /\ UNCHANGED stored
  BY DEF MarkRunning, TInv, Holding, Busy, Owned, StageOfRow
<1>2. row' = row \/ row' = [row EXCEPT ![j] = MarkRunningRow(row[j])]
  BY DEF MarkRunning, Update
<1>3. MarkRunningRow(row[j]) \in Rows /\ MarkRunningRow(row[j]).status = "running"
  BY <1>1, RowTypes DEF TInv, DbType, Errors
<1>4. CASE row' = [row EXCEPT ![j] = MarkRunningRow(row[j])]
  BY <1>1, <1>3, <1>4, MoveOf DEF Promise!Start
<1> QED BY <1>1, <1>2, <1>4 DEF LifeVars

LEMMA CreateFindingLife ==
  ASSUME TInv, Owned, NEW w \in Workers, NEW j \in Jobs, j = cur[w], CreateFinding(w)
  PROVE  Promise!Find(j) \/ UNCHANGED LifeVars
<1>1. row[j].status = "running" /\ UNCHANGED row
  BY DEF CreateFinding, TInv, Holding, Busy, Owned, StageOfRow
<1>2. stored' = stored \/ stored' = [stored EXCEPT ![j] = @ \cup {local[w].from}]
  BY DEF CreateFinding
<1>3. CASE stored' = [stored EXCEPT ![j] = @ \cup {local[w].from}]
  <2>1. {k \in Jobs : stored'[k] # {}} = {k \in Jobs : stored[k] # {}} \cup {j}
    BY <1>1, <1>3 DEF TInv, DbType
  <2> QED BY <1>1, <2>1 DEF Promise!Find
<1> QED BY <1>1, <1>2, <1>3 DEF LifeVars

LEMMA DecideLife ==
  ASSUME TInv, Born, Owned, NEW w \in Workers, NEW j \in Jobs, j = cur[w],
         Finish(w) \/ RecordFailure(w)
  PROVE  Promise!Complete(j) \/ Promise!Fail(j) \/ UNCHANGED LifeVars
<1>1. /\ UNCHANGED stored /\ local[w] \in Locals
      /\ row[j].status \in {"queued", "running", "completed", "failed"}
  <2>1. row[j].status # "absent" /\ row[j] \in Rows
    BY HeldRow DEF Finish, RecordFailure, Busy, TInv, DbType
  <2> QED BY <2>1 DEF Finish, RecordFailure, TInv, WorkerType, Rows, Statuses
<1>2. CASE row' = row
  BY <1>1, <1>2 DEF LifeVars
<1>3. CASE Finish(w) /\ row' # row
  <2>1. row[j].status = "running"
    BY <1>3 DEF Finish, Owned, StageOfRow
  <2>2. row' = [row EXCEPT ![j] = FinalRow(row[j], local[w])]
    BY <1>3 DEF Finish, Update
  <2>3. /\ FinalRow(row[j], local[w]) \in Rows
        /\ FinalRow(row[j], local[w]).status \in {"completed", "failed"}
    BY <1>1, FinalRowType DEF TInv, DbType, Terminal
  <2> QED BY <1>1, <2>1, <2>2, <2>3, MoveOf DEF Promise!Complete, Promise!Fail
<1>4. CASE RecordFailure(w) /\ row' # row
  <2>1. row' = [row EXCEPT ![j] = MarkFailedRow(row[j], "process error")]
    BY <1>4 DEF RecordFailure, Update
  <2>2. /\ MarkFailedRow(row[j], "process error") \in Rows
        /\ MarkFailedRow(row[j], "process error").status = "failed"
    BY <1>1, RowTypes DEF TInv, DbType, Errors
  <2>3. CASE row[j].status = "failed"
    <3>1. \A k \in Jobs : row'[k].status = row[k].status
      BY <1>1, <2>1, <2>2, <2>3 DEF TInv, DbType
    <3> QED BY <1>1, <3>1 DEF LifeVars
  <2>4. CASE row[j].status # "failed"
    BY <1>1, <2>1, <2>2, <2>4, MoveOf DEF Promise!Fail
  <2> QED BY <2>3, <2>4
<1> QED BY <1>2, <1>3, <1>4

LEMMA StepLife ==
  TInv /\ Born /\ Owned /\ [Next]_vars => [Promise!Next]_LifeVars
<1> SUFFICES ASSUME TInv, Born, Owned, [Next]_vars
             PROVE  Promise!Next \/ UNCHANGED LifeVars
  OBVIOUS
<1>1. ASSUME NEW j \in Jobs, CreateScanJob(j) PROVE Promise!Next \/ UNCHANGED LifeVars
  BY <1>1, CreateScanJobLife DEF Promise!Next
<1>2. ASSUME NEW w \in Workers, MarkRunning(w) \/ CreateFinding(w) \/ Finish(w) \/ RecordFailure(w)
      PROVE  Promise!Next \/ UNCHANGED LifeVars
  <2>1. PICK j \in Jobs : j = cur[w]
    BY <1>2 DEF MarkRunning, CreateFinding, Finish, RecordFailure, TInv, Holding, Busy
  <2>2. \/ Promise!Start(j) \/ Promise!Find(j) \/ Promise!Complete(j) \/ Promise!Fail(j)
        \/ UNCHANGED LifeVars
    BY <1>2, <2>1, MarkRunningLife, CreateFindingLife, DecideLife
  <2> QED BY <2>2 DEF Promise!Next
<1>3. ASSUME NEW w \in Workers,
             Poll(w) \/ Dequeue(w) \/ DequeueNothing(w) \/ Load(w) \/ RunScanner(w)
             \/ Deadline(w) \/ Sigterm(w) \/ Kill(w) \/ Restart(w)
      PROVE  UNCHANGED <<row, stored>>
  BY <1>3 DEF Poll, Dequeue, DequeueNothing, Load, RunScanner, Deadline, Sigterm, Kill,
     Restart, db
<1>4. UNCHANGED <<row, stored>> => UNCHANGED LifeVars
  BY DEF LifeVars
<1>5. ASSUME NEW j \in Jobs, CreateScanJob(j) \/ Enqueue(j)
      PROVE  Promise!Next \/ UNCHANGED LifeVars
  BY <1>1, <1>4, <1>5 DEF Enqueue, db
<1>6. ASSUME NEW a \in Governed, AuthorizeAsset(a) PROVE UNCHANGED LifeVars
  BY <1>4, <1>6 DEF AuthorizeAsset, db
<1>7. ASSUME NEW w \in Workers,
             WorkerStep(w) \/ Restart(w) \/ Deadline(w) \/ Sigterm(w) \/ Kill(w)
      PROVE  Promise!Next \/ UNCHANGED LifeVars
  BY <1>2, <1>3, <1>4, <1>7 DEF WorkerStep
<1>8. CASE UNCHANGED vars
  BY <1>4, <1>8 DEF vars
<1> QED BY <1>5, <1>6, <1>7, <1>8 DEF Next

\* Unless an LPUSH is sent twice, the pipeline implements the job life that
\* ScanJobs promises to a client, whatever fails.
THEOREM ImplementsJobLife == "retry" \notin Faults => (Spec => JobLife)
<1>1. ASSUME NeverTwice PROVE Spec => Promise!Spec
  <2>1. Spec => []Owned
    BY <1>1, OwnedInvariant
  <2>2. [Promise!Next]_LifeVars =>
        [Promise!Next]_<<[j \in Jobs |-> row[j].status], {j \in Jobs : stored[j] # {}}>>
    BY DEF LifeVars
  <2> QED BY <2>1, <2>2, InitLife, StepLife, TypeInvariant, BornInvariant, PTL
          DEF Spec, Promise!Spec
<1> QED BY <1>1 DEF NeverTwice, JobLife
=============================================================================
