---------------------- MODULE ScanPipelineResultProofs ----------------------
(***************************************************************************)
(* Theorems about what a scan job reports: what was really run, what was   *)
(* found and what is canned data, whatever fails around it.                *)
(***************************************************************************)
EXTENDS ScanPipelineProofs

Inside == {"mark", "scan"}

\* Process's local variables exist from Load to Return, and nothing is scanned before the
\* row is marked running.
Fresh ==
  \A w \in Workers :
    /\ pc[w] \notin Inside => local[w] = NoLocal
    /\ pc[w] = "mark" => /\ local[w].left = 0 /\ local[w].total = 0
                         /\ ~local[w].usedMock /\ local[w].errs = {}

\* Production: no canned report is on its way, in a table or in a row.
Honest ==
  Production =>
    /\ \A w \in Workers : local[w].from[2] = "live" /\ ~local[w].usedMock
    /\ \A j \in Jobs : /\ \A s \in Scanners : <<s, "mock">> \notin stored[j]
                       /\ ~row[j].usedMock

\* What UnauthorisedNeverTouched asks for the job j.
Permitted(j) ==
  /\ AllowLiveScan
  /\ \/ ScanAuthorized \/ hist[j].cleared
     \/ \E seen \in Answers[ask[j].asset] : IsSafeTarget(seen)

\* A worker that read an authorization read it during the life of the job.
Cleared ==
  /\ \A j \in Jobs : row[j].status = "absent" => hist[j].touched = {}
  /\ \A j \in Jobs : row[j].status # "absent" /\ authorised[ask[j].asset] => hist[j].cleared
  /\ \A w \in Workers : pc[w] \in Inside /\ local[w].auth => hist[cur[w]].cleared
  /\ UnauthorisedNeverTouched

\* The first scanner of every profile applies to every asset; it is still to run, or its
\* error is counted, or it returned a report.
RanOne(j) == \E s \in hist[j].ran : Applicable(s, ask[j].asset)
Ran ==
  /\ \A w \in Workers : pc[w] \in Inside =>
       /\ \/ local[w].todo = ForProfile(ask[cur[w]].profile)
          \/ local[w].errs # {}
          \/ RanOne(cur[w])
       /\ local[w].left > 0 \/ local[w].total > 0 => RanOne(cur[w])
  /\ CompletedRanSomething

\* Of a report that yielded findings one was stored, or skipped, or is about to be.
Accounted ==
  \A j \in Jobs : hist[j].hit # {} =>
    \/ stored[j] # {} \/ hist[j].skipped
    \/ \E w \in Workers : pc[w] = "scan" /\ cur[w] = j /\ local[w].left > 0

\* With canned findings stored, or about to be, the flag is set.
MockStored(j) == \E s \in Scanners : <<s, "mock">> \in stored[j]
Declared ==
  /\ \A w \in Workers : pc[w] = "scan" =>
       /\ MockStored(cur[w]) => local[w].usedMock
       /\ local[w].left > 0 /\ local[w].from[2] = "mock" => local[w].usedMock
  /\ MockIsDeclared

-----------------------------------------------------------------------------
(* What a step does, worker by worker and job by job.                      *)

OthersKeep(w) == \A v \in Workers : v # w => /\ pc'[v] = pc[v] /\ cur'[v] = cur[v]
                                             /\ local'[v] = local[v]
Left(w) == pc'[w] \notin Inside /\ local'[w] = NoLocal

LEMMA ReturnFacts ==
  ASSUME TInv, NEW w \in Workers, NEW p, NEW j, Return(w, p, j)
  PROVE  /\ OthersKeep(w)
         /\ pc'[w] = p /\ cur'[w] = j /\ local'[w] = NoLocal
  BY DEF TInv, WorkerType, Return, Goto, OthersKeep

LEMMA QuietFacts ==
  ASSUME TInv, NEW w \in Workers,
         Poll(w) \/ Dequeue(w) \/ DequeueNothing(w) \/ Deadline(w) \/ Sigterm(w) \/ Restart(w)
  PROVE  /\ UNCHANGED <<authorised, ask, row, stored, hist, local>>
         /\ \A v \in Workers : /\ pc[v] \in Inside => pc'[v] = pc[v] /\ cur'[v] = cur[v]
                               /\ pc'[v] \in Inside => pc'[v] = pc[v] /\ cur'[v] = cur[v]
<1>1. UNCHANGED <<authorised, ask, row, stored, hist, local>>
  BY DEF Poll, Dequeue, DequeueNothing, Deadline, Sigterm, Restart, api, db
<1>2. CASE UNCHANGED <<pc, cur>>
  BY <1>1, <1>2
<1>3. CASE /\ pc[w] \notin Inside
           /\ \E p \in PCs \ Inside : pc' = [pc EXCEPT ![w] = p]
           /\ \/ UNCHANGED cur
              \/ \E j : cur' = [cur EXCEPT ![w] = j]
  BY <1>1, <1>3 DEF TInv, WorkerType
<1>4. CASE Deadline(w) \/ Sigterm(w)
  BY <1>2, <1>4 DEF Deadline, Sigterm
<1>5. CASE Poll(w) \/ Dequeue(w) \/ DequeueNothing(w) \/ Restart(w)
  BY <1>3, <1>5 DEF Poll, Dequeue, DequeueNothing, Restart, Goto, PCs, Inside
<1> QED BY <1>4, <1>5

LEMMA LoadFacts ==
  ASSUME TInv, Fresh, NEW w \in Workers, Load(w)
  PROVE  /\ UNCHANGED <<authorised, ask, row, stored, hist>>
         /\ OthersKeep(w) /\ cur'[w] = cur[w] /\ cur[w] \in Jobs /\ pc[w] = "load"
         /\ \/ Left(w)
            \/ /\ pc'[w] = "mark"
               /\ local'[w] = [NoLocal EXCEPT !.auth = authorised[ask[cur[w]].asset],
                                              !.todo = ForProfile(ask[cur[w]].profile)]
<1>1. UNCHANGED <<authorised, ask, row, stored, hist>> /\ pc[w] = "load" /\ cur[w] \in Jobs
  BY DEF Load, api, db, TInv, Holding, Busy
<1>2. local[w] = NoLocal
  BY <1>1 DEF Fresh, Inside
<1>3. CASE Return(w, "fail", cur[w])
  BY <1>1, <1>3, ReturnFacts DEF Left, Inside
<1>4. CASE /\ Goto(w, "mark")
           /\ local' = [local EXCEPT ![w].auth = authorised[ask[cur[w]].asset],
                                     ![w].todo = ForProfile(ask[cur[w]].profile)]
           /\ UNCHANGED <<cur, ctx>>
  BY <1>1, <1>2, <1>4 DEF Goto, OthersKeep, TInv, WorkerType
<1> QED BY <1>3, <1>4 DEF Load

\* An update of the row of the job that w holds.
RowSet(w, new) == /\ \A j \in Jobs : j # cur[w] => row'[j] = row[j]
                  /\ row'[cur[w]] \in {row[cur[w]], new}

LEMMA UpdateFacts ==
  ASSUME TInv, NEW w \in Workers, cur[w] \in Jobs, NEW r, NEW new, Update(cur[w], r, new)
  PROVE  RowSet(w, new) /\ (r = "ok" => row'[cur[w]] = new)
  BY DEF Update, RowSet, Applied, TInv, DbType

LEMMA MarkRunningFacts ==
  ASSUME TInv, NEW w \in Workers, MarkRunning(w)
  PROVE  /\ UNCHANGED <<authorised, ask, stored, hist>>
         /\ OthersKeep(w) /\ cur'[w] = cur[w] /\ cur[w] \in Jobs /\ pc[w] = "mark"
         /\ RowSet(w, MarkRunningRow(row[cur[w]]))
         /\ \/ Left(w)
            \/ /\ pc'[w] = "scan" /\ local'[w] = local[w]
               /\ row'[cur[w]] = MarkRunningRow(row[cur[w]])
<1>1. UNCHANGED <<authorised, ask, stored, hist>> /\ pc[w] = "mark" /\ cur[w] \in Jobs
  BY DEF MarkRunning, api, TInv, Holding, Busy
<1>2. PICK r : /\ Update(cur[w], r, MarkRunningRow(row[cur[w]]))
               /\ IF Started(r) THEN Goto(w, "scan") /\ UNCHANGED <<cur, ctx, local>>
                                ELSE Return(w, "fail", cur[w])
  BY DEF MarkRunning
<1>3. /\ RowSet(w, MarkRunningRow(row[cur[w]]))
      /\ Started(r) => row'[cur[w]] = MarkRunningRow(row[cur[w]])
  BY <1>1, <1>2, UpdateFacts DEF Started
<1>4. CASE Return(w, "fail", cur[w])
  BY <1>1, <1>3, <1>4, ReturnFacts DEF Left, Inside
<1>5. CASE Started(r) /\ Goto(w, "scan") /\ UNCHANGED <<cur, ctx, local>>
  BY <1>1, <1>3, <1>5 DEF Goto, OthersKeep, TInv, WorkerType
<1> QED BY <1>2, <1>4, <1>5

LEMMA FinishFacts ==
  ASSUME TInv, NEW w \in Workers, Finish(w)
  PROVE  /\ UNCHANGED <<authorised, ask, stored, hist>>
         /\ OthersKeep(w) /\ cur[w] \in Jobs /\ Left(w)
         /\ pc[w] = "scan" /\ local[w].left = 0 /\ local[w].todo = <<>>
         /\ RowSet(w, FinalRow(row[cur[w]], local[w]))
<1>1. /\ UNCHANGED <<authorised, ask, stored, hist>> /\ pc[w] = "scan" /\ cur[w] \in Jobs
      /\ ~(local[w].left > 0) /\ local[w].todo = <<>>
  BY DEF Finish, api, TInv, Holding, Busy, MoreToStore
<1>2. PICK r : /\ Update(cur[w], r, FinalRow(row[cur[w]], local[w]))
               /\ IF r = "ok" THEN Return(w, "poll", NoJob) ELSE Return(w, "fail", cur[w])
  BY DEF Finish
<1>3. OthersKeep(w) /\ Left(w)
  BY <1>2, ReturnFacts DEF Left, Inside
<1>4. local[w].left = 0
  <2>1. local[w].left \in 0..MaxFindings
    BY DEF TInv, WorkerType, Locals
  <2> QED BY <1>1, <2>1, AdapterAssumption
<1> QED BY <1>1, <1>2, <1>3, <1>4, UpdateFacts

LEMMA RecordFailureFacts ==
  ASSUME TInv, NEW w \in Workers, RecordFailure(w)
  PROVE  /\ UNCHANGED <<authorised, ask, stored, hist>>
         /\ OthersKeep(w) /\ cur[w] \in Jobs /\ Left(w) /\ pc[w] = "fail"
         /\ RowSet(w, MarkFailedRow(row[cur[w]], "process error"))
<1>1. /\ UNCHANGED <<authorised, ask, stored, hist>> /\ pc[w] = "fail" /\ cur[w] \in Jobs
      /\ Return(w, "poll", NoJob)
  BY DEF RecordFailure, api, TInv, Holding, Busy
<1>2. PICK r : Update(cur[w], r, MarkFailedRow(row[cur[w]], "process error"))
  BY DEF RecordFailure
<1>3. OthersKeep(w) /\ Left(w)
  BY <1>1, ReturnFacts DEF Left, Inside
<1> QED BY <1>1, <1>2, <1>3, UpdateFacts

LEMMA KillFacts ==
  ASSUME TInv, NEW w \in Workers, Kill(w)
  PROVE  /\ UNCHANGED <<authorised, ask, row, stored>>
         /\ OthersKeep(w) /\ Left(w)
         /\ \A j \in Jobs : \/ hist'[j] = hist[j]
                            \/ hist'[j] = [hist[j] EXCEPT !.skipped = TRUE]
         /\ pc[w] = "scan" /\ local[w].left > 0 =>
              cur[w] \in Jobs /\ hist'[cur[w]].skipped
<1>1. /\ UNCHANGED <<authorised, ask, row, stored>> /\ OthersKeep(w) /\ Left(w)
  BY DEF Kill, api, db, Goto, OthersKeep, Left, Inside, TInv, WorkerType
<1>2. hist' = IF cur[w] # NoJob /\ local[w].left > 0
              THEN [hist EXCEPT ![cur[w]].skipped = TRUE] ELSE hist
  BY DEF Kill, MoreToStore
<1>3. pc[w] = "scan" => cur[w] \in Jobs
  BY DEF TInv, Holding, Busy
<1>4. hist \in [Jobs -> Histories] /\ cur[w] \in Jobs \cup {NoJob}
  BY DEF TInv, ApiType, WorkerType
<1>5. \A j \in Jobs : \/ hist'[j] = hist[j]
                      \/ hist'[j] = [hist[j] EXCEPT !.skipped = TRUE]
  BY <1>2, <1>4
<1>6. ASSUME pc[w] = "scan", local[w].left > 0 PROVE hist'[cur[w]].skipped
  <2>1. hist' = [hist EXCEPT ![cur[w]].skipped = TRUE]
    BY <1>2, <1>3, <1>6, PipelineAssumption
  <2>2. hist'[cur[w]] = [hist[cur[w]] EXCEPT !.skipped = TRUE]
    BY <1>3, <1>4, <1>6, <2>1
  <2> QED BY <1>3, <1>4, <1>6, <2>2 DEF Histories
<1> QED BY <1>1, <1>3, <1>5, <1>6

\* Fields of AfterScan and Noted, one by one.
LEMMA AfterScanFields ==
  ASSUME NEW l \in Locals, NEW s, NEW o, NEW m, m = AfterScan(l, s, o)
  PROVE  /\ m.auth = l.auth /\ m.todo = Tail(l.todo) /\ m.left = Yield(o) /\ m.total = l.total
         /\ l.errs \subseteq m.errs /\ (o.kind = "error" => s \in m.errs)
         /\ m.usedMock <=> l.usedMock \/ o.kind = "mock"
         /\ Yield(o) > 0 => m.from = <<s, o.kind>>
         /\ ~(Yield(o) > 0) => m.from = l.from
  BY DEF AfterScan, AnyIsMock, Locals

LEMMA NotedFields ==
  ASSUME NEW h \in Histories, NEW s, NEW o, NEW n, n = Noted(h, s, o)
  PROVE  /\ n.skipped = h.skipped /\ n.cleared = h.cleared
         /\ h.ran \subseteq n.ran /\ (o.kind # "error" => s \in n.ran)
         /\ n.hit = h.hit \/ Yield(o) > 0
         /\ n.touched = h.touched \cup o.touched
  BY DEF Noted, Histories

\* The scanner that runs, and what it returns.
Ranned(w, s, o) ==
  /\ s \in Scanners /\ s = Head(local[w].todo)
  /\ o \in ScanOutcomes(s, ask[cur[w]].asset, local[w].auth, ctx[w] # "live")
  /\ local'[w] = AfterScan(local[w], s, o)
  /\ hist'[cur[w]] = Noted(hist[cur[w]], s, o)

LEMMA RunScannerFacts ==
  ASSUME TInv, NEW w \in Workers, RunScanner(w)
  PROVE  /\ UNCHANGED <<authorised, ask, row, stored, pc, cur>>
         /\ OthersKeep(w) /\ cur[w] \in Jobs /\ pc[w] = "scan" /\ local[w] \in Locals
         /\ local[w].left = 0 /\ local[w].todo # <<>>
         /\ \A j \in Jobs : j # cur[w] => hist'[j] = hist[j]
         /\ \E s, o : Ranned(w, s, o)
<1>1. UNCHANGED <<authorised, ask, row, stored, pc, cur>>
  BY DEF RunScanner, api, db
<1>2. /\ pc[w] = "scan" /\ cur[w] \in Jobs /\ local[w] \in Locals
      /\ ~(local[w].left > 0) /\ local[w].todo # <<>>
  BY DEF RunScanner, TInv, Holding, Busy, WorkerType, MoreToStore
<1>3. local[w].left = 0
  <2>1. local[w].left \in 0..MaxFindings
    BY <1>2 DEF Locals
  <2> QED BY <1>2, <2>1, AdapterAssumption
<1>4. PICK s : s = Head(local[w].todo)
  OBVIOUS
<1>5. PICK o \in ScanOutcomes(s, ask[cur[w]].asset, local[w].auth, ctx[w] # "live") :
        /\ local' = [local EXCEPT ![w] = AfterScan(local[w], s, o)]
        /\ hist' = [hist EXCEPT ![cur[w]] = Noted(hist[cur[w]], s, o)]
  BY <1>4 DEF RunScanner
<1>6. s \in Scanners
  BY <1>2, <1>4 DEF Locals
<1>7. /\ local'[w] = AfterScan(local[w], s, o)
      /\ hist'[cur[w]] = Noted(hist[cur[w]], s, o)
      /\ OthersKeep(w) /\ \A j \in Jobs : j # cur[w] => hist'[j] = hist[j]
  BY <1>1, <1>2, <1>5 DEF OthersKeep, TInv, ApiType, WorkerType
<1>8. Ranned(w, s, o)
  BY <1>4, <1>5, <1>6, <1>7 DEF Ranned
<1> QED BY <1>1, <1>2, <1>3, <1>7, <1>8

LEMMA CreateFindingFacts ==
  ASSUME TInv, NEW w \in Workers, CreateFinding(w)
  PROVE  /\ UNCHANGED <<authorised, ask, row, pc, cur>>
         /\ OthersKeep(w) /\ cur[w] \in Jobs /\ pc[w] = "scan" /\ local[w] \in Locals
         /\ local[w].left > 0
         /\ local'[w].left = local[w].left - 1
         /\ local'[w].auth = local[w].auth /\ local'[w].todo = local[w].todo
         /\ local'[w].errs = local[w].errs /\ local'[w].from = local[w].from
         /\ local'[w].usedMock = local[w].usedMock
         /\ \A j \in Jobs : /\ j # cur[w] => stored'[j] = stored[j]
                            /\ \/ hist'[j] = hist[j]
                               \/ hist'[j] = [hist[j] EXCEPT !.skipped = TRUE]
         /\ stored'[cur[w]] \in {stored[cur[w]], stored[cur[w]] \cup {local[w].from}}
         /\ local[w].from \in stored'[cur[w]] \/ hist'[cur[w]].skipped
<1>1. UNCHANGED <<authorised, ask, row, pc, cur>>
  BY DEF CreateFinding, api
<1>2. /\ cur[w] \in Jobs /\ pc[w] = "scan" /\ local[w] \in Locals /\ local[w].left > 0
  BY DEF CreateFinding, TInv, Holding, Busy, WorkerType, MoreToStore
<1>3. PICK r : /\ stored' = IF Applied(r)
                            THEN [stored EXCEPT ![cur[w]] = @ \cup {local[w].from}]
                            ELSE stored
               /\ local' = [local EXCEPT ![w].left  = @ - 1,
                                         ![w].total = IF r = "ok" THEN @ + 1 ELSE @]
               /\ hist' = IF r = "ok" THEN hist ELSE [hist EXCEPT ![cur[w]].skipped = TRUE]
  BY DEF CreateFinding
<1>4. PICK t : t = IF r = "ok" THEN local[w].total + 1 ELSE local[w].total
  OBVIOUS
<1>5. /\ local'[w] = [local[w] EXCEPT !.left = local[w].left - 1, !.total = t]
      /\ OthersKeep(w)
  BY <1>1, <1>3, <1>4 DEF OthersKeep, TInv, WorkerType
<1>6. /\ local'[w].left = local[w].left - 1
      /\ local'[w].auth = local[w].auth /\ local'[w].todo = local[w].todo
      /\ local'[w].errs = local[w].errs /\ local'[w].from = local[w].from
      /\ local'[w].usedMock = local[w].usedMock
  BY <1>2, <1>5 DEF Locals
<1>7. /\ \A j \in Jobs : j # cur[w] => stored'[j] = stored[j]
      /\ stored'[cur[w]] \in {stored[cur[w]], stored[cur[w]] \cup {local[w].from}}
      /\ r = "ok" => local[w].from \in stored'[cur[w]]
  BY <1>2, <1>3 DEF Applied, TInv, DbType
<1>8. /\ \A j \in Jobs : \/ hist'[j] = hist[j]
                         \/ hist'[j] = [hist[j] EXCEPT !.skipped = TRUE]
      /\ r # "ok" => hist'[cur[w]].skipped
  <2>1. hist \in [Jobs -> Histories] /\ hist[cur[w]] \in Histories
    BY <1>2 DEF TInv, ApiType
  <2>2. CASE r = "ok"
    BY <1>3, <2>2
  <2>3. CASE r # "ok"
    <3>1. hist' = [hist EXCEPT ![cur[w]].skipped = TRUE]
      BY <1>3, <2>3
    <3>2. hist'[cur[w]] = [hist[cur[w]] EXCEPT !.skipped = TRUE]
      BY <1>2, <2>1, <3>1
    <3> QED BY <1>2, <2>1, <3>1, <3>2 DEF Histories
  <2> QED BY <2>2, <2>3
<1> QED BY <1>1, <1>2, <1>5, <1>6, <1>7, <1>8

LEMMA CreateScanJobFacts ==
  ASSUME TInv, Born, NEW j \in Jobs, CreateScanJob(j)
  PROVE  /\ UNCHANGED <<authorised, ask, stored, pc, cur, local>>
         /\ row[j].status = "absent"
         /\ \A k \in Jobs : k # j => row'[k] = row[k] /\ hist'[k] = hist[k]
         /\ \/ row' = row /\ hist' = hist
            \/ /\ row'[j] = QueuedRow
               /\ hist'[j] = [hist[j] EXCEPT !.cleared = authorised[ask[j].asset]]
  BY DEF CreateScanJob, worker, Born, Unborn, Update, TInv, ApiType, DbType

LEMMA AuthorizeAssetFacts ==
  ASSUME TInv, NEW a \in Assets, AuthorizeAsset(a)
  PROVE  /\ UNCHANGED <<ask, row, stored, pc, cur, local>>
         /\ \A b \in Assets : authorised'[b] => b = a \/ authorised[b]
         /\ authorised'[a] = ~authorised[a]
         /\ \A j \in Jobs :
              hist'[j] = IF ask[j].asset = a /\ row[j].status # "absent" /\ ~authorised[a]
                         THEN [hist[j] EXCEPT !.cleared = TRUE] ELSE hist[j]
  BY DEF AuthorizeAsset, db, worker, TInv, ApiType

LEMMA SkippedFields ==
  ASSUME NEW h \in Histories, NEW n, n = [h EXCEPT !.skipped = TRUE]
  PROVE  /\ n.ran = h.ran /\ n.hit = h.hit /\ n.touched = h.touched
         /\ n.cleared = h.cleared /\ n.skipped = TRUE
  BY DEF Histories

LEMMA ClearedFields ==
  ASSUME NEW h \in Histories, NEW b, NEW n, n = [h EXCEPT !.cleared = b]
  PROVE  /\ n.ran = h.ran /\ n.hit = h.hit /\ n.touched = h.touched
         /\ n.cleared = b /\ n.skipped = h.skipped
  BY DEF Histories

LEMMA RowFields ==
  ASSUME NEW r \in Rows, NEW l \in Locals
  PROVE  /\ MarkRunningRow(r).status = "running" /\ MarkRunningRow(r).usedMock = r.usedMock
         /\ MarkFailedRow(r, "process error").status = "failed"
         /\ MarkFailedRow(r, "process error").usedMock = r.usedMock
         /\ FinalRow(r, l).usedMock \in {r.usedMock, l.usedMock}
         /\ FinalRow(r, l).status = "completed" =>
              FinalRow(r, l).usedMock = l.usedMock /\ ~NothingButErrors(l)
         /\ FinalRow(r, l).status # "absent"
         /\ QueuedRow.status = "queued" /\ ~QueuedRow.usedMock
  BY DEF Rows, MarkRunningRow, MarkFailedRow, MarkCompletedRow, FinalRow, QueuedRow

-----------------------------------------------------------------------------
(* The variables of Process.                                               *)

LEMMA InitFresh == Init => Fresh
  BY DEF Init, Fresh, Inside

LEMMA StepFresh == TInv /\ Fresh /\ [Next]_vars => Fresh'
<1> SUFFICES ASSUME TInv, Fresh, [Next]_vars PROVE Fresh'
  OBVIOUS
<1>1. CASE UNCHANGED <<pc, local>>
  BY <1>1 DEF Fresh
<1>2. ASSUME NEW w \in Workers,
             Poll(w) \/ Dequeue(w) \/ DequeueNothing(w)
             \/ Deadline(w) \/ Sigterm(w) \/ Restart(w)
      PROVE  Fresh'
  BY <1>2, QuietFacts DEF Fresh, Inside
<1>3. ASSUME NEW w \in Workers, OthersKeep(w), Left(w) PROVE Fresh'
  BY <1>3 DEF Fresh, OthersKeep, Left, Inside
<1>4. ASSUME NEW w \in Workers, Load(w) PROVE Fresh'
  <2>1. CASE Left(w)
    BY <1>3, <1>4, <2>1, LoadFacts
  <2>2. CASE pc'[w] = "mark" /\ local'[w] = [NoLocal EXCEPT
               !.auth = authorised[ask[cur[w]].asset],
               !.todo = ForProfile(ask[cur[w]].profile)]
    <3>1. /\ local'[w].left = 0 /\ local'[w].total = 0
          /\ ~local'[w].usedMock /\ local'[w].errs = {}
      BY <2>2 DEF NoLocal
    <3>2. OthersKeep(w)
      BY <1>4, LoadFacts
    <3> QED BY <2>2, <3>1, <3>2, ZenonT(60) DEF Fresh, OthersKeep, Inside
  <2> QED BY <1>4, <2>1, <2>2, LoadFacts
<1>5. ASSUME NEW w \in Workers, MarkRunning(w) PROVE Fresh'
  <2>1. CASE Left(w)
    BY <1>3, <1>5, <2>1, MarkRunningFacts
  <2>2. CASE pc'[w] = "scan"
    BY <1>5, <2>2, MarkRunningFacts DEF Fresh, OthersKeep, Inside
  <2> QED BY <1>5, <2>1, <2>2, MarkRunningFacts
<1>6. ASSUME NEW w \in Workers, RunScanner(w) \/ CreateFinding(w) PROVE Fresh'
  BY <1>6, RunScannerFacts, CreateFindingFacts DEF Fresh, OthersKeep, Inside
<1>7. ASSUME NEW w \in Workers, Finish(w) \/ RecordFailure(w) \/ Kill(w) PROVE Fresh'
  BY <1>3, <1>7, FinishFacts, RecordFailureFacts, KillFacts
<1> QED BY <1>1, <1>2, <1>4, <1>5, <1>6, <1>7
        DEF Next, WorkerStep, CreateScanJob, Enqueue, AuthorizeAsset, worker, vars

LEMMA FreshInvariant == Spec => []Fresh
<1> QED BY TypeInvariant, InitFresh, StepFresh, PTL DEF Spec

-----------------------------------------------------------------------------
(* Production fabricates nothing.                                          *)

LEMMA NoLocalHonest == NoLocal.from[2] = "live" /\ NoLocal.usedMock = FALSE
  BY DEF NoLocal

LEMMA InitHonest == Init => Honest
<1> SUFFICES ASSUME Init PROVE Honest
  OBVIOUS
<1>1. \A w \in Workers : local[w] = NoLocal
  BY DEF Init
<1>2. \A j \in Jobs : row[j].usedMock = FALSE /\ stored[j] = {}
  BY DEF Init
<1> QED BY <1>1, <1>2, NoLocalHonest DEF Honest

LEMMA StepHonest == TInv /\ Fresh /\ Born /\ Honest /\ [Next]_vars => Honest'
<1> SUFFICES ASSUME TInv, Fresh, Born, Honest, [Next]_vars, Production PROVE Honest'
  BY DEF Honest
<1>1. /\ \A w \in Workers : local[w].from[2] = "live" /\ ~local[w].usedMock
      /\ \A j \in Jobs : /\ \A s \in Scanners : <<s, "mock">> \notin stored[j]
                         /\ ~row[j].usedMock
  BY DEF Honest
<1>2. /\ \A j \in Jobs : row[j] \in Rows
      /\ \A w \in Workers : local[w] \in Locals
  BY DEF TInv, DbType, WorkerType
<1>3. CASE UNCHANGED <<row, stored, local>>
  BY <1>3 DEF Honest
<1>4. ASSUME NEW w \in Workers, OthersKeep(w), Left(w), stored' = stored,
             \A j \in Jobs : row'[j].usedMock = row[j].usedMock \/ ~row'[j].usedMock
      PROVE  Honest'
  BY <1>1, <1>4, NoLocalHonest DEF Honest, OthersKeep, Left
<1>5. ASSUME NEW w \in Workers, NEW new, cur[w] \in Jobs, RowSet(w, new),
             new.usedMock = row[cur[w]].usedMock \/ ~new.usedMock
      PROVE  \A j \in Jobs : row'[j].usedMock = row[j].usedMock \/ ~row'[j].usedMock
  BY <1>5 DEF RowSet
<1>6. ASSUME NEW j \in Jobs, CreateScanJob(j) PROVE Honest'
  <2>1. UNCHANGED <<stored, local>> /\ \A k \in Jobs : row'[k] = row[k] \/ ~row'[k].usedMock
    <3>1. QueuedRow.usedMock = FALSE
      BY DEF QueuedRow
    <3> QED BY <1>6, <3>1, CreateScanJobFacts
  <2> QED BY <1>1, <2>1 DEF Honest
<1>7. ASSUME NEW w \in Workers, Load(w) PROVE Honest'
  <2>1. CASE Left(w)
    BY <1>4, <1>7, <2>1, LoadFacts
  <2>2. CASE local'[w] = [NoLocal EXCEPT !.auth = authorised[ask[cur[w]].asset],
                                         !.todo = ForProfile(ask[cur[w]].profile)]
    <3>1. local'[w].from[2] = "live" /\ local'[w].usedMock = FALSE
      BY <2>2 DEF NoLocal
    <3>2. OthersKeep(w) /\ UNCHANGED <<row, stored>>
      BY <1>7, LoadFacts
    <3> QED BY <1>1, <3>1, <3>2 DEF Honest, OthersKeep
  <2> QED BY <1>7, <2>1, <2>2, LoadFacts
<1>8. ASSUME NEW w \in Workers, MarkRunning(w) PROVE Honest'
  <2>1. /\ stored' = stored /\ OthersKeep(w)
        /\ \A j \in Jobs : row'[j].usedMock = row[j].usedMock \/ ~row'[j].usedMock
    <3>1. /\ stored' = stored /\ OthersKeep(w) /\ cur[w] \in Jobs
          /\ RowSet(w, MarkRunningRow(row[cur[w]]))
      BY <1>8, MarkRunningFacts
    <3>2. row[cur[w]] \in Rows /\ local[w] \in Locals
      BY <1>2, <3>1
    <3>3. PICK new : new = MarkRunningRow(row[cur[w]])
      OBVIOUS
    <3>4. new.usedMock = row[cur[w]].usedMock
      BY <3>2, <3>3, RowFields
    <3>5. RowSet(w, new)
      BY <3>1, <3>3
    <3>6. \A j \in Jobs : row'[j].usedMock = row[j].usedMock \/ ~row'[j].usedMock
      BY <1>5, <3>1, <3>4, <3>5
    <3> QED BY <3>1, <3>6
  <2>2. CASE Left(w)
    BY <1>4, <2>1, <2>2
  <2>3. CASE local'[w] = local[w]
    BY <1>1, <2>1, <2>3 DEF Honest, OthersKeep
  <2> QED BY <1>8, <2>2, <2>3, MarkRunningFacts
<1>9. ASSUME NEW w \in Workers, RunScanner(w) PROVE Honest'
  <2>1. UNCHANGED <<row, stored>> /\ OthersKeep(w) /\ local[w] \in Locals /\ cur[w] \in Jobs
    BY <1>9, RunScannerFacts
  <2>2. PICK s, o : Ranned(w, s, o)
    BY <1>9, RunScannerFacts
  <2>3. o \in Outcome /\ o.kind # "mock" /\ (Yield(o) > 0 => o.kind \in Kinds)
    <3>1. ask[cur[w]].asset \in Assets
      BY <2>1 DEF TInv, ApiType
    <3> QED BY <2>2, <3>1, OutcomePolicy DEF Ranned
  <2>4. PICK m : m = AfterScan(local[w], s, o)
    OBVIOUS
  <2>5. /\ m.usedMock <=> local[w].usedMock \/ o.kind = "mock"
        /\ Yield(o) > 0 => m.from = <<s, o.kind>>
        /\ ~(Yield(o) > 0) => m.from = local[w].from
    <3>1. local[w] \in Locals
      BY <2>1
    <3>2. m.usedMock <=> local[w].usedMock \/ o.kind = "mock"
      BY <3>1, <2>4, AfterScanFields
    <3>3. (Yield(o) > 0 => m.from = <<s, o.kind>>) /\ (~(Yield(o) > 0) => m.from = local[w].from)
      BY <3>1, <2>4, AfterScanFields
    <3> QED BY <3>2, <3>3
  <2>6. m.from[2] = "live"
    <3>1. CASE Yield(o) > 0
      <4>1. o.kind = "live"
        BY <2>3, <3>1 DEF Kinds
      <4>2. m.from = <<s, "live">>
        BY <2>5, <3>1, <4>1
      <4> QED BY <4>2
    <3>2. CASE ~(Yield(o) > 0)
      BY <1>1, <2>5, <3>2
    <3> QED BY <3>1, <3>2
  <2>7. ~m.usedMock
    BY <1>1, <2>3, <2>5
  <2>8. local'[w].from[2] = "live" /\ ~local'[w].usedMock
    BY <2>2, <2>4, <2>6, <2>7 DEF Ranned
  <2> QED BY <1>1, <2>1, <2>8 DEF Honest, OthersKeep
<1>10. ASSUME NEW w \in Workers, CreateFinding(w) PROVE Honest'
  <2>1. \A s \in Scanners : <<s, "mock">> # local[w].from
    BY <1>1
  <2>3. /\ \A j \in Jobs : j # cur[w] => stored'[j] = stored[j]
        /\ stored'[cur[w]] \in {stored[cur[w]], stored[cur[w]] \cup {local[w].from}}
    BY <1>10, CreateFindingFacts
  <2>2. \A j \in Jobs : \A s \in Scanners : <<s, "mock">> \notin stored'[j]
    <3> TAKE j \in Jobs
    <3>1. stored'[j] \in {stored[j], stored[j] \cup {local[w].from}}
      BY <2>3
    <3> QED BY <1>1, <2>1, <3>1
  <2> QED BY <1>1, <1>10, <2>2, CreateFindingFacts DEF Honest, OthersKeep
<1>11. ASSUME NEW w \in Workers, Finish(w) PROVE Honest'
  <2>1. \A j \in Jobs : row'[j].usedMock = row[j].usedMock \/ ~row'[j].usedMock
    <3>1. PICK new : new = FinalRow(row[cur[w]], local[w])
      OBVIOUS
    <3>2. new.usedMock \in {row[cur[w]].usedMock, local[w].usedMock}
      BY <1>2, <1>11, <3>1, FinishFacts, RowFields
    <3> QED BY <1>1, <1>5, <1>11, <3>1, <3>2, FinishFacts
  <2> QED BY <1>4, <1>11, <2>1, FinishFacts
<1>12. ASSUME NEW w \in Workers, RecordFailure(w) PROVE Honest'
  <2>1. \A j \in Jobs : row'[j].usedMock = row[j].usedMock \/ ~row'[j].usedMock
    <3>1. PICK new : new = MarkFailedRow(row[cur[w]], "process error")
      OBVIOUS
    <3>2. cur[w] \in Jobs /\ RowSet(w, new)
      BY <1>12, <3>1, RecordFailureFacts
    <3>3. new.usedMock = row[cur[w]].usedMock
      BY <1>2, <3>1, <3>2, RowFields
    <3> QED BY <1>5, <3>2, <3>3
  <2> QED BY <1>4, <1>12, <2>1, RecordFailureFacts
<1>13. ASSUME NEW w \in Workers, Kill(w) PROVE Honest'
  BY <1>4, <1>13, KillFacts
<1>14. ASSUME NEW w \in Workers,
              Poll(w) \/ Dequeue(w) \/ DequeueNothing(w)
              \/ Deadline(w) \/ Sigterm(w) \/ Restart(w)
       PROVE  Honest'
  BY <1>3, <1>14, QuietFacts
<1> QED BY <1>3, <1>6, <1>7, <1>8, <1>9, <1>10, <1>11, <1>12, <1>13, <1>14
        DEF Next, WorkerStep, Enqueue, AuthorizeAsset, worker, db, vars

\* In production no canned finding is ever stored and no row carries the flag, for any
\* adapters installed, any policy and any failures.
THEOREM NeverFabricates == Spec => []ProductionNeverFabricates
<1>1. Honest => ProductionNeverFabricates
  BY DEF Honest, ProductionNeverFabricates
<1>2. Spec => []Honest
  BY TypeInvariant, FreshInvariant, BornInvariant, InitHonest, StepHonest, PTL DEF Spec
<1> QED BY <1>1, <1>2, PTL

-----------------------------------------------------------------------------
(* Nobody is scanned without an authorization.                             *)

LEMMA SkipKeeps ==
  ASSUME TInv, NEW j \in Jobs,
         hist'[j] = hist[j] \/ hist'[j] = [hist[j] EXCEPT !.skipped = TRUE]
  PROVE  /\ hist'[j].ran = hist[j].ran /\ hist'[j].hit = hist[j].hit
         /\ hist'[j].touched = hist[j].touched /\ hist'[j].cleared = hist[j].cleared
         /\ hist[j].skipped => hist'[j].skipped
<1>1. hist[j] \in Histories
  BY DEF TInv, ApiType
<1>2. CASE hist'[j] = hist[j]
  BY <1>2
<1>3. CASE hist'[j] = [hist[j] EXCEPT !.skipped = TRUE]
  BY <1>1, <1>3, SkippedFields
<1> QED BY <1>2, <1>3

LEMMA InitCleared == Init => Cleared
<1> SUFFICES ASSUME Init PROVE Cleared
  OBVIOUS
<1>1. \A j \in Jobs : hist[j].touched = {} /\ row[j].status = "absent"
  BY DEF Init, NoHistory
<1>2. \A w \in Workers : pc[w] \notin Inside
  BY DEF Init, Inside
<1> QED BY <1>1, <1>2 DEF Cleared, UnauthorisedNeverTouched

\* A step that touches nobody and clears nobody, and does not enter Process.
LEMMA ClearedStep ==
  ASSUME TInv, Cleared, UNCHANGED <<authorised, ask>>,
         \A j \in Jobs : /\ hist'[j].touched = hist[j].touched
                         /\ hist'[j].cleared = hist[j].cleared
                         /\ row'[j].status = "absent" <=> row[j].status = "absent",
         \A w \in Workers : pc'[w] \in Inside =>
           pc[w] \in Inside /\ cur'[w] = cur[w] /\ local'[w].auth = local[w].auth
  PROVE  Cleared'
<1>1. \A w \in Workers : pc[w] \in Inside => cur[w] \in Jobs
  BY DEF TInv, Holding, Busy, Inside
<1> QED BY <1>1 DEF Cleared, UnauthorisedNeverTouched

\* An update of a row that exists leaves it existing.
LEMMA RowSetPresence ==
  ASSUME NEW w \in Workers, cur[w] \in Jobs, row[cur[w]].status # "absent", NEW new,
         new.status # "absent", RowSet(w, new)
  PROVE  \A j \in Jobs : row'[j].status = "absent" <=> row[j].status = "absent"
  BY DEF RowSet

LEMMA StepCleared == TInv /\ Fresh /\ Born /\ Cleared /\ [Next]_vars => Cleared'
<1> SUFFICES ASSUME TInv, Fresh, Born, Cleared, [Next]_vars PROVE Cleared'
  OBVIOUS
<1>1. /\ \A j \in Jobs : row[j] \in Rows /\ hist[j] \in Histories /\ ask[j].asset \in Assets
      /\ \A w \in Workers : local[w] \in Locals
  BY DEF TInv, ApiType, DbType, WorkerType
<1>2. ASSUME NEW j \in Jobs, CreateScanJob(j) PROVE Cleared'
  <2>1. /\ UNCHANGED <<authorised, ask, pc, cur, local>> /\ row[j].status = "absent"
        /\ \A k \in Jobs : k # j => row'[k] = row[k] /\ hist'[k] = hist[k]
    BY <1>2, CreateScanJobFacts
  <2>2. \A w \in Workers : pc[w] \in Inside => cur[w] \in Jobs /\ cur[w] # j
    BY <2>1, HeldRow DEF Inside, Busy
  <2>3. CASE row' = row /\ hist' = hist
    BY <2>1, <2>3 DEF Cleared, UnauthorisedNeverTouched
  <2>4. CASE /\ row'[j] = QueuedRow
             /\ hist'[j] = [hist[j] EXCEPT !.cleared = authorised[ask[j].asset]]
    <3>1. /\ row'[j].status = "queued" /\ hist'[j].touched = {}
          /\ authorised[ask[j].asset] => hist'[j].cleared
      <4>1. /\ hist'[j].touched = hist[j].touched
            /\ hist'[j].cleared = authorised[ask[j].asset]
        BY <1>1, <2>4, ClearedFields
      <4>2. hist[j].touched = {}
        BY <2>1 DEF Cleared
      <4>3. row'[j].status = "queued"
        <5>1. QueuedRow.status = "queued"
          BY DEF QueuedRow
        <5> QED BY <2>4, <5>1
      <4>4. authorised[ask[j].asset] => hist'[j].cleared
        BY <4>1
      <4> QED BY <4>1, <4>2, <4>3, <4>4
    <3> QED BY <2>1, <2>2, <3>1 DEF Cleared, UnauthorisedNeverTouched
  <2> QED BY <1>2, <2>3, <2>4, CreateScanJobFacts
<1>3. ASSUME NEW j \in Jobs, Enqueue(j) PROVE Cleared'
  BY <1>3 DEF Enqueue, db, worker, Cleared, UnauthorisedNeverTouched
<1>4. ASSUME NEW a \in Assets, AuthorizeAsset(a) PROVE Cleared'
  <2>1. /\ UNCHANGED <<ask, row, pc, cur, local>>
        /\ \A b \in Assets : authorised'[b] => b = a \/ authorised[b]
        /\ authorised'[a] = ~authorised[a]
    BY <1>4, AuthorizeAssetFacts
  <2>2. \A j \in Jobs : hist'[j] = hist[j] \/ hist'[j] = [hist[j] EXCEPT !.cleared = TRUE]
    BY <1>4, AuthorizeAssetFacts
  <2>3. \A j \in Jobs : /\ hist'[j].touched = hist[j].touched
                        /\ hist[j].cleared => hist'[j].cleared
    <3> TAKE j \in Jobs
    <3>1. CASE hist'[j] = hist[j]
      BY <3>1
    <3>2. CASE hist'[j] = [hist[j] EXCEPT !.cleared = TRUE]
      <4>1. hist'[j].touched = hist[j].touched /\ hist'[j].cleared = TRUE
        BY <1>1, <3>2, ClearedFields
      <4> QED BY <4>1
    <3> QED BY <2>2, <3>1, <3>2
  <2>4. ASSUME NEW j \in Jobs, row[j].status # "absent", authorised'[ask[j].asset]
        PROVE  hist'[j].cleared
    <3>1. CASE authorised[ask[j].asset]
      BY <2>3, <2>4, <3>1 DEF Cleared
    <3>2. CASE ~authorised[ask[j].asset]
      <4>1. ask[j].asset = a
        BY <1>1, <2>1, <2>4, <3>2
      <4>2. hist'[j] = [hist[j] EXCEPT !.cleared = TRUE]
        BY <1>4, <2>4, <3>2, <4>1, AuthorizeAssetFacts
      <4>3. hist'[j].cleared = TRUE
        BY <1>1, <4>2, ClearedFields
      <4> QED BY <4>3
    <3> QED BY <3>1, <3>2
  <2>5. \A w \in Workers : pc[w] \in Inside => cur[w] \in Jobs
    BY DEF TInv, Holding, Busy, Inside
  <2> QED BY <2>1, <2>3, <2>4, <2>5 DEF Cleared, UnauthorisedNeverTouched
<1>5. ASSUME NEW w \in Workers, Load(w) PROVE Cleared'
  <2>1. /\ UNCHANGED <<authorised, ask, row, stored, hist>>
        /\ OthersKeep(w) /\ cur'[w] = cur[w] /\ cur[w] \in Jobs /\ pc[w] = "load"
    BY <1>5, LoadFacts
  <2>2. CASE Left(w)
    BY <2>1, <2>2, ClearedStep DEF OthersKeep, Left
  <2>3. CASE /\ pc'[w] = "mark"
             /\ local'[w] = [NoLocal EXCEPT !.auth = authorised[ask[cur[w]].asset],
                                            !.todo = ForProfile(ask[cur[w]].profile)]
    <3>1. local'[w].auth = authorised[ask[cur[w]].asset]
      BY <2>3 DEF NoLocal
    <3>2. row[cur[w]].status # "absent"
      BY <2>1, HeldRow DEF Busy
    <3>3. authorised[ask[cur[w]].asset] => hist[cur[w]].cleared
      BY <2>1, <3>2 DEF Cleared
    <3> QED BY <2>1, <3>1, <3>3 DEF Cleared, UnauthorisedNeverTouched, OthersKeep
  <2> QED BY <1>5, <2>2, <2>3, LoadFacts
<1>6. ASSUME NEW w \in Workers, MarkRunning(w) PROVE Cleared'
  <2>1. PICK new : new = MarkRunningRow(row[cur[w]])
    OBVIOUS
  <2>2. /\ UNCHANGED <<authorised, ask, stored, hist>>
        /\ OthersKeep(w) /\ cur'[w] = cur[w] /\ cur[w] \in Jobs /\ pc[w] = "mark"
        /\ RowSet(w, new)
        /\ Left(w) \/ (pc'[w] = "scan" /\ local'[w] = local[w])
    BY <1>6, <2>1, MarkRunningFacts
  <2>3. new.status = "running" /\ row[cur[w]].status # "absent"
    BY <1>1, <2>1, <2>2, RowFields, HeldRow DEF Busy
  <2>4. \A j \in Jobs : row'[j].status = "absent" <=> row[j].status = "absent"
    BY <2>2, <2>3, RowSetPresence
  <2> QED BY <2>2, <2>4, ClearedStep DEF OthersKeep, Left, Inside
<1>7. ASSUME NEW w \in Workers, RunScanner(w) PROVE Cleared'
  <2>1. /\ UNCHANGED <<authorised, ask, row, pc, cur>>
        /\ OthersKeep(w) /\ cur[w] \in Jobs /\ pc[w] = "scan" /\ local[w] \in Locals
        /\ \A j \in Jobs : j # cur[w] => hist'[j] = hist[j]
    BY <1>7, RunScannerFacts
  <2>2. PICK s, o : Ranned(w, s, o)
    BY <1>7, RunScannerFacts
  <2>3. local'[w].auth = local[w].auth
    BY <2>1, <2>2, AfterScanFields DEF Ranned
  <2>4. PICK n : n = hist'[cur[w]]
    OBVIOUS
  <2>5. /\ n.cleared = hist[cur[w]].cleared
        /\ n.touched = hist[cur[w]].touched \cup o.touched
    BY <1>1, <2>1, <2>2, <2>4, NotedFields DEF Ranned
  <2>6. o.touched # {} => Permitted(cur[w])
    <3>1. ask[cur[w]].asset \in Assets
      BY <1>1, <2>1
    <3>2. o.touched # {} => \E seen \in Answers[ask[cur[w]].asset] :
                              LiveAllowed(seen, local[w].auth)
      BY <2>2, <3>1, OutcomePolicy DEF Ranned
    <3>3. local[w].auth => hist[cur[w]].cleared
      BY <2>1 DEF Cleared, Inside
    <3> QED BY <3>2, <3>3 DEF LiveAllowed, Permitted
  <2>7. row[cur[w]].status # "absent"
    BY <2>1, HeldRow DEF Busy
  <2>8. n.touched # {} => Permitted(cur[w])
    <3>1. hist[cur[w]].touched # {} => Permitted(cur[w])
      BY <2>1 DEF Cleared, UnauthorisedNeverTouched, Permitted
    <3> QED BY <2>5, <2>6, <3>1
  <2>9. \A v \in Workers : pc[v] \in Inside => cur[v] \in Jobs
    BY DEF TInv, Holding, Busy, Inside
  <2>10. \A j \in Jobs : hist'[j].cleared = hist[j].cleared
    BY <2>1, <2>4, <2>5
  <2>11. UnauthorisedNeverTouched'
    <3> SUFFICES ASSUME NEW j \in Jobs, hist'[j].touched # {} PROVE Permitted(j)'
      BY DEF UnauthorisedNeverTouched, Permitted
    <3>1. Permitted(j)
      <4>1. CASE j = cur[w]
        BY <2>4, <2>8, <4>1
      <4>2. CASE j # cur[w]
        BY <2>1, <4>2 DEF Cleared, UnauthorisedNeverTouched, Permitted
      <4> QED BY <4>1, <4>2
    <3> QED BY <2>1, <2>10, <3>1 DEF Permitted
  <2>12. \A j \in Jobs : row[j].status = "absent" => hist'[j].touched = {}
    BY <2>1, <2>7 DEF Cleared
  <2> QED BY <2>1, <2>3, <2>9, <2>10, <2>11, <2>12 DEF Cleared, OthersKeep
<1>8. ASSUME NEW w \in Workers, CreateFinding(w) PROVE Cleared'
  <2>1. \A j \in Jobs : hist'[j].touched = hist[j].touched /\ hist'[j].cleared = hist[j].cleared
    BY <1>8, CreateFindingFacts, SkipKeeps
  <2> QED BY <1>8, <2>1, CreateFindingFacts, ClearedStep DEF OthersKeep
<1>9. ASSUME NEW w \in Workers, Finish(w) \/ RecordFailure(w) PROVE Cleared'
  <2>1. /\ UNCHANGED <<authorised, ask, hist>> /\ OthersKeep(w) /\ Left(w) /\ cur[w] \in Jobs
        /\ pc[w] \in Busy
    BY <1>9, FinishFacts, RecordFailureFacts DEF Busy
  <2>2. PICK new : RowSet(w, new) /\ new.status # "absent"
    <3>1. /\ FinalRow(row[cur[w]], local[w]).status # "absent"
          /\ MarkFailedRow(row[cur[w]], "process error").status # "absent"
      BY <1>1, <2>1, RowFields
    <3>2. CASE Finish(w)
      BY <3>1, <3>2, FinishFacts
    <3>3. CASE RecordFailure(w)
      BY <3>1, <3>3, RecordFailureFacts
    <3> QED BY <1>9, <3>2, <3>3
  <2>3. \A j \in Jobs : row'[j].status = "absent" <=> row[j].status = "absent"
    BY <2>1, <2>2, HeldRow, RowSetPresence
  <2> QED BY <2>1, <2>3, ClearedStep DEF OthersKeep, Left
<1>10. ASSUME NEW w \in Workers, Kill(w) PROVE Cleared'
  <2>1. \A j \in Jobs : hist'[j].touched = hist[j].touched /\ hist'[j].cleared = hist[j].cleared
    BY <1>10, KillFacts, SkipKeeps
  <2> QED BY <1>10, <2>1, KillFacts, ClearedStep DEF OthersKeep, Left
<1>11. ASSUME NEW w \in Workers,
              Poll(w) \/ Dequeue(w) \/ DequeueNothing(w)
              \/ Deadline(w) \/ Sigterm(w) \/ Restart(w)
       PROVE  Cleared'
  BY <1>11, QuietFacts, ClearedStep
<1>12. CASE UNCHANGED vars
  BY <1>12 DEF vars, worker, Cleared, UnauthorisedNeverTouched
<1>13. Governed \subseteq Assets
  BY PipelineAssumption
<1> QED BY <1>2, <1>3, <1>4, <1>5, <1>6, <1>7, <1>8, <1>9, <1>10, <1>11, <1>12, <1>13
        DEF Next, WorkerStep

\* Without the global authorization, nobody is contacted for a job whose asset has no private
\* address and was authorised at no time of the job's life, however its name resolves from
\* one lookup to the next and however authorizations are granted and revoked while jobs
\* wait, run and are delivered again.
THEOREM NeverUnauthorised == Spec => []UnauthorisedNeverTouched
<1>1. Cleared => UnauthorisedNeverTouched
  BY DEF Cleared
<1>2. Spec => []Cleared
  BY TypeInvariant, FreshInvariant, BornInvariant, InitCleared, StepCleared, PTL DEF Spec
<1> QED BY <1>1, <1>2, PTL

-----------------------------------------------------------------------------
(* A completed job ran something.                                          *)

LEMMA FirstScanner ==
  ASSUME NEW p
  PROVE  ForProfile(p) # <<>> /\ Head(ForProfile(p)) \in {"nmap", "nuclei"}
<1>1. CASE p = "web"
  BY <1>1 DEF ForProfile
<1>2. CASE p = "critical"
  BY <1>2 DEF ForProfile
<1>3. CASE p \notin {"web", "critical"}
  BY <1>3 DEF ForProfile
<1> QED BY <1>1, <1>2, <1>3

LEMMA InitRan == Init => Ran
<1> SUFFICES ASSUME Init PROVE Ran
  OBVIOUS
<1>1. \A j \in Jobs : row[j].status = "absent"
  BY DEF Init
<1>2. \A w \in Workers : pc[w] \notin Inside
  BY DEF Init, Inside
<1> QED BY <1>1, <1>2 DEF Ran, CompletedRanSomething

\* A step that completes no job and leaves Process's loop where it is.
LEMMA RanStep ==
  ASSUME TInv, Ran, UNCHANGED ask,
         \A j \in Jobs : /\ hist[j].ran \subseteq hist'[j].ran
                         /\ row'[j].status = "completed" => row[j].status = "completed",
         \A w \in Workers : pc'[w] \in Inside =>
           /\ pc[w] \in Inside /\ cur'[w] = cur[w]
           /\ local'[w].todo = local[w].todo /\ local[w].errs \subseteq local'[w].errs
           /\ local'[w].left > 0 \/ local'[w].total > 0 => local[w].left > 0 \/ local[w].total > 0
  PROVE  Ran'
<1>1. \A j \in Jobs : RanOne(j) => RanOne(j)'
  BY DEF RanOne
<1>2. \A w \in Workers : pc[w] \in Inside => cur[w] \in Jobs
  BY DEF TInv, Holding, Busy, Inside
<1>3. CompletedRanSomething'
  BY <1>1 DEF Ran, CompletedRanSomething, RanOne
<1>4. ASSUME NEW w \in Workers, pc'[w] \in Inside
      PROVE  /\ \/ local'[w].todo = ForProfile(ask'[cur'[w]].profile)
                \/ local'[w].errs # {}
                \/ RanOne(cur[w])'
             /\ local'[w].left > 0 \/ local'[w].total > 0 => RanOne(cur[w])'
  <2>1. /\ pc[w] \in Inside /\ cur'[w] = cur[w] /\ cur[w] \in Jobs
        /\ local'[w].todo = local[w].todo /\ local[w].errs \subseteq local'[w].errs
        /\ local'[w].left > 0 \/ local'[w].total > 0 => local[w].left > 0 \/ local[w].total > 0
    BY <1>2, <1>4
  <2>2. /\ \/ local[w].todo = ForProfile(ask[cur[w]].profile)
           \/ local[w].errs # {}
           \/ RanOne(cur[w])
        /\ local[w].left > 0 \/ local[w].total > 0 => RanOne(cur[w])
    BY <2>1 DEF Ran
  <2>3. RanOne(cur[w]) => RanOne(cur[w])'
    <3>1. PICK j \in Jobs : j = cur[w]
      BY <2>1
    <3>2. RanOne(j) => RanOne(j)'
      BY <1>1
    <3> QED BY <2>1, <3>1, <3>2 DEF RanOne
  <2>4. local[w].errs # {} => local'[w].errs # {}
    BY <2>1
  <2> QED BY <2>1, <2>2, <2>3, <2>4
<1> QED BY <1>3, <1>4 DEF Ran

LEMMA RowSetCompletes ==
  ASSUME NEW w \in Workers, cur[w] \in Jobs, NEW new, new.status # "completed", RowSet(w, new)
  PROVE  \A j \in Jobs : row'[j].status = "completed" => row[j].status = "completed"
  BY DEF RowSet

LEMMA StepRan == TInv /\ Fresh /\ Born /\ Ran /\ [Next]_vars => Ran'
<1> SUFFICES ASSUME TInv, Fresh, Born, Ran, [Next]_vars PROVE Ran'
  OBVIOUS
<1>1. /\ \A j \in Jobs : row[j] \in Rows /\ hist[j] \in Histories /\ ask[j].asset \in Assets
      /\ \A w \in Workers : local[w] \in Locals
  BY DEF TInv, ApiType, DbType, WorkerType
<1>2. ASSUME NEW j \in Jobs, CreateScanJob(j) PROVE Ran'
  <2>1. /\ UNCHANGED <<authorised, ask, pc, cur, local>>
        /\ \A k \in Jobs : k # j => row'[k] = row[k] /\ hist'[k] = hist[k]
    BY <1>2, CreateScanJobFacts
  <2>2. hist'[j].ran = hist[j].ran /\ (row'[j].status = "completed" => row[j].status = "completed")
    <3>1. CASE row' = row /\ hist' = hist
      BY <3>1
    <3>2. CASE /\ row'[j] = QueuedRow
               /\ hist'[j] = [hist[j] EXCEPT !.cleared = authorised[ask[j].asset]]
      <4>1. hist'[j].ran = hist[j].ran
        BY <1>1, <3>2, ClearedFields
      <4>2. QueuedRow.status = "queued"
        BY DEF QueuedRow
      <4> QED BY <3>2, <4>1, <4>2
    <3> QED BY <1>2, <3>1, <3>2, CreateScanJobFacts
  <2> QED BY <2>1, <2>2, RanStep
<1>3. ASSUME NEW j \in Jobs, Enqueue(j) PROVE Ran'
  <2>1. UNCHANGED <<ask, row, hist, pc, cur, local>>
    BY <1>3 DEF Enqueue, db, worker
  <2> QED BY <2>1, RanStep
<1>4. ASSUME NEW a \in Assets, AuthorizeAsset(a) PROVE Ran'
  <2>1. UNCHANGED <<ask, row, pc, cur, local>>
    BY <1>4, AuthorizeAssetFacts
  <2>2. \A j \in Jobs : hist'[j] = hist[j] \/ hist'[j] = [hist[j] EXCEPT !.cleared = TRUE]
    BY <1>4, AuthorizeAssetFacts
  <2>3. ASSUME NEW j \in Jobs PROVE hist'[j].ran = hist[j].ran
    <3>1. CASE hist'[j] = hist[j]
      BY <3>1
    <3>2. CASE hist'[j] = [hist[j] EXCEPT !.cleared = TRUE]
      BY <1>1, <3>2, ClearedFields
    <3> QED BY <2>2, <3>1, <3>2
  <2> QED BY <2>1, <2>3, RanStep
<1>5. ASSUME NEW w \in Workers, Load(w) PROVE Ran'
  <2>1. /\ UNCHANGED <<authorised, ask, row, stored, hist>>
        /\ OthersKeep(w) /\ cur'[w] = cur[w] /\ cur[w] \in Jobs
    BY <1>5, LoadFacts
  <2>2. CASE Left(w)
    BY <2>1, <2>2, RanStep DEF OthersKeep, Left
  <2>3. CASE /\ pc'[w] = "mark"
             /\ local'[w] = [NoLocal EXCEPT !.auth = authorised[ask[cur[w]].asset],
                                            !.todo = ForProfile(ask[cur[w]].profile)]
    <3>1. /\ local'[w].todo = ForProfile(ask[cur[w]].profile)
          /\ ~(local'[w].left > 0) /\ ~(local'[w].total > 0)
      BY <2>3 DEF NoLocal
    <3> QED BY <2>1, <3>1 DEF Ran, CompletedRanSomething, RanOne, OthersKeep
  <2> QED BY <1>5, <2>2, <2>3, LoadFacts
<1>6. ASSUME NEW w \in Workers, MarkRunning(w) PROVE Ran'
  <2>1. PICK new : new = MarkRunningRow(row[cur[w]])
    OBVIOUS
  <2>2. /\ UNCHANGED <<authorised, ask, stored, hist>>
        /\ OthersKeep(w) /\ cur'[w] = cur[w] /\ cur[w] \in Jobs /\ pc[w] = "mark"
        /\ RowSet(w, new)
        /\ Left(w) \/ (pc'[w] = "scan" /\ local'[w] = local[w])
    BY <1>6, <2>1, MarkRunningFacts
  <2>3. new.status = "running"
    BY <1>1, <2>1, <2>2, RowFields
  <2>4. \A j \in Jobs : row'[j].status = "completed" => row[j].status = "completed"
    BY <2>2, <2>3, RowSetCompletes
  <2> QED BY <2>2, <2>4, RanStep DEF OthersKeep, Left, Inside
<1>7. ASSUME NEW w \in Workers, RunScanner(w) PROVE Ran'
  <2>1. /\ UNCHANGED <<authorised, ask, row, pc, cur>>
        /\ OthersKeep(w) /\ cur[w] \in Jobs /\ pc[w] = "scan" /\ local[w] \in Locals
        /\ \A j \in Jobs : j # cur[w] => hist'[j] = hist[j]
    BY <1>7, RunScannerFacts
  <2>2. PICK s, o : Ranned(w, s, o)
    BY <1>7, RunScannerFacts
  <2>3. PICK n : n = hist'[cur[w]]
    OBVIOUS
  <2>4. hist[cur[w]].ran \subseteq n.ran /\ (o.kind # "error" => s \in n.ran)
    BY <1>1, <2>1, <2>2, <2>3, NotedFields DEF Ranned
  <2>5. PICK m : m = local'[w]
    OBVIOUS
  <2>6. /\ local[w].errs \subseteq m.errs /\ (o.kind = "error" => s \in m.errs)
        /\ m.left = Yield(o) /\ m.total = local[w].total
    BY <2>1, <2>2, <2>5, AfterScanFields DEF Ranned
  <2>7. Yield(o) > 0 => o.kind \in Kinds /\ Applicable(s, ask[cur[w]].asset)
    <3>1. ask[cur[w]].asset \in Assets
      BY <1>1, <2>1
    <3> QED BY <2>2, <3>1, OutcomePolicy DEF Ranned
  <2>8. Yield(o) > 0 => RanOne(cur[w])'
    BY <2>1, <2>3, <2>4, <2>7 DEF RanOne, Kinds
  <2>9. \A j \in Jobs : RanOne(j) => RanOne(j)'
    BY <2>1, <2>3, <2>4 DEF RanOne
  <2>10. \A v \in Workers : pc[v] \in Inside => cur[v] \in Jobs
    BY DEF TInv, Holding, Busy, Inside
  <2>11. m.errs # {} \/ RanOne(cur[w])'
    <3>1. CASE local[w].todo = ForProfile(ask[cur[w]].profile)
      <4>1. s \in {"nmap", "nuclei"}
        BY <2>2, <3>1, FirstScanner DEF Ranned
      <4> QED BY <2>1, <2>3, <2>4, <2>6, <4>1 DEF RanOne, Applicable
    <3>2. CASE local[w].errs # {}
      BY <2>6, <3>2
    <3>3. CASE RanOne(cur[w])
      <4>1. PICK j \in Jobs : j = cur[w]
        BY <2>1
      <4>2. RanOne(j)'
        BY <2>9, <3>3, <4>1
      <4> QED BY <2>1, <4>1, <4>2 DEF RanOne
    <3> QED BY <2>1, <3>1, <3>2, <3>3 DEF Ran, Inside
  <2>12. m.left > 0 \/ m.total > 0 => RanOne(cur[w])'
    <3>1. CASE m.left > 0
      BY <2>6, <2>8, <3>1
    <3>2. CASE local[w].total > 0
      <4>1. PICK j \in Jobs : j = cur[w] /\ RanOne(j)
        BY <2>1, <3>2 DEF Ran, Inside
      <4>2. RanOne(j)'
        BY <2>9, <4>1
      <4> QED BY <2>1, <4>1, <4>2 DEF RanOne
    <3> QED BY <2>6, <3>1, <3>2
  <2>13. ASSUME NEW v \in Workers, v # w, pc'[v] \in Inside
         PROVE  /\ \/ local'[v].todo = ForProfile(ask'[cur'[v]].profile)
                   \/ local'[v].errs # {}
                   \/ RanOne(cur[v])'
                /\ local'[v].left > 0 \/ local'[v].total > 0 => RanOne(cur[v])'
    <3>1. PICK j \in Jobs : j = cur[v]
      BY <2>1, <2>10, <2>13
    <3>2. /\ \/ local[v].todo = ForProfile(ask[j].profile)
             \/ local[v].errs # {}
             \/ RanOne(j)
          /\ local[v].left > 0 \/ local[v].total > 0 => RanOne(j)
      BY <2>1, <2>13, <3>1 DEF Ran
    <3>3. RanOne(j)' => RanOne(cur[v])'
      BY <2>1, <3>1 DEF RanOne
    <3>4. local'[v] = local[v]
      BY <2>1, <2>13 DEF OthersKeep
    <3> QED BY <2>1, <2>9, <3>1, <3>2, <3>3, <3>4
  <2>14. CompletedRanSomething'
    BY <2>1, <2>9 DEF Ran, CompletedRanSomething, RanOne
  <2> QED BY <2>5, <2>11, <2>12, <2>13, <2>14 DEF Ran
<1>8. ASSUME NEW w \in Workers, CreateFinding(w) PROVE Ran'
  <2>1. \A j \in Jobs : hist'[j].ran = hist[j].ran
    BY <1>8, CreateFindingFacts, SkipKeeps
  <2> QED BY <1>8, <2>1, CreateFindingFacts, RanStep DEF OthersKeep
<1>9. ASSUME NEW w \in Workers, Finish(w) PROVE Ran'
  <2>1. PICK new : new = FinalRow(row[cur[w]], local[w])
    OBVIOUS
  <2>2. /\ UNCHANGED <<ask, hist>> /\ OthersKeep(w) /\ Left(w) /\ cur[w] \in Jobs
        /\ pc[w] = "scan" /\ local[w].todo = <<>>
        /\ RowSet(w, new)
    BY <1>9, <2>1, FinishFacts
  <2>3. new.status = "completed" => RanOne(cur[w])
    <3> SUFFICES ASSUME new.status = "completed" PROVE RanOne(cur[w])
      OBVIOUS
    <3>1. ~NothingButErrors(local[w])
      BY <1>1, <2>1, <2>2, RowFields
    <3>2. CASE local[w].total # 0
      <4>1. local[w].total > 0
        BY <1>1, <3>2 DEF Locals
      <4> QED BY <2>2, <4>1 DEF Ran, Inside
    <3>3. CASE local[w].errs = {}
      BY <2>2, <3>3, FirstScanner DEF Ran, Inside
    <3> QED BY <3>1, <3>2, <3>3 DEF NothingButErrors
  <2>4. \A j \in Jobs : row'[j].status = "completed" => row[j].status = "completed" \/ RanOne(j)
    BY <2>2, <2>3 DEF RowSet
  <2>5. CompletedRanSomething'
    BY <2>2, <2>4 DEF Ran, CompletedRanSomething, RanOne
  <2> QED BY <2>2, <2>5 DEF Ran, RanOne, OthersKeep, Left
<1>10. ASSUME NEW w \in Workers, RecordFailure(w) PROVE Ran'
  <2>1. PICK new : new = MarkFailedRow(row[cur[w]], "process error")
    OBVIOUS
  <2>2. /\ UNCHANGED <<ask, hist>> /\ OthersKeep(w) /\ Left(w) /\ cur[w] \in Jobs
        /\ RowSet(w, new)
    BY <1>10, <2>1, RecordFailureFacts
  <2>3. new.status = "failed"
    BY <1>1, <2>1, <2>2, RowFields
  <2>4. \A j \in Jobs : row'[j].status = "completed" => row[j].status = "completed"
    BY <2>2, <2>3, RowSetCompletes
  <2> QED BY <2>2, <2>4, RanStep DEF OthersKeep, Left
<1>11. ASSUME NEW w \in Workers, Kill(w) PROVE Ran'
  <2>1. \A j \in Jobs : hist'[j].ran = hist[j].ran
    BY <1>11, KillFacts, SkipKeeps
  <2> QED BY <1>11, <2>1, KillFacts, RanStep DEF OthersKeep, Left
<1>12. ASSUME NEW w \in Workers,
              Poll(w) \/ Dequeue(w) \/ DequeueNothing(w)
              \/ Deadline(w) \/ Sigterm(w) \/ Restart(w)
       PROVE  Ran'
  BY <1>12, QuietFacts, RanStep
<1>13. CASE UNCHANGED vars
  BY <1>13, RanStep DEF vars, worker
<1>14. Governed \subseteq Assets
  BY PipelineAssumption
<1> QED BY <1>2, <1>3, <1>4, <1>5, <1>6, <1>7, <1>8, <1>9, <1>10, <1>11, <1>12, <1>13, <1>14
        DEF Next, WorkerStep

\* A job is recorded completed only when a scanner that applies to its asset returned a
\* report, for every profile, however often the job is delivered and whatever fails.
THEOREM CompletedRan == Spec => []CompletedRanSomething
<1>1. Ran => CompletedRanSomething
  BY DEF Ran
<1>2. Spec => []Ran
  BY TypeInvariant, FreshInvariant, BornInvariant, InitRan, StepRan, PTL DEF Spec
<1> QED BY <1>1, <1>2, PTL

-----------------------------------------------------------------------------
(* Process loses no finding that normalize hands on.                       *)

LEMMA InitAccounted == Init => Accounted
<1> SUFFICES ASSUME Init PROVE Accounted
  OBVIOUS
<1>1. \A j \in Jobs : hist[j].hit = {}
  BY DEF Init, NoHistory
<1> QED BY <1>1 DEF Accounted

\* A step that brings no report, and stores or skips the findings it takes away.
LEMMA AccountedStep ==
  ASSUME TInv, Accounted,
         \A j \in Jobs : /\ stored[j] \subseteq stored'[j]
                         /\ hist'[j].hit = hist[j].hit
                         /\ hist[j].skipped => hist'[j].skipped,
         \A w \in Workers : pc[w] = "scan" /\ local[w].left > 0 =>
           \/ pc'[w] = "scan" /\ cur'[w] = cur[w] /\ local'[w].left > 0
           \/ stored'[cur[w]] # {} \/ hist'[cur[w]].skipped
  PROVE  Accounted'
<1> SUFFICES ASSUME NEW j \in Jobs, hist'[j].hit # {}
             PROVE  \/ stored'[j] # {} \/ hist'[j].skipped
                    \/ \E w \in Workers : pc'[w] = "scan" /\ cur'[w] = j /\ local'[w].left > 0
  BY DEF Accounted
<1>1. CASE stored[j] # {} \/ hist[j].skipped
  BY <1>1
<1>2. CASE \E w \in Workers : pc[w] = "scan" /\ cur[w] = j /\ local[w].left > 0
  BY <1>2
<1> QED BY <1>1, <1>2 DEF Accounted

LEMMA StepAccounted == TInv /\ Fresh /\ Born /\ Accounted /\ [Next]_vars => Accounted'
<1> SUFFICES ASSUME TInv, Fresh, Born, Accounted, [Next]_vars PROVE Accounted'
  OBVIOUS
<1>1. \A j \in Jobs : hist[j] \in Histories
  BY DEF TInv, ApiType
<1>2. ASSUME NEW j \in Jobs, CreateScanJob(j) PROVE Accounted'
  <2>1. /\ UNCHANGED <<stored, pc, cur, local>>
        /\ \A k \in Jobs : k # j => hist'[k] = hist[k]
    BY <1>2, CreateScanJobFacts
  <2>2. hist'[j].hit = hist[j].hit /\ hist'[j].skipped = hist[j].skipped
    <3>1. CASE hist' = hist
      BY <3>1
    <3>2. CASE hist'[j] = [hist[j] EXCEPT !.cleared = authorised[ask[j].asset]]
      BY <1>1, <3>2, ClearedFields
    <3> QED BY <1>2, <3>1, <3>2, CreateScanJobFacts
  <2> QED BY <2>1, <2>2, AccountedStep
<1>3. ASSUME NEW j \in Jobs, Enqueue(j) PROVE Accounted'
  <2>1. UNCHANGED <<stored, hist, pc, cur, local>>
    BY <1>3 DEF Enqueue, db, worker
  <2> QED BY <2>1, AccountedStep
<1>4. ASSUME NEW a \in Assets, AuthorizeAsset(a) PROVE Accounted'
  <2>1. UNCHANGED <<stored, pc, cur, local>>
    BY <1>4, AuthorizeAssetFacts
  <2>2. \A j \in Jobs : hist'[j] = hist[j] \/ hist'[j] = [hist[j] EXCEPT !.cleared = TRUE]
    BY <1>4, AuthorizeAssetFacts
  <2>3. ASSUME NEW j \in Jobs
        PROVE  hist'[j].hit = hist[j].hit /\ hist'[j].skipped = hist[j].skipped
    <3>1. CASE hist'[j] = hist[j]
      BY <3>1
    <3>2. CASE hist'[j] = [hist[j] EXCEPT !.cleared = TRUE]
      BY <1>1, <3>2, ClearedFields
    <3> QED BY <2>2, <3>1, <3>2
  <2> QED BY <2>1, <2>3, AccountedStep
<1>5. ASSUME NEW w \in Workers, Load(w) PROVE Accounted'
  BY <1>5, LoadFacts, AccountedStep DEF OthersKeep
<1>6. ASSUME NEW w \in Workers, MarkRunning(w) PROVE Accounted'
  BY <1>6, MarkRunningFacts, AccountedStep DEF OthersKeep
<1>7. ASSUME NEW w \in Workers, RunScanner(w) PROVE Accounted'
  <2>1. /\ UNCHANGED <<stored, pc, cur>>
        /\ OthersKeep(w) /\ cur[w] \in Jobs /\ pc[w] = "scan" /\ local[w] \in Locals
        /\ local[w].left = 0
        /\ \A j \in Jobs : j # cur[w] => hist'[j] = hist[j]
    BY <1>7, RunScannerFacts
  <2>2. PICK s, o : Ranned(w, s, o)
    BY <1>7, RunScannerFacts
  <2>3. PICK n : n = hist'[cur[w]]
    OBVIOUS
  <2>4. n.skipped = hist[cur[w]].skipped /\ (n.hit = hist[cur[w]].hit \/ Yield(o) > 0)
    BY <1>1, <2>1, <2>2, <2>3, NotedFields DEF Ranned
  <2>5. local'[w].left = Yield(o)
    BY <2>1, <2>2, AfterScanFields DEF Ranned
  <2>6. \A v \in Workers : pc[v] = "scan" /\ local[v].left > 0 =>
          pc'[v] = "scan" /\ cur'[v] = cur[v] /\ local'[v].left > 0
    BY <2>1 DEF OthersKeep
  <2>7. CASE n.hit = hist[cur[w]].hit
    BY <2>1, <2>3, <2>4, <2>6, <2>7, AccountedStep
  <2>8. CASE Yield(o) > 0
    <3>1. ASSUME NEW j \in Jobs, hist'[j].hit # {}
          PROVE  \/ stored'[j] # {} \/ hist'[j].skipped
                 \/ \E v \in Workers : pc'[v] = "scan" /\ cur'[v] = j /\ local'[v].left > 0
      <4>1. CASE j = cur[w]
        BY <2>1, <2>5, <2>8, <4>1
      <4>2. CASE j # cur[w]
        BY <2>1, <2>6, <3>1, <4>2 DEF Accounted
      <4> QED BY <4>1, <4>2
    <3> QED BY <3>1 DEF Accounted
  <2> QED BY <2>4, <2>7, <2>8
<1>8. ASSUME NEW w \in Workers, CreateFinding(w) PROVE Accounted'
  <2>1. \A j \in Jobs : hist'[j].hit = hist[j].hit /\ (hist[j].skipped => hist'[j].skipped)
    BY <1>8, CreateFindingFacts, SkipKeeps
  <2>2. /\ \A j \in Jobs : stored[j] \subseteq stored'[j]
        /\ stored'[cur[w]] # {} \/ hist'[cur[w]].skipped
    BY <1>8, CreateFindingFacts
  <2> QED BY <1>8, <2>1, <2>2, CreateFindingFacts, AccountedStep DEF OthersKeep
<1>9. ASSUME NEW w \in Workers, Finish(w) PROVE Accounted'
  BY <1>9, FinishFacts, AccountedStep DEF OthersKeep
<1>10. ASSUME NEW w \in Workers, RecordFailure(w) PROVE Accounted'
  BY <1>10, RecordFailureFacts, AccountedStep DEF OthersKeep
<1>11. ASSUME NEW w \in Workers, Kill(w) PROVE Accounted'
  <2>1. \A j \in Jobs : hist'[j].hit = hist[j].hit /\ (hist[j].skipped => hist'[j].skipped)
    BY <1>11, KillFacts, SkipKeeps
  <2> QED BY <1>11, <2>1, KillFacts, AccountedStep DEF OthersKeep
<1>12. ASSUME NEW w \in Workers,
              Poll(w) \/ Dequeue(w) \/ DequeueNothing(w)
              \/ Deadline(w) \/ Sigterm(w) \/ Restart(w)
       PROVE  Accounted'
  BY <1>12, QuietFacts, AccountedStep DEF Inside
<1>13. CASE UNCHANGED vars
  BY <1>13, AccountedStep DEF vars, worker
<1>14. Governed \subseteq Assets
  BY PipelineAssumption
<1> QED BY <1>2, <1>3, <1>4, <1>5, <1>6, <1>7, <1>8, <1>9, <1>10, <1>11, <1>12, <1>13, <1>14
        DEF Next, WorkerStep

\* One worker process at a time.
OneWorker == \A v, w \in Workers : v = w

\* The row of a job that is being scanned says so, however often it was delivered.
Scanning == \A w \in Workers : pc[w] = "scan" => row[cur[w]].status = "running"

\* A step that leaves alone the rows of the jobs being scanned.
LEMMA ScanningStep ==
  ASSUME Scanning,
         \A w \in Workers : pc'[w] = "scan" =>
           pc[w] = "scan" /\ cur'[w] = cur[w] /\ row'[cur[w]] = row[cur[w]]
  PROVE  Scanning'
  BY DEF Scanning

LEMMA StepScanning ==
  ASSUME OneWorker, TInv, Fresh, Born, Scanning, [Next]_vars PROVE Scanning'
<1>1. \A w \in Workers : pc[w] = "scan" => cur[w] \in Jobs
  BY DEF TInv, Holding, Busy
<1>2. ASSUME NEW j \in Jobs, CreateScanJob(j) PROVE Scanning'
  <2>1. /\ UNCHANGED <<pc, cur>> /\ row[j].status = "absent"
        /\ \A k \in Jobs : k # j => row'[k] = row[k]
    BY <1>2, CreateScanJobFacts
  <2>2. \A w \in Workers : pc[w] = "scan" => cur[w] # j
    BY <2>1 DEF Scanning
  <2> QED BY <1>1, <2>1, <2>2, ScanningStep
<1>3. ASSUME NEW j \in Jobs, Enqueue(j) PROVE Scanning'
  BY <1>3, ScanningStep DEF Enqueue, db, worker
<1>4. ASSUME NEW a \in Assets, AuthorizeAsset(a) PROVE Scanning'
  BY <1>4, AuthorizeAssetFacts, ScanningStep
<1>5. ASSUME NEW w \in Workers, MarkRunning(w) PROVE Scanning'
  <2>1. \A v \in Workers : v = w
    BY DEF OneWorker
  <2>2. cur'[w] = cur[w] /\ row[cur[w]] \in Rows
    BY <1>5, MarkRunningFacts DEF TInv, DbType
  <2>3. Left(w) \/ (pc'[w] = "scan" /\ row'[cur[w]] = MarkRunningRow(row[cur[w]]))
    BY <1>5, MarkRunningFacts
  <2>4. MarkRunningRow(row[cur[w]]).status = "running"
    BY <2>2 DEF Rows, MarkRunningRow
  <2> QED BY <2>1, <2>2, <2>3, <2>4 DEF Scanning, Left, Inside
<1>6. ASSUME NEW w \in Workers,
              Load(w) \/ Finish(w) \/ RecordFailure(w) \/ Kill(w)
       PROVE  Scanning'
  <2>1. \A v \in Workers : v = w
    BY DEF OneWorker
  <2>2. pc'[w] # "scan"
    BY <1>6, LoadFacts, FinishFacts, RecordFailureFacts, KillFacts DEF Left, Inside
  <2> QED BY <2>1, <2>2 DEF Scanning
<1>7. ASSUME NEW w \in Workers, RunScanner(w) PROVE Scanning'
  BY <1>7, RunScannerFacts, ScanningStep
<1>8. ASSUME NEW w \in Workers, CreateFinding(w) PROVE Scanning'
  BY <1>8, CreateFindingFacts, ScanningStep
<1>9. ASSUME NEW w \in Workers,
              Poll(w) \/ Dequeue(w) \/ DequeueNothing(w)
              \/ Deadline(w) \/ Sigterm(w) \/ Restart(w)
       PROVE  Scanning'
  BY <1>9, QuietFacts, ScanningStep DEF Inside
<1>10. CASE UNCHANGED vars
  BY <1>10, ScanningStep DEF vars, db, worker
<1>11. Governed \subseteq Assets
  BY PipelineAssumption
<1> QED BY <1>2, <1>3, <1>4, <1>5, <1>6, <1>7, <1>8, <1>9, <1>10, <1>11
        DEF Next, WorkerStep

LEMMA ScanningClean == Scanning /\ Accounted => CleanMeansNothingFound
<1> SUFFICES ASSUME Scanning, Accounted, NEW j \in Jobs, row[j].status = "completed",
                    stored[j] = {}, hist[j].hit # {}
             PROVE  hist[j].skipped
  BY DEF CleanMeansNothingFound
<1> QED BY DEF Scanning, Accounted

\* Of a job recorded completed without findings, normalize (which may have refused a
\* report) handed none on, or an insertion failed, provided that there is one worker or
\* no LPUSH is sent twice.  (With two workers on one job, one may complete it while the
\* other still holds a report.)
THEOREM CleanIsClean ==
  "retry" \notin Faults \/ OneWorker => (Spec => []CleanMeansNothingFound)
<1>1. Spec => []Accounted
  BY TypeInvariant, FreshInvariant, BornInvariant, InitAccounted, StepAccounted, PTL DEF Spec
<1>2. ASSUME NeverTwice PROVE Spec => []CleanMeansNothingFound
  <2>1. Owned => Scanning
    BY DEF Owned, StageOfRow, Scanning
  <2>2. Spec => []Owned
    BY <1>2, OwnedInvariant
  <2> QED BY <1>1, <2>1, <2>2, ScanningClean, PTL
<1>3. ASSUME OneWorker PROVE Spec => []CleanMeansNothingFound
  <2>1. Init => Scanning
    BY DEF Init, Scanning
  <2>2. TInv /\ Fresh /\ Born /\ Scanning /\ [Next]_vars => Scanning'
    BY <1>3, StepScanning
  <2>3. Spec => []Scanning
    BY <2>1, <2>2, TypeInvariant, FreshInvariant, BornInvariant, PTL DEF Spec
  <2> QED BY <1>1, <2>3, ScanningClean, PTL
<1> QED BY <1>2, <1>3 DEF NeverTwice

-----------------------------------------------------------------------------
(* Canned data is declared.                                                *)

LEMMA InitDeclared == Init => Declared
<1> SUFFICES ASSUME Init PROVE Declared
  OBVIOUS
<1>1. \A j \in Jobs : row[j].status = "absent"
  BY DEF Init
<1>2. \A w \in Workers : pc[w] = "poll"
  BY DEF Init
<1> QED BY <1>1, <1>2 DEF Declared, MockIsDeclared

\* A step that neither stores nor completes, and leaves Process's loop where it is.
LEMMA DeclaredStep ==
  ASSUME TInv, Declared, UNCHANGED stored,
         \A j \in Jobs : row'[j].status = "completed" => row'[j] = row[j],
         \A w \in Workers : pc'[w] = "scan" =>
           pc[w] = "scan" /\ cur'[w] = cur[w] /\ local'[w] = local[w]
  PROVE  Declared'
  BY DEF Declared, MockIsDeclared, MockStored

LEMMA RowSetDeclares ==
  ASSUME NEW w \in Workers, cur[w] \in Jobs, NEW new, new.status # "completed", RowSet(w, new)
  PROVE  \A j \in Jobs : row'[j].status = "completed" => row'[j] = row[j]
  BY DEF RowSet

LEMMA StepDeclared ==
  TInv /\ Fresh /\ Born /\ Owned /\ Declared /\ [Next]_vars => Declared'
<1> SUFFICES ASSUME TInv, Fresh, Born, Owned, Declared, [Next]_vars PROVE Declared'
  OBVIOUS
<1>1. /\ \A j \in Jobs : row[j] \in Rows
      /\ \A w \in Workers : local[w] \in Locals
  BY DEF TInv, DbType, WorkerType
<1>2. ASSUME NEW j \in Jobs, CreateScanJob(j) PROVE Declared'
  <2>1. /\ UNCHANGED <<stored, pc, cur, local>>
        /\ \A k \in Jobs : row'[k] = row[k] \/ row'[k] = QueuedRow
    BY <1>2, CreateScanJobFacts
  <2>2. QueuedRow.status = "queued"
    BY DEF QueuedRow
  <2> QED BY <2>1, <2>2, DeclaredStep
<1>3. ASSUME NEW j \in Jobs, Enqueue(j) PROVE Declared'
  <2>1. UNCHANGED <<row, stored, pc, cur, local>>
    BY <1>3 DEF Enqueue, db, worker
  <2> QED BY <2>1, DeclaredStep
<1>4. ASSUME NEW a \in Assets, AuthorizeAsset(a) PROVE Declared'
  BY <1>4, AuthorizeAssetFacts, DeclaredStep
<1>5. ASSUME NEW w \in Workers, Load(w) PROVE Declared'
  <2>1. UNCHANGED <<row, stored>> /\ OthersKeep(w) /\ pc'[w] # "scan"
    BY <1>5, LoadFacts DEF Left, Inside
  <2> QED BY <2>1, DeclaredStep DEF OthersKeep
<1>6. ASSUME NEW w \in Workers, MarkRunning(w) PROVE Declared'
  <2>1. PICK new : new = MarkRunningRow(row[cur[w]])
    OBVIOUS
  <2>2. /\ UNCHANGED stored
        /\ OthersKeep(w) /\ cur'[w] = cur[w] /\ cur[w] \in Jobs /\ pc[w] = "mark"
        /\ RowSet(w, new)
        /\ Left(w) \/ (pc'[w] = "scan" /\ local'[w] = local[w])
    BY <1>6, <2>1, MarkRunningFacts
  <2>3. new.status = "running"
    BY <1>1, <2>1, <2>2, RowFields
  <2>4. \A j \in Jobs : row'[j].status = "completed" => row'[j] = row[j]
    BY <2>2, <2>3, RowSetDeclares
  <2>5. stored[cur[w]] = {}
    <3>1. row[cur[w]].status = "queued"
      BY <2>2 DEF Owned, StageOfRow
    <3> QED BY <2>2, <3>1 DEF Born, FindingsOnlyOfStartedJobs
  <2>6. local[w].left = 0
    BY <2>2 DEF Fresh
  <2>7. CASE Left(w)
    BY <2>2, <2>4, <2>7, DeclaredStep DEF OthersKeep, Left, Inside
  <2>8. CASE pc'[w] = "scan" /\ local'[w] = local[w]
    <3>1. MockIsDeclared'
      BY <2>2, <2>4 DEF Declared, MockIsDeclared
    <3>2. ASSUME NEW v \in Workers, pc'[v] = "scan"
          PROVE  /\ MockStored(cur[v])' => local'[v].usedMock
                 /\ local'[v].left > 0 /\ local'[v].from[2] = "mock" => local'[v].usedMock
      <4>1. CASE v = w
        <5>1. ~MockStored(cur[w])' /\ ~(local'[w].left > 0)
          BY <2>2, <2>5, <2>6, <2>8 DEF MockStored
        <5> QED BY <4>1, <5>1
      <4>2. CASE v # w
        BY <2>2, <3>2, <4>2 DEF Declared, MockStored, OthersKeep
      <4> QED BY <4>1, <4>2
    <3> QED BY <3>1, <3>2 DEF Declared
  <2> QED BY <2>2, <2>7, <2>8
<1>7. ASSUME NEW w \in Workers, RunScanner(w) PROVE Declared'
  <2>1. /\ UNCHANGED <<row, stored, pc, cur>>
        /\ OthersKeep(w) /\ cur[w] \in Jobs /\ pc[w] = "scan" /\ local[w] \in Locals
        /\ local[w].left = 0
    BY <1>7, RunScannerFacts
  <2>2. PICK s, o : Ranned(w, s, o)
    BY <1>7, RunScannerFacts
  <2>3. PICK m : m = local'[w]
    OBVIOUS
  <2>4. /\ m.usedMock <=> local[w].usedMock \/ o.kind = "mock"
        /\ m.left = Yield(o) /\ (Yield(o) > 0 => m.from = <<s, o.kind>>)
    BY <2>1, <2>2, <2>3, AfterScanFields DEF Ranned
  <2>5. m.left > 0 /\ m.from[2] = "mock" => m.usedMock
    <3> SUFFICES ASSUME m.left > 0, m.from[2] = "mock" PROVE o.kind = "mock"
      BY <2>4
    <3>1. m.from = <<s, o.kind>>
      BY <2>4
    <3> QED BY <3>1
  <2>6. local[w].usedMock => m.usedMock
    BY <2>4
  <2> QED BY <2>1, <2>3, <2>5, <2>6 DEF Declared, MockIsDeclared, MockStored, OthersKeep
<1>8. ASSUME NEW w \in Workers, CreateFinding(w) PROVE Declared'
  <2>1. /\ UNCHANGED <<row, pc, cur>>
        /\ OthersKeep(w) /\ cur[w] \in Jobs /\ pc[w] = "scan" /\ local[w] \in Locals
        /\ local[w].left > 0 /\ local'[w].from = local[w].from
        /\ local'[w].usedMock = local[w].usedMock
        /\ \A j \in Jobs : j # cur[w] => stored'[j] = stored[j]
        /\ stored'[cur[w]] \in {stored[cur[w]], stored[cur[w]] \cup {local[w].from}}
    BY <1>8, CreateFindingFacts
  <2>2. \A v \in Workers : v # w => cur[v] # cur[w]
    BY <2>1, PipelineAssumption DEF Owned, SingleDelivery
  <2>3. row[cur[w]].status = "running"
    BY <2>1 DEF Owned, StageOfRow
  <2>4. MockStored(cur[w])' => local[w].usedMock
    <3> SUFFICES ASSUME NEW s \in Scanners, <<s, "mock">> \in stored'[cur[w]]
                 PROVE  local[w].usedMock
      BY <2>1 DEF MockStored
    <3>1. CASE <<s, "mock">> \in stored[cur[w]]
      BY <2>1, <3>1 DEF Declared, MockStored
    <3>2. CASE <<s, "mock">> = local[w].from
      <4>1. local[w].from[2] = "mock"
        BY <3>2
      <4> QED BY <2>1, <4>1 DEF Declared
    <3> QED BY <2>1, <3>1, <3>2
  <2>5. MockIsDeclared'
    BY <2>1, <2>3 DEF Declared, MockIsDeclared
  <2>6. ASSUME NEW v \in Workers, pc'[v] = "scan"
        PROVE  /\ MockStored(cur[v])' => local'[v].usedMock
               /\ local'[v].left > 0 /\ local'[v].from[2] = "mock" => local'[v].usedMock
    <3>1. CASE v = w
      <4>1. local[w].from[2] = "mock" => local[w].usedMock
        BY <2>1 DEF Declared
      <4> QED BY <2>1, <2>4, <3>1, <4>1
    <3>2. CASE v # w
      <4>1. cur[v] \in Jobs
        BY <2>1, <2>6 DEF TInv, Holding, Busy
      <4>2. stored'[cur[v]] = stored[cur[v]]
        BY <2>1, <2>2, <3>2, <4>1
      <4> QED BY <2>1, <2>6, <3>2, <4>2 DEF Declared, MockStored, OthersKeep
    <3> QED BY <3>1, <3>2
  <2> QED BY <2>5, <2>6 DEF Declared
<1>9. ASSUME NEW w \in Workers, Finish(w) PROVE Declared'
  <2>1. PICK new : new = FinalRow(row[cur[w]], local[w])
    OBVIOUS
  <2>2. /\ UNCHANGED stored /\ OthersKeep(w) /\ Left(w) /\ cur[w] \in Jobs
        /\ pc[w] = "scan"
        /\ RowSet(w, new)
    BY <1>9, <2>1, FinishFacts
  <2>3. new.status = "completed" => new.usedMock = local[w].usedMock
    BY <1>1, <2>1, <2>2, RowFields
  <2>4. MockStored(cur[w]) => local[w].usedMock
    BY <2>2 DEF Declared
  <2>5. ASSUME NEW j \in Jobs, row'[j].status = "completed", MockStored(j)
        PROVE  row'[j].usedMock
    <3>1. CASE row'[j] = row[j]
      BY <2>5, <3>1 DEF Declared, MockIsDeclared, MockStored
    <3>2. CASE j = cur[w] /\ row'[j] = new
      BY <2>3, <2>4, <2>5, <3>2
    <3> QED BY <2>2, <3>1, <3>2 DEF RowSet
  <2>6. MockIsDeclared'
    BY <2>2, <2>5 DEF MockIsDeclared, MockStored
  <2> QED BY <2>2, <2>6 DEF Declared, MockStored, OthersKeep, Left, Inside
<1>10. ASSUME NEW w \in Workers, RecordFailure(w) PROVE Declared'
  <2>1. PICK new : new = MarkFailedRow(row[cur[w]], "process error")
    OBVIOUS
  <2>2. /\ UNCHANGED stored /\ OthersKeep(w) /\ Left(w) /\ cur[w] \in Jobs
        /\ RowSet(w, new)
    BY <1>10, <2>1, RecordFailureFacts
  <2>3. new.status = "failed"
    BY <1>1, <2>1, <2>2, RowFields
  <2>4. \A j \in Jobs : row'[j].status = "completed" => row'[j] = row[j]
    BY <2>2, <2>3, RowSetDeclares
  <2> QED BY <2>2, <2>4, DeclaredStep DEF OthersKeep, Left, Inside
<1>11. ASSUME NEW w \in Workers, Kill(w) PROVE Declared'
  BY <1>11, KillFacts, DeclaredStep DEF OthersKeep, Left, Inside
<1>12. ASSUME NEW w \in Workers,
              Poll(w) \/ Dequeue(w) \/ DequeueNothing(w)
              \/ Deadline(w) \/ Sigterm(w) \/ Restart(w)
       PROVE  Declared'
  BY <1>12, QuietFacts, DeclaredStep DEF Inside
<1>13. CASE UNCHANGED vars
  BY <1>13, DeclaredStep DEF vars, worker
<1>14. Governed \subseteq Assets
  BY PipelineAssumption
<1> QED BY <1>2, <1>3, <1>4, <1>5, <1>6, <1>7, <1>8, <1>9, <1>10, <1>11, <1>12, <1>13, <1>14
        DEF Next, WorkerStep

\* Unless an LPUSH is sent twice: a completed job with a canned finding says so, also when
\* only one of its scanners fell back and whatever failed or died meanwhile.
THEOREM MockDeclared == "retry" \notin Faults => (Spec => []MockIsDeclared)
<1>1. ASSUME NeverTwice PROVE Spec => []MockIsDeclared
  <2>1. Declared => MockIsDeclared
    BY DEF Declared
  <2>2. Spec => []Owned
    BY <1>1, OwnedInvariant
  <2>3. Spec => []Declared
    BY <2>2, TypeInvariant, FreshInvariant, BornInvariant, InitDeclared, StepDeclared,
       PTL DEF Spec
  <2> QED BY <2>1, <2>3, PTL
<1> QED BY <1>1 DEF NeverTwice
=============================================================================
