---------------------------- MODULE ScanPipeline ----------------------------
(***************************************************************************)
(* The scan pipeline: POST /assets/{id}/scans inserts a scan_jobs row and  *)
(* pushes its id on a Redis list; worker processes pop ids and run         *)
(* Processor.Process, which updates the row and inserts findings.          *)
(*                                                                         *)
(* This is the deployment without Neo4j (Processor.graph = nil).  A job is *)
(* identified with the startScan request that draws its UUID, so req[j] is *)
(* the progress of that request and ask[j] its content.  Every call to     *)
(* PostgreSQL or Redis can be lost (error, not applied) or unknown (error, *)
(* applied); a worker can be terminated or killed between any two steps.   *)
(***************************************************************************)
EXTENDS ScannerAdapters

CONSTANTS
  Jobs,      \* UUIDs of scan jobs, one per startScan request
  Workers,   \* worker processes (cmd/worker)
  NoJob,     \* a worker holds no job
  Faults,    \* the failures of the environment that can happen
  Asked,     \* bound: profiles the requests name
  Governed,  \* bound: assets whose authorization is given or changed
  MaxStops   \* bound: SIGTERMs and kills of workers

FaultKinds == {
  "db",         \* a query of the API or of Process fails
  "db_at_end",  \* the worker's last MarkFailed fails
  "redis",      \* LPUSH or BRPOP fails
  "lost_pop",   \* BRPOP pops but its reply is lost
  "retry",      \* go-redis retries an LPUSH whose reply was lost
  "deadline",   \* the scan timeout expires
  "sigterm",    \* a worker is asked to stop
  "kill" }      \* a worker dies

ASSUME PipelineAssumption ==
  /\ NoJob \notin Jobs
  /\ Faults \subseteq FaultKinds
  /\ Asked \subseteq Profiles
  /\ Governed \subseteq Assets
  /\ MaxStops \in Nat

VARIABLES
  authorised, \* assets.scan_authorized
  ask,        \* asset and profile each request names
  req,        \* startScan: "none", "created", "accepted" (202), "refused" (500)
  row,        \* scan_jobs
  stored,     \* findings: the <<scanner, kind>> pairs stored for each job
  queue,      \* the Redis list, next to pop first
  pc,         \* where each worker is
  cur,        \* the job each worker processes
  ctx,        \* its context: "live", "expired" (scanCtx only) or "cancelled"
  local,      \* the local variables of its call of Process
  stops,      \* SIGTERMs and kills so far
  hist        \* history: what the scanners did for each job

db     == <<row, stored>>
api    == <<authorised, ask, req>>
worker == <<pc, cur, ctx, local>>
vars   == <<authorised, ask, req, row, stored, queue, worker, stops, hist>>

Statuses == {"absent", "queued", "running", "completed", "failed"}
Terminal == {"completed", "failed"}
Errors   == {"", "all scanners failed", "process error"}
Rows     == [status : Statuses, error : Errors, usedMock : BOOLEAN]
Kinds    == {"mock", "live"}
Pairs    == Scanners \X Kinds
PCs      == {"down", "poll", "pop", "load", "mark", "scan", "fail"}

\* todo: the scanners left; left findings of the report "from" are not stored
\* yet; total, errs and usedMock are Process's accumulators.
Locals == [auth : BOOLEAN, todo : Seq(Scanners), from : Pairs, left : 0..MaxFindings,
           total : Nat, errs : SUBSET Scanners, usedMock : BOOLEAN]
NoLocal == [auth |-> FALSE, todo |-> <<>>, from |-> <<"nmap", "live">>, left |-> 0,
            total |-> 0, errs |-> {}, usedMock |-> FALSE]

\* ran: scanners that returned a report; hit: those whose findings normalize handed
\* on; refused: those whose report held findings but normalize refused it; missed:
\* those that returned an error; touched: the addresses their tools contacted;
\* skipped: a finding handed on was not stored, since the insertion failed or the
\* worker died; cleared: the asset was authorised at some time of the job's life.
Histories == [ran : SUBSET Scanners, hit : SUBSET Scanners, refused : SUBSET Scanners,
              missed : SUBSET Scanners, touched : SUBSET Addresses,
              skipped : BOOLEAN, cleared : BOOLEAN]
NoHistory == [ran |-> {}, hit |-> {}, refused |-> {}, missed |-> {}, touched |-> {},
              skipped |-> FALSE, cleared |-> FALSE]

TypeOK ==
  /\ authorised \in [Assets -> BOOLEAN]
  /\ ask \in [Jobs -> [asset : Assets, profile : Profiles]]
  /\ req \in [Jobs -> {"none", "created", "accepted", "refused"}]
  /\ row \in [Jobs -> Rows]
  /\ stored \in [Jobs -> SUBSET Pairs]
  /\ queue \in Seq(Jobs)
  /\ pc \in [Workers -> PCs]
  /\ cur \in [Workers -> Jobs \cup {NoJob}]
  /\ ctx \in [Workers -> {"live", "expired", "cancelled"}]
  /\ local \in [Workers -> Locals]
  /\ stops \in 0..MaxStops
  /\ hist \in [Jobs -> Histories]

\* Assets exist before the jobs that scan them (createAsset), authorised or not.
Init ==
  /\ \E g \in SUBSET Governed : authorised = [a \in Assets |-> a \in g]
  /\ ask \in [Jobs -> [asset : Assets, profile : Asked]]
  /\ req = [j \in Jobs |-> "none"]
  /\ row = [j \in Jobs |-> [status |-> "absent", error |-> "", usedMock |-> FALSE]]
  /\ stored = [j \in Jobs |-> {}]
  /\ queue = <<>>
  /\ pc = [w \in Workers |-> "poll"]
  /\ cur = [w \in Workers |-> NoJob]
  /\ ctx = [w \in Workers |-> "live"]
  /\ local = [w \in Workers |-> NoLocal]
  /\ stops = 0
  /\ hist = [j \in Jobs |-> NoHistory]

-----------------------------------------------------------------------------
(* Calls to the database, and the statements the store sends.              *)

Applied(r) == r # "lost"

\* A call under a context that is done fails before it reaches the server.
Results(fault, alive) ==
  IF ~alive THEN {"lost"}
  ELSE {"ok"} \cup (IF fault \in Faults THEN {"lost", "unknown"} ELSE {})

QueuedRow        == [status |-> "queued", error |-> "", usedMock |-> FALSE]
MarkRunningRow(r)       == [r EXCEPT !.status = "running"]
MarkCompletedRow(r, um) == [r EXCEPT !.status = "completed", !.usedMock = um]
MarkFailedRow(r, e)     == [r EXCEPT !.status = "failed", !.error = e]

Update(j, r, new) == row' = IF Applied(r) THEN [row EXCEPT ![j] = new] ELSE row

\* The context of a worker ends with SIGTERM, that of its last MarkFailed never.
CtxAlive(w)        == ctx[w] # "cancelled"
BackgroundAlive(w) == TRUE

\* The decisions the code takes on results, each after its mutants.
InsertedAnyway(r)  == TRUE
Inserted(r)        == r = "ok"

StartedAnyway(r)   == TRUE
Started(r)         == r = "ok"

Peek(q)            == q
Pop(q)             == Tail(q)

LastIsMock(l, o)   == o.kind = "mock"
AnyIsMock(l, o)    == l.usedMock \/ o.kind = "mock"

OneTooFar(l)       == l.left >= 0
OneTooFew(l)       == l.left > 1
MoreToStore(l)     == l.left > 0

EveryErrored(l)    == l.total = 0 /\ l.errs = Scanners
NothingButErrors(l) == l.total = 0 /\ l.errs # {}

-----------------------------------------------------------------------------
(* The API.                                                                *)

\* The row first, then the queue: an error of the second call leaves an orphan.
CreateScanJob(j) ==
  /\ req[j] = "none"
  /\ \E r \in Results("db", TRUE) :
       /\ Update(j, r, QueuedRow)
       /\ req' = [req EXCEPT ![j] = IF Inserted(r) THEN "created" ELSE "refused"]
       /\ hist' = IF Applied(r)
                  THEN [hist EXCEPT ![j].cleared = authorised[ask[j].asset]]
                  ELSE hist
  /\ UNCHANGED <<authorised, ask, stored, queue, worker, stops>>

PushResults == Results("redis", TRUE) \cup
               (IF "retry" \in Faults THEN {"twice"} ELSE {})

Enqueue(j) ==
  /\ req[j] = "created"
  /\ \E r \in PushResults :
       /\ queue' = CASE r = "lost"  -> queue
                     [] r = "twice" -> queue \o <<j, j>>
                     [] OTHER       -> Append(queue, j)
       /\ req' = [req EXCEPT ![j] = IF r \in {"ok", "twice"} THEN "accepted" ELSE "refused"]
  /\ UNCHANGED <<authorised, ask, db, worker, stops, hist>>

AuthorizeAsset(a) ==
  /\ authorised' = [authorised EXCEPT ![a] = ~@]
  /\ hist' = [j \in Jobs |->
                IF ask[j].asset = a /\ row[j].status # "absent" /\ ~authorised[a]
                THEN [hist[j] EXCEPT !.cleared = TRUE] ELSE hist[j]]
  /\ UNCHANGED <<ask, req, db, queue, worker, stops>>

-----------------------------------------------------------------------------
(* A worker: cmd/worker's loop around Processor.Process.                   *)

Goto(w, p) == pc' = [pc EXCEPT ![w] = p]

\* Process returns; scanCtx ends with it.
Return(w, p, j) ==
  /\ Goto(w, p)
  /\ cur' = [cur EXCEPT ![w] = j]
  /\ ctx' = [ctx EXCEPT ![w] = IF @ = "cancelled" THEN @ ELSE "live"]
  /\ local' = [local EXCEPT ![w] = NoLocal]

\* The loop's select, then BRPOP.
Poll(w) ==
  /\ pc[w] = "poll"
  /\ Goto(w, IF CtxAlive(w) THEN "pop" ELSE "down")
  /\ UNCHANGED <<api, db, queue, cur, ctx, local, stops, hist>>

\* Also when SIGTERM arrives while BRPOP is under way.
Dequeue(w) ==
  /\ pc[w] = "pop" /\ queue # <<>>
  /\ queue' = Pop(queue)
  /\ cur' = [cur EXCEPT ![w] = Head(queue)]
  /\ Goto(w, "load")
  /\ UNCHANGED <<api, db, ctx, local, stops, hist>>

\* BRPOP times out or fails, with or without having popped.
DequeueNothing(w) ==
  /\ pc[w] = "pop"
  /\ \/ /\ queue = <<>> \/ ~CtxAlive(w) \/ "redis" \in Faults
        /\ UNCHANGED queue
     \/ /\ queue # <<>> /\ "lost_pop" \in Faults
        /\ queue' = Tail(queue)
  /\ Goto(w, IF CtxAlive(w) THEN "poll" ELSE "down")
  /\ UNCHANGED <<api, db, cur, ctx, local, stops, hist>>

\* GetScanJob and GetAsset: the authorization is read once, here.
Load(w) ==
  /\ pc[w] = "load"
  /\ \E r \in Results("db", CtxAlive(w)) :
       IF r = "ok"
       THEN /\ Goto(w, "mark")
            /\ local' = [local EXCEPT ![w].auth = authorised[ask[cur[w]].asset],
                                      ![w].todo = ForProfile(ask[cur[w]].profile)]
            /\ UNCHANGED <<cur, ctx>>
       ELSE Return(w, "fail", cur[w])
  /\ UNCHANGED <<api, db, queue, stops, hist>>

MarkRunning(w) ==
  /\ pc[w] = "mark"
  /\ \E r \in Results("db", CtxAlive(w)) :
       /\ Update(cur[w], r, MarkRunningRow(row[cur[w]]))
       /\ IF Started(r) THEN Goto(w, "scan") /\ UNCHANGED <<cur, ctx, local>>
                      ELSE Return(w, "fail", cur[w])
  /\ UNCHANGED <<api, stored, queue, stops, hist>>

Noted(h, s, o) ==
  [h EXCEPT !.ran     = IF o.kind # "error" THEN @ \cup {s} ELSE @,
            !.hit     = IF Yield(o) > 0 THEN @ \cup {s} ELSE @,
            !.refused = IF o.n > Yield(o) THEN @ \cup {s} ELSE @,
            !.missed  = IF o.kind = "error" THEN @ \cup {s} ELSE @,
            !.touched = @ \cup o.touched]

\* One turn of the scanner loop: Scan, then Normalize.  A report that Normalize
\* refuses leaves its flag and nothing else: no finding, and no scanner error.
AfterScan(l, s, o) ==
  [l EXCEPT !.todo     = Tail(@),
            !.errs     = IF o.kind = "error" THEN @ \cup {s} ELSE @,
            !.usedMock = AnyIsMock(l, o),
            !.left     = Yield(o),
            !.from     = IF Yield(o) > 0 THEN <<s, o.kind>> ELSE @]

RunScanner(w) ==
  /\ pc[w] = "scan" /\ ~MoreToStore(local[w]) /\ local[w].todo # <<>>
  /\ LET s == Head(local[w].todo) IN
     \E o \in ScanOutcomes(s, ask[cur[w]].asset, local[w].auth, ctx[w] # "live") :
       /\ local' = [local EXCEPT ![w] = AfterScan(local[w], s, o)]
       /\ hist' = [hist EXCEPT ![cur[w]] = Noted(hist[cur[w]], s, o)]
  /\ UNCHANGED <<api, db, queue, pc, cur, ctx, stops>>

\* A finding that cannot be stored is skipped.
CreateFinding(w) ==
  /\ pc[w] = "scan" /\ MoreToStore(local[w])
  /\ \E r \in Results("db", ctx[w] = "live") :
       /\ stored' = IF Applied(r)
                    THEN [stored EXCEPT ![cur[w]] = @ \cup {local[w].from}] ELSE stored
       /\ local' = [local EXCEPT ![w].left  = @ - 1,
                                 ![w].total = IF r = "ok" THEN @ + 1 ELSE @]
       /\ hist' = IF r = "ok" THEN hist ELSE [hist EXCEPT ![cur[w]].skipped = TRUE]
  /\ UNCHANGED <<api, row, queue, pc, cur, ctx, stops>>

FinalRow(r, l) ==
  IF NothingButErrors(l)
  THEN MarkFailedRow(r, "all scanners failed")
  ELSE MarkCompletedRow(r, l.usedMock)

Finish(w) ==
  /\ pc[w] = "scan" /\ ~MoreToStore(local[w]) /\ local[w].todo = <<>>
  /\ \E r \in Results("db", CtxAlive(w)) :
       /\ Update(cur[w], r, FinalRow(row[cur[w]], local[w]))
       /\ IF r = "ok" THEN Return(w, "poll", NoJob) ELSE Return(w, "fail", cur[w])
  /\ UNCHANGED <<api, stored, queue, stops, hist>>

\* Process returned an error: MarkFailed under a context of its own, and the
\* error of that call is dropped.
RecordFailure(w) ==
  /\ pc[w] = "fail"
  /\ \E r \in Results("db_at_end", BackgroundAlive(w)) :
       Update(cur[w], r, MarkFailedRow(row[cur[w]], "process error"))
  /\ Return(w, "poll", NoJob)
  /\ UNCHANGED <<api, stored, queue, stops, hist>>

-----------------------------------------------------------------------------
(* The environment of a worker.                                            *)

Deadline(w) ==
  /\ "deadline" \in Faults
  /\ pc[w] = "scan" /\ ctx[w] = "live"
  /\ ctx' = [ctx EXCEPT ![w] = "expired"]
  /\ UNCHANGED <<api, db, queue, pc, cur, local, stops, hist>>

Sigterm(w) ==
  /\ "sigterm" \in Faults /\ stops < MaxStops
  /\ pc[w] # "down" /\ CtxAlive(w)
  /\ ctx' = [ctx EXCEPT ![w] = "cancelled"]
  /\ stops' = stops + 1
  /\ UNCHANGED <<api, db, queue, pc, cur, local, hist>>

Kill(w) ==
  /\ "kill" \in Faults /\ stops < MaxStops
  /\ pc[w] # "down"
  /\ Goto(w, "down")
  /\ cur' = [cur EXCEPT ![w] = NoJob]
  /\ local' = [local EXCEPT ![w] = NoLocal]
  /\ stops' = stops + 1
  /\ hist' = IF cur[w] # NoJob /\ MoreToStore(local[w])
             THEN [hist EXCEPT ![cur[w]].skipped = TRUE] ELSE hist
  /\ UNCHANGED <<api, db, queue, ctx>>

\* restart: unless-stopped; a new process has a new context.
Restart(w) ==
  /\ pc[w] = "down"
  /\ Goto(w, "poll")
  /\ ctx' = [ctx EXCEPT ![w] = "live"]
  /\ UNCHANGED <<api, db, queue, cur, local, stops, hist>>

WorkerStep(w) ==
  \/ Poll(w) \/ Dequeue(w) \/ DequeueNothing(w) \/ Load(w) \/ MarkRunning(w)
  \/ RunScanner(w) \/ CreateFinding(w) \/ Finish(w) \/ RecordFailure(w)

Next ==
  \/ \E j \in Jobs : CreateScanJob(j) \/ Enqueue(j)
  \/ \E a \in Governed : AuthorizeAsset(a)
  \/ \E w \in Workers : WorkerStep(w) \/ Restart(w)
  \/ \E w \in Workers : Deadline(w) \/ Sigterm(w) \/ Kill(w)

Spec == Init /\ [][Next]_vars

\* A worker process is scheduled, and the supervisor restarts it when it exits.
Fairness == \A w \in Workers : WF_vars(WorkerStep(w)) /\ WF_vars(Restart(w))

FairSpec == Spec /\ Fairness

-----------------------------------------------------------------------------
(* Properties.                                                             *)

\* A job id is in at most one place: one position of the Redis list or one
\* worker.  Redis's destructive BRPOP is all that keeps two workers apart; no
\* statement of the store checks who owns a job.
SingleDelivery ==
  /\ \A v, w \in Workers : cur[v] = cur[w] /\ cur[v] # NoJob => v = w
  /\ \A i, k \in DOMAIN queue : queue[i] = queue[k] => i = k
  /\ \A w \in Workers, i \in DOMAIN queue : queue[i] # cur[w]

\* An id that waits on the list or is being processed names a row that exists:
\* startScan inserts before it pushes, so GetScanJob never misses.
DeliveredJobsExist ==
  /\ \A i \in DOMAIN queue : row[queue[i]].status # "absent"
  /\ \A w \in Workers : cur[w] # NoJob => row[cur[w]].status # "absent"

\* A job with findings has left "queued": MarkRunning succeeds before the first
\* scanner runs, and no later statement takes the row back.
FindingsOnlyOfStartedJobs ==
  \A j \in Jobs : stored[j] # {} => row[j].status \notin {"absent", "queued"}

\* A completed job says so when any of its findings is canned data (the
\* dashboard shows "mock" or "live" from this flag alone).
MockIsDeclared ==
  \A j \in Jobs : row[j].status = "completed" /\ (\E s \in Scanners : <<s, "mock">> \in stored[j])
                 => row[j].usedMock

\* Production stores no canned finding, whichever adapter ran and however it failed.
ProductionNeverFabricates ==
  Production => \A j \in Jobs : /\ \A s \in Scanners : <<s, "mock">> \notin stored[j]
                                /\ ~row[j].usedMock

Applicable(s, a) == s = "secrets" => a \in RepoAssets

\* A job is recorded completed only when at least one scanner that applies to its
\* asset returned a report ("a scan that ran nothing must not be recorded as a
\* clean completed result"), whatever errors the others and the database gave.
CompletedRanSomething ==
  \A j \in Jobs : row[j].status = "completed" =>
                  \E s \in hist[j].ran : Applicable(s, ask[j].asset)

\* Without the global authorization, a tool contacts somebody only when live scanning
\* is on and either an admin had authorised the asset at some time of the job's life,
\* or a lookup of its host can answer with a private address.  So a host that has no
\* private address is never contacted unauthorised, whichever adapter asks.
UnauthorisedNeverTouched ==
  \A j \in Jobs : hist[j].touched # {} =>
     /\ AllowLiveScan
     /\ \/ ScanAuthorized \/ hist[j].cleared
        \/ \E seen \in Answers[ask[j].asset] : IsSafeTarget(seen)

\* A job recorded completed without findings was handed none by normalize, unless an
\* insertion failed or the worker died at it: the loop of Process loses none.  What
\* normalize itself refuses is the subject of ScannerErrorFailsTheJob.
CleanMeansNothingFound ==
  \A j \in Jobs : row[j].status = "completed" /\ stored[j] = {}
                 => hist[j].hit = {} \/ hist[j].skipped

\* The life of a job, as ScanJobs states it: one start, findings only while it
\* runs, and no way back from a decision.
Promise == INSTANCE ScanJobs WITH status <- [j \in Jobs |-> row[j].status],
                                  found  <- {j \in Jobs : stored[j] # {}}
JobLife == Promise!Spec

\* Every accepted job is decided, as long as no worker dies, no pop is lost and
\* the last MarkFailed gets through.
AcceptedIsDecided ==
  \A j \in Jobs : req[j] = "accepted" ~> row[j].status \in Terminal

\* README.md: "if a scanner cannot run for real [...] the scan job is marked failed
\* [...] never silently recorded as a clean result".  Contradicted twice: a job with
\* one finding completes whatever else failed, and a report that Normalize refuses is
\* dropped without counting as an error, so that a job can complete with nothing.
ScannerErrorFailsTheJob ==
  Production => \A j \in Jobs : row[j].status = "completed"
     => /\ hist[j].missed = {}
        /\ stored[j] = {} => hist[j].refused = {}

\* scanner.go: absent an authorization, "real scanning is limited to loopback / RFC1918
\* so a misconfiguration cannot reach third-party hosts".  Contradicted: one private
\* address in one lookup clears everything the target names at the tool's own lookup.
ThirdPartiesNeverTouched ==
  \A j \in Jobs : "public" \in hist[j].touched => ScanAuthorized \/ hist[j].cleared
=============================================================================
