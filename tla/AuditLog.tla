------------------------------ MODULE AuditLog ------------------------------
(***************************************************************************)
(* The hash-chained audit log: auditMiddleware appends one entry after     *)
(* each state-changing request, in a transaction that takes an advisory    *)
(* lock, reads the newest hash, inserts the next entry and commits.        *)
(*                                                                         *)
(* Requests run concurrently, in any number of API processes.  sha256 is   *)
(* taken to be injective: a hash is the tuple of what it commits to.  Time *)
(* is counted in units of the Go clock; the ts column (TIMESTAMPTZ) keeps  *)
(* one instant in Resolution of them.                                      *)
(***************************************************************************)
EXTENDS Naturals

CONSTANTS
  Requests,    \* state-changing requests
  Nobody,      \* nobody holds the advisory lock
  Genesis,     \* GenesisHash
  Times,       \* bound: the instants time.Now() can return
  Resolution   \* clock units per unit of the ts column

ASSUME AuditAssumption ==
  /\ Nobody \notin Requests
  /\ Times \subseteq Nat
  /\ Resolution \in Nat \ {0}

VARIABLES
  pc,       \* where each request is
  outcome,  \* what its handler did: "none", "done", "refused"
  lock,     \* holder of pg_advisory_xact_lock(auditLockKey)
  last,     \* prev_hash as read by each request
  draft,    \* the row each request inserted and has not committed
  rows,     \* audit_log as committed: sequence number -> row
  next      \* the BIGSERIAL sequence, never rolled back

vars == <<pc, outcome, lock, last, draft, rows, next>>

Seqs   == DOMAIN rows
Inside == {"locked", "read", "inserted"}
Over   == {"recorded", "dropped"}

Init ==
  /\ pc = [r \in Requests |-> "handling"]
  /\ outcome = [r \in Requests |-> "none"]
  /\ lock = Nobody
  /\ last = [r \in Requests |-> Genesis]
  /\ draft = [r \in Requests |-> [seq |-> 0]]
  /\ rows = [s \in {} |-> [seq |-> 0]]
  /\ next = 1

-----------------------------------------------------------------------------
(* Operations.                                                             *)

Hash(prev, ts, r, status) == <<prev, ts, r, status>>

\* pgx sends microseconds: the rest of the instant is cut off.
Stored(t) == (t \div Resolution) * Resolution

Entry(r, s, prev, t) ==
  [seq |-> s, ts |-> Stored(t), req |-> r, status |-> outcome[r],
   prev |-> prev, hash |-> Hash(prev, t, r, outcome[r])]

Goto(r, p) == pc' = [pc EXCEPT ![r] = p]

\* The handler answers; it changed something, or refused (403, 400, 500...).
Handle(r) ==
  /\ pc[r] = "handling"
  /\ \E o \in {"done", "refused"} : outcome' = [outcome EXCEPT ![r] = o]
  /\ Goto(r, "begin")
  /\ UNCHANGED <<lock, last, draft, rows, next>>

\* Mutant: the append does not take the lock.
Unguarded(r) == lock' = lock
TakeLock(r) == lock = Nobody /\ lock' = r

Lock(r) ==
  /\ pc[r] = "begin"
  /\ TakeLock(r)
  /\ Goto(r, "locked")
  /\ UNCHANGED <<outcome, last, draft, rows, next>>

Newest(s) == \A t \in Seqs : t <= s

\* SELECT hash FROM audit_log ORDER BY seq DESC LIMIT 1: a statement of its own, so
\* it sees every row committed before it, and none that is not.
ReadLast(r) ==
  /\ pc[r] = "locked"
  /\ \/ Seqs = {} /\ last' = [last EXCEPT ![r] = Genesis]
     \/ \E s \in Seqs : Newest(s) /\ last' = [last EXCEPT ![r] = rows[s].hash]
  /\ Goto(r, "read")
  /\ UNCHANGED <<outcome, lock, draft, rows, next>>

\* Mutant: the sequence number is given back.
Reuse(n)   == n
Advance(n) == n + 1

Insert(r) ==
  /\ pc[r] = "read"
  /\ \E t \in Times : draft' = [draft EXCEPT ![r] = Entry(r, next, last[r], t)]
  /\ next' = Advance(next)
  /\ Goto(r, "inserted")
  /\ UNCHANGED <<outcome, lock, last, rows>>

\* The transaction ends, and with it the lock.
Unlock(r) == lock' = IF lock = r THEN Nobody ELSE lock
\* Mutant: a lock of the session, which the end of the transaction keeps.
KeepLock(r) == lock' = lock
ReleaseOnAbort(r) == Unlock(r)

\* The answer of the commit can be lost: AppendAudit then returns an error, which
\* is logged.  Mutant: the append is tried again.
TriedAgain == {"recorded", "begin"}
Answered   == {"recorded", "dropped"}

Commit(r) ==
  /\ pc[r] = "inserted"
  /\ rows' = [s \in Seqs \cup {draft[r].seq} |->
                IF s = draft[r].seq THEN draft[r] ELSE rows[s]]
  /\ Unlock(r)
  /\ \E p \in Answered : Goto(r, p)
  /\ UNCHANGED <<outcome, last, draft, next>>

\* Any call of AppendAudit fails, the client goes away, the request times out or
\* the process dies: the transaction is rolled back and the error only logged.
Drop(r) ==
  /\ pc[r] \in {"begin"} \cup Inside
  /\ ReleaseOnAbort(r)
  /\ Goto(r, "dropped")
  /\ UNCHANGED <<outcome, last, draft, rows, next>>

AppendAudit(r) == Lock(r) \/ ReadLast(r) \/ Insert(r) \/ Commit(r)

\* Every request of the instance has been answered.
Idle == (\A r \in Requests : pc[r] \in Over) /\ UNCHANGED vars

Next == (\E r \in Requests : Handle(r) \/ AppendAudit(r) \/ Drop(r)) \/ Idle

Spec == Init /\ [][Next]_vars

\* The server runs the statements of an open transaction.
Fairness == \A r \in Requests : WF_vars(AppendAudit(r))
FairSpec == Spec /\ Fairness

-----------------------------------------------------------------------------
(* Properties.                                                             *)

TypeOK ==
  /\ pc \in [Requests -> {"handling", "begin"} \cup Inside \cup Over]
  /\ outcome \in [Requests -> {"none", "done", "refused"}]
  /\ lock \in Requests \cup {Nobody}
  /\ next \in Nat \ {0}
  /\ Seqs \subseteq 1..(next - 1)
  /\ \A s \in Seqs : rows[s].seq = s /\ rows[s].req \in Requests

Follows(s, t) == t < s /\ ~\E u \in Seqs : t < u /\ u < s
First(s)      == ~\E t \in Seqs : t < s

Linked(s) == /\ First(s) => rows[s].prev = Genesis
             /\ \A t \in Seqs : Follows(s, t) => rows[s].prev = rows[t].hash
Genuine(s) ==
  rows[s].hash = Hash(rows[s].prev, rows[s].ts, rows[s].req, rows[s].status)

\* The chain does not fork: every entry continues the one before it in sequence
\* order, whatever appends ran concurrently and whatever transactions were rolled
\* back in between (their sequence numbers stay unused).
ChainLinked == \A s \in Seqs : Linked(s)

\* verifyAudit answers intact: true.
VerifyIntact == \A s \in Seqs : Linked(s) /\ Genuine(s)

\* A request has at most one entry, with the status it was answered with.
OneEntryPerRequest ==
  /\ \A s, t \in Seqs : rows[s].req = rows[t].req => s = t
  /\ \A s \in Seqs : rows[s].status = outcome[rows[s].req]

\* Entries become visible in sequence order and are never changed or removed: a
\* reader that has seen the log up to s only ever finds newer entries after s.
AppendOnly ==
  [][/\ Seqs \subseteq DOMAIN rows'
     /\ \A s \in Seqs : rows'[s] = rows[s]
     /\ \A s \in DOMAIN rows' \ Seqs, t \in Seqs : t < s]_vars

\* An append that was begun ends: the lock does not outlive its transaction.
AppendEnds ==
  \A r \in Requests : pc[r] = "begin" ~> pc[r] \in Over
=============================================================================
